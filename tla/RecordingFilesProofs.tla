------------------------ MODULE RecordingFilesProofs ------------------------
(***************************************************************************)
(* Proofs about RecordingFiles, for every length of a recording, every     *)
(* earlier recording and any number of accidents.                          *)
(***************************************************************************)
EXTENDS RecordingFiles, TLAPS, FiniteSetTheorems, SequenceTheorems

Bytes == Kinds \cup {Torn}

Steps == Ended \cup {"open", "ending", "finalizing", "data_closed", "closed",
                     "hashed", "published"}

\* The first half of finalize() has been reached and nothing killed the rest.
Finalized == {"finalizing", "data_closed", "closed", "hashed", "published", "returned"}

Writers == [step : Steps, stream : Seq(Bytes), checks : Seq(Checkpoint),
            listed : Seq(Checkpoint), unlinked : BOOLEAN, clean : BOOLEAN,
            payload : Sidecars \cup {Missing}]

Disks == [data : DataFiles \cup {Missing}, checkpoints : CheckpointFiles \cup {Missing},
          sidecar : Sidecars \cup {Missing, TornText}]

Types == /\ writer \in Writers /\ disk \in Disks
         /\ counted \in Seq(Kinds) /\ accidents \in Nat

\* What is whole of events is the beginning of the recorded ones.
Agrees(events, recorded) ==
    \A i \in 1 .. Len(events) :
        events[i] = Torn \/ (i <= Len(recorded) /\ events[i] = recorded[i])

\* The stream holds what was counted and at most one event or fragment more,
\* which a failed or interrupted write left before the stop marker.
StreamInv ==
    /\ writer.step \in {"idle", "open"} => writer.stream = counted
    /\ writer.payload = Missing =>
          writer.stream = counted \/ \E k \in Bytes : writer.stream = Append(counted, k)
    /\ writer.payload # Missing =>
          \E kept \in Seq(Kinds) :
              /\ counted = Append(kept, "boundary")
              /\ \/ writer.stream = counted
                 \/ \E k \in Bytes : writer.stream = Append(Append(kept, k), "boundary")

\* The payload of the sidecar describes what was counted.
PayloadInv ==
    /\ writer.step \in {"idle", "open", "ending"} => writer.payload = Missing
    /\ writer.step \in Finalized => writer.payload # Missing
    /\ writer.payload # Missing =>
          /\ writer.payload.id = 1 /\ writer.payload.counts = Counts(counted)
          /\ writer.payload.checkpoints = Len(writer.listed)
          /\ writer.payload.complete =
                DataComplete(counted, writer.listed, writer.payload.final,
                             writer.payload.clean, writer.payload.lost)
          /\ writer.payload.complete =>
                Last(writer.listed) = [index |-> Len(counted), state |-> writer.payload.final]
    /\ writer.step \in {"hashed", "published", "returned"} =>
          writer.payload.hashes = <<writer.stream, writer.checks>>

\* Checkpoints of a book with events, in order, none beyond event n.
Ordered(checks, n) ==
    /\ \A i \in 1 .. Len(checks) : checks[i].index <= n /\ checks[i].state > 0
    /\ \A i, j \in 1 .. Len(checks) : i < j => checks[i].index < checks[j].index

ChecksInv == Ordered(writer.listed, Len(counted))

\* The stream of checkpoints holds those that are listed.
ListedInv == Len(writer.listed) <= Len(writer.checks)

\* The files at the path, each of them of one of the two recordings.
DataInv ==
    disk.data # Missing =>
        Agrees(disk.data.events,
               IF disk.data.id = 1 THEN writer.stream ELSE EarlierEvents)

SidecarInv ==
    disk.sidecar \notin {Missing, TornText} =>
        IF disk.sidecar.id = 1
        THEN writer.payload # Missing /\ disk.sidecar.counts = Counts(counted)
        ELSE disk.sidecar.counts = Counts(EarlierEvents)

Untouched == writer.step = "returned" /\ accidents = 0

\* Nothing but a second writer or an accident takes a closed file away.
ClosedInv ==
    ~writer.unlinked =>
        /\ writer.step \in {"data_closed", "closed", "hashed", "published"} \/ Untouched =>
              disk.data = DataFile(writer.stream)
        /\ writer.step \in {"closed", "hashed", "published"} \/ Untouched =>
              disk.checkpoints = CheckpointFile(writer.checks)

IInv == /\ Types /\ StreamInv /\ PayloadInv /\ ChecksInv /\ ListedInv
        /\ DataInv /\ SidecarInv /\ ClosedInv
-----------------------------------------------------------------------------
(* Counting events *)

\* Count is a number, and an event more counts once, for its own kind.
LEMMA CountOf ==
    ASSUME NEW S, NEW s \in Seq(S), NEW k
    PROVE  Count(s, k) \in Nat /\ IsFiniteSet({i \in DOMAIN s : s[i] = k})
<1>1. IsFiniteSet(1 .. Len(s)) /\ DOMAIN s = 1 .. Len(s)
      BY FS_Interval
<1>2. {i \in DOMAIN s : s[i] = k} \in SUBSET (1 .. Len(s))
      BY <1>1
<1>3. IsFiniteSet({i \in DOMAIN s : s[i] = k})
      BY <1>1, <1>2, FS_Subset
<1> QED BY <1>3, FS_CardinalityType DEF Count

LEMMA CountAppend ==
    ASSUME NEW S, NEW s \in Seq(S), NEW e \in S, NEW k
    PROVE  Count(Append(s, e), k) = Count(s, k) + (IF e = k THEN 1 ELSE 0)
<1> DEFINE at(r) == {i \in DOMAIN r : r[i] = k}
           n == Len(s) + 1
<1>1. /\ DOMAIN s = 1 .. Len(s) /\ DOMAIN Append(s, e) = 1 .. n
      /\ Append(s, e)[n] = e /\ \A i \in 1 .. Len(s) : Append(s, e)[i] = s[i]
      OBVIOUS
<1>2. at(Append(s, e)) = (IF e = k THEN at(s) \cup {n} ELSE at(s)) /\ n \notin at(s)
      BY <1>1
<1>3. IsFiniteSet(at(s)) /\ Count(s, k) \in Nat
      BY CountOf
<1>4. /\ Count(s, k) = Cardinality(at(s))
      /\ Count(Append(s, e), k) = Cardinality(at(Append(s, e)))
      BY DEF Count
<1> HIDE DEF at
<1>5. CASE e = k
  <2>1. Cardinality(at(s) \cup {n}) = Cardinality(at(s)) + 1
        BY <1>2, <1>3, FS_AddElement
  <2> QED BY <1>2, <1>4, <1>5, <2>1
<1>6. CASE e # k
      BY <1>2, <1>3, <1>4, <1>6
<1> QED BY <1>5, <1>6

\* A proper beginning counts one of the kinds less.
LEMMA CountOfBeginning ==
    ASSUME NEW S, NEW s \in Seq(S), NEW whole \in Seq(S), Len(s) < Len(whole),
           \A i \in 1 .. Len(s) : s[i] = whole[i]
    PROVE  Count(s, whole[Len(s) + 1]) # Count(whole, whole[Len(s) + 1])
<1> DEFINE n == Len(s) + 1
           at(r) == {i \in DOMAIN r : r[i] = whole[n]}
<1>1. /\ DOMAIN s = 1 .. Len(s) /\ DOMAIN whole = 1 .. Len(whole)
      /\ n \in 1 .. Len(whole) /\ n \notin 1 .. Len(s)
      OBVIOUS
<1>2. at(s) \in SUBSET at(whole) /\ n \in at(whole) /\ n \notin at(s)
      BY <1>1
<1>3. IsFiniteSet(at(whole))
      BY CountOf
<1>4. Cardinality(at(whole)) = Cardinality(at(s)) => at(whole) = at(s)
      BY <1>2, <1>3, FS_Subset
<1> QED BY <1>2, <1>4 DEF Count

\* When the counts of a readable beginning of the stream are those of what was
\* counted, it is what was counted: the stream's one event or fragment too many
\* shows in the counts.
LEMMA CountsTell ==
    ASSUME NEW events \in Seq(Kinds), NEW kept \in Seq(Kinds), NEW k \in Bytes,
           NEW stream, Agrees(events, stream),
           \/ stream = Append(kept, "boundary")
           \/ stream = Append(Append(kept, k), "boundary"),
           Counts(events) = Counts(Append(kept, "boundary"))
    PROVE  events = Append(kept, "boundary")
<1> DEFINE whole == Append(kept, "boundary")
           n == Len(kept)
<1>0. "boundary" \in Kinds /\ Torn \notin Kinds /\ Kinds \subseteq Bytes
      BY DEF Kinds, Torn, Bytes
<1>1. whole \in Seq(Kinds) /\ Len(whole) = n + 1 /\ whole[n + 1] = "boundary"
      /\ \A i \in 1 .. n : whole[i] = kept[i]
      BY <1>0
<1>2. \A kind \in Kinds : Count(events, kind) = Count(whole, kind)
  <2>1. \A kind \in Kinds : Counts(events)[kind] = Counts(whole)[kind]
        OBVIOUS
  <2> QED BY <2>1 DEF Counts
<1>3. \A i \in 1 .. Len(events) : events[i] \in Kinds /\ i <= Len(stream) /\ events[i] = stream[i]
      BY <1>0 DEF Agrees
<1>4. \A i \in 1 .. Len(events) : i <= n => events[i] = kept[i]
  <2>1. kept \in Seq(Bytes)
        BY <1>0
  <2>2. \A i \in 1 .. n : stream[i] = kept[i]
    <3>1. CASE stream = whole
          BY <1>1, <3>1
    <3>2. CASE stream = Append(Append(kept, k), "boundary")
      <4>1. Append(kept, k) \in Seq(Bytes) /\ Len(Append(kept, k)) = n + 1
            /\ \A i \in 1 .. n : Append(kept, k)[i] = kept[i]
            BY <2>1
      <4> QED BY <1>0, <3>2, <4>1
    <3> QED BY <3>1, <3>2
  <2> QED BY <1>3, <2>2
<1>5. Len(events) > n
  <2> SUFFICES ASSUME Len(events) <= n PROVE FALSE
      OBVIOUS
  <2>1. Len(events) < Len(whole) /\ \A i \in 1 .. Len(events) : events[i] = whole[i]
        BY <1>1, <1>4
  <2>2. whole[Len(events) + 1] \in Kinds
        BY <1>1, <2>1
  <2> QED BY <1>1, <1>2, <2>1, <2>2, CountOfBeginning
<1>6. CASE stream = whole
  <2>1. Len(events) = n + 1 /\ \A i \in 1 .. n + 1 : events[i] = whole[i]
        BY <1>1, <1>3, <1>5, <1>6
  <2> QED BY <1>1, <2>1, SeqEqual
<1>7. CASE stream = Append(Append(kept, k), "boundary")
  <2>1. /\ Len(stream) = n + 2 /\ stream[n + 1] = k /\ stream[n + 2] = "boundary"
        BY <1>0, <1>7
  <2>2. k \in Kinds
        BY <1>3, <1>5, <2>1
  <2>3. CASE Len(events) = n + 1
    <3>1. events = Append(kept, k)
      <4>1. Append(kept, k) \in Seq(Kinds) /\ Len(Append(kept, k)) = n + 1
            /\ \A i \in 1 .. n + 1 : Append(kept, k)[i] = IF i = n + 1 THEN k ELSE kept[i]
            BY <2>2
      <4>2. \A i \in 1 .. n + 1 : events[i] = IF i = n + 1 THEN k ELSE kept[i]
            BY <1>3, <1>4, <2>1, <2>3
      <4> QED BY <2>3, <4>1, <4>2, SeqEqual
    <3>2. Count(events, k) = Count(kept, k) + 1
          BY <2>2, <3>1, CountAppend
    <3>3. Count(whole, k) = Count(kept, k) + (IF "boundary" = k THEN 1 ELSE 0)
          BY <1>0, CountAppend
    <3>4. Count(kept, k) \in Nat
          BY CountOf
    <3>5. k = "boundary"
          BY <1>2, <2>2, <3>2, <3>3, <3>4
    <3> QED BY <3>1, <3>5
  <2>4. CASE Len(events) = n + 2
    <3> DEFINE longer == Append(kept, k)
    <3>1. longer \in Seq(Kinds) /\ Append(longer, "boundary") \in Seq(Kinds)
          /\ Len(Append(longer, "boundary")) = n + 2
          BY <1>0, <2>2
    <3>2. events = Append(longer, "boundary")
      <4>1. \A i \in 1 .. n + 2 : events[i] = Append(longer, "boundary")[i]
            BY <1>3, <1>7, <2>4
      <4> QED BY <2>4, <3>1, <4>1, SeqEqual
    <3>3. Count(longer, k) = Count(kept, k) + 1
          BY <2>2, CountAppend
    <3> HIDE DEF longer
    <3>3b. Count(events, k) = Count(longer, k) + (IF "boundary" = k THEN 1 ELSE 0)
          BY <1>0, <3>1, <3>2, CountAppend
    <3>4. Count(whole, k) = Count(kept, k) + (IF "boundary" = k THEN 1 ELSE 0)
          BY <1>0, CountAppend
    <3>5. Count(kept, k) \in Nat
          BY CountOf
    <3>6. FALSE
          BY <1>2, <2>2, <3>3, <3>3b, <3>4, <3>5
    <3> QED BY <3>6
  <2>5. Len(events) \in {n + 1, n + 2}
        BY <1>3, <1>5, <2>1
  <2> QED BY <2>3, <2>4, <2>5
<1> QED BY <1>6, <1>7

\* The same of a recording that nothing was added to.
LEMMA CountsOfPart ==
    ASSUME NEW events \in Seq(Kinds), NEW whole \in Seq(Kinds), Agrees(events, whole),
           Counts(events) = Counts(whole)
    PROVE  events = whole
<1>1. \A i \in 1 .. Len(events) : i <= Len(whole) /\ events[i] = whole[i]
  <2>1. Torn \notin Kinds
        BY DEF Kinds, Torn
  <2> QED BY <2>1 DEF Agrees
<1>2. Len(events) <= Len(whole)
      BY <1>1
<1>3. \A kind \in Kinds : Count(events, kind) = Count(whole, kind)
  <2>1. \A kind \in Kinds : Counts(events)[kind] = Counts(whole)[kind]
        OBVIOUS
  <2> QED BY <2>1 DEF Counts
<1>4. CASE Len(events) < Len(whole)
      BY <1>1, <1>3, <1>4, CountOfBeginning
<1>5. CASE Len(events) = Len(whole)
      BY <1>1, <1>5, SeqEqual
<1> QED BY <1>2, <1>4, <1>5

-----------------------------------------------------------------------------
(* Types *)

\* Any part of a sequence, its end perhaps a fragment.
LEMMA CutParts ==
    ASSUME NEW S, NEW s \in Seq(S), NEW fragment \in S, NEW c \in Cut(s, fragment)
    PROVE  /\ c \in Seq(S) /\ Len(c) <= Len(s)
           /\ \A i \in 1 .. Len(c) : c[i] = s[i] \/ c[i] = fragment
<1>1. PICK n \in 0 .. Len(s) :
          c = SubSeq(s, 1, n) \/ (n < Len(s) /\ c = Append(SubSeq(s, 1, n), fragment))
  <2>1. PICK n \in 0 .. Len(s) :
            \/ c = SubSeq(s, 1, n)
            \/ SubSeq(s, 1, n) # s /\ c = Append(SubSeq(s, 1, n), fragment)
        BY DEF Cut
  <2>2. n = Len(s) => SubSeq(s, 1, n) = s
        OBVIOUS
  <2> QED BY <2>1, <2>2
<1> DEFINE p == SubSeq(s, 1, n)
<1>2. p \in Seq(S) /\ Len(p) = n /\ \A i \in 1 .. n : p[i] = s[i]
      OBVIOUS
<1> HIDE DEF p
<1>3. CASE c = p
      BY <1>2, <1>3
<1>4. CASE n < Len(s) /\ c = Append(p, fragment)
      BY <1>2, <1>4
<1> QED BY <1>1, <1>3, <1>4 DEF p

LEMMA Constants ==
    /\ "boundary" \in Kinds /\ Torn \in Bytes /\ Torn \notin Kinds /\ Kinds \subseteq Bytes
    /\ TornCheckpoint \in Checkpoint
    /\ \A s \in Seq(Kinds) : s \in Seq(Bytes)
BY DEF Kinds, Torn, Bytes, TornCheckpoint, Checkpoint

LEMMA CountsType ==
    ASSUME NEW s \in Seq(Kinds)
    PROVE  Counts(s) \in [Kinds -> Nat] /\ BookEvents(s) \in Nat
<1>1. \A k : Count(s, k) \in Nat
      BY CountOf
<1> QED BY <1>1 DEF Counts, BookEvents

LEMMA FileTypes ==
    /\ \A s \in Seq(Bytes) : DataFile(s) \in DataFiles
    /\ \A l \in Seq(Checkpoint) : CheckpointFile(l) \in CheckpointFiles
BY DEF DataFile, CheckpointFile, DataFiles, CheckpointFiles, Bytes

LEMMA ArchiveTypes ==
    /\ Archive.data \in DataFiles /\ Archive.checkpoints \in CheckpointFiles
    /\ Archive.sidecar \in Sidecars
    /\ Archive.data.id = 0 /\ Archive.data.events = EarlierEvents
    /\ Archive.sidecar.id = 0 /\ Archive.sidecar.counts = Counts(EarlierEvents)
    /\ DOMAIN Archive = {"data", "checkpoints", "sidecar"}
<1> DEFINE state == BookEvents(EarlierEvents)
           last == [index |-> Len(EarlierEvents), state |-> state]
           list == <<last>>
<1>1. EarlierEvents \in Seq(Bytes) /\ Len(EarlierEvents) \in Nat /\ state \in Nat
      /\ Counts(EarlierEvents) \in [Kinds -> Nat]
      BY EarlierAssumption, Constants, CountsType
<1> HIDE DEF state
<1>2. list \in Seq(Checkpoint)
      BY <1>1 DEF Checkpoint
<1> HIDE DEF last, list
<1>3. Archive = [data |-> [id |-> 0, events |-> EarlierEvents],
                 checkpoints |-> [id |-> 0, list |-> list],
                 sidecar |-> [id |-> 0, counts |-> Counts(EarlierEvents), checkpoints |-> 1,
                              complete |-> TRUE, clean |-> TRUE, lost |-> FALSE,
                              final |-> state, hashes |-> <<EarlierEvents, list>>]]
      BY DEF Archive, state, last, list
<1>4. [id |-> 0, counts |-> Counts(EarlierEvents), checkpoints |-> 1,
       complete |-> TRUE, clean |-> TRUE, lost |-> FALSE,
       final |-> state, hashes |-> <<EarlierEvents, list>>] \in Sidecars
      BY <1>1, <1>2 DEF Sidecars, Bytes
<1> QED BY <1>1, <1>2, <1>3, <1>4 DEF DataFiles, CheckpointFiles, Bytes

\* The checkpoints and the payload with which finalize() begins.
EndChecks(checks, final) ==
    IF final > 0 THEN WithCheckpoint(checks, Append(counted, "boundary")) ELSE checks
EndListed(final) == EndChecks(writer.listed, final)

EndPayload(final, clean, lost) ==
    LET events == Append(counted, "boundary")
    IN [id |-> 1, counts |-> Counts(events), checkpoints |-> Len(EndListed(final)),
        complete |-> DataComplete(events, EndListed(final), final, clean, lost),
        clean |-> clean, lost |-> lost, final |-> final, hashes |-> <<>>]

LEMMA EndsEffect ==
    ASSUME Types, NEW final \in 0 .. MaxEvents, NEW clean \in BOOLEAN, NEW lost \in BOOLEAN,
           Ends(final, clean, lost)
    PROVE  /\ EndListed(final) \in Seq(Checkpoint)
           /\ EndChecks(writer.checks, final) \in Seq(Checkpoint)
           /\ EndPayload(final, clean, lost) \in Sidecars
           /\ writer' = [writer EXCEPT !.stream = Append(@, "boundary"),
                                       !.checks = EndChecks(@, final),
                                       !.listed = EndListed(final), !.step = "finalizing",
                                       !.payload = EndPayload(final, clean, lost)]
           /\ EndPayload(final, clean, lost).complete =>
                 Last(EndListed(final)) = [index |-> Len(counted) + 1, state |-> final]
<1> DEFINE events == Append(counted, "boundary")
           complete == DataComplete(events, EndListed(final), final, clean, lost)
<1>1. /\ counted \in Seq(Kinds) /\ writer.checks \in Seq(Checkpoint)
      /\ writer.listed \in Seq(Checkpoint)
      BY DEF Types, Writers
<1>2. events \in Seq(Kinds) /\ Len(events) = Len(counted) + 1
      BY <1>1, Constants
<1>3. Counts(events) \in [Kinds -> Nat] /\ BookEvents(events) \in Nat
      BY <1>2, CountsType
<1>4. final \in Nat /\ complete \in BOOLEAN
      BY BoundAssumption DEF DataComplete
<1>5. /\ writer' = [writer EXCEPT !.stream = Append(@, "boundary"),
                                  !.checks = EndChecks(@, final),
                                       !.listed = EndListed(final), !.step = "finalizing",
                                  !.payload = EndPayload(final, clean, lost)]
      /\ complete => Last(EndListed(final)) = [index |-> Len(events), state |-> final]
      BY DEF Ends, EndChecks, EndListed, EndPayload
<1>6. EndPayload(final, clean, lost) =
          [id |-> 1, counts |-> Counts(events), checkpoints |-> Len(EndListed(final)),
           complete |-> complete, clean |-> clean, lost |-> lost, final |-> final,
           hashes |-> <<>>]
      BY DEF EndPayload
<1>7. /\ EndListed(final) \in Seq(Checkpoint) /\ Len(EndListed(final)) \in Nat
      /\ EndChecks(writer.checks, final) \in Seq(Checkpoint)
  <2>1. [index |-> Len(events), state |-> BookEvents(events)] \in Checkpoint
        BY <1>2, <1>3 DEF Checkpoint
  <2> HIDE DEF events
  <2> QED BY <1>1, <2>1 DEF EndListed, EndChecks, WithCheckpoint, events
<1> HIDE DEF events, complete
<1>8. EndPayload(final, clean, lost) \in Sidecars
      BY <1>3, <1>4, <1>6, <1>7 DEF Sidecars
<1> QED BY <1>2, <1>5, <1>6, <1>7, <1>8

LEMMA TypesInit == Init => Types
BY DEF Init, Types, Writers, Disks, Steps, Ended, Nothing

LEMMA TypesStep ==
    ASSUME Types, PayloadInv, ClosedInv, [Next]_vars
    PROVE  Types'
<1>0. /\ writer \in Writers /\ disk \in Disks /\ counted \in Seq(Kinds) /\ accidents \in Nat
      /\ writer.stream \in Seq(Bytes) /\ writer.checks \in Seq(Checkpoint)
      /\ writer.listed \in Seq(Checkpoint)
      BY DEF Types, Writers
<1> USE <1>0, Constants DEF Types
<1>1. CASE Opens
  <2>1. <<>> \in Seq(Bytes) /\ <<>> \in Seq(Checkpoint)
        OBVIOUS
  <2>2. DataFile(<<>>) \in DataFiles /\ CheckpointFile(<<>>) \in CheckpointFiles
        BY <2>1, FileTypes
  <2> QED BY <1>1, <2>2 DEF Opens, Writers, Steps, Disks
<1>2. CASE RivalFails
      BY <1>2 DEF RivalFails, Writers, Disks
<1>3. ASSUME NEW kind \in Kinds, Writes(kind) \/ WriteInterrupted(kind)
      PROVE  Types'
  <2>1. Append(writer.stream, kind) \in Seq(Bytes) /\ Append(counted, kind) \in Seq(Kinds)
        OBVIOUS
  <2> QED BY <1>3, <2>1 DEF Writes, WriteInterrupted, Writers, Steps
<1>4. CASE WriteFails
  <2>1. PICK part \in {<<>>, <<Torn>>} :
            writer' = [writer EXCEPT !.stream = @ \o part, !.step = "ending", !.clean = FALSE]
        BY <1>4 DEF WriteFails
  <2>2. writer.stream \o part \in Seq(Bytes)
    <3>1. writer.stream \o <<>> \in Seq(Bytes) /\ writer.stream \o <<Torn>> \in Seq(Bytes)
          OBVIOUS
    <3> QED BY <3>1
  <2> HIDE Constants
  <2> QED BY <1>4, <2>1, <2>2 DEF WriteFails, Writers, Steps
<1>5. CASE WritesCheckpoint \/ CheckpointInterrupted
  <2>1. /\ WithCheckpoint(writer.checks, counted) \in Seq(Checkpoint)
        /\ WithCheckpoint(writer.listed, counted) \in Seq(Checkpoint)
        BY CountsType DEF WithCheckpoint, Checkpoint
  <2>2. CASE WritesCheckpoint
        BY <2>1, <2>2 DEF WritesCheckpoint, Writers
  <2>3. CASE CheckpointInterrupted
        BY <2>1, <2>3 DEF CheckpointInterrupted, Writers, Steps
  <2> QED BY <1>5, <2>2, <2>3
<1>16. CASE CheckpointFails
  <2>1. PICK part \in {<<>>, <<TornCheckpoint>>} :
            writer' = [writer EXCEPT !.checks = @ \o part, !.step = "ending", !.clean = FALSE]
        BY <1>16 DEF CheckpointFails
  <2>2. writer.checks \o part \in Seq(Checkpoint)
    <3>1. /\ writer.checks \o <<>> \in Seq(Checkpoint)
          /\ writer.checks \o <<TornCheckpoint>> \in Seq(Checkpoint)
          OBVIOUS
    <3> QED BY <3>1
  <2> HIDE Constants
  <2> QED BY <1>16, <2>1, <2>2 DEF CheckpointFails, Writers, Steps
<1>6. ASSUME NEW final \in 0 .. MaxEvents, NEW clean \in BOOLEAN, NEW lost \in BOOLEAN,
             Ends(final, clean, lost)
      PROVE  Types'
  <2>1. Append(counted, "boundary") \in Seq(Kinds) /\ Append(writer.stream, "boundary") \in Seq(Bytes)
        OBVIOUS
  <2>2. counted' = Append(counted, "boundary") /\ UNCHANGED <<disk, accidents>>
        BY <1>6 DEF Ends
  <2>3. /\ EndListed(final) \in Seq(Checkpoint) /\ EndPayload(final, clean, lost) \in Sidecars
        /\ EndChecks(writer.checks, final) \in Seq(Checkpoint)
        /\ writer' = [writer EXCEPT !.stream = Append(@, "boundary"),
                                    !.checks = EndChecks(@, final),
                                    !.listed = EndListed(final), !.step = "finalizing",
                                    !.payload = EndPayload(final, clean, lost)]
        BY <1>6, EndsEffect
  <2> QED BY <2>1, <2>2, <2>3 DEF Writers, Steps
<1>7. CASE ClosesData
  <2>1. DataFile(writer.stream) \in DataFiles
        BY FileTypes
  <2> QED BY <1>7, <2>1 DEF ClosesData, OnDisk, Writers, Steps, Disks
<1>8. CASE ClosesCheckpoints
  <2>1. CheckpointFile(writer.checks) \in CheckpointFiles
        BY FileTypes
  <2> QED BY <1>8, <2>1 DEF ClosesCheckpoints, OnDisk, Writers, Steps, Disks
<1>9. CASE Hashes
  <2>1. /\ writer.payload \in Sidecars
        /\ disk.data.events = writer.stream /\ disk.checkpoints.list = writer.checks
        BY <1>9 DEF Hashes, PayloadInv, Finalized, ClosedInv, DataFile, CheckpointFile, Writers
  <2> DEFINE hashes == <<disk.data.events, disk.checkpoints.list>>
             payload == [writer.payload EXCEPT !.hashes = hashes]
  <2>2. hashes \in Seq(Bytes) \X Seq(Checkpoint)
        BY <2>1
  <2>3. writer' = [writer EXCEPT !.step = "hashed", !.payload = payload]
        BY <1>9 DEF Hashes
  <2> HIDE DEF hashes
  <2>4. payload \in Sidecars
        BY <2>1, <2>2 DEF Sidecars, Bytes
  <2> HIDE DEF payload
  <2> QED BY <1>9, <2>3, <2>4 DEF Hashes, Writers, Steps
<1>10. CASE Publishes
  <2>1. writer.payload \in Sidecars
        BY <1>10 DEF Publishes, PayloadInv, Finalized, Writers
  <2> QED BY <1>10, <2>1 DEF Publishes, Writers, Steps, Disks
<1>11. CASE Returns
      BY <1>11 DEF Returns, Writers, Steps, Ended
<1>12. CASE Dies
  <2>1. PICK events \in Cut(writer.stream, Torn),
             list \in Cut(writer.checks, TornCheckpoint) :
             disk' = [disk EXCEPT !.data = OnDisk(@, DataFile(events)),
                                  !.checkpoints = OnDisk(@, CheckpointFile(list))]
        BY <1>12 DEF Dies
  <2>2. DataFile(events) \in DataFiles /\ CheckpointFile(list) \in CheckpointFiles
        BY CutParts, FileTypes
  <2> QED BY <1>12, <2>1, <2>2 DEF Dies, OnDisk, Writers, Steps, Ended, Disks
<1>13. CASE PowerFails
      BY <1>13 DEF PowerFails, Writers, Steps, Ended, Disks
<1>14. CASE Accident
  <2>1. accidents' \in Nat /\ UNCHANGED <<writer, counted>>
        BY <1>14 DEF Accident
  <2>2. DOMAIN disk = {"data", "checkpoints", "sidecar"}
        BY DEF Disks
  <2>3. CASE \E f \in DOMAIN disk : disk' = [disk EXCEPT ![f] = Missing]
        BY <2>1, <2>2, <2>3 DEF Disks
  <2>4. CASE \E f \in DOMAIN disk : disk' = [disk EXCEPT ![f] = Archive[f]]
    <3>1. PICK f \in DOMAIN disk : disk' = [disk EXCEPT ![f] = Archive[f]]
          BY <2>4
    <3>2. CASE f = "data"
          BY <2>1, <3>1, <3>2, ArchiveTypes DEF Disks
    <3>3. CASE f = "checkpoints"
          BY <2>1, <3>1, <3>3, ArchiveTypes DEF Disks
    <3>4. CASE f = "sidecar"
          BY <2>1, <3>1, <3>4, ArchiveTypes DEF Disks
    <3> QED BY <2>2, <3>1, <3>2, <3>3, <3>4
  <2>5. CASE /\ disk.data # Missing
             /\ \E s \in Cut(disk.data.events, Torn) :
                   disk' = [disk EXCEPT !.data.events = s]
    <3>1. PICK s \in Cut(disk.data.events, Torn) : disk' = [disk EXCEPT !.data.events = s]
          BY <2>5
    <3>2. disk.data \in DataFiles /\ s \in Seq(Bytes)
          BY <2>5, CutParts DEF Disks, DataFiles, Bytes
    <3>3. [disk.data EXCEPT !.events = s] \in DataFiles
          BY <3>2 DEF DataFiles, Bytes
    <3> QED BY <2>1, <3>1, <3>3 DEF Disks
  <2>6. CASE /\ disk.checkpoints # Missing
             /\ \E s \in Cut(disk.checkpoints.list, TornCheckpoint) :
                   disk' = [disk EXCEPT !.checkpoints.list = s]
    <3>1. PICK s \in Cut(disk.checkpoints.list, TornCheckpoint) :
              disk' = [disk EXCEPT !.checkpoints.list = s]
          BY <2>6
    <3>2. disk.checkpoints \in CheckpointFiles /\ s \in Seq(Checkpoint)
          BY <2>6, CutParts DEF Disks, CheckpointFiles
    <3>3. [disk.checkpoints EXCEPT !.list = s] \in CheckpointFiles
          BY <3>2 DEF CheckpointFiles
    <3> QED BY <2>1, <3>1, <3>3 DEF Disks
  <2> QED BY <1>14, <2>3, <2>4, <2>5, <2>6 DEF Accident
<1>15. CASE UNCHANGED vars
      BY <1>15 DEF vars
<1> QED BY <1>1, <1>2, <1>3, <1>4, <1>5, <1>6, <1>7, <1>8, <1>9, <1>10, <1>11, <1>12,
           <1>13, <1>14, <1>15, <1>16 DEF Next

-----------------------------------------------------------------------------
(* The writer *)

\* Steps that leave the stream, the checkpoints, the counters and the payload.
LEMMA WriterRests ==
    ASSUME Types, \/ Opens \/ RivalFails \/ ClosesData \/ ClosesCheckpoints \/ Publishes
                  \/ Returns \/ Dies \/ PowerFails \/ Accident \/ UNCHANGED vars
    PROVE  /\ UNCHANGED <<writer.stream, writer.checks, writer.listed, writer.payload, counted>>
           /\ writer'.step \in {"idle", "open"} => writer.step \in {"idle", "open"}
           /\ writer'.step = "ending" => writer.step = "ending"
           /\ writer'.step \in Finalized => writer.step \in Finalized
           /\ writer'.step \in {"hashed", "published", "returned"} =>
                 writer.step \in {"hashed", "published", "returned"}
<1> USE DEF Types, Writers, Finalized
<1>1. CASE Opens \/ RivalFails
      BY <1>1 DEF Opens, RivalFails
<1>2. CASE ClosesData \/ ClosesCheckpoints \/ Publishes
      BY <1>2 DEF ClosesData, ClosesCheckpoints, Publishes
<1>3. CASE Returns \/ Dies \/ PowerFails
      BY <1>3 DEF Returns, Dies, PowerFails
<1>4. CASE Accident \/ UNCHANGED vars
      BY <1>4 DEF Accident, vars
<1> QED BY <1>1, <1>2, <1>3, <1>4

LEMMA StreamInit == Init => StreamInv /\ PayloadInv /\ ChecksInv /\ ListedInv
BY DEF Init, StreamInv, PayloadInv, ChecksInv, ListedInv, Ordered, Finalized

LEMMA PayloadStep ==
    ASSUME Types, PayloadInv, ClosedInv, [Next]_vars
    PROVE  PayloadInv'
<1>0. /\ writer \in Writers /\ counted \in Seq(Kinds)
      /\ writer.stream \in Seq(Bytes) /\ writer.checks \in Seq(Checkpoint)
      /\ writer.listed \in Seq(Checkpoint)
      BY DEF Types, Writers
<1> USE <1>0 DEF PayloadInv, Finalized
<1>1. CASE \/ Opens \/ RivalFails \/ ClosesData \/ ClosesCheckpoints \/ Publishes
           \/ Returns \/ Dies \/ PowerFails \/ Accident \/ UNCHANGED vars
      BY <1>1, WriterRests
<1>2. ASSUME NEW kind \in Kinds, Writes(kind) \/ WriteInterrupted(kind)
      PROVE  PayloadInv'
      BY <1>2 DEF Writes, WriteInterrupted, Writers
<1>3. CASE WriteFails
      BY <1>3 DEF WriteFails, Writers
<1>4. CASE WritesCheckpoint \/ CheckpointFails \/ CheckpointInterrupted
      BY <1>4 DEF CheckpointDue, WritesCheckpoint, CheckpointFails, CheckpointInterrupted,
                  Writers
<1>5. ASSUME NEW final \in 0 .. MaxEvents, NEW clean \in BOOLEAN, NEW lost \in BOOLEAN,
             Ends(final, clean, lost)
      PROVE  PayloadInv'
  <2> DEFINE checks == EndListed(final)
             payload == EndPayload(final, clean, lost)
  <2>1. /\ writer'.step = "finalizing" /\ writer'.listed = checks
        /\ writer'.payload = payload /\ payload # Missing
        /\ payload.complete => Last(checks) = [index |-> Len(counted) + 1, state |-> final]
    <3>1. /\ payload \in Sidecars
          /\ writer' = [writer EXCEPT !.stream = Append(@, "boundary"),
                                      !.checks = EndChecks(@, final), !.listed = checks,
                                      !.step = "finalizing", !.payload = payload]
          /\ payload.complete => Last(checks) = [index |-> Len(counted) + 1, state |-> final]
          BY <1>5, EndsEffect
    <3> HIDE DEF checks, payload
    <3> QED BY <3>1, AbsenceAssumption DEF Writers
  <2>2. counted' = Append(counted, "boundary") /\ Len(counted') = Len(counted) + 1
        BY <1>5, Constants DEF Ends
  <2>3. /\ payload.id = 1 /\ payload.counts = Counts(counted')
        /\ payload.checkpoints = Len(checks) /\ payload.clean = clean
        /\ payload.lost = lost /\ payload.final = final
        /\ payload.complete = DataComplete(counted', checks, final, clean, lost)
        BY <2>2 DEF EndPayload
  <2> HIDE DEF payload, checks
  <2> QED BY <2>1, <2>2, <2>3
<1>6. CASE Hashes
  <2>1. /\ writer.payload # Missing /\ writer.payload \in Sidecars
        /\ disk.data.events = writer.stream /\ disk.checkpoints.list = writer.checks
        BY <1>6 DEF Hashes, ClosedInv, DataFile, CheckpointFile, Writers
  <2> DEFINE payload == [writer.payload EXCEPT !.hashes = <<writer.stream, writer.checks>>]
  <2>2. /\ writer' = [writer EXCEPT !.step = "hashed", !.payload = payload]
        /\ counted' = counted
        BY <1>6, <2>1 DEF Hashes
  <2>3. /\ payload.id = writer.payload.id /\ payload.counts = writer.payload.counts
        /\ payload.checkpoints = writer.payload.checkpoints
        /\ payload.complete = writer.payload.complete /\ payload.clean = writer.payload.clean
        /\ payload.lost = writer.payload.lost /\ payload.final = writer.payload.final
        /\ payload.hashes = <<writer.stream, writer.checks>>
        BY <2>1 DEF Sidecars
  <2>4. payload # Missing
    <3>1. payload \in Sidecars
          BY <2>1 DEF Sidecars, Bytes
    <3> QED BY <3>1, AbsenceAssumption
  <2> HIDE DEF payload
  <2>5. /\ writer'.step = "hashed" /\ writer'.payload = payload
        /\ writer'.stream = writer.stream /\ writer'.checks = writer.checks
        /\ writer'.listed = writer.listed
        BY <2>2 DEF Writers
  <2> QED BY <2>1, <2>2, <2>3, <2>4, <2>5
<1> QED BY <1>1, <1>2, <1>3, <1>4, <1>5, <1>6 DEF Next

LEMMA StreamStep ==
    ASSUME Types, StreamInv, PayloadInv, ClosedInv, [Next]_vars
    PROVE  StreamInv'
<1>0. /\ writer \in Writers /\ counted \in Seq(Kinds)
      /\ writer.stream \in Seq(Bytes) /\ writer.checks \in Seq(Checkpoint)
      /\ writer.listed \in Seq(Checkpoint)
      BY DEF Types, Writers
<1> USE <1>0, Constants DEF StreamInv
<1>1. CASE \/ Opens \/ RivalFails \/ ClosesData \/ ClosesCheckpoints \/ Publishes
           \/ Returns \/ Dies \/ PowerFails \/ Accident \/ UNCHANGED vars
      BY <1>1, WriterRests
<1>2. ASSUME NEW kind \in Kinds, Writes(kind) \/ WriteInterrupted(kind)
      PROVE  StreamInv'
  <2>1. writer.step = "open" /\ writer.stream = counted /\ writer.payload = Missing
        BY <1>2 DEF Writes, WriteInterrupted, PayloadInv
  <2>2. CASE Writes(kind)
        BY <2>1, <2>2 DEF Writes, Writers
  <2>3. CASE WriteInterrupted(kind)
        BY <2>1, <2>3 DEF WriteInterrupted, Writers
  <2> QED BY <1>2, <2>2, <2>3
<1>3. CASE WriteFails
  <2>1. /\ writer.stream = counted /\ counted' = counted
        /\ writer'.step = "ending" /\ writer'.payload = Missing
        BY <1>3 DEF WriteFails, Writers, PayloadInv
  <2>2. PICK part \in {<<>>, <<Torn>>} : writer'.stream = counted \o part
        BY <1>3, <2>1 DEF WriteFails, Writers
  <2>3. counted \o <<>> = counted /\ counted \o <<Torn>> = Append(counted, Torn)
        OBVIOUS
  <2> QED BY <2>1, <2>2, <2>3
<1>4. CASE WritesCheckpoint \/ CheckpointFails \/ CheckpointInterrupted
      BY <1>4 DEF CheckpointDue, WritesCheckpoint, CheckpointFails, CheckpointInterrupted,
                  Writers, PayloadInv
<1>5. ASSUME NEW final \in 0 .. MaxEvents, NEW clean \in BOOLEAN, NEW lost \in BOOLEAN,
             Ends(final, clean, lost)
      PROVE  StreamInv'
  <2>1. /\ writer.step \in {"open", "ending"} /\ counted' = Append(counted, "boundary")
        /\ writer'.stream = Append(writer.stream, "boundary") /\ writer'.step = "finalizing"
        BY <1>5 DEF Ends, Writers
  <2>2. \/ writer.stream = counted
        \/ \E k \in Bytes : writer.stream = Append(counted, k)
        BY <2>1 DEF PayloadInv
  <2>3. writer'.payload # Missing
        BY <1>5, <2>1, PayloadStep DEF Next, PayloadInv, Finalized
  <2> QED BY <2>1, <2>2, <2>3
<1>6. CASE Hashes
  <2>1. UNCHANGED <<writer.stream, counted>> /\ writer.step = "closed"
        /\ writer'.step = "hashed"
        BY <1>6 DEF Hashes, Writers
  <2>2. writer.payload # Missing /\ writer'.payload # Missing
        BY <2>1, PayloadStep DEF PayloadInv, Finalized
  <2> QED BY <2>1, <2>2
<1> QED BY <1>1, <1>2, <1>3, <1>4, <1>5, <1>6 DEF Next

LEMMA OrderedAppend ==
    ASSUME NEW checks \in Seq(Checkpoint), NEW check \in Checkpoint, NEW n \in Nat,
           NEW m \in Nat, n <= m, Ordered(checks, n), check.state > 0, check.index <= m,
           \A i \in 1 .. Len(checks) : checks[i].index < check.index
    PROVE  Ordered(Append(checks, check), m)
<1> DEFINE longer == Append(checks, check)
<1>1. /\ Len(longer) = Len(checks) + 1 /\ longer[Len(checks) + 1] = check
      /\ \A i \in 1 .. Len(checks) : longer[i] = checks[i] /\ checks[i] \in Checkpoint
      OBVIOUS
<1> HIDE DEF longer
<1>2. \A i \in 1 .. Len(longer) : i = Len(checks) + 1 \/ i \in 1 .. Len(checks)
      BY <1>1
<1>3. \A i \in 1 .. Len(longer) : longer[i].index <= m /\ longer[i].state > 0
  <2> SUFFICES ASSUME NEW i \in 1 .. Len(longer)
               PROVE  longer[i].index <= m /\ longer[i].state > 0
      OBVIOUS
  <2>1. CASE i = Len(checks) + 1
        BY <1>1, <2>1
  <2>2. CASE i \in 1 .. Len(checks)
    <3>1. longer[i] = checks[i] /\ checks[i].index \in Nat /\ checks[i].index <= n
          /\ checks[i].state > 0
          BY <1>1, <2>2 DEF Ordered, Checkpoint
    <3> QED BY <3>1
  <2> QED BY <1>2, <2>1, <2>2
<1>4. ASSUME NEW i \in 1 .. Len(longer), NEW j \in 1 .. Len(longer), i < j
      PROVE  longer[i].index < longer[j].index
  <2>1. i \in 1 .. Len(checks)
        BY <1>1, <1>4
  <2> QED BY <1>1, <1>2, <1>4, <2>1 DEF Ordered
<1> QED BY <1>3, <1>4 DEF Ordered, longer

LEMMA ChecksStep ==
    ASSUME Types, ChecksInv, [Next]_vars
    PROVE  ChecksInv'
<1>0. /\ writer \in Writers /\ counted \in Seq(Kinds)
      /\ writer.checks \in Seq(Checkpoint) /\ writer.listed \in Seq(Checkpoint)
      /\ Len(counted) \in Nat
      /\ \A i \in 1 .. Len(writer.listed) : writer.listed[i] \in Checkpoint
      BY DEF Types, Writers
<1> USE <1>0 DEF ChecksInv
<1>1. CASE \/ Opens \/ RivalFails \/ ClosesData \/ ClosesCheckpoints \/ Publishes
           \/ Returns \/ Dies \/ PowerFails \/ Accident \/ UNCHANGED vars
      BY <1>1, WriterRests
<1>2. ASSUME NEW kind \in Kinds, Writes(kind)
      PROVE  ChecksInv'
  <2>1. writer'.listed = writer.listed /\ Len(counted') = Len(counted) + 1
        BY <1>2 DEF Writes, Writers
  <2> QED BY <2>1 DEF Ordered, Checkpoint
<1>3. CASE \/ WriteFails \/ Hashes \/ CheckpointFails \/ CheckpointInterrupted
           \/ \E kind \in Kinds : WriteInterrupted(kind)
  <2>1. writer'.listed = writer.listed /\ counted' = counted
        BY <1>3 DEF WriteFails, Hashes, CheckpointFails, CheckpointInterrupted,
                    WriteInterrupted, Writers
  <2> QED BY <2>1
<1>4. CASE WritesCheckpoint
  <2> DEFINE check == [index |-> Len(counted), state |-> BookEvents(counted)]
  <2>1. check \in Checkpoint /\ check.state > 0 /\ check.index <= Len(counted)
        BY <1>4, CountsType DEF CheckpointDue, WritesCheckpoint, Checkpoint
  <2>2. \A i \in 1 .. Len(writer.listed) : writer.listed[i].index < check.index
        BY <1>4 DEF CheckpointDue, WritesCheckpoint, Later
  <2>3. counted' = counted /\ writer'.listed = Append(writer.listed, check)
        BY <1>4 DEF WritesCheckpoint, WithCheckpoint, Writers
  <2> HIDE DEF check
  <2> QED BY <2>1, <2>2, <2>3, OrderedAppend
<1>5. ASSUME NEW final \in 0 .. MaxEvents, NEW clean \in BOOLEAN, NEW lost \in BOOLEAN,
             Ends(final, clean, lost)
      PROVE  ChecksInv'
  <2> DEFINE events == Append(counted, "boundary")
             check == [index |-> Len(events), state |-> BookEvents(events)]
  <2>1. events \in Seq(Kinds) /\ Len(events) = Len(counted) + 1 /\ counted' = events
        BY <1>5, Constants DEF Ends
  <2>2. writer'.listed = IF final > 0 THEN Append(writer.listed, check) ELSE writer.listed
    <3>1. writer'.listed = EndListed(final)
          BY <1>5, EndsEffect DEF Writers
    <3> QED BY <3>1 DEF EndListed, EndChecks, WithCheckpoint
  <2>3. final \in {0, BookEvents(events)} /\ final \in Nat
        BY <1>5, BoundAssumption DEF Ends
  <2>4. CASE final = 0
    <3>1. writer'.listed = writer.listed /\ Len(counted') = Len(counted) + 1
          BY <2>1, <2>2, <2>4
    <3>2. \A i \in 1 .. Len(writer.listed) : writer.listed[i].index \in Nat
          BY DEF Checkpoint
    <3> QED BY <3>1, <3>2 DEF Ordered
  <2>5. CASE final > 0
    <3>1. check \in Checkpoint /\ check.state > 0 /\ check.index = Len(counted) + 1
          BY <2>1, <2>3, <2>5, CountsType DEF Checkpoint
    <3>2. \A i \in 1 .. Len(writer.listed) : writer.listed[i].index < check.index
          BY <3>1 DEF Ordered, Checkpoint
    <3> HIDE DEF check, events
    <3>3. Ordered(Append(writer.listed, check), Len(counted) + 1)
          BY <3>1, <3>2, OrderedAppend
    <3> QED BY <2>1, <2>2, <2>5, <3>3
  <2> QED BY <2>3, <2>4, <2>5
<1> QED BY <1>1, <1>2, <1>3, <1>4, <1>5 DEF Next

LEMMA ListedStep ==
    ASSUME Types, ListedInv, [Next]_vars
    PROVE  ListedInv'
<1>0. /\ writer \in Writers /\ counted \in Seq(Kinds)
      /\ writer.checks \in Seq(Checkpoint) /\ writer.listed \in Seq(Checkpoint)
      BY DEF Types, Writers
<1> USE <1>0 DEF ListedInv
<1>1. CASE \/ Opens \/ RivalFails \/ ClosesData \/ ClosesCheckpoints \/ Publishes
           \/ Returns \/ Dies \/ PowerFails \/ Accident \/ UNCHANGED vars
      BY <1>1, WriterRests
<1>2. CASE \/ WriteFails \/ Hashes
           \/ \E kind \in Kinds : Writes(kind) \/ WriteInterrupted(kind)
      BY <1>2 DEF WriteFails, Hashes, Writes, WriteInterrupted, Writers
\* A checkpoint is appended to the stream first.
<1>3. \A s \in Seq(Checkpoint), n \in Seq(Kinds) :
          Len(WithCheckpoint(s, n)) = Len(s) + 1
  <2> SUFFICES ASSUME NEW s \in Seq(Checkpoint), NEW n \in Seq(Kinds)
               PROVE  Len(WithCheckpoint(s, n)) = Len(s) + 1
      OBVIOUS
  <2>1. [index |-> Len(n), state |-> BookEvents(n)] \in Checkpoint
        BY CountsType DEF Checkpoint
  <2> QED BY <2>1 DEF WithCheckpoint
<1>4. CASE WritesCheckpoint \/ CheckpointInterrupted
  <2>1. /\ writer'.checks = WithCheckpoint(writer.checks, counted)
        /\ writer'.listed \in {writer.listed, WithCheckpoint(writer.listed, counted)}
        BY <1>4 DEF WritesCheckpoint, CheckpointInterrupted, Writers
  <2> QED BY <1>3, <2>1
<1>5. CASE CheckpointFails
  <2>1. PICK part \in {<<>>, <<TornCheckpoint>>} : writer'.checks = writer.checks \o part
        BY <1>5 DEF CheckpointFails, Writers
  <2>2. writer'.listed = writer.listed
        BY <1>5 DEF CheckpointFails, Writers
  <2>3. /\ Len(writer.checks \o <<>>) = Len(writer.checks)
        /\ Len(writer.checks \o <<TornCheckpoint>>) = Len(writer.checks) + 1
        BY Constants
  <2> QED BY <2>1, <2>2, <2>3
<1>6. ASSUME NEW final \in 0 .. MaxEvents, NEW clean \in BOOLEAN, NEW lost \in BOOLEAN,
             Ends(final, clean, lost)
      PROVE  ListedInv'
  <2>1. /\ writer'.checks = EndChecks(writer.checks, final)
        /\ writer'.listed = EndListed(final)
    <3> DEFINE checks == EndChecks(writer.checks, final)
               listed == EndListed(final)
               payload == EndPayload(final, clean, lost)
    <3>1. writer' = [writer EXCEPT !.stream = Append(@, "boundary"), !.checks = checks,
                                   !.listed = listed, !.step = "finalizing",
                                   !.payload = payload]
          BY <1>6, EndsEffect
    <3> HIDE DEF checks, listed, payload
    <3>2. writer'.checks = checks /\ writer'.listed = listed
          BY <3>1 DEF Writers
    <3> QED BY <3>2 DEF checks, listed
  <2>2. Append(counted, "boundary") \in Seq(Kinds)
        BY Constants
  <2>3. /\ Len(WithCheckpoint(writer.checks, Append(counted, "boundary"))) =
              Len(writer.checks) + 1
        /\ Len(WithCheckpoint(writer.listed, Append(counted, "boundary"))) =
              Len(writer.listed) + 1
        BY <1>3, <2>2
  <2>4. CASE final > 0
    <3>1. /\ writer'.checks = WithCheckpoint(writer.checks, Append(counted, "boundary"))
          /\ writer'.listed = WithCheckpoint(writer.listed, Append(counted, "boundary"))
          BY <2>1, <2>4 DEF EndChecks, EndListed
    <3> QED BY <2>3, <3>1
  <2>5. CASE ~ (final > 0)
    <3>1. writer'.checks = writer.checks /\ writer'.listed = writer.listed
          BY <2>1, <2>5 DEF EndChecks, EndListed
    <3> QED BY <3>1
  <2> QED BY <2>4, <2>5
<1> QED BY <1>1, <1>2, <1>4, <1>5, <1>6 DEF Next

-----------------------------------------------------------------------------
(* The files *)

\* A file agrees with a stream that went on, and a cut file with the same.
LEMMA AgreesLonger ==
    ASSUME NEW events, NEW s \in Seq(Bytes), NEW e \in Bytes, Agrees(events, s)
    PROVE  Agrees(events, Append(s, e))
BY DEF Agrees

LEMMA AgreesCut ==
    ASSUME NEW recorded, NEW events \in Seq(Bytes), Agrees(events, recorded),
           NEW c \in Cut(events, Torn)
    PROVE  Agrees(c, recorded)
BY CutParts, Constants DEF Agrees

LEMMA AgreesItself ==
    ASSUME NEW s \in Seq(Bytes)
    PROVE  Agrees(s, s) /\ Agrees(<<>>, s)
BY DEF Agrees

LEMMA FilesInit == Init => DataInv /\ SidecarInv /\ ClosedInv
BY DEF Init, DataInv, SidecarInv, ClosedInv, Nothing, Untouched

\* The stream is only appended to.
LEMMA StreamGrows ==
    ASSUME Types, [Next]_vars
    PROVE  \/ writer'.stream = writer.stream
           \/ \E e \in Bytes : writer'.stream = Append(writer.stream, e)
<1>0. writer \in Writers /\ writer.stream \in Seq(Bytes)
      BY DEF Types, Writers
<1>1. CASE \/ Opens \/ RivalFails \/ ClosesData \/ ClosesCheckpoints \/ Publishes
           \/ Returns \/ Dies \/ PowerFails \/ Accident \/ UNCHANGED vars
      BY <1>1, WriterRests
<1>2. CASE \E kind \in Kinds : Writes(kind) \/ WriteInterrupted(kind)
      BY <1>0, <1>2, Constants DEF Writes, WriteInterrupted, Writers
<1>3. CASE WriteFails
  <2>1. PICK part \in {<<>>, <<Torn>>} : writer'.stream = writer.stream \o part
        BY <1>0, <1>3 DEF WriteFails, Writers
  <2>2. /\ writer.stream \o <<>> = writer.stream
        /\ writer.stream \o <<Torn>> = Append(writer.stream, Torn)
        BY <1>0
  <2> QED BY <2>1, <2>2, Constants
<1>4. CASE WritesCheckpoint \/ CheckpointFails \/ CheckpointInterrupted \/ Hashes
      BY <1>0, <1>4 DEF WritesCheckpoint, CheckpointFails, CheckpointInterrupted, Hashes,
                        Writers
<1>5. CASE \E final \in 0 .. MaxEvents, clean, lost \in BOOLEAN : Ends(final, clean, lost)
      BY <1>0, <1>5, Constants DEF Ends, Writers
<1> QED BY <1>1, <1>2, <1>3, <1>4, <1>5 DEF Next

LEMMA DataStep ==
    ASSUME Types, DataInv, [Next]_vars
    PROVE  DataInv'
<1>0. /\ disk \in Disks /\ writer.stream \in Seq(Bytes) /\ writer.checks \in Seq(Checkpoint)
      /\ disk.data # Missing => disk.data \in DataFiles /\ disk.data.events \in Seq(Bytes)
      BY DEF Types, Disks, Writers, DataFiles, Bytes
\* The stream's growth never takes the agreement away.
<1>1. ASSUME disk'.data = disk.data
      PROVE  DataInv'
      BY <1>0, <1>1, StreamGrows, AgreesLonger DEF DataInv
<1>2. CASE Opens \/ ClosesData
  <2>1. /\ UNCHANGED writer.stream
        /\ \/ disk'.data = disk.data
           \/ \E e \in {<<>>, writer.stream} : disk'.data = DataFile(e)
        BY <1>0, <1>2, WriterRests DEF Opens, ClosesData, OnDisk, Disks
  <2> QED BY <1>0, <1>1, <2>1, AgreesItself DEF DataFile, DataInv
<1>3. CASE RivalFails
      BY <1>0, <1>3 DEF RivalFails, DataInv, Disks
<1>4. CASE Dies
  <2>1. UNCHANGED writer.stream
        BY <1>4, WriterRests
  <2>2. \/ disk'.data = disk.data
        \/ \E e \in Cut(writer.stream, Torn) : disk'.data = DataFile(e)
        BY <1>0, <1>4 DEF Dies, OnDisk, Disks
  <2>3. \A e \in Cut(writer.stream, Torn) : Agrees(e, writer.stream)
        BY <1>0, AgreesCut, AgreesItself
  <2>4. ASSUME NEW e \in Cut(writer.stream, Torn), disk'.data = DataFile(e)
        PROVE  DataInv'
    <3>1. disk'.data.id = 1 /\ disk'.data.events = e
          BY <2>4 DEF DataFile
    <3> QED BY <2>1, <2>3, <3>1 DEF DataInv
  <2> QED BY <1>1, <2>2, <2>4
<1>5. CASE Accident
  <2>1. UNCHANGED writer
        BY <1>5 DEF Accident
  <2>2. \/ disk'.data = disk.data \/ disk'.data = Missing \/ disk'.data = Archive.data
        \/ /\ disk.data # Missing
           /\ \E c \in Cut(disk.data.events, Torn) :
                 disk'.data = [disk.data EXCEPT !.events = c]
        BY <1>0, <1>5 DEF Accident, Disks
  <2>3. CASE disk'.data = Archive.data
    <3>1. disk'.data.id = 0 /\ disk'.data.events = EarlierEvents
          BY <2>3, ArchiveTypes
    <3>2. Agrees(EarlierEvents, EarlierEvents)
          BY AgreesItself, EarlierAssumption, Constants
    <3> QED BY <3>1, <3>2 DEF DataInv
  <2>4. ASSUME disk.data # Missing, NEW c \in Cut(disk.data.events, Torn),
               disk'.data = [disk.data EXCEPT !.events = c]
        PROVE  DataInv'
    <3>1. disk'.data.events = c /\ disk'.data.id = disk.data.id
          BY <1>0, <2>4 DEF DataFiles
    <3> QED BY <1>0, <2>1, <2>4, <3>1, AgreesCut DEF DataInv
  <2> QED BY <1>1, <2>2, <2>3, <2>4 DEF DataInv
<1>6. [Next]_vars => \/ Opens \/ ClosesData \/ RivalFails \/ Dies \/ Accident
                     \/ disk'.data = disk.data
      BY <1>0 DEF Next, vars, Writes, WriteInterrupted, WriteFails, WritesCheckpoint,
                  CheckpointFails, CheckpointInterrupted, Ends, ClosesCheckpoints,
                  Hashes, Publishes, Returns, PowerFails, Disks
<1> QED BY <1>1, <1>2, <1>3, <1>4, <1>5, <1>6

LEMMA SidecarStep ==
    ASSUME Types, PayloadInv, SidecarInv, ClosedInv, [Next]_vars
    PROVE  SidecarInv'
<1>0. disk \in Disks /\ writer \in Writers
      BY DEF Types
<1>1. CASE Publishes
  <2>1. /\ disk'.sidecar = writer.payload /\ UNCHANGED <<counted, writer.payload>>
        /\ writer.payload # Missing /\ writer.payload.id = 1
        /\ writer.payload.counts = Counts(counted)
        BY <1>0, <1>1, WriterRests DEF Publishes, PayloadInv, Finalized, Disks
  <2> QED BY <2>1 DEF SidecarInv
<1>2. CASE \/ Opens \/ RivalFails \/ ClosesData \/ ClosesCheckpoints
           \/ Returns \/ Dies \/ UNCHANGED vars
  <2>1. UNCHANGED <<counted, writer.payload>>
        BY <1>2, WriterRests
  <2>2. disk'.sidecar = disk.sidecar
        BY <1>0, <1>2 DEF Opens, RivalFails, ClosesData, ClosesCheckpoints, Returns, Dies,
                          vars, Disks
  <2> QED BY <2>1, <2>2 DEF SidecarInv
<1>3. CASE PowerFails \/ Accident
  <2>1. UNCHANGED <<counted, writer.payload>>
        BY <1>3, WriterRests
  <2>2. disk'.sidecar \in {disk.sidecar, Missing, TornText, Archive.sidecar}
        BY <1>0, <1>3 DEF PowerFails, Accident, Disks
  <2> QED BY <2>1, <2>2, ArchiveTypes DEF SidecarInv
<1>4. CASE \/ WriteFails \/ WritesCheckpoint \/ CheckpointFails \/ CheckpointInterrupted
           \/ \E kind \in Kinds : Writes(kind) \/ WriteInterrupted(kind)
           \/ \E final \in 0 .. MaxEvents, clean, lost \in BOOLEAN : Ends(final, clean, lost)
  <2>1. writer.payload = Missing /\ disk' = disk
        BY <1>4 DEF WriteFails, CheckpointDue, WritesCheckpoint, CheckpointFails,
                    CheckpointInterrupted, Writes, WriteInterrupted, Ends, PayloadInv
  <2> QED BY <2>1 DEF SidecarInv
<1>5. CASE Hashes
  <2>1. writer.payload # Missing /\ writer'.payload # Missing /\ UNCHANGED <<counted, disk>>
    <3>1. PayloadInv' /\ writer'.step = "hashed"
          BY <1>0, <1>5, PayloadStep DEF Hashes, Writers
    <3> QED BY <1>5, <3>1 DEF Hashes, PayloadInv, Finalized
  <2> QED BY <2>1 DEF SidecarInv
<1> QED BY <1>1, <1>2, <1>3, <1>4, <1>5 DEF Next

LEMMA ClosedStep ==
    ASSUME Types, PayloadInv, ClosedInv, [Next]_vars
    PROVE  ClosedInv'
<1>0. disk \in Disks /\ writer \in Writers /\ accidents \in Nat
      BY DEF Types
<1> USE <1>0 DEF ClosedInv, Untouched
<1>1. CASE Opens
      BY <1>1 DEF Opens, Writers
<1>2. CASE RivalFails
      BY <1>2 DEF RivalFails, Writers
<1>3. CASE \/ WriteFails \/ WritesCheckpoint \/ CheckpointFails \/ CheckpointInterrupted
           \/ \E kind \in Kinds : Writes(kind) \/ WriteInterrupted(kind)
           \/ \E final \in 0 .. MaxEvents, clean, lost \in BOOLEAN : Ends(final, clean, lost)
  <2>1. writer'.step \in {"open", "ending", "finalizing"}
        BY <1>3 DEF WriteFails, CheckpointDue, WritesCheckpoint, CheckpointFails,
                    CheckpointInterrupted, Writes, WriteInterrupted, Ends, Writers
  <2> QED BY <2>1
<1>4. CASE ClosesData
      BY <1>4 DEF ClosesData, OnDisk, Writers, Disks
<1>5. CASE ClosesCheckpoints
      BY <1>5 DEF ClosesCheckpoints, OnDisk, Writers, Disks
<1>6. CASE Hashes
  <2>1. /\ disk' = disk /\ accidents' = accidents /\ writer.step = "closed"
        /\ writer'.step = "hashed" /\ writer'.unlinked = writer.unlinked
        /\ writer'.stream = writer.stream /\ writer'.checks = writer.checks
        BY <1>6 DEF Hashes, Writers
  <2> QED BY <2>1
<1>7. CASE Publishes
      BY <1>7 DEF Publishes, Writers, Disks
<1>8. CASE Returns
      BY <1>8 DEF Returns, Writers
<1>9. CASE Dies \/ PowerFails
  <2>1. writer'.step = "raised"
        BY <1>9 DEF Dies, PowerFails, Writers
  <2> QED BY <2>1
<1>10. CASE Accident
      BY <1>10 DEF Accident, Ended
<1>11. CASE UNCHANGED vars
      BY <1>11 DEF vars
<1> QED BY <1>1, <1>2, <1>3, <1>4, <1>5, <1>6, <1>7, <1>8, <1>9, <1>10, <1>11 DEF Next

-----------------------------------------------------------------------------
(* The theorems *)

\* The inductive invariant: what the stream holds beside the counted events,
\* what the payload says of them, and whose bytes each file has.
THEOREM InvariantHolds == Spec => []IInv
<1>1. Init => IInv
      BY TypesInit, StreamInit, FilesInit DEF IInv
<1>2. IInv /\ [Next]_vars => IInv'
      BY TypesStep, StreamStep, PayloadStep, ChecksStep, ListedStep, DataStep,
         SidecarStep, ClosedStep
         DEF IInv
<1> QED BY <1>1, <1>2, PTL DEF Spec

\* Every variable keeps its type, the checkpoints their order, and the writer's
\* counters never count what its streams do not hold.
THEOREM TypesHold == Spec => []TypeOK
<1>1. IInv => TypeOK
  <2> SUFFICES ASSUME IInv PROVE TypeOK
      OBVIOUS
  <2>1. /\ writer.step \in Steps /\ counted \in Seq(Kinds) /\ counted \in Seq(Bytes)
        /\ writer.listed \in Seq(Checkpoint) /\ disk.data \in DataFiles \cup {Missing}
        BY Constants DEF IInv, Types, Writers, Disks
  <2>2. /\ \A i, j \in DOMAIN writer.listed :
               i < j => writer.listed[i].index < writer.listed[j].index
        /\ Len(writer.listed) <= Len(writer.checks)
        BY <2>1 DEF IInv, ChecksInv, ListedInv, Ordered
  <2>3. ASSUME NEW kind \in Kinds
        PROVE  Count(counted, kind) <= Count(writer.stream, kind)
    <3>1. Count(counted, kind) \in Nat
          BY <2>1, CountOf
    <3>2. \A k \in Bytes : Count(Append(counted, k), kind) =
              Count(counted, kind) + (IF k = kind THEN 1 ELSE 0)
          BY <2>1, CountAppend
    <3>3. CASE writer.stream = counted
          BY <3>1, <3>3
    <3>4. CASE \E k \in Bytes : writer.stream = Append(counted, k)
          BY <3>1, <3>2, <3>4
    <3>5. ASSUME NEW kept \in Seq(Kinds), NEW k \in Bytes,
                 counted = Append(kept, "boundary"),
                 writer.stream = Append(Append(kept, k), "boundary")
          PROVE  Count(counted, kind) <= Count(writer.stream, kind)
      <4>1. "boundary" \in Bytes /\ kept \in Seq(Bytes) /\ Append(kept, k) \in Seq(Bytes)
            BY Constants
      <4>2. Count(kept, kind) \in Nat
            BY <4>1, CountOf
      <4>3. Count(counted, kind) = Count(kept, kind) + (IF "boundary" = kind THEN 1 ELSE 0)
            BY <3>5, <4>1, CountAppend
      <4>4. Count(Append(kept, k), kind) = Count(kept, kind) + (IF k = kind THEN 1 ELSE 0)
            BY <4>1, CountAppend
      <4>5. Count(writer.stream, kind) =
                Count(Append(kept, k), kind) + (IF "boundary" = kind THEN 1 ELSE 0)
        <5> DEFINE longer == Append(kept, k)
        <5>1. longer \in Seq(Bytes) /\ writer.stream = Append(longer, "boundary")
              BY <3>5, <4>1
        <5> HIDE DEF longer
        <5>2. Count(writer.stream, kind) =
                  Count(longer, kind) + (IF "boundary" = kind THEN 1 ELSE 0)
              BY <4>1, <5>1, CountAppend
        <5> QED BY <5>2 DEF longer
      <4> QED BY <4>2, <4>3, <4>4, <4>5
    <3>6. \/ writer.stream = counted
          \/ \E k \in Bytes : writer.stream = Append(counted, k)
          \/ \E kept \in Seq(Kinds), k \in Bytes :
                /\ counted = Append(kept, "boundary")
                /\ writer.stream = Append(Append(kept, k), "boundary")
          BY DEF IInv, StreamInv
    <3> QED BY <3>3, <3>4, <3>5, <3>6
  <2> QED BY <2>1, <2>2, <2>3 DEF TypeOK, Steps, DataFiles
<1> QED BY <1>1, InvariantHolds, PTL

\* Whatever was killed, lost, cut, unlinked or mixed: what read_metadata()
\* calls complete is one recording, whole.
THEOREM CompleteIsWhole == Spec => []CompleteIsOneRecording
<1>1. IInv => CompleteIsOneRecording
  <2> SUFFICES ASSUME IInv, Verdict(disk, FALSE) = "complete"
               PROVE  CompleteIsOneRecording
      BY DEF CompleteIsOneRecording
  <2>1. /\ Readable(disk.data) /\ disk.sidecar \notin {Missing, TornText}
        /\ ~ Contradicted(disk, FALSE) /\ disk.sidecar.complete
        BY DEF Verdict
  <2>2. /\ disk.sidecar.id = disk.data.id /\ disk.sidecar.counts = Counts(disk.data.events)
        /\ disk.checkpoints # Missing /\ disk.checkpoints.id = disk.data.id
        /\ Last(disk.checkpoints.list) =
              [index |-> Len(disk.data.events), state |-> disk.sidecar.final]
        BY <2>1 DEF Contradicted, Foreign
  <2>3. /\ disk.data \in DataFiles /\ disk.data.events \in Seq(Kinds)
    <3>1. disk.data \in DataFiles /\ disk.data.events \in Seq(Bytes)
          BY <2>1 DEF Readable, IInv, Types, Disks, DataFiles, Bytes
    <3>2. \A i \in 1 .. Len(disk.data.events) : disk.data.events[i] \in Kinds
          BY <2>1, <3>1 DEF Readable
    <3> QED BY <3>1, <3>2
  <2>4. CASE disk.data.id = 1
    <3>1. /\ Agrees(disk.data.events, writer.stream)
          /\ writer.payload # Missing /\ Counts(disk.data.events) = Counts(counted)
          BY <2>1, <2>2, <2>4 DEF Readable, IInv, DataInv, SidecarInv
    <3>2. PICK kept \in Seq(Kinds) :
              /\ counted = Append(kept, "boundary")
              /\ \/ writer.stream = counted
                 \/ \E k \in Bytes : writer.stream = Append(Append(kept, k), "boundary")
          BY <3>1 DEF IInv, StreamInv
    <3>3. Torn \in Bytes
          BY Constants
    <3>4. disk.data.events = counted
          BY <2>3, <3>1, <3>2, <3>3, CountsTell
    <3> QED BY <2>2, <2>4, <3>4 DEF CompleteIsOneRecording
  <2>5. CASE disk.data.id = 0
    <3>1. /\ Agrees(disk.data.events, EarlierEvents)
          /\ Counts(disk.data.events) = Counts(EarlierEvents)
          BY <2>1, <2>2, <2>5 DEF Readable, IInv, DataInv, SidecarInv
    <3>2. disk.data.events = EarlierEvents
          BY <2>3, <3>1, CountsOfPart, EarlierAssumption
    <3> QED BY <2>2, <2>5, <3>2 DEF CompleteIsOneRecording
  <2> QED BY <2>3, <2>4, <2>5 DEF DataFiles
<1> QED BY <1>1, InvariantHolds, PTL

\* What finalize() publishes undisturbed, the reader accepts as it stands.
THEOREM PublishedReadsBack == Spec => []PublishedIsAccepted
<1>1. IInv => PublishedIsAccepted
  <2> SUFFICES ASSUME IInv, writer.step \in {"published", "returned"}, ~ writer.unlinked,
                      writer.stream = counted, writer.checks = writer.listed,
                      disk.sidecar = writer.payload, accidents = 0
               PROVE  Verdict(disk, TRUE) = IF disk.sidecar.complete THEN "complete"
                                            ELSE "incomplete"
      BY DEF PublishedIsAccepted
  <2> DEFINE p == writer.payload
  <2>1. /\ writer \in Writers /\ counted \in Seq(Kinds) /\ counted \in Seq(Bytes)
        /\ writer.checks \in Seq(Checkpoint) /\ p \in Sidecars
        /\ p # Missing /\ p # TornText
        BY AbsenceAssumption, Constants DEF IInv, Types, Writers, PayloadInv, Finalized
  <2>2. /\ disk.data = DataFile(counted) /\ disk.checkpoints = CheckpointFile(writer.checks)
        BY DEF IInv, ClosedInv, Untouched
  <2>3. /\ disk.data.id = 1 /\ disk.data.events = counted /\ disk.data # Missing
        /\ disk.checkpoints.id = 1 /\ disk.checkpoints.list = writer.checks
        /\ disk.checkpoints # Missing
        BY <2>1, <2>2, FileTypes, AbsenceAssumption DEF DataFile, CheckpointFile
  <2>4. /\ p.id = 1 /\ p.counts = Counts(counted) /\ p.checkpoints = Len(writer.checks)
        /\ p.complete = DataComplete(counted, writer.checks, p.final, p.clean, p.lost)
        /\ p.complete => Last(writer.checks) = [index |-> Len(counted), state |-> p.final]
        /\ p.hashes = <<counted, writer.checks>>
        BY <2>1 DEF IInv, PayloadInv
  <2>5. Readable(disk.data)
        BY <2>1, <2>3 DEF Readable
  <2>6. TornCheckpoint \notin Range(writer.checks)
        BY <2>1 DEF IInv, ChecksInv, Ordered, TornCheckpoint, Range
  <2>7. ExpectedComplete(disk) = DataComplete(counted, writer.checks, p.final, p.clean, p.lost)
        BY <2>3 DEF ExpectedComplete, DataComplete
  <2> HIDE DEF p
  <2>8. ~ Contradicted(disk, TRUE)
        BY <2>3, <2>4, <2>6, <2>7 DEF Contradicted, Foreign, p
  <2> QED BY <2>1, <2>5, <2>8 DEF Verdict, p
<1> QED BY <1>1, InvariantHolds, PTL
=============================================================================
