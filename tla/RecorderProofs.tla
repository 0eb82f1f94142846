--------------------------- MODULE RecorderProofs ---------------------------
(***************************************************************************)
(* Proofs about the recorder and the readers of what it writes             *)
(* (RecordedEvidence), for every capacity of the queue and of a batch, and *)
(* every history and horizon; and, at the end, about the ring buffer that  *)
(* is the recorder's queue (SpscRingBuffer).                               *)
(*                                                                         *)
(* While no write has failed, the file, the batch being written and the    *)
(* queue are one stream of all that record() has accepted; what that       *)
(* stream lacks of the feed's arrivals is marked where it is missing.      *)
(***************************************************************************)
EXTENDS RecordedEvidence, SpscRingBuffer, WellFoundedInduction, SequenceTheorems, TLAPS

-----------------------------------------------------------------------------
(* The inductive invariant *)

Types ==
    /\ TypeOK
    /\ markers \in Seq([index : Nat, kind : {"connection_start", "recording_queue_drop"}])
    /\ past \in [arrived : 0 .. MaxArrivals, base : 0 .. MaxArrivals,
                 connections : Nat, sessions : Nat]

\* Where the threads are, and what active_ and the error count tell of it.
Threads ==
    /\ control \notin {"live", "joining_feed"} => feed = "none"
    /\ writer = "none" <=> control \in {"closing", "publishing", "stopped"}
    /\ control \in {"live", "joining_feed", "stopping"} /\ ~ active => counts.errors = 1
    /\ counts.errors = 1 => writer \in {"ended", "none"}

Pending == IF feed = "checked" THEN 1 ELSE 0
Uncounted == IF feed = "pushed" THEN 1 ELSE 0
Held == IF writer = "writing" THEN batch ELSE <<>>

\* All that record() has accepted, if no write has failed.
Stream == (file \o Held) \o queue

\* A loss after n records is marked.
Marked(n) == \E i \in DOMAIN markers :
                markers[i].index = n /\ markers[i].kind = "recording_queue_drop"

\* Records of this recording, in order, and each loss is marked.
Apart(s) == \A i \in DOMAIN s :
                /\ past.base < s[i]
                /\ i + 1 \in DOMAIN s => s[i + 1] = s[i] + 1 \/ Marked(i)

\* The record that comes next follows the last one, or the loss is marked.
GoesOn == Stream # <<>> =>
              \/ feed = "dropped"
              \/ Stream[Len(Stream)] = past.arrived - Pending
              \/ Marked(Len(Stream))

Counted ==
    /\ Len(Stream) = counts.accepted + Uncounted
    /\ Len(Stream) + counts.dropped + Pending = past.arrived - past.base
    /\ counts.recorded = Len(file)

\* What the id range says as long as nothing was dropped.
Ranged ==
    counts.dropped = 0 =>
        /\ \A i \in DOMAIN Stream : Stream[i] = past.base + i
        /\ ids = IF counts.accepted = 0 THEN NoIds
                 ELSE [first |-> past.base + 1, last |-> past.base + counts.accepted]

Streams == counts.errors = 0 => Apart(Stream) /\ GoesOn /\ Counted /\ Ranged

Bounds ==
    /\ past.base <= past.arrived /\ (feed \in {"checked", "pushed", "dropped"} => past.base < past.arrived)
    /\ ids.first <= ids.last /\ ids.last <= past.arrived
    /\ feed = "dropped" => counts.dropped > 0
    /\ \A i \in DOMAIN markers : markers[i].index <= counts.accepted

\* The sidecar is what the counters were when it was written.
Described ==
    \/ sidecar = NoSidecar
    \/ /\ control = "stopped"
       /\ sidecar = [published |-> TRUE, complete |-> DataComplete,
                     counts |-> counts, ids |-> ids, boundaries |-> markers]

IInv == Types /\ Threads /\ Apart(file) /\ Streams /\ Bounds /\ Described

\* As long as no error was counted the two streams hold the same, whole.
IdsInv == counts.errors = 0 => idFile = file /\ torn = {}

-----------------------------------------------------------------------------
(* Sequences *)

MarkerType == [index : Nat, kind : {"connection_start", "recording_queue_drop"}]

LEMMA SeqOfLarger ==
  ASSUME NEW S, NEW T, S \subseteq T
  PROVE  \A s \in Seq(S) : s \in Seq(T)
<1> SUFFICES ASSUME NEW s \in Seq(S)  PROVE s \in Seq(T)
  OBVIOUS
<1>1. Len(s) \in Nat /\ DOMAIN s = 1 .. Len(s) /\ s = [i \in 1 .. Len(s) |-> s[i]]
  OBVIOUS
<1>2. \A i \in 1 .. Len(s) : s[i] \in T  OBVIOUS
<1>3. [i \in 1 .. Len(s) |-> s[i]] \in [1 .. Len(s) -> T]  BY <1>2
<1> QED BY <1>1, <1>3, SeqDef

LEMMA StreamFacts ==
  ASSUME Types
  PROVE  /\ Held \in Seq(Nat) /\ Stream \in Seq(Nat)
         /\ file \in Seq(Nat) /\ queue \in Seq(Nat) /\ batch \in Seq(Nat)
         /\ Len(Stream) = Len(file) + Len(Held) + Len(queue)
         /\ \A i \in DOMAIN file : i \in DOMAIN Stream /\ Stream[i] = file[i]
<1>1. file \in Seq(Nat) /\ queue \in Seq(Nat) /\ batch \in Seq(Nat)
  <2>1. /\ file \in Seq(1 .. MaxArrivals) /\ queue \in Seq(1 .. MaxArrivals)
        /\ batch \in Seq(1 .. MaxArrivals)
    BY DEF Types, TypeOK
  <2>2. 1 .. MaxArrivals \subseteq Nat  OBVIOUS
  <2> QED BY <2>1, <2>2, SeqOfLarger
<1>2. Held \in Seq(Nat)  BY <1>1 DEF Held
<1> DEFINE f == file \o Held
<1>3. /\ f \in Seq(Nat) /\ Len(f) = Len(file) + Len(Held)
      /\ \A i \in 1 .. Len(file) + Len(Held) :
            f[i] = IF i <= Len(file) THEN file[i] ELSE Held[i - Len(file)]
  BY <1>1, <1>2, ConcatProperties
<1>4. Stream = f \o queue  BY DEF Stream
<1> HIDE DEF f
<1>5. /\ Stream \in Seq(Nat) /\ Len(Stream) = Len(f) + Len(queue)
      /\ \A i \in 1 .. Len(f) + Len(queue) :
            Stream[i] = IF i <= Len(f) THEN f[i] ELSE queue[i - Len(f)]
  BY <1>1, <1>3, <1>4, ConcatProperties
<1>6. Len(file) \in Nat /\ Len(Held) \in Nat /\ Len(queue) \in Nat
      /\ DOMAIN file = 1 .. Len(file) /\ DOMAIN Stream = 1 .. Len(Stream)
  BY <1>1, <1>2, <1>5
<1>7. ASSUME NEW i \in DOMAIN file  PROVE i \in DOMAIN Stream /\ Stream[i] = file[i]
  <2>1. i \in 1 .. Len(file) + Len(Held) /\ i <= Len(file) /\ i <= Len(f)
        /\ i \in 1 .. Len(f) + Len(queue)
    BY <1>3, <1>6
  <2> QED BY <1>3, <1>5, <1>6, <2>1
<1> QED BY <1>1, <1>2, <1>3, <1>5, <1>7

\* A marker is added once, and none is lost.
LEMMA AddMarkerFacts ==
  ASSUME IInv, NEW kind \in {"connection_start", "recording_queue_drop"},
         AddMarker(kind)
  PROVE  /\ markers' \in Seq(MarkerType)
         /\ \A n : Marked(n) => Marked(n)'
         /\ \A i \in DOMAIN markers' : markers'[i].index <= counts.accepted
         /\ kind = "recording_queue_drop" => \A n : n = counts.accepted => Marked(n)'
<1> DEFINE m == Marker(counts.accepted, kind)
<1>1. markers \in Seq(MarkerType) /\ counts.accepted \in Nat
  BY DEF IInv, Types, TypeOK, MarkerType
<1>2. m \in MarkerType /\ m.index = counts.accepted /\ m.kind = kind
  BY <1>1 DEF Marker, MarkerType
<1>3. \A i \in DOMAIN markers : markers[i].index <= counts.accepted
  BY DEF IInv, Bounds
<1>4. CASE markers # <<>> /\ Last(markers) = m
  <2>1. markers' = markers  BY <1>4 DEF AddMarker
  <2>2. Len(markers) \in DOMAIN markers /\ markers[Len(markers)] = m
    BY <1>1, <1>4 DEF Last
  <2> QED BY <1>1, <1>2, <1>3, <2>1, <2>2 DEF Marked
<1>5. CASE ~ (markers # <<>> /\ Last(markers) = m)
  <2>1. markers' = Append(markers, m)  BY <1>5 DEF AddMarker
  <2> HIDE DEF m
  <2>2. /\ markers' \in Seq(MarkerType) /\ Len(markers) \in Nat
        /\ DOMAIN markers' = DOMAIN markers \cup {Len(markers) + 1}
        /\ markers'[Len(markers) + 1] = m
        /\ \A i \in DOMAIN markers : markers'[i] = markers[i]
    BY <1>1, <1>2, <2>1
  <2>3. \A n : Marked(n) => Marked(n)'  BY <2>2 DEF Marked
  <2>4. kind = "recording_queue_drop" => \A n : n = counts.accepted => Marked(n)'
    <3>1. Len(markers) + 1 \in DOMAIN markers'  BY <2>2
    <3> QED BY <1>2, <2>2, <3>1 DEF Marked
  <2>5. \A i \in DOMAIN markers' : markers'[i].index <= counts.accepted
    BY <1>1, <1>2, <1>3, <2>2
  <2> QED BY <2>2, <2>3, <2>4, <2>5
<1> QED BY <1>4, <1>5

-----------------------------------------------------------------------------
(* Every step preserves the invariant *)

\* A loss that is marked inside what remains stays marked.
LEMMA StreamKept ==
  ASSUME IInv, UNCHANGED <<file, Held, queue>>, past'.base = past.base,
         \A n : Marked(n) => Marked(n)'
  PROVE  /\ Stream' = Stream /\ Apart(file)'
         /\ counts.errors = 0 => Apart(Stream)'
<1>1. Stream' = Stream  BY DEF Stream
<1> HIDE DEF Stream
<1>2. Apart(file)'  BY DEF IInv, Apart
<1>3. counts.errors = 0 => Apart(Stream)'  BY <1>1 DEF IInv, Streams, Apart
<1> QED BY <1>1, <1>2, <1>3

\* Nothing is offered, moved or counted.
LEMMA QuietKeeps ==
  ASSUME IInv, UNCHANGED <<file, Held, queue, counts, ids>>,
         past'.base = past.base, past'.arrived = past.arrived,
         feed' = feed \/ (feed = "idle" /\ feed' = "none"),
         \A n : Marked(n) => Marked(n)',
         \A i \in DOMAIN markers' : markers'[i].index <= counts.accepted
  PROVE  Apart(file)' /\ Streams' /\ Bounds'
<1>1. /\ Stream' = Stream /\ Apart(file)'
      /\ counts.errors = 0 => Apart(Stream)'
  BY StreamKept
<1>6. Pending' = Pending /\ Uncounted' = Uncounted
  BY DEF Pending, Uncounted
<1>2. counts.errors = 0 => GoesOn'
  BY <1>1, <1>6 DEF IInv, Streams, GoesOn
<1>3. counts.errors = 0 => Counted' /\ Ranged'
  BY <1>1, <1>6 DEF IInv, Streams, Counted, Ranged
<1>4. Streams'  BY <1>1, <1>2, <1>3 DEF Streams
<1>5. Bounds'  BY DEF IInv, Bounds
<1> QED BY <1>1, <1>4, <1>5

\* The sidecar describes a recording that is over.
LEMMA NotYetDescribed ==
  ASSUME IInv, control # "stopped", UNCHANGED sidecar
  PROVE  Described'
BY DEF IInv, Described

\* A thread moves on, and touches nothing but active_.
LEMMA MovesKeep ==
  ASSUME IInv,
         \/ FeedEnds \/ StopRequested \/ FeedJoined \/ StopsAdmission
         \/ WriterJoined \/ Closes \/ WriterChecksActive
  PROVE  IInv'
<1> USE DEF FeedEnds, StopRequested, FeedJoined, StopsAdmission,
            WriterJoined, Closes, WriterChecksActive, disk
<1>1. UNCHANGED <<queue, batch, counts, ids, markers, file, idFile, torn, sidecar, past>>
  OBVIOUS
<1>2. feed' = feed \/ (feed = "idle" /\ feed' = "none")
  OBVIOUS
<1>4. writer' = writer \/ (writer # "writing" /\ writer' # "writing")
  OBVIOUS
<1>5. control # "stopped"
  <2>1. feed # "none" => control # "stopped"  BY DEF IInv, Threads
  <2>2. writer # "none" => control # "stopped"  BY DEF IInv, Threads
  <2> QED BY <2>1, <2>2
<1>6. Types'
  BY <1>1 DEF IInv, Types, TypeOK
<1>7. Threads'
  BY <1>1 DEF IInv, Threads, Types, TypeOK
<1>8. Described'  BY <1>1, <1>5, NotYetDescribed
<1>9. Held' = Held  BY <1>1, <1>4 DEF Held
<1>10. \A n : Marked(n) => Marked(n)'  BY <1>1 DEF Marked
<1>11. \A i \in DOMAIN markers' : markers'[i].index <= counts.accepted
  BY <1>1 DEF IInv, Bounds
<1>12. Apart(file)' /\ Streams' /\ Bounds'
  BY <1>1, <1>2, <1>9, <1>10, <1>11, QuietKeeps
<1> QED BY <1>6, <1>7, <1>8, <1>12 DEF IInv

\* A marker is all a new connection leaves in the recording.
LEMMA ConnectsKeeps == ASSUME IInv, Connects  PROVE IInv'
<1> USE DEF Connects, disk
<1>1. /\ markers' \in Seq(MarkerType)
      /\ \A n : Marked(n) => Marked(n)'
      /\ \A i \in DOMAIN markers' : markers'[i].index <= counts.accepted
  BY AddMarkerFacts
<1>2. /\ past'.arrived = past.arrived /\ past'.base = past.base
      /\ past' \in [arrived : 0 .. MaxArrivals, base : 0 .. MaxArrivals,
                    connections : Nat, sessions : Nat]
  BY DEF IInv, Types
<1>3. UNCHANGED <<active, queue, batch, counts, ids, feed, writer, control,
                  file, idFile, torn, sidecar, Held>>
  BY DEF Held
<1>4. Types'  BY <1>1, <1>2, <1>3 DEF IInv, Types, TypeOK, MarkerType
<1>5. Threads'  BY <1>3 DEF IInv, Threads
<1>6. Described'
  <2>1. control # "stopped"  BY DEF IInv, Threads
  <2> QED BY <1>3, <2>1, NotYetDescribed
<1>7. Apart(file)' /\ Streams' /\ Bounds'
  BY <1>1, <1>2, <1>3, QuietKeeps
<1> QED BY <1>4, <1>5, <1>6, <1>7 DEF IInv

\* While a recorder is inactive and no write has failed nothing arrives.
LEMMA ArrivesKeeps == ASSUME IInv, RecordChecksActive  PROVE IInv'
<1> USE DEF RecordChecksActive, disk
<1>1. /\ past'.arrived = past.arrived + 1 /\ past'.base = past.base
      /\ past.arrived \in Nat /\ past.base \in Nat
      /\ past' \in [arrived : 0 .. MaxArrivals, base : 0 .. MaxArrivals,
                    connections : Nat, sessions : Nat]
  BY RecorderAssumption DEF IInv, Types
<1>2. UNCHANGED <<active, queue, batch, counts, ids, markers, writer, control,
                  file, idFile, torn, sidecar, Held>>
  BY DEF Held
<1>3. control \in {"live", "joining_feed"}  BY DEF IInv, Threads
<1>4. counts.errors = 0 => active  
  BY <1>3 DEF IInv, Threads
<1>5. Types'  BY <1>1, <1>2 DEF IInv, Types, TypeOK
<1>6. Threads'  BY <1>2, <1>3 DEF IInv, Threads
<1>7. Described'  BY <1>2, <1>3, NotYetDescribed
<1>8. \A n : Marked(n) => Marked(n)'  BY <1>2 DEF Marked
<1>9. /\ Stream' = Stream /\ Apart(file)'
      /\ counts.errors = 0 => Apart(Stream)'
  BY <1>1, <1>2, <1>8, StreamKept
<1>10. ASSUME counts.errors = 0  PROVE GoesOn' /\ Counted' /\ Ranged'
  <2>1. Pending = 0 /\ Pending' = 1 /\ Uncounted = 0 /\ Uncounted' = 0
    BY <1>4, <1>10 DEF Pending, Uncounted
  <2>2. GoesOn /\ Counted /\ Ranged /\ feed # "dropped"
    BY <1>10 DEF IInv, Streams
  <2>3. counts.dropped \in Nat /\ Len(Stream) \in Nat
    <3>1. Stream \in Seq(Nat)  BY StreamFacts DEF IInv
    <3> QED BY <3>1 DEF IInv, Types, TypeOK
  <2>4. GoesOn'  BY <1>1, <1>8, <1>9, <2>1, <2>2 DEF GoesOn
  <2>5. Counted'  BY <1>1, <1>2, <1>9, <2>1, <2>2, <2>3 DEF Counted
  <2>6. Ranged'  BY <1>1, <1>2, <1>9, <2>2 DEF Ranged
  <2> QED BY <2>4, <2>5, <2>6
<1>11. Streams'  BY <1>2, <1>9, <1>10 DEF Streams
<1>12. Bounds'
  <2>1. ids.last \in Nat  BY RecorderAssumption DEF IInv, Types, TypeOK
  <2> QED BY <1>1, <1>2, <2>1 DEF IInv, Bounds
<1> QED BY <1>5, <1>6, <1>7, <1>9, <1>11, <1>12 DEF IInv

\* record() appends to the stream what follows it, or what a marker tells
\* apart from it.
LEMMA PushesKeeps == ASSUME IInv, RecordPushes  PROVE IInv'
<1> USE DEF RecordPushes, disk
<1>1. /\ queue' = Append(queue, past.arrived) /\ Len(queue) < QueueCapacity
      /\ batch' = batch
  BY DEF Fifo!Push
<1>2. UNCHANGED <<active, counts, ids, markers, writer, control, file, idFile, torn,
                  sidecar, past, Held>>
  BY <1>1 DEF Held
<1>3. /\ past.arrived \in 1 .. MaxArrivals /\ past.arrived \in Nat
      /\ past.base \in Nat
  BY RecorderAssumption DEF IInv, Types, Bounds
<1>4. /\ queue' \in Seq(1 .. MaxArrivals) /\ Len(queue') <= QueueCapacity
  BY <1>1, <1>3, RecorderAssumption DEF IInv, Types, TypeOK
<1>5. Types'
  BY <1>1, <1>2, <1>4 DEF IInv, Types, TypeOK
<1>6. Threads'
  BY <1>2 DEF IInv, Threads
<1>7. control # "stopped"  BY DEF IInv, Threads
<1>8. Described'  BY <1>2, <1>7, NotYetDescribed
<1>9. \A n : Marked(n) => Marked(n)'  BY <1>2 DEF Marked
<1>10. Apart(file)'  BY <1>2, <1>9 DEF IInv, Apart
<1> DEFINE n == Len(Stream)
<1>11. /\ n \in Nat /\ Stream \in Seq(Nat) /\ Stream' = Append(Stream, past.arrived)
  <2>1. Stream \in Seq(Nat) /\ queue \in Seq(Nat) /\ file \o Held \in Seq(Nat)
    BY StreamFacts, ConcatProperties DEF IInv
  <2>2. past.arrived \in Nat  BY <1>3
  <2> DEFINE f == file \o Held
  <2>3. Stream' = f \o Append(queue, past.arrived) /\ Stream = f \o queue
    BY <1>1, <1>2 DEF Stream
  <2> HIDE DEF f
  <2>4. f \in Seq(Nat)  BY <2>1 DEF f
  <2>5. f \o Append(queue, past.arrived) = Append(f \o queue, past.arrived)
    <3>1. \A s \in Seq(Nat) : Append(s, past.arrived) = s \o <<past.arrived>>
      BY <2>2, AppendIsConcat
    <3>2. <<past.arrived>> \in Seq(Nat) /\ f \o queue \in Seq(Nat)
      BY <2>1, <2>2, <2>4, ConcatProperties
    <3>3. f \o Append(queue, past.arrived) = f \o (queue \o <<past.arrived>>)
      BY <2>1, <3>1
    <3>4. @ = (f \o queue) \o <<past.arrived>>
      BY <2>1, <2>4, <3>2, ConcatAssociative
    <3>5. @ = Append(f \o queue, past.arrived)  BY <3>1, <3>2
    <3> QED BY <3>3, <3>4, <3>5
  <2> QED BY <2>1, <2>3, <2>5
<1>12. /\ Len(Stream') = n + 1 /\ Stream'[n + 1] = past.arrived
       /\ DOMAIN Stream = 1 .. n /\ DOMAIN Stream' = 1 .. n + 1
       /\ \A i \in 1 .. n : Stream'[i] = Stream[i]
  BY <1>3, <1>11
<1> HIDE DEF n
<1>13. ASSUME counts.errors = 0
       PROVE Apart(Stream)' /\ GoesOn' /\ Counted' /\ Ranged'
  <2>1. Pending = 1 /\ Pending' = 0 /\ Uncounted = 0 /\ Uncounted' = 1
    BY DEF Pending, Uncounted
  <2>2. Apart(Stream) /\ GoesOn /\ Counted /\ Ranged /\ feed # "dropped"
    BY <1>13 DEF IInv, Streams
  <2>3. counts.dropped \in Nat /\ counts.accepted \in Nat
    BY DEF IInv, Types, TypeOK
  <2>4. past.base < past.arrived  BY DEF IInv, Bounds
  <2>5. n > 0 => Stream[n] = past.arrived - 1 \/ Marked(n)
    <3>1. n > 0 => Stream # <<>>  BY <1>11 DEF n
    <3> QED BY <2>1, <2>2, <3>1 DEF GoesOn, n
  <2>6. Apart(Stream)'
    <3>1. ASSUME NEW i \in 1 .. n + 1
          PROVE  /\ past.base < Stream'[i]
                 /\ i + 1 \in 1 .. n + 1 =>
                       Stream'[i + 1] = Stream'[i] + 1 \/ Marked(i)'
      <4>1. CASE i = n + 1  BY <1>11, <1>12, <2>4, <4>1
      <4>2. CASE i = n
        <5>1. i \in 1 .. n /\ Stream[i] \in Nat /\ past.arrived \in Nat
          BY <1>3, <1>11, <1>12, <4>2
        <5> QED BY <1>9, <1>12, <2>2, <2>5, <4>2, <5>1 DEF Apart
      <4>3. CASE i < n
        <5>1. i \in 1 .. n /\ i + 1 \in 1 .. n  BY <1>11, <4>3
        <5> QED BY <1>9, <1>12, <2>2, <5>1 DEF Apart
      <4>4. i = n + 1 \/ i = n \/ i < n  BY <1>11
      <4> QED BY <4>1, <4>2, <4>3, <4>4
    <3> QED BY <1>2, <1>12, <3>1 DEF Apart
  <2>7. GoesOn'  BY <1>2, <1>3, <1>12, <2>1 DEF GoesOn
  <2>8. Counted'
    <3>1. n = counts.accepted /\ n + counts.dropped + 1 = past.arrived - past.base
          /\ counts.recorded = Len(file)
      BY <1>11, <2>1, <2>2, <2>3 DEF Counted, n
    <3>2. Len(Stream') = counts'.accepted + Uncounted'
      BY <1>2, <1>12, <2>1, <3>1
    <3>3. Len(Stream') + counts'.dropped + Pending' = past'.arrived - past'.base
      <4>1. /\ counts'.dropped = counts.dropped
            /\ past'.arrived - past'.base = past.arrived - past.base
        BY <1>2
      <4>2. (n + 1) + counts.dropped + 0 = past.arrived - past.base
        <5> DEFINE d == counts.dropped
                   b == past.arrived - past.base
        <5>1. d \in Nat /\ b \in Int /\ n \in Nat  BY <1>3, <1>11, <2>3
        <5>2. n + d + 1 = b  BY <3>1
        <5> HIDE DEF d, b
        <5>3. (n + 1) + d + 0 = b  BY <5>1, <5>2
        <5> QED BY <5>3 DEF d, b
      <4> QED BY <1>12, <2>1, <4>1, <4>2
    <3> QED BY <1>2, <3>1, <3>2, <3>3 DEF Counted
  <2>9. Ranged'
    <3>1. counts.dropped = 0 => past.arrived = past.base + (n + 1)
      BY <1>3, <1>11, <2>1, <2>2, <2>3 DEF Counted, n
    <3>2. ASSUME counts.dropped = 0, NEW i \in 1 .. n + 1
          PROVE  Stream'[i] = past.base + i
      <4>1. CASE i = n + 1  BY <1>12, <3>1, <3>2, <4>1
      <4>2. CASE i # n + 1
        <5>1. i \in 1 .. n  BY <1>11, <4>2
        <5> QED BY <1>12, <2>2, <3>2, <5>1 DEF Ranged
      <4> QED BY <4>1, <4>2
    <3> QED BY <1>2, <1>12, <2>2, <3>2 DEF Ranged
  <2> QED BY <2>6, <2>7, <2>8, <2>9
<1>14. Streams'  BY <1>2, <1>13 DEF Streams
<1>15. Bounds'  BY <1>2 DEF IInv, Bounds
<1> QED BY <1>5, <1>6, <1>8, <1>10, <1>14, <1>15 DEF IInv

LEMMA CountTypes ==
  ASSUME IInv
  PROVE  LET C == [accepted : Nat, recorded : Nat, dropped : Nat, errors : 0 .. 1]
         IN /\ counts \in C
            /\ counts.accepted \in Nat /\ counts.recorded \in Nat
            /\ counts.dropped \in Nat /\ counts.errors \in 0 .. 1
            /\ [counts EXCEPT !.accepted = @ + 1] \in C
            /\ [counts EXCEPT !.dropped = @ + 1] \in C
            /\ NoteWriteError \in C
<1>1. counts \in [accepted : Nat, recorded : Nat, dropped : Nat, errors : 0 .. 1]
  BY DEF IInv, Types, TypeOK
<1>2. /\ counts.accepted \in Nat /\ counts.recorded \in Nat
      /\ counts.dropped \in Nat /\ counts.errors \in 0 .. 1
  BY <1>1
<1>3. /\ counts.accepted + 1 \in Nat /\ counts.dropped + 1 \in Nat /\ 1 \in 0 .. 1
  BY <1>2
<1> QED BY <1>1, <1>2, <1>3 DEF NoteWriteError

\* A full queue costs the record, and no other.
LEMMA DropsKeeps == ASSUME IInv, RecordDropped  PROVE IInv'
<1> USE DEF RecordDropped, disk
<1>1. UNCHANGED <<active, queue, batch, ids, markers, writer, control, file, idFile, torn,
                  sidecar, past, Held>>
  BY DEF Held
<1>2. /\ counts.accepted \in Nat /\ counts.recorded \in Nat
      /\ counts.dropped \in Nat /\ counts.errors \in 0 .. 1
      /\ counts'.accepted = counts.accepted /\ counts'.recorded = counts.recorded
      /\ counts'.dropped = counts.dropped + 1 /\ counts'.errors = counts.errors
      /\ counts' \in [accepted : Nat, recorded : Nat, dropped : Nat, errors : 0 .. 1]
  BY CountTypes
<1>3. Types'  BY <1>1, <1>2 DEF IInv, Types, TypeOK
<1>4. Threads'  BY <1>1, <1>2 DEF IInv, Threads
<1>5. control # "stopped"  BY DEF IInv, Threads
<1>6. Described'  BY <1>1, <1>5, NotYetDescribed
<1>7. \A n : Marked(n) => Marked(n)'  BY <1>1 DEF Marked
<1>8. /\ Stream' = Stream /\ Apart(file)'
      /\ counts.errors = 0 => Apart(Stream)'
  BY <1>1, <1>7, StreamKept
<1>9. ASSUME counts.errors = 0  PROVE GoesOn' /\ Counted' /\ Ranged'
  <2>1. Pending = 1 /\ Pending' = 0 /\ Uncounted = 0 /\ Uncounted' = 0
    BY DEF Pending, Uncounted
  <2>2. Counted /\ Len(Stream) \in Nat
    <3>1. Stream \in Seq(Nat)  BY StreamFacts DEF IInv
    <3> QED BY <1>9, <3>1 DEF IInv, Streams
  <2>3. GoesOn'  BY DEF GoesOn
  <2>4. Counted'  BY <1>1, <1>2, <1>8, <2>1, <2>2 DEF Counted
  <2>5. Ranged'  BY <1>2 DEF Ranged
  <2> QED BY <2>3, <2>4, <2>5
<1>10. Streams'  BY <1>2, <1>8, <1>9 DEF Streams
<1>11. Bounds'  BY <1>1, <1>2 DEF IInv, Bounds
<1> QED BY <1>3, <1>4, <1>6, <1>8, <1>10, <1>11 DEF IInv

\* The marker of a drop stands where the stream lacks the record.
LEMMA MarksKeeps == ASSUME IInv, RecordMarksDrop  PROVE IInv'
<1> USE DEF RecordMarksDrop, disk
<1>1. /\ markers' \in Seq(MarkerType)
      /\ \A n : Marked(n) => Marked(n)'
      /\ \A i \in DOMAIN markers' : markers'[i].index <= counts.accepted
      /\ \A n : n = counts.accepted => Marked(n)'
  BY AddMarkerFacts
<1>2. UNCHANGED <<active, queue, batch, counts, ids, writer, control, file, idFile, torn,
                  sidecar, past, Held>>
  BY DEF Held
<1>3. Types'  BY <1>1, <1>2 DEF IInv, Types, TypeOK, MarkerType
<1>4. Threads'  BY <1>2 DEF IInv, Threads
<1>5. control # "stopped"  BY DEF IInv, Threads
<1>6. Described'  BY <1>2, <1>5, NotYetDescribed
<1>7. /\ Stream' = Stream /\ Apart(file)'
      /\ counts.errors = 0 => Apart(Stream)'
  BY <1>1, <1>2, StreamKept
<1>8. ASSUME counts.errors = 0  PROVE GoesOn' /\ Counted' /\ Ranged'
  <2>1. Pending = 0 /\ Pending' = 0 /\ Uncounted = 0 /\ Uncounted' = 0
    BY DEF Pending, Uncounted
  <2>2. Counted /\ Ranged  BY <1>8 DEF IInv, Streams
  <2>3. Len(Stream) = counts.accepted
    BY <2>1, <2>2 DEF Counted, IInv, Types, TypeOK
  <2>4. GoesOn'
    <3>1. \A n : n = Len(Stream) => Marked(n)'  BY <1>1, <2>3
    <3>2. Len(Stream') = Len(Stream)  BY <1>7
    <3>3. Marked(Len(Stream))'
      <4> DEFINE n == Len(Stream')
      <4>1. n = Len(Stream)  BY <3>2
      <4> HIDE DEF n
      <4>2. \E i \in DOMAIN markers' : markers'[i].index = Len(Stream)
                 /\ markers'[i].kind = "recording_queue_drop"
        BY <3>1 DEF Marked
      <4> QED BY <3>2, <4>2 DEF Marked
    <3> QED BY <3>3 DEF GoesOn
  <2>5. Counted' /\ Ranged'  BY <1>2, <1>7, <2>1, <2>2 DEF Counted, Ranged
  <2> QED BY <2>4, <2>5
<1>9. Streams'  BY <1>2, <1>7, <1>8 DEF Streams
<1>10. Bounds'  BY <1>1, <1>2 DEF IInv, Bounds
<1> QED BY <1>3, <1>4, <1>6, <1>7, <1>9, <1>10 DEF IInv

\* The counters catch up with the queue.
LEMMA CountsKeeps == ASSUME IInv, RecordCounts  PROVE IInv'
<1> USE DEF RecordCounts, disk
<1>1. UNCHANGED <<active, queue, batch, markers, writer, control, file, idFile, torn,
                  sidecar, past, Held>>
  BY DEF Held
<1>2. /\ counts.accepted \in Nat /\ counts.recorded \in Nat
      /\ counts.dropped \in Nat /\ counts.errors \in 0 .. 1
      /\ counts'.accepted = counts.accepted + 1 /\ counts'.recorded = counts.recorded
      /\ counts'.dropped = counts.dropped /\ counts'.errors = counts.errors
      /\ counts' \in [accepted : Nat, recorded : Nat, dropped : Nat, errors : 0 .. 1]
  BY CountTypes
<1>3. /\ past.arrived \in 0 .. MaxArrivals /\ past.base \in 0 .. MaxArrivals
      /\ past.arrived \in Nat /\ past.base \in Nat
  BY RecorderAssumption DEF IInv, Types
<1>4. /\ ids.first \in 0 .. MaxArrivals /\ ids.first \in Nat /\ ids.last \in Nat
      /\ ids.first <= ids.last /\ ids.last <= past.arrived
  BY RecorderAssumption DEF IInv, Types, TypeOK, Bounds
<1>5. /\ ids'.first = (IF ids.first = 0 THEN past.arrived ELSE ids.first)
      /\ ids'.last = past.arrived
      /\ ids' \in [first : 0 .. MaxArrivals, last : 0 .. MaxArrivals]
  BY <1>3, <1>4
<1>6. Types'  BY <1>1, <1>2, <1>5 DEF IInv, Types, TypeOK
<1>7. Threads'  BY <1>1, <1>2 DEF IInv, Threads
<1>8. control # "stopped"  BY DEF IInv, Threads
<1>9. Described'  BY <1>1, <1>8, NotYetDescribed
<1>10. \A n : Marked(n) => Marked(n)'  BY <1>1 DEF Marked
<1>11. /\ Stream' = Stream /\ Apart(file)'
       /\ counts.errors = 0 => Apart(Stream)'
  BY <1>1, <1>10, StreamKept
<1>12. ASSUME counts.errors = 0  PROVE GoesOn' /\ Counted' /\ Ranged'
  <2>1. Pending = 0 /\ Pending' = 0 /\ Uncounted = 1 /\ Uncounted' = 0
    BY DEF Pending, Uncounted
  <2>2. GoesOn /\ Counted /\ Ranged  BY <1>12 DEF IInv, Streams
  <2>3. GoesOn'  BY <1>1, <1>10, <1>11, <2>1, <2>2 DEF GoesOn
  <2>4. Counted'
    <3>1. Len(Stream') = counts'.accepted + Uncounted'
      BY <1>2, <1>11, <2>1, <2>2 DEF Counted
    <3>2. Len(Stream') + counts'.dropped + Pending' = past'.arrived - past'.base
      BY <1>1, <1>2, <1>11, <2>1, <2>2 DEF Counted
    <3> QED BY <1>1, <1>2, <2>2, <3>1, <3>2 DEF Counted
  <2>5. Ranged'
    <3>1. SUFFICES ASSUME counts.dropped = 0
          PROVE  ids' = [first |-> past.base + 1,
                         last |-> past.base + counts'.accepted]
      <4>1. counts'.accepted # 0  BY <1>2
      <4> QED BY <1>1, <1>2, <1>11, <2>2, <4>1 DEF Ranged
    <3>2. past.arrived = past.base + counts'.accepted
      <4> DEFINE c == counts.accepted
      <4>1. (c + 1) + 0 + 0 = past.arrived - past.base
        BY <2>1, <2>2, <3>1 DEF Counted
      <4>2. c \in Nat /\ counts'.accepted = c + 1  BY <1>2
      <4> HIDE DEF c
      <4> QED BY <1>3, <4>1, <4>2
    <3>3. ids'.first = past.base + 1
      <4>1. CASE counts.accepted = 0
        <5>1. ids.first = 0  BY <2>2, <3>1, <4>1 DEF Ranged, NoIds
        <5> QED BY <1>2, <1>5, <3>2, <4>1, <5>1
      <4>2. CASE counts.accepted # 0
        <5>1. ids.first = past.base + 1  BY <2>2, <3>1, <4>2 DEF Ranged
        <5> QED BY <1>3, <1>5, <5>1
      <4> QED BY <4>1, <4>2
    <3> QED BY <1>5, <3>2, <3>3
  <2> QED BY <2>3, <2>4, <2>5
<1>13. Streams'  BY <1>2, <1>11, <1>12 DEF Streams
<1>14. Bounds'
  <2>1. past.base < past.arrived
        /\ \A i \in DOMAIN markers : markers[i].index <= counts.accepted
    BY DEF IInv, Bounds
  <2>2. \A i \in DOMAIN markers : markers[i].index \in Nat
    <3>1. markers \in Seq(MarkerType)  BY DEF IInv, Types, MarkerType
    <3>2. \A i \in DOMAIN markers : markers[i] \in MarkerType  BY <3>1
    <3> QED BY <3>2 DEF MarkerType
  <2>3. \A i \in DOMAIN markers' : markers'[i].index <= counts'.accepted
    BY <1>1, <1>2, <2>1, <2>2
  <2>4. ids'.first <= ids'.last /\ ids'.last <= past'.arrived
    BY <1>1, <1>3, <1>4, <1>5
  <2> QED BY <1>1, <1>3, <2>1, <2>3, <2>4 DEF Bounds
<1> QED BY <1>6, <1>7, <1>9, <1>11, <1>13, <1>14 DEF IInv

\* What begins like the stream is set apart like it.
LEMMA PrefixApart ==
  ASSUME IInv, counts.errors = 0, NEW f \in Seq(Nat), Len(f) <= Len(Stream),
         \A i \in 1 .. Len(f) : f[i] = Stream[i]
  PROVE  Apart(f)
<1>1. Apart(Stream) /\ Stream \in Seq(Nat)
  BY StreamFacts DEF IInv, Streams
<1>2. /\ Len(f) \in Nat /\ Len(Stream) \in Nat
      /\ DOMAIN f = 1 .. Len(f) /\ DOMAIN Stream = 1 .. Len(Stream)
  BY <1>1
<1>3. ASSUME NEW i \in DOMAIN f
      PROVE  /\ past.base < f[i]
             /\ i + 1 \in DOMAIN f => f[i + 1] = f[i] + 1 \/ Marked(i)
  <2>1. i \in DOMAIN Stream /\ f[i] = Stream[i]  BY <1>2
  <2>2. i + 1 \in DOMAIN f => i + 1 \in DOMAIN Stream /\ f[i + 1] = Stream[i + 1]
    BY <1>2
  <2> QED BY <1>1, <2>1, <2>2 DEF Apart
<1> QED BY <1>3 DEF Apart

\* The writer moves records along the stream.
LEMMA StreamMoves ==
  ASSUME IInv, Stream' = Stream, UNCHANGED <<ids, markers, feed, past>>,
         counts'.accepted = counts.accepted, counts'.dropped = counts.dropped,
         counts'.errors = counts.errors, counts'.recorded = Len(file')
  PROVE  Streams' /\ Bounds'
<1>1. \A n : Marked(n) <=> Marked(n)'  BY DEF Marked
<1>2. Pending' = Pending /\ Uncounted' = Uncounted
  BY DEF Pending, Uncounted
<1>3. counts.errors = 0 => Apart(Stream)' /\ GoesOn' /\ Counted' /\ Ranged'
  <2> SUFFICES ASSUME counts.errors = 0
               PROVE  Apart(Stream)' /\ GoesOn' /\ Counted' /\ Ranged'
    OBVIOUS
  <2>1. Apart(Stream) /\ GoesOn /\ Counted /\ Ranged  BY DEF IInv, Streams
  <2>2. Apart(Stream)'  BY <1>1, <2>1 DEF Apart
  <2>3. GoesOn'  BY <1>1, <1>2, <2>1 DEF GoesOn
  <2>4. Counted'  BY <1>2, <2>1 DEF Counted
  <2>5. Ranged'  BY <2>1 DEF Ranged
  <2> QED BY <2>2, <2>3, <2>4, <2>5
<1>4. Streams'  BY <1>3 DEF Streams
<1>5. Bounds'  BY DEF IInv, Bounds
<1> QED BY <1>4, <1>5

LEMMA ConsumesKeeps == ASSUME IInv, WriterConsumes  PROVE IInv'
<1> USE DEF WriterConsumes, disk
<1>1. UNCHANGED <<active, counts, ids, markers, feed, control, file, idFile, torn, sidecar, past>>
  OBVIOUS
<1>2. PICK n \in 0 .. WriteBatchSize :
         /\ n <= Len(queue)
         /\ batch' = SubSeq(queue, 1, n)
         /\ queue' = SubSeq(queue, n + 1, Len(queue))
  BY DEF Fifo!ConsumeBatch
<1> DEFINE V == 1 .. MaxArrivals
<1>3. queue \in Seq(V) /\ Len(queue) <= QueueCapacity /\ n \in 0 .. Len(queue)
      /\ Len(queue) \in Nat /\ n \in Nat /\ n <= WriteBatchSize
  BY <1>2, RecorderAssumption DEF IInv, Types, TypeOK
<1> HIDE DEF V
<1>4. /\ batch' \in Seq(V) /\ queue' \in Seq(V)
      /\ Len(batch') = n /\ Len(queue') = Len(queue) - n
  <2>1. \A i \in 1 .. Len(queue) : queue[i] \in V  BY <1>3
  <2>2. batch' \in Seq(V) /\ Len(batch') = n
    <3>1. n \in Int /\ 1 \in Int /\ \A i \in 1 .. n : queue[i] \in V
      BY <1>3, <2>1
    <3>2. SubSeq(queue, 1, n) \in Seq(V)
          /\ Len(SubSeq(queue, 1, n)) = IF 1 <= n THEN n - 1 + 1 ELSE 0
      BY <3>1, SubSeqProperties
    <3> QED BY <1>2, <1>3, <3>2
  <2>3. queue' \in Seq(V) /\ Len(queue') = Len(queue) - n
    <3>1. /\ n + 1 \in Int /\ Len(queue) \in Int
          /\ \A i \in n + 1 .. Len(queue) : queue[i] \in V
      BY <1>3, <2>1
    <3>2. /\ SubSeq(queue, n + 1, Len(queue)) \in Seq(V)
          /\ Len(SubSeq(queue, n + 1, Len(queue)))
             = IF n + 1 <= Len(queue) THEN Len(queue) - (n + 1) + 1 ELSE 0
      BY <3>1, SubSeqProperties
    <3> QED BY <1>2, <1>3, <3>2
  <2> QED BY <2>2, <2>3
<1>5. Types'
  <2>1. Len(batch') <= WriteBatchSize /\ Len(queue') <= QueueCapacity
    BY <1>3, <1>4, RecorderAssumption
  <2> QED BY <1>1, <1>4, <2>1 DEF IInv, Types, TypeOK, V
<1>6. Threads'  BY <1>1 DEF IInv, Threads
<1>7. control # "stopped"  BY DEF IInv, Threads
<1>8. Described'  BY <1>1, <1>7, NotYetDescribed
<1>9. Stream' = Stream
  <2>1. Held = <<>> /\ Held' = batch'  BY DEF Held
  <2>2. /\ file \in Seq(V) /\ <<>> \in Seq(V)
    BY DEF IInv, Types, TypeOK, V
  <2>3. batch' \o queue' = queue
    <3>1. /\ 1 \in 1 .. Len(queue) + 1 /\ n \in 1 - 1 .. Len(queue)
          /\ Len(queue) \in n .. Len(queue)
      BY <1>3
    <3>2. SubSeq(queue, 1, n) \o SubSeq(queue, n + 1, Len(queue))
          = SubSeq(queue, 1, Len(queue))
      BY <1>3, <3>1, ConcatAdjacentSubSeq
    <3>3. SubSeq(queue, 1, Len(queue)) = queue  BY <1>3, SubSeqFull
    <3> QED BY <1>2, <3>2, <3>3
  <2>4. Stream' = (file \o batch') \o queue'  BY <1>1, <2>1 DEF Stream
  <2>5. @ = file \o (batch' \o queue')
    <3>1. \A f, b, q \in Seq(V) : (f \o b) \o q = f \o (b \o q)
      BY ConcatAssociative
    <3>2. /\ file \in Seq(V)
          /\ batch' \in Seq(V)
          /\ queue' \in Seq(V)
      BY <1>4, <2>2
    <3> QED BY <3>1, <3>2, Zenon
  <2>6. @ = (file \o <<>>) \o queue  BY <2>2, <2>3, ConcatEmptySeq
  <2>7. @ = Stream  BY <2>1 DEF Stream
  <2> QED BY <2>4, <2>5, <2>6, <2>7
<1>10. \A i : Marked(i) => Marked(i)'  BY <1>1 DEF Marked
<1>11. Apart(file)'  BY <1>1, <1>10 DEF IInv, Apart
<1>12. Streams' /\ Bounds'
  <2>1. CASE counts.errors = 0
    <3>1. counts'.recorded = Len(file')  BY <1>1, <2>1 DEF IInv, Streams, Counted
    <3> QED BY <1>1, <1>9, <3>1, StreamMoves
  <2>2. CASE counts.errors # 0
    BY <1>1, <2>2 DEF IInv, Streams, Bounds
  <2> QED BY <2>1, <2>2
<1> QED BY <1>5, <1>6, <1>8, <1>11, <1>12 DEF IInv

LEMMA WritesKeeps == ASSUME IInv, WriterWrites  PROVE IInv'
<1> USE DEF WriterWrites, disk
<1>1. UNCHANGED <<active, queue, batch, ids, markers, feed, control, sidecar, past>>
  OBVIOUS
<1> DEFINE V == 1 .. MaxArrivals
<1>2. /\ file \in Seq(V) /\ batch \in Seq(V) /\ queue \in Seq(V)
      /\ <<>> \in Seq(V) /\ V \subseteq Nat
  BY DEF IInv, Types, TypeOK
<1> HIDE DEF V
<1>3. /\ file' \in Seq(V) /\ Len(file') = Len(file) + Len(batch)
      /\ Len(file) \in Nat /\ Len(batch) \in Nat
  BY <1>2, ConcatProperties
<1>4. /\ counts' \in [accepted : Nat, recorded : Nat, dropped : Nat, errors : 0 .. 1]
      /\ counts'.accepted = counts.accepted /\ counts'.dropped = counts.dropped
      /\ counts'.errors = counts.errors
      /\ counts'.recorded = counts.recorded + Len(batch)
  <2>3. counts.recorded \in Nat  BY CountTypes
  <2>1. counts.recorded + Len(batch) \in Nat  BY <1>3, <2>3
  <2> QED BY <2>1, CountTypes
<1>13. idFile' \in Seq(V) /\ torn' = torn
  <2>1. idFile \in Seq(V)  BY DEF IInv, Types, TypeOK, V
  <2> QED BY <1>2, <2>1, ConcatProperties
<1>5. Types'  BY <1>1, <1>3, <1>4, <1>13 DEF IInv, Types, TypeOK, V
<1>6. Threads'  BY <1>1, <1>4 DEF IInv, Threads
<1>7. control # "stopped" /\ counts.errors = 0
  BY CountTypes DEF IInv, Threads
<1>8. Described'  BY <1>1, <1>7, NotYetDescribed
<1>9. Held = batch /\ Held' = <<>>  BY DEF Held
<1>10. Stream' = file' \o queue /\ Stream = file' \o queue
  <2>1. file' \o <<>> = file'  BY <1>2, <1>3, ConcatEmptySeq
  <2> QED BY <1>1, <1>9, <2>1 DEF Stream
<1>11. Apart(file)'
  <2>1. /\ Len(Stream) = Len(file') + Len(queue) /\ Len(queue) \in Nat
        /\ \A i \in 1 .. Len(file') + Len(queue) :
              Stream[i] = IF i <= Len(file') THEN file'[i] ELSE queue[i - Len(file')]
    BY <1>2, <1>3, <1>10, ConcatProperties
  <2>2. /\ file' \in Seq(Nat)  BY <1>2, <1>3, SeqOfLarger
  <2>3. Len(file') \in Nat /\ Len(file') <= Len(Stream)  BY <1>3, <2>1
  <2>4. ASSUME NEW i \in 1 .. Len(file')  PROVE file'[i] = Stream[i]
    BY <2>1, <2>3
  <2> DEFINE f == file'
  <2>5. f \in Seq(Nat) /\ Len(f) <= Len(Stream)
        /\ \A i \in 1 .. Len(f) : f[i] = Stream[i]
    BY <2>2, <2>3, <2>4
  <2> HIDE DEF f
  <2>6. Apart(f)  BY <1>7, <2>5, PrefixApart
  <2>7. \A i \in DOMAIN f :
            /\ past.base < f[i]
            /\ i + 1 \in DOMAIN f => f[i + 1] = f[i] + 1 \/ Marked(i)
    BY <2>6 DEF Apart
  <2>8. \A i : Marked(i) => Marked(i)'  BY <1>1 DEF Marked
  <2> QED BY <1>1, <2>7, <2>8 DEF Apart, f
<1>12. Streams' /\ Bounds'
  <2>1. counts'.recorded = Len(file')
    BY <1>3, <1>4, <1>7 DEF IInv, Streams, Counted
  <2> QED BY <1>1, <1>4, <1>10, <2>1, StreamMoves
<1> QED BY <1>5, <1>6, <1>8, <1>11, <1>12 DEF IInv

\* A part of a sequence from its start.
LEMMA PartFacts ==
  ASSUME NEW S, NEW s \in Seq(S), NEW n \in 0 .. Len(s)
  PROVE  /\ SubSeq(s, 1, n) \in Seq(S) /\ Len(SubSeq(s, 1, n)) = n
         /\ \A i \in 1 .. n : SubSeq(s, 1, n)[i] = s[i]
<1>1. n \in Int /\ 1 \in Int /\ n \in Nat /\ \A i \in 1 .. n : s[i] \in S
  OBVIOUS
<1>2. /\ SubSeq(s, 1, n) \in Seq(S)
      /\ Len(SubSeq(s, 1, n)) = IF 1 <= n THEN n - 1 + 1 ELSE 0
      /\ \A i \in 1 .. n - 1 + 1 : SubSeq(s, 1, n)[i] = s[1 + i - 1]
  BY <1>1, SubSeqProperties
<1>3. Len(SubSeq(s, 1, n)) = n  BY <1>1, <1>2
<1>4. ASSUME NEW i \in 1 .. n  PROVE SubSeq(s, 1, n)[i] = s[i]
  <2>1. i \in 1 .. n - 1 + 1 /\ 1 + i - 1 = i  BY <1>1
  <2> QED BY <1>2, <2>1
<1> QED BY <1>2, <1>3, <1>4

\* After an error nothing more is promised of the stream.
LEMMA ErrorEnds ==
  ASSUME IInv, counts' = NoteWriteError, UNCHANGED <<ids, markers, feed, past>>
  PROVE  /\ Streams' /\ Bounds'
         /\ counts' \in [accepted : Nat, recorded : Nat, dropped : Nat, errors : 0 .. 1]
         /\ counts'.errors = 1
<1>1. /\ counts' \in [accepted : Nat, recorded : Nat, dropped : Nat, errors : 0 .. 1]
      /\ counts'.errors = 1 /\ counts'.accepted = counts.accepted
      /\ counts'.dropped = counts.dropped
  BY CountTypes DEF NoteWriteError
<1>2. Streams'  BY <1>1 DEF Streams
<1>3. Bounds'  BY <1>1 DEF IInv, Bounds
<1> QED BY <1>1, <1>2, <1>3

\* What fails keeps a beginning, and what does not fail keeps everything.
LEMMA StreamsFailFacts ==
  ASSUME NEW S, NEW records \in Seq(S), NEW updateIds \in Seq(S),
         NEW failing \in SUBSET TwoStreams, torn \subseteq TwoStreams,
         StreamsFail(failing, records, updateIds)
  PROVE  /\ file' \in Seq(S) /\ idFile' \in Seq(S) /\ torn' \subseteq TwoStreams
         /\ Len(file') <= Len(records)
         /\ \A i \in 1 .. Len(file') : file'[i] = records[i]
<1>1. PICK broken \in SUBSET failing :
         /\ torn' = (torn \ failing) \cup broken
         /\ file' \in IF "records" \in failing
                     THEN Kept(records, "records" \in broken) ELSE {records}
         /\ idFile' \in IF "ids" \in failing
                       THEN Kept(updateIds, "ids" \in broken) ELSE {updateIds}
  BY DEF StreamsFail
<1>2. torn' \subseteq TwoStreams  BY <1>1
<1>3. ASSUME NEW whole \in Seq(S), NEW broken1, NEW kept \in Kept(whole, broken1)
      PROVE  /\ kept \in Seq(S) /\ Len(kept) <= Len(whole)
             /\ \A i \in 1 .. Len(kept) : kept[i] = whole[i]
  <2>1. PICK n \in 0 .. Len(whole) : kept = SubSeq(whole, 1, n)
    BY <1>3 DEF Kept, Prefixes
  <2>2. Len(whole) \in Nat  OBVIOUS
  <2> QED BY <2>1, <2>2, PartFacts
<1>4. Len(records) \in Nat /\ Len(records) <= Len(records)
  OBVIOUS
<1>5. /\ file' \in Seq(S) /\ Len(file') <= Len(records)
      /\ \A i \in 1 .. Len(file') : file'[i] = records[i]
  <2>1. CASE "records" \in failing  BY <1>1, <1>3, <2>1
  <2>2. CASE "records" \notin failing  BY <1>1, <1>4, <2>2
  <2> QED BY <2>1, <2>2
<1>6. idFile' \in Seq(S)
  <2>1. CASE "ids" \in failing  BY <1>1, <1>3, <2>1
  <2>2. CASE "ids" \notin failing  BY <1>1, <2>2
  <2> QED BY <2>1, <2>2
<1> QED BY <1>2, <1>5, <1>6

LEMMA WriterFailsKeeps == ASSUME IInv, WriterFails  PROVE IInv'
<1> USE DEF WriterFails
<1>1. UNCHANGED <<queue, batch, ids, markers, feed, control, sidecar, past>>
  OBVIOUS
<1> DEFINE V == 1 .. MaxArrivals
           w == file \o batch
           u == idFile \o batch
<1>2. PICK failing \in SUBSET TwoStreams : StreamsFail(failing, w, u)
  OBVIOUS
<1>3. /\ file \in Seq(V) /\ batch \in Seq(V) /\ queue \in Seq(V) /\ V \subseteq Nat
      /\ idFile \in Seq(V) /\ torn \subseteq TwoStreams
  BY DEF IInv, Types, TypeOK
<1> HIDE DEF V
<1>4. /\ w \in Seq(V) /\ u \in Seq(V)
      /\ Len(w) = Len(file) + Len(batch) /\ Len(w) \in Nat
  BY <1>3, ConcatProperties
<1>12. Stream = w \o queue
  <2>1. Held = batch  BY DEF Held
  <2> QED BY <2>1 DEF Stream
<1> HIDE DEF w, u
<1>5. /\ file' \in Seq(V) /\ idFile' \in Seq(V) /\ torn' \subseteq TwoStreams
      /\ Len(file') <= Len(w)
      /\ \A i \in 1 .. Len(file') : file'[i] = w[i]
  BY <1>2, <1>3, <1>4, StreamsFailFacts
<1>6. /\ Streams' /\ Bounds' /\ counts'.errors = 1
      /\ counts' \in [accepted : Nat, recorded : Nat, dropped : Nat, errors : 0 .. 1]
  BY <1>1, ErrorEnds
<1>7. Types'  BY <1>1, <1>5, <1>6 DEF IInv, Types, TypeOK, V
<1>8. Threads'  BY <1>1, <1>6 DEF IInv, Threads
<1>9. control # "stopped" /\ counts.errors = 0
  BY CountTypes DEF IInv, Threads
<1>10. Described'  BY <1>1, <1>9, NotYetDescribed
<1>11. Apart(file)'
  <2> DEFINE f == file'
  <2>4. /\ Len(Stream) = Len(w) + Len(queue)
        /\ \A i \in 1 .. Len(w) + Len(queue) :
              Stream[i] = IF i <= Len(w) THEN w[i] ELSE queue[i - Len(w)]
    BY <1>3, <1>4, <1>12, ConcatProperties
  <2>5. Len(queue) \in Nat /\ Len(f) \in Nat  BY <1>3, <1>5
  <2>6. f \in Seq(Nat)  BY <1>3, <1>5, SeqOfLarger
  <2>7. Len(f) <= Len(Stream)  BY <1>4, <1>5, <2>4, <2>5
  <2>8. ASSUME NEW i \in 1 .. Len(f)  PROVE f[i] = Stream[i]
    <3>1. i \in 1 .. Len(w) + Len(queue) /\ i <= Len(w)
      BY <1>4, <1>5, <2>5
    <3> QED BY <1>5, <2>4, <3>1
  <2> HIDE DEF f
  <2>9. Apart(f)  BY <1>9, <2>6, <2>7, <2>8, PrefixApart
  <2>10. \A i \in DOMAIN f :
            /\ past.base < f[i]
            /\ i + 1 \in DOMAIN f => f[i + 1] = f[i] + 1 \/ Marked(i)
    BY <2>9 DEF Apart
  <2>11. \A i : Marked(i) => Marked(i)'  BY <1>1 DEF Marked
  <2> QED BY <1>1, <2>10, <2>11 DEF Apart, f
<1> QED BY <1>6, <1>7, <1>8, <1>10, <1>11 DEF IInv

LEMMA CloseFailsKeeps == ASSUME IInv, CloseFails  PROVE IInv'
<1> USE DEF CloseFails
<1>1. UNCHANGED <<active, queue, batch, ids, markers, feed, writer, sidecar, past>>
  OBVIOUS
<1>2. PICK failing \in SUBSET TwoStreams : StreamsFail(failing, file, idFile)
  OBVIOUS
<1> DEFINE V == 1 .. MaxArrivals
<1>3. file \in Seq(V) /\ idFile \in Seq(V) /\ torn \subseteq TwoStreams
  BY DEF IInv, Types, TypeOK
<1> HIDE DEF V
<1>4. /\ file' \in Seq(V) /\ idFile' \in Seq(V) /\ torn' \subseteq TwoStreams
      /\ Len(file') <= Len(file)
      /\ \A i \in 1 .. Len(file') : file'[i] = file[i]
  BY <1>2, <1>3, StreamsFailFacts
<1>5. /\ Streams' /\ Bounds' /\ counts'.errors = 1
      /\ counts' \in [accepted : Nat, recorded : Nat, dropped : Nat, errors : 0 .. 1]
  BY <1>1, ErrorEnds
<1>6. Types'  BY <1>1, <1>4, <1>5 DEF IInv, Types, TypeOK, V
<1>7. Threads'  BY <1>1, <1>5 DEF IInv, Threads
<1>8. Described'  BY <1>1, NotYetDescribed
<1>9. Apart(file)'
  <2>1. Apart(file) /\ DOMAIN file = 1 .. Len(file) /\ Len(file) \in Nat
    BY <1>3 DEF IInv
  <2>2. DOMAIN file' = 1 .. Len(file') /\ Len(file') \in Nat  BY <1>4
  <2>3. \A i : Marked(i) => Marked(i)'  BY <1>1 DEF Marked
  <2>4. ASSUME NEW i \in 1 .. Len(file')
        PROVE  /\ past.base < file'[i]
               /\ i + 1 \in 1 .. Len(file') =>
                     file'[i + 1] = file'[i] + 1 \/ Marked(i)
    <3>1. i \in DOMAIN file /\ file'[i] = file[i]  BY <1>4, <2>1, <2>2
    <3>2. i + 1 \in 1 .. Len(file') =>
             i + 1 \in DOMAIN file /\ file'[i + 1] = file[i + 1]
      BY <1>4, <2>1, <2>2
    <3> QED BY <2>1, <3>1, <3>2 DEF Apart
  <2> QED BY <1>1, <2>2, <2>3, <2>4 DEF Apart
<1> QED BY <1>5, <1>6, <1>7, <1>8, <1>9 DEF IInv

\* A new recording has nothing of the last one.
LEMMA StartKeeps ==
  ASSUME IInv, NEW feedStarts \in BOOLEAN, Start(feedStarts)
  PROVE  IInv'
<1> USE DEF Start, disk
<1>1. queue' = <<>> /\ batch' = batch  BY DEF Fifo!Reset
<1>2. /\ past' \in [arrived : 0 .. MaxArrivals, base : 0 .. MaxArrivals,
                    connections : Nat, sessions : Nat]
      /\ past'.base = past.arrived /\ past'.arrived = past.arrived
      /\ past.arrived \in Nat
  <2>1. past \in [arrived : 0 .. MaxArrivals, base : 0 .. MaxArrivals,
                  connections : Nat, sessions : Nat]
    BY DEF IInv, Types
  <2>2. past.sessions + 1 \in Nat /\ past.arrived \in 0 .. MaxArrivals
        /\ past.arrived \in Nat
    BY <2>1, RecorderAssumption
  <2> QED BY <2>1, <2>2
<1>3. /\ counts' = NoCounts /\ ids' = NoIds /\ markers' = <<>>
      /\ file' = <<>> /\ idFile' = <<>> /\ torn' = {}
      /\ sidecar' = NoSidecar /\ active' = TRUE /\ writer' = "consuming"
  OBVIOUS
<1>4. \/ feed' = "idle" /\ control' = "live"
      \/ feed' = "none" /\ control' = "stopping"
  OBVIOUS
<1>5. /\ counts' \in [accepted : Nat, recorded : Nat, dropped : Nat, errors : 0 .. 1]
      /\ counts'.accepted = 0 /\ counts'.recorded = 0 /\ counts'.dropped = 0
      /\ counts'.errors = 0
  BY <1>3 DEF NoCounts
<1>6. Types'
  <2>1. ids' \in [first : 0 .. MaxArrivals, last : 0 .. MaxArrivals]
    BY <1>3, RecorderAssumption DEF NoIds
  <2>2. Len(queue') <= QueueCapacity  BY <1>1, RecorderAssumption
  <2>3. TypeOK'
    BY <1>1, <1>3, <1>4, <1>5, <2>1, <2>2 DEF IInv, Types, TypeOK
  <2>4. markers' \in Seq([index : Nat,
                          kind : {"connection_start", "recording_queue_drop"}])
    BY <1>3
  <2> QED BY <1>2, <2>3, <2>4 DEF Types
<1>7. Threads'  BY <1>3, <1>4, <1>5 DEF Threads
<1>8. Described'  BY <1>3 DEF Described
<1>9. Stream' = <<>> /\ Len(Stream') = 0
  <2>1. Held' = <<>>  BY <1>3 DEF Held
  <2>2. <<>> \in Seq(Nat)  OBVIOUS
  <2>3. (<<>> \o <<>>) \o <<>> = <<>>  BY <2>2, ConcatEmptySeq
  <2>4. Stream' = <<>>  BY <1>1, <1>3, <2>1, <2>3 DEF Stream
  <2> QED BY <2>4
<1>10. Apart(file)'  BY <1>3 DEF Apart
<1>11. Streams'
  <2>1. Apart(Stream)' /\ GoesOn'  BY <1>9 DEF Apart, GoesOn
  <2>2. Pending' = 0 /\ Uncounted' = 0  BY <1>4 DEF Pending, Uncounted
  <2>3. Counted'  BY <1>2, <1>3, <1>5, <1>9, <2>2 DEF Counted
  <2>4. Ranged'
    <3>1. DOMAIN Stream' = {}  BY <1>9
    <3> QED BY <1>3, <1>5, <3>1 DEF Ranged
  <2> QED BY <2>1, <2>3, <2>4 DEF Streams
<1>12. Bounds'  BY <1>2, <1>3, <1>4 DEF Bounds, NoIds
<1> QED BY <1>6, <1>7, <1>8, <1>10, <1>11, <1>12 DEF IInv

LEMMA PublishesKeeps == ASSUME IInv, Publishes  PROVE IInv'
<1> USE DEF Publishes, disk
<1>1. UNCHANGED <<active, queue, batch, counts, ids, markers, feed, writer,
                  file, idFile, torn, past, Held>>
  BY DEF Held
<1>2. \A n : Marked(n) => Marked(n)'  BY <1>1 DEF Marked
<1>3. \A i \in DOMAIN markers' : markers'[i].index <= counts.accepted
  BY <1>1 DEF IInv, Bounds
<1>4. Apart(file)' /\ Streams' /\ Bounds'  BY <1>1, <1>2, <1>3, QuietKeeps
<1>5. Types'  BY <1>1 DEF IInv, Types, TypeOK
<1>6. Threads'  BY <1>1 DEF IInv, Threads
<1>7. Described'
  <2>1. DataComplete' = DataComplete  BY <1>1 DEF DataComplete
  <2> QED BY <1>1, <2>1 DEF Described
<1> QED BY <1>4, <1>5, <1>6, <1>7 DEF IInv

LEMMA PublishFailsKeeps == ASSUME IInv, PublishFails  PROVE IInv'
<1> USE DEF PublishFails, disk
<1>1. UNCHANGED <<active, queue, batch, ids, markers, feed, writer, file, idFile, torn,
                  sidecar, past>>
  OBVIOUS
<1>2. /\ Streams' /\ Bounds' /\ counts'.errors = 1
      /\ counts' \in [accepted : Nat, recorded : Nat, dropped : Nat, errors : 0 .. 1]
  BY <1>1, ErrorEnds
<1>3. Types'  BY <1>1, <1>2 DEF IInv, Types, TypeOK
<1>4. Threads'  BY <1>1, <1>2 DEF IInv, Threads
<1>5. Described'  BY <1>1 DEF IInv, Described
<1>6. Apart(file)'
  <2>1. \A i : Marked(i) => Marked(i)'  BY <1>1 DEF Marked
  <2> QED BY <1>1, <2>1 DEF IInv, Apart
<1> QED BY <1>2, <1>3, <1>4, <1>5, <1>6 DEF IInv

LEMMA InitEstablishes == Init => IInv
<1> SUFFICES ASSUME Init  PROVE IInv
  OBVIOUS
<1>1. queue = <<>> /\ batch = <<>>  BY DEF Init, Fifo!Init
<1>2. /\ counts = NoCounts /\ ids = NoIds /\ markers = <<>>
      /\ file = <<>> /\ idFile = <<>> /\ torn = {}
      /\ sidecar = NoSidecar /\ active = FALSE /\ writer = "none"
      /\ feed = "none" /\ control = "stopped"
      /\ past = [arrived |-> 0, base |-> 0, connections |-> 0, sessions |-> 0]
  BY DEF Init
<1>3. /\ counts \in [accepted : Nat, recorded : Nat, dropped : Nat, errors : 0 .. 1]
      /\ counts.accepted = 0 /\ counts.recorded = 0 /\ counts.dropped = 0
      /\ counts.errors = 0
  BY <1>2 DEF NoCounts
<1>4. Types
  <2>1. ids \in [first : 0 .. MaxArrivals, last : 0 .. MaxArrivals]
    BY <1>2, RecorderAssumption DEF NoIds
  <2>2. Len(queue) <= QueueCapacity /\ Len(batch) <= WriteBatchSize
    BY <1>1, RecorderAssumption
  <2>3. TypeOK
    <3>1. <<>> \in Seq(1 .. MaxArrivals)  OBVIOUS
    <3>2. /\ queue \in Seq(1 .. MaxArrivals) /\ batch \in Seq(1 .. MaxArrivals)
          /\ file \in Seq(1 .. MaxArrivals) /\ idFile \in Seq(1 .. MaxArrivals)
      BY <1>1, <1>2, <3>1
    <3> QED BY <1>2, <1>3, <2>1, <2>2, <3>2 DEF TypeOK
  <2>4. markers \in Seq([index : Nat,
                         kind : {"connection_start", "recording_queue_drop"}])
    BY <1>2
  <2>5. past \in [arrived : 0 .. MaxArrivals, base : 0 .. MaxArrivals,
                  connections : Nat, sessions : Nat]
    BY <1>2, RecorderAssumption
  <2> QED BY <2>3, <2>4, <2>5 DEF Types
<1>5. Threads  BY <1>2, <1>3 DEF Threads
<1>6. Described  BY <1>2 DEF Described
<1>7. Stream = <<>> /\ Len(Stream) = 0
  <2>1. Held = <<>>  BY <1>2 DEF Held
  <2>2. <<>> \in Seq(Nat)  OBVIOUS
  <2>3. (<<>> \o <<>>) \o <<>> = <<>>  BY <2>2, ConcatEmptySeq
  <2>4. Stream = <<>>  BY <1>1, <1>2, <2>1, <2>3 DEF Stream
  <2> QED BY <2>4
<1>8. Apart(file)  BY <1>2 DEF Apart
<1>9. Streams
  <2>1. Apart(Stream) /\ GoesOn  BY <1>7 DEF Apart, GoesOn
  <2>2. Pending = 0 /\ Uncounted = 0  BY <1>2 DEF Pending, Uncounted
  <2>3. Counted  BY <1>2, <1>3, <1>7, <2>2 DEF Counted
  <2>4. Ranged
    <3>1. DOMAIN Stream = {}  BY <1>7
    <3> QED BY <1>2, <1>3, <3>1 DEF Ranged
  <2> QED BY <2>1, <2>3, <2>4 DEF Streams
<1>10. Bounds  BY <1>2 DEF Bounds, NoIds
<1> QED BY <1>4, <1>5, <1>6, <1>8, <1>9, <1>10 DEF IInv

LEMMA StepsPreserve == IInv /\ [Next]_vars => IInv'
<1> SUFFICES ASSUME IInv, [Next]_vars  PROVE IInv'
  OBVIOUS
<1>1. CASE Connects  BY <1>1, ConnectsKeeps
<1>2. CASE RecordChecksActive  BY <1>2, ArrivesKeeps
<1>3. CASE RecordNext
  BY <1>3, PushesKeeps, DropsKeeps, MarksKeeps, CountsKeeps DEF RecordNext
<1>4. CASE FeedEnds \/ StopRequested  BY <1>4, MovesKeep
<1>5. CASE WriterNext
  BY <1>5, ConsumesKeeps, WritesKeeps, WriterFailsKeeps, MovesKeep DEF WriterNext
<1>6. CASE \E feedStarts \in BOOLEAN : Start(feedStarts)  BY <1>6, StartKeeps
<1>7. CASE StopNext
  BY <1>7, MovesKeep, CloseFailsKeeps, PublishesKeeps, PublishFailsKeeps DEF StopNext
<1>8. CASE UNCHANGED vars
  <2>1. Held' = Held  BY <1>8 DEF vars, Held
  <2>2. \A n : Marked(n) => Marked(n)'  BY <1>8 DEF vars, Marked
  <2>3. \A i \in DOMAIN markers' : markers'[i].index <= counts.accepted
    BY <1>8 DEF IInv, Bounds, vars
  <2>4. Apart(file)' /\ Streams' /\ Bounds'
    BY <1>8, <2>1, <2>2, <2>3, QuietKeeps DEF vars, disk
  <2>5. Types' /\ Threads'  BY <1>8 DEF vars, disk, IInv, Types, TypeOK, Threads
  <2>6. Described'  BY <1>8 DEF vars, IInv, Described, DataComplete
  <2> QED BY <2>4, <2>5, <2>6 DEF IInv
<1> QED BY <1>1, <1>2, <1>3, <1>4, <1>5, <1>6, <1>7, <1>8 DEF Next

\* A stream that has lost something has set the error count.
LEMMA IdsStepsPreserve == IInv /\ IdsInv /\ [Next]_vars => IdsInv'
<1> SUFFICES ASSUME IInv, IdsInv, [Next]_vars  PROVE IdsInv'
  OBVIOUS
<1> USE DEF IdsInv
<1>1. ASSUME UNCHANGED disk, counts'.errors = counts.errors \/ counts'.errors = 1
      PROVE  IdsInv'
  BY <1>1 DEF disk
<1>2. CASE Connects \/ RecordChecksActive \/ FeedEnds \/ StopRequested
  BY <1>1, <1>2 DEF Connects, RecordChecksActive, FeedEnds, StopRequested
<1>3. CASE RecordNext
  <2>1. UNCHANGED disk
    BY <1>3 DEF RecordNext, RecordPushes, RecordDropped, RecordMarksDrop, RecordCounts
  <2>2. counts'.errors = counts.errors
    BY <1>3, CountTypes
       DEF RecordNext, RecordPushes, RecordDropped, RecordMarksDrop, RecordCounts
  <2> QED BY <1>1, <2>1, <2>2
<1>4. CASE WriterConsumes \/ WriterChecksActive
  BY <1>1, <1>4 DEF WriterConsumes, WriterChecksActive
<1>5. CASE WriterWrites
  <2>1. counts'.errors = counts.errors  BY <1>5, CountTypes DEF WriterWrites
  <2> QED BY <1>5, <2>1 DEF WriterWrites
<1>6. CASE WriterFails \/ CloseFails \/ PublishFails
  <2>1. counts' = NoteWriteError  BY <1>6 DEF WriterFails, CloseFails, PublishFails
  <2>2. counts'.errors = 1  BY <2>1, CountTypes DEF NoteWriteError
  <2> QED BY <2>2
<1>7. CASE \E feedStarts \in BOOLEAN : Start(feedStarts)
  BY <1>7 DEF Start
<1>8. CASE FeedJoined \/ StopsAdmission \/ WriterJoined \/ Closes \/ Publishes
  BY <1>1, <1>8 DEF FeedJoined, StopsAdmission, WriterJoined, Closes, Publishes
<1>9. CASE UNCHANGED vars
  BY <1>1, <1>9 DEF vars
<1> QED BY <1>2, <1>3, <1>4, <1>5, <1>6, <1>7, <1>8, <1>9 DEF Next, WriterNext, StopNext

-----------------------------------------------------------------------------
(* Segments *)

\* A segment lies between two neighbouring cuts.
LEMMA SegmentFacts ==
  ASSUME NEW times, NEW boundaries, NEW maxGap, Len(times) \in Nat,
         NEW s \in Segments(times, boundaries, maxGap)
  PROVE  \E a, b \in 0 .. Len(times) :
            /\ a < b /\ s = (a + 1) .. b
            /\ a \in CutPoints(times, boundaries, maxGap)
            /\ b \in CutPoints(times, boundaries, maxGap)
            /\ \A c \in (a + 1) .. (b - 1) :
                  c \notin CutPoints(times, boundaries, maxGap)
<1> DEFINE C == CutPoints(times, boundaries, maxGap)
           n == Len(times)
           cuts == C \cap (0 .. n)
           Next2(q) == q[1] < q[2] /\ \A c \in cuts : c \notin (q[1] + 1) .. (q[2] - 1)
<1>1. Segments(times, boundaries, maxGap)
      = {(p[1] + 1) .. p[2] : p \in {q \in cuts \X cuts : Next2(q)}}
  BY DEF Segments
<1> HIDE DEF C, n
<1>2. PICK p \in cuts \X cuts : Next2(p) /\ s = (p[1] + 1) .. p[2]
  BY <1>1
<1>3. p[1] \in C /\ p[1] \in 0 .. n /\ p[2] \in C /\ p[2] \in 0 .. n
  BY <1>2
<1>4. n \in Nat  BY DEF n
<1>5. ASSUME NEW c \in (p[1] + 1) .. (p[2] - 1)  PROVE c \notin C
  <2>1. c \in 0 .. n  BY <1>3, <1>4
  <2> QED BY <1>2, <1>5, <2>1
<1> QED BY <1>2, <1>3, <1>5 DEF C, n

\* Neighbouring cuts bound a segment.
LEMMA SegmentExists ==
  ASSUME NEW times, NEW boundaries, NEW maxGap, Len(times) \in Nat,
         NEW a \in 0 .. Len(times), NEW b \in 0 .. Len(times), a < b,
         a \in CutPoints(times, boundaries, maxGap),
         b \in CutPoints(times, boundaries, maxGap),
         \A c \in (a + 1) .. (b - 1) : c \notin CutPoints(times, boundaries, maxGap)
  PROVE  (a + 1) .. b \in Segments(times, boundaries, maxGap)
<1> DEFINE C == CutPoints(times, boundaries, maxGap)
           n == Len(times)
           cuts == C \cap (0 .. n)
           Next2(q) == q[1] < q[2] /\ \A c \in cuts : c \notin (q[1] + 1) .. (q[2] - 1)
<1>1. Segments(times, boundaries, maxGap)
      = {(p[1] + 1) .. p[2] : p \in {q \in cuts \X cuts : Next2(q)}}
  BY DEF Segments
<1>2. a \in C /\ b \in C /\ \A c \in (a + 1) .. (b - 1) : c \notin C
  OBVIOUS
<1> HIDE DEF C
<1> DEFINE p == <<a, b>>
<1>3. p \in cuts \X cuts /\ p[1] = a /\ p[2] = b  BY <1>2
<1>4. Next2(p)  BY <1>2, <1>3
<1>5. p \in {q \in cuts \X cuts : Next2(q)}  BY <1>3, <1>4
<1> HIDE DEF p, cuts, Next2
<1> QED BY <1>1, <1>3, <1>5

\* The instants of the records.
LEMMA InstantsFacts ==
  ASSUME IInv, NEW times \in Instants
  PROVE  /\ Len(times) = Len(file) /\ Len(file) \in Nat
         /\ DOMAIN file = 1 .. Len(file)
         /\ times \in Seq(Nat)
<1>1. Len(file) \in Nat /\ DOMAIN file = 1 .. Len(file)
  BY DEF IInv, Types, TypeOK
<1>2. PICK late \in 1 .. Len(file) + 1 :
         times = [i \in DOMAIN file |-> IF i < late THEN i ELSE i + Gap]
  BY DEF Instants
<1>3. times \in [1 .. Len(file) -> Nat]  BY <1>1, <1>2 DEF Gap
<1>4. times \in Seq(Nat)  BY <1>1, <1>3, SeqDef
<1>5. Len(times) = Len(file)  BY <1>1, <1>3, <1>4
<1> QED BY <1>1, <1>4, <1>5

\* No loss lies inside a segment, because each is marked where it happened.
LEMMA SegmentsAreWhole == IInv => SegmentsHoldNoGap
<1> SUFFICES ASSUME IInv, NEW times \in Instants,
                    NEW s \in Segments(times, Range(markers), Gap), NEW i \in s
             PROVE  /\ past.base < file[i]
                    /\ i + 1 \in s => file[i + 1] = file[i] + 1
  BY DEF SegmentsHoldNoGap
<1>1. /\ Len(times) = Len(file) /\ Len(file) \in Nat
      /\ DOMAIN file = 1 .. Len(file)
  BY InstantsFacts
<1> DEFINE C == CutPoints(times, Range(markers), Gap)
<1>2. PICK a, b \in 0 .. Len(times) :
         /\ a < b /\ s = (a + 1) .. b
         /\ \A c \in (a + 1) .. (b - 1) : c \notin C
  BY <1>1, SegmentFacts
<1> HIDE DEF C
<1>3. i \in DOMAIN file  BY <1>1, <1>2
<1>4. i + 1 \in s => i + 1 \in DOMAIN file /\ i \in (a + 1) .. (b - 1)
  BY <1>1, <1>2
<1>5. Marked(i) => i \in C
  <2>1. \A j \in DOMAIN markers :
            markers[j].kind = "recording_queue_drop" => markers[j].index \in C
    <3> SUFFICES ASSUME NEW j \in DOMAIN markers,
                        markers[j].kind = "recording_queue_drop"
                 PROVE  markers[j].index \in C
      OBVIOUS
    <3>1. markers[j] \in Range(markers) /\ EndsHistory(markers[j])
      BY DEF Range, EndsHistory
    <3>2. markers[j].index \in {m.index : m \in {c \in Range(markers) : EndsHistory(c)}}
      BY <3>1
    <3> QED BY <3>2 DEF C, CutPoints
  <2> QED BY <2>1 DEF Marked
<1>6. Apart(file)  BY DEF IInv
<1> QED BY <1>2, <1>3, <1>4, <1>5, <1>6 DEF Apart

-----------------------------------------------------------------------------
(* The reader *)

\* What a stopped recorder has: the file is a part of the stream, whole if
\* the counts say so.
LEMMA StoppedFacts ==
  ASSUME IInv, control = "stopped", counts.errors = 0
  PROVE  /\ counts.recorded = Len(file) /\ counts.recorded <= counts.accepted
         /\ counts.dropped = 0 /\ counts.recorded = counts.accepted =>
               /\ Len(file) = past.arrived - past.base
               /\ \A i \in 1 .. Len(file) : file[i] = past.base + i
               /\ ids = IF Len(file) = 0 THEN NoIds
                        ELSE [first |-> past.base + 1,
                              last |-> past.base + Len(file)]
<1>1. feed = "none" /\ writer = "none"  BY DEF IInv, Threads
<1>2. Pending = 0 /\ Uncounted = 0 /\ Held = <<>>
  BY <1>1 DEF Pending, Uncounted, Held
<1>3. /\ Len(Stream) = Len(file) + Len(Held) + Len(queue)
      /\ file \in Seq(Nat) /\ queue \in Seq(Nat)
      /\ \A i \in DOMAIN file : i \in DOMAIN Stream /\ Stream[i] = file[i]
  BY StreamFacts DEF IInv
<1>4. Counted /\ Ranged  BY DEF IInv, Streams
<1>5. /\ counts.accepted \in Nat /\ counts.recorded \in Nat /\ counts.dropped \in Nat
  BY CountTypes
<1>6. /\ Len(file) \in Nat /\ Len(queue) \in Nat /\ Len(Held) = 0
      /\ DOMAIN file = 1 .. Len(file)
  BY <1>2, <1>3
<1>7. Len(Stream) = Len(file) + Len(queue)  BY <1>3, <1>6
<1>8. counts.recorded = Len(file) /\ counts.recorded <= counts.accepted
  BY <1>2, <1>4, <1>5, <1>6, <1>7 DEF Counted
<1>9. ASSUME counts.dropped = 0, counts.recorded = counts.accepted
      PROVE  /\ Len(file) = past.arrived - past.base
             /\ \A i \in 1 .. Len(file) : file[i] = past.base + i
             /\ ids = IF Len(file) = 0 THEN NoIds
                      ELSE [first |-> past.base + 1,
                            last |-> past.base + Len(file)]
  <2>1. Len(file) = counts.accepted  BY <1>8, <1>9
  <2>2. Len(file) = past.arrived - past.base
    <3> DEFINE n == Len(file)
    <3>1. n = Len(Stream) /\ n \in Nat
      BY <1>2, <1>4, <1>5, <1>6, <2>1 DEF Counted
    <3>2. Len(Stream) + 0 + 0 = past.arrived - past.base
      BY <1>2, <1>4, <1>9 DEF Counted
    <3> HIDE DEF n
    <3>3. n = past.arrived - past.base  BY <3>1, <3>2
    <3> QED BY <3>3 DEF n
  <2>3. ASSUME NEW i \in 1 .. Len(file)  PROVE file[i] = past.base + i
    <3>1. i \in DOMAIN file  BY <1>6
    <3> QED BY <1>3, <1>4, <1>9, <3>1 DEF Ranged
  <2> QED BY <1>4, <1>9, <2>1, <2>2, <2>3 DEF Ranged
<1> QED BY <1>8, <1>9

\* Neither stream nor sidecar is taken for a missing file.
LEMMA FilesFacts ==
  ASSUME IInv
  PROVE  /\ Files.records # NoFile /\ Files.ids # NoFile
         /\ Files.records = [id |-> past.sessions, list |-> file,
                             torn |-> "records" \in torn]
         /\ Files.ids = [id |-> past.sessions, list |-> idFile,
                         torn |-> "ids" \in torn]
         /\ Files.sidecar = SidecarFile
         /\ sidecar.published => SidecarFile # NoFile
<1>1. /\ Files.records = [id |-> past.sessions, list |-> file,
                          torn |-> "records" \in torn]
      /\ Files.ids = [id |-> past.sessions, list |-> idFile, torn |-> "ids" \in torn]
      /\ Files.sidecar = SidecarFile
  BY DEF Files
<1>2. past.sessions \in Nat /\ file \in Seq(Nat) /\ idFile \in Seq(Nat)
  <2>1. idFile \in Seq(1 .. MaxArrivals) /\ 1 .. MaxArrivals \subseteq Nat
    BY DEF IInv, Types, TypeOK
  <2>2. idFile \in Seq(Nat)  BY <2>1, SeqOfLarger
  <2> QED BY <2>2, StreamFacts DEF IInv, Types
<1>3. Files.records \in RecordFiles /\ Files.ids \in RecordFiles
  BY <1>1, <1>2 DEF RecordFiles
<1>4. ASSUME sidecar.published  PROVE SidecarFile \in Sidecars
  <2>1. sidecar = [published |-> TRUE, complete |-> DataComplete,
                   counts |-> counts, ids |-> ids, boundaries |-> markers]
    BY <1>4 DEF IInv, Described, NoSidecar
  <2>2. SidecarFile = [id |-> past.sessions, clean |-> TRUE,
                       complete |-> DataComplete, counts |-> counts, ids |-> ids,
                       boundaries |-> markers]
    BY <1>4, <2>1 DEF SidecarFile
  <2>3. DataComplete \in BOOLEAN  BY DEF DataComplete
  <2>4. counts \in [accepted : Nat, recorded : Nat, dropped : Nat, errors : Nat]
    <3>1. counts \in [accepted : Nat, recorded : Nat, dropped : Nat, errors : 0 .. 1]
      BY CountTypes
    <3>2. 0 .. 1 \subseteq Nat  OBVIOUS
    <3> QED BY <3>1, <3>2
  <2>5. ids \in [first : Nat, last : Nat]
    <3>1. ids \in [first : 0 .. MaxArrivals, last : 0 .. MaxArrivals]
      BY DEF IInv, Types, TypeOK
    <3>2. 0 .. MaxArrivals \subseteq Nat  OBVIOUS
    <3> QED BY <3>1, <3>2
  <2>6. markers \in Seq([index : Nat,
                         kind : {"connection_start", "recording_queue_drop"}])
    BY DEF IInv, Types
  <2>7. TRUE \in BOOLEAN  OBVIOUS
  <2> QED BY <1>2, <2>2, <2>3, <2>4, <2>5, <2>6, <2>7 DEF Sidecars
<1> QED BY <1>1, <1>3, <1>4, AbsenceAssumption

\* Without a sidecar the two streams are at best an incomplete recording.
LEMMA UnpublishedIsIncomplete ==
  ASSUME IInv, ~ sidecar.published
  PROVE  Verdict(Files) = IF torn = {} /\ Len(idFile) = Len(file)
                          THEN "incomplete" ELSE "refused"
<1>1. Files.sidecar = NoFile  BY FilesFacts DEF SidecarFile
<1>2. ~ BoundariesRefused(Files)  BY <1>1 DEF BoundariesRefused, BoundariesOf
<1>3. /\ Files.records # NoFile /\ Files.ids # NoFile
      /\ Files.records.id = Files.ids.id
      /\ Files.records.list = file /\ Files.ids.list = idFile
      /\ Files.records.torn = ("records" \in torn) /\ Files.ids.torn = ("ids" \in torn)
  BY FilesFacts
<1>4. UpdateIdsRefused(Files) <=> "ids" \in torn \/ Len(idFile) # Len(file)
  BY <1>1, <1>3 DEF UpdateIdsRefused
<1>5. torn = {} <=> "records" \notin torn /\ "ids" \notin torn
  BY DEF IInv, Types, TypeOK, TwoStreams
<1> QED BY <1>1, <1>2, <1>3, <1>4, <1>5 DEF Verdict

\* A published recording without an error, with all that was accepted in it,
\* is accepted for what its sidecar says.
LEMMA WholeIsAccepted ==
  ASSUME IInv, IdsInv, sidecar.published, counts.errors = 0,
         counts.recorded = counts.accepted
  PROVE  Verdict(Files) = IF sidecar.complete THEN "complete" ELSE "incomplete"
<1>1. /\ control = "stopped"
      /\ sidecar = [published |-> TRUE, complete |-> DataComplete,
                    counts |-> counts, ids |-> ids, boundaries |-> markers]
  BY DEF IInv, Described, NoSidecar
<1>2. SidecarFile = [id |-> past.sessions, clean |-> TRUE,
                     complete |-> DataComplete, counts |-> counts, ids |-> ids,
                     boundaries |-> markers]
  BY <1>1 DEF SidecarFile
<1> DEFINE f == Files
           s == SidecarFile
<1>3. /\ f.records # NoFile /\ f.ids # NoFile /\ f.ids = f.records
      /\ f.records = [id |-> past.sessions, list |-> file, torn |-> FALSE]
      /\ f.sidecar = s /\ s # NoFile
  <2>1. idFile = file /\ ("records" \in torn) = FALSE /\ ("ids" \in torn) = FALSE
    BY DEF IdsInv
  <2> QED BY <2>1, FilesFacts
<1>4. counts.recorded = Len(file)  BY <1>1, StoppedFacts
<1>5. counts.recorded \in Nat /\ counts.accepted \in Nat  BY CountTypes
<1>6. /\ f.records.id = past.sessions /\ f.records.list = file /\ ~ f.records.torn
      /\ s.id = past.sessions /\ s.clean = TRUE /\ s.complete = DataComplete
      /\ s.counts = counts /\ s.ids = ids /\ s.boundaries = markers
  BY <1>2, <1>3
<1> HIDE DEF f, s
<1>7. ~ BoundariesRefused(f)
  <2>1. BoundariesOf(f) = Range(markers)  BY <1>3, <1>6 DEF BoundariesOf
  <2>2. ASSUME NEW j \in DOMAIN markers
        PROVE  markers[j].index \in 0 .. Len(file)
    <3>1. markers \in Seq(MarkerType)  BY DEF IInv, Types, MarkerType
    <3>4. markers[j] \in MarkerType  BY <3>1
    <3>2. markers[j].index \in Nat  BY <3>4 DEF MarkerType
    <3>3. markers[j].index <= counts.accepted  BY DEF IInv, Bounds
    <3> QED BY <1>4, <1>5, <3>2, <3>3
  <2>3. \A b \in Range(markers) : b.index \in 0 .. Len(file)
    BY <2>2 DEF Range
  <2> QED BY <1>6, <2>1, <2>3 DEF BoundariesRefused
<1>8. ~ UpdateIdsRefused(f)
  BY <1>3, <1>4, <1>6 DEF UpdateIdsRefused
<1>9. ~ SidecarRefused(f)
  <2>1. ids.first <= ids.last /\ ids.first \in Nat /\ ids.last \in Nat
    BY RecorderAssumption DEF IInv, Bounds, Types, TypeOK
  <2>2. DataComplete => counts.dropped = 0 /\ counts.errors = 0
    BY DEF DataComplete
  <2>3. ~ (counts.recorded > counts.accepted)  BY <1>5
  <2>4. ~ (ids.first > ids.last)  BY <2>1
  <2> QED BY <1>3, <1>4, <1>6, <2>2, <2>3, <2>4 DEF SidecarRefused
<1>10. f.sidecar.complete = sidecar.complete  BY <1>1, <1>3, <1>6
<1>11. Verdict(f) = IF sidecar.complete THEN "complete" ELSE "incomplete"
  BY <1>3, <1>6, <1>7, <1>8, <1>9, <1>10 DEF Verdict
<1> QED BY <1>11 DEF f

\* A complete recording holds every arrival of its session.
LEMMA CompleteIsWhole ==
  ASSUME IInv, sidecar.published, sidecar.complete
  PROVE  /\ counts.errors = 0 /\ counts.recorded = counts.accepted
         /\ UpdateIdsValid(file, SidecarFile)
         /\ file = [i \in 1 .. past.arrived - past.base |-> past.base + i]
<1>1. /\ control = "stopped"
      /\ sidecar = [published |-> TRUE, complete |-> DataComplete,
                    counts |-> counts, ids |-> ids, boundaries |-> markers]
  BY DEF IInv, Described, NoSidecar
<1>2. SidecarFile.ids = ids  BY <1>1 DEF SidecarFile
<1>3. counts.dropped = 0 /\ counts.errors = 0 /\ counts.recorded = counts.accepted
  BY <1>1 DEF DataComplete
<1> DEFINE n == Len(file)
<1>4. /\ n = past.arrived - past.base
      /\ \A i \in 1 .. n : file[i] = past.base + i
      /\ ids = IF n = 0 THEN NoIds
               ELSE [first |-> past.base + 1, last |-> past.base + n]
  BY <1>1, <1>3, StoppedFacts
<1>5. n \in Nat /\ DOMAIN file = 1 .. n /\ file = [i \in 1 .. n |-> file[i]]
      /\ past.base \in Nat
  <2>1. file \in Seq(Nat)  BY StreamFacts DEF IInv
  <2>2. past.base \in Nat  BY RecorderAssumption DEF IInv, Types
  <2> QED BY <2>1, <2>2
<1>6. file = [i \in 1 .. past.arrived - past.base |-> past.base + i]
  BY <1>4, <1>5
<1>7. UpdateIdsValid(file, SidecarFile)
  <2> SUFFICES ASSUME file # <<>>
               PROVE  /\ \A i \in DOMAIN file :
                            file[i] > 0 /\ (i > 1 => file[i - 1] < file[i])
                      /\ ids.first \in {0, file[1]} /\ ids.last \in {0, Last(file)}
    BY <1>2 DEF UpdateIdsValid
  <2>1. n # 0
    <3>1. file \in Seq(Nat)  BY StreamFacts DEF IInv
    <3> QED BY <3>1
  <2> HIDE DEF n
  <2>2. ASSUME NEW i \in 1 .. n
        PROVE file[i] > 0 /\ (i > 1 => file[i - 1] < file[i])
    <3>1. file[i] = past.base + i  BY <1>4
    <3>2. i > 1 => i - 1 \in 1 .. n /\ file[i - 1] = past.base + (i - 1)
      BY <1>4, <1>5
    <3> QED BY <1>5, <3>1, <3>2
  <2>3. 1 \in 1 .. n /\ n \in 1 .. n  BY <1>5, <2>1
  <2>4. ids.first = file[1] /\ ids.last = file[n]  BY <1>4, <2>1, <2>3
  <2>5. Last(file) = file[n]  BY DEF Last, n
  <2> QED BY <1>5, <2>2, <2>4, <2>5
<1> QED BY <1>3, <1>6, <1>7

LEMMA ReaderFollows == IInv /\ IdsInv => ReaderAgrees
<1> SUFFICES ASSUME IInv, IdsInv, control = "stopped", past.sessions > 0
             PROVE  IF ~ sidecar.published
                    THEN Verdict(Files) = IF torn = {} /\ Len(idFile) = Len(file)
                                          THEN "incomplete" ELSE "refused"
                    ELSE /\ sidecar.complete <=> Verdict(Files) = "complete"
                         /\ sidecar.complete =>
                              /\ UpdateIdsValid(idFile, SidecarFile) /\ idFile = file
                              /\ file = [i \in 1 .. past.arrived - past.base |->
                                            past.base + i]
                         /\ Verdict(Files) = "refused" =>
                              \/ sidecar.counts.errors = 1
                              \/ sidecar.counts.recorded < sidecar.counts.accepted
  BY DEF ReaderAgrees
<1>1. CASE ~ sidecar.published  BY <1>1, UnpublishedIsIncomplete
<1>2. CASE sidecar.published
  <2>1. /\ sidecar.counts = counts /\ sidecar.complete = DataComplete
    BY <1>2 DEF IInv, Described, NoSidecar
  <2>2. sidecar.complete => Verdict(Files) = "complete"
    BY <1>2, CompleteIsWhole, WholeIsAccepted
  <2>3. Verdict(Files) = "complete" => sidecar.complete
    <3>1. SidecarFile.complete = sidecar.complete  BY <1>2 DEF SidecarFile
    <3>2. Files.sidecar.complete = sidecar.complete  BY <3>1, FilesFacts
    <3> QED BY <3>2, FilesFacts, <1>2 DEF Verdict
  <2>4. sidecar.complete =>
          /\ UpdateIdsValid(idFile, SidecarFile) /\ idFile = file
          /\ file = [i \in 1 .. past.arrived - past.base |-> past.base + i]
    BY <1>2, CompleteIsWhole DEF IdsInv
  <2>5. ASSUME Verdict(Files) = "refused"
        PROVE  counts.errors = 1 \/ counts.recorded < counts.accepted
    <3>1. ~ (counts.errors = 0 /\ counts.recorded = counts.accepted)
      BY <1>2, <2>5, WholeIsAccepted
    <3>2. counts.errors \in 0 .. 1 /\ counts.recorded \in Nat /\ counts.accepted \in Nat
      BY CountTypes
    <3>3. counts.errors = 0 => counts.recorded <= counts.accepted
      BY StoppedFacts
    <3> QED BY <3>1, <3>2, <3>3
  <2> QED BY <1>2, <2>1, <2>2, <2>3, <2>4, <2>5
<1> QED BY <1>1, <1>2

-----------------------------------------------------------------------------
(* Histories *)

\* A nonempty set of naturals has a least element.
LEMMA LeastExists ==
  ASSUME NEW S \in SUBSET Nat, S # {}
  PROVE  \E m \in S : \A n \in S : m <= n
<1> DEFINE less == OpToRel(<, Nat)
<1>1. \E m \in S : \A n \in S : ~ (<<n, m>> \in less)
  <2>1. IsWellFoundedOn(less, Nat)  BY NatLessThanWellFounded
  <2> HIDE DEF less
  <2> QED BY <2>1, WFMin
<1>2. \A m, n \in Nat : <<n, m>> \in less <=> n < m  BY DEF OpToRel
<1> HIDE DEF less
<1>3. PICK m \in S : \A n \in S : ~ (<<n, m>> \in less)  BY <1>1
<1>4. \A n \in S : m \in Nat /\ n \in Nat /\ ~ (n < m)  BY <1>2, <1>3
<1>5. \A n \in S : m <= n  BY <1>4
<1> QED BY <1>5

\* The cut behind which record i stands, how many records the history then
\* holds, and which.
LastCut(C, i) == CHOOSE a \in 0 .. i - 1 :
                    a \in C /\ \A c \in (a + 1) .. (i - 1) : c \notin C
Reach(C, i) == IF i - LastCut(C, i) <= MaxHistory + 1 THEN i - LastCut(C, i)
               ELSE MaxHistory + 1
Recent(C, i) == [k \in 1 .. Reach(C, i) |-> i - Reach(C, i) + k]

LEMMA LastCutFacts ==
  ASSUME NEW C, 0 \in C, NEW i \in Nat \ {0}
  PROVE  LET a == LastCut(C, i)
         IN /\ a \in 0 .. i - 1 /\ a \in C /\ \A c \in (a + 1) .. (i - 1) : c \notin C
            /\ \A x \in 0 .. i - 1 :
                  x \in C /\ (\A c \in (x + 1) .. (i - 1) : c \notin C) => x = a
<1> DEFINE Is(x) == x \in C /\ \A c \in (x + 1) .. (i - 1) : c \notin C
           a == LastCut(C, i)
           D == {d \in 1 .. i : i - d \in C}
<1>1. \E x \in 0 .. i - 1 : Is(x)
  <2>1. D \in SUBSET Nat /\ i \in D  OBVIOUS
  <2>2. PICK d \in D : \A e \in D : d <= e
    <3> HIDE DEF D
    <3> QED BY <2>1, LeastExists
  <2>3. i - d \in 0 .. i - 1 /\ i - d \in C /\ d \in 1 .. i  BY <2>2
  <2>4. ASSUME NEW c \in (i - d + 1) .. (i - 1), c \in C  PROVE FALSE
    <3>1. c \in Int /\ c >= i - d + 1 /\ c <= i - 1  BY <2>3, <2>4
    <3>2. i - c \in 1 .. i /\ i - (i - c) = c /\ i - c < d  BY <2>3, <3>1
    <3>3. i - c \in D  BY <2>4, <3>2
    <3> QED BY <2>2, <2>3, <3>2, <3>3
  <2> QED BY <2>3, <2>4
<1>2. a \in 0 .. i - 1 /\ Is(a)
  <2>1. a = CHOOSE x \in 0 .. i - 1 : Is(x)  BY DEF LastCut
  <2> HIDE DEF a, Is
  <2> QED BY <1>1, <2>1
<1>3. ASSUME NEW x \in 0 .. i - 1, Is(x)  PROVE x = a
  <2> HIDE DEF a
  <2>1. ~ (x < a)
    <3>1. x < a => a \in (x + 1) .. (i - 1)  BY <1>2
    <3> QED BY <1>2, <1>3, <3>1
  <2>2. ~ (a < x)
    <3>1. a < x => x \in (a + 1) .. (i - 1)  BY <1>2
    <3> QED BY <1>2, <1>3, <3>1
  <2> QED BY <1>2, <2>1, <2>2
<1> QED BY <1>2, <1>3

LEMMA RecentFacts ==
  ASSUME NEW C, 0 \in C, NEW i \in Nat \ {0}
  PROVE  /\ Reach(C, i) \in 1 .. MaxHistory + 1 /\ Reach(C, i) <= i
         /\ Recent(C, i) \in Seq(Nat) /\ Len(Recent(C, i)) = Reach(C, i)
         /\ \A k \in 1 .. Reach(C, i) : Recent(C, i)[k] = i - Reach(C, i) + k
<1> DEFINE r == Reach(C, i)
<1>1. r \in 1 .. MaxHistory + 1 /\ r <= i
  <2>1. LastCut(C, i) \in 0 .. i - 1  BY LastCutFacts
  <2> QED BY <2>1, FeatureAssumption DEF Reach
<1>2. Recent(C, i) = [k \in 1 .. r |-> i - r + k]  BY DEF Recent
<1> HIDE DEF r
<1>3. r \in Nat  BY <1>1, FeatureAssumption
<1>4. Recent(C, i) \in [1 .. r -> Nat]  BY <1>1, <1>2, <1>3
<1>5. Recent(C, i) \in Seq(Nat)  BY <1>3, <1>4, SeqDef
<1>6. Len(Recent(C, i)) = r  BY <1>3, <1>4, <1>5
<1> QED BY <1>1, <1>2, <1>5, <1>6 DEF r

\* A record joins the history, or begins one.
LEMMA RecentGrows ==
  ASSUME NEW C, 0 \in C, NEW i \in Nat \ {0}
  PROVE  LET before == IF i - 1 \in C THEN <<>> ELSE Recent(C, i - 1)
             kept   == IF Len(before) = MaxHistory + 1 THEN Tail(before) ELSE before
         IN Append(kept, i) = Recent(C, i)
<1> DEFINE before == IF i - 1 \in C THEN <<>> ELSE Recent(C, i - 1)
           kept   == IF Len(before) = MaxHistory + 1 THEN Tail(before) ELSE before
           r == Reach(C, i)
           M == MaxHistory
<1>1. /\ r \in 1 .. M + 1 /\ r <= i /\ Recent(C, i) \in Seq(Nat)
      /\ Len(Recent(C, i)) = r
      /\ \A k \in 1 .. r : Recent(C, i)[k] = i - r + k
  BY RecentFacts
<1>2. M \in Nat /\ i \in Nat  BY FeatureAssumption
<1>3. /\ LastCut(C, i) \in 0 .. i - 1
      /\ \A x \in 0 .. i - 1 :
            x \in C /\ (\A c \in (x + 1) .. (i - 1) : c \notin C) => x = LastCut(C, i)
  BY LastCutFacts
<1>4. r = IF i - LastCut(C, i) <= M + 1 THEN i - LastCut(C, i) ELSE M + 1
  BY DEF Reach
<1> HIDE DEF r, M
<1>5. /\ kept \in Seq(Nat) /\ Len(kept) = r - 1
      /\ \A k \in 1 .. r - 1 : kept[k] = i - r + k
  <2>1. CASE i - 1 \in C
    <3>1. i - 1 \in 0 .. i - 1 /\ \A c \in (i - 1 + 1) .. (i - 1) : c \notin C
      BY <1>2
    <3>2. LastCut(C, i) = i - 1  BY <1>3, <2>1, <3>1
    <3>3. r = 1  BY <1>2, <1>4, <3>2
    <3>4. before = <<>> /\ Len(<<>>) = 0  BY <2>1
    <3>5. kept = <<>>
      <4>1. Len(before) # M + 1  BY <1>2, <3>4
      <4> QED BY <3>4, <4>1 DEF M
    <3> HIDE DEF kept, before
    <3>6. Len(kept) = 0 /\ kept \in Seq(Nat)  BY <3>5
    <3> QED BY <3>3, <3>6
  <2>2. CASE i - 1 \notin C
    <3> DEFINE p == Reach(C, i - 1)
               a == LastCut(C, i - 1)
    <3>1. i # 1 /\ i - 1 \in Nat \ {0}  BY <1>2, <2>2
    <3>2. /\ p \in 1 .. M + 1 /\ p <= i - 1 /\ Recent(C, i - 1) \in Seq(Nat)
          /\ Len(Recent(C, i - 1)) = p
          /\ \A k \in 1 .. p : Recent(C, i - 1)[k] = i - 1 - p + k
      BY <3>1, RecentFacts DEF M
    <3>3. /\ a \in 0 .. i - 1 - 1 /\ a \in C
          /\ \A c \in (a + 1) .. (i - 1 - 1) : c \notin C
      BY <3>1, LastCutFacts
    <3>4. p = IF i - 1 - a <= M + 1 THEN i - 1 - a ELSE M + 1
      BY DEF Reach, M
    <3> HIDE DEF p, a
    <3>5. a = LastCut(C, i)
      <4>1. ASSUME NEW c \in (a + 1) .. (i - 1)  PROVE c \notin C
        <5>1. c = i - 1 \/ c \in (a + 1) .. (i - 1 - 1)  BY <1>2, <3>3
        <5> QED BY <2>2, <3>3, <5>1
      <4>2. a \in 0 .. i - 1  BY <1>2, <3>3
      <4> QED BY <1>3, <3>3, <4>1, <4>2
    <3>6. before = Recent(C, i - 1)  BY <2>2
    <3> DEFINE s == Recent(C, i - 1)
    <3>7. s \in Seq(Nat) /\ Len(s) = p /\ \A k \in 1 .. p : s[k] = i - 1 - p + k
      BY <3>2
    <3> HIDE DEF s
    <3>8. CASE p = M + 1
      <4>1. r = M + 1  BY <1>2, <1>4, <3>3, <3>4, <3>5, <3>8
      <4>2. kept = Tail(s)  BY <3>6, <3>7, <3>8 DEF M, s
      <4>3. s # <<>>  BY <1>2, <3>7, <3>8
      <4>4. /\ Tail(s) \in Seq(Nat) /\ Len(Tail(s)) = p - 1
            /\ \A k \in 1 .. p - 1 : Tail(s)[k] = s[k + 1]
        BY <1>2, <3>7, <3>8, <4>3
      <4> HIDE DEF kept
      <4>5. ASSUME NEW k \in 1 .. r - 1  PROVE kept[k] = i - r + k
        <5>1. k \in 1 .. p - 1 /\ k + 1 \in 1 .. p
          BY <1>2, <3>8, <4>1
        <5>2. kept[k] = i - 1 - p + (k + 1)  BY <3>7, <4>2, <4>4, <5>1
        <5> QED BY <1>2, <3>8, <4>1, <5>1, <5>2
      <4> QED BY <3>8, <4>1, <4>2, <4>4, <4>5
    <3>9. CASE p # M + 1
      <4>1. p = i - 1 - a /\ r = i - a /\ r = p + 1
        BY <1>2, <1>4, <3>2, <3>3, <3>4, <3>5, <3>9
      <4>2. kept = s  BY <3>6, <3>7, <3>9 DEF M, s
      <4> HIDE DEF kept
      <4>3. ASSUME NEW k \in 1 .. r - 1  PROVE kept[k] = i - r + k
        <5>1. k \in 1 .. p  BY <1>2, <3>2, <4>1
        <5> QED BY <1>2, <3>2, <3>7, <4>1, <4>2, <5>1
      <4>4. Len(kept) = r - 1  BY <1>2, <3>2, <3>7, <4>1, <4>2
      <4> QED BY <3>7, <4>2, <4>3, <4>4
    <3> QED BY <3>8, <3>9
  <2> QED BY <2>1, <2>2
<1> HIDE DEF kept
<1> DEFINE u == Append(kept, i)
<1>6. /\ u \in Seq(Nat) /\ Len(u) = r /\ u[r] = i
      /\ \A k \in 1 .. r - 1 : u[k] = kept[k]
  <2>1. r \in Nat /\ Len(kept) + 1 = r  BY <1>1, <1>2, <1>5
  <2> QED BY <1>2, <1>5, <2>1, AppendProperties
<1> HIDE DEF u
<1>7. ASSUME NEW k \in 1 .. r  PROVE u[k] = Recent(C, i)[k]
  <2>1. r \in Nat  BY <1>1, <1>2
  <2>2. CASE k = r  BY <1>1, <1>2, <1>6, <2>1, <2>2
  <2>3. CASE k # r
    <3>1. k \in 1 .. r - 1  BY <2>1, <2>3
    <3> QED BY <1>1, <1>5, <1>6, <3>1
  <2> QED BY <2>2, <2>3
<1>8. u = Recent(C, i)
  <2>1. r \in Nat  BY <1>1, <1>2
  <2>2. /\ u = [k \in 1 .. r |-> u[k]]
        /\ Recent(C, i) = [k \in 1 .. r |-> Recent(C, i)[k]]
    BY <1>1, <1>6, <2>1
  <2> QED BY <1>7, <2>2
<1> QED BY <1>8 DEF u, kept

\* The history that update() goes on from at record i, given the last one.
Before(times, resets, maxGap, i, h) ==
    IF i \in resets \/ ~ Continues(times, i, maxGap) THEN <<>> ELSE h
Update(times, resets, maxGap, i, h) ==
    LET before == Before(times, resets, maxGap, i, h)
        full   == Len(before) = MaxHistory + 1
    IN Append(IF full THEN Tail(before) ELSE before, i)

\* f is the function Histories() evaluates.
Keeps(times, resets, maxGap, f) ==
    f = [i \in 0 .. Len(times) |->
            IF i = 0 THEN <<>> ELSE Update(times, resets, maxGap, i, f[i - 1])]

\* update() forgets where a segment ends, and nowhere else.
LEMMA ResetsAreCuts ==
  ASSUME NEW times, NEW boundaries, NEW maxGap, Len(times) \in Nat,
         \A b \in boundaries : b.index \in Nat,
         NEW i \in 2 .. Len(times)
  PROVE  i \in FeatureResets(boundaries) \/ ~ Continues(times, i, maxGap)
            <=> i - 1 \in CutPoints(times, boundaries, maxGap)
<1> DEFINE n == Len(times)
           marks == {b.index : b \in {c \in boundaries : EndsHistory(c)}}
           leaps == {j \in 1 .. n - 1 : times[j + 1] - times[j] \notin 0 .. maxGap}
<1>1. CutPoints(times, boundaries, maxGap) = {0, n} \cup marks \cup leaps
  BY DEF CutPoints
<1>2. i \in FeatureResets(boundaries) <=> i - 1 \in marks
  <2>1. ASSUME i \in FeatureResets(boundaries)  PROVE i - 1 \in marks
    <3>1. PICK b \in boundaries : EndsHistory(b) /\ i = b.index + 1
      BY <2>1 DEF FeatureResets
    <3>2. i - 1 = b.index  BY <3>1
    <3> QED BY <3>1, <3>2
  <2>2. ASSUME i - 1 \in marks  PROVE i \in FeatureResets(boundaries)
    <3>1. PICK b \in boundaries : EndsHistory(b) /\ i - 1 = b.index  BY <2>2
    <3>2. i = b.index + 1 /\ b.index > 0  BY <3>1
    <3>3. b \in {c \in boundaries : EndsHistory(c) /\ c.index > 0}  BY <3>1, <3>2
    <3> QED BY <3>2, <3>3 DEF FeatureResets
  <2> QED BY <2>1, <2>2
<1>3. ~ Continues(times, i, maxGap) <=> i - 1 \in leaps
  <2>1. i # 1 /\ i - 1 \in 1 .. n - 1 /\ i - 1 + 1 = i  OBVIOUS
  <2> HIDE DEF n
  <2> QED BY <2>1 DEF Continues
<1>4. i - 1 \notin {0, n}  OBVIOUS
<1> HIDE DEF marks, leaps, n
<1> QED BY <1>1, <1>2, <1>3, <1>4

\* What Histories() is: before every record but the first of a segment, the
\* records of that segment that are recent enough.
LEMMA HistoriesAre ==
  ASSUME NEW times, NEW boundaries, NEW maxGap, Len(times) \in Nat,
         \A b \in boundaries : b.index \in Nat
  PROVE  LET C == CutPoints(times, boundaries, maxGap)
         IN Histories(times, FeatureResets(boundaries), maxGap)
            = [i \in 0 .. Len(times) |-> IF i = 0 THEN <<>> ELSE Recent(C, i)]
<1> DEFINE C == CutPoints(times, boundaries, maxGap)
           R == FeatureResets(boundaries)
           n == Len(times)
           w == [i \in 0 .. n |-> IF i = 0 THEN <<>> ELSE Recent(C, i)]
           Upd(i, h) == Update(times, R, maxGap, i, h)
<1>1. 0 \in C  BY DEF CutPoints
<1>2. ASSUME NEW i \in 1 .. n  PROVE Upd(i, w[i - 1]) = w[i]
  <2> DEFINE before == IF i - 1 \in C THEN <<>> ELSE Recent(C, i - 1)
             b == Before(times, R, maxGap, i, w[i - 1])
  <2>1. i \in Nat \ {0} /\ i - 1 \in 0 .. n /\ w[i] = Recent(C, i)
    OBVIOUS
  <2>2. b = before
    <3>1. CASE i = 1
      <4>1. before = <<>>  BY <1>1, <3>1
      <4>2. w[i - 1] = <<>>  BY <2>1, <3>1
      <4> QED BY <4>1, <4>2 DEF Before
    <3>2. CASE i # 1
      <4>1. i \in 2 .. n /\ w[i - 1] = Recent(C, i - 1)  BY <2>1, <3>2
      <4>2. i \in R \/ ~ Continues(times, i, maxGap) <=> i - 1 \in C
        BY <4>1, ResetsAreCuts
      <4> HIDE DEF C, R, w, n
      <4> QED BY <4>1, <4>2 DEF Before
    <3> QED BY <3>1, <3>2
  <2> HIDE DEF C
  <2>3. Append(IF Len(before) = MaxHistory + 1 THEN Tail(before) ELSE before, i)
        = Recent(C, i)
    BY <1>1, <2>1, RecentGrows
  <2>4. Upd(i, w[i - 1])
        = Append(IF Len(b) = MaxHistory + 1 THEN Tail(b) ELSE b, i)
    BY DEF Update
  <2> HIDE DEF b, before, w, Upd
  <2> QED BY <2>1, <2>2, <2>3, <2>4
<1> DEFINE s == CHOOSE f : Keeps(times, R, maxGap, f)
<1>3. Histories(times, R, maxGap) = s
  BY DEF Histories, Keeps, Update, Before
<1>4. Keeps(times, R, maxGap, w)
  <2>1. w = [i \in 0 .. n |-> IF i = 0 THEN <<>> ELSE Upd(i, w[i - 1])]
    <3>1. \A i \in 0 .. n : i # 0 => i \in 1 .. n  OBVIOUS
    <3>2. w[0] = <<>>  OBVIOUS
    <3>3. w = [i \in 0 .. n |-> w[i]]  OBVIOUS
    <3> HIDE DEF w, Upd, n
    <3> QED BY <1>2, <3>1, <3>2, <3>3
  <2> QED BY <2>1 DEF Keeps
<1>5. Keeps(times, R, maxGap, s)
  <2> HIDE DEF w, R
  <2> QED BY <1>4
<1>6. s = [i \in 0 .. n |-> IF i = 0 THEN <<>> ELSE Upd(i, s[i - 1])]
  <2> HIDE DEF s
  <2> QED BY <1>5 DEF Keeps
<1> HIDE DEF s, Upd, C, R
<1>7. \A i \in 0 .. n : s[i] = w[i]
  <2> DEFINE D == {i \in 0 .. n : s[i] # w[i]}
  <2>1. SUFFICES ASSUME D # {}  PROVE FALSE
    OBVIOUS
  <2>2. D \in SUBSET Nat  OBVIOUS
  <2>3. PICK i \in D : \A j \in D : i <= j
    <3> HIDE DEF D
    <3> QED BY <2>1, <2>2, LeastExists
  <2>4. i \in 0 .. n /\ s[i] # w[i]  BY <2>3
  <2>5. s[0] = w[0]  BY <1>6
  <2>6. i \in 1 .. n /\ i - 1 \in 0 .. n /\ i - 1 \notin D
    <3>1. i # 0  BY <2>4, <2>5
    <3> QED BY <2>3, <2>4, <3>1
  <2>7. s[i - 1] = w[i - 1]  BY <2>6
  <2>8. s[i] = Upd(i, s[i - 1])  BY <1>6, <2>6
  <2> HIDE DEF w, D
  <2> QED BY <1>2, <2>4, <2>6, <2>7, <2>8
<1>8. s = w
  <2>1. s = [i \in 0 .. n |-> s[i]]
    <3>1. \E v : s = [i \in 0 .. n |-> v[i]]
      <4> DEFINE v == [i \in 0 .. n |-> IF i = 0 THEN <<>> ELSE Upd(i, s[i - 1])]
      <4>1. s = v  BY <1>6
      <4>2. v = [i \in 0 .. n |-> v[i]]  OBVIOUS
      <4> QED BY <4>1, <4>2
    <3> QED BY <3>1
  <2>2. w = [i \in 0 .. n |-> w[i]]  OBVIOUS
  <2> HIDE DEF w
  <2> QED BY <1>7, <2>1, <2>2
<1> QED BY <1>3, <1>8 DEF C, R

\* The cut at or behind a record.
LEMMA NextCutExists ==
  ASSUME NEW C, NEW n \in Nat, n \in C, NEW i \in 1 .. n
  PROVE  \E b \in i .. n : b \in C /\ \A c \in i .. (b - 1) : c \notin C
<1> DEFINE D == {c \in i .. n : c \in C}
<1>1. D \in SUBSET Nat /\ n \in D  OBVIOUS
<1>2. PICK b \in D : \A c \in D : b <= c
  <2> HIDE DEF D
  <2> QED BY <1>1, LeastExists
<1>3. ASSUME NEW c \in i .. (b - 1)  PROVE c \notin C
  <2>1. c \in i .. n /\ c < b  BY <1>2
  <2> QED BY <1>2, <2>1
<1> QED BY <1>2, <1>3

\* A window of records is what a full history holds.
LEMMA FullHistory ==
  ASSUME NEW C, 0 \in C, NEW i \in Nat \ {0}
  PROVE  /\ Len(Recent(C, i)) = MaxHistory + 1 <=> LastCut(C, i) + 1 <= i - MaxHistory
         /\ Len(Recent(C, i)) = MaxHistory + 1 =>
               Last(Recent(C, i)) = i /\ Range(Recent(C, i)) = Window(i)
<1> DEFINE r == Reach(C, i)
           s == Recent(C, i)
           M == MaxHistory
<1>1. /\ r \in 1 .. M + 1 /\ r <= i /\ s \in Seq(Nat) /\ Len(s) = r
      /\ \A k \in 1 .. r : s[k] = i - r + k
  BY RecentFacts
<1>2. LastCut(C, i) \in 0 .. i - 1  BY LastCutFacts
<1>3. r = IF i - LastCut(C, i) <= M + 1 THEN i - LastCut(C, i) ELSE M + 1
  BY DEF Reach
<1>4. M \in Nat  BY FeatureAssumption
<1> HIDE DEF r, s, M
<1>5. r = M + 1 <=> LastCut(C, i) + 1 <= i - M
  BY <1>2, <1>3, <1>4
<1>6. ASSUME r = M + 1
      PROVE  Last(s) = i /\ Range(s) = (i - M) .. i
  <2>1. s[r] = i  BY <1>1, <1>4, <1>6
  <2>2. DOMAIN s = 1 .. r  BY <1>1
  <2>3. Range(s) \subseteq (i - M) .. i
    <3> SUFFICES ASSUME NEW k \in 1 .. r  PROVE s[k] \in (i - M) .. i
      BY <2>2 DEF Range
    <3> QED BY <1>1, <1>4, <1>6
  <2>4. ASSUME NEW x \in (i - M) .. i  PROVE x \in Range(s)
    <3>1. x - i + r \in 1 .. r /\ i - r + (x - i + r) = x  BY <1>4, <1>6
    <3>2. s[x - i + r] = x  BY <1>1, <3>1
    <3> QED BY <2>2, <3>1, <3>2 DEF Range
  <2> QED BY <1>1, <2>1, <2>3, <2>4 DEF Last
<1> QED BY <1>1, <1>5, <1>6 DEF r, s, M, Window

\* For every recording and every instants of its records, the history an
\* online row is made of is the window of an offline row.
LEMMA OnlineFollows ==
  ASSUME NEW times, NEW boundaries, NEW maxGap, Len(times) \in Nat,
         \A b \in boundaries : b.index \in Nat
  PROVE  LET windows == OnlineRows(times, FeatureResets(boundaries), maxGap)
         IN /\ \A i \in OfflineRows(times, boundaries, maxGap) :
                  \E w \in windows : Last(w) = i /\ Range(w) = Window(i)
            /\ \A w \in windows : \E s \in Segments(times, boundaries, maxGap) :
                  Range(w) \subseteq s
<1> DEFINE C == CutPoints(times, boundaries, maxGap)
           n == Len(times)
           H == Histories(times, FeatureResets(boundaries), maxGap)
           windows == OnlineRows(times, FeatureResets(boundaries), maxGap)
<1>1. H = [i \in 0 .. n |-> IF i = 0 THEN <<>> ELSE Recent(C, i)]
  BY HistoriesAre
<1>2. windows = {h \in Range(H) : Len(h) = MaxHistory + 1}
  BY DEF OnlineRows
<1>3. 0 \in C /\ n \in C /\ n \in Nat  BY DEF CutPoints
<1>4. MaxHistory \in Nat  BY FeatureAssumption
<1>5. OfflineRows(times, boundaries, maxGap)
      \subseteq UNION {RowsOfSegment(s) : s \in Segments(times, boundaries, maxGap)}
  BY DEF OfflineRows
<1> HIDE DEF H, windows
<1>6. ASSUME NEW i \in OfflineRows(times, boundaries, maxGap)
      PROVE  \E w \in windows : Last(w) = i /\ Range(w) = Window(i)
  <2>1. PICK s \in Segments(times, boundaries, maxGap) : i \in RowsOfSegment(s)
    BY <1>5
  <2>2. i \in s /\ Window(i) \subseteq s  BY <2>1 DEF RowsOfSegment
  <2>3. PICK a, b \in 0 .. n :
           /\ a < b /\ s = (a + 1) .. b /\ a \in C
           /\ \A c \in (a + 1) .. (b - 1) : c \notin C
    BY SegmentFacts
  <2> HIDE DEF C
  <2>4. i \in 1 .. n /\ a < i /\ i <= b  BY <1>3, <2>2, <2>3
  <2>5. a + 1 <= i - MaxHistory
    <3>1. i - MaxHistory \in Window(i)  BY <1>4, <2>4 DEF Window
    <3> QED BY <2>2, <2>3, <3>1
  <2>6. a = LastCut(C, i)
    <3>1. a \in 0 .. i - 1 /\ \A c \in (a + 1) .. (i - 1) : c \notin C
      BY <2>3, <2>4
    <3>2. i \in Nat \ {0}  BY <2>4
    <3> QED BY <1>3, <2>3, <3>1, <3>2, LastCutFacts
  <2> DEFINE w == Recent(C, i)
  <2>7. Len(w) = MaxHistory + 1 /\ Last(w) = i /\ Range(w) = Window(i)
    <3>1. i \in Nat \ {0}  BY <2>4
    <3> QED BY <1>3, <2>5, <2>6, <3>1, FullHistory
  <2>8. w \in Range(H)
    <3>1. i \in DOMAIN H /\ H[i] = w  BY <1>1, <2>4
    <3> HIDE DEF w
    <3> QED BY <3>1 DEF Range
  <2> HIDE DEF w
  <2> QED BY <1>2, <2>7, <2>8
<1>7. ASSUME NEW w \in windows
      PROVE  \E s \in Segments(times, boundaries, maxGap) : Range(w) \subseteq s
  <2>1. w \in Range(H) /\ Len(w) = MaxHistory + 1  BY <1>2
  <2>2. PICK j \in 0 .. n : w = H[j]  BY <1>1, <2>1 DEF Range
  <2>3. j # 0
    <3>1. H[0] = <<>>  BY <1>1, <1>3
    <3>2. Len(<<>>) # MaxHistory + 1  BY <1>4
    <3> QED BY <2>1, <2>2, <3>1, <3>2
  <2>4. w = Recent(C, j) /\ j \in 1 .. n /\ j \in Nat \ {0}  BY <1>1, <2>2, <2>3
  <2> HIDE DEF C
  <2> DEFINE a == LastCut(C, j)
  <2>5. /\ a \in 0 .. j - 1 /\ a \in C /\ \A c \in (a + 1) .. (j - 1) : c \notin C
    BY <1>3, <2>4, LastCutFacts
  <2>6. a + 1 <= j - MaxHistory /\ Range(w) = (j - MaxHistory) .. j
    BY <1>3, <2>1, <2>4, FullHistory DEF Window
  <2> HIDE DEF a
  <2>7. PICK b \in j .. n : b \in C /\ \A c \in j .. (b - 1) : c \notin C
    BY <1>3, <2>4, NextCutExists
  <2>8. ASSUME NEW c \in (a + 1) .. (b - 1)  PROVE c \notin C
    <3>1. c \in (a + 1) .. (j - 1) \/ c \in j .. (b - 1)  BY <2>5, <2>7
    <3> QED BY <2>5, <2>7, <3>1
  <2>9. a \in 0 .. n /\ b \in 0 .. n /\ a < b  BY <1>3, <2>4, <2>5, <2>7
  <2>10. (a + 1) .. b \in Segments(times, boundaries, maxGap)
    BY <2>5, <2>7, <2>8, <2>9, SegmentExists DEF C
  <2>11. Range(w) \subseteq (a + 1) .. b  BY <1>4, <2>4, <2>5, <2>6, <2>7
  <2> QED BY <2>10, <2>11
<1> QED BY <1>6, <1>7 DEF windows

LEMMA ReplayFollows == IInv => OnlineMatchesOffline
<1> SUFFICES ASSUME IInv, sidecar.published, NEW times \in Instants
             PROVE  LET boundaries == Range(sidecar.boundaries)
                        segments == Segments(times, boundaries, Gap)
                        windows  == OnlineRows(times, FeatureResets(boundaries), Gap)
                    IN /\ \A i \in OfflineRows(times, boundaries, Gap) :
                            \E w \in windows : Last(w) = i /\ Range(w) = Window(i)
                       /\ \A w \in windows : \E s \in segments : Range(w) \subseteq s
  BY DEF OnlineMatchesOffline
<1> DEFINE boundaries == Range(sidecar.boundaries)
<1>1. boundaries = Range(markers)  BY DEF IInv, Described, NoSidecar
<1>2. \A b \in boundaries : b.index \in Nat
  <2>1. markers \in Seq(MarkerType)  BY DEF IInv, Types, MarkerType
  <2>2. \A i \in DOMAIN markers : markers[i] \in MarkerType  BY <2>1
  <2>3. \A i \in DOMAIN markers : markers[i].index \in Nat  BY <2>2 DEF MarkerType
  <2> QED BY <1>1, <2>3 DEF Range
<1>3. Len(times) \in Nat  BY InstantsFacts
<1> HIDE DEF boundaries
<1>4. LET windows == OnlineRows(times, FeatureResets(boundaries), Gap)
      IN /\ \A i \in OfflineRows(times, boundaries, Gap) :
              \E w \in windows : Last(w) = i /\ Range(w) = Window(i)
         /\ \A w \in windows : \E s \in Segments(times, boundaries, Gap) :
              Range(w) \subseteq s
  BY <1>2, <1>3, OnlineFollows
<1> QED BY <1>4 DEF boundaries

-----------------------------------------------------------------------------
(* The specification *)

\* The inductive invariant of the recorder.
THEOREM InvariantHolds == Spec => []IInv
<1>1. Init => IInv  BY InitEstablishes
<1>2. IInv /\ [Next]_vars => IInv'  BY StepsPreserve
<1> QED BY <1>1, <1>2, PTL DEF Spec

\* Every variable of the recorder holds a value of its kind, whatever the
\* three threads do.
THEOREM TypesHold == Spec => []TypeOK
<1>1. IInv => TypeOK  BY DEF IInv, Types
<1> QED BY <1>1, InvariantHolds, PTL

\* However the writer lags behind the feed, each loss is a cut between
\* segments and none lies inside one.
THEOREM LossesAreCuts == Spec => []SegmentsHoldNoGap
<1> QED BY SegmentsAreWhole, InvariantHolds, PTL

\* Whichever stream fails where, the reader accepts as complete exactly what the
\* recorder calls complete, and that is every record of the session with its
\* id; it refuses no recording that was written without an error and to the end.
THEOREM ReaderAgreesWithRecorder == Spec => []ReaderAgrees
<1>1. Init => IInv /\ IdsInv  BY InitEstablishes DEF Init, IdsInv
<1>2. IInv /\ IdsInv /\ [Next]_vars => IInv' /\ IdsInv'
  BY StepsPreserve, IdsStepsPreserve
<1> QED BY <1>1, <1>2, ReaderFollows, PTL DEF Spec

\* A replay of any recording gives a model the rows it was trained on, and
\* no vector that reaches over a cut.
THEOREM ReplayMatchesTraining == Spec => []OnlineMatchesOffline
<1> QED BY ReplayFollows, InvariantHolds, PTL

-----------------------------------------------------------------------------
(***************************************************************************)
(* The queue between the two threads: the ring buffer, with variables of   *)
(* its own, for every capacity, every width of the index type, every batch *)
(* size and every set of payloads.                                         *)
(***************************************************************************)

(* Arithmetic of the wrapping indices *)

\* Division with remainder determines both.
LEMMA ModuloIsUnique ==
  ASSUME NEW m \in Nat \ {0}, NEW q \in Nat, NEW r \in 0 .. m - 1
  PROVE  (m * q + r) % m = r
OBVIOUS

LEMMA ModuloOfMultiple ==
  ASSUME NEW m \in Nat \ {0}, NEW q \in Nat, NEW x \in Nat
  PROVE  (m * q + x) % m = x % m
<1> DEFINE r == x % m
           d == x \div m
<1>1. r \in 0 .. m - 1 /\ d \in Nat /\ x = m * d + r
  <2>1. r \in 0 .. m - 1  OBVIOUS
  <2>2. d \in Nat  OBVIOUS
  <2>3. x = m * d + r  OBVIOUS
  <2> QED BY <2>1, <2>2, <2>3
<1> HIDE DEF r, d
<1>2. m * q + x = m * (q + d) + r  BY <1>1
<1>3. (m * (q + d) + r) % m = r  BY <1>1, ModuloIsUnique
<1> QED BY <1>2, <1>3 DEF r

\* Distance() and Advance() without the wrap-around.
LEMMA DistanceIs ==
  ASSUME NEW from \in Index, NEW to \in Index
  PROVE  Distance(from, to) =
           IF from <= to THEN to - from ELSE IndexRange + to - from
<1>1. IndexRange \in Nat \ {0}  BY RingAssumption
<1>2. CASE from <= to
  <2>1. IndexRange + to - from = IndexRange * 1 + (to - from)
        /\ to - from \in 0 .. IndexRange - 1
    BY <1>1, <1>2 DEF Index
  <2>2. (IndexRange * 1 + (to - from)) % IndexRange = to - from
    BY <1>1, <2>1, ModuloIsUnique
  <2> QED BY <1>2, <2>1, <2>2 DEF Distance
<1>3. CASE ~ (from <= to)
  <2>1. IndexRange + to - from = IndexRange * 0 + (IndexRange + to - from)
        /\ IndexRange + to - from \in 0 .. IndexRange - 1
    BY <1>1, <1>3 DEF Index
  <2>2. (IndexRange * 0 + (IndexRange + to - from)) % IndexRange
          = IndexRange + to - from
    BY <1>1, <2>1, ModuloIsUnique
  <2> QED BY <1>3, <2>1, <2>2 DEF Distance
<1> QED BY <1>2, <1>3

LEMMA AdvanceIs ==
  ASSUME NEW i \in Index, NEW n \in 0 .. IndexRange
  PROVE  Advance(i, n) =
           IF i + n < IndexRange THEN i + n ELSE i + n - IndexRange
<1>1. IndexRange \in Nat \ {0}  BY RingAssumption
<1>2. CASE i + n < IndexRange
  <2>1. i + n = IndexRange * 0 + (i + n) /\ i + n \in 0 .. IndexRange - 1
    BY <1>1, <1>2 DEF Index
  <2>2. (IndexRange * 0 + (i + n)) % IndexRange = i + n
    BY <1>1, <2>1, ModuloIsUnique
  <2> QED BY <1>2, <2>1, <2>2 DEF Advance
<1>3. CASE ~ (i + n < IndexRange)
  <2>1. i + n = IndexRange * 1 + (i + n - IndexRange)
        /\ i + n - IndexRange \in 0 .. IndexRange - 1
    BY <1>1, <1>3 DEF Index
  <2>2. (IndexRange * 1 + (i + n - IndexRange)) % IndexRange
          = i + n - IndexRange
    BY <1>1, <2>1, ModuloIsUnique
  <2> QED BY <1>3, <2>1, <2>2 DEF Advance
<1> QED BY <1>2, <1>3

\* How far the indices are apart, and what moving either of them changes.
LEMMA DistanceFacts ==
  ASSUME NEW from \in Index, NEW to \in Index
  PROVE  /\ Distance(from, to) \in 0 .. IndexRange - 1
         /\ Distance(from, from) = 0
         /\ Distance(from, to) < IndexRange - 1
              => /\ Advance(to, 1) \in Index
                 /\ Distance(from, Advance(to, 1)) = Distance(from, to) + 1
         /\ \A n \in 0 .. Distance(from, to) :
              /\ Advance(from, n) \in Index
              /\ Distance(Advance(from, n), to) = Distance(from, to) - n
<1>1. IndexRange \in Nat /\ IndexRange > 1  BY RingAssumption
<1>2. Distance(from, to) \in 0 .. IndexRange - 1
  BY <1>1, DistanceIs DEF Index
<1>3. Distance(from, from) = 0  BY <1>1, DistanceIs DEF Index
<1>4. ASSUME Distance(from, to) < IndexRange - 1
      PROVE  /\ Advance(to, 1) \in Index
             /\ Distance(from, Advance(to, 1)) = Distance(from, to) + 1
  <2>1. Advance(to, 1) = IF to + 1 < IndexRange THEN to + 1 ELSE 0
    BY <1>1, AdvanceIs DEF Index
  <2>2. Advance(to, 1) \in Index  BY <1>1, <2>1 DEF Index
  <2>3. Distance(from, Advance(to, 1)) =
          IF from <= Advance(to, 1) THEN Advance(to, 1) - from
          ELSE IndexRange + Advance(to, 1) - from
    BY <2>2, DistanceIs
  <2>4. Distance(from, to) =
          IF from <= to THEN to - from ELSE IndexRange + to - from
    BY DistanceIs
  <2>5. from \in 0 .. IndexRange - 1 /\ to \in 0 .. IndexRange - 1
    BY DEF Index
  <2>6. CASE to + 1 < IndexRange
    BY <1>1, <1>4, <2>1, <2>2, <2>3, <2>4, <2>5, <2>6
  <2>7. CASE ~ (to + 1 < IndexRange)
    BY <1>1, <1>4, <2>1, <2>2, <2>3, <2>4, <2>5, <2>7
  <2> QED BY <2>6, <2>7
<1>5. ASSUME NEW n \in 0 .. Distance(from, to)
      PROVE  /\ Advance(from, n) \in Index
             /\ Distance(Advance(from, n), to) = Distance(from, to) - n
  <2>1. Advance(from, n) = IF from + n < IndexRange
                           THEN from + n ELSE from + n - IndexRange
    BY <1>1, <1>2, AdvanceIs
  <2>2. Advance(from, n) \in Index  BY <1>1, <1>2, <2>1 DEF Index
  <2> QED BY <1>1, <2>1, <2>2, DistanceIs DEF Index
<1> QED BY <1>2, <1>3, <1>4, <1>5

\* The mask is blind to a wrap of the index, because the capacity divides
\* the range.
LEMMA SlotIgnoresWrap ==
  ASSUME NEW x \in Nat
  PROVE  Slot(IndexRange + x) = Slot(x) /\ Slot(x) \in 0 .. Capacity - 1
<1> DEFINE q == IndexRange \div Capacity
<1>1. Capacity \in Nat \ {0} /\ IndexRange \in Nat
  BY RingAssumption
<1>2. q \in Nat  BY <1>1
<1>3. IndexRange = Capacity * q + (IndexRange % Capacity)  BY <1>1
<1>4. IndexRange % Capacity = 0  BY RingAssumption
<1> HIDE DEF q
<1>5. IndexRange + x = Capacity * q + x  BY <1>1, <1>2, <1>3, <1>4
<1>6. (Capacity * q + x) % Capacity = x % Capacity
  BY <1>1, <1>2, ModuloOfMultiple
<1>7. x % Capacity \in 0 .. Capacity - 1  BY <1>1
<1> QED BY <1>5, <1>6, <1>7 DEF Slot

LEMMA SlotOfAdvance ==
  ASSUME NEW i \in Index, NEW n \in 0 .. IndexRange, NEW k \in Nat
  PROVE  Slot(Advance(i, n) + k) = Slot(i + n + k)
<1>1. IndexRange \in Nat  BY RingAssumption
<1>2. CASE i + n < IndexRange
  <2>1. Advance(i, n) = i + n  BY <1>2, AdvanceIs
  <2> QED BY <2>1
<1>3. CASE ~ (i + n < IndexRange)
  <2>1. Advance(i, n) = i + n - IndexRange  BY <1>3, AdvanceIs
  <2>2. Advance(i, n) + k \in Nat
        /\ IndexRange + (Advance(i, n) + k) = i + n + k
    BY <1>1, <1>3, <2>1 DEF Index
  <2> QED BY <2>2, SlotIgnoresWrap
<1> QED BY <1>2, <1>3

\* The tail's slot, counted from the head.
LEMMA SlotOfTail ==
  ASSUME NEW from \in Index, NEW to \in Index
  PROVE  Slot(to) = Slot(from + Distance(from, to))
<1>1. IndexRange \in Nat  BY RingAssumption
<1>2. CASE from <= to
  <2>1. from + Distance(from, to) = to
    BY <1>1, <1>2, DistanceIs DEF Index
  <2> QED BY <2>1
<1>3. CASE ~ (from <= to)
  <2>1. from + Distance(from, to) = IndexRange + to /\ to \in Nat
    BY <1>1, <1>3, DistanceIs DEF Index
  <2> QED BY <2>1, SlotIgnoresWrap
<1> QED BY <1>2, <1>3

\* No two of Capacity consecutive indices share a slot.
LEMMA SlotsDiffer ==
  ASSUME NEW i \in Nat, NEW j \in Nat, NEW k \in Nat,
         j < k, k < j + Capacity
  PROVE  Slot(i + j) # Slot(i + k)
<1> DEFINE r == (i + j) % Capacity
           d == (i + j) \div Capacity
           e == k - j
<1>1. Capacity \in Nat \ {0} /\ i + j \in Nat /\ e \in 1 .. Capacity - 1
  BY RingAssumption
<1>2. r \in 0 .. Capacity - 1  BY <1>1
<1>3. d \in Nat  BY <1>1
<1>4. i + j = Capacity * d + r  BY <1>1
<1>5. i + k = (i + j) + e  OBVIOUS
<1> HIDE DEF r, d, e
<1>6. CASE r + e < Capacity
  <2>1. i + k = Capacity * d + (r + e) /\ r + e \in 0 .. Capacity - 1
    BY <1>1, <1>2, <1>3, <1>4, <1>5, <1>6
  <2>2. (Capacity * d + (r + e)) % Capacity = r + e
    BY <1>1, <1>3, <2>1, ModuloIsUnique
  <2>3. (i + k) % Capacity = r + e  BY <2>1, <2>2
  <2>4. r + e # r  BY <1>1, <1>2
  <2> QED BY <2>3, <2>4 DEF r, Slot
<1>7. CASE ~ (r + e < Capacity)
  <2>0. d + 1 \in Nat  BY <1>3
  <2>1. Capacity * (d + 1) = Capacity * d + Capacity  BY <1>1, <1>3
  <2>2. i + k = Capacity * (d + 1) + (r + e - Capacity)
        /\ r + e - Capacity \in 0 .. Capacity - 1
    BY <1>1, <1>2, <1>3, <1>4, <1>5, <1>7, <2>1
  <2>3. (Capacity * (d + 1) + (r + e - Capacity)) % Capacity
          = r + e - Capacity
    BY <1>1, <2>0, <2>2, ModuloIsUnique
  <2>4. (i + k) % Capacity = r + e - Capacity  BY <2>2, <2>3
  <2>5. r + e - Capacity # r  BY <1>1, <1>2
  <2> QED BY <2>4, <2>5 DEF r, Slot
<1> QED BY <1>6, <1>7

-----------------------------------------------------------------------------
(* The inductive invariant *)

Waiting == Distance(head, tail)

\* Never more than Capacity values wait, and each is whole.
QueueSound == /\ Waiting <= Capacity
              /\ \A k \in 0 .. Waiting - 1 : slots[Slot(head + k)] \in Value

\* The producer's view of the head may be stale, but only to its disadvantage;
\* once it has seen room there is room, because nobody else pushes.
ProducerSound ==
    /\ producer # Idle => Waiting <= Distance(producer.seen, tail)
    /\ producer.at \in {"copying", "copied"} =>
          Distance(producer.seen, tail) < Capacity
    /\ producer.at = "copied" => slots[Slot(tail)] = producer.value

\* What the consumer has counted stays there, and what it has copied is it.
ConsumerSound ==
    consumer # Idle =>
        /\ consumer.count <= Waiting /\ Len(destination) <= consumer.count
        /\ \A k \in 0 .. Len(destination) - 1 : destination[k + 1] = slots[Slot(head + k)]

RingInv == RingTypeOK /\ QueueSound /\ ProducerSound /\ ConsumerSound

\* The constants and the distance as numbers.
LEMMA Widths == /\ Capacity \in Nat \ {0} /\ BatchSize \in Nat \ {0}
                /\ IndexRange \in Nat /\ Capacity < IndexRange
                /\ Torn \notin Value /\ 0 \in Index
BY RingAssumption DEF Index

LEMMA WaitingIsNat == ASSUME RingTypeOK PROVE Waiting \in Nat
BY Widths, DistanceFacts DEF RingTypeOK, Waiting

\* While there is room, the slot of the tail holds no waiting value.
LEMMA TailIsFree ==
  ASSUME RingTypeOK, Waiting < Capacity
  PROVE  /\ Slot(tail) \in 0 .. Capacity - 1
         /\ \A k \in 0 .. Waiting - 1 : Slot(head + k) # Slot(tail)
<1>1. head \in Nat /\ tail \in Nat /\ Waiting \in Nat
  BY WaitingIsNat, Widths DEF RingTypeOK, Index
<1>2. Slot(tail) = Slot(head + Waiting)  BY SlotOfTail DEF RingTypeOK, Waiting
<1>3. ASSUME NEW k \in 0 .. Waiting - 1  PROVE Slot(head + k) # Slot(tail)
  <2>1. k \in Nat /\ k < Waiting /\ Waiting < k + Capacity
    BY <1>1, Widths
  <2> QED BY <1>1, <1>2, <2>1, SlotsDiffer
<1>4. Slot(tail) \in 0 .. Capacity - 1  BY <1>1, SlotIgnoresWrap
<1> QED BY <1>3, <1>4

\* A value that waits lies in a slot of the buffer.
LEMMA SlotInBuffer ==
  ASSUME RingTypeOK, NEW k \in Nat
  PROVE  Slot(head + k) \in 0 .. Capacity - 1
<1>1. head + k \in Nat  BY Widths DEF RingTypeOK, Index
<1> QED BY <1>1, SlotIgnoresWrap

LEMMA RingInitEstablishes == RingInit => RingInv
<1> SUFFICES ASSUME RingInit PROVE RingInv
  OBVIOUS
<1>1. Waiting = 0  BY Widths, DistanceFacts DEF RingInit, Waiting
<1>2. RingTypeOK  BY Widths DEF RingInit, RingTypeOK
<1>3. QueueSound  BY <1>1, Widths DEF QueueSound
<1>4. ProducerSound /\ ConsumerSound
  BY DEF RingInit, ProducerSound, ConsumerSound, Idle
<1> QED BY <1>2, <1>3, <1>4 DEF RingInv

\* push() loads the head.
LEMMA PushLoadsHeadPreserves ==
  ASSUME RingInv, NEW v \in Value, PushLoadsHead(v)
  PROVE  RingInv'
<1> USE DEF RingInv, PushLoadsHead
<1>1. RingTypeOK'  BY DEF RingTypeOK
<1>2. Waiting' = Waiting /\ Waiting' \in Nat
  BY WaitingIsNat DEF Waiting
<1>3. QueueSound'  BY <1>2 DEF QueueSound
<1>4. ProducerSound'  BY <1>2 DEF ProducerSound, Waiting
<1>5. ConsumerSound'  BY <1>2 DEF ConsumerSound
<1> QED BY <1>1, <1>3, <1>4, <1>5

\* push() finds the queue full, copies its value, or publishes it.
LEMMA PushEndsPreserves ==
  ASSUME RingInv, PushEnds
  PROVE  RingInv'
<1> USE DEF RingInv
<1>0. Waiting \in Nat  BY WaitingIsNat
<1>1. CASE PushRefused
  <2> USE <1>1 DEF PushRefused
  <2>1. RingTypeOK'  BY DEF RingTypeOK
  <2>2. Waiting' = Waiting  BY DEF Waiting
  <2>3. QueueSound' /\ ConsumerSound'
    BY <2>2 DEF QueueSound, ConsumerSound
  <2>4. ProducerSound'  BY DEF ProducerSound, Idle
  <2> QED BY <2>1, <2>3, <2>4
<1>2. CASE PushStartsCopy
  <2> USE <1>2 DEF PushStartsCopy
  <2>1. /\ producer \in [at : {"loaded"}, value : Value, seen : Index]
        /\ producer # Idle
    BY DEF RingTypeOK, Idle
  <2>2. Waiting' = Waiting  BY DEF Waiting
  <2>3. /\ Distance(producer.seen, tail) \in Nat
        /\ Distance(producer.seen, tail) < Capacity
    BY <2>1, Widths, DistanceFacts DEF Full, RingTypeOK
  <2>4. Waiting < Capacity
    BY <1>0, <2>1, <2>3, Widths DEF ProducerSound
  <2>5. \A k \in 0 .. Waiting - 1 :
          slots'[Slot(head + k)] = slots[Slot(head + k)]
    BY <2>4, TailIsFree, SlotInBuffer, <1>0 DEF RingTypeOK
  <2>6. RingTypeOK'  BY <2>1 DEF RingTypeOK
  <2>7. QueueSound'  BY <2>2, <2>5 DEF QueueSound
  <2>8. /\ producer'.seen = producer.seen /\ producer'.at = "copying"
        /\ producer # Idle
    BY <2>1
  <2>9. ProducerSound'  BY <2>2, <2>3, <2>8 DEF ProducerSound
  <2>10. ConsumerSound'
    <3>1. consumer # Idle =>
             consumer.count \in Nat /\ Len(destination) \in Nat
      BY Widths DEF RingTypeOK
    <3> QED BY <1>0, <2>2, <2>5, <3>1 DEF ConsumerSound
  <2> QED BY <2>6, <2>7, <2>9, <2>10
<1>3. CASE PushEndsCopy
  <2> USE <1>3 DEF PushEndsCopy
  <2>1. /\ producer \in [at : {"copying"}, value : Value, seen : Index]
        /\ producer # Idle
    BY DEF RingTypeOK, Idle
  <2>2. Waiting' = Waiting  BY DEF Waiting
  <2>3. /\ Distance(producer.seen, tail) \in Nat
        /\ Distance(producer.seen, tail) < Capacity
    BY <2>1, Widths, DistanceFacts DEF RingTypeOK, ProducerSound
  <2>4. Waiting < Capacity
    BY <1>0, <2>1, <2>3, Widths DEF ProducerSound
  <2>5. \A k \in 0 .. Waiting - 1 :
          slots'[Slot(head + k)] = slots[Slot(head + k)]
    BY <2>4, TailIsFree, SlotInBuffer, <1>0 DEF RingTypeOK
  <2>6. RingTypeOK'  BY <2>1 DEF RingTypeOK
  <2>7. QueueSound'  BY <2>2, <2>5 DEF QueueSound
  <2>8. /\ producer'.seen = producer.seen /\ producer'.at = "copied"
        /\ producer'.value = producer.value
    BY <2>1
  <2>9. slots'[Slot(tail)] = producer.value
    BY <2>4, TailIsFree DEF RingTypeOK
  <2>10. ProducerSound'  BY <2>1, <2>2, <2>3, <2>8, <2>9 DEF ProducerSound
  <2>11. ConsumerSound'
    <3>1. consumer # Idle =>
             consumer.count \in Nat /\ Len(destination) \in Nat
      BY Widths DEF RingTypeOK
    <3> QED BY <1>0, <2>2, <2>5, <3>1 DEF ConsumerSound
  <2> QED BY <2>6, <2>7, <2>10, <2>11
<1>4. CASE PushPublishes
  <2> USE <1>4 DEF PushPublishes
  <2>1. /\ producer \in [at : {"copied"}, value : Value, seen : Index]
        /\ producer # Idle
    BY DEF RingTypeOK, Idle
  <2>2. Waiting < Capacity
    <3>1. Distance(producer.seen, tail) \in Nat
      BY <2>1, Widths, DistanceFacts DEF RingTypeOK
    <3> QED BY <1>0, <2>1, <3>1, Widths DEF ProducerSound
  <2>3. Waiting' = Waiting + 1 /\ tail' \in Index
    BY <1>0, <2>2, Widths, DistanceFacts DEF Waiting, RingTypeOK
  <2>4. slots[Slot(head + Waiting)] \in Value
    BY <2>1, SlotOfTail DEF RingTypeOK, Waiting, ProducerSound
  <2>5. RingTypeOK'  BY <2>3 DEF RingTypeOK
  <2>6. QueueSound'
    BY <1>0, <2>2, <2>3, <2>4, Widths DEF QueueSound
  <2>7. ProducerSound'  BY DEF ProducerSound, Idle
  <2>8. ConsumerSound'
    BY <1>0, <2>3 DEF ConsumerSound, RingTypeOK
  <2> QED BY <2>5, <2>6, <2>7, <2>8
<1> QED BY <1>1, <1>2, <1>3, <1>4 DEF PushEnds

\* consume_batch() loads the tail.
LEMMA ConsumeLoadsTailPreserves ==
  ASSUME RingInv, ConsumeLoadsTail
  PROVE  RingInv'
<1> USE DEF RingInv
<1>1. /\ consumer = Idle /\ destination' = <<>>
      /\ UNCHANGED <<head, tail, slots, producer>>
      /\ \/ delivered' = <<>> /\ consumer' = consumer
         \/ /\ UNCHANGED delivered
            /\ \E count \in 1 .. BatchSize :
                  /\ count <= Waiting
                  /\ consumer' = [at |-> "copying", count |-> count]
  <2>1. Waiting \in Nat  BY WaitingIsNat
  <2> QED BY <2>1, Widths DEF ConsumeLoadsTail, Waiting
<1>2. RingTypeOK'
  <2>1. \/ consumer' = Idle
        \/ consumer' \in [at : {"copying"}, count : 1 .. BatchSize]
    BY <1>1
  <2>2. destination' = <<>> /\ (delivered' = <<>> \/ delivered' = delivered)
    BY <1>1
  <2>3. destination' \in Seq(Value) /\ delivered' \in Seq(Value)
    <3>1. <<>> \in Seq(Value)  OBVIOUS
    <3> QED BY <2>2, <3>1 DEF RingTypeOK
  <2> QED BY <1>1, <2>1, <2>3 DEF RingTypeOK
<1>3. Waiting' = Waiting  BY <1>1 DEF Waiting
<1>4. QueueSound' /\ ProducerSound'
  BY <1>1, <1>3 DEF QueueSound, ProducerSound
<1>5. ConsumerSound'  BY <1>1, <1>3 DEF ConsumerSound, Idle
<1> QED BY <1>2, <1>4, <1>5

\* consume_batch() copies a slot, or gives the slots back.
LEMMA ConsumeEndsPreserves ==
  ASSUME RingInv, ConsumeEnds
  PROVE  RingInv'
<1> USE DEF RingInv
<1>0. Waiting \in Nat  BY WaitingIsNat
<1>1. /\ consumer \in [at : {"copying"}, count : 1 .. BatchSize]
      /\ consumer # Idle
  BY DEF ConsumeEnds, ConsumeCopies, ConsumeReleases, RingTypeOK, Idle
<1>2. CASE ConsumeCopies
  <2> USE <1>2 DEF ConsumeCopies
  <2> DEFINE k == Len(destination)
  <2>1. k \in 0 .. Waiting - 1 /\ k < consumer.count
    BY <1>0, <1>1, Widths DEF ConsumerSound, RingTypeOK
  <2>2. slots[Slot(head + k)] \in Value  BY <2>1 DEF QueueSound
  <2>3. RingTypeOK'  BY <2>2 DEF RingTypeOK
  <2>4. Waiting' = Waiting  BY DEF Waiting
  <2>5. QueueSound' /\ ProducerSound'
    BY <2>4 DEF QueueSound, ProducerSound
  <2>6. /\ Len(destination') = k + 1 /\ destination'[k + 1] = slots[Slot(head + k)]
        /\ \A i \in 1 .. k : destination'[i] = destination[i]
    BY <2>2 DEF RingTypeOK
  <2>7. ConsumerSound'
    BY <1>0, <1>1, <2>1, <2>4, <2>6 DEF ConsumerSound
  <2> QED BY <2>3, <2>5, <2>7
<1>3. CASE ConsumeReleases
  <2> USE <1>3 DEF ConsumeReleases
  <2> DEFINE n == consumer.count
  <2>1. n \in 0 .. Waiting  BY <1>0, <1>1, Widths DEF ConsumerSound
  <2>2. Waiting' = Waiting - n /\ head' \in Index
    BY <2>1, DistanceFacts DEF Waiting, RingTypeOK
  <2>3. \A k \in Nat : Slot(head' + k) = Slot(head + (n + k))
    <3>1. Waiting \in 0 .. IndexRange - 1  BY DistanceFacts DEF Waiting, RingTypeOK
    <3>2. n \in 0 .. IndexRange  BY <2>1, <3>1, Widths
    <3>3. head \in Nat /\ n \in Nat  BY <2>1, Widths DEF RingTypeOK, Index
    <3>4. \A k \in Nat : head + n + k = head + (n + k)  BY <3>3
    <3> QED BY <3>2, <3>4, SlotOfAdvance DEF RingTypeOK
  <2>4. RingTypeOK'  BY <2>2 DEF RingTypeOK
  <2>5. QueueSound'
    <3>1. Waiting' <= Capacity
      BY <1>0, <2>1, <2>2, Widths DEF QueueSound
    <3>2. ASSUME NEW k \in 0 .. Waiting' - 1
          PROVE  slots'[Slot(head' + k)] \in Value
      <4>1. n + k \in 0 .. Waiting - 1 /\ k \in Nat  BY <1>0, <2>1, <2>2
      <4> QED BY <2>3, <4>1 DEF QueueSound
    <3> QED BY <3>1, <3>2 DEF QueueSound
  <2>6. ProducerSound'
    <3>1. producer # Idle => Waiting' <= Distance(producer.seen, tail)
      <4>1. ASSUME producer # Idle
            PROVE  Distance(producer.seen, tail) \in Nat
        BY <4>1, Widths, DistanceFacts DEF RingTypeOK
      <4> QED BY <1>0, <2>1, <2>2, <4>1 DEF ProducerSound
    <3> QED BY <3>1 DEF ProducerSound
  <2>7. ConsumerSound'  BY DEF ConsumerSound
  <2> QED BY <2>4, <2>5, <2>6, <2>7
<1> QED BY <1>2, <1>3 DEF ConsumeEnds

LEMMA ResetPreserves ==
  ASSUME RingInv, ResetWhenIdle
  PROVE  RingInv'
<1> USE DEF RingInv, ResetWhenIdle
<1>1. Waiting' = 0  BY Widths, DistanceFacts DEF Waiting
<1>2. RingTypeOK'  BY Widths DEF RingTypeOK
<1>3. QueueSound'  BY <1>1, Widths DEF QueueSound
<1>4. ProducerSound' /\ ConsumerSound'
  BY DEF ProducerSound, ConsumerSound, Idle
<1> QED BY <1>2, <1>3, <1>4

LEMMA RingStepsPreserve ==
  ASSUME RingInv, [RingNext]_ringVars
  PROVE  RingInv'
<1>1. CASE \E v \in Value : PushLoadsHead(v)
  BY <1>1, PushLoadsHeadPreserves
<1>2. CASE PushEnds  BY <1>2, PushEndsPreserves
<1>3. CASE ConsumeLoadsTail  BY <1>3, ConsumeLoadsTailPreserves
<1>4. CASE ConsumeEnds  BY <1>4, ConsumeEndsPreserves
<1>5. CASE ResetWhenIdle  BY <1>5, ResetPreserves
<1>6. CASE UNCHANGED ringVars
  BY <1>6 DEF ringVars, RingInv, RingTypeOK, QueueSound, ProducerSound, ConsumerSound,
              Waiting
<1> QED BY <1>1, <1>2, <1>3, <1>4, <1>5, <1>6 DEF RingNext

\* The inductive invariant of the ring.
THEOREM RingInvariantHolds == RingSpec => []RingInv
<1>1. RingInit => RingInv  BY RingInitEstablishes
<1>2. RingInv /\ [RingNext]_ringVars => RingInv'  BY RingStepsPreserve
<1> QED BY <1>1, <1>2, PTL DEF RingSpec

\* Indices stay indices through every wrap, and what is delivered is whole.
THEOREM RingTypesHold == RingSpec => []RingTypeOK
<1>1. RingInv => RingTypeOK  BY DEF RingInv
<1> QED BY <1>1, RingInvariantHolds, PTL

\* Producer and consumer never touch one slot at a time.
THEOREM NoRace == RingSpec => []NoDataRace
<1>1. RingInv => NoDataRace
  <2> SUFFICES ASSUME RingInv, producer.at = "copying", consumer.at = "copying",
                      NEW k \in 0 .. consumer.count - 1
               PROVE  Slot(head + k) # Slot(tail)
    BY DEF NoDataRace
  <2>1. /\ producer \in [at : {"copying"}, value : Value, seen : Index]
        /\ producer # Idle
    BY DEF RingInv, RingTypeOK, Idle
  <2>2. /\ consumer \in [at : {"copying"}, count : 1 .. BatchSize]
        /\ consumer # Idle
    BY DEF RingInv, RingTypeOK, Idle
  <2>3. Waiting \in Nat  BY WaitingIsNat DEF RingInv
  <2>4. Distance(producer.seen, tail) \in Nat
    BY <2>1, Widths, DistanceFacts DEF RingInv, RingTypeOK
  <2>5. Waiting < Capacity
    BY <2>1, <2>3, <2>4, Widths DEF RingInv, ProducerSound
  <2>6. k \in 0 .. Waiting - 1
    BY <2>2, <2>3, Widths DEF RingInv, ConsumerSound
  <2> QED BY <2>5, <2>6, TailIsFree DEF RingInv
<1> QED BY <1>1, RingInvariantHolds, PTL

-----------------------------------------------------------------------------
(* The ring is a bounded FIFO *)

\* The published values are the slots from the head on.
PublishedIs ==
    /\ Published \in Seq(Value) /\ Len(Published) = Waiting
    /\ \A i \in 1 .. Waiting : Published[i] = slots[Slot(head + (i - 1))]

LEMMA PublishedFacts == RingInv => PublishedIs
<1> SUFFICES ASSUME RingInv PROVE PublishedIs
  OBVIOUS
<1>1. Waiting \in Nat  BY WaitingIsNat DEF RingInv
<1>2. head \in Nat  BY Widths DEF RingInv, RingTypeOK, Index
<1>3. \A i \in 1 .. Waiting : head + i - 1 = head + (i - 1)  BY <1>2
<1>4. Published = [i \in 1 .. Waiting |-> slots[Slot(head + (i - 1))]]
  BY <1>3 DEF Published, Waiting
<1>5. \A i \in 1 .. Waiting : slots[Slot(head + (i - 1))] \in Value
  BY <1>1 DEF RingInv, QueueSound
<1> QED BY <1>1, <1>4, <1>5 DEF PublishedIs

LEMMA PublishedFactsNext == RingInv' => PublishedIs'
BY PublishedFacts, PTL

\* Where head and waiting slots stay, the published values stay.
LEMMA PublishedKept ==
  ASSUME RingInv, head' = head, tail' = tail,
         \A k \in 0 .. Waiting - 1 :
            slots'[Slot(head + k)] = slots[Slot(head + k)]
  PROVE  Published' = Published
<1>1. Waiting \in Nat /\ Waiting' = Waiting  BY WaitingIsNat DEF RingInv, Waiting
<1>2. head \in Nat  BY Widths DEF RingInv, RingTypeOK, Index
<1>3. ASSUME NEW i \in 1 .. Waiting
      PROVE  slots'[Slot(head + i - 1)] = slots[Slot(head + i - 1)]
  <2>1. i - 1 \in 0 .. Waiting - 1 /\ head + i - 1 = head + (i - 1)
    BY <1>1, <1>2
  <2> QED BY <2>1
<1> QED BY <1>1, <1>3 DEF Published, Waiting

\* The producer's store of the tail is Push.
LEMMA PublishIsPush ==
  ASSUME RingInv, RingInv', PushPublishes
  PROVE  AsFifo!Push(producer.value)
<1> USE DEF PushPublishes
<1>1. /\ producer \in [at : {"copied"}, value : Value, seen : Index]
      /\ producer # Idle
  BY DEF RingInv, RingTypeOK, Idle
<1>2. Waiting \in Nat  BY WaitingIsNat DEF RingInv
<1>3. Waiting < Capacity
  <2>1. Distance(producer.seen, tail) \in Nat
    BY <1>1, Widths, DistanceFacts DEF RingInv, RingTypeOK
  <2> QED BY <1>1, <1>2, <2>1, Widths DEF RingInv, ProducerSound
<1>4. Waiting' = Waiting + 1
  BY <1>2, <1>3, Widths, DistanceFacts DEF Waiting, RingInv, RingTypeOK
<1>5. slots[Slot(head + Waiting)] = producer.value
  BY <1>1, SlotOfTail DEF RingInv, RingTypeOK, Waiting, ProducerSound
<1>6. /\ Published \in Seq(Value) /\ Len(Published) = Waiting
      /\ \A i \in 1 .. Waiting : Published[i] = slots[Slot(head + (i - 1))]
  BY PublishedFacts DEF PublishedIs
<1>7. /\ Published' \in Seq(Value) /\ Len(Published') = Waiting'
      /\ \A i \in 1 .. Waiting' : Published'[i] = slots[Slot(head + (i - 1))]
  BY PublishedFactsNext DEF PublishedIs
<1>8. Published' = Append(Published, producer.value)
  <2> DEFINE p == Published
             q == Append(Published, producer.value)
  <2>1. /\ q \in Seq(Value) /\ Len(q) = Waiting + 1
        /\ q[Waiting + 1] = producer.value
        /\ \A i \in 1 .. Waiting : q[i] = Published[i]
    BY <1>1, <1>6
  <2>2. ASSUME NEW i \in 1 .. Waiting + 1  PROVE Published'[i] = q[i]
    <3>1. CASE i = Waiting + 1
      <4>1. i - 1 = Waiting  BY <1>2, <3>1
      <4> QED BY <1>4, <1>5, <1>7, <2>1, <3>1, <4>1
    <3>2. CASE i # Waiting + 1
      <4>1. i \in 1 .. Waiting /\ i \in 1 .. Waiting'
        BY <1>2, <1>4, <3>2
      <4> QED BY <1>6, <1>7, <2>1, <4>1
    <3> QED BY <3>1, <3>2
  <2> QED BY <1>4, <1>7, <2>1, <2>2
<1>9. Len(Published) < Capacity  BY <1>3, <1>6
<1> QED BY <1>8, <1>9 DEF AsFifo!Push

\* What is left of a sequence without its first elements.
LEMMA SuffixFacts ==
  ASSUME NEW S, NEW s \in Seq(S), NEW n \in 0 .. Len(s)
  PROVE  LET rest == SubSeq(s, n + 1, Len(s))
         IN /\ rest \in Seq(S) /\ Len(rest) = Len(s) - n
            /\ \A i \in 1 .. Len(s) - n : rest[i] = s[n + i]
<1> DEFINE rest == SubSeq(s, n + 1, Len(s))
<1>1. rest \in Seq(S)  OBVIOUS
<1>2. Len(rest) = Len(s) - n  OBVIOUS
<1>3. ASSUME NEW i \in 1 .. Len(s) - n  PROVE rest[i] = s[n + i]
  OBVIOUS
<1> QED BY <1>1, <1>2, <1>3

\* Sequences of one length and the same elements are one.
LEMMA SequencesEqual ==
  ASSUME NEW S, NEW s \in Seq(S), NEW t \in Seq(S), Len(s) = Len(t),
         \A i \in 1 .. Len(s) : s[i] = t[i]
  PROVE  s = t
OBVIOUS

\* The consumer's store of the head is ConsumeBatch.
LEMMA ReleaseIsConsume ==
  ASSUME RingInv, RingInv', ConsumeReleases
  PROVE  AsFifo!ConsumeBatch
<1> USE DEF ConsumeReleases
<1> DEFINE n == consumer.count
<1>1. /\ consumer \in [at : {"copying"}, count : 1 .. BatchSize]
      /\ consumer # Idle
  BY DEF RingInv, RingTypeOK, Idle
<1>2. Waiting \in Nat  BY WaitingIsNat DEF RingInv
<1>3. n \in 1 .. Waiting /\ n \in 0 .. BatchSize /\ Len(destination) = n
  BY <1>1, <1>2, Widths DEF RingInv, ConsumerSound
<1>4. Waiting' = Waiting - n
  BY <1>2, <1>3, DistanceFacts DEF Waiting, RingInv, RingTypeOK
<1>5. /\ Published \in Seq(Value) /\ Len(Published) = Waiting
      /\ \A i \in 1 .. Waiting : Published[i] = slots[Slot(head + (i - 1))]
  BY PublishedFacts DEF PublishedIs
<1>6. /\ Published' \in Seq(Value) /\ Len(Published') = Waiting'
      /\ \A i \in 1 .. Waiting' : Published'[i] = slots[Slot(head' + (i - 1))]
  BY PublishedFactsNext DEF PublishedIs
<1>7. \A k \in Nat : Slot(head' + k) = Slot(head + (n + k))
  <2>1. Waiting \in 0 .. IndexRange - 1
    BY DistanceFacts DEF Waiting, RingInv, RingTypeOK
  <2>2. n \in 0 .. IndexRange  BY <1>3, <2>1, Widths
  <2>3. head \in Nat /\ n \in Nat
    BY <1>3, Widths DEF RingInv, RingTypeOK, Index
  <2>4. \A k \in Nat : head + n + k = head + (n + k)  BY <2>3
  <2>5. head \in Index /\ head' = Advance(head, n)  BY DEF RingInv, RingTypeOK
  <2> QED BY <2>2, <2>4, <2>5, SlotOfAdvance
<1>8. delivered' = SubSeq(Published, 1, n)
  <2>1. \A k \in 0 .. n - 1 : destination[k + 1] = slots[Slot(head + k)]
    BY <1>1, <1>3 DEF RingInv, ConsumerSound
  <2>2. /\ destination \in Seq(Value) /\ delivered' = destination
    BY DEF RingInv, RingTypeOK
  <2>3. ASSUME NEW i \in 1 .. n  PROVE destination[i] = Published[i]
    <3>1. i - 1 \in 0 .. n - 1 /\ (i - 1) + 1 = i /\ i \in 1 .. Waiting
      BY <1>2, <1>3
    <3> QED BY <1>5, <2>1, <3>1
  <2>4. /\ SubSeq(Published, 1, n) \in Seq(Value)
        /\ Len(SubSeq(Published, 1, n)) = n
        /\ \A i \in 1 .. n : SubSeq(Published, 1, n)[i] = Published[i]
    BY <1>2, <1>3, <1>5
  <2> QED BY <1>3, <2>2, <2>3, <2>4
<1>9. Published' = SubSeq(Published, n + 1, Len(Published))
  <2> DEFINE rest == SubSeq(Published, n + 1, Len(Published))
  <2>1. /\ rest \in Seq(Value) /\ Len(rest) = Waiting - n
        /\ \A i \in 1 .. Waiting - n : rest[i] = Published[n + i]
    <3>1. n \in 0 .. Len(Published)  BY <1>2, <1>3, <1>5
    <3> HIDE DEF n
    <3> QED BY <1>5, <3>1, SuffixFacts
  <2>2. ASSUME NEW i \in 1 .. Waiting - n  PROVE Published'[i] = rest[i]
    <3>1. /\ i - 1 \in Nat /\ n + i \in 1 .. Waiting
          /\ n + (i - 1) = (n + i) - 1 /\ i \in 1 .. Waiting'
      BY <1>2, <1>3, <1>4
    <3> HIDE DEF rest, n
    <3>2. Published'[i] = slots[Slot(head' + (i - 1))]  BY <1>6, <3>1
    <3>3. Published[n + i] = slots[Slot(head + ((n + i) - 1))]
      BY <1>5, <3>1
    <3>4. rest[i] = Published[n + i]  BY <2>1
    <3> QED BY <1>7, <3>1, <3>2, <3>3, <3>4
  <2> HIDE DEF rest
  <2> QED BY <1>4, <1>6, <2>1, <2>2, SequencesEqual DEF rest
<1>10. n <= Len(Published) /\ n # 0  BY <1>2, <1>3, <1>5
<1> QED BY <1>3, <1>8, <1>9, <1>10 DEF AsFifo!ConsumeBatch

\* Every step of the ring is a step of the FIFO, or none that shows.
LEMMA StepsSimulate ==
  ASSUME RingInv, RingInv', RingNext
  PROVE  AsFifo!Next \/ UNCHANGED <<Published, delivered>>
<1>0. Waiting \in Nat  BY WaitingIsNat DEF RingInv
<1>1. CASE \E v \in Value : PushLoadsHead(v)
  BY <1>1, PublishedKept DEF PushLoadsHead
<1>2. CASE PushRefused  BY <1>2, PublishedKept DEF PushRefused
<1>3. CASE PushStartsCopy \/ PushEndsCopy
  <2>1. /\ producer \in [at : {"loaded", "copying"}, value : Value,
                         seen : Index]
        /\ producer # Idle
    BY <1>3 DEF PushStartsCopy, PushEndsCopy, RingInv, RingTypeOK, Idle
  <2>2. /\ Distance(producer.seen, tail) \in Nat
        /\ Distance(producer.seen, tail) < Capacity
    BY <1>3, <2>1, Widths, DistanceFacts
       DEF PushStartsCopy, PushEndsCopy, Full, RingInv, RingTypeOK, ProducerSound
  <2>3. Waiting < Capacity
    BY <1>0, <2>1, <2>2, Widths DEF RingInv, ProducerSound
  <2>4. \A k \in 0 .. Waiting - 1 : Slot(head + k) # Slot(tail)
    BY <2>3, TailIsFree DEF RingInv
  <2>5. \A k \in 0 .. Waiting - 1 :
          slots'[Slot(head + k)] = slots[Slot(head + k)]
    BY <1>0, <1>3, <2>4, SlotInBuffer
       DEF PushStartsCopy, PushEndsCopy, RingInv, RingTypeOK
  <2>6. Published' = Published
    BY <1>3, <2>5, PublishedKept DEF PushStartsCopy, PushEndsCopy
  <2> QED BY <1>3, <2>6 DEF PushStartsCopy, PushEndsCopy
<1>4. CASE PushPublishes
  <2>1. producer.value \in Value
    BY <1>4 DEF PushPublishes, RingInv, RingTypeOK, Idle
  <2> QED BY <1>4, <2>1, PublishIsPush DEF AsFifo!Next
<1>5. CASE ConsumeLoadsTail
  <2>1. Published' = Published
    BY <1>5, PublishedKept DEF ConsumeLoadsTail
  <2>2. CASE UNCHANGED delivered
    BY <2>1, <2>2
  <2>3. CASE ~ UNCHANGED delivered
    <3>1. Waiting = 0 /\ delivered' = <<>>
      BY <1>0, <1>5, <2>3, Widths DEF ConsumeLoadsTail, Waiting
    <3>2. Published = <<>>
      BY <3>1, PublishedFacts DEF PublishedIs
    <3>3. /\ SubSeq(Published, 1, 0) = <<>>
          /\ SubSeq(Published, 1, Len(Published)) = <<>>
      BY <3>2
    <3>4. 0 \in 0 .. BatchSize /\ 0 <= Len(Published) /\ 0 + 1 = 1
      BY <3>2, Widths
    <3>5. AsFifo!ConsumeBatch
      BY <2>1, <3>1, <3>2, <3>3, <3>4 DEF AsFifo!ConsumeBatch
    <3> QED BY <3>5 DEF AsFifo!Next
  <2> QED BY <2>2, <2>3
<1>6. CASE ConsumeCopies  BY <1>6, PublishedKept DEF ConsumeCopies
<1>7. CASE ConsumeReleases  BY <1>7, ReleaseIsConsume DEF AsFifo!Next
<1>8. CASE ResetWhenIdle
  <2>1. Waiting' = 0
    BY <1>8, Widths, DistanceFacts DEF ResetWhenIdle, Waiting
  <2>2. Published' = <<>>
    BY <2>1, PublishedFactsNext DEF PublishedIs
  <2> QED BY <1>8, <2>2 DEF ResetWhenIdle, AsFifo!Next, AsFifo!Reset
<1> QED BY <1>1, <1>2, <1>3, <1>4, <1>5, <1>6, <1>7, <1>8
        DEF RingNext, PushEnds, ConsumeEnds

\* The lock-free ring implements BoundedFifo: each push and each batch takes
\* effect in one instant, whatever the two threads interleave.
THEOREM ImplementsFifo == RingSpec => FifoSpec
<1>1. RingInit => AsFifo!Init
  <2> SUFFICES ASSUME RingInit PROVE Published = <<>> /\ delivered = <<>>
    BY DEF AsFifo!Init
  <2>1. Waiting = 0  BY Widths, DistanceFacts DEF RingInit, Waiting
  <2> QED BY <2>1, RingInitEstablishes, PublishedFacts DEF RingInit, PublishedIs
<1>2. RingInv /\ [RingNext]_ringVars => [AsFifo!Next]_<<Published, delivered>>
  <2> SUFFICES ASSUME RingInv, [RingNext]_ringVars
               PROVE  AsFifo!Next \/ UNCHANGED <<Published, delivered>>
    OBVIOUS
  <2>1. CASE RingNext  BY <2>1, RingStepsPreserve, StepsSimulate
  <2>2. CASE UNCHANGED ringVars  BY <2>2, PublishedKept DEF ringVars
  <2> QED BY <2>1, <2>2
<1> QED BY <1>1, <1>2, RingInvariantHolds, PTL
        DEF RingSpec, FifoSpec, AsFifo!Spec, AsFifo!vars
=============================================================================
