--------------------------- MODULE RecordingFiles ---------------------------
(***************************************************************************)
(* The three files of an L2 recording, as L2Writer writes them and         *)
(* read_metadata() reconciles them (recording/l2.py).  The writer can be   *)
(* killed, fail or be interrupted at every step; power can go; a second    *)
(* writer can have chosen the same path; and files can be cut, lost or     *)
(* mixed with those of an earlier recording of that path.                  *)
(*                                                                         *)
(* An event is its kind (a trade counts like a boundary), a state hash the *)
(* number of book events behind it, a creation time the recording's        *)
(* number, a SHA-256 digest the content itself.                            *)
(***************************************************************************)
EXTENDS Integers, Sequences, FiniteSets, SequencesExt

CONSTANTS MaxEvents,      \* bound: events of a recording before its end
          EarlierEvents,  \* the events of an earlier recording of the path
          MaxAccidents,   \* bound: cut, lost or mixed files
          Missing,        \* no such file
          TornText        \* a sidecar whose text is cut

Kinds == {"snapshot", "depth", "boundary"}
Torn  == "torn"           \* a fragment of a record
TornCheckpoint == [index |-> 0, state |-> 0]

\* What a name can stand for, of the recording (1) or of the earlier one (0).
Checkpoint      == [index : Nat, state : Nat]
DataFiles       == [id : {0, 1}, events : Seq(Kinds \cup {Torn})]
CheckpointFiles == [id : {0, 1}, list : Seq(Checkpoint)]
Sidecars == [id : {0, 1}, counts : [Kinds -> Nat], checkpoints : Nat,
             complete : BOOLEAN, clean : BOOLEAN, lost : BOOLEAN, final : Nat,
             hashes : {<<>>} \cup (Seq(Kinds \cup {Torn}) \X Seq(Checkpoint))]

ASSUME BoundAssumption == MaxEvents \in Nat /\ MaxAccidents \in Nat
ASSUME EarlierAssumption == EarlierEvents \in Seq(Kinds)
ASSUME AbsenceAssumption ==
    /\ Missing # TornText
    /\ Missing \notin DataFiles /\ Missing \notin CheckpointFiles
    /\ Missing \notin Sidecars /\ TornText \notin Sidecars

VARIABLES writer,    \* the L2Writer object of the current recording: what its
                     \* streams hold, and the checkpoints its counter lists
          counted,   \* the events its counters count
          disk,      \* the files a reader finds at the path
          accidents

vars == <<writer, counted, disk, accidents>>

DataFile(events) == [id |-> 1, events |-> events]
CheckpointFile(list) == [id |-> 1, list |-> list]

Nothing == [data |-> Missing, checkpoints |-> Missing, sidecar |-> Missing]

Ended == {"idle", "returned", "raised"}

Init == /\ writer = [step |-> "idle", stream |-> <<>>, checks |-> <<>>,
                     listed |-> <<>>, unlinked |-> FALSE, clean |-> TRUE, payload |-> Missing]
        /\ counted = <<>> /\ disk = Nothing /\ accidents = 0

Count(events, kind) == Cardinality({i \in DOMAIN events : events[i] = kind})
Counts(events) == [k \in Kinds |-> Count(events, k)]
BookEvents(events) == Count(events, "snapshot") + Count(events, "depth")

-----------------------------------------------------------------------------
(* Reading *)

\* iter_events() gets through: whole records, whose payload and CRC agree.
Readable(data) == data # Missing /\ \A i \in DOMAIN data.events :
                                        data.events[i] \in Kinds

\* Mutant: the checkpoint file is not tied to the recording.
ForeignUnchecked(d) == TornCheckpoint \in Range(d.checkpoints.list)

\* read_checkpoints() refuses a partial record and another recording's file.
Foreign(d) ==
    \/ d.checkpoints.id # d.data.id
    \/ TornCheckpoint \in Range(d.checkpoints.list)

\* What the reader itself takes for complete.
ExpectedComplete(d) ==
    /\ d.sidecar.clean /\ ~ d.sidecar.lost
    /\ Count(d.data.events, "snapshot") > 0 /\ Count(d.data.events, "depth") > 0
    /\ d.checkpoints.list # <<>>
    /\ d.sidecar.final > 0

\* The sidecar disagrees with the files it describes.
Contradicted(d, verifyHashes) ==
    \/ d.sidecar.id # d.data.id
    \/ d.sidecar.counts # Counts(d.data.events)
    \/ d.checkpoints = Missing
    \/ Foreign(d)
    \/ d.sidecar.checkpoints # Len(d.checkpoints.list)
    \/ d.sidecar.complete # ExpectedComplete(d)
    \/ d.sidecar.complete /\ Last(d.checkpoints.list)
         # [index |-> Len(d.data.events), state |-> d.sidecar.final]
    \/ verifyHashes /\ d.sidecar.hashes # <<d.data.events, d.checkpoints.list>>

\* read_metadata(): an exception, or data_complete.  No sidecar means that
\* the recording was interrupted or altered.
Verdict(d, verifyHashes) ==
    IF ~ Readable(d.data) \/ d.sidecar = TornText THEN "refused"
    ELSE IF d.sidecar = Missing
         THEN IF d.checkpoints # Missing /\ Foreign(d) THEN "refused"
              ELSE "incomplete"
    ELSE IF Contradicted(d, verifyHashes) THEN "refused"
    ELSE IF d.sidecar.complete THEN "complete" ELSE "incomplete"

-----------------------------------------------------------------------------
(* Writing *)

\* __init__() refuses a path where any artifact exists, then creates both
\* streams with their headers.
Opens ==
    /\ writer.step = "idle" /\ disk = Nothing
    /\ writer' = [writer EXCEPT !.step = "open"]
    /\ disk' = [disk EXCEPT !.data = DataFile(<<>>),
                            !.checkpoints = CheckpointFile(<<>>)]
    /\ UNCHANGED <<counted, accidents>>

\* __init__() of a second writer that found the path free before this one
\* took it: its open("xb") fails, and its handler unlinks both names.
RivalFails ==
    /\ writer.step # "idle" /\ ~ writer.unlinked /\ disk.data # Missing
    /\ disk.data.id = 1
    /\ writer' = [writer EXCEPT !.unlinked = TRUE]
    /\ disk' = [disk EXCEPT !.data = Missing, !.checkpoints = Missing]
    /\ UNCHANGED <<counted, accidents>>

Writes(kind) ==
    /\ writer.step = "open" /\ Len(writer.stream) < MaxEvents
    /\ writer' = [writer EXCEPT !.stream = Append(@, kind)]
    /\ counted' = Append(counted, kind)
    /\ UNCHANGED <<disk, accidents>>

\* write() raises inside _write_exact(), with no byte or with a part of the
\* record in the stream: capture() leaves its loop with a failure.
WriteFails ==
    /\ writer.step = "open" /\ Len(writer.stream) < MaxEvents
    /\ \E part \in {<<>>, <<Torn>>} :
          writer' = [writer EXCEPT !.stream = @ \o part, !.step = "ending",
                                   !.clean = FALSE]
    /\ UNCHANGED <<counted, disk, accidents>>

\* Ctrl-C between _write_exact() and the counters: a graceful end.
WriteInterrupted(kind) ==
    /\ writer.step = "open" /\ Len(writer.stream) < MaxEvents
    /\ writer' = [writer EXCEPT !.stream = Append(@, kind), !.step = "ending"]
    /\ UNCHANGED <<counted, disk, accidents>>

\* Mutant: an index may be repeated.
LaterUnchecked(checks, index) == TRUE

\* write_checkpoint() insists on increasing indices.
Later(checks, index) == \A i \in DOMAIN checks : checks[i].index < index

WithCheckpoint(checks, events) ==
    Append(checks, [index |-> Len(events), state |-> BookEvents(events)])

CheckpointDue ==
    /\ writer.step = "open" /\ BookEvents(counted) > 0
    /\ Later(writer.listed, Len(counted))
    /\ Len(writer.listed) < MaxEvents

WritesCheckpoint ==
    /\ CheckpointDue
    /\ writer' = [writer EXCEPT !.checks = WithCheckpoint(@, counted),
                                !.listed = WithCheckpoint(@, counted)]
    /\ UNCHANGED <<counted, disk, accidents>>

\* write_checkpoint() raises inside _write_exact(): a failure of capture().
CheckpointFails ==
    /\ CheckpointDue
    /\ \E part \in {<<>>, <<TornCheckpoint>>} :
          writer' = [writer EXCEPT !.checks = @ \o part, !.step = "ending",
                                   !.clean = FALSE]
    /\ UNCHANGED <<counted, disk, accidents>>

\* Ctrl-C between _write_exact() and the counter: a graceful end.
CheckpointInterrupted ==
    /\ CheckpointDue
    /\ writer' = [writer EXCEPT !.checks = WithCheckpoint(@, counted), !.step = "ending"]
    /\ UNCHANGED <<counted, disk, accidents>>

\* Mutant: completeness does not ask for a depth update.
DataCompleteWithoutDepth(events, checks, final, clean, lost) ==
    clean /\ ~ lost /\ Count(events, "snapshot") > 0 /\ checks # <<>> /\ final > 0

\* data_complete of finalize()
DataComplete(events, checks, final, clean, lost) ==
    /\ clean /\ ~ lost
    /\ Count(events, "snapshot") > 0 /\ Count(events, "depth") > 0
    /\ checks # <<>> /\ final > 0

\* The end of capture(): the stop marker, the final checkpoint if there is a
\* book, and the first half of finalize(), up to its flushes.
Ends(final, clean, lost) ==
    LET events == Append(counted, "boundary")
        Closing(checks) == IF final > 0 THEN WithCheckpoint(checks, events)
                           ELSE checks
        listed == Closing(writer.listed)
        complete == DataComplete(events, listed, final, clean, lost)
    IN /\ writer.step \in {"open", "ending"}
       /\ final \in {0, BookEvents(events)}
       /\ clean => writer.clean
       /\ complete => Last(listed) = [index |-> Len(events), state |-> final]
       /\ counted' = events
       /\ writer' = [writer EXCEPT !.stream = Append(@, "boundary"),
             !.checks = Closing(@), !.listed = listed, !.step = "finalizing",
             !.payload = [id |-> 1, counts |-> Counts(events),
                          checkpoints |-> Len(listed), complete |-> complete,
                          clean |-> clean, lost |-> lost, final |-> final,
                          hashes |-> <<>>]]
       /\ UNCHANGED <<disk, accidents>>

\* A flushed and synced stream is what the name shows, unless it was unlinked.
OnDisk(file, content) == IF writer.unlinked THEN file ELSE content

ClosesData ==
    /\ writer.step = "finalizing"
    /\ writer' = [writer EXCEPT !.step = "data_closed"]
    /\ disk' = [disk EXCEPT !.data = OnDisk(@, DataFile(writer.stream))]
    /\ UNCHANGED <<counted, accidents>>

ClosesCheckpoints ==
    /\ writer.step = "data_closed"
    /\ writer' = [writer EXCEPT !.step = "closed"]
    /\ disk' = [disk EXCEPT !.checkpoints = OnDisk(@, CheckpointFile(writer.checks))]
    /\ UNCHANGED <<counted, accidents>>

\* The digests; a file that is gone raises.
Hashes ==
    /\ writer.step = "closed" /\ ~ writer.unlinked
    /\ writer' = [writer EXCEPT !.step = "hashed",
          !.payload.hashes = <<disk.data.events, disk.checkpoints.list>>]
    /\ UNCHANGED <<counted, disk, accidents>>

\* _atomic_json() renames the whole payload into place.
Publishes ==
    /\ writer.step = "hashed"
    /\ writer' = [writer EXCEPT !.step = "published"]
    /\ disk' = [disk EXCEPT !.sidecar = writer.payload]
    /\ UNCHANGED <<counted, accidents>>

\* finalize() ends by reading back what it published.
Returns ==
    /\ writer.step = "published"
    /\ writer' = [writer EXCEPT !.step =
                     IF Verdict(disk, TRUE) = "refused" THEN "raised" ELSE "returned"]
    /\ UNCHANGED <<counted, disk, accidents>>

-----------------------------------------------------------------------------
(* Ends that nobody ordered *)

Cut(s, fragment) ==
    LET prefixes == {SubSeq(s, 1, n) : n \in 0 .. Len(s)}
    IN prefixes \cup {Append(p, fragment) : p \in prefixes \ {s}}

\* The process is killed or a step raises and abort() closes what is open:
\* of a stream not yet synced any part is on disk, and abort() removes nothing.
Dies ==
    /\ writer.step \in {"open", "ending", "finalizing", "data_closed", "closed",
                        "hashed"}
    /\ writer' = [writer EXCEPT !.step = "raised"]
    /\ \E events \in Cut(writer.stream, Torn),
          list \in Cut(writer.checks, TornCheckpoint) :
          /\ writer.step \notin {"open", "ending", "finalizing"} => events = writer.stream
          /\ writer.step \in {"closed", "hashed"} => list = writer.checks
          /\ disk' = [disk EXCEPT !.data = OnDisk(@, DataFile(events)),
                                  !.checkpoints = OnDisk(@, CheckpointFile(list))]
    /\ UNCHANGED <<counted, accidents>>

\* Power goes after the rename, which nothing has synced: the sidecar may be
\* there, gone, or a name without its text.
PowerFails ==
    /\ writer.step \in {"published", "returned"}
    /\ disk.sidecar = writer.payload
    /\ writer' = [writer EXCEPT !.step = "raised"]
    /\ \E text \in {Missing, TornText} : disk' = [disk EXCEPT !.sidecar = text]
    /\ UNCHANGED <<counted, accidents>>

\* The files of the earlier recording, complete, kept in another place.
Archive ==
    LET state == BookEvents(EarlierEvents)
        list == <<[index |-> Len(EarlierEvents), state |-> state]>>
    IN [data |-> [id |-> 0, events |-> EarlierEvents],
        checkpoints |-> [id |-> 0, list |-> list],
        sidecar |-> [id |-> 0, counts |-> Counts(EarlierEvents), checkpoints |-> 1,
                     complete |-> TRUE, clean |-> TRUE, lost |-> FALSE,
                     final |-> state, hashes |-> <<EarlierEvents, list>>]]

\* A file is lost, cut, or replaced by that of the earlier recording.
Accident ==
    /\ writer.step \in Ended /\ accidents < MaxAccidents
    /\ accidents' = accidents + 1
    /\ \/ \E f \in DOMAIN disk : disk' = [disk EXCEPT ![f] = Missing]
       \/ \E f \in DOMAIN disk : disk' = [disk EXCEPT ![f] = Archive[f]]
       \/ /\ disk.data # Missing
          /\ \E s \in Cut(disk.data.events, Torn) :
                disk' = [disk EXCEPT !.data.events = s]
       \/ /\ disk.checkpoints # Missing
          /\ \E s \in Cut(disk.checkpoints.list, TornCheckpoint) :
                disk' = [disk EXCEPT !.checkpoints.list = s]
    /\ UNCHANGED <<writer, counted>>

Next == \/ Opens \/ RivalFails
        \/ \E kind \in Kinds : Writes(kind) \/ WriteInterrupted(kind)
        \/ WriteFails \/ WritesCheckpoint \/ CheckpointFails \/ CheckpointInterrupted
        \/ \E final \in 0 .. MaxEvents, clean, lost \in BOOLEAN : Ends(final, clean, lost)
        \/ ClosesData \/ ClosesCheckpoints \/ Hashes \/ Publishes \/ Returns
        \/ Dies \/ PowerFails \/ Accident

Spec == Init /\ [][Next]_vars

-----------------------------------------------------------------------------
(* Correctness *)

\* Every variable holds a value of its kind, the checkpoints a writer lists are
\* in order, and its counters never count what its streams do not hold.
TypeOK ==
    /\ writer.step \in Ended \cup {"open", "ending", "finalizing", "data_closed",
                                   "closed", "hashed", "published"}
    /\ \A i, j \in DOMAIN writer.listed :
          i < j => writer.listed[i].index < writer.listed[j].index
    /\ Len(writer.listed) <= Len(writer.checks)
    /\ \A k \in Kinds : Count(counted, k) <= Count(writer.stream, k)
    /\ disk.data # Missing => disk.data.id \in {0, 1}

\* Whatever was killed, lost, cut, unlinked or mixed, a recording that
\* read_metadata() calls complete, even without hashing, is one recording:
\* every event its writer accepted, in order, and its own checkpoints, the
\* last of them at its end.
CompleteIsOneRecording ==
    Verdict(disk, FALSE) = "complete" =>
        /\ disk.checkpoints.id = disk.data.id /\ disk.sidecar.id = disk.data.id
        /\ disk.data.events = IF disk.data.id = 1 THEN counted ELSE EarlierEvents
        /\ Last(disk.checkpoints.list).index = Len(disk.data.events)

\* A writer none of whose writes failed half way or was interrupted, and whose
\* files nobody touched, publishes what the reader accepts as it stands: the
\* two derivations of completeness agree, and the digests are of the files.
PublishedIsAccepted ==
    (/\ writer.step \in {"published", "returned"}
     /\ ~ writer.unlinked
     /\ writer.stream = counted /\ writer.checks = writer.listed
     /\ disk.sidecar = writer.payload /\ accidents = 0)
        => Verdict(disk, TRUE) = (IF disk.sidecar.complete THEN "complete"
                                  ELSE "incomplete")
=============================================================================
