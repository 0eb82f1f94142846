------------------------- MODULE TopOfBookRecorder -------------------------
(***************************************************************************)
(* BinaryRecorder of recording/TopOfBookRecorder.hpp under the engine that *)
(* owns it.  Three threads: the feed offers records and never blocks, the  *)
(* writer drains the recorder queue into the two streams, and the          *)
(* controlling thread starts and stops both and publishes the sidecar.     *)
(*                                                                         *)
(* The queue is used through BoundedFifo, which SpscRingBuffer implements. *)
(* A record is the number of its arrival, counted over all sessions, so a  *)
(* lost, repeated or leftover record shows in the file.                    *)
(***************************************************************************)
EXTENDS Naturals, SequencesExt

CONSTANTS QueueCapacity,    \* of queue_
          WriteBatchSize,
          MaxArrivals,      \* bound: records the feed offers
          MaxConnections,   \* bound: connections of the feed
          MaxSessions       \* bound: recordings started

ASSUME RecorderAssumption ==
    /\ QueueCapacity \in Nat \ {0} /\ WriteBatchSize \in Nat \ {0}
    /\ MaxArrivals \in Nat /\ MaxConnections \in Nat /\ MaxSessions \in Nat

VARIABLES active,      \* active_
          queue,       \* queue_
          batch,       \* the writer's entries
          counts,      \* accepted, recorded, dropped records, write errors
          ids,         \* first_update_id_, last_update_id_
          markers,     \* markers_
          feed,        \* where record() is, called by the feed thread
          writer,      \* where writer_loop() is
          control,     \* where the thread calling start() and stop() is
          file,        \* the records output_ holds
          idFile,      \* the records whose ids update_id_output_ holds
          torn,        \* the streams that end inside a record or their header
          sidecar,     \* the published metadata of the current recording
          past         \* arrivals, arrivals at start(), connections, sessions

feedVars == <<feed, past>>
disk == <<file, idFile, torn>>
vars == <<active, queue, batch, counts, ids, markers, feed, writer, control,
          disk, sidecar, past>>

Fifo == INSTANCE BoundedFifo WITH Value <- Nat, Capacity <- QueueCapacity,
                                  BatchSize <- WriteBatchSize,
                                  delivered <- batch

NoCounts  == [accepted |-> 0, recorded |-> 0, dropped |-> 0, errors |-> 0]
NoIds     == [first |-> 0, last |-> 0]
NoSidecar == [published |-> FALSE]

Marker(index, kind) == [index |-> index, kind |-> kind]

Init == /\ active = FALSE /\ Fifo!Init /\ counts = NoCounts /\ ids = NoIds
        /\ markers = <<>> /\ feed = "none" /\ writer = "none"
        /\ control = "stopped" /\ sidecar = NoSidecar
        /\ file = <<>> /\ idFile = <<>> /\ torn = {}
        /\ past = [arrived |-> 0, base |-> 0, connections |-> 0, sessions |-> 0]

-----------------------------------------------------------------------------
(* record() and mark_session_boundary(), in the feed thread *)

\* add_marker() at the current accepted count
AddMarker(kind) ==
    markers' = IF markers # <<>>
                  /\ Last(markers) = Marker(counts.accepted, kind)
               THEN markers ELSE Append(markers, Marker(counts.accepted, kind))

Connects ==
    /\ feed = "idle" /\ past.connections < MaxConnections
    /\ past' = [past EXCEPT !.connections = @ + 1]
    /\ AddMarker("connection_start")
    /\ UNCHANGED <<active, queue, batch, counts, ids, feed, writer, control,
                   disk, sidecar>>

\* A record arrives; an inactive recorder refuses it.
RecordChecksActive ==
    /\ feed = "idle" /\ past.arrived < MaxArrivals
    /\ past' = [past EXCEPT !.arrived = @ + 1]
    /\ feed' = IF active THEN "checked" ELSE "idle"
    /\ UNCHANGED <<active, queue, batch, counts, ids, markers, writer, control,
                   disk, sidecar>>

RecordPushes ==
    /\ feed = "checked"
    /\ Fifo!Push(past.arrived)
    /\ feed' = "pushed"
    /\ UNCHANGED <<active, counts, ids, markers, writer, control, disk,
                   sidecar, past>>

RecordDropped ==
    /\ feed = "checked" /\ Len(queue) = QueueCapacity
    /\ counts' = [counts EXCEPT !.dropped = @ + 1]
    /\ feed' = "dropped"
    /\ UNCHANGED <<active, queue, batch, ids, markers, writer, control, disk,
                   sidecar, past>>

RecordMarksDrop ==
    /\ feed = "dropped"
    /\ AddMarker("recording_queue_drop")
    /\ feed' = "idle"
    /\ UNCHANGED <<active, queue, batch, counts, ids, writer, control, disk,
                   sidecar, past>>

\* The accepted count and the id range follow the push: the writer may be
\* ahead of them.
RecordCounts ==
    /\ feed = "pushed"
    /\ counts' = [counts EXCEPT !.accepted = @ + 1]
    /\ ids' = [first |-> IF ids.first = 0 THEN past.arrived ELSE ids.first,
               last  |-> past.arrived]
    /\ feed' = "idle"
    /\ UNCHANGED <<active, queue, batch, markers, writer, control, disk,
                   sidecar, past>>

\* BinanceFeed::run() sees running false after the message in hand.
FeedEnds ==
    /\ feed = "idle" /\ control = "joining_feed"
    /\ feed' = "none"
    /\ UNCHANGED <<active, queue, batch, counts, ids, markers, writer, control,
                   disk, sidecar, past>>

-----------------------------------------------------------------------------
(* writer_loop() *)

WriterConsumes ==
    /\ writer = "consuming"
    /\ Fifo!ConsumeBatch
    /\ batch' # <<>> => Len(batch') = Min({Len(queue), WriteBatchSize})
    /\ writer' = IF batch' = <<>> THEN "checking" ELSE "writing"
    /\ UNCHANGED <<active, counts, ids, markers, feed, control, disk, sidecar,
                   past>>

WriterWrites ==
    /\ writer = "writing"
    /\ file' = file \o batch /\ idFile' = idFile \o batch /\ torn' = torn
    /\ counts' = [counts EXCEPT !.recorded = @ + Len(batch)]
    /\ writer' = "consuming"
    /\ UNCHANGED <<active, queue, batch, ids, markers, feed, control, sidecar,
                   past>>

\* note_write_error_once(): one error per recording is counted.
NoteWriteError == [counts EXCEPT !.errors = 1]

TwoStreams == {"records", "ids"}

\* What a failing stream keeps of what was written to it: any beginning, since
\* it buffers across batches, and maybe a part of the record that follows.
Kept(whole, broken) ==
    {kept \in Prefixes(whole) : broken => kept # whole \/ whole = <<>>}

\* Each stream fails on its own, and the other one takes everything.
StreamsFail(failing, records, updateIds) ==
    \E broken \in SUBSET failing :
       /\ torn' = (torn \ failing) \cup broken
       /\ file' \in IF "records" \in failing
                   THEN Kept(records, "records" \in broken) ELSE {records}
       /\ idFile' \in IF "ids" \in failing
                     THEN Kept(updateIds, "ids" \in broken) ELSE {updateIds}

\* Mutant: the stream of the ids is not tested.
WriterTestsRecordsOnly ==
    /\ writer = "writing"
    /\ \E failing \in SUBSET TwoStreams \ {{}} :
          /\ StreamsFail(failing, file \o batch, idFile \o batch)
          /\ IF "records" \in failing
             THEN counts' = NoteWriteError /\ active' = FALSE /\ writer' = "ended"
             ELSE /\ counts' = [counts EXCEPT !.recorded = @ + Len(batch)]
                  /\ active' = active /\ writer' = "consuming"
    /\ UNCHANGED <<queue, batch, ids, markers, feed, control, sidecar, past>>

\* A stream fails: the recorder refuses what follows and the writer leaves its
\* loop.
WriterFails ==
    /\ writer = "writing"
    /\ \E failing \in SUBSET TwoStreams \ {{}} :
          StreamsFail(failing, file \o batch, idFile \o batch)
    /\ counts' = NoteWriteError
    /\ active' = FALSE
    /\ writer' = "ended"
    /\ UNCHANGED <<queue, batch, ids, markers, feed, control, sidecar, past>>

\* The queue was found empty one step ago.
WriterChecksActive ==
    /\ writer = "checking"
    /\ writer' = IF active THEN "consuming" ELSE "ended"
    /\ UNCHANGED <<active, queue, batch, counts, ids, markers, feed, control,
                   disk, sidecar, past>>

-----------------------------------------------------------------------------
(* start() and stop(), in the controlling thread *)

\* Mutant: the queue keeps what the last recording left in it.
StartKeepsQueue(feedStarts) ==
    /\ control = "stopped" /\ past.sessions < MaxSessions
    /\ past' = [past EXCEPT !.sessions = @ + 1, !.base = past.arrived]
    /\ counts' = NoCounts /\ ids' = NoIds /\ markers' = <<>>
    /\ file' = <<>> /\ idFile' = <<>> /\ torn' = {} /\ sidecar' = NoSidecar
    /\ active' = TRUE
    /\ writer' = "consuming"
    /\ feed' = IF feedStarts THEN "idle" ELSE "none"
    /\ control' = IF feedStarts THEN "live" ELSE "stopping"
    /\ UNCHANGED <<queue, batch>>

\* start() with a path not yet in use, then the feed thread; when that thread
\* cannot be created the engine stops the recorder at once.  A start() that
\* fails on its files leaves none behind, and what it has reset the next
\* start() resets again.
Start(feedStarts) ==
    /\ control = "stopped" /\ past.sessions < MaxSessions
    /\ past' = [past EXCEPT !.sessions = @ + 1, !.base = past.arrived]
    /\ counts' = NoCounts /\ ids' = NoIds /\ markers' = <<>>
    /\ Fifo!Reset
    /\ file' = <<>> /\ idFile' = <<>> /\ torn' = {} /\ sidecar' = NoSidecar
    /\ active' = TRUE
    /\ writer' = "consuming"
    /\ feed' = IF feedStarts THEN "idle" ELSE "none"
    /\ control' = IF feedStarts THEN "live" ELSE "stopping"

\* IngestionEngine::stop(): running_ becomes false and the feed is joined.
StopRequested ==
    /\ control = "live"
    /\ control' = "joining_feed"
    /\ UNCHANGED <<active, queue, batch, counts, ids, markers, feed, writer,
                   disk, sidecar, past>>

FeedJoined ==
    /\ control = "joining_feed" /\ feed = "none"
    /\ control' = "stopping"
    /\ UNCHANGED <<active, queue, batch, counts, ids, markers, feed, writer,
                   disk, sidecar, past>>

\* Mutant: the writer is joined before admission stops.
StopsAdmissionLate ==
    /\ control = "stopping"
    /\ control' = "joining_writer"
    /\ UNCHANGED <<active, queue, batch, counts, ids, markers, feed, writer,
                   disk, sidecar, past>>

\* BinaryRecorder::stop()
StopsAdmission ==
    /\ control = "stopping"
    /\ active' = FALSE
    /\ control' = "joining_writer"
    /\ UNCHANGED <<queue, batch, counts, ids, markers, feed, writer, disk,
                   sidecar, past>>

WriterJoined ==
    /\ control = "joining_writer" /\ writer = "ended"
    /\ writer' = "none"
    /\ control' = "closing"
    /\ UNCHANGED <<active, queue, batch, counts, ids, markers, feed, disk,
                   sidecar, past>>

Closes ==
    /\ control = "closing"
    /\ control' = "publishing"
    /\ UNCHANGED <<active, queue, batch, counts, ids, markers, feed, writer,
                   disk, sidecar, past>>

\* Mutant: the state of the first stream is forgotten over the second.
CloseRemembersLast ==
    /\ control = "closing"
    /\ \E failing \in SUBSET TwoStreams \ {{}} :
          /\ StreamsFail(failing, file, idFile)
          /\ counts' = IF "ids" \in failing THEN NoteWriteError ELSE counts
    /\ control' = "publishing"
    /\ UNCHANGED <<active, queue, batch, ids, markers, feed, writer, sidecar,
                   past>>

\* The last flush of a stream fails, which flush_and_close() tests; the other
\* stream is closed all the same.
CloseFails ==
    /\ control = "closing"
    /\ \E failing \in SUBSET TwoStreams \ {{}} : StreamsFail(failing, file, idFile)
    /\ counts' = NoteWriteError
    /\ control' = "publishing"
    /\ UNCHANGED <<active, queue, batch, ids, markers, feed, writer, sidecar,
                   past>>

\* data_complete
DataComplete == /\ counts.dropped = 0 /\ counts.errors = 0
                /\ counts.recorded = counts.accepted

\* write_metadata_sidecar_noexcept(): a temporary file, then a rename.
Publishes ==
    /\ control = "publishing"
    /\ sidecar' = [published |-> TRUE, complete |-> DataComplete,
                   counts |-> counts, ids |-> ids, boundaries |-> markers]
    /\ control' = "stopped"
    /\ UNCHANGED <<active, queue, batch, counts, ids, markers, feed, writer,
                   disk, past>>

PublishFails ==
    /\ control = "publishing"
    /\ counts' = NoteWriteError
    /\ control' = "stopped"
    /\ UNCHANGED <<active, queue, batch, ids, markers, feed, writer, disk,
                   sidecar, past>>

-----------------------------------------------------------------------------

RecordNext == RecordPushes \/ RecordDropped \/ RecordMarksDrop \/ RecordCounts

WriterNext == WriterConsumes \/ WriterWrites \/ WriterFails
              \/ WriterChecksActive

StopNext == FeedJoined \/ StopsAdmission \/ WriterJoined \/ Closes
            \/ CloseFails \/ Publishes \/ PublishFails

Next == \/ Connects \/ RecordChecksActive \/ RecordNext \/ FeedEnds
        \/ WriterNext
        \/ \E feedStarts \in BOOLEAN : Start(feedStarts)
        \/ StopRequested \/ StopNext

Spec == Init /\ [][Next]_vars

\* Every thread is scheduled and record() never waits.  The feed ends once it is
\* told to: IngestionEngine!CallsReturn promises it but for a stop it could not
\* hear and a peer that stays silent.
FairSpec == Spec /\ WF_vars(RecordNext) /\ WF_vars(FeedEnds)
                 /\ WF_vars(WriterNext) /\ WF_vars(StopNext)

-----------------------------------------------------------------------------
(* Correctness *)

\* Every variable holds a value of its kind.
TypeOK ==
    /\ active \in BOOLEAN
    /\ queue \in Seq(1 .. MaxArrivals) /\ Len(queue) <= QueueCapacity
    /\ batch \in Seq(1 .. MaxArrivals) /\ Len(batch) <= WriteBatchSize
    /\ counts \in [accepted : Nat, recorded : Nat, dropped : Nat,
                   errors : 0 .. 1]
    /\ ids \in [first : 0 .. MaxArrivals, last : 0 .. MaxArrivals]
    /\ feed \in {"none", "idle", "checked", "pushed", "dropped"}
    /\ writer \in {"none", "consuming", "writing", "checking", "ended"}
    /\ control \in {"stopped", "live", "joining_feed", "stopping",
                    "joining_writer", "closing", "publishing"}
    /\ file \in Seq(1 .. MaxArrivals) /\ idFile \in Seq(1 .. MaxArrivals)
    /\ torn \subseteq TwoStreams

\* stop() returns, if the feed it joins first ends: no interleaving leaves the join
\* of the writer waiting.
StopReturns == control = "joining_feed" ~> control = "stopped"

=============================================================================
