----------------------------- MODULE L2Capture -----------------------------
(***************************************************************************)
(* market_data/l2_capture.py: capture() and its two threads.               *)
(*                                                                         *)
(* The CombinedStreamClient thread puts parsed messages on a bounded queue *)
(* and never blocks; the main thread takes them, drives one SymbolCapture  *)
(* per symbol (synchronizer, REST snapshots, recording) and finalizes      *)
(* every recording when the capture ends, however it ends.                 *)
(*                                                                         *)
(* A handler of the main thread is one step except where it waits for the  *)
(* REST answer: there the client thread and the exchange go on.            *)
(***************************************************************************)
EXTENDS DepthSynchronizer, L2Recording

CONSTANTS Symbols,
          QueueCapacity,         \* --queue-capacity
          CheckpointInterval,    \* --checkpoint-interval
          AttemptLimit,          \* snapshot_attempt_limit
          MaxConnections,        \* bound: connection attempts
          MaxTrades,             \* bound: trades received
          MaxMalformed,          \* bound: malformed messages
          MaxId,                 \* bound: ids the exchange publishes
          InterruptsInside       \* whether Ctrl-C lands inside a handler

ASSUME CaptureAssumption ==
    /\ QueueCapacity \in Nat \ {0}
    /\ CheckpointInterval \in Nat \ {0}
    /\ AttemptLimit \in Nat \ {0}
    /\ MaxId \in Nat \ {0} /\ MaxConnections \in Nat
    /\ MaxTrades \in Nat /\ MaxMalformed \in Nat
    /\ InterruptsInside \in BOOLEAN

VARIABLES head,       \* per symbol, the last id the exchange has published
          thread,     \* where CombinedStreamClient.run() is
          stopping,   \* its stop_event
          queue,      \* event_queue
          lost,       \* queue_drops, malformed_messages
          used,       \* budget spent: connections, trades
          pc,         \* where capture() is
          fetch,      \* the REST request in flight: symbol, attempts made
          failure,    \* capture() holds an exception
          cap         \* per symbol, its SymbolCapture and L2Writer

clientVars == <<thread, stopping, queue, lost, used>>
mainVars   == <<pc, fetch, failure, cap>>
vars       == <<head, clientVars, mainVars>>

NoFetch == [symbol |-> "none", attempts |-> 0]

\* An L2Writer before finalize().
OpenFile == [phase |-> "open"]

\* SymbolCapture: pending is the id of pending_snapshot or 0, since is
\* depth_since_checkpoint; events, checkpoints and file are its L2Writer.
NewCapture == [sync |-> NewSynchronizer, pending |-> 0, since |-> 0,
               events |-> <<>>, checkpoints |-> <<>>, file |-> OpenFile]

Init == /\ head = [s \in Symbols |-> 1]
        /\ thread = "starting" /\ stopping = FALSE
        /\ queue = <<>>
        /\ lost = [drops |-> 0, malformed |-> 0]
        /\ used = [connections |-> 0, trades |-> 0]
        /\ pc = "running" /\ fetch = NoFetch /\ failure = FALSE
        /\ cap = [s \in Symbols |-> NewCapture]

-----------------------------------------------------------------------------
(* CombinedStreamClient: its run() loop and WebSocket callbacks *)

Connected    == [kind |-> "connected"]
Disconnected == [kind |-> "disconnected"]
DepthMessage(s, e) == [kind |-> "depth", symbol |-> s, update |-> e]
TradeMessage(s)    == [kind |-> "trade", symbol |-> s]

\* Mutant: the queue is unbounded.
EmitUnbounded(message) == queue' = Append(queue, message) /\ UNCHANGED lost

\* _emit(): never blocks; a message the full queue refuses is counted.
Emit(message) ==
    IF Len(queue) < QueueCapacity
    THEN queue' = Append(queue, message) /\ UNCHANGED lost
    ELSE lost' = [lost EXCEPT !.drops = @ + 1] /\ UNCHANGED queue

\* run() begins; without the websocket package it returns at once.
ThreadStarts ==
    /\ thread = "starting"
    /\ thread' \in {"connecting", "dead"}
    /\ used' = [used EXCEPT !.connections =
                    IF thread' = "dead" THEN @ ELSE @ + 1]
    /\ UNCHANGED <<head, stopping, queue, lost, mainVars>>

\* on_open().  A stop requested before the socket exists does not prevent it.
Opens ==
    /\ thread = "connecting"
    /\ thread' = "open"
    /\ Emit(Connected)
    /\ UNCHANGED <<head, stopping, used, mainVars>>

\* on_close() of an open connection, or of an attempt that failed: the
\* websocket library may or may not report the latter.
Closes ==
    /\ \/ thread = "open" /\ Emit(Disconnected)
       \/ thread = "connecting" /\ Emit(Disconnected)
       \/ thread = "connecting" /\ UNCHANGED <<queue, lost>>
    /\ thread' = "backoff"
    /\ UNCHANGED <<head, stopping, used, mainVars>>

\* After the backoff delay the loop connects again unless asked to stop.
Reconnects ==
    /\ thread = "backoff" /\ ~ stopping
    /\ used.connections < MaxConnections
    /\ used' = [used EXCEPT !.connections = @ + 1]
    /\ thread' = "connecting"
    /\ UNCHANGED <<head, stopping, queue, lost, mainVars>>

ThreadEnds ==
    /\ thread = "backoff" /\ stopping
    /\ thread' = "dead"
    /\ UNCHANGED <<head, stopping, queue, lost, used, mainVars>>

\* The exchange publishes the next ids of a symbol as one depth event; it
\* reaches on_message() only over an open connection.
Publishes(s) ==
    \E final \in head[s] + 1 .. MaxId :
        /\ head' = [head EXCEPT ![s] = final]
        /\ IF thread = "open"
           THEN Emit(DepthMessage(s, Update(head[s] + 1, final)))
           ELSE UNCHANGED <<queue, lost>>
        /\ UNCHANGED <<thread, stopping, used, mainVars>>

\* on_message() when parse_stream_message() raises.
Malformed(s) ==
    \E final \in head[s] + 1 .. MaxId :
        /\ thread = "open" /\ lost.malformed < MaxMalformed
        /\ head' = [head EXCEPT ![s] = final]
        /\ lost' = [lost EXCEPT !.malformed = @ + 1]
        /\ UNCHANGED <<thread, stopping, queue, used, mainVars>>

Trades(s) ==
    /\ thread = "open" /\ used.trades < MaxTrades
    /\ used' = [used EXCEPT !.trades = @ + 1]
    /\ Emit(TradeMessage(s))
    /\ UNCHANGED <<head, thread, stopping, mainVars>>

-----------------------------------------------------------------------------
(* SymbolCapture: operators from a capture record to a capture record *)

Write(c, event) == [c EXCEPT !.events = Append(@, event)]

\* L2Writer.write_checkpoint() of the book as it is now.
WriteCheckpoint(c) ==
    [c EXCEPT !.checkpoints = Append(@, Checkpoint(Len(c.events), c.sync.book))]

\* Mutant: the retained snapshot survives the boundary.
OnConnectionKeepsPending(c, connected) ==
    [Write(c, Boundary(IF connected THEN "connection_start"
                                    ELSE "connection_end"))
        EXCEPT !.sync = Reset(@, FALSE)]

\* connection_boundary()
OnConnection(c, connected) ==
    [Write(c, Boundary(IF connected THEN "connection_start"
                                    ELSE "connection_end"))
        EXCEPT !.sync = Reset(@, FALSE), !.pending = 0]

\* Mutant: the checkpoint is written before its event.
RecordAfterCheckpoint(c, e) ==
    IF c.since + 1 >= CheckpointInterval
    THEN Write([WriteCheckpoint(c) EXCEPT !.since = 0], Depth(e))
    ELSE [Write(c, Depth(e)) EXCEPT !.since = @ + 1]

\* Mutant: the event at which a checkpoint is due is not written.
RecordCheckpointInstead(c, e) ==
    IF c.since + 1 >= CheckpointInterval
    THEN [WriteCheckpoint(c) EXCEPT !.since = 0]
    ELSE [Write(c, Depth(e)) EXCEPT !.since = @ + 1]

\* _record_applied()
RecordApplied(c, e) ==
    LET w == [Write(c, Depth(e)) EXCEPT !.since = @ + 1]
    IN IF w.since >= CheckpointInterval
       THEN [WriteCheckpoint(w) EXCEPT !.since = 0]
       ELSE w

\* _record_applied() of each event a snapshot has bridged.
RecordAll(c, applied) ==
    LET after[i \in 0 .. Len(applied)] ==
            IF i = 0 THEN c ELSE RecordApplied(after[i - 1], applied[i])
    IN after[Len(applied)]

\* The common end of a sequence gap.
AfterGap(c) == [Write(c, Boundary("sequence_gap"))
                   EXCEPT !.sync = Reset(@, TRUE), !.pending = 0]

\* _install_snapshot(): the capture and what synchronize() does next.
Installed(c, id) ==
    LET out == InstallSnapshot(c.sync, id)
        d == [c EXCEPT !.sync = out.sync]
        then(capture, next) == [cap |-> capture, next |-> next]
    IN CASE out.result = "raised" -> then(d, "raise")
         [] out.result = "snapshot_too_old" ->
              then([Write(d, Boundary("snapshot_retry")) EXCEPT !.pending = 0],
                   "fetch")
         [] out.result = "gap_detected" -> then(AfterGap(d), "fetch")
         [] out.result = "awaiting_bridge" ->
              then([d EXCEPT !.pending = id], "return")
         [] out.result = "synchronized" ->
              then(RecordAll([Write(d, Snapshot(id)) EXCEPT !.pending = 0],
                             out.applied),
                   "return")

\* synchronize() up to its first REST request.
Synchronize(c) ==
    IF c.sync.buffer = <<>> THEN [cap |-> c, next |-> "return"]
    ELSE IF c.pending # 0 THEN Installed(c, c.pending)
    ELSE [cap |-> c, next |-> "fetch"]

\* on_depth() up to its first REST request.
OnDepth(c, e) ==
    LET out == Ingest(c.sync, e)
        d == [c EXCEPT !.sync = out.sync]
    IN CASE out.result = "applied" ->
              [cap |-> RecordApplied(d, e), next |-> "return"]
         [] out.result = "gap_detected" -> Synchronize(AfterGap(d))
         [] out.result = "buffered" -> Synchronize(d)
         [] out.result = "ignored_stale" -> [cap |-> d, next |-> "return"]
         [] out.result = "raised" -> [cap |-> d, next |-> "raise"]

\* on_trade()
OnTrade(c) == IF c.sync.state = "live" THEN Write(c, TradeEvent) ELSE c

-----------------------------------------------------------------------------
(* capture(): the loop of the main thread *)

\* The handler returns to the loop, waits for a snapshot, or raises into the
\* except clause, after which the finally clause asks the client to stop.
Continue(s, next, attempts) ==
    /\ pc' = CASE next = "return" -> "running"
               [] next = "fetch"  -> "fetching"
               [] next = "raise"  -> "joining"
    /\ fetch' = IF next = "fetch" THEN [symbol |-> s, attempts |-> attempts]
                                  ELSE NoFetch
    /\ failure' = (next = "raise")
    /\ stopping' = (next = "raise")

TakesMessage == /\ pc = "running" /\ queue # <<>>
                /\ queue' = Tail(queue)

HandlesBoundary ==
    /\ TakesMessage
    /\ Head(queue).kind \in {"connected", "disconnected"}
    /\ cap' = [s \in Symbols |->
                  OnConnection(cap[s], Head(queue).kind = "connected")]
    /\ UNCHANGED <<head, thread, stopping, lost, used, pc, fetch, failure>>

HandlesDepth(s) ==
    /\ TakesMessage
    /\ Head(queue).kind = "depth" /\ Head(queue).symbol = s
    /\ LET out == OnDepth(cap[s], Head(queue).update)
       IN /\ cap' = [cap EXCEPT ![s] = out.cap]
          /\ Continue(s, out.next, 0)
    /\ UNCHANGED <<head, thread, lost, used>>

HandlesTrade(s) ==
    /\ TakesMessage
    /\ Head(queue).kind = "trade" /\ Head(queue).symbol = s
    /\ cap' = [cap EXCEPT ![s] = OnTrade(@)]
    /\ UNCHANGED <<head, thread, stopping, lost, used, pc, fetch, failure>>

\* fetch_snapshot() answers with any state the exchange has been in: replicas
\* lag.  After the last attempt synchronize() gives up.
SnapshotArrives(s) ==
    /\ pc = "fetching" /\ fetch.symbol = s
    /\ \E id \in 1 .. head[s] :
         LET out == Installed(cap[s], id)
             attempts == fetch.attempts + 1
         IN /\ cap' = [cap EXCEPT ![s] = out.cap]
            /\ Continue(s, IF out.next = "fetch" /\ attempts = AttemptLimit
                           THEN "raise" ELSE out.next, attempts)
    /\ UNCHANGED <<head, thread, queue, lost, used>>

\* fetch_snapshot() raises: HTTP error, timeout, invalid answer.
SnapshotFails ==
    /\ pc = "fetching"
    /\ Continue("none", "raise", 0)
    /\ UNCHANGED <<head, thread, queue, lost, used, cap>>

\* not client.is_alive()
NoticesDeadThread ==
    /\ pc = "running" /\ thread = "dead"
    /\ Continue("none", "raise", 0)
    /\ UNCHANGED <<head, thread, queue, lost, used, cap>>

AsksToStop == /\ pc' = "joining" /\ stopping' = TRUE /\ fetch' = NoFetch
              /\ UNCHANGED <<head, thread, lost, used, failure>>

\* The loop finds its duration over.
DurationOver == pc = "running" /\ AsksToStop /\ UNCHANGED <<queue, cap>>

\* KeyboardInterrupt, which may also end the wait for a snapshot.  It is a
\* graceful stop, not a failure.
Interrupted ==
    pc \in {"running", "fetching"} /\ AsksToStop /\ UNCHANGED <<queue, cap>>

\* KeyboardInterrupt between ingest() and _record_applied().
InterruptedInside(s) ==
    /\ InterruptsInside
    /\ TakesMessage
    /\ Head(queue).kind = "depth" /\ Head(queue).symbol = s
    /\ LET out == Ingest(cap[s].sync, Head(queue).update)
       IN /\ out.result = "applied"
          /\ cap' = [cap EXCEPT ![s].sync = out.sync]
    /\ AsksToStop

-----------------------------------------------------------------------------
(* capture(): shutdown and finalization *)

\* Mutant: the thread's survival of the deadline is no failure.
JoinsForgivingly ==
    /\ pc = "joining"
    /\ pc' = "finalizing"
    /\ UNCHANGED <<head, clientVars, fetch, failure, cap>>

\* Mutant: join() without a timeout.
JoinsForever ==
    /\ pc = "joining" /\ thread = "dead"
    /\ pc' = "finalizing"
    /\ UNCHANGED <<head, clientVars, fetch, failure, cap>>

\* join(timeout=15.0) returns with the thread ended, or gives it up.
Joins ==
    /\ pc = "joining"
    /\ pc' = "finalizing"
    /\ failure' = (failure \/ thread # "dead")
    /\ UNCHANGED <<head, clientVars, fetch, cap>>

\* clean_shutdown: Joins has made an unfinished thread a failure.
CleanShutdown == ~ failure

\* The last writes: what was lost, why the recording ends, the final state.
FinalWrites(c) ==
    LET overflow == IF lost.drops > 0
                    THEN Write(c, Boundary("queue_overflow")) ELSE c
        ended == Write(overflow, Boundary("user_stop"))
    IN IF c.sync.book.last > 0 THEN WriteCheckpoint(ended) ELSE ended

Marks(s) ==
    /\ pc = "finalizing" /\ cap[s].file = OpenFile
    /\ \A t \in Symbols : cap[t].file.phase # "marked"
    /\ cap' = [cap EXCEPT ![s] = [FinalWrites(@) EXCEPT !.file.phase = "marked"]]
    /\ UNCHANGED <<head, clientVars, pc, fetch, failure>>

Recorded(c, kind) == \E i \in DOMAIN c.events : c.events[i].kind = kind

\* data_complete of L2Writer.finalize()
DataComplete(c) ==
    /\ CleanShutdown
    /\ lost.drops = 0 /\ lost.malformed = 0
    /\ Recorded(c, "snapshot") /\ Recorded(c, "depth")
    /\ c.checkpoints # <<>>
    /\ c.sync.book.last > 0

\* What finalize() requires of a complete recording before it publishes.
EndsWithCheckpoint(c) ==
    c.checkpoints[Len(c.checkpoints)] = Checkpoint(Len(c.events), c.sync.book)

Sidecar(c) == [phase |-> "published", complete |-> DataComplete(c),
               drops |-> lost.drops, book |-> c.sync.book]

\* finalize() publishes the sidecar; it raises on its own check or on an I/O
\* error, and the recording is aborted.
Finalizes(s) ==
    /\ pc = "finalizing" /\ cap[s].file.phase = "marked"
    /\ cap' = [cap EXCEPT ![s].file =
                  IF DataComplete(cap[s]) => EndsWithCheckpoint(cap[s])
                  THEN Sidecar(cap[s]) ELSE [phase |-> "rejected"]]
    /\ UNCHANGED <<head, clientVars, pc, fetch, failure>>

FinalizeFails(s) ==
    /\ pc = "finalizing" /\ cap[s].file.phase = "marked"
    /\ cap' = [cap EXCEPT ![s].file = [phase |-> "aborted"]]
    /\ UNCHANGED <<head, clientVars, pc, fetch, failure>>

\* capture() returns its paths or raises.
Returns ==
    /\ pc = "finalizing"
    /\ \A s \in Symbols : cap[s].file.phase \notin {"open", "marked"}
    /\ pc' = "done"
    /\ UNCHANGED <<head, clientVars, fetch, failure, cap>>

-----------------------------------------------------------------------------

ClientNext == \/ ThreadStarts \/ Opens \/ Closes \/ Reconnects \/ ThreadEnds
              \/ \E s \in Symbols : Publishes(s) \/ Malformed(s) \/ Trades(s)

MainNext == \/ HandlesBoundary
            \/ \E s \in Symbols : HandlesDepth(s) \/ HandlesTrade(s)
                                  \/ SnapshotArrives(s) \/ InterruptedInside(s)
            \/ SnapshotFails \/ NoticesDeadThread
            \/ DurationOver \/ Interrupted \/ Joins
            \/ \E s \in Symbols : Marks(s) \/ Finalizes(s) \/ FinalizeFails(s)
            \/ Returns

Next == ClientNext \/ MainNext

Spec == Init /\ [][Next]_vars

\* The main thread is scheduled and a REST request ends (it has a timeout);
\* the loop tests the deadline before every message, so it cannot forever
\* reach that test and never stop.  Nothing is asked of the exchange, of the
\* user, or of the client thread, whose join is bounded.
RequestEnds == SnapshotFails \/ \E s \in Symbols : SnapshotArrives(s)

Shutdown == \/ Joins \/ Returns
            \/ \E s \in Symbols : Marks(s) \/ Finalizes(s) \/ FinalizeFails(s)

Fairness == /\ WF_vars(RequestEnds) /\ WF_vars(Shutdown)
            /\ SF_vars(DurationOver)

FairSpec == Spec /\ Fairness

-----------------------------------------------------------------------------
(* Correctness *)

Phases == {"open", "marked", "published", "rejected", "aborted"}

\* Every variable holds a value of its kind.
TypeOK ==
    /\ head \in [Symbols -> 1 .. MaxId]
    /\ thread \in {"starting", "connecting", "open", "backoff", "dead"}
    /\ Len(queue) <= QueueCapacity
    /\ lost \in [drops : Nat, malformed : 0 .. MaxMalformed]
    /\ pc \in {"running", "fetching", "joining", "finalizing", "done"}
    /\ fetch.attempts \in 0 .. AttemptLimit
    /\ \A s \in Symbols : /\ cap[s].sync \in Synchronizer
                          /\ cap[s].pending \in 0 .. MaxId
                          /\ cap[s].since \in 0 .. CheckpointInterval - 1
                          /\ cap[s].file.phase \in Phases

\* While a symbol is live, replaying what its writer holds gives exactly the
\* live book: nothing applied is unrecorded, nothing recorded is unapplied.
RecordingIsLiveBook ==
    \A s \in Symbols :
        pc \in {"running", "fetching"} /\ cap[s].sync.state = "live"
            => Replay(cap[s].events) = [book |-> cap[s].sync.book, ok |-> TRUE]

\* A periodic checkpoint holds the book a replay has at its event index, and
\* the indices increase, which write_checkpoint() insists on.
CheckpointsHold ==
    \A s \in Symbols : LET c == cap[s] IN
        c.file = OpenFile =>
            \A i \in DOMAIN c.checkpoints :
                /\ CheckpointHolds(c.events, c.checkpoints[i])
                /\ i > 1 => c.checkpoints[i - 1].index < c.checkpoints[i].index

\* Between two messages nothing is buffered: an event that cannot be applied
\* is bridged, covered by a retained snapshot, or ends the capture.  Hence a
\* snapshot never bridges more than one event, on which CheckpointsHold
\* rests: _record_applied() takes the book after all of them.  And a retained
\* snapshot is still the book the next event is tested against.
LoopSettles ==
    pc = "running" => \A s \in Symbols :
        /\ cap[s].sync.buffer = <<>>
        /\ cap[s].pending # 0 =>
              /\ cap[s].sync.state = "awaiting_snapshot"
              /\ cap[s].sync.book = SnapshotBook(cap[s].pending)

\* A recording published as complete ends with every loss known: nothing is
\* dropped or malformed in the whole capture, whichever symbol came first.
CompleteMeansNothingLost ==
    \A s \in Symbols :
        cap[s].file.phase = "published" /\ cap[s].file.complete
            => lost = [drops |-> 0, malformed |-> 0] /\ thread = "dead"

\* A capture whose duration ends terminates with every recording closed,
\* whatever the exchange, the network and the client thread do.
CaptureEnds == <>(pc = "done")

-----------------------------------------------------------------------------
(* What the documents say of recordings (the finding) *)

\* A complete recording passes verify_l2_replay.
CompleteRecordingVerifies ==
    \A s \in Symbols : LET c == cap[s] IN
        c.file.phase = "published" /\ c.file.complete
            => Verifies(c.events, c.checkpoints, c.file.book)

=============================================================================
