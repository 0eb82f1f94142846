-------------------------- MODULE IngestionEngine --------------------------
(***************************************************************************)
(* IngestionEngine of engine/MarketIngestionEngine.hpp with the producers  *)
(* it runs on its worker thread (BinaryReplay::run and BinanceFeed::run),  *)
(* the Python binding and the loop its Python callers run.                 *)
(*                                                                         *)
(* Every thread that calls the engine holds Python's interpreter lock (the *)
(* GIL) between calls; stop() and consume_batch() release it while they    *)
(* run, start and last_error() keep it.  One owner thread starts, polls    *)
(* and stops; other threads may call anything at any time.                 *)
(*                                                                         *)
(* A record is its number in the session.  The primary queue is used the   *)
(* way SpscRingBuffer implements it: the consumer copies, then releases.   *)
(* The recorder is TopOfBookRecorder.                                      *)
(***************************************************************************)
EXTENDS Integers, Sequences, FiniteSets

CONSTANTS
    Owner, Others, NoThread,
    Capacity,       \* of the primary queue
    BatchSize,      \* of the caller's array
    Files,          \* recordings: a sequence of record qualities each
    MaxSessions, MaxMessages, MaxReconnects, MaxCalls   \* bounds of the instance

Threads == {Owner} \cup Others
Qualities == {"good", "invalid", "disordered"}

ASSUME ThreadAssumption == NoThread \notin Threads /\ Owner \notin Others
ASSUME QueueAssumption == Capacity \in Nat \ {0} /\ BatchSize \in Nat \ {0}
ASSUME FileAssumption == \A f \in Files : f \in Seq(Qualities)
ASSUME BoundAssumption ==
    MaxSessions \in Nat /\ MaxMessages \in Nat /\ MaxReconnects \in Nat /\ MaxCalls \in Nat

VARIABLES
    gil,            \* the thread that holds the interpreter lock
    lifecycle,      \* the thread that holds lifecycle_mutex_
    excluder,       \* the thread with consumer_lifecycle_mutex_ alone
    readers,        \* the threads that share it
    consumerActive, \* consumer_active_
    op, at,         \* per thread: the engine call it is in, and where
    taken,          \* per thread: records copied and not yet released
    result,         \* per thread: how its last call ended
    state, running, lastError,
    worker,         \* where worker_thread_ is; "none" when not joinable
    mode, file,
    position,       \* next record of the file, or of the feed's session
    replayErrors, replayed, dropped, reconnects, feedError,
    socket,         \* of the feed's session: "none", "open" or "shut"
    missed,         \* history: stop() came while connect() had no connection
    queue,
    script,         \* where the owner's Python loop is
    got,            \* history: records delivered in this replay
    asked,          \* history: stop() was called in this session
    sessions, calls \* how often start and other threads' calls happened

locks == <<gil, lifecycle, excluder, readers, consumerActive>>
threads == <<op, at, taken, result>>
life == <<state, running, lastError>>
producer == <<worker, mode, file, position, replayErrors, replayed, dropped,
              reconnects, feedError, socket, missed>>
bounds == <<sessions, calls>>
vars == <<locks, threads, life, producer, queue, script, got, asked, bounds>>

Init == /\ gil = NoThread /\ lifecycle = NoThread /\ excluder = NoThread
        /\ readers = {} /\ consumerActive = FALSE
        /\ op = [t \in Threads |-> "none"] /\ at = [t \in Threads |-> "python"]
        /\ taken = [t \in Threads |-> << >>]
        /\ result = [t \in Threads |-> "none"]
        /\ state = "stopped" /\ running = FALSE /\ lastError = FALSE
        /\ worker = "none" /\ mode = "replay" /\ file = << >> /\ position = 1
        /\ replayErrors = 0 /\ replayed = 0 /\ dropped = 0 /\ reconnects = 0
        /\ feedError = FALSE /\ socket = "none" /\ missed = FALSE
        /\ queue = << >> /\ got = << >> /\ asked = FALSE
        /\ script = "idle"
        /\ sessions = 0 /\ calls = 0
-----------------------------------------------------------------------------
(***************************************************************************)
(* The binding.  A call begins with the GIL; when it keeps the GIL nobody  *)
(* else runs Python until it returns.                                      *)
(***************************************************************************)
Starts == {"start_live", "start_replay"}
KeepsGil(o) == o \in Starts \cup {"last_error"}

Enter(t, o) ==
    /\ gil = NoThread /\ op[t] = "none"
    /\ gil' = IF KeepsGil(o) THEN t ELSE gil
    /\ op' = [op EXCEPT ![t] = o]
    /\ at' = [at EXCEPT ![t] = IF o = "consume_batch" THEN "share" ELSE "lock"]
    /\ result' = [result EXCEPT ![t] = "none"]
    /\ taken' = [taken EXCEPT ![t] = << >>]
    /\ UNCHANGED <<lifecycle, excluder, readers, consumerActive>>

Go(t, place) == at' = [at EXCEPT ![t] = place]
End(t, outcome) == /\ at' = [at EXCEPT ![t] = "return"]
                   /\ result' = [result EXCEPT ![t] = outcome]

\* gil_scoped_release takes the GIL back before Python goes on.
Return(t) ==
    /\ at[t] = "return" /\ gil \in {t, NoThread}
    /\ gil' = NoThread
    /\ op' = [op EXCEPT ![t] = "none"] /\ at' = [at EXCEPT ![t] = "python"]
    /\ UNCHANGED <<lifecycle, excluder, readers, consumerActive, taken, result,
                   life, producer, queue, script, got, asked, bounds>>

LockLifecycle(t) ==
    /\ at[t] = "lock" /\ lifecycle = NoThread
    /\ lifecycle' = t
    /\ Go(t, CASE op[t] \in Starts -> "exclude"
               [] op[t] = "stop" -> "request"
               [] op[t] = "last_error" -> "read")
    /\ UNCHANGED <<gil, excluder, readers, consumerActive, op, taken, result,
                   life, producer, queue, script, got, asked, bounds>>
-----------------------------------------------------------------------------
(***************************************************************************)
(* start_live(), start_replay() and prepare_start_locked()                 *)
(***************************************************************************)
\* The unique lock waits until no consumer is inside.
ExcludeConsumers(t) ==
    /\ at[t] = "exclude" /\ readers = {}
    /\ excluder' = t /\ Go(t, "prepare")
    /\ UNCHANGED <<gil, lifecycle, readers, consumerActive, op, taken, result,
                   life, producer, queue, script, got, asked, bounds>>

AlreadyRunning(t) ==
    /\ at[t] = "prepare" /\ running
    /\ excluder' = NoThread /\ lifecycle' = NoThread
    /\ End(t, "raised")
    /\ UNCHANGED <<gil, readers, consumerActive, op, taken, life, producer, queue,
                   script, got, asked, bounds>>

Joinable == worker \in {"none", "ended"}

\* join(), then everything of the previous session is reset.
Prepare(t) ==
    /\ at[t] = "prepare" /\ ~running /\ Joinable
    /\ worker' = "none" /\ queue' = << >> /\ consumerActive' = FALSE
    /\ replayErrors' = 0 /\ replayed' = 0 /\ dropped' = 0 /\ reconnects' = 0
    /\ feedError' = FALSE /\ lastError' = FALSE /\ missed' = FALSE
    /\ running' = TRUE
    /\ excluder' = NoThread /\ Go(t, "launch")
    /\ mode' = IF op[t] = "start_live" THEN "live" ELSE "replay"
    /\ \E f \in Files : file' = IF op[t] = "start_live" THEN << >> ELSE f
    /\ position' = 1 /\ got' = << >> /\ asked' = FALSE
    /\ UNCHANGED <<gil, lifecycle, readers, op, taken, result, state, socket,
                   script, bounds>>

Launch(t) ==
    /\ at[t] = "launch"
    /\ state' = IF op[t] = "start_live" THEN "live" ELSE "replaying"
    /\ worker' = IF op[t] = "start_live" THEN "check" ELSE "open"
    /\ lifecycle' = NoThread /\ End(t, "ok")
    /\ UNCHANGED <<gil, excluder, readers, consumerActive, op, taken, running,
                   lastError, mode, file, position, replayErrors, replayed,
                   dropped, reconnects, feedError, socket, missed, queue, script, got,
                   asked, bounds>>

\* BinaryRecorder::start() throws: the start is rolled back.
LaunchFails(t) ==
    /\ at[t] = "launch" /\ op[t] = "start_live"
    /\ running' = FALSE /\ state' = "failed"
    /\ lifecycle' = NoThread /\ End(t, "raised")
    /\ UNCHANGED <<gil, excluder, readers, consumerActive, op, taken, lastError,
                   producer, queue, script, got, asked, bounds>>

StartNext(t) == \/ ExcludeConsumers(t) \/ AlreadyRunning(t)
                \/ Prepare(t) \/ Launch(t) \/ LaunchFails(t)
-----------------------------------------------------------------------------
(***************************************************************************)
(* stop() and last_error()                                                 *)
(***************************************************************************)
\* Mutant: the state is not announced before running_ is cleared.
RequestSilently(t) ==
    /\ at[t] = "request"
    /\ asked' = TRUE /\ Go(t, "clear")
    /\ UNCHANGED <<locks, op, taken, result, life, producer, queue, script, got, bounds>>

Request(t) ==
    /\ at[t] = "request"
    /\ state' = IF state = "stopped" THEN state ELSE "stopping"
    /\ asked' = TRUE /\ Go(t, "clear")
    /\ UNCHANGED <<locks, op, taken, result, running, lastError, producer, queue,
                   script, got, bounds>>

Clear(t) ==
    /\ at[t] = "clear" /\ running' = FALSE /\ Go(t, "cancel")
    /\ UNCHANGED <<locks, op, taken, result, state, lastError, producer, queue,
                   script, got, asked, bounds>>

\* request_stop() of the feed closes the socket if there is an open one.
\* Mutant: the registered socket is forgotten.
CancelNothing(t) ==
    /\ at[t] = "cancel" /\ Go(t, "join")
    /\ missed' = (worker = "dial")
    /\ UNCHANGED <<locks, op, taken, result, life, worker, mode, file, position,
                   replayErrors, replayed, dropped, reconnects, feedError, socket,
                   queue, script, got, asked, bounds>>

Cancel(t) ==
    /\ at[t] = "cancel" /\ Go(t, "join")
    /\ socket' = IF socket = "open" THEN "shut" ELSE socket
    /\ missed' = (worker = "dial")
    /\ UNCHANGED <<locks, op, taken, result, life, worker, mode, file, position,
                   replayErrors, replayed, dropped, reconnects, feedError, queue,
                   script, got, asked, bounds>>

\* Mutant: stop() does not wait for the worker.
JoinForgotten(t) ==
    /\ at[t] = "join"
    /\ lastError' = (lastError \/ feedError) /\ feedError' = FALSE
    /\ state' = "stopped"
    /\ lifecycle' = NoThread /\ End(t, "ok")
    /\ UNCHANGED <<gil, excluder, readers, consumerActive, op, taken, running, worker,
                   mode, file, position, replayErrors, replayed, dropped, reconnects,
                   socket, missed, queue, script, got, asked, bounds>>

\* join(); the feed's last error is kept.
Join(t) ==
    /\ at[t] = "join" /\ Joinable
    /\ worker' = "none"
    /\ lastError' = (lastError \/ feedError) /\ feedError' = FALSE
    /\ state' = "stopped"
    /\ lifecycle' = NoThread /\ End(t, "ok")
    /\ UNCHANGED <<gil, excluder, readers, consumerActive, op, taken, running, mode,
                   file, position, replayErrors, replayed, dropped, reconnects,
                   socket, missed, queue, script, got, asked, bounds>>

LastError(t) ==
    /\ at[t] = "read"
    /\ lifecycle' = NoThread
    /\ End(t, IF lastError \/ feedError THEN "error" ELSE "clean")
    /\ UNCHANGED <<gil, excluder, readers, consumerActive, op, taken, life, producer,
                   queue, script, got, asked, bounds>>

StopNext(t) == Request(t) \/ Clear(t) \/ Cancel(t) \/ Join(t) \/ LastError(t)
-----------------------------------------------------------------------------
(***************************************************************************)
(* consume_batch()                                                         *)
(***************************************************************************)
Share(t) ==
    /\ at[t] = "share" /\ excluder = NoThread
    /\ readers' = readers \cup {t} /\ Go(t, "claim")
    /\ UNCHANGED <<gil, lifecycle, excluder, consumerActive, op, taken, result,
                   life, producer, queue, script, got, asked, bounds>>

\* Mutant: overlapping consumers are let in.
NeverBusy == FALSE
Busy == consumerActive

Reject(t) ==
    /\ at[t] = "claim" /\ Busy
    /\ readers' = readers \ {t} /\ End(t, "raised")
    /\ UNCHANGED <<gil, lifecycle, excluder, consumerActive, op, taken, life, producer,
                   queue, script, got, asked, bounds>>

Claim(t) ==
    /\ at[t] = "claim" /\ ~Busy
    /\ consumerActive' = TRUE /\ Go(t, "copy")
    /\ UNCHANGED <<gil, lifecycle, excluder, readers, op, taken, result, life,
                   producer, queue, script, got, asked, bounds>>

Lesser(a, b) == IF a <= b THEN a ELSE b

Copy(t) ==
    /\ at[t] = "copy"
    /\ taken' = [taken EXCEPT ![t] = SubSeq(queue, 1, Lesser(BatchSize, Len(queue)))]
    /\ Go(t, "release")
    /\ UNCHANGED <<locks, op, result, life, producer, queue, script, got, asked, bounds>>

\* The head moves over what was copied; then guard and lock are left.
Release(t) ==
    /\ at[t] = "release"
    /\ queue' = SubSeq(queue, Len(taken[t]) + 1, Len(queue))
    /\ got' = IF mode = "replay" THEN got \o taken[t] ELSE got
    /\ consumerActive' = FALSE /\ readers' = readers \ {t}
    /\ End(t, IF taken[t] = << >> THEN "empty" ELSE "batch")
    /\ UNCHANGED <<gil, lifecycle, excluder, op, taken, life, producer, script,
                   asked, bounds>>

ConsumeNext(t) == Share(t) \/ Reject(t) \/ Claim(t) \/ Copy(t) \/ Release(t)
-----------------------------------------------------------------------------
(***************************************************************************)
(* The worker in replay: BinaryReplay::run() and run_replay()              *)
(***************************************************************************)
At(place) == worker = place
Unmoved == <<locks, threads, script, got, asked, bounds>>
Moves(place) ==
    /\ worker' = place
    /\ UNCHANGED <<mode, file, position, replayErrors, replayed, dropped,
                   reconnects, feedError, socket, missed, lastError, state, queue>>

\* An exception of the session is counted before run() clears running_.
\* Mutant: it is not counted.
SessionFailsUncounted == /\ worker' = "over"
                         /\ UNCHANGED <<replayErrors, file, mode, dropped, reconnects,
                                        feedError, socket, missed, life, queue>>
SessionFails == /\ worker' = "over"
                /\ replayErrors' = replayErrors + 1
                /\ UNCHANGED <<file, mode, dropped, reconnects, feedError, socket,
                               missed, life, queue>>

\* read_record() for the record at position p.
Reads(p) == IF p > Len(file)
            THEN /\ worker' = "over"
                 /\ UNCHANGED <<replayErrors, file, mode, dropped, reconnects,
                                feedError, socket, missed, life, queue>>
            ELSE IF file[p] = "invalid" THEN SessionFails
            ELSE /\ worker' = "next"
                 /\ UNCHANGED <<replayErrors, file, mode, dropped, reconnects,
                                feedError, socket, missed, life, queue>>

Open == /\ At("open") /\ Reads(1)
        /\ UNCHANGED <<position, replayed>> /\ UNCHANGED Unmoved

\* The outer loop: running_, then the order of timestamps and update ids.
ReplayRecord ==
    /\ At("next") /\ UNCHANGED running
    /\ IF ~running THEN Moves("over")
       ELSE IF file[position] = "disordered"
       THEN SessionFails /\ UNCHANGED <<position, replayed>>
       ELSE Moves("push")
    /\ UNCHANGED Unmoved

Full == Len(queue) >= Capacity

\* Pacing and back-pressure both end when running_ is cleared.
\* Mutant: only the push ends them.
NeverGivesUp == FALSE /\ UNCHANGED vars
GivesUp == /\ At("push") /\ ~running /\ Moves("over")
           /\ UNCHANGED running /\ UNCHANGED Unmoved

\* Mutant: a full queue loses the record.
PushOrDrop ==
    /\ At("push")
    /\ queue' = IF Full THEN queue ELSE Append(queue, position)
    /\ worker' = "count"
    /\ UNCHANGED <<mode, file, position, replayErrors, replayed, dropped,
                   reconnects, feedError, socket, missed, life>>
    /\ UNCHANGED Unmoved

\* The test of running_ that let it come here may be older than a stop.
Push ==
    /\ At("push") /\ ~Full
    /\ queue' = Append(queue, position) /\ worker' = "count"
    /\ UNCHANGED <<mode, file, position, replayErrors, replayed, dropped,
                   reconnects, feedError, socket, missed, life>>
    /\ UNCHANGED Unmoved

Count == /\ At("count") /\ replayed' = replayed + 1 /\ position' = position + 1
         /\ Reads(position + 1)
         /\ UNCHANGED Unmoved

\* run() clears running_ itself, whatever ended the session.
SessionOver == /\ At("over") /\ mode = "replay" /\ running' = FALSE
               /\ Moves("verdict") /\ UNCHANGED Unmoved

ReplayNext == \/ Open \/ ReplayRecord \/ GivesUp \/ Push \/ Count \/ SessionOver
-----------------------------------------------------------------------------
(***************************************************************************)
(* The worker in live mode: BinanceFeed::run().  Only the resolver looks   *)
(* at running_ and has a timer; connect(), the handshakes, read() and      *)
(* close() are synchronous, so they end when the peer answers, when the    *)
(* network fails, or when the socket is shut under them.                   *)
(***************************************************************************)
\* The loop of run(), at its head or in the wait before a reconnect.
FeedLoops == /\ At("check") /\ Moves(IF running THEN "resolve" ELSE "verdict")
             /\ UNCHANGED running /\ UNCHANGED Unmoved

\* resolve_with_timeout(): running_ is tested once more behind its loop.
Resolves == /\ At("resolve") /\ running /\ Moves("dial")
            /\ UNCHANGED running /\ UNCHANGED Unmoved

\* connect() opens a socket for each endpoint it tries, also for one behind an
\* endpoint whose socket was shut.
Dials == /\ At("dial") /\ socket # "open" /\ socket' = "open"
         /\ UNCHANGED <<worker, mode, file, position, replayErrors, replayed, dropped,
                        reconnects, feedError, missed, life, queue>>
         /\ UNCHANGED Unmoved

Connects == /\ At("dial") /\ socket = "open" /\ Moves("handshake")
            /\ UNCHANGED running /\ UNCHANGED Unmoved

\* The TLS and the WebSocket handshake; the loop tests running_ before it reads.
Handshakes == /\ At("handshake") /\ feedError' = FALSE
              /\ worker' = IF running THEN "read" ELSE "close"
              /\ UNCHANGED <<mode, file, position, replayErrors, replayed, dropped,
                             reconnects, socket, missed, life, queue>>
              /\ UNCHANGED Unmoved

\* parse_and_publish() of a valid message.
QueueOrDrop ==
    IF Full THEN dropped' = dropped + 1 /\ UNCHANGED queue
    ELSE queue' = Append(queue, position) /\ UNCHANGED dropped

\* The message being read is published even if a stop came meanwhile; the
\* loop then tests running_.
Publishes ==
    /\ At("read") /\ position <= MaxMessages
    /\ QueueOrDrop
    /\ position' = position + 1
    /\ worker' = IF running THEN "read" ELSE "close"
    /\ UNCHANGED <<mode, file, replayErrors, replayed, reconnects, feedError, socket,
                   missed, life>>
    /\ UNCHANGED Unmoved

\* The closing handshake; its error is ignored.
Closes ==
    /\ At("close") /\ worker' = "check" /\ socket' = "none"
    /\ UNCHANGED <<mode, file, position, replayErrors, replayed, dropped, reconnects,
                   feedError, missed, life, queue>>
    /\ UNCHANGED Unmoved

\* The resolver's timeout, a network error or the socket closed by
\* request_stop(): what was sent meanwhile is lost.
ConnectionFails ==
    /\ At("resolve") \/ At("dial") \/ At("handshake") \/ At("read")
    /\ IF running
       THEN /\ reconnects < MaxReconnects
            /\ feedError' = TRUE /\ reconnects' = reconnects + 1
            /\ position' = position + 1
       ELSE UNCHANGED <<feedError, reconnects, position>>
    /\ worker' = "check" /\ socket' = "none"
    /\ UNCHANGED <<mode, file, replayErrors, replayed, dropped, missed, life, queue>>
    /\ UNCHANGED Unmoved

FeedNext == \/ FeedLoops \/ Resolves \/ Dials \/ Connects \/ Handshakes
            \/ Publishes \/ Closes \/ ConnectionFails
-----------------------------------------------------------------------------
(***************************************************************************)
(* The end of run_replay() and run_live()                                  *)
(***************************************************************************)

Verdict ==
    /\ At("verdict")
    /\ IF replayErrors > 0
       THEN state' = "failed" /\ lastError' = TRUE /\ worker' = "exit"
       ELSE /\ worker' = IF state = "stopping" THEN "exit" ELSE "complete"
            /\ UNCHANGED <<state, lastError>>
    /\ UNCHANGED <<running, mode, file, position, replayErrors, replayed, dropped,
                   reconnects, feedError, socket, missed, queue>>
    /\ UNCHANGED Unmoved

\* The store may come after a stop() that began behind the test.
Complete == /\ At("complete") /\ state' = "completed" /\ worker' = "exit"
            /\ UNCHANGED <<running, lastError, mode, file, position, replayErrors,
                           replayed, dropped, reconnects, feedError, socket, missed,
                           queue>>
            /\ UNCHANGED Unmoved

Exit == /\ At("exit") /\ running' = FALSE /\ Moves("ended") /\ UNCHANGED Unmoved

WorkerNext == ReplayNext \/ FeedNext \/ Verdict \/ Complete \/ Exit
-----------------------------------------------------------------------------
(***************************************************************************)
(* The owner: the loop of cli/verify_top_of_book_replay.py, alpha_monitor, *)
(* analytics and EngineRunner.run() in ui/app.py.                          *)
(***************************************************************************)
Free(t) == op[t] = "none" /\ gil = NoThread
OwnerCalls(o, next) ==
    /\ Enter(Owner, o) /\ script' = next
    /\ UNCHANGED <<life, producer, queue, got, asked>>
OwnerMoves(next) ==
    /\ Free(Owner) /\ script' = next
    /\ UNCHANGED <<locks, threads, life, producer, queue, got, asked, bounds>>

StartsSession ==
    /\ script = "idle" /\ sessions < MaxSessions
    /\ \E o \in Starts : Enter(Owner, o)
    /\ script' = "starting" /\ sessions' = sessions + 1
    /\ UNCHANGED <<life, producer, queue, got, asked, calls>>

Started == /\ script = "starting"
           /\ OwnerMoves(IF result[Owner] = "ok" THEN "polling" ELSE "idle")

Polls == /\ script = "polling" /\ OwnerCalls("consume_batch", "polled")
         /\ UNCHANGED bounds

\* stop_event, Ctrl-C, or a consume_batch() that raised.
Interrupted == /\ script = "polling" \/ (script = "polled" /\ result[Owner] = "raised")
               /\ OwnerMoves("leaving")

\* Nothing was taken: a replay that does not run is over.
PolledNothing ==
    /\ script = "polled" /\ result[Owner] = "empty"
    /\ OwnerMoves(IF mode = "replay" /\ ~running THEN "leaving" ELSE "polling")

\* What a batch does to the feature history is in TopOfBookFeatures.
PolledBatch == /\ script = "polled" /\ result[Owner] = "batch"
               /\ OwnerMoves("polling")

Leaves == /\ script = "leaving" /\ OwnerCalls("stop", "stopping")
          /\ UNCHANGED bounds
AsksError == /\ script = "stopping" /\ OwnerCalls("last_error", "reporting")
             /\ UNCHANGED bounds
Reports == /\ script = "reporting" /\ OwnerMoves("idle")

OwnerNext == \/ StartsSession \/ Started \/ Polls \/ Interrupted \/ PolledNothing
             \/ PolledBatch \/ Leaves \/ AsksError \/ Reports

\* Another thread with the same engine object.
OtherCalls(t) ==
    /\ calls < MaxCalls /\ calls' = calls + 1
    /\ \E o \in Starts \cup {"stop", "consume_batch", "last_error"} : Enter(t, o)
    /\ UNCHANGED <<life, producer, queue, script, got, asked, sessions>>
-----------------------------------------------------------------------------
CallNext(t) == \/ LockLifecycle(t) \/ StartNext(t) \/ StopNext(t)
               \/ ConsumeNext(t) \/ Return(t)

Next == \/ \E t \in Threads : CallNext(t)
        \/ WorkerNext
        \/ OwnerNext
        \/ \E t \in Others : OtherCalls(t)

Spec == Init /\ [][Next]_vars

\* The worker is in a network call that only the peer ends.  connect() itself
\* ends: the kernel gives up on an endpoint that does not answer.
AwaitsPeer == worker \in {"handshake", "read", "close"} /\ socket = "open"

\* Runnable threads run; nothing is assumed of the peer.
FairSpec == /\ Spec
            /\ WF_vars(~AwaitsPeer /\ WorkerNext)
            /\ \A t \in Threads : WF_vars(CallNext(t))
-----------------------------------------------------------------------------
(***************************************************************************)
(* Properties                                                              *)
(***************************************************************************)
\* Every variable has its type and the queue keeps its capacity.
TypeOK ==
    /\ {gil, lifecycle, excluder} \subseteq Threads \cup {NoThread}
    /\ readers \subseteq Threads /\ consumerActive \in BOOLEAN
    /\ \A t \in Threads : Len(taken[t]) <= BatchSize
    /\ state \in {"stopped", "live", "replaying", "stopping", "completed", "failed"}
    /\ running \in BOOLEAN /\ lastError \in BOOLEAN /\ feedError \in BOOLEAN
    /\ worker \in {"none", "open", "next", "push", "count", "over", "check",
                   "resolve", "dial", "handshake", "read", "close", "verdict",
                   "complete", "exit", "ended"}
    /\ socket \in {"none", "open", "shut"} /\ missed \in BOOLEAN
    /\ Len(queue) <= Capacity

\* What a consumer copies stays at the front of the queue until it releases
\* it: no other consumer and no reset comes between, whoever calls what.
CopiesStayValid ==
    \A t \in Threads : at[t] = "release" =>
        /\ Len(taken[t]) <= Len(queue)
        /\ taken[t] = SubSeq(queue, 1, Len(taken[t]))

\* A replay delivers the file: what consumers got and what is queued are its
\* first records, in order, none lost to a full queue, none of them rejected,
\* and as many as replayed_ticks() says.
ReplayIsLossless ==
    mode = "replay" =>
        LET all == got \o queue
        IN  /\ Len(all) - replayed \in {0, 1}
            /\ \A i \in 1 .. Len(all) : all[i] = i /\ file[i] = "good"

\* The engine is honest about its end.  A replay that no longer runs although
\* nobody stopped it has either queued the whole file or counted an error, and
\* once its worker is joined the error has its message; "completed" is only
\* said of a replay that queued its whole file, although stop() may begin at
\* any moment of the worker's last steps; and no worker outlives a stop to
\* publish records or to clear the running_ of a later session.
EndIsHonest ==
    /\ mode = "replay" /\ ~running /\ ~asked /\ replayErrors = 0 =>
          replayed = Len(file)
    /\ replayErrors > 0 /\ Joinable => lastError
    /\ state = "completed" /\ worker \in {"exit", "ended"} =>
          mode = "replay" /\ replayErrors = 0 /\ replayed = Len(file)
    /\ state = "stopped" /\ lifecycle = NoThread => worker = "none" /\ ~running

\* No call hangs: the locks, the GIL, a full queue that nobody drains and the
\* join of the worker never wait for each other, and a silent peer holds no stop
\* whose request found the worker outside connect().  One that came between the
\* resolver's test of running_ and the connection closes nothing; then the call,
\* and all who wait for its lock, wait for as long as the peer stays silent.
Unheard == missed /\ AwaitsPeer
CallsReturn == \A t \in Threads : op[t] # "none" ~> (op[t] = "none" \/ []Unheard)
=============================================================================
