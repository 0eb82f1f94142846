----------------------- MODULE IngestionEngineProofs -----------------------
(***************************************************************************)
(* Proofs about IngestionEngine, for every number of threads, capacity,    *)
(* batch size and set of recordings, and without the bounds of the runs.   *)
(*                                                                         *)
(* The three invariants hold because of who may be where.  A thread's      *)
(* place tells which locks it holds (LocksInv); the worker's place tells   *)
(* what the flags running_ and state_ can still be, whether a stop was     *)
(* asked for (SessionInv), and how far the replay has come (StreamInv).    *)
(* At the end: the calls never wait for each other in a circle.            *)
(***************************************************************************)
EXTENDS IngestionEngine, TLAPS, SequenceTheorems

Calls == Starts \cup {"stop", "consume_batch", "last_error"}

\* Where a thread holds lifecycle_mutex_, shares the consumer lock, and is
\* between the compare-and-exchange on consumer_active_ and its reset.
Holding == {"exclude", "prepare", "launch", "request", "clear", "cancel", "join", "read"}
Inside  == {"claim", "copy", "release"}
Claimed == {"copy", "release"}
Places  == Holding \cup Inside \cup {"python", "lock", "share", "return"}

\* Where the worker is in its session's loop, and where it has left it.
Replaying == {"open", "next", "push", "count", "over"}
Feeding   == {"check", "resolve", "dial", "handshake", "read", "close"}
Leaving   == {"verdict", "complete", "exit", "ended"}

ThreadTypes ==
    /\ gil \in Threads \cup {NoThread} /\ lifecycle \in Threads \cup {NoThread}
    /\ excluder \in Threads \cup {NoThread} /\ readers \in SUBSET Threads
    /\ consumerActive \in BOOLEAN
    /\ op \in [Threads -> Calls \cup {"none"}] /\ at \in [Threads -> Places]
    /\ \A t \in Threads : op[t] = "none" => at[t] = "python"
    /\ \A t \in Threads : at[t] = "lock" => op[t] \in Calls \ {"consume_batch"}
    /\ taken \in [Threads -> Seq(Nat)] /\ \A t \in Threads : Len(taken[t]) <= BatchSize

SessionTypes ==
    /\ state \in {"stopped", "live", "replaying", "stopping", "completed", "failed"}
    /\ running \in BOOLEAN /\ lastError \in BOOLEAN /\ feedError \in BOOLEAN
    /\ asked \in BOOLEAN
    /\ worker \in Replaying \cup Feeding \cup Leaving \cup {"none"}
    /\ mode \in {"live", "replay"} /\ file \in Seq(Qualities)
    /\ position \in Nat \ {0} /\ replayed \in Nat /\ replayErrors \in Nat
    /\ queue \in Seq(Nat) /\ Len(queue) <= Capacity /\ got \in Seq(Nat)

SocketTypes == socket \in {"none", "open", "shut"} /\ missed \in BOOLEAN

Types == ThreadTypes /\ SessionTypes /\ SocketTypes

LocksInv ==
    /\ \A t \in Threads : lifecycle = t <=> at[t] \in Holding
    /\ \A t \in Threads : excluder = t <=> at[t] = "prepare"
    /\ \A t \in Threads : t \in readers <=> at[t] \in Inside
    /\ excluder # NoThread => readers = {}
    /\ \A t, u \in Threads : at[t] \in Claimed /\ at[u] \in Claimed => t = u
    /\ consumerActive <=> \E t \in Threads : at[t] \in Claimed

\* What the thread that holds lifecycle_mutex_ may rely on.
HolderInv ==
    /\ \A t \in Threads : at[t] \in {"clear", "cancel", "join"} => asked
    /\ \A t \in Threads : at[t] \in {"cancel", "join"} => ~running
    /\ \A t \in Threads : at[t] = "launch" =>
          /\ worker = "none" /\ running /\ ~asked
          /\ position = 1 /\ replayed = 0 /\ replayErrors = 0
          /\ mode = IF op[t] = "start_live" THEN "live" ELSE "replay"

SessionInv ==
    /\ worker \in Replaying => mode = "replay"
    /\ worker \in Feeding => mode = "live"
    /\ worker \in Replaying \cup Feeding /\ ~running => asked
    /\ worker \in Leaving => ~running
    /\ asked /\ worker \in Replaying \cup Feeding \cup {"verdict"} => state = "stopping"
    /\ mode = "live" /\ worker = "verdict" => asked
    /\ state = "stopped" => worker = "none"
    /\ state = "stopped" /\ running => \E t \in Threads : at[t] = "launch"
    /\ replayErrors > 0 => worker \in {"over", "none", "verdict", "exit", "ended"}
    /\ replayErrors > 0 /\ worker \in {"exit", "ended", "none"} => lastError
    /\ mode = "replay" /\ (worker = "over" \/ ~running) /\ ~asked /\ replayErrors = 0
          => replayed = Len(file)
    /\ worker = "complete" \/ (state = "completed" /\ worker \in {"exit", "ended"})
          => mode = "replay" /\ replayErrors = 0 /\ replayed = Len(file)

StreamInv ==
    mode = "replay" =>
        /\ position = replayed + 1
        /\ worker = "open" => replayed = 0
        /\ worker \in {"next", "push", "count"} => position <= Len(file)
        /\ worker = "next" => file[position] # "invalid"
        /\ worker \in {"push", "count"} => file[position] = "good"
        /\ Len(got) + Len(queue) = IF worker = "count" THEN position ELSE replayed
        /\ \A i \in 1 .. Len(got \o queue) : (got \o queue)[i] = i /\ file[i] = "good"

\* A feed told to end has a stop waiting for it, and the stop that joins has shut
\* the socket under it, unless it came while connect() had no connection.
StopInv ==
    /\ worker \in Feeding /\ ~running => \E t \in Threads : at[t] \in {"cancel", "join"}
    /\ \A t \in Threads : at[t] = "join" => missed \/ (worker # "dial" /\ ~AwaitsPeer)

IInv == Types /\ LocksInv /\ CopiesStayValid /\ HolderInv /\ SessionInv /\ StreamInv
        /\ StopInv
-----------------------------------------------------------------------------
(* The steps, by what they leave alone *)

\* What the worker, the owner's script and the other threads' calls share.
session == <<life, producer, queue, got, asked>>
Enters == \E t \in Threads, o \in Calls : Enter(t, o)

\* A step of the owner's script, or another thread's call, touches nothing of
\* the session: it enters a call or moves the script.
LEMMA ClientSteps ==
    ASSUME OwnerNext \/ \E t \in Others : OtherCalls(t)
    PROVE  /\ UNCHANGED session
           /\ Enters \/ UNCHANGED <<locks, threads>>
<1> DEFINE Goal == UNCHANGED session /\ (Enters \/ UNCHANGED <<locks, threads>>)
<1> USE DEF Threads, Starts, Calls
<1>1. CASE StartsSession
      BY <1>1 DEF StartsSession, session, Enters
<1>2. CASE Polls \/ Leaves \/ AsksError
      BY <1>2 DEF Polls, Leaves, AsksError, OwnerCalls, session, Enters
<1>3. CASE Started \/ Interrupted \/ PolledNothing \/ PolledBatch \/ Reports
      BY <1>3 DEF Started, Interrupted, PolledNothing, PolledBatch, Reports,
                  OwnerMoves, session
<1>4. CASE \E t \in Others : OtherCalls(t)
      BY <1>4 DEF OtherCalls, session, Enters
<1> QED BY <1>1, <1>2, <1>3, <1>4 DEF OwnerNext

\* The worker takes no lock of a caller and is in nobody's call.
LEMMA WorkerSteps ==
    ASSUME WorkerNext
    PROVE  /\ UNCHANGED <<locks, threads, got, asked>> /\ UNCHANGED <<mode, file>>
           /\ queue' = queue \/ (~Full /\ queue' = Append(queue, position))
<1>1. CASE ReplayNext
      BY <1>1 DEF ReplayNext, Open, ReplayRecord, GivesUp, Push, Count, SessionOver,
                  Reads, SessionFails, Moves, Unmoved, life
<1>2. CASE FeedNext
      BY <1>2 DEF FeedNext, FeedLoops, Resolves, Dials, Connects, Handshakes, Publishes,
                  QueueOrDrop, Closes, ConnectionFails, Moves, Unmoved, life
<1>3. CASE Verdict \/ Complete \/ Exit
      BY <1>3 DEF Verdict, Complete, Exit, Moves, Unmoved, life
<1> QED BY <1>1, <1>2, <1>3 DEF WorkerNext

-----------------------------------------------------------------------------
(* Types *)

LEMMA TypesInit == Init => Types
<1> SUFFICES ASSUME Init PROVE Types
    OBVIOUS
<1>1. file \in Seq(Qualities) /\ queue \in Seq(Nat) /\ got \in Seq(Nat)
      BY DEF Init
<1>2. taken \in [Threads -> Seq(Nat)] /\ \A t \in Threads : Len(taken[t]) <= BatchSize
      BY QueueAssumption DEF Init
<1>3. op \in [Threads -> Calls \cup {"none"}] /\ at \in [Threads -> Places]
      /\ \A t \in Threads : op[t] = "none" /\ at[t] = "python"
      BY DEF Init, Places
<1>4. Len(queue) <= Capacity
      BY QueueAssumption DEF Init
<1>5. /\ gil \in Threads \cup {NoThread} /\ lifecycle \in Threads \cup {NoThread}
      /\ excluder \in Threads \cup {NoThread} /\ readers \in SUBSET Threads
      /\ consumerActive \in BOOLEAN
      BY DEF Init
<1>6. /\ running \in BOOLEAN /\ lastError \in BOOLEAN /\ feedError \in BOOLEAN
      /\ asked \in BOOLEAN
      BY DEF Init
<1>7. /\ state = "stopped" /\ worker = "none" /\ mode = "replay"
      /\ position \in Nat \ {0} /\ replayed \in Nat /\ replayErrors \in Nat
      BY DEF Init
<1>8. SocketTypes
      BY DEF Init, SocketTypes
<1> QED BY <1>1, <1>2, <1>3, <1>4, <1>5, <1>6, <1>7, <1>8
        DEF Types, ThreadTypes, SessionTypes

LEMMA WorkerKeepsTypes ==
    ASSUME SessionTypes, WorkerNext
    PROVE  SessionTypes'
<1> USE DEF Replaying, Feeding, Leaving
<1>1. UNCHANGED <<got, asked, mode, file>>
      BY WorkerSteps
<1>2. queue' \in Seq(Nat) /\ Len(queue') <= Capacity
  <2>1. CASE queue' = queue
        BY <2>1 DEF SessionTypes
  <2>2. CASE ~Full /\ queue' = Append(queue, position)
    <3>1. queue \in Seq(Nat) /\ position \in Nat
          BY DEF SessionTypes
    <3>2. Append(queue, position) \in Seq(Nat)
          /\ Len(Append(queue, position)) = Len(queue) + 1
          BY <3>1
    <3>3. Len(queue) < Capacity
          BY <2>2, <3>1, QueueAssumption DEF Full
    <3> QED BY <2>2, <3>1, <3>2, <3>3, QueueAssumption
  <2> QED BY <2>1, <2>2, WorkerSteps
<1>3. CASE ReplayNext
  <2>1. CASE Open
        BY <1>1, <1>2, <2>1 DEF Open, Reads, SessionFails, SessionTypes, life
  <2>2. CASE Count
        BY <1>1, <1>2, <2>2 DEF Count, Reads, SessionFails, SessionTypes, life
  <2>3. CASE ReplayRecord
    <3>1. CASE ~running
          BY <1>1, <1>2, <2>3, <3>1 DEF ReplayRecord, Moves, SessionTypes
    <3>2. CASE running /\ file[position] = "disordered"
          BY <1>1, <1>2, <2>3, <3>2 DEF ReplayRecord, SessionFails, SessionTypes, life
    <3>3. CASE running /\ file[position] # "disordered"
          BY <1>1, <1>2, <2>3, <3>3 DEF ReplayRecord, Moves, SessionTypes
    <3> QED BY <3>1, <3>2, <3>3 DEF SessionTypes
  <2>4. CASE GivesUp \/ Push \/ SessionOver
        BY <1>1, <1>2, <2>4 DEF GivesUp, Push, SessionOver, Moves, SessionTypes, life
  <2> QED BY <1>3, <2>1, <2>2, <2>3, <2>4 DEF ReplayNext
<1>4. CASE FeedNext
  <2>1. CASE FeedLoops \/ Resolves \/ Dials \/ Connects
        BY <1>1, <1>2, <2>1 DEF FeedLoops, Resolves, Dials, Connects, Moves,
                                SessionTypes, life
  <2>4. CASE Handshakes \/ Closes
        BY <1>1, <1>2, <2>4 DEF Handshakes, Closes, SessionTypes, life
  <2>2. CASE Publishes
        BY <1>1, <1>2, <2>2 DEF Publishes, SessionTypes, life
  <2>3. CASE ConnectionFails
    <3>1. position' \in {position, position + 1} /\ feedError' \in {feedError, TRUE}
          BY <2>3 DEF ConnectionFails
    <3>2. position' \in Nat \ {0}
          BY <3>1 DEF SessionTypes
    <3>3. feedError' \in BOOLEAN
          BY <3>1 DEF SessionTypes
    <3> QED BY <1>1, <1>2, <2>3, <3>2, <3>3 DEF ConnectionFails, SessionTypes, life
  <2> QED BY <1>4, <2>1, <2>2, <2>3, <2>4 DEF FeedNext
<1>5. CASE Verdict \/ Complete \/ Exit
      BY <1>1, <1>2, <1>5 DEF Verdict, Complete, Exit, Moves, SessionTypes, life
<1> QED BY <1>3, <1>4, <1>5 DEF WorkerNext

LEMMA CallKeepsThreadTypes ==
    ASSUME ThreadTypes, SessionTypes, NEW t \in Threads, CallNext(t)
    PROVE  ThreadTypes'
<1> USE DEF Starts, Calls, Places, Holding, Inside
<1>1. CASE LockLifecycle(t)
      BY <1>1 DEF LockLifecycle, Go, ThreadTypes
<1>2. CASE ExcludeConsumers(t) \/ AlreadyRunning(t) \/ Prepare(t)
      BY <1>2 DEF ExcludeConsumers, AlreadyRunning, Prepare, Go, End, ThreadTypes
<1>3. CASE Launch(t) \/ LaunchFails(t) \/ Request(t)
      BY <1>3 DEF Launch, LaunchFails, Request, Go, End, ThreadTypes, locks
<1>4. CASE Clear(t) \/ Cancel(t) \/ Join(t) \/ LastError(t)
      BY <1>4 DEF Clear, Cancel, Join, LastError, Go, End, ThreadTypes, locks
<1>5. CASE Share(t) \/ Reject(t) \/ Claim(t)
      BY <1>5 DEF Share, Reject, Claim, Go, End, ThreadTypes
<1>6. CASE Copy(t)
  <2> DEFINE copied == SubSeq(queue, 1, Lesser(BatchSize, Len(queue)))
  <2>1. copied \in Seq(Nat) /\ Len(copied) <= BatchSize
        BY QueueAssumption DEF SessionTypes, Lesser
  <2>2. taken' = [taken EXCEPT ![t] = copied]
        BY <1>6 DEF Copy
  <2> HIDE DEF copied
  <2>3. /\ taken' \in [Threads -> Seq(Nat)]
        /\ \A u \in Threads : Len(taken'[u]) <= BatchSize
        BY <2>1, <2>2 DEF ThreadTypes
  <2> QED BY <1>6, <2>3 DEF Copy, Go, ThreadTypes, locks
<1>7. CASE Release(t)
      BY <1>7 DEF Release, End, ThreadTypes
<1>8. CASE Return(t)
      BY <1>8 DEF Return, ThreadTypes
<1> QED BY <1>1, <1>2, <1>3, <1>4, <1>5, <1>6, <1>7, <1>8
        DEF CallNext, StartNext, StopNext, ConsumeNext

LEMMA CallKeepsSessionTypes ==
    ASSUME ThreadTypes, SessionTypes, NEW t \in Threads, CallNext(t)
    PROVE  SessionTypes'
<1> USE DEF Replaying, Feeding, Leaving
<1>1. CASE \/ LockLifecycle(t) \/ ExcludeConsumers(t) \/ AlreadyRunning(t)
           \/ LastError(t) \/ Share(t) \/ Reject(t) \/ Claim(t) \/ Copy(t) \/ Return(t)
  <2>1. UNCHANGED session
        BY <1>1 DEF LockLifecycle, ExcludeConsumers, AlreadyRunning, LastError,
                    Share, Reject, Claim, Copy, Return, session
  <2> QED BY <2>1 DEF SessionTypes, session, life, producer
<1>2. CASE Prepare(t)
  <2>1. queue' \in Seq(Nat) /\ Len(queue') <= Capacity /\ got' \in Seq(Nat)
        BY <1>2, QueueAssumption DEF Prepare
  <2>2. file' \in Seq(Qualities) /\ mode' \in {"live", "replay"}
        BY <1>2, FileAssumption DEF Prepare
  <2>3. running' \in BOOLEAN /\ lastError' \in BOOLEAN /\ feedError' \in BOOLEAN
        /\ asked' \in BOOLEAN 
        BY <1>2 DEF Prepare
  <2>4. /\ worker' = "none" /\ state' = state
        /\ position' = 1 /\ replayed' = 0 /\ replayErrors' = 0
        BY <1>2 DEF Prepare
  <2> QED BY <2>1, <2>2, <2>3, <2>4 DEF SessionTypes
<1>3. CASE Launch(t)
  <2>1. state' \in {"live", "replaying"} /\ worker' \in {"check", "open"}
        BY <1>3 DEF Launch
  <2> QED BY <1>3, <2>1 DEF Launch, SessionTypes
<1>4. CASE LaunchFails(t)
      BY <1>4 DEF LaunchFails, SessionTypes, producer
<1>6. CASE Request(t)
  <2>1. state' \in {"stopped", "stopping"}
        BY <1>6 DEF Request
  <2> QED BY <1>6, <2>1 DEF Request, SessionTypes, producer
<1>7. CASE Clear(t)
      BY <1>7 DEF Clear, SessionTypes, producer
<1>9. CASE Cancel(t)
      BY <1>9 DEF Cancel, SessionTypes, life
<1>8. CASE Join(t)
  <2>1. lastError' \in BOOLEAN /\ feedError' \in BOOLEAN
        BY <1>8 DEF Join
  <2> QED BY <1>8, <2>1 DEF Join, SessionTypes
<1>5. CASE Release(t)
  <2>1. taken[t] \in Seq(Nat) /\ queue \in Seq(Nat)
        BY DEF ThreadTypes, SessionTypes
  <2> DEFINE kept == SubSeq(queue, Len(taken[t]) + 1, Len(queue))
  <2>2. kept \in Seq(Nat) /\ Len(kept) <= Len(queue)
        BY <2>1
  <2>3. got' \in Seq(Nat)
        BY <1>5, <2>1 DEF Release, SessionTypes
  <2>4. queue' = kept
        BY <1>5 DEF Release
  <2> HIDE DEF kept
  <2>5. queue' \in Seq(Nat) /\ Len(queue') <= Capacity
        BY <2>1, <2>2, <2>4, QueueAssumption DEF SessionTypes
  <2> QED BY <1>5, <2>3, <2>5 DEF Release, SessionTypes, life, producer
<1> QED BY <1>1, <1>2, <1>3, <1>4, <1>5, <1>6, <1>7, <1>8, <1>9
        DEF CallNext, StartNext, StopNext, ConsumeNext

LEMMA SocketTypesStep ==
    ASSUME SocketTypes, [Next]_vars
    PROVE  SocketTypes'
<1> USE DEF SocketTypes
<1>1. CASE UNCHANGED session
      BY <1>1 DEF session, producer
<1>2. CASE ReplayNext
      BY <1>2 DEF ReplayNext, Open, ReplayRecord, GivesUp, Push, Count, SessionOver,
                  Reads, SessionFails, Moves
<1>3. CASE FeedNext
      BY <1>3 DEF FeedNext, FeedLoops, Resolves, Dials, Connects, Handshakes, Publishes,
                  Closes, ConnectionFails, Moves
<1>4. CASE Verdict \/ Complete \/ Exit
      BY <1>4 DEF Verdict, Complete, Exit, Moves
<1>5. ASSUME NEW t \in Threads, CallNext(t)
      PROVE  SocketTypes'
  <2>1. CASE LockLifecycle(t) \/ StartNext(t) \/ Return(t)
        BY <2>1 DEF LockLifecycle, StartNext, ExcludeConsumers, AlreadyRunning, Prepare,
                    Launch, LaunchFails, Return, producer
  <2>2. CASE StopNext(t)
        BY <2>2 DEF StopNext, Request, Clear, Cancel, Join, LastError, producer
  <2>3. CASE ConsumeNext(t)
        BY <2>3 DEF ConsumeNext, Share, Reject, Claim, Copy, Release, producer
  <2> QED BY <1>5, <2>1, <2>2, <2>3 DEF CallNext
<1>6. [Next]_vars => \/ WorkerNext \/ UNCHANGED session
                     \/ \E t \in Threads : CallNext(t)
      BY ClientSteps DEF Next, vars, session
<1> QED BY <1>1, <1>2, <1>3, <1>4, <1>5, <1>6 DEF WorkerNext

LEMMA TypesStep ==
    ASSUME Types, [Next]_vars
    PROVE  Types'
<1>0. SocketTypes'
      BY SocketTypesStep DEF Types
<1>1. CASE WorkerNext
      BY <1>0, <1>1, WorkerKeepsTypes, WorkerSteps
         DEF ThreadTypes, SessionTypes, Types, locks, threads
<1>2. CASE OwnerNext \/ \E t \in Others : OtherCalls(t)
  <2>1. UNCHANGED session
        BY <1>2, ClientSteps
  <2>2. CASE UNCHANGED <<locks, threads>>
        BY <1>0, <2>1, <2>2 DEF Types, ThreadTypes, SessionTypes, session, life, producer,
                            locks, threads
  <2>3. CASE Enters
    <3>1. PICK t \in Threads, o \in Calls : Enter(t, o)
          BY <2>3 DEF Enters
    <3>2. << >> \in Seq(Nat) /\ Len(<< >>) <= BatchSize
          BY QueueAssumption
    <3>3. ThreadTypes /\ SessionTypes
          BY DEF Types
    <3>4. SessionTypes'
          BY <2>1, <3>3 DEF SessionTypes, session, life, producer
    <3>5. /\ taken' \in [Threads -> Seq(Nat)]
          /\ \A u \in Threads : Len(taken'[u]) <= BatchSize
          BY <3>1, <3>2, <3>3 DEF Enter, ThreadTypes
    <3>6. ThreadTypes'
          BY <3>1, <3>3, <3>5
             DEF Enter, ThreadTypes, Places, Holding, Inside, Calls, Starts, KeepsGil
    <3> QED BY <1>0, <3>4, <3>6 DEF Types, ThreadTypes, SessionTypes
  <2> QED BY <1>2, <2>2, <2>3, ClientSteps
<1>3. CASE UNCHANGED vars
      BY <1>0, <1>3 DEF vars, locks, threads, life, producer, Types, ThreadTypes, SessionTypes
<1> QED BY <1>0, <1>1, <1>2, <1>3, CallKeepsThreadTypes, CallKeepsSessionTypes
        DEF Next, Types, ThreadTypes, SessionTypes

-----------------------------------------------------------------------------
(* Locks *)

\* LocksInv and the copies depend on nothing else.
LEMMA LocksFrame ==
    ASSUME LocksInv, UNCHANGED <<lifecycle, excluder, readers, consumerActive, at>>
    PROVE  LocksInv'
BY DEF LocksInv

LEMMA LocksInit == Init => LocksInv
BY ThreadAssumption DEF Init, LocksInv, Holding, Inside, Claimed

LEMMA CallKeepsLocks ==
    ASSUME Types, LocksInv, NEW t \in Threads, CallNext(t)
    PROVE  LocksInv'
<1>0. t # NoThread /\ at \in [Threads -> Places]
      BY ThreadAssumption DEF Types, ThreadTypes, SessionTypes
<1> USE <1>0 DEF Holding, Inside, Claimed, LocksInv
<1>1. CASE LockLifecycle(t)
  <2>1. op[t] \in Calls \ {"consume_batch"}
        BY <1>1 DEF LockLifecycle, Types, ThreadTypes, SessionTypes
  <2>2. PICK p \in {"exclude", "request", "read"} : at' = [at EXCEPT ![t] = p]
        BY <1>1, <2>1 DEF LockLifecycle, Go, Calls, Starts
  <2> QED BY <1>1, <2>2, ThreadAssumption DEF LockLifecycle
<1>2. CASE ExcludeConsumers(t)
      BY <1>2, ThreadAssumption DEF ExcludeConsumers, Go
<1>3. CASE AlreadyRunning(t)
      BY <1>3, ThreadAssumption DEF AlreadyRunning, End
<1>4. CASE Prepare(t)
      BY <1>4, ThreadAssumption DEF Prepare, Go
<1>5. CASE Launch(t) \/ LaunchFails(t) \/ Join(t) \/ LastError(t)
      BY <1>5, ThreadAssumption DEF Launch, LaunchFails, Join, LastError, End
<1>6. CASE Request(t) \/ Clear(t) \/ Cancel(t)
      BY <1>6 DEF Request, Clear, Cancel, Go, locks
<1>7. CASE Share(t)
      BY <1>7 DEF Share, Go
<1>8. CASE Reject(t)
      BY <1>8 DEF Reject, End
<1>9. CASE Claim(t)
      BY <1>9 DEF Claim, Busy, Go
<1>10. CASE Copy(t)
      BY <1>10 DEF Copy, Go, locks
<1>11. CASE Release(t)
      BY <1>11 DEF Release, End
<1>12. CASE Return(t)
      BY <1>12 DEF Return
<1> QED BY <1>1, <1>2, <1>3, <1>4, <1>5, <1>6, <1>7, <1>8, <1>9, <1>10, <1>11, <1>12
        DEF CallNext, StartNext, StopNext, ConsumeNext

LEMMA LocksStep ==
    ASSUME Types, LocksInv, [Next]_vars
    PROVE  LocksInv'
<1>1. CASE UNCHANGED <<locks, threads>>
      BY <1>1, LocksFrame DEF locks, threads
<1>2. CASE Enters
  <2>1. PICK t \in Threads, o \in Calls : Enter(t, o)
        BY <1>2 DEF Enters
  <2>2. /\ at[t] = "python" /\ at \in [Threads -> Places]
        /\ \E p \in {"share", "lock"} : at' = [at EXCEPT ![t] = p]
        BY <2>1 DEF Enter, Types, ThreadTypes, SessionTypes
  <2> QED BY <2>1, <2>2 DEF Enter, LocksInv, Holding, Inside, Claimed
<1> QED BY <1>1, <1>2, CallKeepsLocks, ClientSteps, WorkerSteps DEF Next, vars

-----------------------------------------------------------------------------
(* Copies *)

\* What is at the front stays there when something is appended.
LEMMA FrontStays ==
    ASSUME NEW q \in Seq(Nat), NEW e \in Nat, NEW front \in Seq(Nat),
           Len(front) <= Len(q), front = SubSeq(q, 1, Len(front))
    PROVE  /\ Len(front) <= Len(Append(q, e))
           /\ front = SubSeq(Append(q, e), 1, Len(front))
OBVIOUS

LEMMA CopiesStep ==
    ASSUME Types, LocksInv, CopiesStayValid, [Next]_vars
    PROVE  CopiesStayValid'
<1> USE DEF CopiesStayValid
<1>1. CASE WorkerNext
  <2>1. UNCHANGED <<at, taken>>
        BY <1>1, WorkerSteps DEF threads
  <2>2. CASE queue' = queue
        BY <2>1, <2>2
  <2>3. CASE queue' = Append(queue, position)
        BY <2>1, <2>3, FrontStays DEF Types, ThreadTypes, SessionTypes
  <2> QED BY <1>1, <2>2, <2>3, WorkerSteps
<1>2. CASE UNCHANGED <<at, taken, queue>>
      BY <1>2
<1>3. ASSUME NEW t \in Threads, CallNext(t)
      PROVE  CopiesStayValid'
  <2>1. at \in [Threads -> Places] /\ taken \in [Threads -> Seq(Nat)] /\ queue \in Seq(Nat)
        BY DEF Types, ThreadTypes, SessionTypes
  <2>2. CASE Prepare(t)
    <3>1. \A u \in Threads : at'[u] # "release"
          BY <2>1, <2>2, ThreadAssumption DEF Prepare, Go, LocksInv, Inside
    <3> QED BY <3>1
  <2>3. CASE Copy(t)
    <3> DEFINE n == Lesser(BatchSize, Len(queue))
    <3>1. n \in 0 .. Len(queue)
          BY <2>1, QueueAssumption DEF Lesser
    <3>2. /\ Len(SubSeq(queue, 1, n)) = n
          /\ taken'[t] = SubSeq(queue, 1, n)
          BY <2>1, <2>3, <3>1 DEF Copy
    <3>3. queue' = queue /\ \A u \in Threads : u # t => at'[u] = at[u] /\ taken'[u] = taken[u]
          BY <2>1, <2>3 DEF Copy, Go
    <3> HIDE DEF n
    <3> QED BY <3>1, <3>2, <3>3
  <2>4. CASE Release(t)
    <3>1. \A u \in Threads : at'[u] # "release"
          BY <2>1, <2>4 DEF Release, End, LocksInv, Claimed
    <3> QED BY <3>1
  <2>5. CASE \/ LockLifecycle(t) \/ ExcludeConsumers(t) \/ AlreadyRunning(t)
             \/ Launch(t) \/ LaunchFails(t) \/ StopNext(t)
             \/ Share(t) \/ Reject(t) \/ Claim(t) \/ Return(t)
    <3>1. UNCHANGED <<queue, taken>>
          BY <2>5 DEF LockLifecycle, ExcludeConsumers, AlreadyRunning, Launch, LaunchFails,
                  StopNext, Request, Clear, Cancel, Join, LastError, Share, Reject, Claim, Return
    <3>2. at'[t] # "release" /\ \A u \in Threads : u # t => at'[u] = at[u]
          BY <2>1, <2>5 DEF LockLifecycle, ExcludeConsumers, AlreadyRunning, Launch, LaunchFails,
                  StopNext, Request, Clear, Cancel, Join, LastError, Share, Reject, Claim, Return,
                  Go, End, Types, ThreadTypes, SessionTypes, Calls, Starts
    <3> QED BY <3>1, <3>2
  <2> QED BY <1>3, <2>2, <2>3, <2>4, <2>5 DEF CallNext, StartNext, ConsumeNext
<1>4. CASE Enters /\ UNCHANGED session
  <2>1. PICK t \in Threads, o \in Calls : Enter(t, o)
        BY <1>4 DEF Enters
  <2>2. /\ at'[t] # "release" /\ queue' = queue
        /\ \A u \in Threads : u # t => at'[u] = at[u] /\ taken'[u] = taken[u]
        BY <1>4, <2>1 DEF Enter, Types, ThreadTypes, SessionTypes, session
  <2> QED BY <2>2
<1>5. [Next]_vars =>
          \/ WorkerNext \/ \E t \in Threads : CallNext(t)
          \/ UNCHANGED <<at, taken, queue>> \/ (Enters /\ UNCHANGED session)
      BY ClientSteps DEF Next, vars, threads, session
<1> QED BY <1>1, <1>2, <1>3, <1>4, <1>5

-----------------------------------------------------------------------------
(* The holder of lifecycle_mutex_ and the session *)

\* Two threads never hold lifecycle_mutex_.
LEMMA OneHolder ==
    ASSUME Types, LocksInv, NEW t \in Threads, NEW u \in Threads,
           at[t] \in Holding, at[u] \in Holding
    PROVE  t = u
BY DEF LocksInv

LEMMA HolderInit == Init => HolderInv
BY DEF Init, HolderInv

\* The worker moves only when it is there, and starts only from "launch".
LEMMA WorkerKeepsHolder ==
    ASSUME Types, HolderInv, WorkerNext
    PROVE  HolderInv'
<1>1. UNCHANGED <<at, op, asked, mode>>
      BY WorkerSteps DEF threads
<1>2. worker # "none" /\ (running' => running)
  <2> USE DEF At, Moves, life, Types, ThreadTypes, SessionTypes
  <2>1. CASE ReplayNext
        BY <2>1 DEF ReplayNext, Open, ReplayRecord, GivesUp, Push, Count, SessionOver,
                    Reads, SessionFails
  <2>2. CASE FeedNext
        BY <2>2 DEF FeedNext, FeedLoops, Resolves, Dials, Connects, Handshakes, Publishes,
                    Closes, ConnectionFails
  <2>3. CASE Verdict \/ Complete \/ Exit
        BY <2>3 DEF Verdict, Complete, Exit
  <2> QED BY <2>1, <2>2, <2>3 DEF WorkerNext
<1>3. \A t \in Threads : at[t] # "launch"
      BY <1>2 DEF HolderInv
<1> QED BY <1>1, <1>2, <1>3 DEF HolderInv

LEMMA CallKeepsHolder ==
    ASSUME Types, LocksInv, HolderInv, NEW t \in Threads, CallNext(t)
    PROVE  HolderInv'
<1>0. at \in [Threads -> Places]
      BY DEF Types, ThreadTypes, SessionTypes
<1> USE <1>0 DEF HolderInv
<1>1. CASE LockLifecycle(t)
  <2>1. op[t] \in Calls \ {"consume_batch"}
        BY <1>1 DEF LockLifecycle, Types, ThreadTypes, SessionTypes
  <2>2. PICK p \in {"exclude", "request", "read"} : at' = [at EXCEPT ![t] = p]
        BY <1>1, <2>1 DEF LockLifecycle, Go, Calls, Starts
  <2> QED BY <1>1, <2>2 DEF LockLifecycle, life, producer
<1>2. CASE ExcludeConsumers(t) \/ AlreadyRunning(t) \/ LastError(t)
      BY <1>2 DEF ExcludeConsumers, AlreadyRunning, LastError, Go, End, life, producer
<1>3. CASE \/ Prepare(t) \/ Launch(t) \/ LaunchFails(t)
           \/ Request(t) \/ Clear(t) \/ Cancel(t) \/ Join(t)
  <2>1. at[t] \in Holding /\ \A u \in Threads : at[u] \in Holding => u = t
        BY <1>3, OneHolder DEF Prepare, Launch, LaunchFails, Request, Clear, Cancel, Join, Holding
  <2>2. \A u \in Threads : u # t => at'[u] \notin Holding
        BY <1>3, <2>1 DEF Prepare, Launch, LaunchFails, Request, Clear, Cancel, Join, Go, End
  <2>3. CASE Prepare(t)
        BY <2>2, <2>3 DEF Prepare, Go, Holding
  <2>4. CASE Launch(t) \/ LaunchFails(t) \/ Join(t)
        BY <2>2, <2>4 DEF Launch, LaunchFails, Join, End, Holding
  <2>5. CASE Request(t)
        BY <2>2, <2>5 DEF Request, Go, Holding
  <2>6. CASE Clear(t)
        BY <2>2, <2>6 DEF Clear, Go, Holding
  <2>7. CASE Cancel(t)
        BY <2>2, <2>7 DEF Cancel, Go, Holding, life
  <2> QED BY <1>3, <2>3, <2>4, <2>5, <2>6, <2>7
<1>4. CASE ConsumeNext(t) \/ Return(t)
  <2>1. UNCHANGED <<life, producer, asked>> /\ (at[t] = "return" \/ op' = op)
        /\ \E p \in {"claim", "copy", "release", "return", "python"} :
              at' = [at EXCEPT ![t] = p]
        BY <1>4 DEF ConsumeNext, Share, Reject, Claim, Copy, Release, Return, Go, End, locks
  <2>2. \A u \in Threads : at'[u] \in Holding => at'[u] = at[u] /\ op'[u] = op[u]
        BY <1>4, <2>1 DEF Holding, Return, ConsumeNext, Share, Reject, Claim, Copy, Release,
                             Types, ThreadTypes, SessionTypes
  <2> QED BY <2>1, <2>2 DEF Holding, life, producer
<1> QED BY <1>1, <1>2, <1>3, <1>4 DEF CallNext, StartNext, StopNext

LEMMA HolderStep ==
    ASSUME Types, LocksInv, HolderInv, [Next]_vars
    PROVE  HolderInv'
<1>1. CASE UNCHANGED <<locks, threads>> /\ UNCHANGED session
      BY <1>1 DEF HolderInv, threads, session, life, producer
<1>2. CASE Enters /\ UNCHANGED session
  <2>1. PICK t \in Threads, o \in Calls : Enter(t, o)
        BY <1>2 DEF Enters
  <2>2. /\ at'[t] \in {"share", "lock"}
        /\ \A u \in Threads : u # t => at'[u] = at[u] /\ op'[u] = op[u]
        BY <2>1 DEF Enter, Types, ThreadTypes, SessionTypes
  <2> QED BY <1>2, <2>2 DEF HolderInv, session, life, producer
<1>3. [Next]_vars => \/ WorkerNext \/ \E t \in Threads : CallNext(t)
                     \/ (UNCHANGED <<locks, threads>> /\ UNCHANGED session)
                     \/ (Enters /\ UNCHANGED session)
      BY ClientSteps DEF Next, vars, session
<1> QED BY <1>1, <1>2, <1>3, CallKeepsHolder, WorkerKeepsHolder

LEMMA SessionInit == Init => SessionInv
BY DEF Init, SessionInv, Replaying, Feeding, Leaving

LEMMA CallKeepsSession ==
    ASSUME Types, LocksInv, HolderInv, SessionInv, NEW t \in Threads, CallNext(t)
    PROVE  SessionInv'
<1>0. at \in [Threads -> Places]
      BY DEF Types, ThreadTypes, SessionTypes
<1> USE DEF Replaying, Feeding, Leaving
<1>1. CASE \/ LockLifecycle(t) \/ ExcludeConsumers(t) \/ AlreadyRunning(t)
           \/ LastError(t) \/ ConsumeNext(t) \/ Return(t)
  <2>1. UNCHANGED <<life, producer, asked>>
        BY <1>1 DEF LockLifecycle, ExcludeConsumers, AlreadyRunning, LastError,
                    ConsumeNext, Share, Reject, Claim, Copy, Release, Return
  <2>2. \A u \in Threads : at[u] = "launch" => at'[u] = "launch"
        BY <1>0, <1>1 DEF LockLifecycle, ExcludeConsumers, AlreadyRunning, LastError,
                    ConsumeNext, Share, Reject, Claim, Copy, Release, Return, Go, End
  <2> QED BY <2>1, <2>2 DEF SessionInv, life, producer
<1>2. CASE Prepare(t)
  <2>1. at'[t] = "launch"
        BY <1>0, <1>2 DEF Prepare, Go
  <2> QED BY <1>2, <2>1 DEF Prepare, SessionInv
<1>3. CASE Launch(t)
  <2>1. /\ worker = "none" /\ running /\ ~asked /\ replayed = 0 /\ replayErrors = 0
        /\ mode = IF op[t] = "start_live" THEN "live" ELSE "replay"
        BY <1>3 DEF Launch, HolderInv
  <2> QED BY <1>3, <2>1 DEF Launch, SessionInv
<1>4. CASE LaunchFails(t)
  <2>1. worker = "none" /\ replayErrors = 0 /\ mode = "live"
        BY <1>4 DEF LaunchFails, HolderInv
  <2> QED BY <1>4, <2>1 DEF LaunchFails, SessionInv, producer
<1>5. CASE Request(t)
  <2>1. \A u \in Threads : at[u] = "launch" => at'[u] = "launch"
        BY <1>0, <1>5 DEF Request, Go
  <2> QED BY <1>5, <2>1 DEF Request, SessionInv, producer
<1>6. CASE Clear(t)
  <2>1. asked
        BY <1>6 DEF Clear, HolderInv
  <2> QED BY <1>6, <2>1 DEF Clear, SessionInv, producer
<1>8. CASE Cancel(t)
  <2>1. \A u \in Threads : at[u] = "launch" => at'[u] = "launch"
        BY <1>0, <1>8 DEF Cancel, Go
  <2> QED BY <1>8, <2>1 DEF Cancel, SessionInv, life
<1>7. CASE Join(t)
  <2>1. asked /\ ~running /\ worker \in {"none", "ended"}
        BY <1>7 DEF Join, HolderInv, Joinable
  <2> QED BY <1>7, <2>1 DEF Join, SessionInv
<1> QED BY <1>1, <1>2, <1>3, <1>4, <1>5, <1>6, <1>7, <1>8
        DEF CallNext, StartNext, StopNext

LEMMA WorkerKeepsSession ==
    ASSUME Types, SessionInv, StreamInv, WorkerNext
    PROVE  SessionInv'
<1>1. UNCHANGED <<at, asked, mode, file>>
      BY WorkerSteps DEF threads
<1>2. SessionTypes
      BY DEF Types
<1> USE <1>1 DEF Replaying, Feeding, Leaving, At, Moves, life, SessionInv
<1>3. CASE Open
  <2>1. mode = "replay" /\ replayed = 0 /\ Len(file) \in Nat
        BY <1>2, <1>3 DEF Open, StreamInv, SessionTypes
  <2> QED BY <1>2, <1>3, <2>1 DEF Open, Reads, SessionFails, SessionTypes
<1>4. CASE Count
  <2>1. mode = "replay" /\ position = replayed + 1 /\ position <= Len(file) /\ Len(file) \in Nat
        BY <1>2, <1>4 DEF Count, StreamInv, SessionTypes
  <2>2. position + 1 > Len(file) => replayed' = Len(file)
        BY <1>2, <1>4, <2>1 DEF Count, SessionTypes
  <2> QED BY <1>2, <1>4, <2>1, <2>2 DEF Count, Reads, SessionFails, SessionTypes
<1>5. CASE ReplayRecord
      BY <1>2, <1>5 DEF ReplayRecord, SessionFails, SessionTypes
<1>6. CASE GivesUp \/ Push
      BY <1>2, <1>6 DEF GivesUp, Push, SessionTypes
<1>7. CASE SessionOver
      BY <1>2, <1>7 DEF SessionOver, SessionTypes
<1>8. CASE FeedLoops \/ Resolves \/ Dials \/ Connects
      BY <1>2, <1>8 DEF FeedLoops, Resolves, Dials, Connects, SessionTypes
<1>9. CASE Handshakes \/ Publishes \/ Closes \/ ConnectionFails
      BY <1>2, <1>9 DEF Handshakes, Publishes, Closes, ConnectionFails, SessionTypes
<1>10. CASE Verdict
      BY <1>2, <1>10 DEF Verdict, SessionTypes
<1>11. CASE Complete \/ Exit
      BY <1>2, <1>11 DEF Complete, Exit, SessionTypes
<1> QED BY <1>3, <1>4, <1>5, <1>6, <1>7, <1>8, <1>9, <1>10, <1>11
        DEF WorkerNext, ReplayNext, FeedNext

LEMMA SessionStep ==
    ASSUME Types, LocksInv, HolderInv, SessionInv, StreamInv, [Next]_vars
    PROVE  SessionInv'
<1>1. CASE UNCHANGED <<locks, threads>> /\ UNCHANGED session
      BY <1>1 DEF SessionInv, threads, session, life, producer
<1>2. CASE Enters /\ UNCHANGED session
  <2>1. PICK t \in Threads, o \in Calls : Enter(t, o)
        BY <1>2 DEF Enters
  <2>2. \A u \in Threads : at[u] = "launch" => at'[u] = "launch"
        BY <2>1 DEF Enter, Types, ThreadTypes, SessionTypes
  <2> QED BY <1>2, <2>2 DEF SessionInv, session, life, producer
<1>3. [Next]_vars => \/ WorkerNext \/ \E t \in Threads : CallNext(t)
                     \/ (UNCHANGED <<locks, threads>> /\ UNCHANGED session)
                     \/ (Enters /\ UNCHANGED session)
      BY ClientSteps DEF Next, vars, session
<1> QED BY <1>1, <1>2, <1>3, CallKeepsSession, WorkerKeepsSession

-----------------------------------------------------------------------------
(* The stop and the feed's socket *)

LEMMA StopInit == Init => StopInv
BY DEF Init, StopInv, Feeding

LEMMA CallKeepsStop ==
    ASSUME Types, LocksInv, HolderInv, StopInv, NEW t \in Threads, CallNext(t)
    PROVE  StopInv'
<1>0. at \in [Threads -> Places]
      BY DEF Types, ThreadTypes
<1> USE <1>0 DEF StopInv, AwaitsPeer
<1>1. CASE \/ LockLifecycle(t) \/ ExcludeConsumers(t) \/ AlreadyRunning(t)
           \/ LastError(t) \/ ConsumeNext(t) \/ Return(t) \/ Request(t)
  <2>1. UNCHANGED <<running, producer>>
        BY <1>1 DEF LockLifecycle, ExcludeConsumers, AlreadyRunning, LastError, Request,
                    ConsumeNext, Share, Reject, Claim, Copy, Release, Return, life
  <2>2. /\ at[t] \notin {"cancel", "join"} /\ at'[t] # "join"
        /\ \A u \in Threads : u # t => at'[u] = at[u]
        BY <1>0, <1>1 DEF LockLifecycle, ExcludeConsumers, AlreadyRunning, LastError, Request,
                    ConsumeNext, Share, Reject, Claim, Copy, Release, Return, Go, End,
                    Types, ThreadTypes, Calls, Starts
  <2> QED BY <2>1, <2>2 DEF producer
<1>2. CASE \/ Prepare(t) \/ Launch(t) \/ LaunchFails(t)
           \/ Clear(t) \/ Cancel(t) \/ Join(t)
  <2>1. at[t] \in Holding /\ \A u \in Threads : at[u] \in Holding => u = t
        BY <1>2, OneHolder DEF Prepare, Launch, LaunchFails, Clear, Cancel, Join, Holding
  <2>2. \A u \in Threads : u # t => at'[u] \notin Holding
        BY <1>2, <2>1 DEF Prepare, Launch, LaunchFails, Clear, Cancel, Join, Go, End
  <2>3. CASE Prepare(t)
        BY <2>2, <2>3 DEF Prepare, Go, Holding
  <2>4. CASE Launch(t) \/ LaunchFails(t)
    <3>1. running /\ worker = "none"
          BY <2>4 DEF Launch, LaunchFails, HolderInv
    <3> QED BY <2>2, <2>4, <3>1 DEF Launch, LaunchFails, producer, End, Holding, Feeding
  <2>5. CASE Clear(t)
        BY <2>2, <2>5 DEF Clear, Go, producer, Holding
  <2>6. CASE Cancel(t)
    <3>1. at'[t] = "join" /\ worker' = worker /\ (missed' <=> worker = "dial")
          /\ socket' # "open"
          BY <2>6 DEF Cancel, Go
    <3> QED BY <2>2, <3>1 DEF Holding
  <2>7. CASE Join(t)
        BY <2>2, <2>7 DEF Join, End, Holding, Feeding
  <2> QED BY <1>2, <2>3, <2>4, <2>5, <2>6, <2>7
<1> QED BY <1>1, <1>2 DEF CallNext, StartNext, StopNext

\* The worker of a stopped feed begins no connection.
LEMMA WorkerKeepsStop ==
    ASSUME Types, HolderInv, SessionInv, StopInv, WorkerNext
    PROVE  StopInv'
<1>1. UNCHANGED at
      BY WorkerSteps DEF threads
<1> USE <1>1 DEF StopInv, AwaitsPeer, Feeding, Replaying, Leaving, At, Moves, life
<1>2. CASE ReplayNext
      BY <1>2 DEF ReplayNext, Open, ReplayRecord, GivesUp, Push, Count, SessionOver,
                  Reads, SessionFails, HolderInv, SessionInv
<1>3. CASE FeedLoops \/ Resolves \/ Connects
      BY <1>3 DEF FeedLoops, Resolves, Connects, HolderInv
<1>4. CASE Dials \/ Handshakes \/ Publishes
      BY <1>4 DEF Dials, Handshakes, Publishes, HolderInv
<1>5. CASE Closes \/ ConnectionFails
      BY <1>5 DEF Closes, ConnectionFails, HolderInv
<1>6. CASE Verdict \/ Complete \/ Exit
      BY <1>6 DEF Verdict, Complete, Exit, HolderInv
<1> QED BY <1>2, <1>3, <1>4, <1>5, <1>6 DEF WorkerNext, FeedNext

LEMMA StopStep ==
    ASSUME Types, LocksInv, HolderInv, SessionInv, StopInv, [Next]_vars
    PROVE  StopInv'
<1>1. CASE UNCHANGED <<locks, threads>> /\ UNCHANGED session
      BY <1>1 DEF StopInv, AwaitsPeer, threads, session, life, producer
<1>2. CASE Enters /\ UNCHANGED session
  <2>1. PICK t \in Threads, o \in Calls : Enter(t, o)
        BY <1>2 DEF Enters
  <2>2. /\ at[t] = "python" /\ at'[t] \in {"share", "lock"}
        /\ \A u \in Threads : u # t => at'[u] = at[u]
        BY <2>1 DEF Enter, Types, ThreadTypes
  <2>3. UNCHANGED <<worker, running, missed, socket>>
        BY <1>2 DEF session, life, producer
  <2> QED BY <2>2, <2>3 DEF StopInv, AwaitsPeer
<1>3. [Next]_vars => \/ WorkerNext \/ \E t \in Threads : CallNext(t)
                     \/ (UNCHANGED <<locks, threads>> /\ UNCHANGED session)
                     \/ (Enters /\ UNCHANGED session)
      BY ClientSteps DEF Next, vars, session
<1> QED BY <1>1, <1>2, <1>3, CallKeepsStop, WorkerKeepsStop

-----------------------------------------------------------------------------
(* The stream *)

\* What was delivered and what is queued, after a push and after a release.
LEMMA AppendBehind ==
    ASSUME NEW g \in Seq(Nat), NEW q \in Seq(Nat), NEW e \in Nat
    PROVE  /\ Len(Append(q, e)) = Len(q) + 1
           /\ g \o Append(q, e) = Append(g \o q, e)
           /\ g \o q \in Seq(Nat) /\ Len(g \o q) = Len(g) + Len(q)
OBVIOUS

LEMMA MoveFront ==
    ASSUME NEW g \in Seq(Nat), NEW q \in Seq(Nat), NEW front \in Seq(Nat),
           Len(front) <= Len(q), front = SubSeq(q, 1, Len(front))
    PROVE  /\ (g \o front) \o SubSeq(q, Len(front) + 1, Len(q)) = g \o q
           /\ Len(g \o front) + Len(SubSeq(q, Len(front) + 1, Len(q))) = Len(g) + Len(q)
<1> DEFINE back == SubSeq(q, Len(front) + 1, Len(q))
<1>1. back \in Seq(Nat) /\ Len(back) = Len(q) - Len(front)
      BY SubSeqProperties
<1>2. \A i \in 1 .. Len(back) : back[i] = q[Len(front) + i]
      BY <1>1, SubSeqProperties
<1>3. \A i \in 1 .. Len(front) : front[i] = q[i]
  <2>1. \A i \in 1 .. Len(front) : SubSeq(q, 1, Len(front))[i] = q[i]
        BY SubSeqProperties
  <2> QED BY <2>1
<1> DEFINE whole == g \o front
<1>4. /\ whole \in Seq(Nat) /\ Len(whole) = Len(g) + Len(front)
      /\ \A i \in 1 .. Len(whole) : whole[i] = IF i <= Len(g) THEN g[i] ELSE front[i - Len(g)]
      BY ConcatProperties
<1> HIDE DEF back, whole
<1>5. /\ whole \o back \in Seq(Nat) /\ Len(whole \o back) = Len(g) + Len(q)
      /\ \A i \in 1 .. Len(g) + Len(q) :
            (whole \o back)[i] = IF i <= Len(whole) THEN whole[i] ELSE back[i - Len(whole)]
  <2>1. /\ whole \o back \in Seq(Nat) /\ Len(whole \o back) = Len(whole) + Len(back)
        /\ \A i \in 1 .. Len(whole) + Len(back) :
              (whole \o back)[i] = IF i <= Len(whole) THEN whole[i] ELSE back[i - Len(whole)]
    <3>1. whole \in Seq(Nat) /\ back \in Seq(Nat)
          BY <1>1, <1>4
    <3> QED BY ONLY <3>1, ConcatProperties
  <2>2. Len(whole) + Len(back) = Len(g) + Len(q)
        BY <1>1, <1>4
  <2> QED BY <2>1, <2>2
<1>6. /\ g \o q \in Seq(Nat) /\ Len(g \o q) = Len(g) + Len(q)
      /\ \A i \in 1 .. Len(g) + Len(q) : (g \o q)[i] = IF i <= Len(g) THEN g[i] ELSE q[i - Len(g)]
      BY ConcatProperties
<1>7. \A i \in 1 .. Len(g) + Len(q) : (whole \o back)[i] = (g \o q)[i]
  <2> SUFFICES ASSUME NEW i \in 1 .. Len(g) + Len(q)
               PROVE  (whole \o back)[i] = (g \o q)[i]
      OBVIOUS
  <2>1. CASE i <= Len(g)
        BY <1>4, <1>5, <1>6, <2>1
  <2>2. CASE i > Len(g) /\ i <= Len(whole)
        BY <1>3, <1>4, <1>5, <1>6, <2>2
  <2>3. CASE i > Len(whole)
    <3>1. i - Len(whole) \in 1 .. Len(back)
          BY <1>1, <1>4, <2>3
    <3>2. back[i - Len(whole)] = q[Len(front) + (i - Len(whole))]
          BY <1>2, <3>1
    <3>3. Len(front) + (i - Len(whole)) = i - Len(g) /\ ~(i <= Len(g)) /\ ~(i <= Len(whole))
          BY <1>4, <2>3
    <3> QED BY <1>5, <1>6, <3>2, <3>3
  <2>4. i \in Nat /\ Len(g) \in Nat /\ Len(whole) \in Nat
        BY <1>4
  <2>5. i <= Len(g) \/ (i > Len(g) /\ i <= Len(whole)) \/ i > Len(whole)
        BY <2>4
  <2> QED BY <2>1, <2>2, <2>3, <2>5
<1>8. whole \o back = g \o q
      BY <1>5, <1>6, <1>7, SeqEqual
<1>9. Len(whole) + Len(back) = Len(g) + Len(q)
      BY <1>1, <1>4
<1> QED BY <1>8, <1>9 DEF back, whole

LEMMA StreamInit == Init => StreamInv
BY DEF Init, StreamInv

LEMMA CallKeepsStream ==
    ASSUME Types, CopiesStayValid, HolderInv, StreamInv, NEW t \in Threads, CallNext(t)
    PROVE  StreamInv'
<1> USE DEF StreamInv
<1>1. CASE \/ LockLifecycle(t) \/ ExcludeConsumers(t) \/ AlreadyRunning(t) \/ LaunchFails(t)
           \/ LastError(t) \/ Request(t) \/ Clear(t)
           \/ Cancel(t) \/ Share(t) \/ Reject(t) \/ Claim(t) \/ Copy(t) \/ Return(t)
  <2>1. UNCHANGED <<worker, mode, file, position, replayed, queue, got>>
        BY <1>1 DEF LockLifecycle, ExcludeConsumers, AlreadyRunning, LaunchFails, LastError,
                    Request, Clear, Cancel, producer, Share, Reject, Claim, Copy, Return
  <2> QED BY <2>1 DEF producer
<1>2. CASE Prepare(t)
      BY <1>2 DEF Prepare
<1>3. CASE Launch(t)
      BY <1>3 DEF Launch, HolderInv
<1>4. CASE Join(t)
      BY <1>4 DEF Join, Joinable
<1>5. CASE Release(t)
  <2> SUFFICES ASSUME mode = "replay" PROVE StreamInv'
      BY <1>5 DEF Release, producer
  <2>1. /\ taken[t] \in Seq(Nat) /\ queue \in Seq(Nat) /\ got \in Seq(Nat)
        /\ Len(taken[t]) <= Len(queue) /\ taken[t] = SubSeq(queue, 1, Len(taken[t]))
        BY <1>5 DEF Release, Types, ThreadTypes, SessionTypes, CopiesStayValid
  <2>2. got' \o queue' = got \o queue /\ Len(got') + Len(queue') = Len(got) + Len(queue)
        BY <1>5, <2>1, MoveFront DEF Release
  <2> QED BY <1>5, <2>2 DEF Release, producer
<1> QED BY <1>1, <1>2, <1>3, <1>4, <1>5 DEF CallNext, StartNext, StopNext, ConsumeNext

LEMMA WorkerKeepsStream ==
    ASSUME Types, SessionInv, StreamInv, WorkerNext
    PROVE  StreamInv'
<1>1. UNCHANGED <<got, mode, file>>
      BY WorkerSteps
<1> SUFFICES ASSUME mode = "replay" PROVE StreamInv'
    BY <1>1 DEF StreamInv
<1>2. /\ file \in Seq(Qualities) /\ position \in Nat \ {0} /\ replayed \in Nat
      /\ queue \in Seq(Nat) /\ got \in Seq(Nat) /\ position = replayed + 1
      BY DEF Types, ThreadTypes, SessionTypes, StreamInv
<1>3. \A i \in 1 .. Len(file) : file[i] \in Qualities
      BY <1>2
<1> USE <1>1, <1>2 DEF StreamInv, At
<1>4. CASE Open
      BY <1>4 DEF Open, Reads, SessionFails
<1>5. CASE ReplayRecord
      BY <1>3, <1>5 DEF ReplayRecord, SessionFails, Moves, Qualities
<1>6. CASE GivesUp \/ SessionOver \/ Exit
      BY <1>6 DEF GivesUp, SessionOver, Exit, Moves
<1>7. CASE Push
  <2>1. queue' = Append(queue, position) /\ worker = "push" /\ worker' = "count"
        /\ UNCHANGED <<position, replayed>>
        BY <1>7 DEF Push
  <2>2. /\ Len(got) + Len(queue) = replayed /\ position <= Len(file)
        /\ file[position] = "good"
        BY <2>1
  <2>3. /\ Len(queue') = Len(queue) + 1 /\ got' \o queue' = Append(got \o queue, position)
        /\ got \o queue \in Seq(Nat) /\ Len(got \o queue) = replayed
        BY <2>1, <2>2, AppendBehind
  <2>4. /\ Len(Append(got \o queue, position)) = position
        /\ Append(got \o queue, position)[position] = position
        /\ \A i \in 1 .. replayed : Append(got \o queue, position)[i] = (got \o queue)[i]
        BY <2>3
  <2>5. \A i \in 1 .. replayed : (got \o queue)[i] = i /\ file[i] = "good"
        BY <2>3
  <2>6. \A i \in 1 .. position : (got' \o queue')[i] = i /\ file[i] = "good"
    <3>1. \A i \in 1 .. position : i = position \/ i \in 1 .. replayed
          OBVIOUS
    <3> QED BY <2>2, <2>3, <2>4, <2>5, <3>1
  <2>7. Len(got' \o queue') = position /\ Len(got') + Len(queue') = position
        BY <2>1, <2>2, <2>3, <2>4
  <2>8. \A i \in 1 .. Len(got' \o queue') : (got' \o queue')[i] = i /\ file[i] = "good"
        BY <2>6, <2>7
  <2>9. /\ position' = position /\ position' <= Len(file') /\ file'[position'] = "good"
        /\ position' = replayed' + 1 /\ worker' = "count" /\ file' = file
        BY <2>1, <2>2
  <2> QED BY <2>7, <2>8, <2>9
<1>8. CASE Count
  <2>1. /\ position' = position + 1 /\ replayed' = replayed + 1 /\ queue' = queue
        /\ worker' \in {"over", "next"}
        /\ worker' = "next" => position + 1 <= Len(file) /\ file[position + 1] # "invalid"
        BY <1>8 DEF Count, Reads, SessionFails
  <2>2. Len(got) + Len(queue) = position
        BY <1>8 DEF Count
  <2> QED BY <2>1, <2>2
<1>9. CASE Verdict \/ Complete
      BY <1>9 DEF Verdict, Complete
<1>10. ~FeedNext
      BY DEF FeedNext, FeedLoops, Resolves, Dials, Connects, Handshakes, Publishes, Closes,
             ConnectionFails, SessionInv, Feeding
<1> QED BY <1>4, <1>5, <1>6, <1>7, <1>8, <1>9, <1>10 DEF WorkerNext, ReplayNext

LEMMA StreamStep ==
    ASSUME Types, CopiesStayValid, HolderInv, SessionInv, StreamInv, [Next]_vars
    PROVE  StreamInv'
<1>1. CASE UNCHANGED session
      BY <1>1 DEF StreamInv, session, producer
<1>2. [Next]_vars => \/ WorkerNext \/ \E t \in Threads : CallNext(t)
                     \/ UNCHANGED session
      BY ClientSteps DEF Next, vars, session
<1> QED BY <1>1, <1>2, CallKeepsStream, WorkerKeepsStream

-----------------------------------------------------------------------------
(* The theorems *)

\* The inductive invariant: types, lock discipline, and what the places of the
\* threads and of the worker say about the session and the stream.
THEOREM InvariantHolds == Spec => []IInv
<1>1. Init => IInv
  <2>1. Init => CopiesStayValid
        BY DEF Init, CopiesStayValid
  <2> QED BY <2>1, TypesInit, LocksInit, HolderInit, SessionInit, StreamInit, StopInit
             DEF IInv
<1>2. IInv /\ [Next]_vars => IInv'
      BY TypesStep, LocksStep, CopiesStep, HolderStep, SessionStep, StreamStep, StopStep
         DEF IInv
<1> QED BY <1>1, <1>2, PTL DEF Spec

\* Every variable keeps its type and the queue its capacity.
THEOREM TypesHold == Spec => []TypeOK
<1>1. IInv => TypeOK
      BY DEF IInv, Types, ThreadTypes, SessionTypes, SocketTypes, TypeOK, Replaying, Feeding, Leaving
<1> QED BY <1>1, InvariantHolds, PTL

\* consume_batch() copies from a queue that nobody resets or drains meanwhile:
\* the shared lock keeps start() out and consumer_active_ other consumers.
THEOREM NoCopyIsTorn == Spec => []CopiesStayValid
<1>1. IInv => CopiesStayValid
      BY DEF IInv
<1> QED BY <1>1, InvariantHolds, PTL

\* A replay delivers the first records of its file, in order and without a gap,
\* to whichever threads consume, however starts, stops and calls interleave.
THEOREM ReplayLosesNothing == Spec => []ReplayIsLossless
<1>1. IInv => ReplayIsLossless
  <2> SUFFICES ASSUME IInv, mode = "replay" PROVE ReplayIsLossless
      BY DEF ReplayIsLossless
  <2>1. /\ queue \in Seq(Nat) /\ got \in Seq(Nat) /\ replayed \in Nat
        /\ position = replayed + 1
        /\ Len(got) + Len(queue) = IF worker = "count" THEN position ELSE replayed
        /\ \A i \in 1 .. Len(got \o queue) : (got \o queue)[i] = i /\ file[i] = "good"
        BY DEF IInv, Types, ThreadTypes, SessionTypes, StreamInv
  <2>2. Len(got \o queue) - replayed \in {0, 1}
        BY <2>1
  <2> QED BY <2>1, <2>2 DEF ReplayIsLossless
<1> QED BY <1>1, InvariantHolds, PTL

\* What state(), last_error() and running say of the end of a session is true,
\* at whichever of the worker's last steps a stop() begins.
THEOREM EndsHonestly == Spec => []EndIsHonest
<1>1. IInv => EndIsHonest
  <2> SUFFICES ASSUME IInv PROVE EndIsHonest
      OBVIOUS
  <2> USE DEF IInv, SessionInv, Leaving
  <2>1. mode = "replay" /\ ~running /\ ~asked /\ replayErrors = 0 => replayed = Len(file)
        OBVIOUS
  <2>2. replayErrors > 0 /\ Joinable => lastError
        BY DEF Joinable
  <2>3. state = "completed" /\ worker \in {"exit", "ended"} =>
            mode = "replay" /\ replayErrors = 0 /\ replayed = Len(file)
        OBVIOUS
  <2>4. state = "stopped" /\ lifecycle = NoThread => worker = "none" /\ ~running
        BY ThreadAssumption DEF LocksInv, Holding
  <2> QED BY <2>1, <2>2, <2>3, <2>4 DEF EndIsHonest
<1> QED BY <1>1, InvariantHolds, PTL

-----------------------------------------------------------------------------
(***************************************************************************)
(* No circular wait.  Whether a step is enabled is not said with ENABLED,  *)
(* which the provers do not treat, but by where a call waits and for what. *)
(***************************************************************************)

\* What a thread inside a call waits for: lifecycle_mutex_, the consumers, the
\* worker (twice), a start, or the interpreter lock.
Waits(t) == \/ at[t] = "lock" /\ lifecycle # NoThread
            \/ at[t] = "exclude" /\ readers # {}
            \/ at[t] = "prepare" /\ ~running /\ ~Joinable
            \/ at[t] = "join" /\ ~Joinable
            \/ at[t] = "share" /\ excluder # NoThread
            \/ at[t] = "return" /\ gil \notin {t, NoThread}

InCall(t) == op[t] # "none"

\* A worker that still has steps to take, and whose loops give up: not even a
\* full queue that nobody drains holds it, and a peer only if a stop came before
\* the connection it should have closed.
WorkerEnds == ~Joinable /\ ~running /\ (AwaitsPeer => Unheard)

\* While a call is under way, some call waits for nothing, or the worker that
\* is waited for is on its way out.
SomebodyMoves ==
    (\E t \in Threads : InCall(t)) =>
        WorkerEnds \/ \E u \in Threads : InCall(u) /\ ~Waits(u)

\* The interpreter lock is held by a thread inside a call only.
GilInv == /\ gil # NoThread => InCall(gil)
          /\ \A t \in Threads : at[t] # "python" => InCall(t)
          /\ \A t \in Threads : InCall(t) => at[t] # "python"

LEMMA GilStep ==
    ASSUME Types, GilInv, [Next]_vars
    PROVE  GilInv'
<1> USE DEF InCall
<1>0. /\ NoThread \notin Threads /\ at \in [Threads -> Places]
      /\ op \in [Threads -> Calls \cup {"none"}]
      /\ gil \in Threads \cup {NoThread}
      BY ThreadAssumption DEF Types, ThreadTypes
<1>1. CASE UNCHANGED <<locks, threads>>
      BY <1>1 DEF locks, threads, GilInv
<1>2. CASE Enters
  <2>1. PICK t \in Threads, o \in Calls : Enter(t, o)
        BY <1>2 DEF Enters
  <2>2. /\ op' = [op EXCEPT ![t] = o] /\ o # "none" /\ gil' \in {t, gil}
        /\ \E p \in {"share", "lock"} : at' = [at EXCEPT ![t] = p]
        BY <2>1 DEF Enter, Calls, Starts
  <2> QED BY <1>0, <2>2 DEF GilInv
<1>3. ASSUME NEW t \in Threads, CallNext(t)
      PROVE  GilInv'
  <2>1. CASE Return(t)
    <3>1. /\ gil' = NoThread /\ op' = [op EXCEPT ![t] = "none"]
          /\ at' = [at EXCEPT ![t] = "python"]
          BY <2>1 DEF Return
    <3> QED BY <1>0, <3>1 DEF GilInv
  <2>2. CASE ~Return(t)
    <3>1. /\ gil' = gil /\ op' = op /\ at[t] # "python"
          /\ \E p \in Places \ {"python"} : at' = [at EXCEPT ![t] = p]
      <4> USE DEF Places, Holding, Inside
      <4>1. CASE LockLifecycle(t)
        <5>1. op[t] \in Calls \ {"consume_batch"}
              BY <4>1 DEF LockLifecycle, Types, ThreadTypes
        <5> QED BY <4>1, <5>1 DEF LockLifecycle, Go, Calls, Starts
      <4>2. CASE StartNext(t)
            BY <4>2 DEF StartNext, ExcludeConsumers, AlreadyRunning, Prepare,
                        Launch, LaunchFails, Go, End
      <4>3. CASE StopNext(t)
            BY <4>3 DEF StopNext, Request, Clear, Cancel, Join, LastError, Go, End, locks
      <4>4. CASE ConsumeNext(t)
            BY <4>4 DEF ConsumeNext, Share, Reject, Claim, Copy, Release, Go, End, locks
      <4> QED BY <1>3, <2>2, <4>1, <4>2, <4>3, <4>4 DEF CallNext
    <3> QED BY <1>0, <3>1 DEF GilInv
  <2> QED BY <2>1, <2>2
<1> QED BY <1>1, <1>2, <1>3, ClientSteps, WorkerSteps DEF Next, vars

\* Who holds lifecycle_mutex_ waits for nobody who waits: for consumers that are
\* inside, which leave, or for a worker whose running_ is cleared.
LEMMA HolderMoves ==
    ASSUME IInv, GilInv, NEW h \in Threads, at[h] \in Holding
    PROVE  WorkerEnds \/ \E u \in Threads : InCall(u) /\ ~Waits(u)
<1>1. InCall(h)  BY DEF GilInv, Holding
<1>2. CASE at[h] = "exclude" /\ readers # {}
  <2>1. PICK r \in Threads : r \in readers
        BY <1>2 DEF IInv, Types, ThreadTypes
  <2>2. at[r] \in Inside  BY <2>1 DEF IInv, LocksInv
  <2> QED BY <2>2 DEF Inside, Waits, GilInv
<1>3. CASE at[h] = "prepare" /\ ~running /\ ~Joinable
  <2>1. \A t \in Threads : at[t] \notin {"cancel", "join"}
        BY <1>3, OneHolder DEF IInv, Holding
  <2>2. ~AwaitsPeer
        BY <1>3, <2>1 DEF IInv, StopInv, AwaitsPeer, Feeding
  <2> QED BY <1>3, <2>2 DEF WorkerEnds
<1>4. CASE at[h] = "join" /\ ~Joinable
      BY <1>4 DEF WorkerEnds, Unheard, IInv, HolderInv, StopInv
<1>5. CASE ~Waits(h)  BY <1>1, <1>5
<1> QED BY <1>2, <1>3, <1>4, <1>5 DEF Waits, Holding

\* The locks, the interpreter lock, a full queue that nobody drains and the join
\* of the worker never wait for each other in a circle, for any number of
\* threads: start() keeps the interpreter lock while it waits, but whoever it
\* waits for has released it and takes it back after its last lock.
THEOREM NobodyDeadlocks == Spec => []SomebodyMoves
<1>1. Init => GilInv
      BY DEF Init, GilInv, InCall
<1>2. IInv /\ GilInv /\ [Next]_vars => GilInv'
      BY GilStep DEF IInv
<1>3. IInv /\ GilInv => SomebodyMoves
  <2> SUFFICES ASSUME IInv, GilInv, NEW t \in Threads, InCall(t)
               PROVE  WorkerEnds \/ \E u \in Threads : InCall(u) /\ ~Waits(u)
      BY DEF SomebodyMoves
  <2>0. ThreadTypes /\ LocksInv  BY DEF IInv, Types
  <2>1. ASSUME NEW s \in Threads, at[s] = "lock", lifecycle # NoThread
        PROVE  WorkerEnds \/ \E u \in Threads : InCall(u) /\ ~Waits(u)
    <3>1. lifecycle \in Threads /\ at[lifecycle] \in Holding
          BY <2>0, <2>1 DEF ThreadTypes, LocksInv
    <3> QED BY <3>1, HolderMoves
  <2>2. ASSUME NEW s \in Threads, at[s] = "share", excluder # NoThread
        PROVE  WorkerEnds \/ \E u \in Threads : InCall(u) /\ ~Waits(u)
    <3>1. excluder \in Threads /\ at[excluder] \in Holding
          BY <2>0, <2>2 DEF ThreadTypes, LocksInv, Holding
    <3> QED BY <3>1, HolderMoves
  <2>3. ASSUME NEW s \in Threads, InCall(s), Waits(s),
               at[s] = "return" => gil \in {s, NoThread}
        PROVE  WorkerEnds \/ \E u \in Threads : InCall(u) /\ ~Waits(u)
    <3>1. CASE at[s] \in Holding  BY <3>1, HolderMoves
    <3> QED BY <2>1, <2>2, <2>3, <3>1 DEF Waits, Holding
  <2>4. CASE at[t] = "return" /\ gil \notin {t, NoThread}
    <3>1. gil \in Threads /\ InCall(gil)
          BY <2>0, <2>4 DEF ThreadTypes, GilInv
    <3>2. CASE Waits(gil)  BY <2>3, <3>1, <3>2
    <3> QED BY <3>1, <3>2
  <2> QED BY <2>3, <2>4
<1> QED BY <1>1, <1>2, <1>3, InvariantHolds, PTL DEF Spec
=============================================================================
