------------------------------ MODULE Workstation ------------------------------
(***************************************************************************)
(* The desktop shell of ui/app.py: Tk's main thread with the handlers of   *)
(* its buttons and the poll that handles what background threads report,   *)
(* and those threads: engine sessions (EngineRunner) and trainings.        *)
(*                                                                         *)
(* A thread puts its last event first and ends afterwards; between the two *)
(* the main thread may do anything.  No thread is a daemon: the process    *)
(* lives as long as one of them does.  What a session does is in           *)
(* IngestionEngine, what a training does in ResearchPipeline; the names of  *)
(* the specification are the shell's own, so that a module can have both.  *)
(***************************************************************************)
EXTENDS Integers, Sequences

CONSTANTS MaxSessions, MaxTrainingThreads   \* bounds: threads a user starts

ASSUME WorkstationAssumption ==
    MaxSessions \in Nat /\ MaxTrainingThreads \in Nat

VARIABLES
    runners,        \* the engine sessions started
    engine_runner,  \* the one the window knows, or None
    trainings, training_thread,
    events,         \* engine_events: the last events of threads
    live_start, train_button,   \* buttons: TRUE while they are enabled
    poll,           \* "scheduled", "draining", or "lost" if it has raised
    closing, destroyed

shellVars == <<runners, engine_runner, trainings, training_thread, events,
               live_start, train_button, poll, closing, destroyed>>

None == 0

ShellInit == /\ runners = <<>> /\ engine_runner = None
             /\ trainings = <<>> /\ training_thread = None
             /\ events = <<>> /\ live_start = TRUE /\ train_button = TRUE
             /\ poll = "scheduled" /\ closing = FALSE /\ destroyed = FALSE

\* A handler of the main thread runs: never inside the poll.
MainThread == ~ destroyed /\ poll # "draining"

Dead == [state |-> "dead"]
Alive(threads, t) == t # None /\ threads[t].state # "dead"

-----------------------------------------------------------------------------
(* Sessions *)

RunnerRuns(t) == Alive(runners, t)

\* Mutant: only a session that has been stopped is looked at.
RunnerStopping == RunnerRuns(engine_runner) /\ runners[engine_runner].asked

\* _runner_busy()
RunnerBusy == RunnerRuns(engine_runner)

\* The end of an earlier session is still to be handled or to come.
EndPending == \/ \E i \in DOMAIN events : events[i].kind = "end"
              \/ \E t \in DOMAIN runners : runners[t].state = "running"

\* stale: it was pending when this session began.
Starts(mode) ==
    /\ MainThread /\ ~ RunnerBusy /\ Len(runners) < MaxSessions
    /\ runners' = Append(runners, [mode |-> mode, state |-> "running",
                                   asked |-> FALSE, stale |-> EndPending])
    /\ engine_runner' = Len(runners')
    /\ UNCHANGED <<trainings, training_thread, events, train_button, poll,
                   closing, destroyed>>

StartLiveCapture == live_start /\ Starts("live") /\ live_start' = FALSE

\* start_alpha_replay(), start_alpha_live(): their buttons stay enabled.
StartAlpha(mode) == Starts(mode) /\ UNCHANGED live_start

Asked(t) == [runners EXCEPT ![t].asked = TRUE]

\* stop_engine(); asking a session that is dead changes nothing.
StopEngine ==
    /\ MainThread /\ RunnerBusy
    /\ runners' = Asked(engine_runner)
    /\ UNCHANGED <<engine_runner, trainings, training_thread, events,
                   live_start, train_button, poll, closing, destroyed>>

\* EngineRunner.run() ends: stopped, at the end of a replay, or by an error.
RunnerReports(t) ==
    /\ runners[t].state = "running"
    /\ \E kind \in {"complete", "error"} :
        /\ kind = "complete" => runners[t].asked \/ runners[t].mode = "replay"
        /\ events' = Append(events, [kind |-> "end", outcome |-> kind])
    /\ runners' = [runners EXCEPT ![t].state = "reported"]
    /\ UNCHANGED <<engine_runner, trainings, training_thread, live_start,
                   train_button, poll, closing, destroyed>>

RunnerDies(t) ==
    /\ runners[t].state = "reported"
    /\ runners' = [runners EXCEPT ![t] = Dead]
    /\ UNCHANGED <<engine_runner, trainings, training_thread, events,
                   live_start, train_button, poll, closing, destroyed>>

-----------------------------------------------------------------------------
(* Trainings *)

\* Mutant: the button stays enabled.
TrainButtonKept == train_button

TrainButtonOff == FALSE

\* late: the window was being closed.
StartTraining ==
    /\ MainThread /\ train_button /\ ~ Alive(trainings, training_thread)
    /\ Len(trainings) < MaxTrainingThreads
    /\ trainings' = Append(trainings, [state |-> "running", late |-> closing])
    /\ training_thread' = Len(trainings')
    /\ train_button' = TrainButtonOff
    /\ UNCHANGED <<runners, engine_runner, events, live_start, poll, closing,
                   destroyed>>

TrainingReports(t) ==
    /\ trainings[t].state = "running"
    /\ trainings' = [trainings EXCEPT ![t].state = "reported"]
    /\ \E outcome \in {"complete", "error"} :
          events' = Append(events, [kind |-> "trained", outcome |-> outcome])
    /\ UNCHANGED <<runners, engine_runner, training_thread, live_start,
                   train_button, poll, closing, destroyed>>

TrainingDies(t) ==
    /\ trainings[t].state = "reported"
    /\ trainings' = [trainings EXCEPT ![t] = Dead]
    /\ UNCHANGED <<runners, engine_runner, training_thread, events,
                   live_start, train_button, poll, closing, destroyed>>

-----------------------------------------------------------------------------
(* _poll_events() *)

PollBegins ==
    /\ poll = "scheduled" /\ ~ destroyed
    /\ poll' = "draining"
    /\ UNCHANGED <<runners, engine_runner, trainings, training_thread, events,
                   live_start, train_button, closing, destroyed>>

\* The log of an error may not be writable; refresh_all() after a session
\* raises if a training publishes a staged model between the listing of *.npz
\* and its stat().  What is raised leaves the poll, which is not scheduled again.
MayRaise(outcome) ==
    \/ outcome = "error"
    \/ \E t \in DOMAIN trainings : trainings[t].state = "running"

HandleEnd ==
    /\ poll = "draining" /\ ~ destroyed /\ events # <<>>
    /\ Head(events).kind = "end"
    /\ events' = Tail(events)
    /\ \/ /\ engine_runner' = None
          /\ destroyed' = closing
          /\ live_start' = (live_start \/ ~ closing)
          /\ \/ UNCHANGED poll
             \/ Head(events).outcome = "complete" /\ MayRaise("complete")
                    /\ ~ closing /\ poll' = "lost"
       \/ /\ Head(events).outcome = "error" /\ MayRaise("error")
          /\ poll' = "lost"
          /\ UNCHANGED <<engine_runner, destroyed, live_start>>
    /\ UNCHANGED <<runners, trainings, training_thread, train_button, closing>>

HandleTrained ==
    /\ poll = "draining" /\ ~ destroyed /\ events # <<>>
    /\ Head(events).kind = "trained"
    /\ events' = Tail(events)
    /\ training_thread' = None /\ train_button' = TRUE
    /\ \/ UNCHANGED poll
       \/ Head(events).outcome = "error" /\ poll' = "lost"
    /\ UNCHANGED <<runners, engine_runner, trainings, live_start, closing,
                   destroyed>>

PollEnds ==
    /\ poll = "draining" /\ ~ destroyed /\ events = <<>>
    /\ destroyed' = (closing /\ engine_runner = None)
    /\ poll' = "scheduled"
    /\ UNCHANGED <<runners, engine_runner, trainings, training_thread, events,
                   live_start, train_button, closing>>

-----------------------------------------------------------------------------
(* on_close() *)

\* Mutant: the window waits for a session that nobody stops.
ClosesUnasked == runners

\* request_stop() of the session that runs
ClosesRunner == IF RunnerBusy THEN Asked(engine_runner) ELSE runners

OnClose ==
    /\ MainThread /\ ~ closing /\ ~ Alive(trainings, training_thread)
    /\ closing' = TRUE
    /\ runners' = ClosesRunner
    /\ destroyed' = ~ RunnerBusy
    /\ live_start' = (live_start /\ ~ RunnerBusy)
    /\ UNCHANGED <<engine_runner, trainings, training_thread, events,
                   train_button, poll>>

-----------------------------------------------------------------------------
ShellNext == \/ StartLiveCapture \/ \E mode \in {"live", "replay"} : StartAlpha(mode)
             \/ StopEngine \/ StartTraining \/ OnClose
             \/ PollBegins \/ HandleEnd \/ HandleTrained \/ PollEnds
             \/ \E t \in DOMAIN runners : RunnerReports(t) \/ RunnerDies(t)
             \/ \E t \in DOMAIN trainings : TrainingReports(t) \/ TrainingDies(t)

\* Tk runs the poll it has scheduled, and a thread that has reported ends.  A
\* session that was asked to stop is assumed to stop: IngestionEngine!CallsReturn
\* promises it, but for a stop its feed could not hear and a peer that stays
\* silent.  Nothing makes a user act.
Fairness ==
    /\ WF_shellVars(PollBegins) /\ WF_shellVars(PollEnds)
    /\ WF_shellVars(HandleEnd) /\ WF_shellVars(HandleTrained)
    /\ \A t \in 1 .. MaxSessions :
        /\ WF_shellVars(t \in DOMAIN runners
                   /\ runners[t].state = "running" /\ runners[t].asked
                   /\ RunnerReports(t))
        /\ WF_shellVars(t \in DOMAIN runners /\ RunnerDies(t))

ShellSpec == ShellInit /\ [][ShellNext]_shellVars /\ Fairness

-----------------------------------------------------------------------------
Runner == [mode : {"live", "replay"}, asked : BOOLEAN,
           state : {"running", "reported"}, stale : BOOLEAN] \cup {Dead}
Training == [state : {"running", "reported"}, late : BOOLEAN] \cup {Dead}
Event == [kind : {"end", "trained"}, outcome : {"complete", "error"}]

\* The window knows threads that exist, and an event is what a handler expects.
ShellTypeOK ==
    /\ runners \in Seq(Runner) /\ engine_runner \in 0 .. Len(runners)
    /\ trainings \in Seq(Training) /\ training_thread \in 0 .. Len(trainings)
    /\ events \in Seq(Event)
    /\ live_start \in BOOLEAN /\ train_button \in BOOLEAN
    /\ poll \in {"scheduled", "draining", "lost"}
    /\ closing \in BOOLEAN /\ destroyed \in BOOLEAN

\* A training that runs is the one the window knows: no other runs beside it,
\* and the window is not closed over it, unless it was started while the window
\* was already closing.  ("Training is serialized so artifact publication and
\* holdout bookkeeping cannot overlap"; "Training must finish before exit")
TrainingIsSerialized ==
    \A t \in DOMAIN trainings : trainings[t].state = "running" =>
        training_thread = t /\ (closing => trainings[t].late)

\* A session that runs is one the window waits for: the window is not destroyed
\* over it, so that its recording is finalised and the process ends, and no two
\* sessions run at once; but for sessions started while the end of an earlier
\* one was not handled yet, whose handler takes it for theirs.
\* (on_close(), _runner_busy(), _poll_events())
SessionsAreOwned ==
    \A t \in DOMAIN runners : runners[t].state = "running" /\ ~ runners[t].stale =>
        /\ ~ destroyed
        /\ \A u \in DOMAIN runners : u # t => runners[u].state # "running"

\* A window that closes is destroyed, if the sessions it has asked to stop do stop
\* and the poll was not lost to an exception of one of its handlers.  (on_close(), _poll_events())
CloseFinishes == closing ~> (destroyed \/ poll = "lost")
=============================================================================
