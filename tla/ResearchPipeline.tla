--------------------------- MODULE ResearchPipeline ---------------------------
(***************************************************************************)
(* The two research programs, train_and_evaluate() of research/core.py and *)
(* run_experiment() of research/l2_pipeline.py: what they evaluate, which  *)
(* earlier reports they find first, and how they publish the artifacts of  *)
(* one training, with every file operation that may fail, an interrupt and *)
(* a crash between any two of them.  execution/sensitivity.py then reads   *)
(* what the L2 program has published.                                      *)
(*                                                                         *)
(* A training is its number.  disk[name][k] is the training whose k-th     *)
(* artifact lies under a name, NoTraining if there is no such file; the    *)
(* prediction file and the report are the second and the last one.  A name *)
(* of the L2 program is its horizon.  Trainings run one at a time, as the  *)
(* workstation starts them.                                                *)
(***************************************************************************)
EXTENDS HoldoutSplit, SequencesExt

CONSTANTS Markets,       \* the recordings there are: rows of every session
          Followed,      \* bound: the markets whose trainings are published
          Selections,    \* bound: the sessions such a training may choose
          Names,         \* of artifact sets in the one report directory
          Horizons,
          MaxTrainings, MaxFailures   \* bounds on a behaviour

ASSUME PipelineAssumption ==
    /\ Markets \subseteq Seq(Nat) /\ Followed \subseteq Markets
    /\ \A m \in Followed, S \in Selections : S \subseteq DOMAIN m
    /\ Names \subseteq Horizons /\ Horizons \subseteq Nat \ {0}
    /\ MaxTrainings \in Nat /\ MaxFailures \in Nat

VARIABLES program,    \* "top_of_book" or "l2"
          market,
          disk, hidden,  \* hidden: staged reports of the top-of-book
                          \* program that a crash has left behind
          log,        \* the evaluations made so far, by training
          training,   \* the one that runs, or Idle
          failures,
          study,      \* the sensitivity study, if one runs or was accepted
          unremoved   \* history: the files a rollback could not remove, each
                      \* with the training that wrote it

vars == <<program, market, disk, hidden, log, training, failures, study, unremoved>>

NoTraining == 0
Idle == [phase |-> "idle"]
NoStudy == [phase |-> "none"]

Artifacts == <<"model", "predictions", "card", "report">>
Predictions == 2
Report == Len(Artifacts)

Init == /\ program \in {"top_of_book", "l2"} /\ market \in Markets
        /\ disk = [n \in Names |-> [k \in DOMAIN Artifacts |-> NoTraining]]
        /\ hidden = {} /\ log = <<>> /\ training = Idle /\ failures = 0
        /\ study = NoStudy /\ unremoved = {}

-----------------------------------------------------------------------------
(* What is evaluated, and what was evaluated before. *)

\* The rows of the sessions chosen, in the order of their creation.
Data(chosen) == [i \in DOMAIN chosen |-> market[chosen[i]]]

\* test_sessions, and the recordings behind them
HeldOut(chosen, test) == [i \in SessionsWith(Data(chosen), test) |-> chosen[i]]

\* _test_period_fingerprint(): the raw segments with test rows.
Period(chosen, test) == [of |-> Range(HeldOut(chosen, test)), horizon |-> 0]

\* _fingerprint(): the very rows with their targets.
Examples(chosen, horizon, test) ==
    [of |-> {<<chosen[SessionOf(Data(chosen), r)], EventIndex(Data(chosen), r)>> :
                r \in test},
     horizon |-> horizon]

Fingerprint(chosen, horizon, test) ==
    IF program = "l2" THEN Examples(chosen, horizon, test)
                      ELSE Period(chosen, test)

\* The reports found: *.json, hidden ones too, of the top-of-book program;
\* *_report.json of the other, which a staged report does not match.
Reports == ({disk[n][Report] : n \in Names} \ {NoTraining}) \cup hidden

\* Mutant: only the report about to be replaced is compared.
PriorOfName(name, fingerprint) ==
    {r \in {disk[name][Report]} \ {NoTraining} : log[r].fingerprint = fingerprint}

\* _prior_holdout_reports(), _prior_test_reports()
Prior(name, fingerprint) ==
    {r \in Reports : log[r].fingerprint = fingerprint}

Exists(name) == \E k \in DOMAIN Artifacts : disk[name][k] # NoTraining

Select == IF market \in Followed THEN Selections ELSE {DOMAIN market}
-----------------------------------------------------------------------------
(* A training up to its staged files.  What exists under its name must be  *)
(* overwritten, which the L2 program refuses, and an evaluation found among *)
(* the reports has to be allowed by the caller and is then disclosed.       *)

\* Mutant: what exists is replaced by the L2 program too.
MayReplace(name, horizon) == program = "l2" => horizon = name

\* existing
MayTrain(name, horizon) == program = "l2" => horizon = name /\ ~ Exists(name)

TrainsOn(name, horizon, chosen) ==
    LET sizes == Data(chosen)
        split == Split(sizes, horizon)
        fp    == Fingerprint(chosen, horizon, split.test)
    IN /\ MayTrain(name, horizon)
       /\ ~ TooShort(sizes, split)
       /\ training' = [phase |-> "evaluated", name |-> name, sizes |-> sizes,
                       horizon |-> horizon, overwrite |-> Exists(name),
                       before |-> disk[name]]
       /\ log' = Append(log, [name |-> name, fingerprint |-> fp,
                              held_out |-> HeldOut(chosen, split.test),
                              reused |-> Prior(name, fp) # {},
                              overwrite |-> Exists(name),
                              outcome |-> "running"])

Trains == /\ training = Idle /\ Len(log) < MaxTrainings
          /\ \E name \in Names, horizon \in Horizons, sessions \in Select :
                TrainsOn(name, horizon, InOrder(sessions))
          /\ UNCHANGED <<program, market, disk, hidden, failures, study, unremoved>>

\* The temporary files are always removed.
EndsAs(outcome) ==
    /\ training' = Idle
    /\ log' = [log EXCEPT ![Len(log)].outcome = outcome]

Stages ==
    /\ training.phase = "evaluated" /\ market \in Followed
    /\ training' = [phase |-> IF training.overwrite THEN "backing_up"
                              ELSE "committing",
                    name |-> training.name, before |-> training.before, k |-> 1,
                    backups |-> <<>>, committed |-> <<>>]
    /\ UNCHANGED <<program, market, disk, hidden, log, failures, study, unremoved>>

StagingFails ==
    /\ training.phase = "evaluated" /\ market \in Followed
    /\ failures < MaxFailures
    /\ EndsAs("failed") /\ failures' = failures + 1
    /\ UNCHANGED <<program, market, disk, hidden, study, unremoved>>

-----------------------------------------------------------------------------
(* _publish_staged_artifacts(), and the end of run_experiment(), which has  *)
(* nothing to back up.                                                      *)

Holds(k, id) == disk' = [disk EXCEPT ![training.name][k] = id]

\* Mutant: the report first.
ReportFirst == <<4, 1, 2, 3>>

\* commit_pairs
CommitOrder == <<1, 2, 3, 4>>

\* Mutant: the artifacts are copied and stay where they are.
BacksUpCopies ==
    /\ training.phase = "backing_up"
    /\ LET a    == CommitOrder[training.k]
           last == training.k = Len(Artifacts)
       IN training' = [training EXCEPT
                !.backups = IF disk[training.name][a] = NoTraining THEN @
                            ELSE Append(@, a),
                !.phase = IF last THEN "committing" ELSE @,
                !.k = IF last THEN 1 ELSE @ + 1]
    /\ UNCHANGED <<program, market, disk, hidden, log, failures, study, unremoved>>

\* os.replace(destination, backup), of the artifacts that exist
BacksUp ==
    /\ training.phase = "backing_up"
    /\ LET a    == CommitOrder[training.k]
           last == training.k = Len(Artifacts)
       IN /\ Holds(a, NoTraining)
          /\ training' = [training EXCEPT
                !.backups = IF disk[training.name][a] = NoTraining THEN @
                            ELSE Append(@, a),
                !.phase = IF last THEN "committing" ELSE @,
                !.k = IF last THEN 1 ELSE @ + 1]
    /\ UNCHANGED <<program, market, hidden, log, failures, study, unremoved>>

\* os.replace(source, destination); behind the last one the backups go.
Commits ==
    /\ training.phase = "committing"
    /\ Holds(CommitOrder[training.k], Len(log))
    /\ IF training.k < Len(Artifacts)
       THEN /\ training' = [training EXCEPT !.k = @ + 1,
                            !.committed = Append(@, CommitOrder[training.k])]
            /\ UNCHANGED log
       ELSE EndsAs("published")
    /\ UNCHANGED <<program, market, hidden, failures, study, unremoved>>

\* An operation fails: what is committed is removed, the last one first,
\* then the backups are moved back.
Undo(op, artifacts) == Reverse([i \in DOMAIN artifacts |-> <<op, artifacts[i]>>])

\* Mutant: the backups are moved back before the new files are removed.
RollbackRestoresFirst ==
    Undo("restore", training.backups) \o Undo("remove", training.committed)

Rollback ==
    Undo("remove", training.committed) \o Undo("restore", training.backups)

PublicationFails ==
    /\ training.phase \in {"backing_up", "committing"} /\ failures < MaxFailures
    /\ failures' = failures + 1
    /\ IF Rollback = <<>> THEN EndsAs("rolled_back")
       ELSE /\ training' = [phase |-> "rolling_back", name |-> training.name,
                            before |-> training.before, undo |-> Rollback,
                            clean |-> TRUE]
            /\ UNCHANGED log
    /\ UNCHANGED <<program, market, disk, hidden, study, unremoved>>

\* One step of it, which may fail in turn: the top-of-book program goes on
\* and reports it, the exception leaves the other at once.
RollsBackOne(done) ==
    LET step  == Head(training.undo)
        clean == training.clean /\ done
    IN /\ disk' = IF ~ done THEN disk
                  ELSE [disk EXCEPT ![training.name][step[2]] =
                            IF step[1] = "remove" THEN NoTraining
                            ELSE training.before[step[2]]]
       /\ IF Len(training.undo) = 1 \/ (program = "l2" /\ ~ done)
          THEN EndsAs(IF clean THEN "rolled_back" ELSE "incomplete")
          ELSE /\ training' = [training EXCEPT !.undo = Tail(@),
                                               !.clean = clean]
               /\ UNCHANGED log

RollsBack == /\ training.phase = "rolling_back"
             /\ RollsBackOne(TRUE)
             /\ UNCHANGED <<program, market, hidden, failures, study, unremoved>>

RollbackFails == /\ training.phase = "rolling_back" /\ failures < MaxFailures
                 /\ RollsBackOne(FALSE) /\ failures' = failures + 1
                 /\ LET step == Head(training.undo)
                    IN unremoved' = IF step[1] = "restore" THEN unremoved
                                    ELSE unremoved \cup {<<Len(log), step[2]>>}
                 /\ UNCHANGED <<program, market, hidden, study>>

\* The process dies, or Ctrl-C ends the training: no handler rolls back, and
\* after a crash the staged report stays as well.
Dies ==
    /\ training # Idle /\ market \in Followed /\ failures < MaxFailures
    /\ EndsAs("crashed") /\ failures' = failures + 1
    /\ \/ hidden' = hidden
       \/ /\ program = "top_of_book" /\ training.phase # "evaluated"
          /\ hidden' = hidden \cup {Len(log)}
    /\ UNCHANGED <<program, market, disk, study, unremoved>>

-----------------------------------------------------------------------------
(* run_sensitivity() of execution/sensitivity.py, of an L2 report.          *)

\* load_prediction_orders()
StudyReads ==
    /\ program = "l2" /\ study = NoStudy
    /\ \E n \in Names : /\ disk[n][Predictions] # NoTraining
                        /\ study' = [phase |-> "read", name |-> n,
                                     orders |-> disk[n][Predictions]]
    /\ UNCHANGED <<program, market, disk, hidden, log, training, failures, unremoved>>

\* Mutant: any prediction file goes with any report.
HashUnchecked(r, predictions) == predictions # NoTraining

\* The prediction file, hashed now, is the one the report names.
Hashed(r, predictions) == predictions = r

\* parse_recording_mapping(), verify_research_provenance()
StudyVerifies(name, mapping) ==
    /\ study.phase = "read"
    /\ LET r == disk[name][Report]
       IN /\ r # NoTraining /\ Hashed(r, disk[study.name][Predictions])
          /\ mapping = log[r].held_out
          /\ study' = [phase |-> "accepted", orders |-> study.orders,
                       report |-> r, mapping |-> mapping]
    /\ UNCHANGED <<program, market, disk, hidden, log, training, failures, unremoved>>

\* The mappings a caller may give: of the right sessions, and of others.
Mappings == {log[i].held_out : i \in DOMAIN log}

Next == \/ Trains \/ Stages \/ StagingFails \/ BacksUp \/ Commits
        \/ PublicationFails \/ RollsBack \/ RollbackFails \/ Dies
        \/ StudyReads
        \/ \E name \in Names, mapping \in Mappings : StudyVerifies(name, mapping)

Spec == Init /\ [][Next]_vars

-----------------------------------------------------------------------------
Outcomes == {"running", "failed", "published", "rolled_back", "incomplete",
             "crashed"}

\* Type correctness: an evaluation runs exactly as long as its training does,
\* every file on disk is of a training that got as far as publication, and a
\* set is only ever replaced by the top-of-book program.
TypeOK ==
    /\ program \in {"top_of_book", "l2"} /\ market \in Markets
    /\ Len(log) <= MaxTrainings /\ failures \in 0 .. MaxFailures
    /\ hidden \subseteq DOMAIN log
    /\ \A i \in DOMAIN log :
        /\ log[i].outcome \in Outcomes
        /\ (log[i].outcome = "running") <=> (training # Idle /\ i = Len(log))
        /\ log[i].overwrite => program = "top_of_book"
    /\ \A n \in Names, k \in DOMAIN Artifacts :
        disk[n][k] # NoTraining => /\ disk[n][k] \in DOMAIN log
                                   /\ log[disk[n][k]].name = n
                                   /\ log[disk[n][k]].outcome # "failed"

\* Nothing that fits a model, or chooses its alpha and its threshold, knows the
\* rows it is scored on: in the evaluation of a training, of its baselines and
\* of every walk-forward fold, the last event a label of an earlier part reads
\* comes before the first event of the next part, and no fold touches the
\* holdout.  (make_chronological_split(), pretest_walk_forward_diagnostics())
EvaluationIsForward ==
    training.phase = "evaluated" =>
    LET sizes == training.sizes
        h     == training.horizon
        split == Split(sizes, h)
        Before(R, S) == \A r \in R, s \in S :
                            LabelOf(sizes, h, r) < EventOf(sizes, h, s)
    IN \A e \in Evaluations(sizes, split) :
        /\ Before(e.train, e.validation)
        /\ Before(e.train \cup e.validation, e.test)
        /\ e.test # split.test =>
              Before(e.train \cup e.validation \cup e.test, split.test)

\* Whatever the model signals, now or some events late, the holding periods of
\* two trades of one session do not overlap, and every trade is made on a
\* held-out row its own session signalled.  (strategy_trades(),
\* _delay_predictions(); the report says "overlapping_trades": False)
TradesDoNotOverlap ==
    training.phase = "evaluated" =>
    LET sizes == training.sizes
        h     == training.horizon
        test  == Split(sizes, h).test
    IN \A signals \in SUBSET test, delay \in 0 .. 2 :
        LET delayed == Delayed(sizes, test, signals, delay)
            traded  == Trades(sizes, h, test, delayed)
        IN /\ traded \subseteq delayed
           /\ \A a, b \in traded :
                a < b /\ SessionOf(sizes, a) = SessionOf(sizes, b) =>
                    EventIndex(sizes, b) >= EventIndex(sizes, a) + h

\* A rollback of the name was left incomplete or a training that overwrote it
\* was broken off, and no training of that name has published since.
Broken(n) ==
    \E i \in DOMAIN log :
        /\ log[i].name = n /\ log[i].overwrite
        /\ log[i].outcome \in {"incomplete", "crashed"}
        /\ \A j \in i + 1 .. Len(log) :
              log[j].name = n => log[j].outcome # "published"
Damaged(n) ==
    \/ training.phase = "rolling_back" /\ training.name = n /\ ~ training.clean
    \/ Broken(n)
Overwritten(n) == \E i \in DOMAIN log : log[i].name = n /\ log[i].overwrite

\* A file beside a report that can be found is that report's own or is missing,
\* whichever operation of a publication or of its rollback fails and wherever an
\* interrupt or a crash ends it; the only other file there can be is one whose
\* own removal failed in a rollback.  A file is missing only while the name is
\* being overwritten, or after an overwriting that was broken off or whose
\* rollback was incomplete, until the name is published again.  And a
\* sensitivity study is accepted on held-out evidence only: the recordings of
\* the sessions its report held out, and orders of that report's training, unless
\* the file it read them from was rolled back behind its back.
\* (_publish_staged_artifacts(); verify_research_provenance())
ReportsAreUsable ==
    /\ \A n \in Names : disk[n][Report] # NoTraining =>
        \A k \in DOMAIN Artifacts :
            \/ disk[n][k] = disk[n][Report]
            \/ /\ disk[n][k] = NoTraining /\ Overwritten(n)
               /\ \/ Broken(n)
                  \/ training # Idle /\ training.name = n
                       /\ training.phase \in {"backing_up", "rolling_back"}
            \/ Damaged(n) /\ <<disk[n][k], k>> \in unremoved
    /\ study.phase = "accepted" =>
        /\ study.mapping = log[study.report].held_out
        /\ \/ study.orders = study.report
           \/ log[study.orders].outcome = "rolled_back"

\* core.py and l2_pipeline.py: "The JSON report is committed last, so report
\* discovery never exposes a partial set": once a training has ended, in whatever
\* way, a report that can be found has all the files of its training beside it.
ReportsAreWhole ==
    training = Idle =>
        \A n \in Names : disk[n][Report] # NoTraining =>
            \A k \in DOMAIN Artifacts : disk[n][k] = disk[n][Report]

\* A held-out period is not evaluated twice in silence: if the report of the
\* later training does not disclose the earlier one, the earlier one was never
\* published, or its report was replaced by a training that was published or
\* broken off while overwriting it.  A training that failed and was rolled back
\* hides nothing.  (_prior_holdout_reports(), _publish_staged_artifacts())
HoldoutRemembered ==
    \A i, j \in DOMAIN log :
        i < j /\ log[i].fingerprint = log[j].fingerprint
              /\ log[i].outcome = "published" /\ ~ log[j].reused =>
            \E k \in i + 1 .. j - 1 :
                /\ log[k].name = log[i].name /\ log[k].overwrite
                /\ log[k].outcome \in {"published", "incomplete", "crashed"}

\* A training whose publication fails leaves the files of its name exactly as
\* it found them, unless an operation of the rollback failed too.
\* (_publish_staged_artifacts(), run_experiment())
RollbackRestores ==
    [][\A i \in DOMAIN log :
          log[i].outcome = "running" /\ log'[i].outcome = "rolled_back" =>
              disk'[training.name] = training.before]_vars
=============================================================================
