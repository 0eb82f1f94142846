---------------------------- MODULE HoldoutSplit ----------------------------
(***************************************************************************)
(* Which rows research trains, selects and tests on: the chronological     *)
(* split of research/core.py, which both pipelines use, the folds of its   *)
(* walk-forward diagnostics and the rows its strategy trades.              *)
(*                                                                         *)
(* The data is the number of feature rows of every session, in the order   *)
(* of their creation; a session is a segment of a top-of-book recording or *)
(* an L2 recording.  A row is its number over all sessions, from 1.        *)
(***************************************************************************)
EXTENDS Integers, FiniteSets, Sequences

CONSTANTS MinimumPartitionRows,
          MinimumRows,   \* data.size prepare_feature_data() asks for
          Warmup         \* MAX_HISTORY, events before a session's first row

ASSUME SplitAssumption ==
    MinimumPartitionRows \in Nat \ {0} /\ MinimumRows \in Nat /\ Warmup \in Nat

\* A set of numbers from the smallest to the largest.
InOrder(S) == [i \in 1 .. Cardinality(S) |->
                  CHOOSE x \in S : Cardinality({y \in S : y < x}) = i - 1]

\* Rows of the first k sessions.
Stop(sizes, k) == LET sum[i \in 0 .. k] == IF i = 0 THEN 0
                                           ELSE sum[i - 1] + sizes[i]
                  IN sum[k]
Size(sizes) == Stop(sizes, Len(sizes))

\* _session_row_ranges()
RowsOf(sizes, s) == (Stop(sizes, s - 1) + 1) .. Stop(sizes, s)
SessionOf(sizes, row) == CHOOSE s \in DOMAIN sizes : row \in RowsOf(sizes, s)
SessionsWith(sizes, rows) ==
    {s \in DOMAIN sizes : RowsOf(sizes, s) \cap rows # {}}

\* event_index of a row within its session, and the event of the whole data
\* it describes: a session has Warmup events before its rows and the horizon
\* of the last one behind them.
EventIndex(sizes, row) == row - Stop(sizes, SessionOf(sizes, row) - 1)
EventOf(sizes, horizon, row) ==
    row + SessionOf(sizes, row) * Warmup
        + (SessionOf(sizes, row) - 1) * horizon
LabelOf(sizes, horizon, row) == EventOf(sizes, horizon, row) + horizon

-----------------------------------------------------------------------------
(* make_chronological_split() *)

Partition(train, validation, test) ==
    [train |-> train, validation |-> validation, test |-> test]

LargeEnough(p) == \A part \in {p.train, p.validation, p.test} :
                      Cardinality(part) >= MinimumPartitionRows

\* Whole sessions: the first t train, those up to v validate.
WholeSessions(sizes, t, v) ==
    Partition(1 .. Stop(sizes, t), (Stop(sizes, t) + 1) .. Stop(sizes, v),
              (Stop(sizes, v) + 1) .. Size(sizes))

Candidates(sizes) ==
    {c \in [t : 1 .. Len(sizes) - 2, v : 2 .. Len(sizes) - 1] :
        c.t < c.v /\ LargeEnough(WholeSessions(sizes, c.t, c.v))}

Distance(a, b) == IF a < b THEN b - a ELSE a - b

\* Ten times the distance of both boundaries from 60 and 80 percent.
Score(sizes, c) == Distance(10 * Stop(sizes, c.t), 6 * Size(sizes))
                 + Distance(10 * Stop(sizes, c.v), 8 * Size(sizes))

\* min() of the (score, t, v) tuples
Precedes(sizes, c, d) ==
    \/ Score(sizes, c) < Score(sizes, d)
    \/ /\ Score(sizes, c) = Score(sizes, d)
       /\ c.t < d.t \/ (c.t = d.t /\ c.v <= d.v)

BestCandidate(sizes) ==
    CHOOSE c \in Candidates(sizes) :
        \A d \in Candidates(sizes) : Precedes(sizes, c, d)

\* Mutant: only the validation rows are purged from the training rows.
PurgedEventsOnce(sizes, purge) ==
    LET t == (6 * Size(sizes)) \div 10
        v == (8 * Size(sizes)) \div 10
    IN Partition(1 .. t, (t + purge + 1) .. v, (v + 1) .. Size(sizes))

\* The fallback: a split by events, rows dropped behind both boundaries.
PurgedEvents(sizes, purge) ==
    LET t == (6 * Size(sizes)) \div 10
        v == (8 * Size(sizes)) \div 10
    IN Partition(1 .. t, (t + purge + 1) .. v, (v + purge + 1) .. Size(sizes))

\* train_and_evaluate() and run_experiment() purge by this.
Purge(horizon) == IF horizon > Warmup THEN horizon ELSE Warmup

Split(sizes, horizon) == IF Candidates(sizes) # {}
                         THEN WholeSessions(sizes, BestCandidate(sizes).t,
                                            BestCandidate(sizes).v)
                         ELSE PurgedEvents(sizes, Purge(horizon))

\* The data is refused: too few rows, or a part too short to be of use.
TooShort(sizes, split) == Size(sizes) < MinimumRows \/ ~ LargeEnough(split)

-----------------------------------------------------------------------------
(* pretest_walk_forward_diagnostics() *)

\* The sessions before the holdout, in order.
PretestSessions(sizes, split) ==
    InOrder(SessionsWith(sizes, split.train \cup split.validation))

FoldAt(sizes, sessions, k) ==
    Partition(UNION {RowsOf(sizes, sessions[i]) : i \in 1 .. k - 2},
              RowsOf(sizes, sessions[k - 1]), RowsOf(sizes, sessions[k]))

\* Mutant: short folds are evaluated as well.
FoldsOfAnySize(sizes, split) ==
    LET sessions == PretestSessions(sizes, split)
    IN {FoldAt(sizes, sessions, k) : k \in 3 .. Len(sessions)}

\* One fold per target session, if each of its three parts is long enough.
Folds(sizes, split) ==
    LET sessions == PretestSessions(sizes, split)
    IN {f \in {FoldAt(sizes, sessions, k) : k \in 3 .. Len(sessions)} :
            LargeEnough(f)}

-----------------------------------------------------------------------------
(* The rows that normalise and fit a model, those that choose its alpha and *)
(* its threshold, and those it is scored on.                                *)

\* train_and_evaluate(); _fit_group() does the same for each feature group.
Model(split) == Partition(split.train, split.validation, split.test)

\* _evaluate_baseline(): nothing is fitted.
Baseline(split) == Partition({}, split.validation, split.test)

Evaluations(sizes, split) ==
    {Model(split), Baseline(split)} \cup Folds(sizes, split)

-----------------------------------------------------------------------------
(* strategy_trades() and the latency stress *)

\* Mutant: the next trade may begin one event after the last one.
NextEligibleAtOnce(event, horizon) == event + 1

NextEligible(event, horizon) == event + horizon

\* One evaluated row: a signal is traded unless a trade of its session is on.
TradeRow(sizes, horizon, signals, trades, row) ==
    LET session == SessionOf(sizes, row)
        event   == EventIndex(sizes, row)
        fresh   == trades.session # session
    IN IF row \notin signals \/ (~ fresh /\ event < trades.next)
       THEN [trades EXCEPT !.session = session,
                           !.next = IF fresh THEN 0 ELSE @]
       ELSE [session |-> session, next |-> NextEligible(event, horizon),
             rows |-> trades.rows \cup {row}]

\* selected_rows of the evaluated rows
Trades(sizes, horizon, rows, signals) ==
    LET trades[r \in 0 .. Size(sizes)] ==
            IF r = 0 THEN [session |-> 0, next |-> 0, rows |-> {}]
            ELSE IF r \in rows
                 THEN TradeRow(sizes, horizon, signals, trades[r - 1], r)
                 ELSE trades[r - 1]
    IN trades[Size(sizes)].rows

\* _delay_predictions(): the signal of an earlier evaluated row of the
\* session, as far as there is one.
Delayed(sizes, rows, signals, delay) ==
    {r \in rows : /\ r - delay \in rows \cap signals
                  /\ SessionOf(sizes, r - delay) = SessionOf(sizes, r)}
=============================================================================
