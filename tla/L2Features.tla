----------------------------- MODULE L2Features -----------------------------
(***************************************************************************)
(* build_feature_set() of research/l2_features.py on one recording: which  *)
(* events a feature row and its label are made of.  An event is its        *)
(* position; the arithmetic over the levels of a book is left out, and     *)
(* every vector is finite.                                                 *)
(***************************************************************************)
EXTENDS L2Recording

CONSTANTS MaxHistory,   \* depth events before the one a row describes
          Horizon       \* observations to its label

ASSUME FeatureAssumption == MaxHistory \in Nat /\ Horizon \in Nat \ {0}

\* The loop in progress: the book, whether no line has raised, what the
\* L2FeatureBuilder remembers, the observations of this segment, the rows.
BuildStart == [book |-> ClearedBook, ok |-> TRUE, depths |-> <<>>,
               trades |-> {}, segment |-> <<>>, rows |-> <<>>]

\* Mutant: the label counts its own observation in.
FinishSegmentEarly(b) ==
    LET labelled == {k \in DOMAIN b.segment : k + Horizon - 1 \in DOMAIN b.segment}
        rows == [k \in labelled |-> [now |-> b.segment[k],
                                     future |-> b.segment[k + Horizon - 1]]]
    IN [b EXCEPT !.rows = @ \o rows, !.segment = <<>>]

\* finish_segment(): a row for every observation with a label in the segment.
FinishSegment(b) ==
    LET labelled == {k \in DOMAIN b.segment : k + Horizon \in DOMAIN b.segment}
        rows == [k \in labelled |-> [now |-> b.segment[k],
                                     future |-> b.segment[k + Horizon]]]
    IN [b EXCEPT !.rows = @ \o rows, !.segment = <<>>]

\* Mutant: the segment ends and the builder keeps its history.
RestartKeepsHistory(b, book) ==
    [FinishSegment(b) EXCEPT !.book = book]

\* reset() of the builder
ResetBuilder(b) == [b EXCEPT !.depths = <<>>, !.trades = {}]

\* on_trade(): the window of the latest trades, without its limit.
OnTradeEvent(b, i) == [b EXCEPT !.trades = @ \cup {i}]

\* Boundary and Snapshot: the segment ends and the builder is reset.
Restart(b, book) ==
    [ResetBuilder(FinishSegment(b)) EXCEPT !.book = book]

\* install_snapshot() raises on a book it rejects; clear() looks at nothing.
RestartFrom(b, id) ==
    [Restart(b, SnapshotBook(id)) EXCEPT !.ok = ~ Rejected(SnapshotBook(id))]

\* apply_and_build(): an observation needs a full history.
Observe(b, e, i) ==
    LET book   == Applied(b.book, e)
        depths == Append(b.depths, i)
        recent == SubSeq(depths, Len(depths) - MaxHistory, Len(depths))
        seen   == [at |-> i, book |-> book,
                   events |-> Range(recent) \cup b.trades]
    IN [b EXCEPT !.book = book, !.ok = ~ Rejected(book), !.depths = depths,
                 !.segment = IF Len(depths) > MaxHistory THEN Append(@, seen)
                                                         ELSE @]

\* One event; once a line has raised nothing more happens.
BuildStep(b, e, i) ==
    IF ~ b.ok THEN b
    ELSE IF e.kind = "boundary" THEN Restart(b, ClearedBook)
    ELSE IF e.kind = "snapshot" THEN RestartFrom(b, e.id)
    ELSE IF e.kind = "trade" THEN OnTradeEvent(b, i)
    ELSE IF b.book.last = 0 \/ e.first > b.book.last + 1
         THEN [b EXCEPT !.ok = FALSE]
    ELSE IF e.final <= b.book.last THEN b
    ELSE Observe(b, e, i)

\* The loop after each number of events, and after its end.
BuildLoop(events) ==
    LET at[n \in 0 .. Len(events)] ==
            IF n = 0 THEN BuildStart ELSE BuildStep(at[n - 1], events[n], n)
    IN at

Build(events) == FinishSegment(BuildLoop(events)[Len(events)])
=============================================================================
