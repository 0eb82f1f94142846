---------------------------- MODULE L2Recording ----------------------------
(***************************************************************************)
(* The logical content of an .l2bin recording and what a replay makes of   *)
(* it: the loop of cli/verify_l2_replay.py over iter_events().  A state    *)
(* hash is abstracted to the book it fingerprints.                         *)
(***************************************************************************)
EXTENDS L2OrderBook, SequencesExt

BoundaryReason == {"connection_start", "connection_end", "sequence_gap",
                   "snapshot_retry", "queue_overflow", "user_stop"}

Boundary(reason) == [kind |-> "boundary", reason |-> reason]
Snapshot(id)     == [kind |-> "snapshot", id |-> id]
Depth(e)         == [kind |-> "depth", first |-> e.first, final |-> e.final]
TradeEvent       == [kind |-> "trade"]

\* A checkpoint names the number of events before it and the book there.
Checkpoint(index, book) == [index |-> index, book |-> book]

\* A replay in progress: the book, and whether no line has raised so far.
ReplayStart == [book |-> ClearedBook, ok |-> TRUE]

Loaded(r, book) == [book |-> book, ok |-> r.ok /\ ~ Rejected(book)]

\* One event of the loop; once a line has raised nothing more is applied.
ReplayStep(r, event) ==
    IF ~ r.ok THEN r
    ELSE IF event.kind = "boundary" THEN [r EXCEPT !.book = ClearedBook]
    ELSE IF event.kind = "snapshot" THEN Loaded(r, SnapshotBook(event.id))
    ELSE IF event.kind = "trade" \/ event.final <= r.book.last THEN r
    ELSE IF event.first > r.book.last + 1 THEN [r EXCEPT !.ok = FALSE]
    ELSE Loaded(r, Applied(r.book, event))

\* The replay after the first n events.
ReplayAt(events, n) ==
    LET at[i \in 0 .. n] == IF i = 0 THEN ReplayStart
                            ELSE ReplayStep(at[i - 1], events[i])
    IN at[n]

Replay(events) == ReplayAt(events, Len(events))

CheckpointHolds(events, c) == ReplayAt(events, c.index).book = c.book

\* The verdict of replay() on a whole recording and its final state.
Verifies(events, checkpoints, finalBook) ==
    /\ Replay(events).ok
    /\ \A i \in DOMAIN checkpoints : CheckpointHolds(events, checkpoints[i])
    /\ Replay(events).book = finalBook
=============================================================================
