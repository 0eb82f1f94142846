------------------------- MODULE DepthSynchronizer -------------------------
(***************************************************************************)
(* DepthSynchronizer of market_data/l2_order_book.py: buffer depth updates *)
(* until a REST snapshot bridges them, then apply only contiguous ones.    *)
(*                                                                         *)
(* The object is a record [state, buffer, book]; each method is an operator *)
(* from the object to [sync, result, applied], so that L2Capture can       *)
(* compose several calls in one handler.  A raised exception is the result *)
(* "raised" with the object as the raising line leaves it.                 *)
(***************************************************************************)
EXTENDS L2OrderBook, SequencesExt

CONSTANT MaxBuffered    \* maximum_buffered_events

ASSUME MaxBufferedAssumption == MaxBuffered \in Nat \ {0}

SyncState == {"awaiting_snapshot", "live", "gap"}
ApplyResult == {"applied", "ignored_stale", "buffered", "gap_detected"}
SnapshotResult == {"synchronized", "awaiting_bridge", "snapshot_too_old",
                   "gap_detected"}

Synchronizer == [state : SyncState, buffer : Seq(DepthUpdate), book : Book]

\* __init__()
NewSynchronizer == [state |-> "awaiting_snapshot", buffer |-> <<>>,
                    book |-> ClearedBook]

Outcome(s, result, applied) ==
    [sync |-> s, result |-> result, applied |-> applied]

Done(s, result) == Outcome(s, result, <<>>)

\* reset(preserve_buffer)
Reset(s, preserveBuffer) ==
    [state |-> "awaiting_snapshot",
     buffer |-> IF preserveBuffer THEN s.buffer ELSE <<>>,
     book |-> ClearedBook]

-----------------------------------------------------------------------------
(* Live updates *)

\* Mutant: the capacity test lets one event too many in.
BufferFullLate(s) == Len(s.buffer) > MaxBuffered

BufferFull(s) == Len(s.buffer) >= MaxBuffered

OutOfOrder(s, e) == /\ s.buffer # <<>>
                    /\ e.final < s.buffer[Len(s.buffer)].final

\* _buffer_event(): the two refusals leave the object in the gap state.
BufferEvent(s, e, result) ==
    IF BufferFull(s) \/ OutOfOrder(s, e)
    THEN Done([s EXCEPT !.state = "gap"], "raised")
    ELSE Done([s EXCEPT !.buffer = Append(@, e)], result)

\* Mutant: a gap of one update passes.
GapOfTwo(e, local) == e.first > local + 2

Stale(e, local) == e.final <= local
Gap(e, local)   == e.first > local + 1

\* Mutant: a gap buffers the event but leaves the object live.
ApplyLiveKeepsState(s, e) ==
    IF Stale(e, s.book.last) THEN Done(s, "ignored_stale")
    ELSE IF Gap(e, s.book.last) THEN BufferEvent(s, e, "gap_detected")
    ELSE LET b == Applied(s.book, e)
         IN IF Rejected(b) THEN Done([s EXCEPT !.book = b], "raised")
            ELSE Outcome([s EXCEPT !.book = b, !.state = "live"],
                         "applied", <<e>>)

\* _apply_live()
ApplyLive(s, e) ==
    IF Stale(e, s.book.last) THEN Done(s, "ignored_stale")
    ELSE IF Gap(e, s.book.last)
    THEN BufferEvent([s EXCEPT !.state = "gap"], e, "gap_detected")
    ELSE LET b == Applied(s.book, e)
         IN IF Rejected(b) THEN Done([s EXCEPT !.book = b], "raised")
            ELSE Outcome([s EXCEPT !.book = b, !.state = "live"],
                         "applied", <<e>>)

\* ingest()
Ingest(s, e) == IF s.state # "live" THEN BufferEvent(s, e, "buffered")
                                    ELSE ApplyLive(s, e)

-----------------------------------------------------------------------------
(* Bridging a snapshot *)

\* What install_snapshot() keeps: the leading events that the snapshot id already covers are popped.
Retained(buffer, id) ==
    LET newer == {i \in DOMAIN buffer : ~ Stale(buffer[i], id)}
    IN IF newer = {} THEN <<>> ELSE SubSeq(buffer, Min(newer), Len(buffer))

\* The id of the book when the loop over the pending events reaches event i:
\* _buffer_event() keeps the buffer ordered by final id.
LocalBefore(pending, id, i) == IF i = 1 THEN id ELSE pending[i - 1].final

\* Mutant: only the bridging event is tested for continuity.
BrokenAtBridge(pending, id, i) == i = 1 /\ Gap(pending[i], id)

Skipped(pending, id, i)   == Stale(pending[i], LocalBefore(pending, id, i))
Broken(pending, id, i)    == Gap(pending[i], LocalBefore(pending, id, i))
Poisoned(pending, id, i)  == /\ ~ Skipped(pending, id, i)
                             /\ ~ Broken(pending, id, i)
                             /\ pending[i].final \in Unsound

\* The positions at which the loop leaves the pending events.
Halts(pending, id) == {i \in DOMAIN pending : \/ Broken(pending, id, i)
                                              \/ Poisoned(pending, id, i)}

\* The number of pending events consumed before the loop stops.
Consumed(pending, id) == IF Halts(pending, id) = {} THEN Len(pending)
                         ELSE Min(Halts(pending, id)) - 1

\* The book after the first n pending events.
BookAfter(pending, id, n) ==
    [ids  |-> (1 .. id) \cup UNION {pending[i].first .. pending[i].final :
                                      i \in {j \in 1 .. n :
                                               ~ Skipped(pending, id, j)}},
     last |-> LocalBefore(pending, id, n + 1)]

\* The applied_events of the first n pending events.
AppliedEvents(pending, id, n) ==
    LET from[i \in 0 .. n] ==
            IF i = 0 THEN <<>>
            ELSE IF Skipped(pending, id, i) THEN from[i - 1]
            ELSE Append(from[i - 1], pending[i])
    IN from[n]

\* Mutant: only the event that shows a gap survives it.
LeftoverGapOnly(pending, n) == <<pending[n + 1]>>

\* The event that shows a gap and those behind it return to the buffer.
Leftover(pending, n) == SubSeq(pending, n + 1, Len(pending))

\* The loop over the pending events once the first of them bridges.
Bridge(pending, id) ==
    LET n == Consumed(pending, id)
        live(b) == [state |-> "live", buffer |-> <<>>, book |-> b]
        book == BookAfter(pending, id, n)
    IN IF Halts(pending, id) = {}
       THEN Outcome(live(book), "synchronized", AppliedEvents(pending, id, n))
       ELSE IF Broken(pending, id, n + 1)
       THEN Outcome([live(book) EXCEPT !.state = "gap",
                                       !.buffer = Leftover(pending, n)],
                    "gap_detected", AppliedEvents(pending, id, n))
       ELSE Done(live(Applied(book, pending[n + 1])), "raised")

\* install_snapshot()
InstallSnapshot(s, id) ==
    LET pending == Retained(s.buffer, id)
        kept == [s EXCEPT !.buffer = pending]
        replaced == [kept EXCEPT !.book = SnapshotBook(id)]
    IN IF pending # <<>> /\ Gap(pending[1], id)
       THEN Done(kept, "snapshot_too_old")
       ELSE IF Rejected(SnapshotBook(id)) THEN Done(replaced, "raised")
       ELSE IF pending = <<>>
       THEN Done([replaced EXCEPT !.state = "awaiting_snapshot"],
                 "awaiting_bridge")
       ELSE Bridge(pending, id)
=============================================================================
