---------------------------- MODULE BoundedFifo ----------------------------
(***************************************************************************)
(* What a lock-free queue promises to the one thread that pushes and the   *)
(* one thread that drains: a FIFO of bounded length whose operations take  *)
(* effect in one instant, values delivered whole, in order and once.       *)
(***************************************************************************)
EXTENDS Naturals, Sequences

CONSTANTS Value, Capacity, BatchSize

VARIABLES queue,       \* published values that have not been delivered
          delivered    \* what the last consume_batch() returned

vars == <<queue, delivered>>

Init == queue = <<>> /\ delivered = <<>>

Push(v) == /\ Len(queue) < Capacity
           /\ queue' = Append(queue, v)
           /\ UNCHANGED delivered

\* A batch is a prefix of the queue; it is empty only when the queue is.
ConsumeBatch ==
    \E n \in 0 .. BatchSize :
        /\ n <= Len(queue)
        /\ n = 0 => queue = <<>>
        /\ delivered' = SubSeq(queue, 1, n)
        /\ queue' = SubSeq(queue, n + 1, Len(queue))

Reset == queue' = <<>> /\ UNCHANGED delivered

Next == (\E v \in Value : Push(v)) \/ ConsumeBatch \/ Reset

Spec == Init /\ [][Next]_vars
=============================================================================
