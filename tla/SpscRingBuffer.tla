--------------------------- MODULE SpscRingBuffer ---------------------------
(***************************************************************************)
(* SPSCRingBuffer of concurrency/SpscRingBuffer.hpp: one producer thread,  *)
(* one consumer thread, two atomic indices.  Every atomic access and every *)
(* copy of a slot is a step of its own.  A value copied into a slot is     *)
(* Torn until the copy ends, so a reader that overlaps the writer shows.   *)
(*                                                                         *)
(* The indices are size_t: they wrap at IndexRange (2^64 in the build) and *)
(* are mapped to a slot by a mask.  The specification's names are the      *)
(* ring's own, so that a module can have both it and its recorder.         *)
(***************************************************************************)
EXTENDS Naturals, Sequences

CONSTANTS Capacity,     \* template argument, a power of two
          IndexRange,   \* number of values of size_t
          BatchSize,    \* maximum_count of consume_batch()
          Value,        \* the payloads
          Torn          \* what a half-written slot reads as

\* The static_asserts, and that the index type is wider than the capacity.
ASSUME RingAssumption ==
    /\ Capacity \in Nat \ {0} /\ BatchSize \in Nat \ {0}
    /\ IndexRange \in Nat /\ IndexRange > Capacity
    /\ IndexRange % Capacity = 0
    /\ Torn \notin Value

Index == 0 .. IndexRange - 1

Advance(i, n) == (i + n) % IndexRange

\* Unsigned subtraction to - from.
Distance(from, to) == (IndexRange + to - from) % IndexRange

\* index & BufferMask
Slot(i) == i % Capacity

VARIABLES head, tail,   \* head_, tail_
          slots,        \* buffer_
          producer,     \* push(): where it is, its loaded head and argument
          consumer,     \* consume_batch(): where it is and its count
          destination,  \* consume_batch()'s argument
          delivered     \* the batch of the last call that returned

ringVars == <<head, tail, slots, producer, consumer, destination, delivered>>

Idle == [at |-> "idle"]

RingInit == /\ head = 0 /\ tail = 0
            /\ slots \in [0 .. Capacity - 1 -> {Torn}]
            /\ producer = Idle /\ consumer = Idle
            /\ destination = <<>> /\ delivered = <<>>

-----------------------------------------------------------------------------
(* push() *)

PushLoadsHead(v) ==
    /\ producer = Idle
    /\ producer' = [at |-> "loaded", value |-> v, seen |-> head]
    /\ UNCHANGED <<head, tail, slots, consumer, destination, delivered>>

\* Mutant: the capacity test is off by one.
FullLate(seen) == Distance(seen, tail) > Capacity

Full(seen) == Distance(seen, tail) >= Capacity

PushRefused ==
    /\ producer.at = "loaded" /\ Full(producer.seen)
    /\ producer' = Idle
    /\ UNCHANGED <<head, tail, slots, consumer, destination, delivered>>

PushStartsCopy ==
    /\ producer.at = "loaded" /\ ~ Full(producer.seen)
    /\ slots' = [slots EXCEPT ![Slot(tail)] = Torn]
    /\ producer' = [producer EXCEPT !.at = "copying"]
    /\ UNCHANGED <<head, tail, consumer, destination, delivered>>

PushEndsCopy ==
    /\ producer.at = "copying"
    /\ slots' = [slots EXCEPT ![Slot(tail)] = producer.value]
    /\ producer' = [producer EXCEPT !.at = "copied"]
    /\ UNCHANGED <<head, tail, consumer, destination, delivered>>

\* Mutant: the tail is published before the payload is whole.
PushPublishesEarly ==
    /\ producer.at \in {"copying", "copied"}
    /\ tail' = Advance(tail, 1)
    /\ producer' = Idle
    /\ UNCHANGED <<head, slots, consumer, destination, delivered>>

PushPublishes ==
    /\ producer.at = "copied"
    /\ tail' = Advance(tail, 1)
    /\ producer' = Idle
    /\ UNCHANGED <<head, slots, consumer, destination, delivered>>

-----------------------------------------------------------------------------
(* consume_batch() *)

\* The tail is loaded; with nothing available the call returns 0 at once.
ConsumeLoadsTail ==
    /\ consumer = Idle
    /\ \E count \in 0 .. BatchSize :
         /\ count = IF Distance(head, tail) < BatchSize
                    THEN Distance(head, tail) ELSE BatchSize
         /\ IF count = 0
            THEN delivered' = <<>> /\ UNCHANGED consumer
            ELSE /\ consumer' = [at |-> "copying", count |-> count]
                 /\ UNCHANGED delivered
    /\ destination' = <<>>
    /\ UNCHANGED <<head, tail, slots, producer>>

ConsumeCopies ==
    /\ consumer.at = "copying" /\ Len(destination) < consumer.count
    /\ destination' = Append(destination, slots[Slot(head + Len(destination))])
    /\ UNCHANGED <<head, tail, slots, producer, consumer, delivered>>

\* Mutant: the slots go back to the producer before the last copy.
ConsumeReleasesEarly ==
    /\ consumer.at = "copying" /\ Len(destination) + 1 >= consumer.count
    /\ head' = Advance(head, consumer.count)
    /\ delivered' = destination
    /\ consumer' = Idle
    /\ UNCHANGED <<tail, slots, producer, destination>>

ConsumeReleases ==
    /\ consumer.at = "copying" /\ Len(destination) = consumer.count
    /\ head' = Advance(head, consumer.count)
    /\ delivered' = destination
    /\ consumer' = Idle
    /\ UNCHANGED <<tail, slots, producer, destination>>

\* reset(): only when neither end is using the queue.
ResetWhenIdle ==
    /\ producer = Idle /\ consumer = Idle
    /\ head' = 0 /\ tail' = 0
    /\ UNCHANGED <<slots, producer, consumer, destination, delivered>>

-----------------------------------------------------------------------------

PushEnds == PushRefused \/ PushStartsCopy \/ PushEndsCopy \/ PushPublishes

ConsumeEnds == ConsumeCopies \/ ConsumeReleases

RingNext == \/ \E v \in Value : PushLoadsHead(v)
            \/ PushEnds
            \/ ConsumeLoadsTail \/ ConsumeEnds
            \/ ResetWhenIdle

RingSpec == RingInit /\ [][RingNext]_ringVars

-----------------------------------------------------------------------------
(* Correctness *)

\* Every variable holds a value of its kind, whatever the indices wrap to.
RingTypeOK ==
    /\ head \in Index /\ tail \in Index
    /\ slots \in [0 .. Capacity - 1 -> Value \cup {Torn}]
    /\ \/ producer = Idle
       \/ producer \in [at : {"loaded", "copying", "copied"}, value : Value,
                        seen : Index]
    /\ \/ consumer = Idle
       \/ consumer \in [at : {"copying"}, count : 1 .. BatchSize]
    /\ destination \in Seq(Value) /\ delivered \in Seq(Value)

\* The producer never writes a slot whose copy the consumer may still be
\* taking: the acquire/release pairs leave no data race on buffer_.
NoDataRace ==
    producer.at = "copying" /\ consumer.at = "copying"
        => \A k \in 0 .. consumer.count - 1 : Slot(head + k) # Slot(tail)

\* The values between the indices, oldest first.
Published == [i \in 1 .. Distance(head, tail) |-> slots[Slot(head + i - 1)]]

AsFifo == INSTANCE BoundedFifo WITH queue <- Published

\* Seen from outside, the ring is a bounded FIFO: an element is published by
\* the store of tail_ and a batch taken by the store of head_, whole, in
\* order, once, and never more than Capacity of them.
FifoSpec == AsFifo!Spec
=============================================================================
