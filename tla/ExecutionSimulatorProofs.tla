---------------------- MODULE ExecutionSimulatorProofs ----------------------
(***************************************************************************)
(* Proofs about ExecutionSimulator, for every set of orders, latency,      *)
(* queue model, limit and recording, and without the bounds of the run.    *)
(*                                                                         *)
(* An order goes from pending through active, or through the taker, to its *)
(* outcome (OrderInv), and a control leaves its list when it has had its   *)
(* effect (ControlInv).  Recorded time may go back: what keeps fills       *)
(* timely is not that time grows but that, where a fill can happen, every  *)
(* control and deadline still ahead is not earlier than the event.         *)
(***************************************************************************)
EXTENDS ExecutionSimulator, TLAPS, FiniteSetTheorems, SequenceTheorems

Fill == [order : Ids, at : Nat, maker : BOOLEAN, session : Nat,
         markouts : SUBSET Horizons]

\* Where the passive loops are, and where resting orders may be filled next.
Advancing == {"trade", "depth"}
AtEvent   == {"event"} \cup Advancing

\* The places before the event of the current iteration is applied.
Ahead == pc \in AtEvent \/ (pc \in {"controls", "taker"} /\ ~inclusive)

\* The types, by the part of the state.
ClockTypes ==
    /\ pc \in Places /\ inclusive \in BOOLEAN
    /\ now \in Nat /\ heard \in Nat /\ event \in Events /\ eventCount \in Nat
RequestTypes ==
    /\ submitted \subseteq Ids /\ IsFiniteSet(submitted) /\ pending \subseteq submitted
    /\ sent \subseteq [at : Nat, order : submitted] /\ cancels \subseteq sent
WorkTypes ==
    /\ status \in [Ids -> Statuses] /\ queueAhead \in [Ids -> Nat]
    /\ filled \in [Ids -> Nat] /\ \A o \in Ids : filled[o] <= Quantity(o)
    /\ active \subseteq submitted /\ placedIn \in [Ids -> Nat] /\ session \in Nat
LoopTypes ==
    /\ wanted \in Nat
    /\ pc = "taker" => taker \in Ids /\ todo \subseteq Prices
    /\ pc \in Advancing => todo \subseteq active
MarketTypes ==
    /\ book \in BookSides /\ consumed \in BookSides
    /\ bookReady \in BOOLEAN /\ mid \in Nat
AccountTypes ==
    /\ position \in Int /\ cash \in Int /\ killed \in BOOLEAN
    /\ fills \in Seq(Fill) /\ pendingMarkouts \subseteq DOMAIN fills

Types == ClockTypes /\ RequestTypes /\ WorkTypes /\ LoopTypes /\ MarketTypes
         /\ AccountTypes

EventInv ==
    /\ pc \in Advancing => event.kind = pc
    /\ Ahead /\ event.kind = "depth" => Sound(WithLevels(book, event.levels))

\* Where each order is, and what its status says of it.
OrderInv ==
    /\ \A o \in Ids \ submitted : status[o] = "absent"
    /\ \A o \in pending : status[o] = "absent"
    /\ \A o \in Ids : status[o] = "absent" => filled[o] = 0
    /\ \A o \in submitted : \/ o \in pending \cup active
                            \/ status[o] \in Terminal \cup {"partially_filled"}
                            \/ pc = "taker" /\ o = taker
    /\ \A o \in active : /\ status[o] \in Live \/ (pc \in Advancing /\ status[o] = "filled")
                         /\ Orders[o].limit \in Prices
                         /\ placedIn[o] = session
    /\ pc \in Advancing => \A o \in todo : status[o] \in Live
    /\ killed => active = {}
    /\ pc = "scheduling" => pending = submitted /\ fills = <<>>
    /\ pc = "done" => pending = {} /\ active = {}

\* The order that walks the book: all it wants still fits the position, since
\* none of its fills so far was dropped.
TakerInv ==
    pc = "taker" =>
        /\ taker \in submitted /\ status[taker] = "pending" /\ ~killed
        /\ placedIn[taker] = session
        /\ wanted + filled[taker] = Quantity(taker)
        /\ PositionAllows(taker, wanted)
        /\ \A c \in cancels : Arrival(taker) <= c.at

ControlInv ==
    /\ \A c \in sent \ cancels : status[c.order] \in Terminal
    /\ pc = "scheduling" => now = 0
    /\ pc \in AtEvent \cup {"reading", "done"} => \A c \in cancels : c.at >= now
    /\ pc \in AtEvent => \A o \in active : Orders[o].ttl > 0 => Expiry(o) > now

FillInv ==
    /\ FillsAreTimely
    /\ \A i \in DOMAIN fills : /\ status[fills[i].order] # "absent"
                               /\ fills[i].session = placedIn[fills[i].order]
    /\ \A i \in pendingMarkouts : fills[i].session = session

IInv == Types /\ EventInv /\ OrderInv /\ TakerInv /\ ControlInv /\ FillInv
             /\ WithinLimits

-----------------------------------------------------------------------------
(* Choices out of sets of naturals *)

\* Min of a set of naturals is its least element.
LEMMA MinOfNaturals ==
  ASSUME NEW S \in SUBSET Nat, S # {}
  PROVE  Min(S) \in S /\ \A n \in S : Min(S) <= n
<1> DEFINE less == OpToRel(<, Nat)
<1>1. \E m \in S : \A n \in S : ~ (<<n, m>> \in less)
  <2>1. IsWellFoundedOn(less, Nat)  BY NatLessThanWellFounded
  <2> HIDE DEF less
  <2> QED BY <2>1, WFMin
<1>2. \A m, n \in Nat : <<n, m>> \in less <=> n < m  BY DEF OpToRel
<1>3. \E m \in S : \A n \in S : m <= n
  <2> HIDE DEF less
  <2>1. PICK m \in S : \A n \in S : ~ (<<n, m>> \in less)  BY <1>1
  <2>2. \A n \in S : m \in Nat /\ n \in Nat /\ ~ (n < m)  BY <2>1, <1>2
  <2>3. \A n \in S : m <= n  BY <2>2
  <2> QED BY <2>3
<1> QED BY <1>3 DEF Min

\* A finite set of naturals has a greatest element: one with the fewest others
\* above it.
LEMMA MaxOfFinite ==
  ASSUME NEW S \in SUBSET Nat, IsFiniteSet(S), S # {}
  PROVE  Max(S) \in S /\ \A n \in S : n <= Max(S)
<1> DEFINE Above(n) == {k \in S : k > n}
           Counts == {Cardinality(Above(n)) : n \in S}
<1>1. \A n \in S : IsFiniteSet(Above(n)) /\ Cardinality(Above(n)) \in Nat
  <2> TAKE n \in S
  <2>1. Above(n) \in SUBSET S  OBVIOUS
  <2>2. IsFiniteSet(Above(n))  BY <2>1, FS_Subset
  <2> HIDE DEF Above
  <2> QED BY <2>2, FS_CardinalityType
<1>2. Counts \in SUBSET Nat /\ Counts # {}
  BY <1>1
<1>3. Min(Counts) \in Counts /\ \A k \in Counts : Min(Counts) <= k
  <2> HIDE DEF Counts
  <2> QED BY <1>2, MinOfNaturals
<1>4. PICK m \in S : \A n \in S : Cardinality(Above(m)) <= Cardinality(Above(n))
  <2> DEFINE least == Min(Counts)
  <2> HIDE DEF Above, least
  <2>1. least \in Counts /\ \A k \in Counts : least <= k
    BY <1>3 DEF least
  <2> QED BY <2>1
<1>5. \A n \in S : n <= m
  <2> SUFFICES ASSUME NEW n \in S, ~ (n <= m)  PROVE FALSE
    OBVIOUS
  <2>1. Above(n) \in SUBSET Above(m) /\ n \in Above(m) /\ n \notin Above(n)
    <3>1. n \in Nat /\ m \in Nat /\ n > m
      OBVIOUS
    <3>2. \A k \in S : k > n => k > m
      BY <3>1
    <3>3. ~ (n > n)
      BY <3>1
    <3> QED BY <3>1, <3>2, <3>3, Zenon
  <2>2. Cardinality(Above(n)) <= Cardinality(Above(m))
    BY <2>1, <1>1, FS_Subset
  <2>3. Cardinality(Above(n)) = Cardinality(Above(m))
    BY <2>2, <1>1, <1>4
  <2>4. Above(n) = Above(m)
    BY <2>1, <2>3, <1>1, FS_Subset
  <2> QED BY <2>1, <2>4
<1>6. \A x \in S : x \in Nat
  OBVIOUS
<1> QED BY <1>5, <1>6 DEF Max

\* The constants of an order are of their types.
LEMMA OrderTypes ==
  ASSUME NEW o \in Ids
  PROVE  /\ Orders[o] \in OrderRequest /\ o \in Nat
         /\ Arrival(o) \in Nat /\ Expiry(o) \in Nat
         /\ Quantity(o) \in Nat \ {0} /\ Orders[o].limit \in Prices \cup {0}
         /\ Orders[o].ttl \in Nat /\ Expiry(o) = Arrival(o) + Orders[o].ttl
BY OrdersAssumption, IdsAssumption, LatencyAssumption, MarketAssumption
   DEF OrderRequest, Ids, Arrival, Expiry, Quantity

\* The earliest of some orders is one of them, and arrives before the others.
LEMMA EarliestFacts ==
  ASSUME NEW S \in SUBSET Ids, S # {}
  PROVE  /\ Earliest(S) \in S
         /\ \A p \in S : Arrival(Earliest(S)) <= Arrival(p)
<1> DEFINE first == Min({Arrival(o) : o \in S})
           tied == {o \in S : Arrival(o) = first}
<1>1. first \in {Arrival(o) : o \in S} /\ \A o \in S : first <= Arrival(o)
  <2> DEFINE times == {Arrival(o) : o \in S}
  <2>1. times \in SUBSET Nat /\ times # {}
    BY OrderTypes
  <2>2. \A o \in S : Arrival(o) \in times
    OBVIOUS
  <2>3. Min(times) \in times /\ \A n \in times : Min(times) <= n
    <3> HIDE DEF times
    <3> QED BY <2>1, MinOfNaturals
  <2> QED BY <2>2, <2>3
<1>2. tied \in SUBSET Nat /\ tied # {}
  BY <1>1, OrderTypes
<1>3. Min(tied) \in tied /\ \A o \in tied : Min(tied) <= o
  BY <1>2, MinOfNaturals
<1>4. \A p \in S : Before(Min(tied), p)
  <2> TAKE p \in S
  <2>1. Arrival(p) \in Nat /\ Arrival(Min(tied)) = first /\ first <= Arrival(p)
    BY <1>1, <1>3, OrderTypes
  <2>2. CASE Arrival(p) = first
    <3>1. p \in tied  BY <2>2
    <3> QED BY <1>3, <2>1, <2>2, <3>1 DEF Before
  <2>3. CASE Arrival(p) # first
    <3>1. first \in Nat  BY <1>1, OrderTypes
    <3>2. first < Arrival(p)  BY <2>1, <2>3, <3>1
    <3> QED BY <2>1, <3>2 DEF Before
  <2> QED BY <2>2, <2>3
<1>5. \E o \in S : \A p \in S : Before(o, p)
  BY <1>3, <1>4
<1>6. Earliest(S) \in S /\ \A p \in S : Before(Earliest(S), p)
  BY <1>5 DEF Earliest
<1> QED BY <1>6, OrderTypes DEF Before

-----------------------------------------------------------------------------
(* The book *)

\* An update of a book is a book.
LEMMA UpdatedBook ==
  ASSUME NEW b \in BookSides, NEW u \in Updates
  PROVE  /\ WithLevels(b, u) \in BookSides
         /\ \A side \in Sides, p \in Prices :
               Touched(u, side, p) = {} => WithLevels(b, u)[side][p] = b[side][p]
<1>1. \A side \in Sides, p \in Prices : b[side][p] \in Nat
  BY DEF BookSides
<1>2. \A side \in Sides, p \in Prices : Touched(u, side, p) # {} =>
          (CHOOSE l \in Touched(u, side, p) : TRUE).quantity \in Nat
  <2> TAKE side \in Sides, p \in Prices
  <2> HAVE Touched(u, side, p) # {}
  <2>1. (CHOOSE l \in Touched(u, side, p) : TRUE) \in Touched(u, side, p)
    OBVIOUS
  <2>2. \A l \in Touched(u, side, p) : l.quantity \in Nat
    BY MarketAssumption DEF Touched
  <2> QED BY <2>1, <2>2
<1> QED BY <1>1, <1>2 DEF WithLevels, BookSides

LEMMA EmptyBook == Empty \in BookSides
BY DEF Empty, BookSides

\* A sound book has a midpoint.
LEMMA MidOfSound ==
  ASSUME NEW b \in BookSides, Sound(b)
  PROVE  BestBid(b) + BestAsk(b) \in Nat
<1>1. \A side \in Sides : PricesOn(b, side) \in SUBSET Prices
  BY DEF PricesOn
<1>2. \A side \in Sides : IsFiniteSet(PricesOn(b, side)) /\ PricesOn(b, side) \in SUBSET Nat
  BY <1>1, MarketAssumption, FS_Subset
<1>3. "bid" \in Sides /\ "ask" \in Sides
  BY DEF Sides
<1>4. PricesOn(b, "bid") # {} /\ PricesOn(b, "ask") # {}
  BY DEF Sound
<1>5. BestBid(b) \in Nat
  BY <1>2, <1>3, <1>4, MaxOfFinite DEF BestBid
<1>6. BestAsk(b) \in Nat
  BY <1>2, <1>3, <1>4, MinOfNaturals DEF BestAsk
<1> QED BY <1>5, <1>6

\* Liquidity used up stays within what is displayed when an update refreshes it.
LEMMA RefreshedFits ==
  ASSUME book \in BookSides, consumed \in BookSides, NEW u \in Updates,
         \A side \in Sides, p \in Prices : consumed[side][p] <= book[side][p]
  PROVE  /\ Refreshed(u) \in BookSides
         /\ \A side \in Sides, p \in Prices :
               Refreshed(u)[side][p] <= WithLevels(book, u)[side][p]
<1>1. Refreshed(u) \in BookSides
  BY DEF Refreshed, BookSides
<1>2. ASSUME NEW side \in Sides, NEW p \in Prices
      PROVE  Refreshed(u)[side][p] <= WithLevels(book, u)[side][p]
  <2>1. WithLevels(book, u)[side][p] \in Nat
    BY UpdatedBook DEF BookSides
  <2>2. CASE Touched(u, side, p) = {}
    <3>1. Refreshed(u)[side][p] = consumed[side][p]
      BY <2>2 DEF Refreshed
    <3> QED BY <3>1, <2>2, UpdatedBook
  <2>3. CASE Touched(u, side, p) # {}
    <3>1. Refreshed(u)[side][p] = 0
      BY <2>3 DEF Refreshed
    <3> QED BY <2>1, <3>1
  <2> QED BY <2>2, <2>3
<1> QED BY <1>1, <1>2

\* The live orders of a queue have finitely many units left.
LEMMA OwnQueueType ==
  ASSUME Types, NEW o \in Ids
  PROVE  OwnQueue(o) \in Nat
<1> DEFINE ahead == {p \in active : SameQueue(o, p) /\ status[p] \in Live}
           units == [p \in ahead |-> {p} \X (1 .. Remaining(p))]
           parts == {units[p] : p \in ahead}
<1>1. IsFiniteSet(ahead)
  <2>1. ahead \in SUBSET submitted  BY DEF Types, WorkTypes
  <2> QED BY <2>1, FS_Subset DEF Types, RequestTypes
<1>2. \A p \in ahead : IsFiniteSet(units[p])
  <2> TAKE p \in ahead
  <2>1. Remaining(p) \in Int
    BY OrderTypes DEF Types, WorkTypes, RequestTypes, Remaining
  <2>2. IsFiniteSet(1 .. Remaining(p)) /\ IsFiniteSet({p})
    <3> HIDE DEF ahead
    <3> QED BY <2>1, 1 \in Int, FS_Interval, FS_Singleton
  <2> QED BY <2>2, FS_Product
<1>3. IsFiniteSet(parts)
  <2> HIDE DEF ahead
  <2>1. units \in Surjection(ahead, parts)
    BY DEF Surjection
  <2> HIDE DEF units, parts
  <2> QED BY <1>1, <2>1, FS_Surjection
<1>4. \A s \in parts : IsFiniteSet(s)
  BY <1>2
<1>5. Cardinality(UNION parts) \in Nat
  <2> HIDE DEF parts
  <2> QED BY <1>3, <1>4, FS_UNION, FS_CardinalityType
<1>6. parts = {{p} \X (1 .. Remaining(p)) : p \in ahead}
  OBVIOUS
<1> QED BY <1>5, <1>6, Zenon DEF OwnQueue

-----------------------------------------------------------------------------
(* What the helpers of several actions do *)

\* _cancel_all() cancels the live ones of the orders it is given.
LEMMA CancelAllFacts ==
  ASSUME NEW st \in [Ids -> Statuses], NEW act \in SUBSET Ids, CancelAll(st, act)
  PROVE  /\ active' = {}
         /\ status' \in [Ids -> Statuses]
         /\ \A o \in Ids : \/ status'[o] = st[o] /\ ~ (o \in act /\ st[o] \in Live)
                           \/ status'[o] = "cancelled" /\ o \in act /\ st[o] \in Live
BY DEF CancelAll, Statuses

\* _check_kill_switch() leaves everything, or trips and cancels all.
LEMMA SwitchFacts ==
  ASSUME NEW st \in [Ids -> Statuses], NEW act \in SUBSET Ids, killed \in BOOLEAN,
         CheckKillSwitch(st, act)
  PROVE  /\ killed' \in BOOLEAN /\ (killed => killed')
         /\ active' \in SUBSET act
         /\ \/ killed' = killed /\ active' = act /\ status' = st
            \/ killed' /\ active' = {}
         /\ status' \in [Ids -> Statuses]
         /\ \A o \in Ids : \/ status'[o] = st[o] /\ (o \in act /\ st[o] \in Live => o \in active')
                           \/ status'[o] = "cancelled" /\ o \in act /\ st[o] \in Live
<1>1. CASE Breached
  <2>1. killed' = TRUE /\ CancelAll(st, act)  BY <1>1 DEF CheckKillSwitch
  <2> QED BY <2>1, CancelAllFacts
<1>2. CASE ~ Breached
  BY <1>2 DEF CheckKillSwitch
<1> QED BY <1>1, <1>2

NewFill(o, at, maker) == [order |-> o, at |-> at, maker |-> maker,
                          session |-> session, markouts |-> {}]

\* _record_fill() records a fill that the position allows, or nothing.
LEMMA RecordFillFacts ==
  ASSUME Types, NEW o \in Ids, NEW at \in Nat, NEW quantity \in Nat, NEW price \in Nat,
         NEW maker \in BOOLEAN, quantity <= Remaining(o), Within(position, MaxPosition),
         RecordFill(o, at, quantity, price, maker)
  PROVE  /\ position' \in Int /\ cash' \in Int
         /\ filled' \in [Ids -> Nat] /\ \A p \in Ids : filled'[p] <= Quantity(p)
         /\ \A p \in Ids \ {o} : filled'[p] = filled[p]
         /\ Within(position', MaxPosition)
         /\ fills' \in Seq(Fill) /\ pendingMarkouts' \subseteq DOMAIN fills'
         /\ \/ /\ PositionAllows(o, quantity)
               /\ filled'[o] = filled[o] + quantity
               /\ position' = position + Signed(o, quantity)
               /\ fills' = Append(fills, NewFill(o, at, maker))
               /\ pendingMarkouts' = pendingMarkouts \cup {Len(fills) + 1}
            \/ /\ ~ PositionAllows(o, quantity)
               /\ UNCHANGED <<position, filled, fills, pendingMarkouts>>
<1>1. /\ filled \in [Ids -> Nat] /\ position \in Int /\ cash \in Int
      /\ fills \in Seq(Fill) /\ pendingMarkouts \subseteq DOMAIN fills /\ session \in Nat
      /\ \A p \in Ids : filled[p] <= Quantity(p) /\ Quantity(p) \in Nat
  BY OrderTypes DEF Types, WorkTypes, AccountTypes
<1>2. Signed(o, quantity) \in Int
  BY DEF Signed
<1>3. CASE PositionAllows(o, quantity)
  <2>1. /\ position' = position + Signed(o, quantity)
        /\ cash' = cash - Signed(o, quantity) * price
        /\ filled' = [filled EXCEPT ![o] = @ + quantity]
        /\ fills' = Append(fills, NewFill(o, at, maker))
        /\ pendingMarkouts' = pendingMarkouts \cup {Len(fills) + 1}
    BY <1>3 DEF RecordFill, NewFill
  <2>2. filled[o] + quantity \in Nat /\ filled[o] + quantity <= Quantity(o)
    BY <1>1 DEF Remaining
  <2>3. NewFill(o, at, maker) \in Fill
    BY <1>1 DEF NewFill, Fill
  <2>4. fills' \in Seq(Fill) /\ Len(fills') = Len(fills) + 1
    BY <1>1, <2>1, <2>3
  <2>5. pendingMarkouts' \subseteq DOMAIN fills'
    BY <1>1, <2>1, <2>4
  <2>6. Signed(o, quantity) * price \in Int
    BY <1>2
  <2>7. Within(position', MaxPosition)
    BY <1>3, <2>1 DEF PositionAllows
  <2>8. filled' \in [Ids -> Nat] /\ \A p \in Ids : filled'[p] <= Quantity(p)
    BY <1>1, <2>1, <2>2
  <2>9. filled'[o] = filled[o] + quantity /\ \A p \in Ids \ {o} : filled'[p] = filled[p]
    BY <1>1, <2>1
  <2>10. position' \in Int /\ cash' \in Int
    <3> DEFINE cost == Signed(o, quantity) * price
    <3>1. cost \in Int  BY <2>6
    <3>2. cash' = cash - cost  BY <2>1
    <3> HIDE DEF cost
    <3>3. cash' \in Int  BY <1>1, <3>1, <3>2
    <3> QED BY <1>1, <1>2, <2>1, <3>3
  <2> QED BY <1>3, <2>1, <2>4, <2>5, <2>7, <2>8, <2>9, <2>10
<1>4. CASE ~ PositionAllows(o, quantity)
  BY <1>1, <1>4 DEF RecordFill, Within
<1> QED BY <1>3, <1>4

\* What is left of a volume behind the queue is a number of whole units.
LEMMA DivisionType ==
  ASSUME NEW n \in Nat, NEW d \in Nat \ {0}
  PROVE  n \div d \in Nat
OBVIOUS

\* One iteration of the passive loops touches the order o, and records at most
\* one fill, at the event.
Advanced(o) ==
    /\ o \in active /\ o \in Ids
    /\ position' \in Int /\ cash' \in Int /\ Within(position', MaxPosition)
    /\ filled' \in [Ids -> Nat] /\ \A p \in Ids : filled'[p] <= Quantity(p)
    /\ queueAhead' \in [Ids -> Nat]
    /\ status' \in [Ids -> Statuses]
    /\ status'[o] \in {status[o], "filled", "partially_filled"}
    /\ \A p \in Ids \ {o} : status'[p] = status[p] /\ filled'[p] = filled[p]
    /\ fills' \in Seq(Fill) /\ pendingMarkouts' \subseteq DOMAIN fills'
    /\ \/ /\ fills' = Append(fills, NewFill(o, now, TRUE))
          /\ pendingMarkouts' = pendingMarkouts \cup {Len(fills) + 1}
       \/ UNCHANGED <<fills, pendingMarkouts>>
    /\ todo' = todo \ {o}
    /\ UNCHANGED <<pc, inclusive, clock, requests, active, placedIn, taker, wanted,
                   market, killed>>

LEMMA AdvanceIsAdvanced ==
  ASSUME Types, Within(position, MaxPosition), pc \in Advancing,
         NEW o \in todo, Orders[o].limit \in Prices, NEW volume \in Nat, Advance(o, volume)
  PROVE  Advanced(o)
<1> DEFINE queued == Lesser(queueAhead[o], volume)
           quantity == Lesser(Remaining(o), (volume - queued) \div Unit)
<1>1. /\ o \in active /\ o \in Ids
      /\ status \in [Ids -> Statuses] /\ filled \in [Ids -> Nat]
      /\ queueAhead \in [Ids -> Nat]
      /\ position \in Int /\ cash \in Int /\ now \in Nat
      /\ fills \in Seq(Fill) /\ pendingMarkouts \subseteq DOMAIN fills
      /\ \A p \in Ids : filled[p] <= Quantity(p) /\ Quantity(p) \in Nat
  BY OrderTypes DEF Types, ClockTypes, RequestTypes, WorkTypes, LoopTypes, AccountTypes
<1>2. queued \in Nat /\ queued <= volume /\ queued <= queueAhead[o]
  BY <1>1 DEF Lesser
<1>3. volume - queued \in Nat
  BY <1>2
<1>4. (volume - queued) \div Unit \in Nat
  <2> HIDE DEF queued
  <2> QED BY <1>3, FractionAssumption, DivisionType
<1>5. Remaining(o) \in Nat
  BY <1>1 DEF Remaining
<1>6. quantity \in Nat /\ quantity <= Remaining(o)
  <2> HIDE DEF queued
  <2> QED BY <1>4, <1>5 DEF Lesser
<1>7. Orders[o].limit \in Nat
  BY MarketAssumption
<1>8. queueAhead' = [queueAhead EXCEPT ![o] = @ - queued]
  BY DEF Advance
<1>9. queueAhead' \in [Ids -> Nat]
  <2>1. queueAhead[o] - queued \in Nat  BY <1>1, <1>2
  <2> HIDE DEF queued
  <2> QED BY <1>1, <1>8, <2>1
<1>10. CASE quantity > 0
  <2>1. /\ RecordFill(o, now, quantity, Orders[o].limit, TRUE)
        /\ status' = [status EXCEPT ![o] = IF filled'[o] = Quantity(o) THEN "filled"
                                           ELSE "partially_filled"]
    BY <1>10 DEF Advance
  <2> HIDE DEF quantity
  <2>2. /\ position' \in Int /\ cash' \in Int
        /\ filled' \in [Ids -> Nat] /\ \A p \in Ids : filled'[p] <= Quantity(p)
        /\ \A p \in Ids \ {o} : filled'[p] = filled[p]
        /\ Within(position', MaxPosition)
        /\ fills' \in Seq(Fill) /\ pendingMarkouts' \subseteq DOMAIN fills'
        /\ \/ /\ fills' = Append(fills, NewFill(o, now, TRUE))
              /\ pendingMarkouts' = pendingMarkouts \cup {Len(fills) + 1}
           \/ UNCHANGED <<fills, pendingMarkouts>>
    BY <1>1, <1>6, <1>7, <2>1, RecordFillFacts
  <2>3. /\ status' \in [Ids -> Statuses]
        /\ status'[o] \in {"filled", "partially_filled"}
        /\ \A p \in Ids \ {o} : status'[p] = status[p]
    BY <1>1, <2>1 DEF Statuses
  <2>4. todo' = todo \ {o} /\ UNCHANGED <<pc, inclusive, clock, requests, active, placedIn,
                                          taker, wanted, market, killed>>
    BY DEF Advance
  <2> QED BY <1>1, <1>9, <2>2, <2>3, <2>4 DEF Advanced
<1>11. CASE ~ (quantity > 0)
  <2>1. UNCHANGED <<position, cash, filled, fills, pendingMarkouts, status>>
    BY <1>11 DEF Advance
  <2>2. Within(position', MaxPosition)
    BY <2>1
  <2>3. todo' = todo \ {o} /\ UNCHANGED <<pc, inclusive, clock, requests, active, placedIn,
                                          taker, wanted, market, killed>>
    BY DEF Advance
  <2> QED BY <1>1, <1>9, <2>1, <2>2, <2>3 DEF Advanced
<1> QED BY <1>10, <1>11

LEMMA AdvanceFacts ==
  ASSUME IInv, AdvanceOnTrade \/ AdvanceOnDepth
  PROVE  \E o \in todo : Advanced(o)
<1> DEFINE o == Earliest(todo)
<1>1. /\ Types /\ Within(position, MaxPosition) /\ pc \in Advancing /\ event.kind = pc
      /\ event \in Events /\ book \in BookSides /\ todo \subseteq active /\ active \subseteq Ids
      /\ todo # {} /\ \A p \in active : Orders[p].limit \in Prices
  BY DEF IInv, Types, ClockTypes, RequestTypes, WorkTypes, LoopTypes, MarketTypes, WithinLimits,
         EventInv, OrderInv, AdvanceOnTrade, AdvanceOnDepth, Advancing
<1>2. o \in todo /\ Orders[o].limit \in Prices
  BY <1>1, EarliestFacts
<1>3. Unit \in Nat /\ \A m, n \in Nat : m * n \in Nat
  BY FractionAssumption
<1>4. CASE AdvanceOnTrade
  <2>1. event.trade \in Trades
    BY <1>1, <1>4 DEF AdvanceOnTrade, Events
  <2>2. event.trade.quantity * Unit \in Nat
    BY <1>3, <2>1, MarketAssumption
  <2>3. Advance(o, event.trade.quantity * Unit)
    BY <1>4 DEF AdvanceOnTrade
  <2> HIDE DEF o
  <2> QED BY <1>1, <1>2, <2>2, <2>3, AdvanceIsAdvanced
<1>5. CASE AdvanceOnDepth
  <2>1. event.levels \in Updates
    BY <1>1, <1>5 DEF AdvanceOnDepth, Events
  <2>2. WithLevels(book, event.levels) \in BookSides
    BY <1>1, <2>1, UpdatedBook
  <2>3. Depletion(o) \in Nat
    <3> DEFINE old == book[RestingSide(o)][Orders[o].limit]
               new == WithLevels(book, event.levels)[RestingSide(o)][Orders[o].limit]
    <3>1. RestingSide(o) \in Sides
      BY DEF RestingSide, Sides
    <3>2. old \in Nat /\ new \in Nat
      BY <1>1, <1>2, <2>2, <3>1 DEF BookSides
    <3>3. Fraction \in Nat
      BY FractionAssumption DEF Fraction
    <3>4. Depletion(o) = IF new < old THEN (old - new) * Fraction ELSE 0
      BY DEF Depletion
    <3> HIDE DEF old, new, o
    <3> QED BY <1>3, <3>2, <3>3, <3>4
  <2>4. Advance(o, Depletion(o))
    BY <1>5 DEF AdvanceOnDepth
  <2> HIDE DEF o
  <2> QED BY <1>1, <1>2, <2>3, <2>4, AdvanceIsAdvanced
<1> QED BY <1>4, <1>5, <1>1 DEF AdvanceOnTrade, AdvanceOnDepth

\* Marking the book leaves the fills but for markouts that are due.
LEMMA MarkFacts ==
  ASSUME Types, NEW b \in BookSides, Sound(b), UpdateMidAndMarkouts(b)
  PROVE  /\ mid' \in Nat
         /\ fills' \in Seq(Fill) /\ Len(fills') = Len(fills)
         /\ \A i \in DOMAIN fills :
               /\ fills'[i].order = fills[i].order /\ fills'[i].at = fills[i].at
               /\ fills'[i].session = fills[i].session
               /\ \A h \in fills'[i].markouts \ fills[i].markouts :
                     i \in pendingMarkouts /\ now >= fills[i].at + h
         /\ pendingMarkouts' \subseteq pendingMarkouts
<1> DEFINE marked(i) == fills[i].markouts \cup {h \in Horizons : now >= fills[i].at + h}
<1>1. fills \in Seq(Fill)
  BY DEF Types, AccountTypes
<1>2. fills' = [i \in DOMAIN fills |-> IF i \in pendingMarkouts
                                       THEN [fills[i] EXCEPT !.markouts = marked(i)]
                                       ELSE fills[i]]
  BY DEF UpdateMidAndMarkouts
<1>3. \A i \in DOMAIN fills : fills[i] \in Fill /\ marked(i) \in SUBSET Horizons
  <2> TAKE i \in DOMAIN fills
  <2>1. fills[i] \in Fill  BY <1>1
  <2>2. fills[i].markouts \in SUBSET Horizons  BY <2>1 DEF Fill
  <2> QED BY <2>1, <2>2
<1>4. \A i \in DOMAIN fills :
         /\ fills'[i] \in Fill
         /\ fills'[i].order = fills[i].order /\ fills'[i].at = fills[i].at
         /\ fills'[i].session = fills[i].session
         /\ fills'[i].markouts = IF i \in pendingMarkouts THEN marked(i) ELSE fills[i].markouts
  <2> HIDE DEF marked
  <2> QED BY <1>2, <1>3 DEF Fill
<1>5. fills' \in Seq(Fill) /\ Len(fills') = Len(fills)
  <2>1. DOMAIN fills = 1 .. Len(fills) /\ Len(fills) \in Nat
    BY <1>1
  <2>2. fills' \in [1 .. Len(fills) -> Fill]
    BY <1>2, <1>4, <2>1
  <2> QED BY <2>1, <2>2, SeqDef
<1>6. mid' \in Nat
  BY MidOfSound DEF UpdateMidAndMarkouts
<1>7. pendingMarkouts' \subseteq pendingMarkouts
  BY DEF UpdateMidAndMarkouts
<1> QED BY <1>4, <1>5, <1>6, <1>7

\* An amount, perhaps none, of the level p of a side goes to the taker.
Taken(side, p, quantity) ==
    /\ taker \in Ids /\ quantity <= wanted /\ wanted' = wanted - quantity
    /\ filled' \in [Ids -> Nat] /\ \A o \in Ids : filled'[o] <= Quantity(o)
    /\ filled'[taker] = filled[taker] + quantity
    /\ \A o \in Ids \ {taker} : filled'[o] = filled[o]
    /\ position' \in Int /\ position' = position + Signed(taker, quantity)
    /\ cash' \in Int /\ Within(position', MaxPosition)
    /\ PositionAllows(taker, wanted)
    /\ consumed[side][p] + quantity <= book[side][p] \/ quantity = 0
    /\ consumed' = [consumed EXCEPT ![side][p] = @ + quantity]
    /\ fills' \in Seq(Fill) /\ pendingMarkouts' \subseteq DOMAIN fills'
    /\ \/ /\ fills' = Append(fills, NewFill(taker, Arrival(taker), FALSE))
          /\ pendingMarkouts' = pendingMarkouts \cup {Len(fills) + 1}
       \/ UNCHANGED <<fills, pendingMarkouts>>

\* One level of the walk takes what is displayed there and not used up, and what
\* it takes is filled: the position allows every part of what it allows whole.
LEMMA TakeLevelFacts ==
  ASSUME IInv, TakeLevel
  PROVE  \E side \in Sides, p \in Prices, quantity \in Nat :
           Taken(side, p, quantity)
<1> DEFINE side == TakingSide(taker)
           p == BestLeft
           left == book[side][p] - consumed[side][p]
           quantity == Lesser(wanted, IF left > 0 THEN left ELSE 0)
<1>1. /\ Types /\ wanted \in Nat /\ book \in BookSides /\ consumed \in BookSides
      /\ taker \in Ids /\ todo \subseteq Prices /\ todo # {}
      /\ filled \in [Ids -> Nat] /\ position \in Int /\ cash \in Int
      /\ fills \in Seq(Fill) /\ pendingMarkouts \subseteq DOMAIN fills
      /\ \A o \in Ids : filled[o] <= Quantity(o)
      /\ wanted + filled[taker] = Quantity(taker)
      /\ PositionAllows(taker, wanted) /\ Within(position, MaxPosition)
  BY DEF IInv, Types, LoopTypes, MarketTypes, WorkTypes, AccountTypes, TakerInv, WithinLimits,
         TakeLevel, Walking
<1>2. side \in Sides
  BY DEF TakingSide, Sides
<1>3. p \in Prices /\ p \in Nat
  <2>1. todo \in SUBSET Nat /\ IsFiniteSet(todo)
    BY <1>1, MarketAssumption, FS_Subset
  <2> QED BY <1>1, <2>1, MinOfNaturals, MaxOfFinite DEF BestLeft
<1>4. book[side][p] \in Nat /\ consumed[side][p] \in Nat
  BY <1>1, <1>2, <1>3 DEF BookSides
<1>5. /\ quantity \in Nat /\ quantity <= wanted
      /\ quantity > 0 => consumed[side][p] + quantity <= book[side][p]
  BY <1>1, <1>4 DEF Lesser
<1>6. Remaining(taker) = wanted /\ Quantity(taker) \in Nat
  BY <1>1, OrderTypes DEF Remaining
<1>7. PositionAllows(taker, quantity)
  BY <1>1, <1>5, LimitAssumption DEF PositionAllows, Within, Signed
<1>8. Arrival(taker) \in Nat
  BY <1>1, OrderTypes
<1>9. CASE quantity > 0
  <2>1. /\ RecordFill(taker, Arrival(taker), quantity, p, FALSE)
        /\ consumed' = [consumed EXCEPT ![side][p] = @ + quantity]
        /\ wanted' = wanted - quantity
    BY <1>9 DEF TakeLevel
  <2> HIDE DEF side, p, quantity
  <2>2. /\ position' \in Int /\ cash' \in Int
        /\ filled' \in [Ids -> Nat] /\ \A o \in Ids : filled'[o] <= Quantity(o)
        /\ \A o \in Ids \ {taker} : filled'[o] = filled[o]
        /\ Within(position', MaxPosition)
        /\ fills' \in Seq(Fill) /\ pendingMarkouts' \subseteq DOMAIN fills'
        /\ filled'[taker] = filled[taker] + quantity
        /\ position' = position + Signed(taker, quantity)
        /\ fills' = Append(fills, NewFill(taker, Arrival(taker), FALSE))
        /\ pendingMarkouts' = pendingMarkouts \cup {Len(fills) + 1}
    <3>1. quantity <= Remaining(taker) /\ FALSE \in BOOLEAN
      BY <1>5, <1>6
    <3> QED BY <1>1, <1>3, <1>5, <1>7, <1>8, <2>1, <3>1, RecordFillFacts
  <2>3. consumed[side][p] + quantity <= book[side][p]
    BY <1>5, <1>9
  <2>4. Taken(side, p, quantity)
    BY <1>1, <1>5, <2>1, <2>2, <2>3 DEF Taken
  <2> QED BY <1>2, <1>3, <1>5, <2>4
<1>10. CASE ~ (quantity > 0)
  <2>1. UNCHANGED <<position, cash, filled, fills, pendingMarkouts, consumed, wanted>>
    BY <1>10 DEF TakeLevel
  <2> HIDE DEF side, p, quantity
  <2>2. quantity = 0
    BY <1>5, <1>10
  <2>3. position' = position + Signed(taker, quantity)
    BY <1>1, <2>1, <2>2 DEF Signed
  <2>4. consumed' = [consumed EXCEPT ![side][p] = @ + quantity]
    BY <1>1, <1>2, <1>3, <1>4, <2>1, <2>2 DEF BookSides
  <2>5. filled'[taker] = filled[taker] + quantity /\ wanted' = wanted - quantity
    BY <1>1, <2>1, <2>2
  <2>6. Within(position', MaxPosition)
    BY <1>1, <2>1
  <2>7. Taken(side, p, quantity)
    BY <1>1, <1>5, <2>1, <2>2, <2>3, <2>4, <2>5, <2>6 DEF Taken
  <2> QED BY <1>2, <1>3, <1>5, <2>7
<1> QED BY <1>9, <1>10

-----------------------------------------------------------------------------
(* Every variable keeps its type *)

LEMMA TypesInit == Init => Types
<1> SUFFICES ASSUME Init PROVE Types
  OBVIOUS
<1>1. ClockTypes
  BY DEF Init, ClockTypes, NoEvent, Events, Places
<1>2. RequestTypes
  BY FS_EmptySet DEF Init, RequestTypes
<1>3. WorkTypes
  BY OrderTypes DEF Init, WorkTypes, Statuses
<1>4. LoopTypes
  BY DEF Init, LoopTypes, Advancing
<1>5. MarketTypes
  BY EmptyBook DEF Init, MarketTypes
<1>6. AccountTypes
  <2>1. fills \in Seq(Fill)
    BY DEF Init
  <2>2. killed \in BOOLEAN
    BY DEF Init
  <2>3. position \in Int /\ cash \in Int /\ pendingMarkouts \subseteq DOMAIN fills
    BY DEF Init
  <2> QED BY <2>1, <2>2, <2>3 DEF AccountTypes
<1> QED BY <1>1, <1>2, <1>3, <1>4, <1>5, <1>6 DEF Types

LEMMA ClockTypesHold ==
  ASSUME Types, [Next]_vars  PROVE ClockTypes'
<1> USE DEF ClockTypes, Places
<1>0. ClockTypes
  BY DEF Types
<1>1. ASSUME NEW e \in Events, NEW t \in 1 .. MaxTime, ReadEvent(e, t)  PROVE ClockTypes'
  <2>1. t \in Nat
    BY TimeAssumption
  <2>2. /\ now' = t /\ event' = e /\ eventCount' = eventCount + 1
        /\ heard' \in {heard, t} /\ pc' = "controls"
    BY <1>1 DEF ReadEvent
  <2>3. inclusive' \in BOOLEAN
    BY <1>1 DEF ReadEvent
  <2> QED BY <1>0, <2>1, <2>2, <2>3
<1>2. CASE Controls
  <2>1. NoEvent \in Events
    BY DEF NoEvent, Events
  <2> QED BY <1>0, <1>2, <2>1 DEF Controls, Expire, RejectNext, TakeNext, RestNext, TakeLevel,
             TakerDone, ProcessNextCancel, ControlsDone, Enter, clock
<1>3. ASSUME \/ OnBoundary \/ OnSnapshot \/ OnStaleDepth \/ OnGap \/ OnTrade \/ TradeDone
             \/ OnDepth \/ DepthDone \/ EndOfRecording \/ AdvanceOnTrade \/ AdvanceOnDepth
      PROVE  ClockTypes'
  BY <1>0, <1>3 DEF OnBoundary, OnSnapshot, OnStaleDepth, OnGap, OnTrade, TradeDone, OnDepth,
     DepthDone, EndOfRecording, AdvanceOnTrade, AdvanceOnDepth, Advance, ToLaterControls, clock
<1>4. ASSUME \/ \E o \in Ids : Submit(o) \/ \E t \in CancelTimes : Cancel(o, t)
             \/ Run \/ UNCHANGED vars
      PROVE  ClockTypes'
  BY <1>0, <1>4 DEF Submit, Cancel, Run, vars, clock
<1> QED BY <1>1, <1>2, <1>3, <1>4 DEF Next, Replay

LEMMA RequestTypesHold ==
  ASSUME Types, [Next]_vars  PROVE RequestTypes'
<1> USE DEF RequestTypes
<1>0. RequestTypes
  BY DEF Types
<1>1. ASSUME NEW o \in Ids, Submit(o)  PROVE RequestTypes'
  <2>1. IsFiniteSet(submitted \cup {o})
    BY <1>0, FS_AddElement
  <2> QED BY <1>0, <1>1, <2>1 DEF Submit
<1>2. ASSUME NEW o \in Ids, NEW t \in CancelTimes, Cancel(o, t)  PROVE RequestTypes'
  <2>1. [at |-> t + CancelLatency, order |-> o] \in [at : Nat, order : submitted]
    BY <1>2, TimeAssumption, LatencyAssumption DEF Cancel
  <2> QED BY <1>0, <1>2, <2>1 DEF Cancel
<1>3. CASE Controls
  BY <1>0, <1>3 DEF Controls, Expire, RejectNext, TakeNext, RestNext, TakeLevel, TakerDone,
     ProcessNextCancel, ControlsDone, Enter, requests
<1>4. CASE Replay
  BY <1>0, <1>4 DEF Replay, ReadEvent, OnBoundary, OnSnapshot, OnStaleDepth, OnGap, OnTrade,
     TradeDone, OnDepth, DepthDone, EndOfRecording, AdvanceOnTrade, AdvanceOnDepth, Advance,
     requests
<1>5. CASE Run \/ UNCHANGED vars
  BY <1>0, <1>5 DEF Run, vars, requests
<1> QED BY <1>1, <1>2, <1>3, <1>4, <1>5 DEF Next

LEMMA MarketTypesHold ==
  ASSUME IInv, [Next]_vars  PROVE MarketTypes'
<1> USE DEF MarketTypes
<1>0. MarketTypes /\ Types /\ EventInv /\ WithinLimits
  BY DEF IInv, Types
<1>1. CASE TakeLevel
  <2>1. UNCHANGED <<book, bookReady, mid>>
    BY <1>1 DEF TakeLevel
  <2>2. PICK side \in Sides, p \in Prices, quantity \in Nat : Taken(side, p, quantity)
    BY <1>1, TakeLevelFacts
  <2>3. consumed[side][p] + quantity \in Nat
    BY <1>0 DEF BookSides
  <2>4. consumed' \in BookSides
    BY <1>0, <2>2, <2>3 DEF BookSides, Taken
  <2> QED BY <1>0, <2>1, <2>4
<1>2. CASE OnBoundary
  BY <1>2, EmptyBook DEF OnBoundary
<1>3. CASE OnSnapshot
  <2>1. event.book \in Books
    BY <1>0, <1>3 DEF OnSnapshot, On, Types, ClockTypes, Events
  <2>2. event.book \in BookSides /\ Sound(event.book)
    BY <2>1, MarketAssumption, SnapshotAssumption
  <2>3. mid' \in Nat
    BY <1>0, <1>3, <2>2, MarkFacts DEF OnSnapshot
  <2> QED BY <1>3, <2>2, <2>3, EmptyBook DEF OnSnapshot
<1>4. CASE DepthDone
  <2>1. event.levels \in Updates
    BY <1>0, <1>4 DEF DepthDone, EventInv, Advancing, Types, ClockTypes, Events
  <2>2. WithLevels(book, event.levels) \in BookSides /\ Sound(WithLevels(book, event.levels))
    BY <1>0, <1>4, <2>1, UpdatedBook DEF DepthDone, EventInv, Ahead, AtEvent, Advancing
  <2>3. mid' \in Nat
    BY <1>0, <1>4, <2>2, MarkFacts DEF DepthDone
  <2>4. Refreshed(event.levels) \in BookSides
    BY <1>0, <2>1, RefreshedFits DEF WithinLimits
  <2> QED BY <1>0, <1>4, <2>2, <2>3, <2>4 DEF DepthDone
<1>5. ASSUME Next, ~ TakeLevel, ~ OnBoundary, ~ OnSnapshot, ~ DepthDone
      PROVE  MarketTypes'
  BY <1>0, <1>5 DEF Next, Submit, Cancel, Run, Controls, Expire, RejectNext, TakeNext, RestNext,
     TakerDone, ProcessNextCancel, ControlsDone, Enter, Replay, ReadEvent, OnStaleDepth, OnGap,
     OnTrade, TradeDone, OnDepth, EndOfRecording, AdvanceOnTrade, AdvanceOnDepth, Advance, market
<1>6. CASE UNCHANGED vars
  BY <1>0, <1>6 DEF vars, market
<1> QED BY <1>1, <1>2, <1>3, <1>4, <1>5, <1>6

LEMMA WorkTypesHold ==
  ASSUME IInv, [Next]_vars  PROVE WorkTypes'
<1> USE DEF WorkTypes
<1>0. /\ WorkTypes /\ RequestTypes /\ killed \in BOOLEAN /\ Types
      /\ submitted \in SUBSET Ids /\ active \in SUBSET Ids
  BY DEF IInv, Types, RequestTypes, AccountTypes
<1>1. NextOrder \in pending \/ pending = {}
  BY <1>0, EarliestFacts DEF NextOrder, RequestTypes
<1>2. CASE RejectNext
  <2> DEFINE st == [status EXCEPT ![NextOrder] = "rejected"]
  <2>1. CheckKillSwitch(st, active) /\ Enter(NextOrder) /\ NextOrder \in Ids
    BY <1>0, <1>1, <1>2 DEF RejectNext, Activating, RequestTypes
  <2>2. st \in [Ids -> Statuses]
    BY <1>0 DEF Statuses
  <2> HIDE DEF st
  <2>3. active' \in SUBSET active /\ status' \in [Ids -> Statuses]
    BY <1>0, <2>1, <2>2, SwitchFacts
  <2> QED BY <1>0, <1>2, <2>1, <2>3 DEF RejectNext, Enter, market
<1>3. CASE TakeNext
  <2>1. NextOrder \in pending /\ Enter(NextOrder)
    BY <1>1, <1>3 DEF TakeNext, Activating
  <2> QED BY <1>0, <1>3, <2>1 DEF TakeNext, Enter, market, Statuses, RequestTypes
<1>4. CASE RestNext
  <2> DEFINE o == NextOrder
             st == [status EXCEPT ![o] = "open"]
             ahead == book[RestingSide(o)][Orders[o].limit] * QueueAheadFraction
                      + OwnQueue(o) * Unit
  <2>1. CheckKillSwitch(st, active \cup {o}) /\ Enter(o) /\ ~ Marketable(o) /\ o \in submitted
    BY <1>0, <1>1, <1>4 DEF RestNext, Activating, RequestTypes
  <2>2. o \in Ids
    BY <1>0, <2>1
  <2>3. st \in [Ids -> Statuses]
    BY <1>0 DEF Statuses
  <2>4. ahead \in Nat
    <3>1. Orders[o].limit \in Prices
      BY <2>1, <2>2, OrderTypes DEF Marketable, IsMarket
    <3>2. book[RestingSide(o)][Orders[o].limit] \in Nat
      BY <1>0, <3>1 DEF BookSides, RestingSide, Sides, Types, MarketTypes
    <3>3. OwnQueue(o) \in Nat
      BY <1>0, <2>2, OwnQueueType
    <3>4. \A m, n \in Nat : m * n \in Nat /\ m + n \in Nat
      OBVIOUS
    <3>5. QueueAheadFraction \in Nat /\ Unit \in Nat
      BY FractionAssumption
    <3> HIDE DEF o
    <3> QED BY <3>2, <3>3, <3>4, <3>5
  <2>5. queueAhead' = [queueAhead EXCEPT ![o] = ahead]
    BY <1>4 DEF RestNext
  <2>6. UNCHANGED filled /\ UNCHANGED session /\ placedIn' = [placedIn EXCEPT ![o] = session]
        /\ UNCHANGED submitted
    BY <2>1 DEF Enter, market
  <2> HIDE DEF ahead, o, st
  <2>7. active' \in SUBSET (active \cup {o}) /\ status' \in [Ids -> Statuses]
    BY <1>0, <2>1, <2>2, <2>3, SwitchFacts
  <2> QED BY <1>0, <2>1, <2>4, <2>5, <2>6, <2>7
<1>5. CASE TakeLevel
  <2>1. filled' \in [Ids -> Nat] /\ \A o \in Ids : filled'[o] <= Quantity(o)
    BY <1>5, TakeLevelFacts DEF Taken
  <2> QED BY <1>0, <1>5, <2>1 DEF TakeLevel, requests
<1>6. CASE TakerDone
  <2> DEFINE st == [status EXCEPT ![taker] = TakerOutcome(taker)]
  <2>1. CheckKillSwitch(st, active)
    BY <1>6 DEF TakerDone
  <2>2. st \in [Ids -> Statuses]
    BY <1>0 DEF Statuses, TakerOutcome
  <2> HIDE DEF st
  <2>3. active' \in SUBSET active /\ status' \in [Ids -> Statuses]
    BY <1>0, <2>1, <2>2, SwitchFacts
  <2> QED BY <1>0, <1>6, <2>3 DEF TakerDone, requests, market
<1>7. CASE ControlsDone
  <2>1. CheckKillSwitch(status, active) \/ UNCHANGED <<active, status>>
    BY <1>7 DEF ControlsDone
  <2>2. active' \in SUBSET active /\ status' \in [Ids -> Statuses]
    BY <1>0, <2>1, SwitchFacts
  <2> QED BY <1>0, <1>7, <2>2 DEF ControlsDone, requests, market
<1>8. ASSUME NEW c \in cancels, ProcessNextCancel(c)  PROVE WorkTypes'
  BY <1>0, <1>8 DEF ProcessNextCancel, market, Statuses
<1>9. CASE OnBoundary
  <2>1. active' = {} /\ status' \in [Ids -> Statuses]
    BY <1>0, <1>9, CancelAllFacts DEF OnBoundary
  <2> QED BY <1>0, <1>9, <2>1 DEF OnBoundary, requests
<1>10. CASE AdvanceOnTrade \/ AdvanceOnDepth
  <2>1. PICK o \in todo : Advanced(o)
    BY <1>10, AdvanceFacts
  <2> QED BY <1>0, <2>1 DEF Advanced, requests, market
<1>11. CASE EndOfRecording
  BY <1>0, <1>11 DEF EndOfRecording, market, Statuses
<1>12. CASE Expire
  BY <1>0, <1>12 DEF Expire, market, requests, Statuses
<1>13. ASSUME \/ \E o \in Ids : Submit(o) \/ \E t \in CancelTimes : Cancel(o, t)
              \/ Run \/ UNCHANGED vars
       PROVE  WorkTypes'
  BY <1>0, <1>13 DEF Submit, Cancel, Run, vars, working, market, requests
<1>14. ASSUME \/ \E e \in Events, t \in 1 .. MaxTime : ReadEvent(e, t)
              \/ OnSnapshot \/ OnStaleDepth \/ OnGap \/ OnTrade \/ OnDepth
              \/ TradeDone \/ DepthDone
       PROVE  WorkTypes'
  BY <1>0, <1>14 DEF ReadEvent, OnSnapshot, OnStaleDepth, OnGap, OnTrade, OnDepth, TradeDone,
     DepthDone, StillActive, working, market, requests
<1> QED BY <1>2, <1>3, <1>4, <1>5, <1>6, <1>7, <1>8, <1>9, <1>10, <1>11, <1>12, <1>13, <1>14
        DEF Next, Controls, Replay, IInv

LEMMA LoopTypesHold ==
  ASSUME IInv, [Next]_vars  PROVE LoopTypes'
<1> USE DEF LoopTypes, Advancing
<1>0. /\ LoopTypes /\ Types /\ RequestTypes /\ active \subseteq Ids /\ MarketTypes
      /\ pc \in Advancing => todo \subseteq active
  BY DEF IInv, Types, RequestTypes, WorkTypes
<1>1. CASE TakeNext
  <2>1. NextOrder \in Ids
    BY <1>0, <1>1, EarliestFacts DEF NextOrder, RequestTypes, TakeNext, Activating
  <2>2. PricesOn(book, TakingSide(NextOrder)) \subseteq Prices
    BY DEF PricesOn
  <2>3. Quantity(NextOrder) \in Nat
    BY <2>1, OrderTypes
  <2> QED BY <1>1, <2>1, <2>2, <2>3 DEF TakeNext
<1>2. CASE TakeLevel
  <2>1. PICK side \in Sides, p \in Prices, quantity \in Nat : Taken(side, p, quantity)
    BY <1>2, TakeLevelFacts
  <2>2. wanted' \in Nat
    BY <1>0, <2>1 DEF Taken
  <2> QED BY <1>0, <1>2, <2>2 DEF TakeLevel, Walking
<1>3. CASE AdvanceOnTrade \/ AdvanceOnDepth
  <2>1. PICK o \in todo : Advanced(o)
    BY <1>3, AdvanceFacts
  <2>2. UNCHANGED <<pc, active, wanted>> /\ todo' \subseteq todo
    BY <2>1 DEF Advanced
  <2> QED BY <1>0, <1>3, <2>2 DEF AdvanceOnTrade, AdvanceOnDepth
<1>4. CASE OnTrade
  BY <1>0, <1>4 DEF OnTrade, Eligible, working
<1>5. CASE OnDepth
  BY <1>0, <1>5 DEF OnDepth, working
<1>6. CASE Expire \/ RejectNext \/ RestNext \/ TakerDone \/ (\E c \in cancels : ProcessNextCancel(c))
           \/ ControlsDone
  <2>1. pc' \in {"controls", "reading", "event"}
    BY <1>6 DEF Expire, RejectNext, RestNext, TakerDone, ProcessNextCancel, ControlsDone,
       Activating
  <2>2. wanted' \in {wanted, 0}
    BY <1>6 DEF Expire, RejectNext, RestNext, TakerDone, ProcessNextCancel, ControlsDone, loop
  <2> QED BY <1>0, <2>1, <2>2
<1>7. ASSUME \/ OnBoundary \/ OnSnapshot \/ OnStaleDepth \/ OnGap \/ TradeDone \/ DepthDone
             \/ EndOfRecording \/ \E e \in Events, t \in 1 .. MaxTime : ReadEvent(e, t)
      PROVE  LoopTypes'
  BY <1>0, <1>7 DEF OnBoundary, OnSnapshot, OnStaleDepth, OnGap, TradeDone, DepthDone,
     EndOfRecording, ReadEvent, ToLaterControls, loop
<1>8. ASSUME \/ \E o \in Ids : Submit(o) \/ \E t \in CancelTimes : Cancel(o, t)
             \/ Run \/ UNCHANGED vars
      PROVE  LoopTypes'
  BY <1>0, <1>8 DEF Submit, Cancel, Run, vars, loop, working
<1> QED BY <1>1, <1>2, <1>3, <1>4, <1>5, <1>6, <1>7, <1>8 DEF Next, Controls, Replay

LEMMA AccountTypesHold ==
  ASSUME IInv, [Next]_vars  PROVE AccountTypes'
<1> USE DEF AccountTypes
<1>0. /\ AccountTypes /\ Types /\ WorkTypes /\ active \in SUBSET Ids
      /\ EventInv /\ event \in Events /\ book \in BookSides
  BY DEF IInv, Types, RequestTypes, WorkTypes, ClockTypes, MarketTypes
<1>1. CASE TakeLevel
  <2>1. PICK side \in Sides, p \in Prices, quantity \in Nat : Taken(side, p, quantity)
    BY <1>1, TakeLevelFacts
  <2> QED BY <1>0, <1>1, <2>1 DEF Taken, TakeLevel
<1>2. CASE AdvanceOnTrade \/ AdvanceOnDepth
  <2>1. PICK o \in todo : Advanced(o)
    BY <1>2, AdvanceFacts
  <2> QED BY <1>0, <2>1 DEF Advanced
<1>3. CASE RejectNext \/ RestNext \/ TakerDone \/ ControlsDone
  <2>1. /\ UNCHANGED <<position, cash, fills, pendingMarkouts>>
        /\ killed' = killed \/ killed' = TRUE
    BY <1>3 DEF RejectNext, RestNext, TakerDone, ControlsDone, CheckKillSwitch, Enter
  <2>2. killed' \in BOOLEAN
    BY <1>0, <2>1
  <2> QED BY <1>0, <2>1, <2>2
<1>4. CASE OnSnapshot
  <2>1. event.book \in Books
    BY <1>0, <1>4 DEF OnSnapshot, On, Events
  <2>2. event.book \in BookSides /\ Sound(event.book)
    BY <2>1, MarketAssumption, SnapshotAssumption
  <2>3. fills' \in Seq(Fill) /\ Len(fills') = Len(fills) /\ pendingMarkouts' \subseteq pendingMarkouts
    BY <1>0, <1>4, <2>2, MarkFacts DEF OnSnapshot
  <2> QED BY <1>0, <1>4, <2>3 DEF OnSnapshot
<1>5. CASE DepthDone
  <2>1. event.levels \in Updates
    BY <1>0, <1>5 DEF DepthDone, EventInv, Advancing, Events
  <2>2. WithLevels(book, event.levels) \in BookSides /\ Sound(WithLevels(book, event.levels))
    BY <1>0, <1>5, <2>1, UpdatedBook DEF DepthDone, EventInv, Ahead, AtEvent, Advancing
  <2>3. fills' \in Seq(Fill) /\ Len(fills') = Len(fills) /\ pendingMarkouts' \subseteq pendingMarkouts
    BY <1>0, <1>5, <2>2, MarkFacts DEF DepthDone
  <2> QED BY <1>0, <1>5, <2>3 DEF DepthDone
<1>6. CASE Expire \/ TakeNext \/ (\E c \in cancels : ProcessNextCancel(c))
  BY <1>0, <1>6 DEF Expire, TakeNext, ProcessNextCancel, Enter, account
<1>7. ASSUME \/ OnBoundary \/ OnStaleDepth \/ OnGap \/ TradeDone \/ EndOfRecording
             \/ OnTrade \/ OnDepth \/ \E e \in Events, t \in 1 .. MaxTime : ReadEvent(e, t)
      PROVE  AccountTypes'
  BY <1>0, <1>7 DEF OnBoundary, OnStaleDepth, OnGap, TradeDone, EndOfRecording, OnTrade, OnDepth,
     ReadEvent, account
<1>8. ASSUME \/ \E o \in Ids : Submit(o) \/ \E t \in CancelTimes : Cancel(o, t)
             \/ Run \/ UNCHANGED vars
      PROVE  AccountTypes'
  BY <1>0, <1>8 DEF Submit, Cancel, Run, vars, account
<1> QED BY <1>1, <1>2, <1>3, <1>4, <1>5, <1>6, <1>7, <1>8 DEF Next, Controls, Replay

LEMMA TypesPreserved ==
  ASSUME IInv, [Next]_vars  PROVE Types'
BY ClockTypesHold, RequestTypesHold, WorkTypesHold, LoopTypesHold, MarketTypesHold,
   AccountTypesHold DEF IInv, Types

-----------------------------------------------------------------------------
(* The event of the current iteration *)

LEMMA EventPreserved ==
  ASSUME IInv, [Next]_vars  PROVE EventInv'
<1> USE DEF EventInv, Ahead, AtEvent, Advancing
<1>0. EventInv
  BY DEF IInv
<1>1. ASSUME NEW e \in Events, NEW t \in 1 .. MaxTime, ReadEvent(e, t)  PROVE EventInv'
  BY <1>0, <1>1 DEF ReadEvent, market
<1>2. CASE Expire \/ RejectNext \/ TakeNext \/ RestNext \/ TakeLevel \/ TakerDone
           \/ (\E c \in cancels : ProcessNextCancel(c))
  <2>1. pc \in {"controls", "taker"} /\ pc' \in {"controls", "taker"}
    BY <1>2 DEF Expire, RejectNext, TakeNext, RestNext, TakeLevel, TakerDone, ProcessNextCancel,
       Walking, Activating
  <2>2. UNCHANGED <<inclusive, event, book>>
    BY <1>2 DEF Expire, RejectNext, TakeNext, RestNext, TakeLevel, TakerDone, ProcessNextCancel,
       Enter, market, clock
  <2> QED BY <1>0, <2>1, <2>2
<1>3. CASE ControlsDone
  BY <1>0, <1>3 DEF ControlsDone, market, NoEvent
<1>4. CASE OnTrade \/ OnDepth
  BY <1>0, <1>4 DEF OnTrade, OnDepth, On, market, clock
<1>5. CASE AdvanceOnTrade \/ AdvanceOnDepth
  <2>1. PICK o \in todo : Advanced(o)
    BY <1>5, AdvanceFacts
  <2> QED BY <1>0, <2>1 DEF Advanced, clock, market
<1>6. CASE OnBoundary \/ OnSnapshot \/ OnStaleDepth \/ OnGap \/ TradeDone \/ DepthDone
           \/ EndOfRecording \/ Run
  BY <1>6 DEF OnBoundary, OnSnapshot, OnStaleDepth, OnGap, TradeDone, DepthDone, EndOfRecording,
     Run, ToLaterControls
<1>7. ASSUME \/ \E o \in Ids : Submit(o) \/ \E t \in CancelTimes : Cancel(o, t)
             \/ UNCHANGED vars
      PROVE  EventInv'
  BY <1>0, <1>7 DEF Submit, Cancel, vars, clock, market
<1> QED BY <1>1, <1>2, <1>3, <1>4, <1>5, <1>6, <1>7 DEF Next, Controls, Replay

-----------------------------------------------------------------------------
(* Where the orders are *)

\* An order that is submitted has a place.
Placed(o) == \/ o \in pending \cup active
             \/ status[o] \in Terminal \cup {"partially_filled"}
             \/ pc = "taker" /\ o = taker

\* What one step may do to an order: leave it where it is, end it, let it rest,
\* or let it walk the book.
Stays(o) == /\ status'[o] = status[o] /\ placedIn'[o] = placedIn[o]
            /\ o \in pending' <=> o \in pending
            /\ o \in active' <=> o \in active
            /\ filled'[o] = filled[o] \/ status[o] # "absent"
            /\ pc = "taker" /\ o = taker => pc' = "taker" /\ o = taker'
Settles(o) == /\ o \in submitted /\ o \notin pending' /\ o \notin active'
              /\ status'[o] \in Terminal \cup {"partially_filled"}
Rests(o) == /\ o \in submitted /\ o \notin pending' /\ o \in active'
            /\ status'[o] \in Live /\ Orders[o].limit \in Prices /\ placedIn'[o] = session'
Walks(o) == /\ o \in submitted /\ o \notin pending' /\ o \notin active'
            /\ status'[o] = "pending" /\ pc' = "taker" /\ o = taker'

\* Where no passive loop is under way.
Calm == {"controls", "taker", "reading", "event"}

\* What a control finds.
LEMMA ControlFacts ==
  ASSUME IInv, pc \in Calm
  PROVE  /\ status \in [Ids -> Statuses] /\ submitted \subseteq Ids /\ pending \subseteq submitted
         /\ filled \in [Ids -> Nat]
         /\ active \subseteq submitted /\ placedIn \in [Ids -> Nat] /\ killed \in BOOLEAN
         /\ \A o \in Ids \ submitted : status[o] = "absent"
         /\ \A o \in pending : status[o] = "absent"
         /\ \A o \in Ids : status[o] = "absent" => filled[o] = 0
         /\ \A o \in submitted : Placed(o)
         /\ \A o \in active : /\ status[o] \in Live /\ Orders[o].limit \in Prices
                              /\ placedIn[o] = session
         /\ killed => active = {}
BY DEF IInv, Types, WorkTypes, RequestTypes, AccountTypes, OrderInv, Placed, Advancing, Calm

LEMMA OrderStep ==
  ASSUME IInv, pc \in Calm, pc' \in Calm, UNCHANGED submitted, killed' => active' = {},
         UNCHANGED session \/ active' = {},
         pending' \subseteq submitted, active' \subseteq submitted,
         \A o \in Ids : Stays(o) \/ Settles(o) \/ Rests(o) \/ Walks(o)
  PROVE  OrderInv'
<1> USE ControlFacts
<1>1. \A o \in Ids \ submitted' : status'[o] = "absent"
  BY DEF Stays, Settles, Rests, Walks
<1>2. \A o \in pending' : status'[o] = "absent"
  BY DEF Stays, Settles, Rests, Walks
<1>3. \A o \in Ids : status'[o] = "absent" => filled'[o] = 0
  BY DEF Stays, Settles, Rests, Walks, Terminal, Live
<1>4. \A o \in submitted' : \/ o \in pending' \cup active'
                            \/ status'[o] \in Terminal \cup {"partially_filled"}
                            \/ pc' = "taker" /\ o = taker'
  BY DEF Stays, Settles, Rests, Walks, Placed
<1>5. \A o \in active' : /\ status'[o] \in Live /\ Orders[o].limit \in Prices
                         /\ placedIn'[o] = session'
  BY DEF Stays, Settles, Rests, Walks
<1>6. pc' \notin Advancing /\ pc' # "scheduling" /\ pc' # "done"
  BY DEF Calm, Advancing
<1> QED BY <1>1, <1>2, <1>3, <1>4, <1>5, <1>6 DEF OrderInv

LEMMA OrderScheduling ==
  ASSUME IInv, \/ \E o \in Ids : Submit(o) \/ \E t \in CancelTimes : Cancel(o, t)
               \/ Run \/ UNCHANGED vars
               \/ \E e \in Events, t \in 1 .. MaxTime : ReadEvent(e, t)
  PROVE  OrderInv'
<1> USE DEF OrderInv, Advancing
<1>0. OrderInv
  BY DEF IInv
<1>1. ASSUME NEW o \in Ids, Submit(o)  PROVE OrderInv'
  <2>1. o \notin submitted /\ status[o] = "absent"
    BY <1>0, <1>1 DEF Submit
  <2> QED BY <1>0, <1>1, <2>1 DEF Submit, working, loop, market, account
<1>2. ASSUME \/ \E o \in Ids, t \in CancelTimes : Cancel(o, t)
             \/ Run \/ UNCHANGED vars
             \/ \E e \in Events, t \in 1 .. MaxTime : ReadEvent(e, t)
      PROVE  OrderInv'
  BY <1>0, <1>2 DEF Cancel, Run, ReadEvent, vars, working, loop, market, account, requests
<1> QED BY <1>1, <1>2

\* Another order than the one a control is about: the kill switch may cancel it.
LEMMA SwitchOnOthers ==
  ASSUME IInv, pc \in Calm, NEW st \in [Ids -> Statuses], NEW act \in SUBSET Ids,
         CheckKillSwitch(st, act), NEW p \in Ids,
         st[p] = status[p], p \in act <=> p \in active, p \in pending' <=> p \in pending,
         placedIn'[p] = placedIn[p], filled'[p] = filled[p], ~ (pc = "taker" /\ p = taker)
  PROVE  Stays(p) \/ Settles(p)
<1>1. /\ \/ active' = act /\ status' = st
         \/ active' = {}
      /\ \/ status'[p] = st[p] /\ (p \in act /\ st[p] \in Live => p \in active')
         \/ status'[p] = "cancelled" /\ p \in act /\ st[p] \in Live
      /\ active' \in SUBSET act
  BY ControlFacts, SwitchFacts
<1>2. p \in active => p \in submitted /\ p \notin pending /\ status[p] \in Live
  BY ControlFacts DEF Live
<1>3. CASE p \in active /\ p \notin active'
  <2>1. status'[p] = "cancelled"
    BY <1>1, <1>2, <1>3
  <2> QED BY <1>2, <1>3, <2>1 DEF Settles, Terminal
<1>4. CASE ~ (p \in active /\ p \notin active')
  <2>1. status'[p] = status[p]
    BY <1>1, <1>4
  <2> QED BY <1>1, <1>4, <2>1 DEF Stays
<1> QED BY <1>3, <1>4

LEMMA OrderControls ==
  ASSUME IInv, Controls
  PROVE  OrderInv'
<1>1. pc \in Calm
  BY DEF Controls, Expire, RejectNext, TakeNext, RestNext, TakeLevel, TakerDone,
     ProcessNextCancel, ControlsDone, Activating, Walking, Calm
<1> USE DEF Calm
<1>2. CASE Expire
  <2>1. Expirable \subseteq active /\ active' = active \ Expirable
        /\ status' = [o \in Ids |-> IF o \in Expirable THEN "expired" ELSE status[o]]
    BY <1>2 DEF Expire, Expirable
  <2>2. UNCHANGED <<pc, submitted, pending, filled, taker, placedIn, session, killed>>
        /\ pc = "controls"
    BY <1>2 DEF Expire, requests, loop, market, account
  <2>3. \A o \in Ids : Stays(o) \/ Settles(o)
    BY <1>1, <2>1, <2>2, ControlFacts DEF Stays, Settles, Terminal, Live
  <2> QED BY <1>1, <2>1, <2>2, <2>3, ControlFacts, OrderStep
<1>3. CASE RejectNext
  <2> DEFINE o == NextOrder
             st == [status EXCEPT ![o] = "rejected"]
  <2>1. CheckKillSwitch(st, active) /\ o \in pending /\ pending' = pending \ {o}
    BY <1>1, <1>3, ControlFacts, EarliestFacts DEF RejectNext, Enter, NextOrder, Activating
  <2>2. UNCHANGED <<pc, submitted, filled, taker, session>> /\ pc = "controls"
        /\ placedIn' = [placedIn EXCEPT ![o] = session]
    BY <1>3 DEF RejectNext, Enter, loop, market, Activating
  <2> HIDE DEF o
  <2>3. st \in [Ids -> Statuses]
    BY <1>1, ControlFacts DEF Statuses
  <2>4. /\ active' \in SUBSET active /\ (killed' => active' = {})
        /\ status'[o] = "rejected" /\ o \notin active
    <3>1. o \notin active /\ st[o] = "rejected"
      BY <1>1, <2>1, ControlFacts DEF Live
    <3> HIDE DEF st
    <3> QED BY <1>1, <2>1, <2>3, <3>1, ControlFacts, SwitchFacts DEF Live
  <2>5. Settles(o)
    BY <1>1, <2>1, <2>4, ControlFacts DEF Settles, Terminal
  <2>6. \A p \in Ids \ {o} : Stays(p) \/ Settles(p)
    <3> TAKE p \in Ids \ {o}
    <3>1. st[p] = status[p] /\ placedIn'[p] = placedIn[p] /\ (p \in pending' <=> p \in pending)
      BY <1>1, <2>1, <2>2, ControlFacts
    <3> HIDE DEF st
    <3> QED BY <1>1, <2>1, <2>2, <2>3, <3>1, ControlFacts, SwitchOnOthers
  <2> QED BY <1>1, <2>1, <2>2, <2>4, <2>5, <2>6, ControlFacts, OrderStep
<1>4. CASE TakeNext
  <2> DEFINE o == NextOrder
  <2>1. o \in pending /\ o \in submitted /\ o \notin active
    BY <1>1, <1>4, ControlFacts, EarliestFacts DEF TakeNext, NextOrder, Activating, Live
  <2>2. /\ pc = "controls" /\ pc' = "taker" /\ taker' = o
        /\ status' = [status EXCEPT ![o] = "pending"]
        /\ placedIn' = [placedIn EXCEPT ![o] = session]
        /\ pending' = pending \ {o}
        /\ UNCHANGED <<submitted, session, active, killed, filled>>
    BY <1>4 DEF TakeNext, Enter, market, Activating
  <2> HIDE DEF o
  <2>3. Walks(o)
    BY <1>1, <2>1, <2>2, ControlFacts DEF Walks
  <2>4. \A p \in Ids \ {o} : Stays(p)
    BY <1>1, <2>1, <2>2, ControlFacts DEF Stays
  <2> QED BY <1>1, <2>1, <2>2, <2>3, <2>4, ControlFacts, OrderStep
<1>5. CASE RestNext
  <2> DEFINE o == NextOrder
             st == [status EXCEPT ![o] = "open"]
             act == active \cup {o}
  <2>1. CheckKillSwitch(st, act) /\ o \in pending /\ pending' = pending \ {o}
    BY <1>1, <1>5, ControlFacts, EarliestFacts DEF RestNext, Enter, NextOrder, Activating
  <2>2. UNCHANGED <<pc, submitted, filled, taker, session>> /\ pc = "controls"
        /\ placedIn' = [placedIn EXCEPT ![o] = session] /\ ~ Marketable(o)
    BY <1>5 DEF RestNext, Enter, loop, market, Activating
  <2>3. Orders[o].limit \in Prices
    BY <1>1, <2>1, <2>2, ControlFacts, OrderTypes DEF Marketable, IsMarket
  <2> HIDE DEF o
  <2>4. st \in [Ids -> Statuses] /\ act \in SUBSET Ids /\ o \in submitted /\ st[o] = "open"
        /\ killed \in BOOLEAN /\ act \in SUBSET submitted /\ placedIn'[o] = session'
        /\ (killed => active = {})
    BY <1>1, <2>1, <2>2, ControlFacts DEF Statuses
  <2>5. /\ active' \in SUBSET act
        /\ \/ status'[o] = "open" /\ o \in active'
           \/ status'[o] = "cancelled" /\ active' = {}
    <3> HIDE DEF st, act
    <3>1. o \in act
      BY DEF act
    <3>2. o \in Ids
      BY <2>4, <3>1
    <3>3. /\ \/ active' = act /\ status' = st
             \/ active' = {}
          /\ \/ status'[o] = st[o] /\ (o \in act /\ st[o] \in Live => o \in active')
             \/ status'[o] = "cancelled" /\ o \in act /\ st[o] \in Live
          /\ active' \in SUBSET act
      BY <2>1, <2>4, <3>2, SwitchFacts
    <3> QED BY <2>4, <3>1, <3>3 DEF Live
  <2>6. Rests(o) \/ Settles(o)
    BY <2>1, <2>3, <2>4, <2>5 DEF Rests, Settles, Live, Terminal
  <2>7. \A p \in Ids \ {o} : Stays(p) \/ Settles(p)
    <3> TAKE p \in Ids \ {o}
    <3>1. st[p] = status[p] /\ placedIn'[p] = placedIn[p] /\ (p \in pending' <=> p \in pending)
          /\ (p \in act <=> p \in active)
      BY <1>1, <2>1, <2>2, ControlFacts
    <3> HIDE DEF st, act
    <3> QED BY <1>1, <2>1, <2>2, <2>4, <3>1, ControlFacts, SwitchOnOthers
  <2>8. killed' => active' = {}
    <3>1. ~ killed
      BY <1>5 DEF RestNext, Rejected
    <3> HIDE DEF st, act
    <3> QED BY <2>1, <2>4, <3>1, SwitchFacts
  <2> HIDE DEF st, act
  <2> QED BY <1>1, <2>1, <2>2, <2>4, <2>5, <2>6, <2>7, <2>8, ControlFacts, OrderStep
<1>6. CASE TakeLevel
  <2>1. PICK side \in Sides, p \in Prices, quantity \in Nat : Taken(side, p, quantity)
    BY <1>6, TakeLevelFacts
  <2>2. /\ UNCHANGED <<pc, submitted, session, active, pending, killed, status, placedIn, taker>>
        /\ pc = "taker"
    BY <1>6 DEF TakeLevel, Walking, requests
  <2>3. status[taker] = "pending"
    BY <2>2 DEF IInv, TakerInv
  <2>4. \A o \in Ids : Stays(o)
    BY <2>1, <2>2, <2>3 DEF Stays, Taken
  <2> QED BY <1>1, <2>2, <2>4, ControlFacts, OrderStep
<1>7. CASE TakerDone
  <2> DEFINE st == [status EXCEPT ![taker] = TakerOutcome(taker)]
  <2>1. CheckKillSwitch(st, active) /\ pc = "taker" /\ pc' = "controls"
        /\ UNCHANGED <<submitted, pending, filled, placedIn, session>>
    BY <1>7 DEF TakerDone, requests, market
  <2>2. taker \in submitted /\ taker \notin active /\ taker \notin pending /\ taker \in Ids
    BY <1>1, <2>1, ControlFacts DEF IInv, TakerInv, Live
  <2>3. st \in [Ids -> Statuses] /\ active \in SUBSET Ids
    BY <1>1, ControlFacts DEF Statuses, TakerOutcome
  <2>4. /\ active' \in SUBSET active /\ (killed' => active' = {})
        /\ status'[taker] \in Terminal \cup {"partially_filled"}
    <3>1. st[taker] \in Terminal \cup {"partially_filled"}
      BY <1>1, <2>2, ControlFacts DEF TakerOutcome, Terminal
    <3> HIDE DEF st
    <3> QED BY <1>1, <2>1, <2>2, <2>3, <3>1, ControlFacts, SwitchFacts
  <2>5. Settles(taker)
    BY <2>1, <2>2, <2>4 DEF Settles
  <2>6. \A p \in Ids \ {taker} : Stays(p) \/ Settles(p)
    <3> TAKE p \in Ids \ {taker}
    <3>1. st[p] = status[p]
      BY <1>1, ControlFacts
    <3> HIDE DEF st
    <3> QED BY <1>1, <2>1, <2>3, <3>1, SwitchOnOthers
  <2> QED BY <1>1, <2>1, <2>4, <2>5, <2>6, ControlFacts, OrderStep
<1>8. ASSUME NEW c \in cancels, ProcessNextCancel(c)  PROVE OrderInv'
  <2>1. c.order \in submitted /\ c.order \in Ids
    BY DEF IInv, Types, RequestTypes
  <2>2. UNCHANGED <<pc, submitted, filled, placedIn, session, taker, killed>> /\ pc = "controls"
    BY <1>8 DEF ProcessNextCancel, loop, market, account
  <2>3. \/ UNCHANGED <<status, active, pending>>
        \/ /\ status' = [status EXCEPT ![c.order] = "cancelled"]
           /\ c.order \notin active' /\ c.order \notin pending'
           /\ \A p \in Ids \ {c.order} : (p \in active' <=> p \in active) /\ (p \in pending' <=> p \in pending)
           /\ active' \subseteq active /\ pending' \subseteq pending
    BY <1>1, <1>8, <2>1, ControlFacts DEF ProcessNextCancel, Live
  <2>4. \A p \in Ids : Stays(p) \/ Settles(p)
    BY <1>1, <2>1, <2>2, <2>3, ControlFacts DEF Stays, Settles, Terminal
  <2> QED BY <1>1, <2>2, <2>3, <2>4, ControlFacts, OrderStep
<1>9. CASE ControlsDone
  <2>1. /\ UNCHANGED <<submitted, pending, filled, placedIn, session>> /\ pc = "controls"
        /\ pc' \in {"reading", "event"}
        /\ CheckKillSwitch(status, active) \/ UNCHANGED <<killed, active, status>>
    BY <1>9 DEF ControlsDone, requests, market
  <2>2. \A p \in Ids : Stays(p) \/ Settles(p)
    <3> TAKE p \in Ids
    <3>1. CASE CheckKillSwitch(status, active)
      BY <1>1, <2>1, <3>1, ControlFacts, SwitchOnOthers
    <3>2. CASE UNCHANGED <<killed, active, status>>
      BY <2>1, <3>2 DEF Stays
    <3> QED BY <2>1, <3>1, <3>2
  <2>3. active' \subseteq active /\ (killed' => active' = {})
    BY <1>1, <2>1, ControlFacts, SwitchFacts
  <2> QED BY <1>1, <2>1, <2>2, <2>3, ControlFacts, OrderStep
<1> QED BY <1>2, <1>3, <1>4, <1>5, <1>6, <1>7, <1>8, <1>9 DEF Controls

\* A passive loop touches the statuses and fills of live orders only, and the end
\* of an event leaves none but live orders active.
LEMMA OrderEvents ==
  ASSUME IInv, \/ OnBoundary \/ OnSnapshot \/ OnStaleDepth \/ OnGap \/ OnTrade \/ AdvanceOnTrade
               \/ TradeDone \/ OnDepth \/ AdvanceOnDepth \/ DepthDone \/ EndOfRecording
  PROVE  OrderInv'
<1> USE DEF OrderInv, Advancing
<1>0. /\ OrderInv /\ active \in SUBSET Ids /\ status \in [Ids -> Statuses]
      /\ pending \subseteq submitted /\ active \subseteq submitted /\ submitted \subseteq Ids
      /\ filled \in [Ids -> Nat]
  BY DEF IInv, Types, RequestTypes, WorkTypes
<1>1. CASE OnBoundary
  <2>1. /\ active' = {}
        /\ \A o \in Ids : \/ status'[o] = status[o] /\ ~ (o \in active /\ status[o] \in Live)
                          \/ status'[o] = "cancelled" /\ o \in active
    BY <1>0, <1>1, CancelAllFacts DEF OnBoundary
  <2>2. UNCHANGED <<submitted, pending, filled, killed, fills>> /\ pc = "event" /\ pc' = "controls"
    BY <1>1 DEF OnBoundary, On, ToLaterControls, requests
  <2> QED BY <1>0, <2>1, <2>2 DEF Terminal, Live
<1>2. CASE OnSnapshot \/ OnStaleDepth \/ OnGap
  <2>1. UNCHANGED <<submitted, pending, filled, killed, status, active, placedIn, session>>
        /\ pc = "event" /\ pc' \in {"controls", "failed"}
    BY <1>2 DEF OnSnapshot, OnStaleDepth, OnGap, On, ToLaterControls, requests, working, account,
       market
  <2> QED BY <1>0, <2>1
<1>3. CASE OnTrade \/ OnDepth
  <2>1. UNCHANGED <<submitted, pending, filled, killed, status, active, placedIn, session>>
        /\ pc = "event" /\ pc' \in Advancing /\ todo' \subseteq active
    BY <1>3 DEF OnTrade, OnDepth, On, Eligible, requests, working, account, market
  <2> QED BY <1>0, <2>1
<1>4. CASE AdvanceOnTrade \/ AdvanceOnDepth
  <2>1. PICK o \in todo : Advanced(o)
    BY <1>4, AdvanceFacts
  <2>2. pc \in Advancing
    BY <1>4 DEF AdvanceOnTrade, AdvanceOnDepth
  <2>3. /\ UNCHANGED <<pc, submitted, pending, active, placedIn, session, killed>>
        /\ todo' = todo \ {o} /\ o \in active /\ status[o] \in Live
        /\ status'[o] \in {status[o], "filled", "partially_filled"}
        /\ \A p \in Ids \ {o} : status'[p] = status[p] /\ filled'[p] = filled[p]
    BY <1>0, <2>1, <2>2 DEF Advanced, requests, market
  <2>4. o \in submitted /\ o \notin pending /\ status'[o] \in {"open", "partially_filled", "filled"}
    BY <1>0, <2>3 DEF Live
  <2>5. \A p \in active' : status'[p] \in Live \/ status'[p] = "filled"
    BY <1>0, <2>2, <2>3, <2>4 DEF Live
  <2>6. \A p \in todo' : status'[p] \in Live
    <3>1. todo \subseteq Ids
      BY <1>0, <2>2 DEF IInv, Types, LoopTypes
    <3> QED BY <1>0, <2>2, <2>3, <3>1
  <2>7. \A p \in submitted : p \in pending' \cup active' \/ status'[p] \in Terminal \cup {"partially_filled"}
    BY <1>0, <2>2, <2>3
  <2>8. \A p \in Ids : status'[p] = "absent" => filled'[p] = 0
    BY <1>0, <2>3, <2>4
  <2>9. /\ \A p \in Ids \ submitted' : status'[p] = "absent"
        /\ \A p \in pending' : status'[p] = "absent"
    BY <1>0, <2>3, <2>4
  <2> QED BY <1>0, <2>2, <2>3, <2>5, <2>6, <2>7, <2>8, <2>9
<1>5. CASE TradeDone \/ DepthDone
  <2>1. /\ UNCHANGED <<submitted, pending, filled, killed, status, placedIn, session>>
        /\ pc \in Advancing /\ pc' = "controls"
        /\ active' = {o \in active : status[o] \in Live}
    BY <1>5 DEF TradeDone, DepthDone, StillActive, ToLaterControls, requests, account, market
  <2>2. \A o \in active \ active' : status[o] \in Terminal
    BY <1>0, <2>1 DEF Terminal
  <2> QED BY <1>0, <2>1, <2>2
<1>6. CASE EndOfRecording
  <2>1. /\ UNCHANGED <<submitted, filled, killed, fills>>
        /\ pc = "reading" /\ pc' = "done" /\ active' = {} /\ pending' = {}
        /\ status' = [o \in Ids |-> IF o \in active \cup pending THEN "expired" ELSE status[o]]
    BY <1>6 DEF EndOfRecording, account
  <2> QED BY <1>0, <2>1 DEF Terminal
<1> QED BY <1>1, <1>2, <1>3, <1>4, <1>5, <1>6

LEMMA OrdersPreserved ==
  ASSUME IInv, [Next]_vars  PROVE OrderInv'
BY OrderScheduling, OrderControls, OrderEvents DEF Next, Replay

-----------------------------------------------------------------------------
(* The order that walks the book *)

LEMMA TakerPreserved ==
  ASSUME IInv, [Next]_vars  PROVE TakerInv'
<1> USE DEF TakerInv
<1>1. CASE TakeNext
  <2> DEFINE o == NextOrder
  <2>1. /\ pending \subseteq Ids /\ pending \subseteq submitted
        /\ \A p \in pending : status[p] = "absent" /\ filled[p] = 0
        /\ filled \in [Ids -> Nat] /\ status \in [Ids -> Statuses]
        /\ placedIn \in [Ids -> Nat]
        /\ cancels \subseteq [at : Nat, order : submitted]
    BY DEF IInv, Types, RequestTypes, WorkTypes, OrderInv
  <2>2. o \in pending /\ Arrival(o) = ControlTime /\ ControlReady
    BY <1>1, <2>1, EarliestFacts DEF TakeNext, Activating, NextOrder
  <2>3. /\ taker' = o /\ wanted' = Quantity(o)
        /\ status' = [status EXCEPT ![o] = "pending"]
        /\ placedIn' = [placedIn EXCEPT ![o] = session]
        /\ UNCHANGED <<killed, session, filled, position, cancels, submitted>>
        /\ ~ killed /\ PositionAllows(o, Quantity(o))
    BY <1>1 DEF TakeNext, Enter, market, Rejected
  <2>4. \A c \in cancels : ControlTime <= c.at
    <3>1. Upcoming \in SUBSET Nat
      BY <2>1, OrderTypes DEF Upcoming
    <3>2. Upcoming # {} /\ \A c \in cancels : c.at \in Upcoming
      BY <2>2 DEF Upcoming
    <3> QED BY <2>2, <3>1, <3>2, MinOfNaturals DEF ControlTime
  <2>5. Quantity(o) \in Nat
    BY <2>1, <2>2, OrderTypes
  <2> HIDE DEF o
  <2>6. PositionAllows(taker, wanted)'
    BY <2>3 DEF PositionAllows
  <2> QED BY <2>1, <2>2, <2>3, <2>4, <2>5, <2>6
<1>2. CASE TakeLevel
  <2>1. PICK side \in Sides, p \in Prices, quantity \in Nat : Taken(side, p, quantity)
    BY <1>2, TakeLevelFacts
  <2>2. /\ TakerInv /\ wanted \in Nat /\ position \in Int /\ filled \in [Ids -> Nat]
        /\ pc = "taker"
    BY <1>2 DEF IInv, Types, LoopTypes, AccountTypes, WorkTypes, TakeLevel, Walking
  <2>3. UNCHANGED <<taker, killed, session, cancels, submitted, placedIn, status>>
    BY <1>2 DEF TakeLevel, requests
  <2>4. taker \in Ids /\ Quantity(taker) \in Nat
    BY <2>1, OrderTypes DEF Taken
  <2>5. wanted' + filled'[taker] = Quantity(taker)
    BY <2>1, <2>2, <2>4 DEF Taken
  <2>6. PositionAllows(taker, wanted)'
    <3>1. /\ wanted' = wanted - quantity /\ position' = position + Signed(taker, quantity)
          /\ PositionAllows(taker, wanted)
      BY <2>1 DEF Taken
    <3>2. Signed(taker, quantity) + Signed(taker, wanted - quantity) = Signed(taker, wanted)
      BY <2>2 DEF Signed
    <3>3. position' + Signed(taker, wanted') = position + Signed(taker, wanted)
      BY <2>2, <3>1, <3>2 DEF Signed
    <3> QED BY <2>3, <3>1, <3>3 DEF PositionAllows
  <2> QED BY <2>2, <2>3, <2>5, <2>6
<1>3. CASE Controls /\ ~ TakeNext /\ ~ TakeLevel
  <2>1. pc' # "taker"
    BY <1>3 DEF Controls, Expire, RejectNext, RestNext, TakerDone, ProcessNextCancel,
       ControlsDone, Activating
  <2> QED BY <2>1
<1>4. CASE Replay
  <2>1. pc' # "taker"
    <3>1. AdvanceOnTrade \/ AdvanceOnDepth => pc' # "taker"
      BY DEF AdvanceOnTrade, AdvanceOnDepth, Advance
    <3> QED BY <1>4, <3>1 DEF Replay, ReadEvent, OnBoundary, OnSnapshot, OnStaleDepth, OnGap,
               OnTrade, TradeDone, OnDepth, DepthDone, EndOfRecording, ToLaterControls
  <2> QED BY <2>1
<1>5. ASSUME \/ \E o \in Ids : Submit(o) \/ \E t \in CancelTimes : Cancel(o, t)
             \/ Run
      PROVE  TakerInv'
  <2>1. pc' # "taker"
    BY <1>5 DEF Submit, Cancel, Run
  <2> QED BY <2>1
<1>6. CASE UNCHANGED vars
  BY <1>6 DEF IInv, vars, requests, working, loop, market, account, PositionAllows
<1> QED BY <1>1, <1>2, <1>3, <1>4, <1>5, <1>6 DEF Next

-----------------------------------------------------------------------------
(* What stays of an order whatever the step *)

\* An order that has arrived keeps its session, one with a final outcome keeps
\* its outcome and its fills.
Keeps(o) == /\ status[o] # "absent" => status'[o] # "absent" /\ placedIn'[o] = placedIn[o]
            /\ status[o] \in Terminal => status'[o] = status[o] /\ filled'[o] = filled[o]

LEMMA SwitchKeeps ==
  ASSUME NEW st \in [Ids -> Statuses], NEW act \in SUBSET Ids, killed \in BOOLEAN,
         CheckKillSwitch(st, act), NEW p \in Ids, status[p] # "absent",
         \/ st[p] = status[p]
         \/ status[p] \notin Terminal /\ st[p] # "absent",
         placedIn'[p] = placedIn[p], filled'[p] = filled[p]
  PROVE  Keeps(p)
<1>1. status'[p] = st[p] \/ (status'[p] = "cancelled" /\ st[p] \in Live)
  BY SwitchFacts
<1> QED BY <1>1 DEF Keeps, Live, Terminal

LEMMA OrdersKeep ==
  ASSUME IInv, [Next]_vars, NEW o \in Ids  PROVE Keeps(o)
<1>0. /\ active \in SUBSET Ids /\ status \in [Ids -> Statuses] /\ placedIn \in [Ids -> Nat]
      /\ filled \in [Ids -> Nat] /\ pending \subseteq Ids /\ killed \in BOOLEAN
      /\ \A p \in pending : status[p] = "absent"
      /\ OrderInv
  BY DEF IInv, Types, RequestTypes, WorkTypes, AccountTypes, OrderInv
<1>1. NextOrder \in pending \/ pending = {}
  BY <1>0, EarliestFacts DEF NextOrder
<1>2. CASE Expire
  <2>1. \A p \in Expirable : status[p] \in Live
    BY <1>0, <1>2 DEF Expire, Expirable, OrderInv, Advancing
  <2>2. /\ status' = [p \in Ids |-> IF p \in Expirable THEN "expired" ELSE status[p]]
        /\ UNCHANGED <<filled, placedIn>>
    BY <1>2 DEF Expire
  <2> QED BY <1>0, <2>1, <2>2 DEF Keeps, Live, Terminal
<1>3. CASE RejectNext \/ RestNext
  <2> DEFINE n == NextOrder
  <2>1. n \in pending /\ status[n] = "absent"
    BY <1>0, <1>1, <1>3 DEF RejectNext, RestNext, Activating
  <2>2. PICK st, act : /\ CheckKillSwitch(st, act) /\ act \subseteq active \cup {n}
                       /\ \/ st = [status EXCEPT ![n] = "rejected"]
                          \/ st = [status EXCEPT ![n] = "open"]
    BY <1>3 DEF RejectNext, RestNext
  <2>3. placedIn' = [placedIn EXCEPT ![n] = session] /\ filled' = filled
    BY <1>3 DEF RejectNext, RestNext, Enter
  <2> HIDE DEF n
  <2>4. st \in [Ids -> Statuses] /\ act \in SUBSET Ids
    BY <1>0, <2>1, <2>2 DEF Statuses
  <2>5. CASE o = n
    BY <2>1, <2>5 DEF Keeps, Terminal
  <2>6. CASE o # n
    <3>1. st[o] = status[o] /\ placedIn'[o] = placedIn[o] /\ filled'[o] = filled[o]
      BY <1>0, <2>2, <2>3, <2>6
    <3>2. CASE status[o] = "absent"
      BY <3>2 DEF Keeps, Terminal
    <3>3. CASE status[o] # "absent"
      BY <1>0, <2>2, <2>4, <3>1, <3>3, SwitchKeeps
    <3> QED BY <3>2, <3>3
  <2> QED BY <2>5, <2>6
<1>4. CASE TakeNext
  <2>1. NextOrder \in pending /\ status[NextOrder] = "absent"
    BY <1>0, <1>1, <1>4 DEF TakeNext, Activating
  <2>2. /\ placedIn' = [placedIn EXCEPT ![NextOrder] = session] /\ filled' = filled
        /\ status' = [status EXCEPT ![NextOrder] = "pending"]
    BY <1>4 DEF TakeNext, Enter
  <2> QED BY <1>0, <2>1, <2>2 DEF Keeps, Terminal
<1>5. CASE TakeLevel
  <2>1. PICK side \in Sides, p \in Prices, quantity \in Nat : Taken(side, p, quantity)
    BY <1>5, TakeLevelFacts
  <2>2. status[taker] = "pending" /\ UNCHANGED <<status, placedIn>>
    BY <1>5 DEF TakeLevel, Walking, IInv, TakerInv
  <2> QED BY <2>1, <2>2 DEF Keeps, Taken, Terminal
<1>6. CASE TakerDone
  <2> DEFINE st == [status EXCEPT ![taker] = TakerOutcome(taker)]
  <2>1. status[taker] = "pending" /\ UNCHANGED <<filled, placedIn>> /\ CheckKillSwitch(st, active)
    BY <1>6 DEF TakerDone, IInv, TakerInv
  <2>2. st \in [Ids -> Statuses]
    BY <1>0 DEF Statuses, TakerOutcome
  <2>3. st[o] = status[o] \/ (status[o] \notin Terminal /\ st[o] # "absent")
    BY <1>0, <2>1 DEF TakerOutcome, Terminal
  <2> HIDE DEF st
  <2>4. CASE status[o] = "absent"
    BY <2>4 DEF Keeps, Terminal
  <2>5. CASE status[o] # "absent"
    BY <1>0, <2>1, <2>2, <2>3, <2>5, SwitchKeeps
  <2> QED BY <2>4, <2>5
<1>7. ASSUME NEW c \in cancels, ProcessNextCancel(c)  PROVE Keeps(o)
  <2>1. /\ UNCHANGED <<filled, placedIn>>
        /\ \/ UNCHANGED status
           \/ /\ status' = [status EXCEPT ![c.order] = "cancelled"]
              /\ status[c.order] \in Live \/ status[c.order] = "absent"
    BY <1>0, <1>7 DEF ProcessNextCancel
  <2> QED BY <1>0, <2>1 DEF Keeps, Live, Terminal
<1>8. CASE ControlsDone
  <2>1. /\ CheckKillSwitch(status, active) \/ UNCHANGED status
        /\ UNCHANGED <<filled, placedIn>>
    BY <1>8 DEF ControlsDone
  <2>2. CASE UNCHANGED status
    BY <2>1, <2>2 DEF Keeps
  <2>3. CASE CheckKillSwitch(status, active) /\ status[o] # "absent"
    BY <1>0, <2>1, <2>3, SwitchKeeps
  <2>4. CASE status[o] = "absent"
    BY <2>4 DEF Keeps, Terminal
  <2> QED BY <2>1, <2>2, <2>3, <2>4
<1>9. CASE OnBoundary
  <2>1. /\ UNCHANGED <<filled, placedIn>>
        /\ \/ status'[o] = status[o]
           \/ status'[o] = "cancelled" /\ status[o] \in Live
    BY <1>0, <1>9, CancelAllFacts DEF OnBoundary
  <2> QED BY <2>1 DEF Keeps, Live, Terminal
<1>10. CASE AdvanceOnTrade \/ AdvanceOnDepth
  <2>1. PICK p \in todo : Advanced(p)
    BY <1>10, AdvanceFacts
  <2>2. status[p] \in Live /\ UNCHANGED placedIn
    BY <1>0, <1>10, <2>1 DEF OrderInv, AdvanceOnTrade, AdvanceOnDepth, Advancing, Advanced
  <2> QED BY <2>1, <2>2 DEF Keeps, Advanced, Live, Terminal
<1>11. CASE EndOfRecording
  <2>1. /\ UNCHANGED <<filled, placedIn>> /\ pc = "reading"
        /\ status' = [p \in Ids |-> IF p \in active \cup pending THEN "expired" ELSE status[p]]
    BY <1>11 DEF EndOfRecording
  <2>2. \A p \in active : status[p] \in Live
    BY <1>0, <2>1 DEF OrderInv, Advancing
  <2> QED BY <1>0, <2>1, <2>2 DEF Keeps, Live, Terminal
<1>12. ASSUME \/ OnSnapshot \/ OnStaleDepth \/ OnGap \/ OnTrade \/ OnDepth \/ TradeDone
              \/ DepthDone \/ Run \/ UNCHANGED vars
              \/ \E e \in Events, t \in 1 .. MaxTime : ReadEvent(e, t)
              \/ \E p \in Ids : Submit(p) \/ \E t \in CancelTimes : Cancel(p, t)
       PROVE  Keeps(o)
  <2>1. UNCHANGED <<status, filled, placedIn>>
    BY <1>12 DEF OnSnapshot, OnStaleDepth, OnGap, OnTrade, OnDepth, TradeDone, DepthDone, Run,
       vars, ReadEvent, Submit, Cancel, working
  <2> QED BY <2>1 DEF Keeps
<1> QED BY <1>2, <1>3, <1>4, <1>5, <1>6, <1>7, <1>8, <1>9, <1>10, <1>11, <1>12
        DEF Next, Controls, Replay

-----------------------------------------------------------------------------
(* The controls *)

\* A cancellation that has been processed found an outcome or made one.
LEMMA CancelsSettle ==
  ASSUME IInv, [Next]_vars
  PROVE  \A c \in (sent \ cancels)' : (status[c.order] \in Terminal)'
<1>0. /\ \A c \in sent \ cancels : status[c.order] \in Terminal
      /\ \A c \in sent : c.order \in Ids /\ c.order \in submitted
      /\ cancels \subseteq sent /\ status \in [Ids -> Statuses]
  BY DEF IInv, ControlInv, Types, RequestTypes, WorkTypes
<1>1. \A c \in sent \ cancels : status'[c.order] \in Terminal
  BY <1>0, OrdersKeep DEF Keeps
<1>2. ASSUME NEW c \in cancels, ProcessNextCancel(c)
      PROVE  \A d \in sent' \ cancels' : status'[d.order] \in Terminal
  <2>1. pc = "controls" /\ sent' = sent /\ cancels' = cancels \ {c} /\ c \in sent
    BY <1>0, <1>2 DEF ProcessNextCancel
  <2>2. status'[c.order] \in Terminal
    <3> DEFINE o == c.order
    <3>1. o \in submitted /\ o \in Ids
      BY <1>0, <2>1
    <3>2. status[o] \in Live \/ o \in pending \/ status[o] \in Terminal
      <4>1. \/ o \in pending \cup active
            \/ status[o] \in Terminal \cup {"partially_filled"}
        BY <2>1, <3>1 DEF IInv, OrderInv
      <4>2. o \in active => status[o] \in Live
        BY <2>1 DEF IInv, OrderInv, Advancing
      <4> QED BY <4>1, <4>2 DEF Live
    <3>3. \/ status' = [status EXCEPT ![o] = "cancelled"]
          \/ status' = status /\ status[o] \notin Live /\ o \notin pending
      BY <1>2 DEF ProcessNextCancel
    <3> QED BY <1>0, <3>1, <3>2, <3>3 DEF Terminal
  <2> QED BY <1>1, <2>1, <2>2
<1>3. ASSUME NEW o \in Ids, NEW t \in CancelTimes, Cancel(o, t)
      PROVE  sent' \ cancels' \subseteq sent \ cancels
  BY <1>3 DEF Cancel
<1>4. ASSUME Controls, ~ \E c \in cancels : ProcessNextCancel(c)
      PROVE  sent' = sent /\ cancels' = cancels
  BY <1>4 DEF Controls, Expire, RejectNext, TakeNext, RestNext, TakeLevel, TakerDone, ControlsDone,
     Enter, requests
<1>5. CASE Replay
  <2>1. sent' = sent /\ cancels' = cancels
    BY <1>5 DEF Replay, ReadEvent, OnBoundary, OnSnapshot, OnStaleDepth, OnGap, OnTrade,
       TradeDone, OnDepth, DepthDone, EndOfRecording, AdvanceOnTrade, AdvanceOnDepth, Advance,
       requests
  <2> QED BY <1>1, <2>1
<1>6. ASSUME Run \/ UNCHANGED vars \/ \E o \in Ids : Submit(o)
      PROVE  sent' = sent /\ cancels' = cancels
  BY <1>6 DEF Run, Submit, vars, requests
<1> QED BY <1>1, <1>2, <1>3, <1>4, <1>5, <1>6 DEF Next, Controls

\* When no control is due, none is earlier than the event.
LEMMA NothingDue ==
  ASSUME IInv, ~ ControlReady
  PROVE  \A c \in cancels : c.at >= now
<1>1. now \in Nat /\ \A c \in cancels : c.at \in Nat
  BY DEF IInv, Types, ClockTypes, RequestTypes
<1>2. \A c \in cancels : c.at \in Upcoming /\ ~ (c.at < now)
  BY DEF ControlReady, Ready, Upcoming
<1> QED BY <1>1, <1>2

LEMMA ControlsPreserved ==
  ASSUME IInv, [Next]_vars  PROVE ControlInv'
<1>0. /\ ControlInv /\ active \in SUBSET Ids /\ now \in Nat
      /\ cancels \subseteq [at : Nat, order : submitted]
      /\ \A o \in Ids : Expiry(o) \in Nat
  BY OrderTypes DEF IInv, Types, ClockTypes, RequestTypes, WorkTypes
<1>1. \A c \in sent' \ cancels' : status'[c.order] \in Terminal
  BY CancelsSettle
<1>2. pc' = "scheduling" => now' = 0
  <2> SUFFICES ASSUME pc' = "scheduling"  PROVE now' = 0
    OBVIOUS
  <2>1. CASE Controls
    BY <2>1, <1>0 DEF Controls, Expire, RejectNext, TakeNext, RestNext, TakeLevel, TakerDone,
       ProcessNextCancel, ControlsDone, Activating, Walking
  <2>2. CASE Replay
    BY <2>2, <1>0 DEF Replay, ReadEvent, OnBoundary, OnSnapshot, OnStaleDepth, OnGap, OnTrade,
       TradeDone, OnDepth, DepthDone, EndOfRecording, AdvanceOnTrade, AdvanceOnDepth, Advance,
       ToLaterControls
  <2>3. ASSUME ~ Controls, ~ Replay  PROVE pc = "scheduling" /\ now' = now
    BY <2>3 DEF Next, Submit, Cancel, Run, vars, clock
  <2> QED BY <1>0, <2>1, <2>2, <2>3 DEF ControlInv
<1>3. ASSUME pc' \in AtEvent \cup {"reading", "done"}
      PROVE  /\ \A c \in cancels' : c.at >= now'
             /\ pc' \in AtEvent => \A o \in active' : Orders[o].ttl > 0 => Expiry(o) > now'
  <2>1. CASE ControlsDone
    <3>1. /\ cancels' = cancels /\ now' = now /\ ~ ControlReady /\ Expirable = {}
          /\ pc' = "event" => UNCHANGED active
          /\ pc' \in {"event", "reading"}
      BY <2>1 DEF ControlsDone, requests
    <3>2. \A c \in cancels' : c.at >= now'
      BY <3>1, NothingDue
    <3>3. ASSUME pc' = "event", NEW o \in active', Orders[o].ttl > 0  PROVE Expiry(o) > now'
      <4>1. o \in active /\ ~ (Expiry(o) <= now)
        BY <3>1, <3>3 DEF Expirable, ControlTime
      <4> QED BY <1>0, <3>1, <4>1
    <3> QED BY <3>1, <3>2, <3>3 DEF AtEvent, Advancing
  <2>2. CASE Controls /\ ~ ControlsDone
    <3>1. pc' \in {"controls", "taker"}
      BY <2>2 DEF Controls, Expire, RejectNext, TakeNext, RestNext, TakeLevel, TakerDone,
         ProcessNextCancel, Activating, Walking
    <3> QED BY <1>3, <3>1 DEF AtEvent, Advancing
  <2>3. CASE OnTrade \/ OnDepth \/ AdvanceOnTrade \/ AdvanceOnDepth
    <3>1. CASE OnTrade \/ OnDepth
      BY <1>0, <3>1 DEF OnTrade, OnDepth, On, requests, working, clock, ControlInv, AtEvent,
         Advancing
    <3>2. CASE AdvanceOnTrade \/ AdvanceOnDepth
      BY <1>0, <3>2 DEF AdvanceOnTrade, AdvanceOnDepth, Advance, requests, clock, ControlInv,
         AtEvent, Advancing
    <3> QED BY <2>3, <3>1, <3>2
  <2>4. CASE EndOfRecording
    BY <1>0, <2>4 DEF EndOfRecording, clock, ControlInv, AtEvent, Advancing
  <2>5. ASSUME \/ OnBoundary \/ OnSnapshot \/ OnStaleDepth \/ OnGap \/ TradeDone \/ DepthDone
               \/ \E e \in Events, t \in 1 .. MaxTime : ReadEvent(e, t)
        PROVE  FALSE
    <3>1. pc' \in {"controls", "failed"}
      BY <2>5 DEF OnBoundary, OnSnapshot, OnStaleDepth, OnGap, TradeDone, DepthDone, ReadEvent,
         ToLaterControls
    <3> QED BY <1>3, <3>1 DEF AtEvent, Advancing
  <2>6. CASE Run
    BY <1>0, <1>3, <2>6 DEF Run, clock, requests, ControlInv, AtEvent, Advancing
  <2>7. ASSUME \E o \in Ids : Submit(o) \/ \E t \in CancelTimes : Cancel(o, t)
        PROVE  FALSE
    BY <1>3, <2>7 DEF Submit, Cancel, AtEvent, Advancing
  <2>8. CASE UNCHANGED vars
    BY <1>0, <1>3, <2>8 DEF vars, clock, requests, working, ControlInv
  <2> QED BY <2>1, <2>2, <2>3, <2>4, <2>5, <2>6, <2>7, <2>8 DEF Next, Replay
<1> QED BY <1>1, <1>2, <1>3 DEF ControlInv, AtEvent

-----------------------------------------------------------------------------
(* The fills *)

\* A step that records no fill keeps the fills timely and in their session.
LEMMA FillsKept ==
  ASSUME IInv, [Next]_vars,
         fills' \in Seq(Fill), Len(fills') = Len(fills),
         \A i \in DOMAIN fills :
            /\ fills'[i].order = fills[i].order /\ fills'[i].at = fills[i].at
            /\ fills'[i].session = fills[i].session,
         pendingMarkouts' \subseteq pendingMarkouts, sent' = sent,
         session' = session \/ pendingMarkouts' = {}
  PROVE  FillInv'
<1>1. /\ FillInv /\ fills \in Seq(Fill) /\ pendingMarkouts \subseteq DOMAIN fills
  BY DEF IInv, Types, AccountTypes
<1>2. DOMAIN fills' = DOMAIN fills
  BY <1>1
<1>3. \A i \in DOMAIN fills : fills[i].order \in Ids
  <2>1. \A i \in DOMAIN fills : fills[i] \in Fill
    BY <1>1
  <2> QED BY <2>1 DEF Fill
<1>4. FillsAreTimely'
  BY <1>1, <1>2 DEF FillInv, FillsAreTimely, Expiry, Arrival
<1>5. \A i \in DOMAIN fills' : /\ status'[fills'[i].order] # "absent"
                               /\ fills'[i].session = placedIn'[fills'[i].order]
  <2> TAKE i \in DOMAIN fills'
  <2>1. Keeps(fills[i].order)
    BY <1>2, <1>3, OrdersKeep
  <2> QED BY <1>1, <1>2, <2>1 DEF FillInv, Keeps
<1>6. \A i \in pendingMarkouts' : fills'[i].session = session'
  BY <1>1 DEF FillInv
<1> QED BY <1>4, <1>5, <1>6 DEF FillInv

\* A step that fills an order of the session in time keeps them so, too.
LEMMA FillsGrown ==
  ASSUME IInv, [Next]_vars, NEW o \in Ids, NEW at \in Nat, NEW maker \in BOOLEAN,
         fills' = Append(fills, NewFill(o, at, maker)),
         pendingMarkouts' = pendingMarkouts \cup {Len(fills) + 1},
         sent' = sent, session' = session,
         status[o] # "absent", placedIn[o] = session,
         Orders[o].ttl > 0 => at < Expiry(o),
         \A c \in sent : c.order = o => at <= c.at
  PROVE  FillInv'
<1> DEFINE n == Len(fills) + 1
<1>1. /\ FillInv /\ fills \in Seq(Fill) /\ pendingMarkouts \subseteq DOMAIN fills
  BY DEF IInv, Types, AccountTypes
<1>2. /\ DOMAIN fills' = DOMAIN fills \cup {n} /\ n \notin DOMAIN fills
      /\ \A i \in DOMAIN fills : fills'[i] = fills[i]
      /\ fills'[n] = NewFill(o, at, maker)
  BY <1>1
<1> HIDE DEF n
<1>3. \A i \in DOMAIN fills : fills[i].order \in Ids
  <2>1. \A i \in DOMAIN fills : fills[i] \in Fill
    BY <1>1
  <2> QED BY <2>1 DEF Fill
<1>4. FillsAreTimely'
  <2> SUFFICES ASSUME NEW i \in DOMAIN fills'
               PROVE  LET p == fills'[i].order
                      IN  /\ Orders[p].ttl > 0 => fills'[i].at < Expiry(p)
                          /\ \A c \in sent : c.order = p => fills'[i].at <= c.at
    BY DEF FillsAreTimely, Expiry, Arrival
  <2>1. CASE i \in DOMAIN fills
    BY <1>1, <1>2, <2>1 DEF FillInv, FillsAreTimely
  <2>2. CASE i = n
    BY <1>2, <2>2 DEF NewFill
  <2> QED BY <1>2, <2>1, <2>2
<1>5. \A i \in DOMAIN fills' : /\ status'[fills'[i].order] # "absent"
                               /\ fills'[i].session = placedIn'[fills'[i].order]
  <2> TAKE i \in DOMAIN fills'
  <2>1. CASE i \in DOMAIN fills
    <3>1. Keeps(fills[i].order)
      BY <1>3, <2>1, OrdersKeep
    <3> QED BY <1>1, <1>2, <2>1, <3>1 DEF FillInv, Keeps
  <2>2. CASE i = n
    <3>1. Keeps(o)
      BY OrdersKeep
    <3> QED BY <1>2, <2>2, <3>1 DEF Keeps, NewFill
  <2> QED BY <1>2, <2>1, <2>2
<1>6. \A i \in pendingMarkouts' : fills'[i].session = session'
  BY <1>1, <1>2 DEF FillInv, NewFill, n
<1> QED BY <1>4, <1>5, <1>6 DEF FillInv

\* A passive fill is at the event: the deadlines and the cancellations that are
\* still ahead of a live order are not earlier.
LEMMA PassiveFillsTimely ==
  ASSUME IInv, [Next]_vars, AdvanceOnTrade \/ AdvanceOnDepth
  PROVE  FillInv'
<1>1. PICK o \in todo : Advanced(o)
  BY AdvanceFacts
<1>2. /\ pc \in Advancing /\ o \in active /\ o \in Ids /\ status[o] \in Live
      /\ placedIn[o] = session /\ now \in Nat
      /\ \A c \in cancels : c.at >= now
      /\ Orders[o].ttl > 0 => Expiry(o) > now
      /\ \A c \in sent : c \in cancels \/ status[c.order] \in Terminal
      /\ \A c \in sent : c.at \in Nat
      /\ Expiry(o) \in Nat
  BY <1>1, OrderTypes DEF Advanced, AdvanceOnTrade, AdvanceOnDepth, IInv, OrderInv, ControlInv,
     AtEvent, Advancing, Types, ClockTypes, RequestTypes
<1>3. sent' = sent /\ session' = session
  BY <1>1 DEF Advanced, requests, market
<1>4. CASE UNCHANGED <<fills, pendingMarkouts>>
  <2>1. fills \in Seq(Fill)
    BY DEF IInv, Types, AccountTypes
  <2> QED BY <1>3, <1>4, <2>1, FillsKept
<1>5. CASE /\ fills' = Append(fills, NewFill(o, now, TRUE))
           /\ pendingMarkouts' = pendingMarkouts \cup {Len(fills) + 1}
  <2>1. Orders[o].ttl > 0 => now < Expiry(o)
    BY <1>2
  <2>2. \A c \in sent : c.order = o => now <= c.at
    <3> SUFFICES ASSUME NEW c \in sent, c.order = o  PROVE now <= c.at
      OBVIOUS
    <3>1. c \in cancels
      BY <1>2 DEF Live, Terminal
    <3> QED BY <1>2, <3>1
  <2>3. status[o] # "absent" /\ TRUE \in BOOLEAN
    BY <1>2 DEF Live
  <2> QED BY <1>2, <1>3, <1>5, <2>1, <2>2, <2>3, FillsGrown
<1> QED BY <1>1, <1>4, <1>5 DEF Advanced

\* An aggressive fill is at the arrival of the order, whatever the event is.
LEMMA TakerFillsTimely ==
  ASSUME IInv, [Next]_vars, TakeLevel
  PROVE  FillInv'
<1>1. PICK side \in Sides, p \in Prices, quantity \in Nat : Taken(side, p, quantity)
  BY TakeLevelFacts
<1> DEFINE o == taker
<1>2. /\ pc = "taker" /\ o \in Ids /\ status[o] = "pending" /\ placedIn[o] = session
      /\ \A c \in cancels : Arrival(o) <= c.at
      /\ \A c \in sent : c \in cancels \/ status[c.order] \in Terminal
      /\ \A c \in sent : c.at \in Nat
  BY DEF TakeLevel, Walking, IInv, TakerInv, ControlInv, Types, RequestTypes, LoopTypes
<1>3. Arrival(o) \in Nat /\ Orders[o].ttl \in Nat /\ Expiry(o) = Arrival(o) + Orders[o].ttl
  BY <1>2, OrderTypes
<1>4. sent' = sent /\ session' = session
  BY DEF TakeLevel, requests
<1> HIDE DEF o
<1>5. CASE UNCHANGED <<fills, pendingMarkouts>>
  <2>1. fills \in Seq(Fill)
    BY DEF IInv, Types, AccountTypes
  <2> QED BY <1>4, <1>5, <2>1, FillsKept
<1>6. CASE /\ fills' = Append(fills, NewFill(o, Arrival(o), FALSE))
           /\ pendingMarkouts' = pendingMarkouts \cup {Len(fills) + 1}
  <2>1. Orders[o].ttl > 0 => Arrival(o) < Expiry(o)
    BY <1>3
  <2>2. \A c \in sent : c.order = o => Arrival(o) <= c.at
    BY <1>2 DEF Terminal
  <2>3. status[o] # "absent" /\ FALSE \in BOOLEAN
    BY <1>2
  <2> QED BY <1>2, <1>3, <1>4, <1>6, <2>1, <2>2, <2>3, FillsGrown
<1> QED BY <1>1, <1>5, <1>6 DEF Taken, o

LEMMA FillsPreserved ==
  ASSUME IInv, [Next]_vars  PROVE FillInv'
<1>0. /\ Types /\ fills \in Seq(Fill)
  BY DEF IInv, Types, AccountTypes
<1>1. CASE TakeLevel
  BY <1>1, TakerFillsTimely
<1>2. CASE AdvanceOnTrade \/ AdvanceOnDepth
  BY <1>2, PassiveFillsTimely
<1>3. CASE OnSnapshot
  <2>1. event.book \in Books
    BY <1>0, <1>3 DEF OnSnapshot, On, Types, ClockTypes, Events
  <2>2. event.book \in BookSides /\ Sound(event.book)
    BY <2>1, MarketAssumption, SnapshotAssumption
  <2>3. UpdateMidAndMarkouts(event.book) /\ sent' = sent /\ session' = session
    BY <1>3 DEF OnSnapshot, requests
  <2> QED BY <1>0, <2>2, <2>3, MarkFacts, FillsKept
<1>4. CASE DepthDone
  <2> DEFINE next == WithLevels(book, event.levels)
  <2>1. event.levels \in Updates /\ book \in BookSides /\ Sound(next)
    BY <1>4 DEF DepthDone, IInv, EventInv, Ahead, AtEvent, Advancing, Types, ClockTypes, Events,
       MarketTypes
  <2>2. next \in BookSides
    BY <2>1, UpdatedBook
  <2>3. UpdateMidAndMarkouts(next) /\ sent' = sent /\ session' = session
    BY <1>4 DEF DepthDone, requests
  <2> HIDE DEF next
  <2> QED BY <1>0, <2>1, <2>2, <2>3, MarkFacts, FillsKept
<1>5. CASE OnBoundary
  <2>1. fills' = fills /\ pendingMarkouts' = {} /\ sent' = sent
    BY <1>5 DEF OnBoundary, requests
  <2> QED BY <1>0, <2>1, FillsKept
<1>6. ASSUME NEW o \in Ids, NEW t \in CancelTimes, Cancel(o, t)  PROVE FillInv'
  <2>1. fills' = <<>> /\ pendingMarkouts' = pendingMarkouts /\ pendingMarkouts \subseteq DOMAIN fills
        /\ fills = <<>>
    BY <1>6 DEF Cancel, IInv, OrderInv, account, Types, AccountTypes
  <2> QED BY <2>1 DEF FillInv, FillsAreTimely
<1>7. ASSUME \/ Controls /\ ~ TakeLevel
             \/ OnStaleDepth \/ OnGap \/ OnTrade \/ TradeDone \/ OnDepth \/ EndOfRecording
             \/ Run \/ UNCHANGED vars
             \/ \E e \in Events, t \in 1 .. MaxTime : ReadEvent(e, t)
             \/ \E o \in Ids : Submit(o)
      PROVE  FillInv'
  <2>1. UNCHANGED <<fills, pendingMarkouts, sent, session>>
    <3>1. CASE Controls /\ ~ TakeLevel
      <4>1. CASE RejectNext \/ TakeNext \/ RestNext
        BY <4>1 DEF RejectNext, TakeNext, RestNext, Enter, market
      <4>2. ASSUME \/ Expire \/ TakerDone \/ ControlsDone \/ \E c \in cancels : ProcessNextCancel(c)
            PROVE  UNCHANGED <<fills, pendingMarkouts, sent, session>>
        BY <4>2 DEF Expire, TakerDone, ProcessNextCancel, ControlsDone, requests, market, account
      <4> QED BY <3>1, <4>1, <4>2 DEF Controls
    <3>2. CASE ~ (Controls /\ ~ TakeLevel)
      BY <1>7, <3>2 DEF OnStaleDepth, OnGap, OnTrade, TradeDone, OnDepth, EndOfRecording, Run,
         vars, ReadEvent, Submit, requests, market, account
    <3> QED BY <1>7, <3>1, <3>2
  <2> QED BY <1>0, <2>1, FillsKept
<1> QED BY <1>1, <1>2, <1>3, <1>4, <1>5, <1>6, <1>7 DEF Next, Replay

-----------------------------------------------------------------------------
(* The limits *)

LEMMA LimitsPreserved ==
  ASSUME IInv, [Next]_vars  PROVE WithinLimits'
<1>0. /\ Types /\ WithinLimits /\ book \in BookSides /\ consumed \in BookSides
      /\ \A side \in Sides, p \in Prices : consumed[side][p] <= book[side][p]
  BY DEF IInv, Types, MarketTypes, WithinLimits
<1>1. (pc = "taker" => PositionAllows(taker, wanted))'
  BY TakerPreserved DEF TakerInv
<1>2. Within(position, MaxPosition)'
  <2>1. CASE TakeLevel
    <3>1. PICK side \in Sides, p \in Prices, quantity \in Nat : Taken(side, p, quantity)
      BY <2>1, TakeLevelFacts
    <3> QED BY <3>1 DEF Taken, Within
  <2>2. CASE AdvanceOnTrade \/ AdvanceOnDepth
    <3>1. PICK o \in todo : Advanced(o)
      BY <2>2, AdvanceFacts
    <3> QED BY <3>1 DEF Advanced, Within
  <2>3. CASE Controls /\ ~ TakeLevel
    <3>1. CASE RejectNext \/ TakeNext \/ RestNext
      BY <1>0, <3>1 DEF RejectNext, TakeNext, RestNext, Enter, WithinLimits, Within
    <3>2. ASSUME \/ Expire \/ TakerDone \/ ControlsDone \/ \E c \in cancels : ProcessNextCancel(c)
          PROVE  Within(position, MaxPosition)'
      BY <1>0, <3>2 DEF Expire, TakerDone, ProcessNextCancel, ControlsDone, account,
         WithinLimits, Within
    <3> QED BY <2>3, <3>1, <3>2 DEF Controls
  <2>4. ASSUME \/ OnBoundary \/ OnSnapshot \/ OnStaleDepth \/ OnGap \/ OnTrade \/ TradeDone
               \/ OnDepth \/ DepthDone \/ EndOfRecording \/ Run \/ UNCHANGED vars
               \/ \E e \in Events, t \in 1 .. MaxTime : ReadEvent(e, t)
               \/ \E o \in Ids : Submit(o) \/ \E t \in CancelTimes : Cancel(o, t)
        PROVE  Within(position, MaxPosition)'
    BY <1>0, <2>4 DEF OnBoundary, OnSnapshot, OnStaleDepth, OnGap, OnTrade, TradeDone, OnDepth,
       DepthDone, EndOfRecording, Run, vars, ReadEvent, Submit, Cancel, account, WithinLimits,
       Within
  <2> QED BY <2>1, <2>2, <2>3, <2>4 DEF Next, Replay
<1>3. \A side \in Sides, p \in Prices : consumed'[side][p] <= book'[side][p]
  <2>1. CASE TakeLevel
    <3>1. PICK s \in Sides, q \in Prices, quantity \in Nat : Taken(s, q, quantity)
      BY <2>1, TakeLevelFacts
    <3>2. book' = book /\ consumed' = [consumed EXCEPT ![s][q] = @ + quantity]
      BY <2>1, <3>1 DEF TakeLevel, Taken
    <3>3. consumed[s][q] + quantity <= book[s][q]
      <4>1. consumed[s][q] + quantity <= book[s][q] \/ quantity = 0
        BY <3>1 DEF Taken
      <4>2. consumed[s][q] \in Nat /\ book[s][q] \in Nat /\ consumed[s][q] <= book[s][q]
        BY <1>0 DEF BookSides
      <4> QED BY <4>1, <4>2
    <3> QED BY <1>0, <3>2, <3>3 DEF BookSides
  <2>2. CASE OnSnapshot \/ OnBoundary
    <3>1. CASE OnBoundary
      BY <3>1 DEF OnBoundary, Empty
    <3>2. CASE OnSnapshot
      <4>1. event.book \in BookSides
        BY <1>0, <3>2, MarketAssumption DEF OnSnapshot, On, Types, ClockTypes, Events
      <4>2. book' = event.book /\ consumed' = Empty
        BY <3>2 DEF OnSnapshot
      <4> QED BY <4>1, <4>2 DEF BookSides, Empty
    <3> QED BY <2>2, <3>1, <3>2
  <2>3. CASE DepthDone
    <3>1. event.levels \in Updates
      BY <2>3 DEF DepthDone, IInv, EventInv, Advancing, Types, ClockTypes, Events
    <3>2. book' = WithLevels(book, event.levels) /\ consumed' = Refreshed(event.levels)
      BY <2>3 DEF DepthDone
    <3> QED BY <1>0, <3>1, <3>2, RefreshedFits
  <2>4. ASSUME Next, ~ TakeLevel, ~ OnBoundary, ~ OnSnapshot, ~ DepthDone
        PROVE  book' = book /\ consumed' = consumed
    BY <2>4 DEF Next, Submit, Cancel, Run, Controls, Expire, RejectNext, TakeNext, RestNext,
       TakerDone, ProcessNextCancel, ControlsDone, Enter, Replay, ReadEvent, OnStaleDepth, OnGap,
       OnTrade, TradeDone, OnDepth, EndOfRecording, AdvanceOnTrade, AdvanceOnDepth, Advance, market
  <2>5. CASE UNCHANGED vars
    BY <1>0, <2>5 DEF vars, market
  <2> QED BY <1>0, <2>1, <2>2, <2>3, <2>4, <2>5
<1> QED BY <1>1, <1>2, <1>3 DEF WithinLimits

-----------------------------------------------------------------------------
(* The theorems *)

LEMMA IInvInit == Init => IInv
<1> SUFFICES ASSUME Init  PROVE IInv
  OBVIOUS
<1>1. Types
  BY TypesInit
<1>2. EventInv
  BY DEF Init, EventInv, Ahead, AtEvent, Advancing, NoEvent
<1>3. OrderInv
  BY DEF Init, OrderInv, Advancing, Terminal
<1>4. TakerInv
  BY DEF Init, TakerInv
<1>5. ControlInv
  BY DEF Init, ControlInv, AtEvent, Advancing
<1>6. FillInv
  BY DEF Init, FillInv, FillsAreTimely
<1>7. WithinLimits
  <2>1. Within(position, MaxPosition)
    BY LimitAssumption DEF Init, Within
  <2>2. \A side \in Sides, p \in Prices : consumed[side][p] <= book[side][p]
    BY DEF Init, Empty
  <2> QED BY <2>1, <2>2 DEF Init, WithinLimits
<1> QED BY <1>1, <1>2, <1>3, <1>4, <1>5, <1>6, <1>7 DEF IInv

LEMMA IInvPreserved == IInv /\ [Next]_vars => IInv'
BY TypesPreserved, EventPreserved, OrdersPreserved, TakerPreserved, ControlsPreserved,
   FillsPreserved, LimitsPreserved DEF IInv

\* The inductive invariant holds of every state of every replay.
THEOREM InvariantHolds == Spec => []IInv
<1>1. Init => IInv
  BY IInvInit
<1>2. IInv /\ [Next]_vars => IInv'
  BY IInvPreserved
<1> QED BY <1>1, <1>2, PTL DEF Spec

\* Every variable of the simulator has its type and no order is filled beyond
\* its quantity, in every state of run() and of the scheduling before it.
THEOREM TypesHold == Spec => []TypeOK
<1>1. IInv => TypeOK
  BY DEF IInv, Types, ClockTypes, RequestTypes, WorkTypes, LoopTypes, MarketTypes, AccountTypes,
     TypeOK, Advancing
<1> QED BY <1>1, InvariantHolds, PTL

\* _execute_taker() and the passive loops fill no order at or after its deadline,
\* nor after its cancellation has arrived, on any recording.
THEOREM FillsStayTimely == Spec => []FillsAreTimely
<1>1. IInv => FillsAreTimely
  BY DEF IInv, FillInv
<1> QED BY <1>1, InvariantHolds, PTL

\* The position stays within max_absolute_position, no aggressive fill is dropped
\* by _record_fill(), and no level gives more than it displayed.
THEOREM LimitsHold == Spec => []WithinLimits
<1>1. IInv => WithinLimits
  BY DEF IInv
<1> QED BY <1>1, InvariantHolds, PTL

\* At the end of run() every submitted order has one outcome, and every
\* cancellation that was due by then has been processed.
THEOREM AllOrdersSettle == Spec => []EveryOrderSettles
<1>1. IInv => EveryOrderSettles
  <2> SUFFICES ASSUME IInv, pc = "done"  PROVE EveryOrderSettles
    BY DEF EveryOrderSettles
  <2>1. /\ pending = {} /\ active = {}
        /\ \A o \in submitted : status[o] \in Terminal \cup {"partially_filled"}
        /\ \A o \in Ids \ submitted : status[o] = "absent"
    BY DEF IInv, OrderInv
  <2>2. \A c \in sent : c.at < now => c \notin cancels
    <3>1. \A c \in cancels : c.at >= now /\ c.at \in Nat /\ now \in Nat
      BY DEF IInv, ControlInv, Types, RequestTypes, ClockTypes
    <3> QED BY <3>1
  <2> QED BY <2>1, <2>2 DEF EveryOrderSettles
<1> QED BY <1>1, InvariantHolds, PTL

\* What a step does to the fills: nothing, a mark, or one more unless killed.
LEMMA FillsStep ==
  ASSUME IInv, [Next]_vars
  PROVE  \/ fills' = fills
         \/ /\ Len(fills') = Len(fills)
            /\ \A i \in DOMAIN fills : \A h \in fills'[i].markouts \ fills[i].markouts :
                  i \in pendingMarkouts /\ now >= fills[i].at + h
         \/ ~ killed /\ \E fill : fills' = Append(fills, fill)
<1> DEFINE Marked == /\ Len(fills') = Len(fills)
                     /\ \A i \in DOMAIN fills : \A h \in fills'[i].markouts \ fills[i].markouts :
                           i \in pendingMarkouts /\ now >= fills[i].at + h
<1>0. Types
  BY DEF IInv
<1>1. CASE TakeLevel
  <2>1. PICK side \in Sides, p \in Prices, quantity \in Nat : Taken(side, p, quantity)
    BY <1>1, TakeLevelFacts
  <2>2. ~ killed
    BY <1>1 DEF TakeLevel, Walking, IInv, TakerInv
  <2> QED BY <2>1, <2>2 DEF Taken
<1>2. CASE AdvanceOnTrade \/ AdvanceOnDepth
  <2>1. PICK o \in todo : Advanced(o)
    BY <1>2, AdvanceFacts
  <2>2. ~ killed
    BY <2>1 DEF Advanced, IInv, OrderInv
  <2> QED BY <2>1, <2>2 DEF Advanced
<1>3. CASE OnSnapshot
  <2>1. event.book \in Books
    BY <1>0, <1>3 DEF OnSnapshot, On, Types, ClockTypes, Events
  <2>2. event.book \in BookSides /\ Sound(event.book)
    BY <2>1, MarketAssumption, SnapshotAssumption
  <2>3. Marked
    BY <1>0, <1>3, <2>2, MarkFacts DEF OnSnapshot
  <2> QED BY <2>3
<1>4. CASE DepthDone
  <2> DEFINE next == WithLevels(book, event.levels)
  <2>1. event.levels \in Updates /\ book \in BookSides /\ Sound(next)
    BY <1>4 DEF DepthDone, IInv, EventInv, Ahead, AtEvent, Advancing, Types, ClockTypes, Events,
       MarketTypes
  <2>2. next \in BookSides /\ UpdateMidAndMarkouts(next)
    BY <1>4, <2>1, UpdatedBook DEF DepthDone
  <2>3. Marked
    <3> HIDE DEF next
    <3> QED BY <1>0, <2>1, <2>2, MarkFacts
  <2> QED BY <2>3
<1>5. CASE Controls /\ ~ TakeLevel
  <2>1. CASE RejectNext \/ TakeNext \/ RestNext
    BY <2>1 DEF RejectNext, TakeNext, RestNext, Enter
  <2>2. ASSUME \/ Expire \/ TakerDone \/ ControlsDone \/ \E c \in cancels : ProcessNextCancel(c)
        PROVE  fills' = fills
    BY <2>2 DEF Expire, TakerDone, ProcessNextCancel, ControlsDone, account
  <2> QED BY <1>5, <2>1, <2>2 DEF Controls
<1>6. ASSUME \/ OnBoundary \/ OnStaleDepth \/ OnGap \/ OnTrade \/ TradeDone \/ OnDepth
             \/ EndOfRecording \/ Run \/ UNCHANGED vars
             \/ \E e \in Events, t \in 1 .. MaxTime : ReadEvent(e, t)
             \/ \E o \in Ids : Submit(o) \/ \E t \in CancelTimes : Cancel(o, t)
      PROVE  fills' = fills
  BY <1>6 DEF OnBoundary, OnStaleDepth, OnGap, OnTrade, TradeDone, OnDepth, EndOfRecording, Run,
     vars, ReadEvent, Submit, Cancel, account
<1> QED BY <1>1, <1>2, <1>3, <1>4, <1>5, <1>6 DEF Next, Replay

\* The kill switch stays tripped.
LEMMA KilledStays ==
  ASSUME IInv, [Next]_vars, killed  PROVE killed'
<1>1. ASSUME Controls  PROVE killed'
  <2>1. CASE RejectNext \/ RestNext \/ TakerDone \/ ControlsDone
    BY <2>1 DEF RejectNext, RestNext, TakerDone, ControlsDone, CheckKillSwitch
  <2>2. ASSUME \/ Expire \/ TakeNext \/ TakeLevel \/ \E c \in cancels : ProcessNextCancel(c)
        PROVE  killed' = killed
    BY <2>2 DEF Expire, TakeNext, TakeLevel, ProcessNextCancel, account
  <2> QED BY <1>1, <2>1, <2>2 DEF Controls
<1>2. ASSUME Replay  PROVE killed' = killed
  BY <1>2 DEF Replay, ReadEvent, OnBoundary, OnSnapshot, OnStaleDepth, OnGap, OnTrade, TradeDone,
     OnDepth, DepthDone, EndOfRecording, AdvanceOnTrade, AdvanceOnDepth, Advance, account
<1>3. ASSUME \/ Run \/ UNCHANGED vars
             \/ \E o \in Ids : Submit(o) \/ \E t \in CancelTimes : Cancel(o, t)
      PROVE  killed' = killed
  BY <1>3 DEF Run, vars, Submit, Cancel, account
<1> QED BY <1>1, <1>2, <1>3 DEF Next

\* No step fills an order after _check_kill_switch() has tripped, and none
\* revises a final status or the quantity filled with it.
THEOREM OutcomesStayFinal == Spec => OutcomesAreFinal
<1>1. ASSUME IInv, IInv', [Next]_vars
      PROVE  /\ killed => killed' /\ active' = {} /\ Len(fills') = Len(fills)
             /\ \A o \in Ids : status[o] \in Terminal =>
                    status'[o] = status[o] /\ filled'[o] = filled[o]
  <2>1. killed => killed' /\ active' = {}
    BY <1>1, KilledStays DEF IInv, OrderInv
  <2>2. killed => Len(fills') = Len(fills)
    BY <1>1, FillsStep
  <2>3. \A o \in Ids : status[o] \in Terminal => status'[o] = status[o] /\ filled'[o] = filled[o]
    BY <1>1, OrdersKeep DEF Keeps
  <2> QED BY <2>1, <2>2, <2>3
<1> QED BY <1>1, InvariantHolds, PTL DEF Spec, OutcomesAreFinal

\* No step lets an order rest in, or be filled from, another session than that
\* of its arrival, nor measures a markout across a boundary or too soon.
THEOREM SessionsStayApart == Spec => NothingCrossesBoundary
<1>1. ASSUME IInv, IInv', [Next]_vars
      PROVE  /\ \A o \in active' : placedIn'[o] = session'
             /\ \A i \in DOMAIN fills' : fills'[i].session = placedIn'[fills'[i].order]
             /\ \A i \in DOMAIN fills : \A h \in fills'[i].markouts \ fills[i].markouts :
                    fills[i].session = session /\ now >= fills[i].at + h
  <2>1. \A o \in active' : placedIn'[o] = session'
    BY <1>1 DEF IInv, OrderInv
  <2>2. \A i \in DOMAIN fills' : fills'[i].session = placedIn'[fills'[i].order]
    BY <1>1 DEF IInv, FillInv
  <2>3. \A i \in DOMAIN fills : \A h \in fills'[i].markouts \ fills[i].markouts :
           i \in pendingMarkouts /\ now >= fills[i].at + h
    <3>1. fills \in Seq(Fill)
      BY <1>1 DEF IInv, Types, AccountTypes
    <3>2. CASE \E fill : fills' = Append(fills, fill)
      <4>1. \A i \in DOMAIN fills : fills'[i] = fills[i]
        BY <3>1, <3>2
      <4> QED BY <4>1
    <3>3. CASE fills' = fills
      BY <3>3
    <3> QED BY <1>1, <3>2, <3>3, FillsStep
  <2> QED BY <1>1, <2>1, <2>2, <2>3 DEF IInv, FillInv
<1> QED BY <1>1, InvariantHolds, PTL DEF Spec, NothingCrossesBoundary
=============================================================================
