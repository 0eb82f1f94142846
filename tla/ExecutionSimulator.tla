------------------------- MODULE ExecutionSimulator -------------------------
(***************************************************************************)
(* The event-driven simulator of execution/simulator.py.  Orders and       *)
(* cancellations are scheduled first; run() then replays one recording.    *)
(* Around every recorded event the loop processes the controls that have   *)
(* arrived (order activations and cancellations on one timeline, expiring  *)
(* what is due before each), and the event itself moves resting orders     *)
(* through their queues.  The program is sequential: pc is the place in    *)
(* run(), and each iteration of its inner loops is one step, so that an    *)
(* invariant is about every intermediate state too.                        *)
(*                                                                         *)
(* Fees are zero, their default.  A fraction of a quantity is counted in   *)
(* units of 1/Unit, the midpoint in halves.  Timestamps and sums stay      *)
(* within 64 bits, so the OverflowError paths are left out.                *)
(***************************************************************************)
EXTENDS Integers, Sequences, FiniteSetsExt

CONSTANTS
    Orders,             \* order id -> OrderRequest
    CancelTimes,        \* decision times of the cancel requests
    Latency,            \* decision latency plus transmission latency
    CancelLatency,
    QueueModel,         \* "trade_only", "pro_rata_depth", "optimistic_depth"
    Unit,               \* fractions are counted in 1/Unit
    QueueAheadFraction,
    DepletionFraction,  \* depth_depletion_fill_fraction
    MaxPosition,        \* max_absolute_position
    LossLimit,          \* kill_switch_loss_quote, 0 for infinity
    Horizons,           \* markout_horizons_ns
    Prices,
    Books,              \* the books a recorded snapshot may hold
    Updates,            \* the sets of levels a recorded update may carry
    Trades,             \* the recorded trades
    MaxTime, MaxEvents, MaxOrders, MaxCancels   \* bounds of the instance

Ids == DOMAIN Orders
Sides == {"bid", "ask"}
BookSides == [Sides -> [Prices -> Nat]]
Models == {"trade_only", "pro_rata_depth", "optimistic_depth"}

\* OrderRequest: a limit of 0 is a market order, a ttl of 0 never expires.
OrderRequest == [decided : Nat \ {0}, side : {"buy", "sell"},
                 quantity : Nat \ {0}, limit : Prices \cup {0}, ttl : Nat]

ASSUME IdsAssumption == Ids \subseteq Nat
ASSUME OrdersAssumption == Orders \in [Ids -> OrderRequest]
ASSUME LatencyAssumption == Latency \in Nat /\ CancelLatency \in Nat
ASSUME FractionAssumption ==
    /\ Unit \in Nat \ {0}
    /\ QueueAheadFraction \in Nat /\ DepletionFraction \in 0 .. Unit
    /\ QueueModel \in Models
ASSUME LimitAssumption == MaxPosition \in Nat /\ LossLimit \in Nat
ASSUME MarketAssumption ==
    /\ Prices \subseteq Nat \ {0} /\ IsFiniteSet(Prices)
    /\ Books \subseteq BookSides
    /\ \A u \in Updates : u \subseteq [side : Sides, price : Prices, quantity : Nat]
    /\ Trades \subseteq [price : Prices, quantity : Nat \ {0}, buyerIsMaker : BOOLEAN]
ASSUME TimeAssumption ==
    /\ CancelTimes \subseteq Nat \ {0} /\ Horizons \subseteq Nat \ {0}
    /\ MaxTime \in Nat

VARIABLES
    pc,         \* where run() is
    inclusive,  \* the argument of _process_controls: after the event
    now,        \* receipt timestamp of the current event
    heard,      \* latest timestamp given by the receiving thread
    event,      \* the current event
    eventCount,
    pending,    \* _pending_requests
    cancels,    \* _pending_cancels
    status, filled, queueAhead,   \* orders: SimulatedOrder per id
    active,     \* _active_order_ids
    taker,      \* the order _execute_taker works on
    wanted,     \* its local variable remaining
    todo,       \* what the current inner loop has left to visit
    book, bookReady,    \* levels; last_update_id is not 0
    mid,        \* latest_mid in halves, 0 for None
    consumed,   \* _consumed_liquidity
    position, cash, fills, pendingMarkouts, killed,
    submitted,  \* history: every order that was submitted
    sent,       \* history: every cancellation that was scheduled
    session,    \* history: boundaries replayed so far
    placedIn    \* history: the session each order arrived in

clock == <<now, heard, event, eventCount>>
requests == <<pending, cancels, submitted, sent>>
working == <<status, filled, queueAhead, active, placedIn>>
loop == <<taker, wanted, todo>>
market == <<book, bookReady, mid, consumed, session>>
account == <<position, cash, fills, pendingMarkouts, killed>>
vars == <<pc, inclusive, clock, requests, working, loop, market, account>>

Statuses == {"absent", "pending", "open", "partially_filled", "filled",
             "cancelled", "expired", "rejected"}
\* Mutant: a filled order counts as live.
LiveOrFilled == {"open", "partially_filled", "filled"}
Live == {"open", "partially_filled"}
Terminal == {"filled", "cancelled", "expired", "rejected"}

Quantity(o) == Orders[o].quantity
\* Mutant: what is left ignores the fills so far.
RemainingForgetsFills(o) == Quantity(o)
Remaining(o) == Quantity(o) - filled[o]
IsMarket(o) == Orders[o].limit = 0
Arrival(o) == Orders[o].decided + Latency
Expiry(o) == Arrival(o) + Orders[o].ttl

\* The pending list and the list of active orders are both in this order:
\* requests are sorted by it and activated from the front.
Before(o, p) == \/ Arrival(o) < Arrival(p)
                \/ Arrival(o) = Arrival(p) /\ o <= p
Earliest(S) == CHOOSE o \in S : \A p \in S : Before(o, p)

\* The side of the book an order rests on, and the one it takes from.
RestingSide(o) == IF Orders[o].side = "buy" THEN "bid" ELSE "ask"
TakingSide(o) == IF Orders[o].side = "buy" THEN "ask" ELSE "bid"

PricesOn(b, side) == {p \in Prices : b[side][p] > 0}
BestBid(b) == Max(PricesOn(b, "bid"))
BestAsk(b) == Min(PricesOn(b, "ask"))
Sound(b) == /\ PricesOn(b, "bid") # {} /\ PricesOn(b, "ask") # {}
            /\ BestBid(b) < BestAsk(b)
\* install_snapshot() validates what it installs.
ASSUME SnapshotAssumption == \A b \in Books : Sound(b)

Empty == [side \in Sides |-> [p \in Prices |-> 0]]
Touched(u, side, p) == {l \in u : l.side = side /\ l.price = p}
WithLevels(b, u) ==
    [side \in Sides |-> [p \in Prices |->
        IF Touched(u, side, p) = {} THEN b[side][p]
        ELSE (CHOOSE l \in Touched(u, side, p) : TRUE).quantity]]

Signed(o, quantity) == IF Orders[o].side = "buy" THEN quantity ELSE - quantity
Within(x, bound) == - bound <= x /\ x <= bound
\* Mutant: the position is tested without the fill.
PositionAllowsNow(o, quantity) == Within(position, MaxPosition)
PositionAllows(o, quantity) == Within(position + Signed(o, quantity), MaxPosition)

Events == [kind : {"boundary", "stale", "gap"}]
          \cup [kind : {"snapshot"}, book : Books]
          \cup [kind : {"depth"}, levels : Updates]
          \cup [kind : {"trade"}, trade : Trades]
NoEvent == [kind |-> "boundary"]

Init == /\ pc = "scheduling" /\ inclusive = FALSE
        /\ now = 0 /\ heard = 0 /\ event = NoEvent /\ eventCount = 0
        /\ pending = {} /\ cancels = {}
        /\ status = [o \in Ids |-> "absent"]
        /\ filled = [o \in Ids |-> 0]
        /\ queueAhead = [o \in Ids |-> 0]
        /\ active = {} /\ taker = 0 /\ wanted = 0 /\ todo = {}
        /\ book = Empty /\ bookReady = FALSE /\ mid = 0
        /\ consumed = Empty
        /\ position = 0 /\ cash = 0
        /\ fills = << >> /\ pendingMarkouts = {} /\ killed = FALSE
        /\ submitted = {} /\ sent = {} /\ session = 0
        /\ placedIn = [o \in Ids |-> 0]
-----------------------------------------------------------------------------
(***************************************************************************)
(* Before run()                                                            *)
(***************************************************************************)
Submit(o) ==
    /\ pc = "scheduling"
    /\ o \notin pending /\ Cardinality(pending) < MaxOrders
    /\ pending' = pending \cup {o}
    /\ submitted' = submitted \cup {o}
    /\ UNCHANGED <<pc, inclusive, clock, cancels, sent, working, loop, market,
                   account>>

\* A strategy cancels what it submitted; another id would only be skipped.
Cancel(o, t) ==
    LET c == [at |-> t + CancelLatency, order |-> o]
    IN  /\ pc = "scheduling" /\ Cardinality(cancels) < MaxCancels
        /\ o \in submitted
        /\ cancels' = cancels \cup {c}
        /\ sent' = sent \cup {c}
        /\ UNCHANGED <<pc, inclusive, clock, pending, submitted, working, loop,
                       market, account>>

Run == /\ pc = "scheduling"
       /\ pc' = "reading"
       /\ UNCHANGED <<inclusive, clock, requests, working, loop, market, account>>
-----------------------------------------------------------------------------
(***************************************************************************)
(* The recording.  A capture stamps a snapshot when its download returns,  *)
(* and what the receiving thread heard meanwhile is written after it: the  *)
(* timestamps of a recording go back there.                                *)
(***************************************************************************)
ReadEvent(e, t) ==
    /\ pc = "reading"
    /\ eventCount < MaxEvents /\ t >= heard
    /\ e.kind = "snapshot" => t >= now
    /\ e.kind \in {"depth", "trade", "stale"} => bookReady
    /\ e.kind = "depth" => Sound(WithLevels(book, e.levels))
    /\ now' = t /\ event' = e /\ eventCount' = eventCount + 1
    /\ heard' = IF e.kind = "snapshot" THEN heard ELSE t
    /\ inclusive' = FALSE /\ pc' = "controls"
    /\ UNCHANGED <<requests, working, loop, market, account>>
-----------------------------------------------------------------------------
(***************************************************************************)
(* Fills                                                                   *)
(***************************************************************************)
Lesser(a, b) == IF a <= b THEN a ELSE b

\* _record_fill().  A fill the position limit forbids is dropped; the status
\* it writes then is overwritten by each of its callers.
RecordFill(o, at, quantity, price, maker) ==
    IF PositionAllows(o, quantity)
    THEN /\ position' = position + Signed(o, quantity)
         /\ cash' = cash - Signed(o, quantity) * price
         /\ filled' = [filled EXCEPT ![o] = @ + quantity]
         /\ fills' = Append(fills, [order |-> o, at |-> at, maker |-> maker,
                                    session |-> session, markouts |-> {}])
         /\ pendingMarkouts' = pendingMarkouts \cup {Len(fills) + 1}
    ELSE UNCHANGED <<position, cash, filled, fills, pendingMarkouts>>

\* One iteration of the passive loops: volume first moves the order through
\* its queue, and what is left of it fills the order.
Advance(o, volume) ==
    LET queued == Lesser(queueAhead[o], volume)
        quantity == Lesser(Remaining(o), (volume - queued) \div Unit)
    IN  /\ queueAhead' = [queueAhead EXCEPT ![o] = @ - queued]
        /\ IF quantity > 0
           THEN /\ RecordFill(o, now, quantity, Orders[o].limit, TRUE)
                /\ status' = [status EXCEPT ![o] =
                     IF filled'[o] = Quantity(o) THEN "filled"
                     ELSE "partially_filled"]
           ELSE UNCHANGED <<position, cash, filled, fills, pendingMarkouts, status>>
        /\ todo' = todo \ {o}
        /\ UNCHANGED <<pc, inclusive, clock, requests, active, placedIn, taker,
                       wanted, market, killed>>

\* Book b is marked: latest_mid, and the markouts that are due by now.
UpdateMidAndMarkouts(b) ==
    LET marked(i) == fills[i].markouts \cup
                     {h \in Horizons : now >= fills[i].at + h}
    IN  /\ mid' = BestBid(b) + BestAsk(b)
        /\ fills' = [i \in DOMAIN fills |->
                       IF i \in pendingMarkouts
                       THEN [fills[i] EXCEPT !.markouts = marked(i)]
                       ELSE fills[i]]
        /\ pendingMarkouts' = {i \in pendingMarkouts : marked(i) # Horizons}
-----------------------------------------------------------------------------
(***************************************************************************)
(* _process_controls()                                                     *)
(***************************************************************************)
NextOrder == Earliest(pending)
Upcoming == {Arrival(o) : o \in pending} \cup {c.at : c \in cancels}
Ready(t) == t < now \/ (inclusive /\ t = now)
ControlReady == \E t \in Upcoming : Ready(t)
ControlTime == IF ControlReady THEN Min(Upcoming) ELSE now

\* Mutant: an order survives the instant of its deadline.
ExpirableLate ==
    {o \in active : Orders[o].ttl > 0 /\ Expiry(o) < ControlTime}
\* _expire_orders() is called before each control and after the last one.
Expirable == {o \in active : Orders[o].ttl > 0 /\ Expiry(o) <= ControlTime}

\* Marked equity in halves; without a midpoint it is the cash.
Equity == 2 * cash + position * mid
Breached == ~killed /\ LossLimit > 0 /\ Equity <= - (2 * LossLimit)

\* _cancel_all(), given the statuses and the active orders the step leaves.
CancelAll(st, act) ==
    /\ active' = {}
    /\ status' = [o \in Ids |-> IF o \in act /\ st[o] \in Live
                                THEN "cancelled" ELSE st[o]]

\* Mutant: resting orders outlive the kill switch.
KillKeepsOrders(st, act) ==
    /\ killed' = (killed \/ Breached)
    /\ active' = act /\ status' = st

\* _check_kill_switch(), likewise.
CheckKillSwitch(st, act) ==
    IF Breached
    THEN killed' = TRUE /\ CancelAll(st, act)
    ELSE killed' = killed /\ active' = act /\ status' = st

Expire ==
    /\ pc = "controls" /\ Expirable # {}
    /\ active' = active \ Expirable
    /\ status' = [o \in Ids |-> IF o \in Expirable THEN "expired" ELSE status[o]]
    /\ UNCHANGED <<pc, inclusive, clock, requests, filled, queueAhead, placedIn,
                   loop, market, account>>

\* The loop reaches _activate_next_request(): at equal arrival times the
\* order comes before the cancellation.
Activating == /\ pc = "controls" /\ ControlReady /\ Expirable = {}
              /\ pending # {} /\ Arrival(NextOrder) = ControlTime

Enter(o) == /\ pending' = pending \ {o}
            /\ placedIn' = [placedIn EXCEPT ![o] = session]
            /\ UNCHANGED <<inclusive, clock, cancels, submitted, sent, filled, market,
                           position, cash, fills, pendingMarkouts>>

Rejected(o) == killed \/ ~PositionAllows(o, Quantity(o)) \/ ~bookReady

Marketable(o) ==
    \/ IsMarket(o)
    \/ Orders[o].side = "buy" /\ Orders[o].limit >= BestAsk(book)
    \/ Orders[o].side = "sell" /\ Orders[o].limit <= BestBid(book)

RejectNext ==
    LET o == NextOrder
    IN  /\ Activating /\ Rejected(o)
        /\ CheckKillSwitch([status EXCEPT ![o] = "rejected"], active)
        /\ Enter(o)
        /\ UNCHANGED <<pc, queueAhead, loop>>

\* _execute_taker() is entered: its loop over the levels comes next.
TakeNext ==
    LET o == NextOrder
    IN  /\ Activating /\ ~Rejected(o) /\ Marketable(o)
        /\ pc' = "taker" /\ taker' = o /\ wanted' = Quantity(o)
        /\ todo' = PricesOn(book, TakingSide(o))
        /\ status' = [status EXCEPT ![o] = "pending"]
        /\ Enter(o)
        /\ UNCHANGED <<queueAhead, active, killed>>

SameQueue(o, p) == /\ Orders[o].side = Orders[p].side
                   /\ Orders[o].limit = Orders[p].limit
\* The quantity that the live orders there have left, unit by unit.
OwnQueue(o) ==
    LET ahead == {p \in active : SameQueue(o, p) /\ status[p] \in Live}
    IN  Cardinality(UNION {{p} \X (1 .. Remaining(p)) : p \in ahead})

RestNext ==
    LET o == NextOrder
        displayed == book[RestingSide(o)][Orders[o].limit]
    IN  /\ Activating /\ ~Rejected(o) /\ ~Marketable(o)
        /\ queueAhead' = [queueAhead EXCEPT ![o] =
                displayed * QueueAheadFraction + OwnQueue(o) * Unit]
        /\ CheckKillSwitch([status EXCEPT ![o] = "open"], active \cup {o})
        /\ Enter(o)
        /\ UNCHANGED <<pc, loop>>

\* The best level not visited yet, and whether the order may trade there.
BestLeft == IF Orders[taker].side = "buy" THEN Min(todo) ELSE Max(todo)
Acceptable(o, p) == \/ IsMarket(o)
                    \/ Orders[o].side = "buy" /\ p <= Orders[o].limit
                    \/ Orders[o].side = "sell" /\ p >= Orders[o].limit
Walking == /\ pc = "taker" /\ wanted > 0 /\ todo # {}
           /\ Acceptable(taker, BestLeft)

\* One level of the walk: displayed quantity this simulation has not used.
TakeLevel ==
    LET side == TakingSide(taker)
        p == BestLeft
        left == book[side][p] - consumed[side][p]
        quantity == Lesser(wanted, IF left > 0 THEN left ELSE 0)
    IN  /\ Walking
        /\ IF quantity > 0
           THEN /\ RecordFill(taker, Arrival(taker), quantity, p, FALSE)
                /\ consumed' = [consumed EXCEPT ![side][p] = @ + quantity]
                /\ wanted' = wanted - quantity
           ELSE UNCHANGED <<position, cash, filled, fills, pendingMarkouts,
                            consumed, wanted>>
        /\ todo' = todo \ {p}
        /\ UNCHANGED <<pc, inclusive, clock, requests, status, queueAhead,
                       active, placedIn, taker, book, bookReady, mid, session,
                       killed>>

\* The outcome of the walk, and the kill switch after the activation.
TakerOutcome(o) == IF Remaining(o) = 0 THEN "filled"
                   ELSE IF filled[o] > 0 THEN "partially_filled"
                   ELSE "rejected"

TakerDone ==
    /\ pc = "taker" /\ ~Walking
    /\ CheckKillSwitch([status EXCEPT ![taker] = TakerOutcome(taker)], active)
    /\ pc' = "controls" /\ taker' = 0 /\ wanted' = 0 /\ todo' = {}
    /\ UNCHANGED <<inclusive, clock, requests, filled, queueAhead, placedIn,
                   market, position, cash, fills, pendingMarkouts>>

\* _process_next_cancel(): a live order, an order still on its way, or nothing.
\* A market order that ran out of depth is still live in this sense.
ProcessNextCancel(c) ==
    /\ pc = "controls" /\ ControlReady /\ Expirable = {}
    /\ \A o \in pending : Arrival(o) # ControlTime
    /\ c.at = ControlTime
    /\ \A d \in cancels : d.at = c.at => c.order <= d.order
    /\ cancels' = cancels \ {c}
    /\ IF status[c.order] \in Live
       THEN /\ status' = [status EXCEPT ![c.order] = "cancelled"]
            /\ active' = active \ {c.order}
            /\ UNCHANGED pending
       ELSE IF c.order \in pending
       THEN /\ status' = [status EXCEPT ![c.order] = "cancelled"]
            /\ pending' = pending \ {c.order}
            /\ UNCHANGED active
       ELSE UNCHANGED <<status, active, pending>>
    /\ UNCHANGED <<pc, inclusive, clock, submitted, sent, filled, queueAhead,
                   placedIn, loop, market, account>>

\* No control is due: on to the event, or to the kill switch and the next one
\* (the event is over, so it is forgotten).
ControlsDone ==
    /\ pc = "controls" /\ ~ControlReady /\ Expirable = {}
    /\ IF inclusive
       THEN /\ pc' = "reading" /\ event' = NoEvent
            /\ CheckKillSwitch(status, active)
       ELSE /\ pc' = "event"
            /\ UNCHANGED <<event, killed, active, status>>
    /\ UNCHANGED <<inclusive, now, heard, eventCount, requests, filled,
                   queueAhead, placedIn, loop, market, position, cash, fills,
                   pendingMarkouts>>
-----------------------------------------------------------------------------
(***************************************************************************)
(* The current event                                                       *)
(***************************************************************************)
On(kind) == pc = "event" /\ event.kind = kind
ToLaterControls == pc' = "controls" /\ inclusive' = TRUE

\* Mutant: a boundary clears the book and forgets orders and markouts.
OnBoundaryBookOnly ==
    /\ On("boundary") /\ ToLaterControls
    /\ book' = Empty /\ bookReady' = FALSE /\ mid' = 0
    /\ consumed' = Empty
    /\ session' = session + 1
    /\ UNCHANGED <<clock, requests, working, loop, account>>

OnBoundary ==
    /\ On("boundary") /\ ToLaterControls
    /\ CancelAll(status, active)
    /\ book' = Empty /\ bookReady' = FALSE /\ mid' = 0
    /\ pendingMarkouts' = {}
    /\ consumed' = Empty
    /\ session' = session + 1
    /\ UNCHANGED <<clock, requests, filled, queueAhead, placedIn, loop,
                   position, cash, fills, killed>>

OnSnapshot ==
    /\ On("snapshot") /\ ToLaterControls
    /\ book' = event.book /\ bookReady' = TRUE
    /\ consumed' = Empty
    /\ UpdateMidAndMarkouts(event.book)
    /\ UNCHANGED <<clock, requests, working, loop, session, position, cash, killed>>

\* An update that ends at or before the book is skipped; one that starts
\* beyond the next id ends the run with an exception.
OnStaleDepth == /\ On("stale") /\ ToLaterControls
                /\ UNCHANGED <<clock, requests, working, loop, market, account>>

OnGap == /\ On("gap") /\ pc' = "failed"
         /\ UNCHANGED <<inclusive, clock, requests, working, loop, market, account>>

\* The aggressor sells when the buyer is the maker: resting bids advance.
Eligible(trade) ==
    {o \in active : /\ status[o] \in Live
                    /\ RestingSide(o) = IF trade.buyerIsMaker THEN "bid" ELSE "ask"
                    /\ Orders[o].limit = trade.price}

OnTrade == /\ On("trade") /\ pc' = "trade"
           /\ todo' = Eligible(event.trade)
           /\ UNCHANGED <<inclusive, clock, requests, working, taker, wanted,
                          market, account>>

AdvanceOnTrade == /\ pc = "trade" /\ todo # {}
                  /\ Advance(Earliest(todo), event.trade.quantity * Unit)

\* What a decrease of the displayed quantity is worth to a resting order.
Fraction == IF QueueModel = "optimistic_depth" THEN Unit ELSE DepletionFraction
Depletion(o) ==
    LET old == book[RestingSide(o)][Orders[o].limit]
        new == WithLevels(book, event.levels)[RestingSide(o)][Orders[o].limit]
    IN  IF new < old THEN (old - new) * Fraction ELSE 0

OnDepth == /\ On("depth") /\ pc' = "depth"
           /\ todo' = IF QueueModel = "trade_only" \/ ~bookReady THEN {}
                      ELSE {o \in active : Depletion(o) > 0}
           /\ UNCHANGED <<inclusive, clock, requests, working, taker, wanted,
                          market, account>>

AdvanceOnDepth == /\ pc = "depth" /\ todo # {}
                  /\ Advance(Earliest(todo), Depletion(Earliest(todo)))

StillActive == {o \in active : status[o] \in Live}

TradeDone == /\ pc = "trade" /\ todo = {} /\ ToLaterControls
             /\ active' = StillActive
             /\ UNCHANGED <<clock, requests, status, filled, queueAhead, placedIn,
                            loop, market, account>>

\* _refresh_consumed_liquidity(): only a level the update carries is new.
\* Mutant: only the bids of an update are refreshed.
RefreshedBids(u) == [consumed EXCEPT !["bid"] =
    [p \in Prices |-> IF Touched(u, "bid", p) = {} THEN consumed["bid"][p] ELSE 0]]
Refreshed(u) == [side \in Sides |-> [p \in Prices |->
                    IF Touched(u, side, p) = {} THEN consumed[side][p] ELSE 0]]

DepthDone ==
    LET next == WithLevels(book, event.levels)
    IN  /\ pc = "depth" /\ todo = {} /\ ToLaterControls
        /\ active' = StillActive
        /\ book' = next
        /\ consumed' = Refreshed(event.levels)
        /\ UpdateMidAndMarkouts(next)
        /\ UNCHANGED <<clock, requests, status, filled, queueAhead, placedIn,
                       loop, bookReady, session, position, cash, killed>>

\* Mutant: orders that never arrived have no outcome.
EndForgetsPending ==
    /\ pc = "reading" /\ pc' = "done"
    /\ status' = [o \in Ids |-> IF o \in active THEN "expired" ELSE status[o]]
    /\ active' = {} /\ pending' = {}
    /\ UNCHANGED <<inclusive, clock, cancels, submitted, sent, filled, queueAhead,
                   placedIn, loop, market, account>>

\* After the last event: what is resting or never arrived expires.
EndOfRecording ==
    /\ pc = "reading" /\ pc' = "done"
    /\ status' = [o \in Ids |-> IF o \in active \cup pending THEN "expired"
                                ELSE status[o]]
    /\ active' = {} /\ pending' = {}
    /\ UNCHANGED <<inclusive, clock, cancels, submitted, sent, filled, queueAhead,
                   placedIn, loop, market, account>>
-----------------------------------------------------------------------------
Controls == \/ Expire \/ RejectNext \/ TakeNext \/ RestNext
            \/ TakeLevel \/ TakerDone
            \/ \E c \in cancels : ProcessNextCancel(c)
            \/ ControlsDone

Replay == \/ \E e \in Events, t \in 1 .. MaxTime : ReadEvent(e, t)
          \/ OnBoundary \/ OnSnapshot \/ OnStaleDepth \/ OnGap
          \/ OnTrade \/ AdvanceOnTrade \/ TradeDone
          \/ OnDepth \/ AdvanceOnDepth \/ DepthDone
          \/ EndOfRecording

Next == \/ \E o \in Ids : Submit(o)
        \/ \E o \in Ids, t \in CancelTimes : Cancel(o, t)
        \/ Run
        \/ Controls
        \/ Replay

Spec == Init /\ [][Next]_vars
-----------------------------------------------------------------------------
(***************************************************************************)
(* Properties                                                              *)
(***************************************************************************)
Places == {"scheduling", "reading", "controls", "taker", "event", "trade",
           "depth", "done", "failed"}

\* Every variable has its type; no order is filled beyond its quantity
\* (remaining_quantity never goes below zero).
TypeOK ==
    /\ pc \in Places /\ inclusive \in BOOLEAN
    /\ now \in Nat /\ heard \in Nat /\ event \in Events /\ eventCount \in Nat
    /\ pending \subseteq submitted /\ submitted \subseteq Ids
    /\ cancels \subseteq [at : Nat, order : Ids] /\ cancels \subseteq sent
    /\ status \in [Ids -> Statuses]
    /\ filled \in [Ids -> Nat] /\ \A o \in Ids : filled[o] <= Quantity(o)
    /\ queueAhead \in [Ids -> Nat]
    /\ active \subseteq Ids
    /\ wanted \in Nat
    /\ pc = "taker" => taker \in Ids /\ todo \subseteq Prices
    /\ pc \in {"trade", "depth"} => todo \subseteq active
    /\ book \in BookSides /\ consumed \in BookSides /\ bookReady \in BOOLEAN
    /\ mid \in Nat
    /\ position \in Int /\ cash \in Int
    /\ pendingMarkouts \subseteq DOMAIN fills
    /\ killed \in BOOLEAN
    /\ session \in Nat /\ placedIn \in [Ids -> Nat]

\* No order is filled at or after the deadline of its time to live, nor after
\* its cancellation has arrived, whether that found the order resting, overtook
\* it on the way or tied with it, and although recorded time goes back.
FillsAreTimely ==
    \A i \in DOMAIN fills :
        LET o == fills[i].order
        IN  /\ Orders[o].ttl > 0 => fills[i].at < Expiry(o)
            /\ \A c \in sent : c.order = o => fills[i].at <= c.at

\* A boundary ends a session for orders and markouts: an order rests in, and is
\* filled from, the session it arrived in only, and a markout is measured
\* against a midpoint of the session of its fill, after its horizon has passed.
NothingCrossesBoundary ==
    [][/\ \A o \in active' : placedIn'[o] = session'
       /\ \A i \in DOMAIN fills' : fills'[i].session = placedIn'[fills'[i].order]
       /\ \A i \in DOMAIN fills : \A h \in fills'[i].markouts \ fills[i].markouts :
              fills[i].session = session /\ now >= fills[i].at + h]_vars

\* Inventory stays within max_absolute_position although orders are admitted
\* one by one and several may fill on one event; for an aggressive order the
\* check at its activation is enough: _record_fill() drops none of its fills.
\* And aggressive orders never take more of a level than it has displayed since
\* it was last refreshed, whatever events and orders came between.
WithinLimits ==
    /\ Within(position, MaxPosition)
    /\ pc = "taker" => PositionAllows(taker, wanted)
    /\ \A side \in Sides, p \in Prices : consumed[side][p] <= book[side][p]

\* At the end of a recording every submitted order has one final outcome;
\* none is still on its way, open or forgotten.
EveryOrderSettles ==
    pc = "done" =>
        /\ pending = {} /\ active = {}
        /\ \A o \in submitted : status[o] \in Terminal \cup {"partially_filled"}
        /\ \A o \in Ids \ submitted : status[o] = "absent"
        /\ \A c \in sent : c.at < now => c \notin cancels

\* What is decided stays: no fill happens after the kill switch has tripped, a
\* final outcome is never revised and no fill follows it.
OutcomesAreFinal ==
    [][/\ killed => killed' /\ active' = {} /\ Len(fills') = Len(fills)
       /\ \A o \in Ids : status[o] \in Terminal =>
              status'[o] = status[o] /\ filled'[o] = filled[o]]_vars
=============================================================================
