------------------------ MODULE MCExecutionSimulator ------------------------
(***************************************************************************)
(* Instances of ExecutionSimulator on a book of two bids and two asks.     *)
(***************************************************************************)
EXTENDS ExecutionSimulator

Order(decided, side, quantity, limit, ttl) ==
    [decided |-> decided, side |-> side, quantity |-> quantity,
     limit |-> limit, ttl |-> ttl]

\* A resting buy, a resting buy that expires, a market buy, a buy at a limit
\* that takes, and a market sell.
MCOrders == << Order(1, "buy", 2, 2, 0), Order(1, "buy", 1, 2, 1),
               Order(1, "buy", 2, 0, 0), Order(2, "buy", 2, 3, 0),
               Order(2, "sell", 2, 0, 0) >>

MCPrices == 1 .. 4
Ladder(b1, b2, a3, a4) ==
    [bid |-> <<b1, b2, 0, 0>>, ask |-> <<0, 0, a3, a4>>]
MCBooks == {Ladder(1, 1, 1, 1)}

Level(side, price, quantity) == [side |-> side, price |-> price, quantity |-> quantity]
MCUpdates == { {Level("ask", 3, 0)}, {Level("bid", 2, 0)}, {Level("bid", 2, 2)},
               {Level("ask", 3, 2), Level("bid", 1, 1)} }

Trade(price, quantity) == [price |-> price, quantity |-> quantity, buyerIsMaker |-> TRUE]
MCTrades == {Trade(2, 1), Trade(2, 2)}
=============================================================================
