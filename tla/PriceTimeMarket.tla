---------------------------- MODULE PriceTimeMarket ----------------------------
(***************************************************************************)
(* What the matching engine promises, without its data structures: a set   *)
(* of resting orders, served in price-time priority by operations that     *)
(* happen as a whole or not at all.                                        *)
(*                                                                         *)
(* How much an incoming quantity takes from a resting order is a matter of *)
(* the orders ahead of it only: there is no loop and no journal here.      *)
(* External depth is a set of orders too, one per level, with id 0.        *)
(***************************************************************************)
EXTENDS OrderManager, PriceLevels, SequencesExt

VARIABLES
  orders,      \* the resting orders
  depth,       \* the book that readers see
  trades,      \* the trade history
  counters,    \* next trade id, next order id, next sequence number
  request      \* the call in progress

vars == <<orders, depth, trades, counters, request>>

NoRequest == [kind |-> "none"]

Counters(trade, order, sequence) ==
  [trade |-> trade, order |-> order, sequence |-> sequence]

Init ==
  /\ orders = {}
  /\ depth = EmptyBook
  /\ trades = <<>>
  /\ counters = Counters(1, 1, 1)
  /\ request = NoRequest

-----------------------------------------------------------------------------
Total(R) == MapThenSumSet(LAMBDA o : o.remaining_quantity, R)

\* Price first, then time
IsAhead(a, b) ==
  \/ Better(a.side, a.price_ticks, b.price_ticks)
  \/ a.price_ticks = b.price_ticks /\ a.sequence_number < b.sequence_number

\* What a quantity q takes from o, one of the orders R it may trade with
Taken(R, q, o) ==
  Max({0, Min({o.remaining_quantity, q - Total({r \in R : IsAhead(r, o)})})})

Left(R, q) ==
  {with_quantities(o, o.original_quantity, o.remaining_quantity - Taken(R, q, o)) :
     o \in {r \in R : Taken(R, q, r) < r.remaining_quantity}}

\* One trade per order that gives something, best order first, at its price
TradesOf(side, id, R, q) ==
  LET hit == SetToSortSeq({o \in R : Taken(R, q, o) > 0}, IsAhead)
  IN  [i \in DOMAIN hit |->
         [aggressor_side     |-> side,
          price_ticks        |-> hit[i].price_ticks,
          quantity           |-> Taken(R, q, hit[i]),
          trade_id           |-> counters.trade + i - 1,
          buy_order_id       |-> IF side = "Buy" THEN id ELSE hit[i].order_id,
          sell_order_id      |-> IF side = "Sell" THEN id ELSE hit[i].order_id,
          execution_sequence |-> counters.trade + i - 1]]

\* The book of a set of local orders
Aggregate(R) ==
  [s \in Side |-> [p \in BookPrice |->
     Total({o \in R : o.side = s /\ o.price_ticks = p})]]

\* External depth as orders
LevelsAsOrders(side) ==
  {[order_id |-> 0, side |-> side, price_ticks |-> p,
    original_quantity |-> depth[side][p], remaining_quantity |-> depth[side][p],
    sequence_number |-> 0] : p \in {q \in BookPrice : depth[side][q] > 0}}

-----------------------------------------------------------------------------
\* The incoming order trades with what it accepts; the rest of it rests.
Enter(R, order) ==
  LET facing == {o \in R : /\ o.side # order.side
                           /\ Accepts(order.side, order.price_ticks, o.price_ticks)}
      q      == order.remaining_quantity
      rest   == q - Total(facing)
      new    == TradesOf(order.side, order.order_id, facing, q)
  IN  /\ orders' = (R \ facing) \cup Left(facing, q)
                     \cup (IF rest > 0
                           THEN {with_quantities(order, order.original_quantity, rest)}
                           ELSE {})
      /\ depth' = Aggregate(orders')
      /\ trades' = trades \o new
      /\ counters' = Counters(counters.trade + Len(new),
                              Max({counters.order, order.order_id + 1}),
                              counters.sequence + 1)

NewOrder(id, side, price, quantity) ==
  [order_id |-> id, side |-> side, price_ticks |-> price,
   original_quantity |-> quantity, remaining_quantity |-> quantity,
   sequence_number |-> counters.sequence]

PlaceLimit ==
  /\ request.kind = "limit"
  /\ Enter(orders, NewOrder(counters.order, request.side, request.price, request.quantity))

\* A market order takes from local orders, or from external depth if there
\* is none, and what it cannot get is dropped.
Market ==
  /\ request.kind = "market"
  /\ LET external == orders = {}
         facing   == IF external THEN LevelsAsOrders(Opposite(request.side))
                     ELSE {o \in orders : o.side # request.side}
         left     == Left(facing, request.quantity)
         new      == TradesOf(request.side, 0, facing, request.quantity)
     IN  /\ orders' = IF external THEN {} ELSE (orders \ facing) \cup left
         /\ depth' = IF external
                     THEN [depth EXCEPT ![Opposite(request.side)] =
                             Aggregate(left)[Opposite(request.side)]]
                     ELSE Aggregate(orders')
         /\ trades' = trades \o new
         /\ counters' = Counters(counters.trade + Len(new), counters.order,
                                 counters.sequence)

Cancel ==
  /\ request.kind = "cancel"
  /\ orders' = {o \in orders : o.order_id # request.id}
  /\ depth' = Aggregate(orders')
  /\ UNCHANGED <<trades, counters>>

\* A new price or a larger quantity costs an order its place in the queue.
Modify ==
  /\ request.kind = "modify"
  /\ \E o \in orders :
       /\ o.order_id = request.id
       /\ IF request.price # o.price_ticks
          THEN Enter(orders \ {o},
                     NewOrder(o.order_id, o.side, request.price, request.quantity))
          ELSE LET grows == request.quantity > o.remaining_quantity
               IN  /\ orders' = (orders \ {o}) \cup
                        {IF grows
                         THEN NewOrder(o.order_id, o.side, o.price_ticks, request.quantity)
                         ELSE with_quantities(o, request.quantity, request.quantity)}
                   /\ depth' = Aggregate(orders')
                   /\ counters' = Counters(counters.trade, counters.order,
                                    counters.sequence + (IF grows THEN 1 ELSE 0))
                   /\ UNCHANGED trades

-----------------------------------------------------------------------------
Receive ==
  /\ request = NoRequest
  /\ request' # NoRequest
  /\ UNCHANGED <<orders, depth, trades, counters>>

Served == PlaceLimit \/ Market \/ Cancel \/ Modify

Answer ==
  /\ request # NoRequest
  /\ request' = NoRequest
  /\ \/ Served
     \/ UNCHANGED <<orders, depth, trades, counters>>    \* it threw

ClearTrades ==
  /\ request = NoRequest
  /\ trades' = <<>>
  /\ UNCHANGED <<orders, depth, counters, request>>

LoadDepth ==
  /\ request = NoRequest
  /\ orders = {}
  /\ depth' \in Book
  /\ UNCHANGED <<orders, trades, counters, request>>

Next == Receive \/ Answer \/ ClearTrades \/ LoadDepth

Spec == Init /\ [][Next]_vars
=============================================================================
