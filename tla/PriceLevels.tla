------------------------------ MODULE PriceLevels ------------------------------
(***************************************************************************)
(* An order book as a value: for each side a quantity per price, where     *)
(* quantity 0 is the absence of the level (include/order_book.hpp).        *)
(* OrderBook.tla shows that the sorted vectors of the class implement the  *)
(* operators below; the matching engine is specified on top of them.       *)
(***************************************************************************)
EXTENDS MarketTypes

\* validate_level and validate_adjustment_price reject negative prices only.
BookPrice     == 0 .. MaxPrice
LevelQuantity == 0 .. MaxQuantity

\* b[side][price] is a quantity
Book == [Side -> [BookPrice -> LevelQuantity]]

EmptyBook == [s \in Side |-> [p \in BookPrice |-> 0]]

-----------------------------------------------------------------------------
(* Queries                                                                 *)

has_level(b, side) == \E p \in BookPrice : b[side][p] > 0

\* best_bid and best_ask: the price of the first level of the side.
best_price(b, side) ==
  CHOOSE p \in BookPrice :
    /\ b[side][p] > 0
    /\ \A q \in BookPrice : b[side][q] > 0 /\ q # p => Better(side, p, q)

\* Some bid is at or above some ask.
Crossed(b) ==
  \E p, q \in BookPrice : b["Buy"][p] > 0 /\ b["Sell"][q] > 0 /\ p >= q

-----------------------------------------------------------------------------
(* Methods that change the book                                            *)

\* update_bid and update_ask set the quantity of a level.
update_level(b, side, price, quantity) ==
  [b EXCEPT ![side][price] = quantity]

\* adjust_levels throws when the sum leaves 0 .. INT64_MAX.
can_adjust(b, side, price, delta) == b[side][price] + delta \in LevelQuantity

adjust_level(b, side, price, delta) ==
  [b EXCEPT ![side][price] = @ + delta]
=============================================================================
