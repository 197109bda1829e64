------------------------------ MODULE MarketTypes ------------------------------
(***************************************************************************)
(* The values every part of cmarket shares: sides, prices in ticks and     *)
(* fixed-point quantities, all of them bounded integers in the code.       *)
(***************************************************************************)
EXTENDS Integers

CONSTANTS
  MaxPrice,       \* the largest price in ticks
  MaxQuantity     \* the largest quantity, INT64_MAX in the code

ASSUME MarketAssumption ==
  /\ MaxPrice \in Nat \ {0}
  /\ MaxQuantity \in Nat \ {0}

\* validation::require_positive: the prices and quantities of orders and
\* trades are positive.
Price    == 1 .. MaxPrice
Quantity == 1 .. MaxQuantity

Side == {"Buy", "Sell"}

Opposite(side) == IF side = "Buy" THEN "Sell" ELSE "Buy"

\* The better of two prices of one side: bids descend, asks ascend.
Better(side, p, q) == IF side = "Buy" THEN p > q ELSE p < q

\* An incoming order of this side accepts a resting price.
Accepts(side, limit, p) == IF side = "Buy" THEN p <= limit ELSE p >= limit
=============================================================================
