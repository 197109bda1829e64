-------------------------- MODULE MatchingRefinement --------------------------
(***************************************************************************)
(* The matching engine implements the price-time market.  While an         *)
(* operation is under way the market is still in the state before it; it   *)
(* moves on when the operation returns.                                    *)
(***************************************************************************)
EXTENDS MCMatchingEngine

\* The state a caller knows of
Known(i) == IF pc = "idle" THEN persistent[i] ELSE before[i]

KnownOrders ==
  {Known(2).orders[i] : i \in 1 .. Len(Known(2).orders)}

Promised == INSTANCE PriceTimeMarket WITH
  orders   <- KnownOrders,
  depth    <- Known(1),
  trades   <- Known(3).trades,
  counters <- [trade    |-> Known(3).next_trade_id,
               order    |-> Known(4),
               sequence |-> Known(5)],
  request  <- op.request

\* A step that ends an operation with an exception
Throwing ==
  \/ pc \in {"undo", "undo_delta", "failed", "failed_adjusted"}
  \/ ModifyQuantityThrows
  \/ \E recorded \in BOOLEAN : ExecuteLevelThrows(recorded)

\* Every operation of the engine, with its loops, its journal and its index
\* structures, ends either with exactly the fills, resting orders, book,
\* trades and counters that price-time priority prescribes for its arguments
\* (docs/architecture.md, "Matching Engine"), or with nothing changed, and
\* the latter only by an exception.
ImplementsPriceTimeMarket ==
  /\ Promised!Spec
  /\ [][op # NoCall /\ op' = NoCall /\ ~ Throwing => Promised!Served]_vars
=============================================================================
