----------------------------- MODULE BookObserver -----------------------------
(***************************************************************************)
(* What the observers of an order book have in common: the engine that     *)
(* changes the book, the state of the order flow imbalance and its         *)
(* capture, and a flag that says whether every analysis since the start    *)
(* has succeeded.  A program deploys one of them:                          *)
(*   observable   OFIObservableOrderBook (OFIObservableOrderBook.tla)      *)
(*   ofi          OFIMatchingEngineAdapter or                              *)
(*                OFIConcurrentMatchingAdapter (OFIAdapter.tla)            *)
(*   analytics    AnalyticsEngineExecutionAdapter (AnalyticsAdapter.tla)   *)
(*   impact       MarketImpactExecutionAdapter, in the same module         *)
(***************************************************************************)
EXTENDS MatchingEngine, OrderFlowImbalance

CONSTANT ofi_window_size   \* of the OFI of each deployment

Deployments == {"observable", "ofi", "analytics", "impact"}

\* The constructor of OrderFlowImbalance refuses an empty window.
ASSUME OFIWindowAssumption == ofi_window_size \in [Deployments -> Nat \ {0}]

VARIABLES
  deployment,
  state,               \* what OFI keeps for the symbol
  analytics_healthy

ObserverInit ==
  /\ Init
  /\ deployment \in Deployments
  /\ state = NewSymbolState(ofi_window_size[deployment])
  /\ analytics_healthy = TRUE

\* OFIOrderBookHandler::capture: b is the book it copies.
capture(b) ==
  /\ can_update(snapshot_of(b))
  /\ state' = update(state, snapshot_of(b))

\* OFI refuses a crossed or locked book and prices that are not positive, and
\* memory may run out.
capture_throws(b) ==
  IF can_update(snapshot_of(b)) THEN state' \in update_failed(state) ELSE state' = state
=============================================================================
