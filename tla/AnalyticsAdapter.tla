--------------------------- MODULE AnalyticsAdapter ---------------------------
(***************************************************************************)
(* AnalyticsEngineExecutionAdapter                                         *)
(* (include/analytics_engine_execution_adapter.hpp) and AnalyticsEngine    *)
(* (include/analytics_engine.hpp) around the matching engine, for one      *)
(* symbol.  A market order is executed between two quotes; then the depth, *)
(* the order flow and the impact are recorded.  Everything runs on the     *)
(* engine's thread.  Of RiskManagedExecution, which lies between, matters  *)
(* here that it can throw after the engine has committed                   *)
(* (RiskManagedExecution.tla).  MarketImpactExecutionAdapter               *)
(* (include/market_impact_execution_adapter.hpp) does the same without the *)
(* depth and the order flow.                                               *)
(***************************************************************************)
EXTENDS BookObserver, MarketImpact

CONSTANTS
  LoadedSnapshots,   \* books that an external feed loads
  MaxPlaced          \* bound on the limit orders placed by others

ASSUME AnalyticsAssumption == LoadedSnapshots \subseteq Book /\ MaxPlaced \in Nat

VARIABLES
  stage,               \* of execute: free, executing, or executed
  quote,               \* std::optional<MarketQuote> before, as a set
  order,               \* side of the market order, and its first trade id
  depth,               \* depth_by_symbol_, as a set
  impact,              \* impact_by_symbol_, as a set
  unseen               \* history: what has changed the book, without an
                       \* exception, since the last on_order_book_update,
                       \* and whether that one stopped half-way

analysis == <<state, depth, impact, analytics_healthy>>

NoOrder == [side |-> "Buy", first_trade |-> 0]

AnalyticsInit ==
  /\ stage = "free"
  /\ quote = {}
  /\ order = NoOrder
  /\ depth = {}
  /\ impact = {}
  /\ unseen = {"other"}

Finished ==
  /\ stage' = "free"
  /\ quote' = {}
  /\ order' = NoOrder

-----------------------------------------------------------------------------
(* The engine                                                              *)

\* execute_market_buy and execute_market_sell, up to the engine.  The copy of
\* the book for the quote may run out of memory.
execute(request) ==
  /\ stage = "free"
  /\ request.kind = "market"
  /\ Call(request)
  /\ stage' = "executing"
  /\ order' = [side |-> request.side, first_trade |-> store.next_trade_id]
  /\ \/ /\ quote' = {capture_quote(levels)}
        /\ UNCHANGED analytics_healthy
     \/ /\ quote' = {}
        /\ analytics_healthy' = FALSE
  /\ UNCHANGED <<state, depth, impact, unseen>>

\* Orders that do not pass through the adapter
place(request) ==
  /\ stage = "free"
  /\ request.kind # "market"
  /\ request.kind = "limit" => next_order_id <= MaxPlaced
  /\ Call(request)
  /\ UNCHANGED <<stage, quote, order, analysis, unseen>>

load_depth(b) ==
  /\ stage = "free"
  /\ replace_snapshot(b)
  /\ unseen' = unseen \cup {"other"}
  /\ UNCHANGED <<stage, quote, order, analysis>>

\* Mutant: a result with a remainder is returned as it is.
HasExecuted_fully == remaining = 0

HasExecuted == remaining < op.request.quantity

\* A result without executions is returned as it is.
execution_returns ==
  /\ Returning
  /\ IF stage = "executing" /\ HasExecuted
       THEN stage' = "executed" /\ UNCHANGED <<quote, order>>
       ELSE Finished
  /\ unseen' = IF levels' = before[1] THEN unseen
               ELSE unseen \cup {IF stage = "executing" THEN "adapter" ELSE "other"}
  /\ UNCHANGED analysis

execution_runs ==
  /\ Running
  /\ IF stage = "executing" /\ pc' = "idle" THEN Finished
                                             ELSE UNCHANGED <<stage, quote, order>>
  /\ UNCHANGED <<analysis, unseen>>

\* The position cannot be recorded: the exception passes through execute.
position_throws ==
  /\ stage = "executed"
  /\ Finished
  /\ unseen' = (unseen \ {"adapter"}) \cup {"position"}
  /\ UNCHANGED <<vars, analysis>>

-----------------------------------------------------------------------------
(* AnalyticsEngine                                                         *)

\* Mutant: the depth is stored before OFI has accepted the snapshot.
book_update_depth_first(accepted) ==
  LET snapshot == snapshot_of(levels)
  IN  /\ depth' = {analyze_depth(levels)}
      /\ IF accepted
           THEN can_update(snapshot) /\ state' = update(state, snapshot) /\ unseen' = {}
           ELSE /\ state' \in IF can_update(snapshot) THEN update_failed(state) ELSE {state}
                /\ UNCHANGED unseen

\* depth_by_symbol_[symbol]
saved_depth == IF depth = {} THEN {NoDepth} ELSE depth

\* on_order_book_update: the entry for the depth comes before the update of
\* OFI, which may refuse the snapshot or run out of memory, and the depth is
\* copied last.  That copy may run out of memory too, before the bids or
\* between bids and asks.
book_update(accepted) ==
  LET snapshot == snapshot_of(levels)
      analyzed == analyze_depth(levels)
  IN  IF accepted
        THEN /\ can_update(snapshot)
             /\ state' = update(state, snapshot)
             /\ depth' = {analyzed}
             /\ unseen' = {}
        ELSE \/ UNCHANGED <<state, depth, unseen>>
             \/ /\ depth' = saved_depth
                /\ state' \in IF can_update(snapshot) THEN update_failed(state)
                                                      ELSE {state}
                /\ UNCHANGED unseen
             \/ /\ can_update(snapshot)
                /\ state' = update(state, snapshot)
                /\ \/ depth' = saved_depth
                   \/ depth' = {[d EXCEPT !["Buy"] = analyzed["Buy"]] : d \in saved_depth}
                /\ unseen' = unseen \cup {"torn"}

on_order_book_update ==
  /\ deployment = "analytics"
  /\ stage = "free" /\ pc = "idle"
  /\ \E accepted \in BOOLEAN :
       /\ book_update(accepted)
       /\ analytics_healthy' = (analytics_healthy /\ accepted)
  /\ UNCHANGED <<vars, stage, quote, order, impact>>

executed_trades ==
  SelectSeq(store.trades, LAMBDA t : t.trade_id >= order.first_trade)

\* insert_or_assign
recorded_impact ==
  {analyze(order.side, executed_trades, q, capture_quote(levels)) : q \in quote}

\* The rest of execute: the second quote, the book, the impact.  Each may
\* fail by itself.
record ==
  /\ stage = "executed"
  /\ \E quoted, accepted, recorded \in BOOLEAN :
       /\ recorded => quoted /\ quote # {}
       /\ IF deployment = "analytics"
            THEN book_update(accepted)
            ELSE accepted /\ UNCHANGED <<state, depth, unseen>>
       /\ impact' = IF recorded THEN recorded_impact ELSE impact
       /\ analytics_healthy' = (analytics_healthy /\ quoted /\ accepted
                                  /\ (recorded \/ quote = {}))
  /\ Finished
  /\ UNCHANGED vars

AnalyticsNext ==
  \/ \E request \in Request : execute(request) \/ place(request)
  \/ \E b \in LoadedSnapshots : load_depth(b)
  \/ execution_returns
  \/ execution_runs
  \/ position_throws
  \/ on_order_book_update
  \/ record

-----------------------------------------------------------------------------
(* Properties                                                              *)

\* A market order pays for what it takes: it never executes at a better
\* average than the quote it found, it never moves the mid price in its own
\* favour, and it takes no more than was on offer.
ImpactIsAdverse ==
  \A i \in impact :
    /\ \A slippage \in i.slippage : slippage >= 0
    /\ \A change \in i.signed_mid_impact : change >= 0
    /\ i.liquidity_consumed <= i.available_liquidity
    /\ i.liquidity_consumed >= i.fill_count

\* The depth on record and the order flow describe the same book, whatever
\* failed before the last copy of on_order_book_update: a depth that OFI has
\* not accepted is never shown, except for the empty summary of a symbol
\* whose first update failed.
DepthGoesWithOFI ==
  deployment = "analytics" =>
    IF "torn" \in unseen THEN ~ analytics_healthy
    ELSE IF state.initialized
      THEN \E d \in depth : \A s \in Side :
             IF d[s] = <<>> THEN state.previous[s] = NoLevel
             ELSE /\ d[s][1].price_ticks = state.previous[s].price_ticks
                  /\ d[s][1].quantity = state.previous[s].quantity
      ELSE depth \subseteq {NoDepth}

\* Between operations the depth on record is that of the book, unless an
\* operation has returned that changed the book and was not recorded: orders
\* that threw half-way, or found nothing to execute, make no difference.
\* While analytics are healthy, such an operation was never a market order
\* that executed something through the adapter, except one whose position
\* could not be recorded: that exception leaves analytics_healthy true and
\* the depth as it was.
DepthIsCurrent ==
  /\ stage = "free" /\ pc = "idle" /\ unseen = {} => depth = {analyze_depth(levels)}
  /\ deployment = "analytics" /\ analytics_healthy /\ stage = "free" => "adapter" \notin unseen
=============================================================================
