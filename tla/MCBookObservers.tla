--------------------------- MODULE MCBookObservers ---------------------------
(***************************************************************************)
(* The observers of a book, one of them deployed, for TLC.                 *)
(***************************************************************************)
EXTENDS OFIObservableOrderBook, OFIAdapter, AnalyticsAdapter

observable == <<captured, missed>>
ofi        == <<adapter, runner, others>>
analytics  == <<stage, quote, order, depth, impact, unseen>>

ObserversInit == ObserverInit /\ ObservableInit /\ AdapterInit /\ AnalyticsInit

ObserversNext ==
  /\ \/ deployment = "observable" /\ ObservableNext /\ UNCHANGED <<ofi, analytics>>
     \/ deployment = "ofi" /\ AdapterNext /\ UNCHANGED <<observable, analytics>>
     \/ /\ deployment \in {"analytics", "impact"}
        /\ AnalyticsNext
        /\ UNCHANGED <<observable, ofi>>
  /\ UNCHANGED deployment

ObserversSpec ==
  ObserversInit
    /\ [][ObserversNext]_<<vars, deployment, state, analytics_healthy, observable, ofi, analytics>>

\* Of the trades, the observers read those of the market order that is being
\* executed, and the engine none: how many there are, and where a rollback
\* cuts them off, makes no difference.  Of the state before an operation, the
\* observers read the book.  Outside the observable book no step and no
\* property looks at the values in the window.
ObserversView ==
  <<levels, manager, next_order_id, next_sequence_number, pc, remaining, mutations,
    before[1], store.next_trade_id,
    IF stage = "free" THEN <<>> ELSE executed_trades,
    IF "checkpoint" \in DOMAIN op
    THEN [op EXCEPT !.checkpoint = op.checkpoint.next_trade_id] ELSE op,
    deployment, analytics_healthy, observable, ofi, analytics,
    IF deployment = "observable" THEN <<state>>
    ELSE <<state.initialized, state.previous, Len(state.events)>> >>

-----------------------------------------------------------------------------
(* Values of the constants                                                 *)

MCWindow == [d \in Deployments |-> IF d = "observable" THEN 2 ELSE 1]

MCTouched == {<<"Buy", 1>>}

Only(side, price, quantity) == update_level(EmptyBook, side, price, quantity)

\* A better ask, a better bid, a bid at price 0, which OFI refuses, a crossed
\* book, and one with a quote on either side
MCObservedSnapshots ==
  {Only("Sell", 1, 1), Only("Buy", 2, 1), Only("Buy", 0, 1),
   update_level(Only("Sell", 1, 1), "Buy", 2, 1),
   update_level(Only("Sell", 2, 2), "Buy", 1, 1)}

Depth(bids, bid_quantity, asks, ask_quantity) ==
  [s \in Side |-> [p \in BookPrice |->
     IF s = "Buy" THEN (IF p \in bids THEN bid_quantity ELSE 0)
                  ELSE (IF p \in asks THEN ask_quantity ELSE 0)]]

\* Depth that OFI accepts, and depth that it refuses
MCSnapshots == {Depth({1}, 2, {2}, 2), Depth({2}, 2, {1}, 2)}

\* A bid and two asks, of which a market order may take one or both; and a
\* crossed book with a bid at price 0 and more asks than their sum can hold
MCLoadedSnapshots == {Depth({0}, 1, {1, 2}, 1), Depth({0, 2}, 1, {1, 2}, 2)}

-----------------------------------------------------------------------------
(* Properties                                                              *)

\* Part of OFIInStep: every variable holds a value of its type, and what an
\* observer keeps while it is at work is gone when it is done.
ObserversTypeOK ==
  /\ deployment \in Deployments
  /\ levels \in Book
  /\ state.initialized \in BOOLEAN
  /\ state.previous \in [Side -> [price_ticks : BookPrice, quantity : LevelQuantity]]
  /\ Len(state.events) <= ofi_window_size[deployment]
  /\ analytics_healthy \in BOOLEAN /\ missed \in BOOLEAN /\ others \in BOOLEAN
  /\ adapter \in {"free", "waiting", "capturing"}
  /\ runner \in {"nobody", "adapter", "direct"}
  /\ runner = "adapter" <=> adapter = "waiting"
  /\ stage \in {"free", "executing", "executed"}
  /\ stage = "free" => quote = {} /\ order = NoOrder
  /\ \A d \in depth, s \in Side : Len(d[s]) <= depth_levels
  /\ unseen \subseteq {"other", "adapter", "position", "torn"}
\* OFI compares with the book as it is, whichever observer feeds it: after
\* every call that returned normally, and while analytics are healthy after
\* every operation through an adapter.
OFIInStep == ObserversTypeOK /\ InStepAfterSuccess /\ HealthyOFIInStep
=============================================================================
