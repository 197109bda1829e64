------------------------------ MODULE OFIAdapter ------------------------------
(***************************************************************************)
(* The matching engine behind an adapter that captures the book for OFI    *)
(* after every operation that has changed something:                       *)
(* OFIMatchingEngineAdapter, and OFIConcurrentMatchingAdapter, which holds *)
(* its mutex from the submission of a command until the capture is done.   *)
(* Other threads may submit commands to the ConcurrentMatchingEngine       *)
(* directly; its worker then runs them between the adapter's, and also     *)
(* between the end of an adapter's command and the capture.  The mutex     *)
(* leaves one adapter call at a time, and a command that waits in the      *)
(* queue sees nothing, so a call begins when the worker takes it.          *)
(***************************************************************************)
EXTENDS BookObserver

CONSTANTS
  DirectCallers,       \* whether there are such threads
  MaxCalledTradeId     \* MaxTradeId for the calls of this module

ASSUME DirectAssumption == DirectCallers \in BOOLEAN /\ MaxCalledTradeId \in Nat

VARIABLES
  adapter,             \* the mutex: free, or what its holder is doing
  runner,              \* whose operation the engine is running
  others               \* history: has the book changed, since OFI last saw
                       \* it, other than by calls of the adapter?

AdapterInit ==
  /\ adapter = "free"
  /\ runner = "nobody"
  /\ others = FALSE

-----------------------------------------------------------------------------
(* Operations                                                              *)

adapter_call(request) ==
  /\ adapter = "free" /\ runner = "nobody"
  /\ request.kind # "cancel" => store.next_trade_id <= MaxCalledTradeId
  /\ Call(request)
  /\ adapter' = "waiting"
  /\ runner' = "adapter"
  /\ UNCHANGED <<state, analytics_healthy, others>>

direct_call(request) ==
  /\ DirectCallers
  /\ runner = "nobody"
  /\ request.kind # "cancel" => store.next_trade_id <= MaxCalledTradeId
  /\ Call(request)
  /\ runner' = "direct"
  /\ UNCHANGED <<adapter, state, analytics_healthy, others>>

\* A feed loads external depth.
feed(b) ==
  /\ replace_snapshot(b)
  /\ others' = TRUE
  /\ UNCHANGED <<adapter, runner, state, analytics_healthy>>

\* Mutant: a market order that nothing was left for is not captured.
captures_full_only ==
  op.request.kind = "market" => remaining = 0

\* A market order is captured when it executed something, every other
\* operation when it returns.
captures ==
  op.request.kind = "market" => remaining < op.request.quantity

Disturbed == others' = (others \/ (runner = "direct" /\ levels' # levels))

\* The future becomes ready with a value,
engine_returns ==
  /\ Returning
  /\ runner' = "nobody"
  /\ adapter' = IF runner = "adapter" THEN (IF captures THEN "capturing" ELSE "free")
                                      ELSE adapter
  /\ Disturbed
  /\ UNCHANGED <<state, analytics_healthy>>

\* or with an exception, which leaves the adapter at once.
engine_runs ==
  /\ Running
  /\ runner' = IF pc' = "idle" THEN "nobody" ELSE runner
  /\ adapter' = IF runner = "adapter" /\ pc' = "idle" THEN "free" ELSE adapter
  /\ Disturbed
  /\ UNCHANGED <<state, analytics_healthy>>

-----------------------------------------------------------------------------
(* Captures                                                                *)

captured_now ==
  /\ capture(levels)
  /\ others' = FALSE
  /\ UNCHANGED analytics_healthy

\* Its exception goes to the caller and says nothing of later captures.
initialize ==
  /\ adapter = "free" /\ runner # "adapter"
  /\ \/ captured_now
     \/ capture_throws(levels) /\ UNCHANGED <<others, analytics_healthy>>
  /\ UNCHANGED <<vars, adapter, runner>>

capture_after_commit ==
  /\ adapter = "capturing"
  /\ \/ captured_now
     \/ /\ capture_throws(levels)
        /\ analytics_healthy' = FALSE
        /\ UNCHANGED others
  /\ adapter' = "free"
  /\ UNCHANGED <<vars, runner>>

AdapterNext ==
  \/ \E request \in Request : adapter_call(request) \/ direct_call(request)
  \/ \E b \in Snapshots : feed(b)
  \/ engine_returns
  \/ engine_runs
  \/ initialize
  \/ capture_after_commit

-----------------------------------------------------------------------------
(* Properties                                                              *)

\* Part of OFIInStep: while analytics are healthy and nobody else has touched the book, OFI
\* knows its top whenever the mutex is free: after operations that traded,
\* that rested an order, that threw half-way, and that changed nothing.
HealthyOFIInStep ==
  /\ deployment = "ofi"
  /\ adapter = "free" /\ analytics_healthy /\ ~ others
  /\ state.initialized
  => state.previous = snapshot_of(levels)
=============================================================================
