------------------------- MODULE RiskManagedExecution -------------------------
(***************************************************************************)
(* RiskManagedExecution (include/risk_managed_execution.hpp) with the      *)
(* RiskValidator it asks, the PositionExecutionHandler and PositionManager *)
(* that it feeds and the analytics that come last.                         *)
(*                                                                         *)
(* A call passes through the risk check, the engine, one apply_trade per   *)
(* trade and the analytics, and each of them may throw.  The engine is     *)
(* that of MatchingEngine.tla, seen from here: it throws and has done      *)
(* nothing, or commits trades that together are at most what was asked     *)
(* for.  The model decides how much was executed when the engine commits,  *)
(* and into which trades that is divided as they are applied.              *)
(***************************************************************************)
EXTENDS Position, TradeAnalytics

CONSTANTS
  Symbols,
  WithAnalytics,   \* whether an analytics_handler was given
  MaxTraded        \* bound on the quantity traded in a symbol

ASSUME RiskAssumption == WithAnalytics \in BOOLEAN /\ MaxTraded \in Nat

VARIABLES
  call,               \* the call in progress
  known, positions,   \* positions_: the symbols with a position, the positions
  analytics,          \* per symbol
  analytics_healthy,
  exposure,           \* history: net quantity that the engine has traded
  traded,             \* history: the quantity traded, bought or sold
  unrecorded,         \* history: the part of the net that no position shows
  cash,               \* history: what the applied trades have brought in
  entries,            \* history: prices at which the position was built up
  increases,          \* history: how often it was built up
  overflowed,         \* history: symbols with a profit that left int64
  applied,            \* history: the trades applied, when there are analytics
  fed                 \* history: how many of them analytics should know

market  == <<exposure, traded, unrecorded>>
account == <<cash, entries, increases, overflowed, applied>>
vars == <<call, known, positions, analytics, analytics_healthy, market, account, fed>>

Idle == [status |-> "idle"]
Applying(symbol, side, left, done) ==
  [status |-> "applying", symbol |-> symbol, side |-> side, left |-> left, done |-> done]

Signed(side, quantity) == IF side = "Buy" THEN quantity ELSE - quantity

Init ==
  /\ call = Idle
  /\ known = {}
  /\ positions = [s \in Symbols |-> NewPosition]
  /\ analytics = [s \in Symbols |-> NoAnalytics]
  /\ analytics_healthy = TRUE
  /\ exposure = [s \in Symbols |-> 0]
  /\ traded = [s \in Symbols |-> 0]
  /\ unrecorded = [s \in Symbols |-> 0]
  /\ cash = [s \in Symbols |-> 0]
  /\ entries = [s \in Symbols |-> {}]
  /\ increases = [s \in Symbols |-> 0]
  /\ overflowed = {}
  /\ applied = [s \in Symbols |-> <<>>]
  /\ fed = [s \in Symbols |-> [vwap |-> 0, statistics |-> 0]]

-----------------------------------------------------------------------------
(* execute_market_buy and execute_market_sell                              *)

\* RiskValidator: a symbol without a position counts as flat.
current_position(s) == IF s \in known THEN positions[s].quantity ELSE 0

\* The engine commits executed out of the quantity asked for.  A call that
\* risk limits or the engine refuse changes nothing.
execute_market(s, side, quantity, executed) ==
  /\ call = Idle
  /\ is_trade_allowed(current_position(s), Signed(side, quantity))
  /\ executed <= quantity /\ traded[s] + executed <= MaxTraded
  /\ call' = Applying(s, side, executed, <<>>)
  /\ exposure' = [exposure EXCEPT ![s] = @ + Signed(side, executed)]
  /\ traded' = [traded EXCEPT ![s] = @ + executed]
  /\ UNCHANGED <<known, positions, analytics, analytics_healthy, unrecorded,
                 account, fed>>

\* What the trade earns fits realized_pnl_ticks_, and so does the sum.
ProfitFits(pos, q, price) ==
  pos.quantity # 0 /\ ~ SameDirection(pos, q) =>
    /\ realized_change(pos, q, price) \in Pnl
    /\ pos.realized_pnl_ticks + realized_change(pos, q, price) \in Pnl

\* PositionManager::apply_trade for the next trade of the result
position_apply_trade(price, quantity) ==
  /\ call.status = "applying" /\ call.left > 0
  /\ quantity <= call.left
  /\ LET s     == call.symbol
         q     == Signed(call.side, quantity)
         trade == [side |-> call.side, price |-> price, quantity |-> quantity]
         pos   == apply_trade(positions[s], q, price)
         turned == pos.quantity # 0 /\ (positions[s].quantity > 0) # (pos.quantity > 0)
     IN  /\ can_apply_trade(q, price)
         /\ call' = Applying(s, call.side, call.left - quantity, Append(call.done, trade))
         /\ known' = known \cup {s}
         /\ positions' = [positions EXCEPT ![s] = pos]
         /\ cash' = [cash EXCEPT ![s] = @ - q * price]
         /\ entries' = [entries EXCEPT ![s] =
              IF positions[s].quantity = 0 \/ turned THEN {price}
              ELSE IF SameDirection(positions[s], q) THEN @ \cup {price}
              ELSE IF pos.quantity = 0 THEN {} ELSE @]
         /\ increases' = [increases EXCEPT ![s] =
              IF positions[s].quantity # 0 /\ SameDirection(positions[s], q)
                THEN @ + 1 ELSE @]
         /\ overflowed' = IF ProfitFits(positions[s], q, price) THEN overflowed
                                                              ELSE overflowed \cup {s}
         /\ applied' = [applied EXCEPT ![s] = IF WithAnalytics THEN Append(@, trade) ELSE @]
  /\ UNCHANGED <<analytics, analytics_healthy, market, fed>>

\* try_emplace of a symbol's first position runs out of memory.  The
\* exception leaves the call after the engine has committed.
position_apply_fails ==
  /\ call.status = "applying" /\ call.left > 0
  /\ call.symbol \notin known
  /\ call' = Idle
  /\ unrecorded' = [unrecorded EXCEPT ![call.symbol] = @ + Signed(call.side, call.left)]
  /\ UNCHANGED <<known, positions, analytics, analytics_healthy, exposure, traded, account, fed>>

AllApplied == call.status = "applying" /\ call.left = 0

Fed(s) == [fed EXCEPT ![s] = [vwap       |-> @.vwap + Len(call.done),
                              statistics |-> @.statistics + Len(call.done)]]

\* No handler, or nothing was executed
no_analytics ==
  /\ AllApplied
  /\ ~ WithAnalytics \/ call.done = <<>>
  /\ call' = Idle
  /\ UNCHANGED <<known, positions, analytics, analytics_healthy, market, account, fed>>

apply_analytics ==
  /\ AllApplied
  /\ WithAnalytics /\ call.done # <<>>
  /\ call' = Idle
  /\ analytics' = [analytics EXCEPT ![call.symbol] = apply_execution(@, call.done)]
  /\ fed' = Fed(call.symbol)
  /\ UNCHANGED <<known, positions, analytics_healthy, market, account>>

\* Mutant: a failure goes unnoticed.
analytics_fail_silently ==
  /\ AllApplied
  /\ WithAnalytics /\ call.done # <<>>
  /\ call' = Idle
  /\ \E left \in apply_execution_failed(analytics[call.symbol], call.done) :
       analytics' = [analytics EXCEPT ![call.symbol] = left]
  /\ fed' = Fed(call.symbol)
  /\ UNCHANGED <<known, positions, analytics_healthy, market, account>>

\* The exception ends in apply_analytics; the call returns the result.
analytics_fail ==
  /\ AllApplied
  /\ WithAnalytics /\ call.done # <<>>
  /\ call' = Idle
  /\ \E left \in apply_execution_failed(analytics[call.symbol], call.done) :
       analytics' = [analytics EXCEPT ![call.symbol] = left]
  /\ analytics_healthy' = FALSE
  /\ fed' = Fed(call.symbol)
  /\ UNCHANGED <<known, positions, market, account>>

-----------------------------------------------------------------------------
(* clear_symbol of the two analytics                                       *)

clear_vwap(s) ==
  /\ call = Idle /\ WithAnalytics
  /\ analytics' = [analytics EXCEPT ![s].vwap = NoVwap]
  /\ fed' = [fed EXCEPT ![s].vwap = 0]
  /\ UNCHANGED <<call, known, positions, analytics_healthy, market, account>>

clear_statistics(s) ==
  /\ call = Idle /\ WithAnalytics
  /\ analytics' = [analytics EXCEPT ![s].statistics = NoStatistics]
  /\ fed' = [fed EXCEPT ![s].statistics = 0]
  /\ UNCHANGED <<call, known, positions, analytics_healthy, market, account>>

Next ==
  \/ \E s \in Symbols, side \in Side, quantity \in Quantity :
       \E executed \in 0 .. MaxQuantity : execute_market(s, side, quantity, executed)
  \/ \E price \in Price, quantity \in Quantity : position_apply_trade(price, quantity)
  \/ position_apply_fails
  \/ no_analytics \/ apply_analytics \/ analytics_fail
  \/ \E s \in Symbols : clear_vwap(s) \/ clear_statistics(s)

Spec == Init /\ [][Next]_vars

-----------------------------------------------------------------------------
(* Properties                                                              *)

Calls ==
  {Idle} \cup [status : {"applying"}, symbol : Symbols, side : Side,
               left : 0 .. MaxQuantity, done : Seq(Trade)]

\* Part of AnalyticsAgree: every variable holds a value of its type.
TypeOK ==
  /\ call \in Calls
  /\ known \subseteq Symbols
  /\ positions \in [Symbols -> [quantity : Int, average_entry_price_ticks : Nat,
                                realized_pnl_ticks : Pnl]]
  /\ \A s \in Symbols : Len(analytics[s].vwap.trades) <= window_size
  /\ analytics_healthy \in BOOLEAN
  /\ exposure \in [Symbols -> Int] /\ unrecorded \in [Symbols -> Int]

\* No position is ever beyond the limit: not after partial fills, not between
\* two trades of an execution, and not when one trade turns the position
\* around.
PositionWithinLimit ==
  \A s \in Symbols : absolute_quantity(positions[s].quantity) <= max_absolute_position

\* What the call in progress has still to apply to s
Outstanding(s) ==
  IF call # Idle /\ call.symbol = s THEN Signed(call.side, call.left) ELSE 0

\* Positions account for everything the engine has traded, except for
\* executions whose first apply_trade could not make the position.
PositionsMatchTrades ==
  \A s \in Symbols :
    exposure[s] = positions[s].quantity + Outstanding(s) + unrecorded[s]

\* A flat position has no average; otherwise truncating the average again and
\* again never takes it below the lowest price, nor above the highest, at
\* which the position was built up since it was last flat or turned around.
AverageAmongEntries ==
  \A s \in Symbols :
    LET pos == positions[s]
    IN  IF pos.quantity = 0 THEN pos.average_entry_price_ticks = 0
        ELSE /\ \E p \in entries[s] : p <= pos.average_entry_price_ticks
             /\ \E p \in entries[s] : p >= pos.average_entry_price_ticks

\* Realized profit is the cash that the trades brought in plus the entry
\* value of what is held.  Truncation makes it differ by less than a tick per
\* unit held each time that the position is built up, and never more.  The
\* exception is a symbol that has once earned, with a trade or in total, more
\* than an int64 holds: the code does not notice, and the profit is wrong
\* from then on.
PnlMatchesCash ==
  \A s \in Symbols \ overflowed :
    absolute_quantity(cash[s]
        + positions[s].quantity * positions[s].average_entry_price_ticks
        - positions[s].realized_pnl_ticks)
      <= increases[s] * (max_absolute_position - 1)

Sum(numbers) ==
  LET sum[i \in 0 .. Len(numbers)] == IF i = 0 THEN 0 ELSE sum[i - 1] + numbers[i]
  IN  sum[Len(numbers)]

SumOver(seq, value(_)) == Sum([i \in DOMAIN seq |-> value(seq[i])])

\* The least and the greatest of a set of prices
Lowest(prices)  == CHOOSE p \in prices : \A r \in prices : p <= r
Highest(prices) == CHOOSE p \in prices : \A r \in prices : p >= r

\* Each number of the statistics, recomputed from the trades
Summary(seq) ==
  LET prices == {seq[i].price : i \in DOMAIN seq}
  IN  [trade_count   |-> Len(seq),
       total_volume  |-> SumOver(seq, LAMBDA t : t.quantity),
       total_price   |-> SumOver(seq, LAMBDA t : t.price),
       minimum_price |-> IF seq = <<>> THEN 0 ELSE Lowest(prices),
       maximum_price |-> IF seq = <<>> THEN 0 ELSE Highest(prices),
       volume        |-> [d \in Side |->
                            SumOver(seq, LAMBDA t : IF t.side = d THEN t.quantity ELSE 0)]]

LastOf(seq, n) == SubSeq(seq, Len(seq) - n + 1, Len(seq))

\* The totals of the window are those of the trades in it, after trades have
\* left it and after insertions that failed half-way.  While analytics_healthy
\* is true, analytics and positions tell the same story between calls: the
\* window holds the last trades of the position and the statistics summarise
\* all of them, since they were last cleared.
AnalyticsAgree ==
  /\ TypeOK
  /\ \A s \in Symbols :
       LET v == analytics[s].vwap
       IN  /\ v.total_notional = SumOver(v.trades, notional)
           /\ v.total_volume = SumOver(v.trades, LAMBDA t : t.quantity)
           /\ WithAnalytics /\ call = Idle /\ analytics_healthy =>
                /\ v.trades = LastOf(applied[s], IF fed[s].vwap < window_size
                                                   THEN fed[s].vwap ELSE window_size)
                /\ analytics[s].statistics = Summary(LastOf(applied[s], fed[s].statistics))
=============================================================================
