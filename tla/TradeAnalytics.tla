---------------------------- MODULE TradeAnalytics ----------------------------
(***************************************************************************)
(* RollingVWAP (include/rolling_vwap.hpp), TradeStatistics                 *)
(* (include/trade_statistics.hpp) and the AnalyticsExecutionHandler that   *)
(* feeds them (include/analytics_execution_handler.hpp), for one symbol.   *)
(* Prices and quantities of trades are integers, which doubles represent   *)
(* exactly up to 2^53.  A trade has a side, a price and a quantity.        *)
(***************************************************************************)
EXTENDS MarketTypes, Sequences

CONSTANT window_size

\* The constructor of RollingVWAP refuses an empty window.
ASSUME WindowAssumption == window_size \in Nat \ {0}

Trade == [side : Side, price : Price, quantity : Quantity]

-----------------------------------------------------------------------------
(* RollingVWAP                                                             *)

NoVwap == [trades |-> <<>>, total_notional |-> 0, total_volume |-> 0]

notional(t) == t.price * t.quantity

\* A full window loses its oldest trade before the new one is stored.
drop_oldest(v) ==
  IF Len(v.trades) = window_size
    THEN [trades         |-> Tail(v.trades),
          total_notional |-> v.total_notional - notional(Head(v.trades)),
          total_volume   |-> v.total_volume - Head(v.trades).quantity]
    ELSE v

vwap_add_trade(v, t) ==
  LET w == drop_oldest(v)
  IN  [trades         |-> Append(w.trades, t),
       total_notional |-> w.total_notional + notional(t),
       total_volume   |-> w.total_volume + t.quantity]

-----------------------------------------------------------------------------
(* TradeStatistics                                                         *)

NoStatistics ==
  [trade_count |-> 0, total_volume |-> 0, total_price |-> 0, minimum_price |-> 0,
   maximum_price |-> 0, volume |-> [s \in Side |-> 0]]

\* buy_volume and sell_volume are volume; the engine's trades have a side.
stats_add_trade(st, t) ==
  LET first == st.trade_count = 0
  IN  [trade_count   |-> st.trade_count + 1,
       total_volume  |-> st.total_volume + t.quantity,
       total_price   |-> st.total_price + t.price,
       minimum_price |-> IF first \/ t.price < st.minimum_price
                           THEN t.price ELSE st.minimum_price,
       maximum_price |-> IF first \/ t.price > st.maximum_price
                           THEN t.price ELSE st.maximum_price,
       volume        |-> [st.volume EXCEPT ![t.side] = @ + t.quantity]]

-----------------------------------------------------------------------------
(* AnalyticsExecutionHandler                                               *)

NoAnalytics == [vwap |-> NoVwap, statistics |-> NoStatistics]

add_trade(a, t) ==
  [vwap |-> vwap_add_trade(a.vwap, t), statistics |-> stats_add_trade(a.statistics, t)]

\* The loop over the trades of an execution
apply_execution(a, trades) ==
  LET after[i \in 0 .. Len(trades)] ==
        IF i = 0 THEN a ELSE add_trade(after[i - 1], trades[i])
  IN  after[Len(trades)]

\* What is left behind when memory runs out at some trade: nothing of it, the
\* room made for it in the window, or the trade in the window alone.
apply_execution_failed(a, trades) ==
  UNION {LET before == apply_execution(a, SubSeq(trades, 1, i - 1))
         IN  {before,
              [before EXCEPT !.vwap = drop_oldest(@)],
              [before EXCEPT !.vwap = vwap_add_trade(@, trades[i])]} :
         i \in 1 .. Len(trades)}
=============================================================================
