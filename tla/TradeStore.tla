------------------------------ MODULE TradeStore ------------------------------
(***************************************************************************)
(* TradeStore of include/trade_store.hpp: the trade history and the two    *)
(* counters that number the trades, as a value with an operator per        *)
(* method.  A trade without a resting order on one side has order id 0     *)
(* there, std::nullopt in the code.                                        *)
(***************************************************************************)
EXTENDS MarketTypes, Sequences

EmptyStore ==
  [trades |-> <<>>, next_trade_id |-> 1, next_execution_sequence |-> 1]

validate_trade(price, quantity) == price > 0 /\ quantity > 0

\* A push_back that throws makes record_trade decrement both counters again,
\* so a record_trade that throws leaves the store as it was.
record_trade(st, aggressor, price, quantity, buy_id, sell_id) ==
  [trades |-> Append(st.trades,
                [aggressor_side     |-> aggressor,
                 price_ticks        |-> price,
                 quantity           |-> quantity,
                 trade_id           |-> st.next_trade_id,
                 buy_order_id       |-> buy_id,
                 sell_order_id      |-> sell_id,
                 execution_sequence |-> st.next_execution_sequence]),
   next_trade_id           |-> st.next_trade_id + 1,
   next_execution_sequence |-> st.next_execution_sequence + 1]

checkpoint(st) ==
  [trade_count             |-> Len(st.trades),
   next_trade_id           |-> st.next_trade_id,
   next_execution_sequence |-> st.next_execution_sequence]

\* Mutant: the trades go, the counters stay.
rollback_keeps_counters(st, c) ==
  [trades                  |-> SubSeq(st.trades, 1, c.trade_count),
   next_trade_id           |-> st.next_trade_id,
   next_execution_sequence |-> st.next_execution_sequence]

rollback(st, c) ==
  [trades                  |-> SubSeq(st.trades, 1, c.trade_count),
   next_trade_id           |-> c.next_trade_id,
   next_execution_sequence |-> c.next_execution_sequence]

\* The counters go on after clear.
clear(st) ==
  [trades                  |-> <<>>,
   next_trade_id           |-> st.next_trade_id,
   next_execution_sequence |-> st.next_execution_sequence]
=============================================================================
