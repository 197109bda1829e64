------------------------------- MODULE Position -------------------------------
(***************************************************************************)
(* Position (include/position.hpp) and RiskLimits (include/risk_limits.hpp)*)
(* as values.  A position is positive when long and negative when short.   *)
(* The products are 128 bits wide in the code and the risk limit keeps the *)
(* quantities small.  Realized profit is an int64: what a trade earns is   *)
(* narrowed to it and added to it, and neither is tested for overflow.     *)
(***************************************************************************)
EXTENDS Integers

CONSTANTS
  max_absolute_position,
  MaxPnl                   \* the largest Pnl, INT64_MAX in the code

\* The constructor of RiskLimits refuses anything else.
ASSUME LimitAssumption == max_absolute_position \in Nat \ {0}

ASSUME PnlAssumption == MaxPnl \in Nat

Pnl == -(MaxPnl + 1) .. MaxPnl

\* static_cast<Pnl>: two's complement keeps the low bits.
narrowed(n) == ((n + (MaxPnl + 1)) % (2 * (MaxPnl + 1))) - (MaxPnl + 1)

NewPosition ==
  [quantity |-> 0, average_entry_price_ticks |-> 0, realized_pnl_ticks |-> 0]

absolute_quantity(q) == IF q < 0 THEN - q ELSE q

SameDirection(pos, q) == (pos.quantity > 0) = (q > 0)

opened(pos, q, price) ==
  [quantity |-> q, average_entry_price_ticks |-> price,
   realized_pnl_ticks |-> pos.realized_pnl_ticks]

\* Mutant: the new average is rounded up.
increased_rounding_up(pos, q, price) ==
  LET held  == absolute_quantity(pos.quantity)
      added == absolute_quantity(q)
  IN  [quantity |-> pos.quantity + q,
       average_entry_price_ticks |->
         (pos.average_entry_price_ticks * held + price * added) \div (held + added) + 1,
       realized_pnl_ticks |-> pos.realized_pnl_ticks]

\* The average entry price is truncated to whole ticks.
increased(pos, q, price) ==
  LET held  == absolute_quantity(pos.quantity)
      added == absolute_quantity(q)
  IN  [quantity |-> pos.quantity + q,
       average_entry_price_ticks |->
         (pos.average_entry_price_ticks * held + price * added) \div (held + added),
       realized_pnl_ticks |-> pos.realized_pnl_ticks]

\* What a trade in the other direction earns on the part that it closes
realized_change(pos, q, price) ==
  LET held    == absolute_quantity(pos.quantity)
      traded  == absolute_quantity(q)
      closing == IF traded < held THEN traded ELSE held
  IN  closing * (IF pos.quantity > 0 THEN price - pos.average_entry_price_ticks
                                     ELSE pos.average_entry_price_ticks - price)

\* The sum of two int64 wraps around in the builds, although the language
\* leaves it undefined.
realized_pnl(pos, q, price) ==
  narrowed(pos.realized_pnl_ticks + narrowed(realized_change(pos, q, price)))

\* Mutant: a position that is turned around keeps its old average.
reduced_keeping_average(pos, q, price) ==
  [quantity |-> pos.quantity + q,
   average_entry_price_ticks |->
     IF pos.quantity + q = 0 THEN 0 ELSE pos.average_entry_price_ticks,
   realized_pnl_ticks |-> realized_pnl(pos, q, price)]

\* Mutant: a trade larger than the position only closes it.
reduced_to_flat(pos, q, price) ==
  LET held   == absolute_quantity(pos.quantity)
      traded == absolute_quantity(q)
  IN  [quantity |-> IF traded < held THEN pos.quantity + q ELSE 0,
       average_entry_price_ticks |->
         IF traded < held THEN pos.average_entry_price_ticks ELSE 0,
       realized_pnl_ticks |-> realized_pnl(pos, q, price)]

\* Closed in part, closed, or turned around
reduced(pos, q, price) ==
  LET held   == absolute_quantity(pos.quantity)
      traded == absolute_quantity(q)
  IN  [quantity |-> pos.quantity + q,
       average_entry_price_ticks |->
         IF traded < held THEN pos.average_entry_price_ticks
         ELSE IF traded = held THEN 0 ELSE price,
       realized_pnl_ticks |-> realized_pnl(pos, q, price)]

can_apply_trade(q, price) == q # 0 /\ price > 0

apply_trade(pos, q, price) ==
  IF pos.quantity = 0 THEN opened(pos, q, price)
  ELSE IF SameDirection(pos, q) THEN increased(pos, q, price)
  ELSE reduced(pos, q, price)

\* Mutant: the limit is compared with the trade alone.
is_trade_allowed_alone(current_position, trade_quantity) ==
  /\ trade_quantity <= max_absolute_position
  /\ trade_quantity >= - max_absolute_position

\* RiskLimits::is_trade_allowed
is_trade_allowed(current_position, trade_quantity) ==
  /\ current_position + trade_quantity <= max_absolute_position
  /\ current_position + trade_quantity >= - max_absolute_position
=============================================================================
