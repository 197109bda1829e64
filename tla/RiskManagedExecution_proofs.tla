--------------------- MODULE RiskManagedExecution_proofs ---------------------
(***************************************************************************)
(* Positions stay within the risk limit and account for every trade,       *)
(* average entry prices stay among the prices paid, realized profit keeps  *)
(* to the cash, and the analytics agree with the positions, for all        *)
(* limits, windows, symbols, prices and quantities.                        *)
(***************************************************************************)
EXTENDS RiskManagedExecution, WellFoundedInduction, TLAPS

PositionRecord ==
  [quantity : Int, average_entry_price_ticks : Nat, realized_pnl_ticks : Pnl]

\* The constants of MarketTypes have the values that TLC checks.
LEMMA Constants ==
  /\ MaxQuantity \in Nat /\ Price \subseteq Nat \ {0} /\ Quantity \subseteq Nat \ {0}
  /\ Quantity \subseteq 1 .. MaxQuantity
  /\ max_absolute_position \in Nat \ {0}
BY LimitAssumption, MarketAssumption DEF Price, Quantity

-----------------------------------------------------------------------------
(* Position::apply_trade                                                   *)

\* Truncated or not, the mean of two prices weighted by positive quantities
\* lies between any two bounds of the prices (the average of increased).
LEMMA WeightedMean ==
  ASSUME NEW a \in Nat, NEW b \in Nat, NEW h \in Nat \ {0}, NEW k \in Nat \ {0},
         NEW lo \in Nat, NEW hi \in Nat,
         lo <= a, lo <= b, a <= hi, b <= hi
  PROVE  /\ (a * h + b * k) \div (h + k) \in Nat
         /\ lo <= (a * h + b * k) \div (h + k)
         /\ (a * h + b * k) \div (h + k) <= hi
<1> DEFINE n == h + k
           x == a * h + b * k
           d == x \div n
<1>1. n \in Nat \ {0} /\ x \in Nat
  OBVIOUS
<1>2. /\ lo * h <= a * h /\ lo * k <= b * k
      /\ a * h <= hi * h /\ b * k <= hi * k
  OBVIOUS
<1>3. lo * n = lo * h + lo * k /\ hi * n = hi * h + hi * k
  OBVIOUS
<1>4. lo * n <= x /\ x <= hi * n
  BY <1>2, <1>3
<1>5. d \in Int /\ n * d <= x /\ x < n * d + n
  BY <1>1
<1> HIDE DEF n, x, d
<1>6. lo <= d
  <2>1. SUFFICES ASSUME d + 1 <= lo PROVE FALSE
    BY <1>5
  <2>2. n * (d + 1) <= n * lo
    BY <1>1, <1>5, <2>1
  <2>3. n * (d + 1) = n * d + n /\ n * lo = lo * n
    BY <1>1, <1>5
  <2> QED BY <1>1, <1>4, <1>5, <2>2, <2>3
<1>7. d <= hi
  <2>1. SUFFICES ASSUME hi + 1 <= d PROVE FALSE
    BY <1>5
  <2>2. n * (hi + 1) <= n * d
    BY <1>1, <1>5, <2>1
  <2>3. n * (hi + 1) = hi * n + n
    BY <1>1
  <2> QED BY <1>1, <1>4, <1>5, <2>2, <2>3
<1> QED BY <1>5, <1>6, <1>7 DEF d, x, n

\* The cast to int64 gives an int64, and leaves alone what is one.
LEMMA Narrowed ==
  ASSUME NEW n \in Int
  PROVE  /\ narrowed(n) \in Pnl
         /\ n \in Pnl => narrowed(n) = n
<1> DEFINE h == MaxPnl + 1
           x == n + h
<1>1. h \in Nat \ {0} /\ x \in Int /\ 2 * h \in Nat \ {0}
  BY PnlAssumption
<1>2. narrowed(n) = (x % (2 * h)) - h
  BY Zenon DEF narrowed
<1>3. Pnl = (- h) .. (h - 1)
  BY PnlAssumption DEF Pnl
<1> HIDE DEF h
<1>4. x % (2 * h) \in 0 .. 2 * h - 1
  BY <1>1
<1>5. x \in 0 .. 2 * h - 1 => x % (2 * h) = x
  BY <1>1
<1> QED BY <1>1, <1>2, <1>3, <1>4, <1>5

\* Zero is an int64, and every int64 is an integer.
LEMMA PnlIsInt == 0 \in Pnl /\ \A n \in Pnl : n \in Int
BY PnlAssumption DEF Pnl

\* The numbers of a position
LEMMA PositionNumbers ==
  ASSUME NEW pos \in PositionRecord
  PROVE  /\ pos.quantity \in Int /\ pos.average_entry_price_ticks \in Nat
         /\ pos.realized_pnl_ticks \in Pnl /\ pos.realized_pnl_ticks \in Int
BY Zenon, PnlIsInt DEF PositionRecord

\* What a trade earns is a whole number of ticks.
LEMMA ChangeType ==
  ASSUME NEW pos \in PositionRecord, NEW q \in Int \ {0}, NEW price \in Nat \ {0}
  PROVE  realized_change(pos, q, price) \in Int
<1> DEFINE closing == IF absolute_quantity(q) < absolute_quantity(pos.quantity)
                        THEN absolute_quantity(q) ELSE absolute_quantity(pos.quantity)
           gain == IF pos.quantity > 0 THEN price - pos.average_entry_price_ticks
                                       ELSE pos.average_entry_price_ticks - price
<1>1. closing \in Int /\ gain \in Int
  BY DEF PositionRecord, absolute_quantity
<1>2. closing * gain \in Int
  BY <1>1
<1> QED BY Zenon, <1>2 DEF realized_change

\* apply_trade adds the signed quantity of the trade and returns a position,
\* whichever of its branches it takes.
LEMMA ApplyTrade ==
  ASSUME NEW pos \in PositionRecord, NEW q \in Int \ {0}, NEW price \in Nat \ {0}
  PROVE  /\ apply_trade(pos, q, price) \in PositionRecord
         /\ apply_trade(pos, q, price).quantity = pos.quantity + q
<1> USE DEF PositionRecord
<1>1. absolute_quantity(pos.quantity) \in Nat /\ absolute_quantity(q) \in Nat \ {0}
  BY DEF absolute_quantity
<1>2. CASE pos.quantity = 0
  BY <1>2 DEF apply_trade, opened
<1>3. CASE pos.quantity # 0 /\ SameDirection(pos, q)
  <2>1. absolute_quantity(pos.quantity) \in Nat \ {0}
    BY <1>3 DEF absolute_quantity
  <2> DEFINE average == (pos.average_entry_price_ticks * absolute_quantity(pos.quantity)
                          + price * absolute_quantity(q))
                         \div (absolute_quantity(pos.quantity) + absolute_quantity(q))
  <2>2. PICK top \in Nat : pos.average_entry_price_ticks <= top /\ price <= top
    OBVIOUS
  <2>3. average \in Nat
    <3>1. /\ absolute_quantity(pos.quantity) \in Nat \ {0}
          /\ absolute_quantity(q) \in Nat \ {0}
          /\ pos.average_entry_price_ticks \in Nat /\ price \in Nat /\ top \in Nat
          /\ 0 \in Nat /\ 0 <= pos.average_entry_price_ticks /\ 0 <= price
      BY <1>1, <2>1, <2>2
    <3> QED BY Zenon, <2>2, <3>1, WeightedMean
  <2> HIDE DEF average
  <2>4. increased(pos, q, price) =
          [quantity |-> pos.quantity + q, average_entry_price_ticks |-> average,
           realized_pnl_ticks |-> pos.realized_pnl_ticks]
    BY Zenon DEF increased, average
  <2>5. apply_trade(pos, q, price) = increased(pos, q, price)
    BY Zenon, <1>3 DEF apply_trade
  <2> QED BY <2>3, <2>4, <2>5
<1>4. CASE pos.quantity # 0 /\ ~ SameDirection(pos, q)
  <2>1. realized_change(pos, q, price) \in Int
    BY Zenon, ChangeType
  <2>2. apply_trade(pos, q, price) = reduced(pos, q, price)
    BY Zenon, <1>4 DEF apply_trade
  <2>3. realized_pnl(pos, q, price) \in Pnl
    <3>1. narrowed(realized_change(pos, q, price)) \in Pnl
      BY Zenon, <2>1, Narrowed
    <3>2. pos.realized_pnl_ticks + narrowed(realized_change(pos, q, price)) \in Int
      <4>1. /\ pos.realized_pnl_ticks \in Int
            /\ narrowed(realized_change(pos, q, price)) \in Int
        BY Zenon, <3>1, PnlIsInt, PositionNumbers
      <4> QED BY <4>1
    <3> QED BY Zenon, <3>2, Narrowed DEF realized_pnl
  <2> QED BY <1>1, <2>2, <2>3 DEF reduced
<1> QED BY Zenon, <1>2, <1>3, <1>4

-----------------------------------------------------------------------------
(* The invariant.  A call in progress may bring the position to anything   *)
(* up to what it has still to apply, so the limit is kept for that sum;    *)
(* and a symbol without a position is flat, which is what RiskValidator    *)
(* takes it for.                                                           *)

InLimit(q) == q <= max_absolute_position /\ q >= - max_absolute_position

Types ==
  /\ call \in Calls
  /\ known \subseteq Symbols
  /\ positions \in [Symbols -> PositionRecord]
  /\ exposure \in [Symbols -> Int]
  /\ unrecorded \in [Symbols -> Int]

RiskInv ==
  /\ Types
  /\ \A s \in Symbols : s \notin known => positions[s].quantity = 0
  /\ \A s \in Symbols : InLimit(positions[s].quantity)
  /\ \A s \in Symbols : InLimit(positions[s].quantity + Outstanding(s))
  /\ PositionsMatchTrades

\* The two forms of a call
LEMMA CallForms ==
  ASSUME Types
  PROVE  /\ call.status \in {"idle", "applying"}
         /\ call = Idle <=> call.status = "idle"
         /\ call.status = "applying" =>
              /\ call.symbol \in Symbols /\ call.side \in Side
              /\ call.left \in 0 .. MaxQuantity /\ call.done \in Seq(Trade)
BY DEF Types, Calls, Idle

\* Signed is an integer, and zero for no quantity (the sign that
\* RiskManagedExecution and the position handler give to a side).
LEMMA SignedType ==
  ASSUME NEW side \in Side, NEW q \in Nat
  PROVE  /\ Signed(side, q) \in Int
         /\ q = 0 => Signed(side, q) = 0
BY DEF Signed

\* A part of an execution stays within the limit when nothing and the whole of
\* it do (what is_trade_allowed relies on when it checks the full quantity).
LEMMA PartWithinLimit ==
  ASSUME NEW x \in Int, NEW side \in Side, NEW whole \in Nat, NEW part \in Nat,
         part <= whole, InLimit(x), InLimit(x + Signed(side, whole))
  PROVE  InLimit(x + Signed(side, part))
  BY Constants DEF Signed, InLimit

\* A call that passes the risk check keeps the limit whatever part of it is
\* executed.
LEMMA ExecuteKeeps ==
  ASSUME RiskInv, NEW s \in Symbols, NEW side \in Side, NEW quantity \in Quantity,
         NEW executed \in 0 .. MaxQuantity,
         execute_market(s, side, quantity, executed)
  PROVE  RiskInv'
<1> USE DEF RiskInv
<1>1. call.status = "idle"
  BY Zenon, CallForms DEF execute_market
<1>2. /\ call' = Applying(s, side, executed, <<>>)
      /\ exposure' = [exposure EXCEPT ![s] = @ + Signed(side, executed)]
      /\ positions' = positions /\ known' = known /\ unrecorded' = unrecorded
      /\ executed <= quantity
      /\ InLimit(positions[s].quantity + Signed(side, quantity))
  BY Zenon DEF current_position, execute_market, is_trade_allowed, InLimit
<1>3. /\ executed \in Nat /\ quantity \in Nat
      /\ positions[s].quantity \in Int /\ max_absolute_position \in Nat
  BY Constants DEF Types, PositionRecord
<1>4. Types'
  <2>1. <<>> \in Seq(Trade)
    OBVIOUS
  <2>2. call' \in Calls
    BY Zenon, <1>2, <2>1 DEF Applying, Calls
  <2>3. exposure' \in [Symbols -> Int]
    BY <1>2, <1>3, SignedType DEF Types
  <2> QED BY Zenon, <1>2, <2>2, <2>3 DEF Types
<1>5. \A t \in Symbols : Outstanding(t) = 0
  BY Zenon, <1>1, CallForms DEF Outstanding
<1>6. \A t \in Symbols : Outstanding(t)' = IF t = s THEN Signed(side, executed) ELSE 0
  BY Zenon, <1>2 DEF Outstanding, Applying, Idle
<1>7. InLimit(positions[s].quantity + Signed(side, executed))
  BY Zenon, <1>2, <1>3, PartWithinLimit
<1>8. \A t \in Symbols : InLimit(positions'[t].quantity + Outstanding(t)')
  <2> TAKE t \in Symbols
  <2>1. CASE t = s
    BY Zenon, <1>2, <1>6, <1>7, <2>1
  <2>2. CASE t # s
    BY Zenon, <1>2, <1>5, <1>6, <2>2
  <2> QED BY Zenon, <2>1, <2>2
<1>9. PositionsMatchTrades'
  <2> SUFFICES ASSUME NEW t \in Symbols
               PROVE  exposure'[t] = positions'[t].quantity + Outstanding(t)' + unrecorded'[t]
    BY Zenon DEF PositionsMatchTrades
  <2>1. exposure[t] = positions[t].quantity + Outstanding(t) + unrecorded[t]
    BY Zenon DEF PositionsMatchTrades
  <2>2. positions[t].quantity \in Int /\ unrecorded[t] \in Int /\ exposure[t] \in Int
    BY Zenon DEF Types, PositionRecord
  <2>3. Signed(side, executed) \in Int
    BY Zenon, <1>3, SignedType
  <2>4. exposure'[t] = IF t = s THEN exposure[t] + Signed(side, executed) ELSE exposure[t]
    BY Zenon, <1>2 DEF Types
  <2> QED BY <1>2, <1>5, <1>6, <2>1, <2>2, <2>3, <2>4
<1> QED BY Zenon, <1>2, <1>4, <1>8, <1>9

\* One trade moves its quantity from what is outstanding to the position.
LEMMA ApplyKeeps ==
  ASSUME RiskInv, NEW price \in Price, NEW quantity \in Quantity,
         position_apply_trade(price, quantity)
  PROVE  RiskInv'
<1> USE DEF RiskInv
<1> DEFINE s == call.symbol
           q == Signed(call.side, quantity)
           pos == apply_trade(positions[s], q, price)
           trade == [side |-> call.side, price |-> price, quantity |-> quantity]
<1>1. /\ call.status = "applying" /\ quantity <= call.left
      /\ call' = Applying(s, call.side, call.left - quantity, Append(call.done, trade))
      /\ known' = known \cup {s}
      /\ positions' = [positions EXCEPT ![s] = pos]
      /\ exposure' = exposure /\ unrecorded' = unrecorded
  BY Zenon DEF position_apply_trade, market
<1>2. /\ s \in Symbols /\ call.side \in Side /\ call.left \in 0 .. MaxQuantity
      /\ call.done \in Seq(Trade)
  BY Zenon, <1>1, CallForms
<1>3. /\ quantity \in Nat \ {0} /\ price \in Nat \ {0} /\ MaxQuantity \in Nat
      /\ max_absolute_position \in Nat
  BY Zenon, Constants
<1>4. q \in Int \ {0}
  BY <1>2, <1>3 DEF Signed
<1>5. positions[s] \in PositionRecord
  BY Zenon, <1>2 DEF Types
<1>6. pos \in PositionRecord /\ pos.quantity = positions[s].quantity + q
  BY Zenon, <1>3, <1>4, <1>5, ApplyTrade
<1> HIDE DEF pos
<1>7. /\ call' \in Calls
      /\ call'.status = "applying" /\ call'.symbol = s /\ call'.side = call.side
      /\ call'.left = call.left - quantity
  <2>1. trade \in Trade
    BY Zenon, <1>2 DEF Trade
  <2>2. Append(call.done, trade) \in Seq(Trade)
    BY <1>2, <2>1
  <2>3. call.left - quantity \in 0 .. MaxQuantity
    BY <1>1, <1>2, <1>3
  <2> QED BY Zenon, <1>1, <1>2, <2>2, <2>3 DEF Applying, Calls
<1>8. Types'
  BY Zenon, <1>1, <1>2, <1>6, <1>7 DEF Types
<1>9. \A t \in Symbols :
        /\ positions'[t] = IF t = s THEN pos ELSE positions[t]
        /\ Outstanding(t) = IF t = s THEN Signed(call.side, call.left) ELSE 0
        /\ Outstanding(t)' = IF t = s THEN Signed(call.side, call.left - quantity) ELSE 0
  <2>1. call # Idle /\ call' # Idle
    BY <1>1, <1>7 DEF Idle
  <2> QED BY Zenon, <1>1, <1>2, <1>7, <2>1 DEF Outstanding, Types
<1>10. /\ Signed(call.side, call.left) \in Int
       /\ Signed(call.side, call.left - quantity) + q = Signed(call.side, call.left)
       /\ Signed(call.side, call.left - quantity) \in Int
  BY <1>1, <1>2, <1>3 DEF Signed
<1>11. \A t \in Symbols : positions'[t].quantity + Outstanding(t)'
                            = positions[t].quantity + Outstanding(t)
  <2> TAKE t \in Symbols
  <2>1. positions[t].quantity \in Int
    BY Zenon DEF Types, PositionRecord
  <2> QED BY <1>4, <1>6, <1>9, <1>10, <2>1
<1>12. InLimit(pos.quantity)
  <2>1. InLimit(positions[s].quantity) /\ InLimit(positions[s].quantity + Signed(call.side, call.left))
    BY Zenon, <1>2, <1>9
  <2>2. positions[s].quantity \in Int
    BY Zenon, <1>5 DEF PositionRecord
  <2>3. call.left \in Nat /\ quantity \in Nat /\ quantity <= call.left
    BY <1>1, <1>2, <1>3
  <2>4. InLimit(positions[s].quantity + Signed(call.side, quantity))
    BY Zenon, <1>2, <2>1, <2>2, <2>3, PartWithinLimit
  <2> QED BY Zenon, <1>6, <2>4
<1>13. \A t \in Symbols : InLimit(positions'[t].quantity)
  BY Zenon, <1>9, <1>12
<1>14. \A t \in Symbols : t \notin known' => positions'[t].quantity = 0
  BY Zenon, <1>1, <1>9
<1>15. PositionsMatchTrades'
  BY Zenon, <1>1, <1>11 DEF PositionsMatchTrades
<1> QED BY Zenon, <1>8, <1>11, <1>13, <1>14, <1>15

\* An execution that no position takes up is unrecorded from then on.
LEMMA FailureKeeps ==
  ASSUME RiskInv, position_apply_fails
  PROVE  RiskInv'
<1> USE DEF RiskInv
<1>1. /\ call.status = "applying" /\ call' = Idle
      /\ unrecorded' = [unrecorded EXCEPT ![call.symbol] = @ + Signed(call.side, call.left)]
      /\ known' = known /\ positions' = positions /\ exposure' = exposure
  BY Zenon DEF position_apply_fails
<1>2. call.symbol \in Symbols /\ call.side \in Side /\ call.left \in Nat
  BY <1>1, CallForms, Constants
<1>3. Signed(call.side, call.left) \in Int
  BY Zenon, <1>2, SignedType
<1>4. Types'
  BY <1>1, <1>2, <1>3 DEF Types, Calls
<1>5. \A t \in Symbols :
        /\ Outstanding(t) = IF t = call.symbol THEN Signed(call.side, call.left) ELSE 0
        /\ Outstanding(t)' = 0
        /\ unrecorded'[t] = IF t = call.symbol
                              THEN unrecorded[t] + Signed(call.side, call.left)
                              ELSE unrecorded[t]
        /\ positions[t].quantity \in Int /\ unrecorded[t] \in Int
  BY <1>1, <1>2 DEF Idle, Outstanding, Types, PositionRecord
<1>6. PositionsMatchTrades'
  BY <1>1, <1>3, <1>5 DEF PositionsMatchTrades
<1> QED BY <1>1, <1>4, <1>5, <1>6

\* Nothing is outstanding when the analytics are reached, so ending the call
\* there changes no account.
LEMMA EndKeeps ==
  ASSUME RiskInv, AllApplied, call' = Idle,
         known' = known, positions' = positions,
         exposure' = exposure, unrecorded' = unrecorded
  PROVE  RiskInv'
<1> USE DEF RiskInv
<1>1. call.status = "applying" /\ call.left = 0
  BY Zenon DEF AllApplied
<1>2. call.symbol \in Symbols /\ call.side \in Side
  BY Zenon, <1>1, CallForms
<1>3. Types'
  BY Zenon DEF Types, Calls
<1>4. \A t \in Symbols : Outstanding(t) = 0 /\ Outstanding(t)' = 0
  BY <1>1, <1>2, SignedType DEF Outstanding
<1>5. PositionsMatchTrades'
  BY Zenon, <1>4 DEF PositionsMatchTrades
<1> QED BY Zenon, <1>3, <1>4, <1>5

\* Every step of every call keeps the invariant.
LEMMA RiskStep == RiskInv /\ [Next]_vars => RiskInv'
<1> SUFFICES ASSUME RiskInv, [Next]_vars PROVE RiskInv'
  BY Zenon
<1>1. ASSUME NEW s \in Symbols, NEW side \in Side, NEW quantity \in Quantity,
             NEW executed \in 0 .. MaxQuantity,
             execute_market(s, side, quantity, executed)
      PROVE  RiskInv'
  BY Zenon, <1>1, ExecuteKeeps
<1>2. ASSUME NEW price \in Price, NEW quantity \in Quantity,
             position_apply_trade(price, quantity)
      PROVE  RiskInv'
  BY Zenon, <1>2, ApplyKeeps
<1>3. CASE position_apply_fails
  BY Zenon, <1>3, FailureKeeps
<1>4. CASE no_analytics
  BY Zenon, <1>4, EndKeeps DEF no_analytics, market
<1>5. CASE apply_analytics
  BY Zenon, <1>5, EndKeeps DEF apply_analytics, market
<1>6. CASE analytics_fail
  BY Zenon, <1>6, EndKeeps DEF analytics_fail, market
<1>7. ASSUME /\ call' = call /\ known' = known /\ positions' = positions
             /\ exposure' = exposure /\ unrecorded' = unrecorded
      PROVE  RiskInv'
  BY Zenon, <1>7 DEF RiskInv, Types, Outstanding, PositionsMatchTrades
<1>8. ASSUME NEW s \in Symbols, clear_vwap(s) \/ clear_statistics(s)
      PROVE  RiskInv'
  BY Zenon, <1>7, <1>8 DEF clear_vwap, clear_statistics, market
<1>9. CASE UNCHANGED vars
  BY Zenon, <1>7, <1>9 DEF vars, market
<1> QED BY Zenon, <1>1, <1>2, <1>3, <1>4, <1>5, <1>6, <1>8, <1>9 DEF Next

\* The invariant holds when the program starts without positions.
LEMMA RiskStart == Init => RiskInv
<1> SUFFICES ASSUME Init PROVE RiskInv
  BY Zenon
<1> USE DEF Init
<1>1. Types
  <2>1. NewPosition \in PositionRecord
    BY PnlIsInt DEF NewPosition, PositionRecord
  <2> QED BY <2>1 DEF Types, Calls
<1>2. \A s \in Symbols : positions[s].quantity = 0 /\ Outstanding(s) = 0
  BY Zenon DEF NewPosition, Outstanding
<1>3. PositionsMatchTrades
  BY <1>2 DEF PositionsMatchTrades
<1>4. InLimit(0)
  BY Constants DEF InLimit
<1> QED BY <1>1, <1>2, <1>3, <1>4 DEF RiskInv

\* RiskManagedExecution never lets a position exceed max_absolute_position.
THEOREM PositionsStayWithinLimit == Spec => []PositionWithinLimit
<1>1. RiskInv => PositionWithinLimit
  <2> SUFFICES ASSUME RiskInv, NEW s \in Symbols
               PROVE  absolute_quantity(positions[s].quantity) <= max_absolute_position
    BY Zenon DEF PositionWithinLimit
  <2>1. positions[s].quantity \in Int /\ InLimit(positions[s].quantity)
    BY Zenon DEF RiskInv, Types, PositionRecord
  <2> QED BY <2>1, Constants DEF absolute_quantity, InLimit
<1> QED BY <1>1, RiskStart, RiskStep, PTL DEF Spec

\* Positions, the trades in progress and the trades whose position could not
\* be made add up to what the engine has traded.
THEOREM PositionsAccountForTrades == Spec => []PositionsMatchTrades
<1>1. RiskInv => PositionsMatchTrades
  BY Zenon DEF RiskInv
<1> QED BY <1>1, RiskStart, RiskStep, PTL DEF Spec

-----------------------------------------------------------------------------
(* The average entry price                                                 *)

\* What AverageAmongEntries says of one position
Among(pos, prices) ==
  IF pos.quantity = 0 THEN pos.average_entry_price_ticks = 0
  ELSE /\ \E p \in prices : p <= pos.average_entry_price_ticks
       /\ \E p \in prices : p >= pos.average_entry_price_ticks

AverageInv ==
  /\ RiskInv
  /\ entries \in [Symbols -> SUBSET Nat]
  /\ \A s \in Symbols : Among(positions[s], entries[s])

\* The prices that position_apply_trade keeps for a position
EntriesAfter(pos, q, price, prices) ==
  LET new    == apply_trade(pos, q, price)
      turned == new.quantity # 0 /\ (pos.quantity > 0) # (new.quantity > 0)
  IN  IF pos.quantity = 0 \/ turned THEN {price}
      ELSE IF SameDirection(pos, q) THEN prices \cup {price}
      ELSE IF new.quantity = 0 THEN {} ELSE prices

\* Building up a position moves its average towards the new price and not
\* beyond it, closing a part leaves it, turning around starts anew.
LEMMA AverageKept ==
  ASSUME NEW pos \in PositionRecord, NEW q \in Int \ {0}, NEW price \in Nat \ {0},
         NEW prices \in SUBSET Nat, Among(pos, prices)
  PROVE  Among(apply_trade(pos, q, price), EntriesAfter(pos, q, price, prices))
<1> USE DEF PositionRecord
<1> DEFINE new == apply_trade(pos, q, price)
           after == EntriesAfter(pos, q, price, prices)
<1>1. new \in PositionRecord /\ new.quantity = pos.quantity + q
  BY Zenon, ApplyTrade
<1>2. CASE pos.quantity = 0
  BY <1>2, <1>1 DEF apply_trade, opened, EntriesAfter, Among
<1>3. CASE pos.quantity # 0 /\ SameDirection(pos, q)
  <2> DEFINE held == absolute_quantity(pos.quantity)
             added == absolute_quantity(q)
             old == pos.average_entry_price_ticks
  <2>1. held \in Nat \ {0} /\ added \in Nat \ {0} /\ old \in Nat
    BY <1>3 DEF absolute_quantity
  <2>2. /\ new.average_entry_price_ticks = (old * held + price * added) \div (held + added)
    BY Zenon, <1>3 DEF apply_trade, increased
  <2>3. new.quantity # 0 /\ (pos.quantity > 0) = (new.quantity > 0)
    BY <1>1, <1>3 DEF SameDirection
  <2>4. after = prices \cup {price}
    BY Zenon, <1>3, <2>3 DEF EntriesAfter
  <2>5. PICK low \in prices : low <= old
    BY Zenon, <1>3 DEF Among
  <2>6. PICK high \in prices : high >= old
    BY Zenon, <1>3 DEF Among
  <2>7. PICK lo \in after : lo <= old /\ lo <= price /\ lo \in Nat
    BY <2>4, <2>5, <2>1
  <2>8. PICK hi \in after : old <= hi /\ price <= hi /\ hi \in Nat
    BY <2>1, <2>4, <2>6
  <2> HIDE DEF held, added, old, after
  <2>9. /\ lo <= (old * held + price * added) \div (held + added)
        /\ (old * held + price * added) \div (held + added) <= hi
        /\ (old * held + price * added) \div (held + added) \in Nat
    BY Zenon, <2>1, <2>7, <2>8, WeightedMean
  <2>10. lo <= new.average_entry_price_ticks /\ hi >= new.average_entry_price_ticks
    BY Zenon, <2>2, <2>7, <2>8, <2>9 DEF held, added, old
  <2> HIDE DEF new
  <2>11. Among(new, after)
    BY Zenon, <2>3, <2>7, <2>8, <2>10 DEF Among
  <2> QED BY Zenon, <2>11 DEF new, after
<1>4. CASE pos.quantity # 0 /\ ~ SameDirection(pos, q)
  <2>1. new = reduced(pos, q, price)
    BY Zenon, <1>4 DEF apply_trade
  <2>2. CASE absolute_quantity(q) < absolute_quantity(pos.quantity)
    BY <2>1, <2>2, <1>1, <1>4
       DEF reduced, absolute_quantity, SameDirection, EntriesAfter, Among
  <2>3. CASE absolute_quantity(q) = absolute_quantity(pos.quantity)
    <3>1. new.average_entry_price_ticks = 0
      BY <2>3, <2>1 DEF absolute_quantity, reduced
    <3>2. new.quantity = 0
      BY <1>1, <1>4, <2>3 DEF absolute_quantity, SameDirection
    <3> QED BY Zenon, <3>1, <3>2 DEF Among
  <2>4. CASE absolute_quantity(q) > absolute_quantity(pos.quantity)
    BY <2>1, <2>4, <1>1, <1>4
       DEF reduced, absolute_quantity, SameDirection, EntriesAfter, Among
  <2> QED BY <2>2, <2>3, <2>4 DEF absolute_quantity
<1> QED BY Zenon, <1>2, <1>3, <1>4

\* Only position_apply_trade touches positions and their entry prices.
LEMMA AverageStep == AverageInv /\ [Next]_vars => AverageInv'
<1> SUFFICES ASSUME AverageInv, [Next]_vars PROVE AverageInv'
  BY Zenon
<1>1. RiskInv'
  BY Zenon, RiskStep DEF AverageInv
<1>2. ASSUME NEW price \in Price, NEW quantity \in Quantity,
             position_apply_trade(price, quantity)
      PROVE  AverageInv'
  <2> DEFINE s == call.symbol
             q == Signed(call.side, quantity)
  <2>1. call.status = "applying" /\ s \in Symbols /\ call.side \in Side
    BY Zenon, <1>2, CallForms DEF AverageInv, RiskInv, position_apply_trade
  <2>2. quantity \in Nat \ {0} /\ price \in Nat \ {0} /\ q \in Int \ {0}
    BY <2>1, Constants DEF Signed
  <2>3. /\ positions' = [positions EXCEPT ![s] = apply_trade(positions[s], q, price)]
        /\ entries' = [entries EXCEPT ![s] = EntriesAfter(positions[s], q, price, entries[s])]
    BY Zenon, <1>2 DEF position_apply_trade, EntriesAfter
  <2>4. positions[s] \in PositionRecord /\ entries[s] \in SUBSET Nat
        /\ Among(positions[s], entries[s])
    BY Zenon, <2>1 DEF AverageInv, RiskInv, Types
  <2>5. Among(apply_trade(positions[s], q, price),
              EntriesAfter(positions[s], q, price, entries[s]))
    BY Zenon, <2>2, <2>4, AverageKept
  <2>6. EntriesAfter(positions[s], q, price, entries[s]) \in SUBSET Nat
    BY Zenon, <2>2, <2>4 DEF EntriesAfter
  <2>7. positions \in [Symbols -> PositionRecord] /\ entries \in [Symbols -> SUBSET Nat]
    BY Zenon DEF AverageInv, RiskInv, Types
  <2> HIDE DEF q, s
  <2>8. \A t \in Symbols : Among(positions'[t], entries'[t])
    BY Zenon, <2>3, <2>5, <2>7 DEF AverageInv
  <2>9. entries' \in [Symbols -> SUBSET Nat]
    BY Zenon, <2>3, <2>6, <2>7
  <2> QED BY Zenon, <1>1, <2>8, <2>9 DEF AverageInv
<1>3. ASSUME positions' = positions /\ entries' = entries
      PROVE  AverageInv'
  BY Zenon, <1>1, <1>3 DEF AverageInv
<1>4. ASSUME NEW s \in Symbols, NEW side \in Side, NEW quantity \in Quantity,
             NEW executed \in 0 .. MaxQuantity,
             execute_market(s, side, quantity, executed)
      PROVE  AverageInv'
  BY Zenon, <1>3, <1>4 DEF execute_market, account
<1>5. CASE position_apply_fails \/ no_analytics \/ apply_analytics \/ analytics_fail
  BY Zenon, <1>3, <1>5
     DEF position_apply_fails, no_analytics, apply_analytics, analytics_fail, account
<1>6. ASSUME NEW s \in Symbols, clear_vwap(s) \/ clear_statistics(s)
      PROVE  AverageInv'
  BY Zenon, <1>3, <1>6 DEF clear_vwap, clear_statistics, account
<1>7. CASE UNCHANGED vars
  BY Zenon, <1>3, <1>7 DEF vars, account
<1> QED BY Zenon, <1>2, <1>4, <1>5, <1>6, <1>7 DEF Next

\* The average entry price that positions report is between the lowest and
\* the highest price at which the position was built up.
THEOREM AveragesStayAmongEntries == Spec => []AverageAmongEntries
<1>1. Init => AverageInv
  <2> SUFFICES ASSUME Init PROVE AverageInv
    BY Zenon
  <2>1. \A s \in Symbols : Among(positions[s], entries[s])
    BY Zenon DEF Init, NewPosition, Among
  <2> QED BY Zenon, <2>1, RiskStart DEF Init, AverageInv
<1>2. AverageInv => AverageAmongEntries
  BY Zenon DEF AverageInv, AverageAmongEntries, Among
<1> QED BY <1>1, <1>2, AverageStep, PTL DEF Spec

-----------------------------------------------------------------------------
(* Realized profit and cash                                                *)

\* What PnlMatchesCash bounds: cash and entry value of a position less its
\* realized profit
Discrepancy(pos, c) ==
  c + pos.quantity * pos.average_entry_price_ticks - pos.realized_pnl_ticks

\* Dividing a value over n units and multiplying back loses less than n.
LEMMA Truncation ==
  ASSUME NEW x \in Nat, NEW n \in Nat \ {0}
  PROVE  /\ x \div n \in Nat
         /\ x - n * (x \div n) \in 0 .. n - 1
<1>1. x \div n \in Int /\ n * (x \div n) <= x /\ x < n * (x \div n) + n
  OBVIOUS
<1>2. x \div n \in Nat
  <2>1. SUFFICES ASSUME x \div n <= -1 PROVE FALSE
    BY <1>1
  <2>2. n * (x \div n) <= n * (-1)
    BY <1>1, <2>1
  <2> QED BY <1>1, <2>2
<1> QED BY <1>1, <1>2

\* Opening, closing and turning around book exactly what the trade brings, as
\* long as it fits; building up loses what the division by the new size truncates.
LEMMA DiscrepancyKept ==
  ASSUME NEW pos \in PositionRecord, NEW q \in Int \ {0}, NEW price \in Nat \ {0},
         NEW c \in Int, ProfitFits(pos, q, price)
  PROVE  LET new  == apply_trade(pos, q, price)
             lost == Discrepancy(pos, c) - Discrepancy(new, c - q * price)
         IN  IF pos.quantity # 0 /\ SameDirection(pos, q)
               THEN lost \in - (absolute_quantity(new.quantity) - 1)
                               .. absolute_quantity(new.quantity) - 1
               ELSE lost = 0
<1> USE DEF PositionRecord
<1> DEFINE new == apply_trade(pos, q, price)
           avg == pos.average_entry_price_ticks
           qty == pos.quantity
           pnl == pos.realized_pnl_ticks
<1>1. qty \in Int /\ avg \in Nat /\ pnl \in Int /\ q * price \in Int
  <2>1. qty \in Int /\ avg \in Nat /\ pnl \in Int
    BY Zenon, PositionNumbers
  <2>2. q * price \in Int
    OBVIOUS
  <2> QED BY Zenon, <2>1, <2>2
<1>2. CASE qty = 0
  BY <1>2, <1>1 DEF apply_trade, opened, Discrepancy
<1>3. CASE qty # 0 /\ SameDirection(pos, q)
  <2> DEFINE held == absolute_quantity(qty)
             added == absolute_quantity(q)
             n == held + added
             x == avg * held + price * added
             d == x \div n
             rest == x - n * d
  <2>1. held \in Nat \ {0} /\ added \in Nat \ {0} /\ n \in Nat \ {0} /\ x \in Nat
    BY <1>1, <1>3 DEF absolute_quantity
  <2>2. d \in Nat /\ rest \in 0 .. n - 1
    BY Zenon, <2>1, Truncation
  <2>3. new = [quantity |-> qty + q, average_entry_price_ticks |-> d,
               realized_pnl_ticks |-> pnl]
    BY Zenon, <1>3 DEF apply_trade, increased
  <2>4. absolute_quantity(new.quantity) = n
    BY <1>3, <2>3 DEF absolute_quantity, SameDirection
  <2> HIDE DEF d
  <2>5. Discrepancy(new, c - q * price) = c - q * price + (qty + q) * d - pnl
    BY <2>3 DEF Discrepancy
  <2>6. Discrepancy(pos, c) = c + qty * avg - pnl
    BY Zenon DEF Discrepancy
  <2>7. CASE qty > 0
    BY <1>3, <2>7, <1>1, <2>2, <2>5, <2>6, <2>1, <2>4
       DEF absolute_quantity, SameDirection
  <2>8. CASE qty < 0
    BY <1>1, <1>3, <2>8, <2>2, <2>5, <2>6, <2>1, <2>4
       DEF absolute_quantity, SameDirection
  <2> QED BY <1>1, <1>3, <2>7, <2>8
<1>4. CASE qty # 0 /\ ~ SameDirection(pos, q)
  <2> DEFINE held == absolute_quantity(qty)
             traded_ == absolute_quantity(q)
             change == realized_change(pos, q, price)
  <2>1. new = reduced(pos, q, price)
    BY Zenon, <1>4 DEF apply_trade
  <2> HIDE DEF pnl
  <2>5. realized_pnl(pos, q, price) = pnl + change
    <3>1. change \in Int /\ change \in Pnl /\ pnl + change \in Pnl
      BY Zenon, <1>4, ChangeType DEF ProfitFits, pnl
    <3>2. narrowed(change) = change
      BY Zenon, <3>1, Narrowed
    <3>3. pnl + change \in Int
      BY Zenon, <3>1, PnlIsInt
    <3>4. narrowed(pnl + change) = pnl + change
      BY Zenon, <3>1, <3>3, Narrowed
    <3> QED BY Zenon, <3>2, <3>4 DEF realized_pnl, pnl
  <2>2. /\ new.quantity = qty + q
        /\ new.realized_pnl_ticks = pnl + change
        /\ new.average_entry_price_ticks =
             IF traded_ < held THEN avg ELSE IF traded_ = held THEN 0 ELSE price
    BY <2>1, <2>5 DEF reduced
  <2> USE DEF pnl
  <2>3. CASE traded_ < held
    BY <1>1, <1>4, <2>3, <2>2
       DEF realized_change, absolute_quantity, SameDirection, Discrepancy
  <2>4. CASE ~ (traded_ < held)
    <3>1. change = qty * (price - avg)
      BY <1>1, <1>4, <2>4 DEF realized_change, absolute_quantity, SameDirection
    <3>2. (qty + q) * new.average_entry_price_ticks = (qty + q) * price
      <4>1. CASE traded_ = held
        BY <1>1, <1>4, <4>1, <2>2, <2>4 DEF absolute_quantity, SameDirection
      <4>2. CASE traded_ # held
        BY Zenon, <2>2, <2>4, <4>2
      <4> QED BY Zenon, <4>1, <4>2
    <3>3. Discrepancy(new, c - q * price)
            = c - q * price + (qty + q) * price - (pnl + qty * (price - avg))
      BY Zenon, <2>2, <3>1, <3>2 DEF Discrepancy
    <3> QED BY <1>1, <1>4, <3>3 DEF Discrepancy
  <2> QED BY Zenon, <2>3, <2>4
<1> QED BY Zenon, <1>2, <1>3, <1>4

Bounded(pos, c, n) ==
  absolute_quantity(Discrepancy(pos, c)) <= n * (max_absolute_position - 1)

PnlInv ==
  /\ RiskInv
  /\ cash \in [Symbols -> Int]
  /\ increases \in [Symbols -> Nat]
  /\ \A s \in Symbols \ overflowed : Bounded(positions[s], cash[s], increases[s])

\* A trade that leaves the position within the limit adds at most one unit of
\* the bound, and only when it builds the position up.
LEMMA BoundKept ==
  ASSUME NEW pos \in PositionRecord, NEW q \in Int \ {0}, NEW price \in Nat \ {0},
         NEW c \in Int, NEW n \in Nat, Bounded(pos, c, n),
         InLimit(apply_trade(pos, q, price).quantity), ProfitFits(pos, q, price)
  PROVE  Bounded(apply_trade(pos, q, price), c - q * price,
                 IF pos.quantity # 0 /\ SameDirection(pos, q) THEN n + 1 ELSE n)
<1> DEFINE new == apply_trade(pos, q, price)
           limit == max_absolute_position - 1
           old == Discrepancy(pos, c)
           now == Discrepancy(new, c - q * price)
<1>1. limit \in Nat
  BY Constants
<1>2. new \in PositionRecord /\ absolute_quantity(new.quantity) - 1 <= limit
      /\ absolute_quantity(new.quantity) \in Int
  <2>1. new \in PositionRecord
    BY Zenon, ApplyTrade
  <2>2. new.quantity \in Int /\ max_absolute_position \in Nat
    BY Zenon, <2>1, Constants DEF PositionRecord
  <2> HIDE DEF new
  <2>3. InLimit(new.quantity)
    BY Zenon DEF new
  <2> QED BY <2>1, <2>2, <2>3 DEF InLimit, absolute_quantity
<1>3. old \in Int /\ now \in Int
  <2>1. /\ pos.quantity * pos.average_entry_price_ticks \in Int
        /\ pos.realized_pnl_ticks \in Int /\ q * price \in Int
    <3>1. /\ pos.quantity \in Int /\ pos.average_entry_price_ticks \in Nat
          /\ pos.realized_pnl_ticks \in Int
      BY Zenon, PositionNumbers
    <3> QED BY <3>1
  <2> HIDE DEF new
  <2>2. new.quantity * new.average_entry_price_ticks \in Int
        /\ new.realized_pnl_ticks \in Int
    <3>1. /\ new.quantity \in Int /\ new.average_entry_price_ticks \in Nat
          /\ new.realized_pnl_ticks \in Int
      BY Zenon, <1>2, PositionNumbers
    <3> QED BY <3>1
  <2> QED BY <2>1, <2>2 DEF Discrepancy
<1>4. absolute_quantity(old) <= n * limit
  BY Zenon DEF Bounded
<1>5. IF pos.quantity # 0 /\ SameDirection(pos, q)
        THEN old - now \in - (absolute_quantity(new.quantity) - 1)
                             .. absolute_quantity(new.quantity) - 1
        ELSE old - now = 0
  BY Zenon, DiscrepancyKept
<1>6. n * limit \in Int /\ (n + 1) * limit = n * limit + limit
  BY <1>1
<1> HIDE DEF new, limit, old, now
<1>7. CASE pos.quantity # 0 /\ SameDirection(pos, q)
  BY <1>1, <1>2, <1>3, <1>4, <1>5, <1>6, <1>7
     DEF absolute_quantity, Bounded, now, new, limit
<1>8. CASE ~ (pos.quantity # 0 /\ SameDirection(pos, q))
  <2>1. now = old
    BY <1>3, <1>5, <1>8
  <2>2. absolute_quantity(now) <= n * limit
    BY Zenon, <1>4, <2>1
  <2> QED BY Zenon, <1>8, <2>2 DEF Bounded, now, new, limit
<1> QED BY Zenon, <1>7, <1>8

\* Only position_apply_trade touches positions and cash.
LEMMA PnlStep == PnlInv /\ [Next]_vars => PnlInv'
<1> SUFFICES ASSUME PnlInv, [Next]_vars PROVE PnlInv'
  BY Zenon
<1>1. RiskInv'
  BY Zenon, RiskStep DEF PnlInv
<1>2. ASSUME NEW price \in Price, NEW quantity \in Quantity,
             position_apply_trade(price, quantity)
      PROVE  PnlInv'
  <2> DEFINE s == call.symbol
             q == Signed(call.side, quantity)
             new == apply_trade(positions[s], q, price)
             n == IF positions[s].quantity # 0 /\ SameDirection(positions[s], q)
                    THEN increases[s] + 1 ELSE increases[s]
  <2>1. call.status = "applying" /\ s \in Symbols /\ call.side \in Side
    BY Zenon, <1>2, CallForms DEF PnlInv, RiskInv, position_apply_trade
  <2>2. price \in Nat \ {0} /\ q \in Int \ {0}
    BY <2>1, Constants DEF Signed
  <2>3. /\ positions' = [positions EXCEPT ![s] = new]
        /\ cash' = [cash EXCEPT ![s] = cash[s] - q * price]
        /\ increases' = [increases EXCEPT ![s] = n]
        /\ overflowed' = IF ProfitFits(positions[s], q, price) THEN overflowed
                                                             ELSE overflowed \cup {s}
    BY Zenon, <1>2 DEF position_apply_trade
  <2>4. /\ positions \in [Symbols -> PositionRecord] /\ cash \in [Symbols -> Int]
        /\ increases \in [Symbols -> Nat]
    BY Zenon DEF PnlInv, RiskInv, Types
  <2>5. positions[s] \in PositionRecord /\ cash[s] \in Int /\ increases[s] \in Nat
        /\ (s \notin overflowed => Bounded(positions[s], cash[s], increases[s]))
    BY Zenon, <2>1, <2>4 DEF PnlInv
  <2>6. InLimit(new.quantity)
    <3> HIDE DEF new, s
    <3>1. positions'[s] = new
      BY Zenon, <2>1, <2>3, <2>4
    <3> QED BY Zenon, <1>1, <2>1, <3>1 DEF RiskInv
  <2>7. s \notin overflowed' => Bounded(new, cash[s] - q * price, n)
    <3>1. SUFFICES ASSUME s \notin overflowed' PROVE Bounded(new, cash[s] - q * price, n)
      BY Zenon
    <3>2. ProfitFits(positions[s], q, price) /\ s \notin overflowed
      BY Zenon, <2>3, <3>1
    <3> HIDE DEF s, q
    <3> QED BY Zenon, <2>2, <2>5, <2>6, <3>2, BoundKept
  <2>8. cash[s] - q * price \in Int /\ n \in Nat
    <3>1. increases[s] \in Nat /\ cash[s] \in Int
      BY Zenon, <2>5
    <3> HIDE DEF s, q
    <3> QED BY <2>2, <3>1
  <2> HIDE DEF s, q, new, n
  <2>9. \A t \in Symbols \ overflowed' : Bounded(positions'[t], cash'[t], increases'[t])
    <3> TAKE t \in Symbols \ overflowed'
    <3>1. CASE t = s
      BY Zenon, <2>3, <2>4, <2>7, <3>1
    <3>2. CASE t # s
      BY Zenon, <2>3, <2>4, <3>2 DEF PnlInv
    <3> QED BY Zenon, <3>1, <3>2
  <2>10. cash' \in [Symbols -> Int] /\ increases' \in [Symbols -> Nat]
    BY Zenon, <2>3, <2>4, <2>8
  <2> QED BY Zenon, <1>1, <2>9, <2>10 DEF PnlInv
<1>3. ASSUME positions' = positions /\ cash' = cash /\ increases' = increases
             /\ overflowed' = overflowed
      PROVE  PnlInv'
  BY Zenon, <1>1, <1>3 DEF PnlInv
<1>4. ASSUME NEW s \in Symbols, NEW side \in Side, NEW quantity \in Quantity,
             NEW executed \in 0 .. MaxQuantity,
             execute_market(s, side, quantity, executed)
      PROVE  PnlInv'
  BY Zenon, <1>3, <1>4 DEF execute_market, account
<1>5. CASE position_apply_fails \/ no_analytics \/ apply_analytics \/ analytics_fail
  BY Zenon, <1>3, <1>5
     DEF position_apply_fails, no_analytics, apply_analytics, analytics_fail, account
<1>6. ASSUME NEW s \in Symbols, clear_vwap(s) \/ clear_statistics(s)
      PROVE  PnlInv'
  BY Zenon, <1>3, <1>6 DEF clear_vwap, clear_statistics, account
<1>7. CASE UNCHANGED vars
  BY Zenon, <1>3, <1>7 DEF vars, account
<1> QED BY Zenon, <1>2, <1>4, <1>5, <1>6, <1>7 DEF Next

\* Realized profit differs from the cash of the trades and the entry value of
\* the position by less than a tick per unit and increase, until a profit no
\* longer fits an int64.
THEOREM ProfitsMatchCash == Spec => []PnlMatchesCash
<1>1. Init => PnlInv
  <2> SUFFICES ASSUME Init PROVE PnlInv
    BY Zenon
  <2>1. ASSUME NEW s \in Symbols
        PROVE  Bounded(positions[s], cash[s], increases[s])
    BY Constants DEF Init, NewPosition, Discrepancy, absolute_quantity, Bounded
  <2> QED BY <2>1, RiskStart DEF Init, PnlInv
<1>2. PnlInv => PnlMatchesCash
  BY Zenon DEF PnlInv, PnlMatchesCash, Bounded, Discrepancy
<1> QED BY <1>1, <1>2, PnlStep, PTL DEF Spec

-----------------------------------------------------------------------------
(***************************************************************************)
(* Induction, and the sums that AnalyticsAgree compares totals with.       *)
(***************************************************************************)
Smaller == {ss \in Nat \X Nat : ss[1] < ss[2]}

\* Every non-empty set of natural numbers has a least member (the lowest price
\* of the trades).
LEMMA Least ==
  ASSUME NEW T \in SUBSET Nat, T # {}
  PROVE  \E x \in T : \A y \in T : x <= y
<1>1. IsWellFoundedOn(Smaller, Nat)
  BY Zenon, NatLessThanWellFounded DEF OpToRel, Smaller
<1>2. PICK x \in T : \A y \in T : <<y, x>> \notin Smaller
  BY Zenon, <1>1, WFMin
<1>3. \A y \in T : x \in Nat /\ y \in Nat /\ ~ (y < x)
  BY Zenon, <1>2 DEF Smaller
<1> QED BY <1>3

\* A set with 0 and the successor of each member below n has all numbers up to
\* n (the loop of apply_execution, the totals of a window).
LEMMA Induction ==
  ASSUME NEW n \in Nat, NEW S, 0 \in S, \A k \in 0 .. n - 1 : k \in S => k + 1 \in S
  PROVE  \A k \in 0 .. n : k \in S
<1> DEFINE T == (0 .. n) \ S
<1> SUFFICES ASSUME T # {} PROVE FALSE
  BY Zenon
<1>1. PICK x \in T : \A y \in T : x <= y
  <2>1. T \in SUBSET Nat
    OBVIOUS
  <2> HIDE DEF T
  <2> QED BY Zenon, <2>1, Least
<1>2. x # 0 /\ x - 1 \in 0 .. n - 1 /\ x - 1 \notin T
  BY <1>1
<1> QED BY <1>1, <1>2

\* h[i] is the sum of the first i numbers.
PartialSums(numbers, h) ==
  h = [i \in 0 .. Len(numbers) |-> IF i = 0 THEN 0 ELSE h[i - 1] + numbers[i]]

SumsUpTo(numbers, k, h) ==
  /\ h \in [0 .. k -> Nat]
  /\ \A i \in 0 .. k : h[i] = IF i = 0 THEN 0 ELSE h[i - 1] + numbers[i]

\* The recursive function of Sum exists, and its values are natural numbers.
LEMMA PartialSumsExist ==
  ASSUME NEW numbers \in Seq(Nat)
  PROVE  \E h : /\ PartialSums(numbers, h) /\ Sum(numbers) = h[Len(numbers)]
                /\ h \in [0 .. Len(numbers) -> Nat]
<1> DEFINE n == Len(numbers)
           S == {k \in 0 .. n : \E h : SumsUpTo(numbers, k, h)}
<1>1. n \in Nat /\ \A i \in 1 .. n : numbers[i] \in Nat
  OBVIOUS
<1> HIDE DEF n
<1>2. 0 \in S
  <2>1. SumsUpTo(numbers, 0, [i \in 0 .. 0 |-> 0])
    BY DEF SumsUpTo
  <2> QED BY <1>1, <2>1
<1>3. ASSUME NEW k \in 0 .. n - 1, k \in S PROVE k + 1 \in S
  <2>1. PICK h : SumsUpTo(numbers, k, h)
    BY Zenon, <1>3
  <2> DEFINE g == [i \in 0 .. k + 1 |-> IF i = k + 1 THEN h[k] + numbers[k + 1] ELSE h[i]]
  <2>2. k \in Nat /\ h[k] \in Nat /\ numbers[k + 1] \in Nat
    BY <1>1, <2>1 DEF SumsUpTo
  <2>3. g \in [0 .. k + 1 -> Nat]
    BY <2>1, <2>2 DEF SumsUpTo
  <2>4. ASSUME NEW i \in 0 .. k + 1
        PROVE  g[i] = IF i = 0 THEN 0 ELSE g[i - 1] + numbers[i]
    <3>1. CASE i = k + 1
      BY <2>2, <3>1
    <3>2. CASE i \in 0 .. k
      BY <2>1, <2>2, <3>2 DEF SumsUpTo
    <3> QED BY <2>2, <3>1, <3>2
  <2> HIDE DEF g
  <2>5. SumsUpTo(numbers, k + 1, g)
    BY Zenon, <2>3, <2>4 DEF SumsUpTo
  <2> QED BY <1>1, <2>5
<1> HIDE DEF S
<1>4. \A k \in 0 .. n : k \in S
  BY Zenon, <1>1, <1>2, <1>3, Induction
<1>5. PICK h : SumsUpTo(numbers, n, h)
  BY <1>1, <1>4 DEF S
<1>6. PartialSums(numbers, h)
  BY Zenon, <1>1, <1>5 DEF SumsUpTo, PartialSums, n
<1> DEFINE c == CHOOSE g : PartialSums(numbers, g)
<1>7. PartialSums(numbers, c) /\ Sum(numbers) = c[n]
  <2>1. PartialSums(numbers, c)
    BY Zenon, <1>6
  <2> QED BY Zenon, <2>1 DEF Sum, PartialSums, n
<1>8. ASSUME NEW g, PartialSums(numbers, g) PROVE g \in [0 .. n -> Nat]
  <2> DEFINE R == {i \in 0 .. n : g[i] \in Nat}
  <2>1. 0 \in R
    BY <1>1, <1>8 DEF PartialSums, n
  <2>2. ASSUME NEW k \in 0 .. n - 1, k \in R PROVE k + 1 \in R
    BY <1>1, <1>8, <2>2 DEF PartialSums, n
  <2> HIDE DEF R
  <2>3. \A k \in 0 .. n : k \in R
    BY Zenon, <1>1, <2>1, <2>2, Induction
  <2> QED BY Zenon, <1>8, <2>3 DEF R, PartialSums, n
<1> HIDE DEF c
<1> QED BY Zenon, <1>7, <1>8 DEF n

\* The sum is a natural number, and 0 for an empty window.
LEMMA SumType ==
  ASSUME NEW numbers \in Seq(Nat)
  PROVE  /\ Sum(numbers) \in Nat
         /\ Len(numbers) = 0 => Sum(numbers) = 0
<1>1. PICK h : /\ PartialSums(numbers, h) /\ Sum(numbers) = h[Len(numbers)]
               /\ h \in [0 .. Len(numbers) -> Nat]
  BY Zenon, PartialSumsExist
<1>2. Len(numbers) \in Nat
  OBVIOUS
<1>3. h[0] = 0
  BY <1>1, <1>2 DEF PartialSums
<1> QED BY <1>1, <1>2, <1>3

\* What the recursive function of Sum says, one number after the other
LEMMA PartialSumsSteps ==
  ASSUME NEW numbers \in Seq(Nat), NEW h, PartialSums(numbers, h)
  PROVE  /\ h[0] = 0
         /\ \A i \in 0 .. Len(numbers) - 1 : h[i + 1] = h[i] + numbers[i + 1]
  BY DEF PartialSums

Extended(short, long) ==
  /\ Len(long) = Len(short) + 1
  /\ \A i \in 1 .. Len(short) : long[i] = short[i]

\* A number that comes last is added (a trade enters the window).
LEMMA SumExtended ==
  ASSUME NEW short \in Seq(Nat), NEW long \in Seq(Nat), Extended(short, long)
  PROVE  Sum(long) = Sum(short) + long[Len(long)]
<1> DEFINE n == Len(short)
<1>1. PICK h : PartialSums(short, h) /\ Sum(short) = h[Len(short)]
  BY Zenon, PartialSumsExist
<1>2. PICK g : PartialSums(long, g) /\ Sum(long) = g[Len(long)]
  BY Zenon, PartialSumsExist
<1>3. n \in Nat /\ Len(long) = n + 1 /\ Len(long) - 1 = n
  BY DEF Extended
<1>4. h[0] = 0 /\ g[0] = 0
  BY Zenon, <1>1, <1>2, PartialSumsSteps
<1>5. \A i \in 0 .. n - 1 : h[i + 1] = h[i] + short[i + 1]
  BY Zenon, <1>1, PartialSumsSteps
<1>6. \A i \in 0 .. n : g[i + 1] = g[i] + long[i + 1]
  BY Zenon, <1>2, <1>3, PartialSumsSteps
<1>7. ASSUME NEW i \in 0 .. n - 1 PROVE long[i + 1] = short[i + 1] /\ i \in 0 .. n
  BY <1>3 DEF Extended
<1> HIDE DEF n
<1> DEFINE S == {i \in 0 .. n : g[i] = h[i]}
<1>8. 0 \in S
  BY <1>3, <1>4
<1>9. ASSUME NEW k \in 0 .. n - 1, k \in S PROVE k + 1 \in S
  BY <1>3, <1>5, <1>6, <1>7, <1>9
<1> HIDE DEF S
<1>10. \A k \in 0 .. n : k \in S
  BY Zenon, <1>3, <1>8, <1>9, Induction
<1>11. g[n] = h[n] /\ g[n + 1] = g[n] + long[n + 1]
  BY <1>3, <1>6, <1>10 DEF S
<1> QED BY Zenon, <1>1, <1>2, <1>3, <1>11 DEF n

\* g sums the n + 1 numbers of f, and h all of them but the first.
SumBoth(n, f, g, h) ==
  /\ \A i \in 1 .. n + 1 : f[i] \in Nat
  /\ h[0] = 0 /\ \A i \in 0 .. n - 1 : h[i + 1] = h[i] + f[i + 2]
  /\ g[0] = 0 /\ \A i \in 0 .. n : g[i + 1] = g[i] + f[i + 1]

\* Sums that start one later lack the first number.
LEMMA ShiftedSums ==
  ASSUME NEW n \in Nat, NEW f, NEW g, NEW h, SumBoth(n, f, g, h)
  PROVE  g[n + 1] = f[1] + h[n] /\ h[n] \in Nat
<1> DEFINE S == {i \in 0 .. n : g[i + 1] = f[1] + h[i] /\ h[i] \in Nat}
<1>1. 0 \in S
  BY DEF SumBoth
<1>2. ASSUME NEW k \in 0 .. n - 1, k \in S PROVE k + 1 \in S
  BY <1>2 DEF SumBoth
<1> HIDE DEF S
<1>3. \A k \in 0 .. n : k \in S
  BY Zenon, <1>1, <1>2, Induction
<1> QED BY <1>3 DEF S

Shifted(short, long) ==
  /\ Len(long) = Len(short) + 1
  /\ \A i \in 0 .. Len(short) - 1 : short[i + 1] = long[i + 2]

\* The number that comes first is no longer counted (a trade leaves it).
LEMMA SumShortened ==
  ASSUME NEW short \in Seq(Nat), NEW long \in Seq(Nat), Shifted(short, long)
  PROVE  Sum(short) = Sum(long) - long[1]
<1> DEFINE n == Len(short)
<1>1. PICK h : PartialSums(short, h) /\ Sum(short) = h[Len(short)]
  BY Zenon, PartialSumsExist
<1>2. PICK g : PartialSums(long, g) /\ Sum(long) = g[Len(long)]
  BY Zenon, PartialSumsExist
<1>3. n \in Nat /\ Len(long) = n + 1 /\ (n + 1) - 1 = n
  BY DEF Shifted
<1>4. \A i \in 1 .. n + 1 : long[i] \in Nat
  BY <1>3
<1>5. h[0] = 0 /\ g[0] = 0
  BY Zenon, <1>1, <1>2, PartialSumsSteps
<1>6. \A i \in 0 .. n - 1 : h[i + 1] = h[i] + long[i + 2]
  BY Zenon, <1>1, PartialSumsSteps DEF Shifted
<1>7. \A i \in 0 .. n : g[i + 1] = g[i] + long[i + 1]
  BY <1>2, <1>3, PartialSumsSteps
<1>8. SumBoth(n, long, g, h)
  BY Zenon, <1>4, <1>5, <1>6, <1>7 DEF SumBoth
<1> HIDE DEF n
<1>9. g[n + 1] = long[1] + h[n] /\ h[n] \in Nat
  BY Zenon, <1>3, <1>8, ShiftedSums
<1> QED BY <1>1, <1>2, <1>3, <1>4, <1>9 DEF n

-----------------------------------------------------------------------------
(***************************************************************************)
(* The numbers of a sequence of trades, and their sums.                    *)
(***************************************************************************)
Notionals(trades)  == [i \in 1 .. Len(trades) |-> notional(trades[i])]
Quantities(trades) == [i \in 1 .. Len(trades) |-> trades[i].quantity]
Prices(trades)     == [i \in 1 .. Len(trades) |-> trades[i].price]
OfSide(trades, d)  ==
  [i \in 1 .. Len(trades) |-> IF trades[i].side = d THEN trades[i].quantity ELSE 0]

\* A trade has a price, a quantity and a value.
LEMMA TradeNumbers ==
  ASSUME NEW t \in Trade
  PROVE  /\ t.side \in Side /\ t.price \in Price /\ t.price \in Nat
         /\ t.quantity \in Nat /\ notional(t) \in Nat
<1>1. t.side \in Side /\ t.price \in Price /\ t.price \in Nat /\ t.quantity \in Nat
  BY Zenon, Constants DEF Trade
<1>2. t.price * t.quantity \in Nat
  BY <1>1
<1> QED BY Zenon, <1>1, <1>2 DEF notional

IsNumbers(numbers, trades) == numbers \in Seq(Nat) /\ Len(numbers) = Len(trades)

\* There is a number for each trade.
LEMMA NumbersOfTrades ==
  ASSUME NEW trades \in Seq(Trade)
  PROVE  /\ IsNumbers(Notionals(trades), trades)
         /\ IsNumbers(Quantities(trades), trades)
         /\ IsNumbers(Prices(trades), trades)
         /\ \A d \in Side : IsNumbers(OfSide(trades, d), trades)
<1>1. Len(trades) \in Nat /\ \A i \in 1 .. Len(trades) : trades[i] \in Trade
  OBVIOUS
<1>2. \A i \in 1 .. Len(trades) :
        /\ trades[i].quantity \in Nat /\ trades[i].price \in Nat
        /\ notional(trades[i]) \in Nat
  BY Zenon, <1>1, TradeNumbers
<1>3. ASSUME NEW f \in [1 .. Len(trades) -> Nat] PROVE IsNumbers(f, trades)
  BY <1>1 DEF IsNumbers
<1>4. IsNumbers(Notionals(trades), trades)
  BY Zenon, <1>2, <1>3 DEF Notionals
<1>5. IsNumbers(Quantities(trades), trades)
  BY Zenon, <1>2, <1>3 DEF Quantities
<1>6. IsNumbers(Prices(trades), trades)
  BY Zenon, <1>2, <1>3 DEF Prices
<1>7. ASSUME NEW d \in Side PROVE IsNumbers(OfSide(trades, d), trades)
  <2>1. OfSide(trades, d) \in [1 .. Len(trades) -> Nat]
    BY Zenon, <1>2 DEF OfSide
  <2> QED BY Zenon, <1>3, <2>1
<1> QED BY Zenon, <1>4, <1>5, <1>6, <1>7

\* Each sum of a sequence without trades is 0.
LEMMA NothingToSum ==
  /\ Sum(Notionals(<<>>)) = 0 /\ Sum(Quantities(<<>>)) = 0 /\ Sum(Prices(<<>>)) = 0
  /\ \A d \in Side : Sum(OfSide(<<>>, d)) = 0
<1>1. <<>> \in Seq(Trade) /\ Len(<<>>) = 0
  OBVIOUS
<1> QED BY Zenon, <1>1, NumbersOfTrades, SumType DEF IsNumbers

\* A trade that comes last is counted in each of the sums.
LEMMA TradeAppended ==
  ASSUME NEW s \in Seq(Trade), NEW t \in Trade
  PROVE  /\ Sum(Notionals(Append(s, t))) = Sum(Notionals(s)) + notional(t)
         /\ Sum(Quantities(Append(s, t))) = Sum(Quantities(s)) + t.quantity
         /\ Sum(Prices(Append(s, t))) = Sum(Prices(s)) + t.price
         /\ \A d \in Side : Sum(OfSide(Append(s, t), d)) =
              Sum(OfSide(s, d)) + IF t.side = d THEN t.quantity ELSE 0
<1> DEFINE l == Append(s, t)
<1>1. /\ l \in Seq(Trade) /\ Len(l) = Len(s) + 1 /\ l[Len(l)] = t
      /\ \A i \in 1 .. Len(s) : l[i] = s[i]
      /\ Len(s) \in Nat
  OBVIOUS
<1> HIDE DEF l
<1>2. ASSUME NEW a, NEW b, IsNumbers(a, s), IsNumbers(b, l),
             \A i \in 1 .. Len(s) : b[i] = a[i]
      PROVE  Sum(b) = Sum(a) + b[Len(l)]
  <2>1. a \in Seq(Nat) /\ b \in Seq(Nat) /\ Len(b) = Len(l) /\ Extended(a, b)
    BY Zenon, <1>1, <1>2 DEF IsNumbers, Extended
  <2> QED BY Zenon, <2>1, SumExtended
<1>3. Sum(Notionals(l)) = Sum(Notionals(s)) + notional(t)
  <2>1. \A i \in 1 .. Len(s) : Notionals(l)[i] = Notionals(s)[i]
    BY <1>1 DEF Notionals
  <2>2. Notionals(l)[Len(l)] = notional(t)
    BY <1>1 DEF Notionals
  <2> QED BY Zenon, <1>1, <1>2, <2>1, <2>2, NumbersOfTrades
<1>4. Sum(Quantities(l)) = Sum(Quantities(s)) + t.quantity
  <2>1. \A i \in 1 .. Len(s) : Quantities(l)[i] = Quantities(s)[i]
    BY <1>1 DEF Quantities
  <2>2. Quantities(l)[Len(l)] = t.quantity
    BY <1>1 DEF Quantities
  <2> QED BY Zenon, <1>1, <1>2, <2>1, <2>2, NumbersOfTrades
<1>5. Sum(Prices(l)) = Sum(Prices(s)) + t.price
  <2>1. \A i \in 1 .. Len(s) : Prices(l)[i] = Prices(s)[i]
    BY <1>1 DEF Prices
  <2>2. Prices(l)[Len(l)] = t.price
    BY <1>1 DEF Prices
  <2> QED BY Zenon, <1>1, <1>2, <2>1, <2>2, NumbersOfTrades
<1>6. ASSUME NEW d \in Side
      PROVE  Sum(OfSide(l, d)) = Sum(OfSide(s, d)) + IF t.side = d THEN t.quantity ELSE 0
  <2>1. \A i \in 1 .. Len(s) : OfSide(l, d)[i] = OfSide(s, d)[i]
    BY <1>1 DEF OfSide
  <2>2. OfSide(l, d)[Len(l)] = IF t.side = d THEN t.quantity ELSE 0
    BY <1>1 DEF OfSide
  <2> QED BY <1>1, <1>2, <2>1, <2>2, NumbersOfTrades
<1> QED BY Zenon, <1>3, <1>4, <1>5, <1>6 DEF l

-----------------------------------------------------------------------------
(***************************************************************************)
(* RollingVWAP: the totals of a window.                                    *)
(***************************************************************************)
\* What AnalyticsAgree says of a window by itself
Windowed(v) ==
  /\ v \in [trades : Seq(Trade), total_notional : Nat, total_volume : Nat]
  /\ Len(v.trades) <= window_size
  /\ v.total_notional = Sum(Notionals(v.trades))
  /\ v.total_volume = Sum(Quantities(v.trades))

\* The empty window
LEMMA EmptyWindow == Windowed(NoVwap)
  BY NothingToSum, WindowAssumption DEF Windowed, NoVwap

\* A full window loses its oldest trade, in the totals as well.
LEMMA DropOldest ==
  ASSUME NEW v, Windowed(v)
  PROVE  /\ Windowed(drop_oldest(v))
         /\ drop_oldest(v).trades = IF Len(v.trades) = window_size THEN Tail(v.trades)
                                    ELSE v.trades
         /\ Len(drop_oldest(v).trades) < window_size
<1> DEFINE s == v.trades
           r == Tail(v.trades)
<1>1. s \in Seq(Trade) /\ Len(s) \in Nat /\ window_size \in Nat \ {0}
  BY WindowAssumption DEF Windowed
<1>2. CASE Len(s) = window_size
  <2>1. /\ r \in Seq(Trade) /\ Len(s) = Len(r) + 1 /\ Len(r) \in Nat
        /\ Head(s) = s[1] /\ s[1] \in Trade
        /\ \A i \in 1 .. Len(r) : r[i] = s[i + 1]
    BY <1>1, <1>2
  <2>2. /\ Notionals(s) \in Seq(Nat) /\ Len(Notionals(s)) = Len(s)
        /\ Quantities(s) \in Seq(Nat) /\ Len(Quantities(s)) = Len(s)
        /\ Notionals(r) \in Seq(Nat) /\ Len(Notionals(r)) = Len(r)
        /\ Quantities(r) \in Seq(Nat) /\ Len(Quantities(r)) = Len(r)
    BY Zenon, <1>1, <2>1, NumbersOfTrades DEF IsNumbers
  <2>3. ASSUME NEW i \in 0 .. Len(r) - 1 PROVE r[i + 1] = s[i + 2]
    <3>1. i + 1 \in 1 .. Len(r) /\ (i + 1) + 1 = i + 2
      BY <2>1
    <3> QED BY Zenon, <2>1, <3>1
  <2> HIDE DEF s, r
  <2>4. \A i \in 0 .. Len(r) - 1 : i + 1 \in 1 .. Len(r) /\ i + 2 \in 1 .. Len(s)
    BY <2>1
  <2>5. Shifted(Notionals(r), Notionals(s))
    BY Zenon, <2>1, <2>2, <2>3, <2>4 DEF Shifted, Notionals
  <2>6. Shifted(Quantities(r), Quantities(s))
    BY Zenon, <2>1, <2>2, <2>3, <2>4 DEF Shifted, Quantities
  <2>7. /\ Sum(Notionals(r)) = Sum(Notionals(s)) - Notionals(s)[1]
        /\ Sum(Quantities(r)) = Sum(Quantities(s)) - Quantities(s)[1]
        /\ Sum(Notionals(r)) \in Nat /\ Sum(Quantities(r)) \in Nat
    BY Zenon, <2>2, <2>5, <2>6, SumShortened, SumType
  <2>8. Notionals(s)[1] = notional(Head(s)) /\ Quantities(s)[1] = Head(s).quantity
    BY <1>1, <1>2, <2>1 DEF Notionals, Quantities
  <2>9. drop_oldest(v) = [trades         |-> r,
                          total_notional |-> Sum(Notionals(r)),
                          total_volume   |-> Sum(Quantities(r))]
    BY Zenon, <1>2, <2>7, <2>8 DEF drop_oldest, Windowed, s, r
  <2>10. Len(r) < window_size
    BY <1>1, <1>2, <2>1
  <2>11. Windowed(drop_oldest(v))
    BY <1>1, <2>1, <2>7, <2>9, <2>10 DEF Windowed
  <2> QED BY <1>2, <2>9, <2>10, <2>11 DEF s, r
<1>3. CASE Len(s) # window_size
  BY <1>1, <1>3 DEF drop_oldest, Windowed
<1> QED BY Zenon, <1>2, <1>3

\* A new trade is counted in the totals.
LEMMA AddToWindow ==
  ASSUME NEW v, Windowed(v), NEW t \in Trade
  PROVE  /\ Windowed(vwap_add_trade(v, t))
         /\ vwap_add_trade(v, t).trades = Append(drop_oldest(v).trades, t)
<1> DEFINE w == drop_oldest(v)
           s == w.trades
           l == Append(s, t)
<1>1. Windowed(w) /\ Len(s) < window_size
  BY Zenon, DropOldest
<1>2. /\ vwap_add_trade(v, t).trades = l
      /\ vwap_add_trade(v, t) = [trades         |-> l,
                                 total_notional |-> w.total_notional + notional(t),
                                 total_volume   |-> w.total_volume + t.quantity]
  BY Zenon DEF vwap_add_trade
<1> HIDE DEF w
<1>3. /\ s \in Seq(Trade) /\ Len(s) \in Nat /\ window_size \in Nat
      /\ w.total_notional = Sum(Notionals(s)) /\ w.total_volume = Sum(Quantities(s))
  BY <1>1, WindowAssumption DEF Windowed
<1> HIDE DEF s
<1>4. l \in Seq(Trade) /\ Len(l) = Len(s) + 1
  BY <1>3
<1>5. /\ Sum(Notionals(l)) = Sum(Notionals(s)) + notional(t)
      /\ Sum(Quantities(l)) = Sum(Quantities(s)) + t.quantity
  BY Zenon, <1>3, TradeAppended
<1> HIDE DEF l
<1>6. Sum(Notionals(l)) \in Nat /\ Sum(Quantities(l)) \in Nat
  BY Zenon, <1>4, NumbersOfTrades, SumType DEF IsNumbers
<1>7. Len(l) <= window_size
  BY <1>1, <1>3, <1>4 DEF s
<1>8. Windowed([trades         |-> l,
                total_notional |-> Sum(Notionals(l)),
                total_volume   |-> Sum(Quantities(l))])
  BY Zenon, <1>4, <1>6, <1>7 DEF Windowed
<1> QED BY Zenon, <1>2, <1>3, <1>5, <1>8 DEF l, s, w

-----------------------------------------------------------------------------
(***************************************************************************)
(* TradeStatistics: the running numbers summarise all trades.              *)
(***************************************************************************)
PricesOf(trades) == {trades[i].price : i \in DOMAIN trades}

\* Trades have a lowest and a highest price.
LEMMA Extremes ==
  ASSUME NEW prices \in SUBSET Price, prices # {}
  PROVE  /\ Lowest(prices) \in prices /\ \A r \in prices : Lowest(prices) <= r
         /\ Highest(prices) \in prices /\ \A r \in prices : Highest(prices) >= r
<1>1. prices \in SUBSET Nat /\ \A p \in prices : p \in Nat /\ MaxPrice - p \in Nat
  BY MarketAssumption DEF Price
<1>2. \E p \in prices : \A r \in prices : p <= r
  BY Zenon, <1>1, Least
<1>3. \E p \in prices : \A r \in prices : p >= r
  <2> DEFINE T == {MaxPrice - p : p \in prices}
  <2>1. T \in SUBSET Nat /\ T # {}
    BY Zenon, <1>1
  <2>2. PICK x \in T : \A y \in T : x <= y
    <3> HIDE DEF T
    <3> QED BY Zenon, <2>1, Least
  <2>3. PICK p \in prices : \A r \in prices : MaxPrice - p <= MaxPrice - r
    BY Zenon, <2>2
  <2> QED BY <1>1, <2>3, MarketAssumption
<1> QED BY Zenon, <1>2, <1>3 DEF Lowest, Highest

\* One more price: the comparison that add_trade makes
LEMMA ExtremesExtended ==
  ASSUME NEW prices \in SUBSET Price, prices # {}, NEW p \in Price
  PROVE  /\ Lowest(prices \cup {p}) = IF p < Lowest(prices) THEN p ELSE Lowest(prices)
         /\ Highest(prices \cup {p}) = IF p > Highest(prices) THEN p ELSE Highest(prices)
<1> DEFINE more == prices \cup {p}
<1>1. more \in SUBSET Price /\ more # {} /\ p \in more /\ prices \subseteq more
  BY Zenon
<1>2. \A r \in more : r \in Nat /\ (r = p \/ r \in prices)
  BY Zenon, Constants
<1> HIDE DEF more
<1>3. /\ Lowest(more) \in more /\ \A r \in more : Lowest(more) <= r
      /\ Highest(more) \in more /\ \A r \in more : Highest(more) >= r
  BY Zenon, <1>1, Extremes
<1>4. /\ Lowest(prices) \in prices /\ \A r \in prices : Lowest(prices) <= r
      /\ Highest(prices) \in prices /\ \A r \in prices : Highest(prices) >= r
  BY Zenon, Extremes
<1>5. Lowest(more) = IF p < Lowest(prices) THEN p ELSE Lowest(prices)
  BY <1>1, <1>2, <1>3, <1>4
<1>6. Highest(more) = IF p > Highest(prices) THEN p ELSE Highest(prices)
  BY <1>1, <1>2, <1>3, <1>4
<1> QED BY Zenon, <1>5, <1>6 DEF more

\* Summary in terms of the sequences of numbers
LEMMA SummaryFields ==
  ASSUME NEW s \in Seq(Trade)
  PROVE  Summary(s) =
           [trade_count   |-> Len(s),
            total_volume  |-> Sum(Quantities(s)),
            total_price   |-> Sum(Prices(s)),
            minimum_price |-> IF s = <<>> THEN 0 ELSE Lowest(PricesOf(s)),
            maximum_price |-> IF s = <<>> THEN 0 ELSE Highest(PricesOf(s)),
            volume        |-> [d \in Side |-> Sum(OfSide(s, d))]]
<1>1. DOMAIN s = 1 .. Len(s)
  OBVIOUS
<1> QED BY Zenon, <1>1 DEF Summary, SumOver, Quantities, Prices, OfSide, PricesOf

\* Without trades it is what TradeStatistics starts with.
LEMMA NothingToSummarise == Summary(<<>>) = NoStatistics
<1>1. <<>> \in Seq(Trade) /\ Len(<<>>) = 0
  OBVIOUS
<1>2. Summary(<<>>) =
           [trade_count   |-> 0,
            total_volume  |-> Sum(Quantities(<<>>)),
            total_price   |-> Sum(Prices(<<>>)),
            minimum_price |-> 0,
            maximum_price |-> 0,
            volume        |-> [d \in Side |-> Sum(OfSide(<<>>, d))]]
  BY Zenon, <1>1, SummaryFields
<1>3. [d \in Side |-> Sum(OfSide(<<>>, d))] = [d \in Side |-> 0]
  BY Zenon, NothingToSum
<1> QED BY Zenon, <1>2, <1>3, NothingToSum DEF NoStatistics

\* add_trade turns the summary of some trades into that of one more.
LEMMA SummaryAppended ==
  ASSUME NEW s \in Seq(Trade), NEW t \in Trade
  PROVE  Summary(Append(s, t)) = stats_add_trade(Summary(s), t)
<1> DEFINE l == Append(s, t)
           st == Summary(s)
<1>1. /\ l \in Seq(Trade) /\ Len(l) = Len(s) + 1 /\ l # <<>> /\ Len(s) \in Nat
      /\ s = <<>> <=> Len(s) = 0
  OBVIOUS
<1>2. PricesOf(l) = PricesOf(s) \cup {t.price}
  <2>1. /\ DOMAIN l = 1 .. Len(s) + 1 /\ DOMAIN s = 1 .. Len(s)
        /\ l[Len(s) + 1] = t /\ \A i \in 1 .. Len(s) : l[i] = s[i]
    BY <1>1
  <2> HIDE DEF l
  <2>2. \A i \in 1 .. Len(s) + 1 : i = Len(s) + 1 \/ i \in 1 .. Len(s)
    BY <1>1
  <2> QED BY <1>1, <2>1, <2>2 DEF PricesOf
<1>3. PricesOf(s) \in SUBSET Price /\ (s # <<>> => PricesOf(s) # {}) /\ t.price \in Price
  <2>1. \A i \in DOMAIN s : s[i] \in Trade
    OBVIOUS
  <2>2. s # <<>> => 1 \in DOMAIN s
    BY <1>1
  <2> QED BY Zenon, <2>1, <2>2, TradeNumbers DEF PricesOf
<1>4. /\ st.trade_count = Len(s) /\ st.total_volume = Sum(Quantities(s))
      /\ st.total_price = Sum(Prices(s))
      /\ s # <<>> => /\ st.minimum_price = Lowest(PricesOf(s))
                     /\ st.maximum_price = Highest(PricesOf(s))
      /\ st.volume = [d \in Side |-> Sum(OfSide(s, d))]
  BY SummaryFields
<1>5. /\ Sum(Quantities(l)) = st.total_volume + t.quantity
      /\ Sum(Prices(l)) = st.total_price + t.price
      /\ \A d \in Side : Sum(OfSide(l, d)) =
           Sum(OfSide(s, d)) + IF t.side = d THEN t.quantity ELSE 0
  BY <1>4, TradeAppended
<1> DEFINE low  == IF Len(s) = 0 \/ t.price < st.minimum_price
                     THEN t.price ELSE st.minimum_price
           high == IF Len(s) = 0 \/ t.price > st.maximum_price
                     THEN t.price ELSE st.maximum_price
<1>6. Lowest(PricesOf(l)) = low /\ Highest(PricesOf(l)) = high
  <2>1. CASE s = <<>>
    <3>1. PricesOf(l) = {t.price} /\ t.price \in Nat
      BY <1>2, <2>1, TradeNumbers DEF PricesOf
    <3>2. {t.price} \in SUBSET Price /\ {t.price} # {}
      BY Zenon, <1>3
    <3>3. Lowest({t.price}) \in {t.price} /\ Highest({t.price}) \in {t.price}
      BY <3>2, Extremes, Zenon
    <3> QED BY Zenon, <1>1, <2>1, <3>1, <3>3
  <2>2. CASE s # <<>>
    <3> DEFINE P == PricesOf(s)
               p == t.price
    <3>1. P \in SUBSET Price /\ P # {} /\ p \in Price
      BY Zenon, <1>3, <2>2
    <3> HIDE DEF P, p
    <3>2. /\ Lowest(P \cup {p}) = IF p < Lowest(P) THEN p ELSE Lowest(P)
          /\ Highest(P \cup {p}) = IF p > Highest(P) THEN p ELSE Highest(P)
      BY Zenon, <3>1, ExtremesExtended
    <3>3. ~ (Len(s) = 0) /\ st.minimum_price = Lowest(P) /\ st.maximum_price = Highest(P)
      BY Zenon, <1>1, <1>4, <2>2 DEF P
    <3>4. PricesOf(l) = P \cup {p}
      BY Zenon, <1>2 DEF P, p
    <3> HIDE DEF l, st
    <3> QED BY Zenon, <3>2, <3>3, <3>4 DEF p
  <2> QED BY Zenon, <2>1, <2>2
<1>7. [d \in Side |-> Sum(OfSide(l, d))] = [st.volume EXCEPT ![t.side] = @ + t.quantity]
  <2>1. \A d \in Side : Sum(OfSide(s, d)) \in Nat
    BY Zenon, NumbersOfTrades, SumType DEF IsNumbers
  <2>2. t.side \in Side /\ t.quantity \in Nat
    BY Zenon, TradeNumbers
  <2>3. \A d \in Side : Sum(OfSide(l, d)) =
          IF d = t.side THEN Sum(OfSide(s, d)) + t.quantity ELSE Sum(OfSide(s, d))
    BY <1>5, <2>1, <2>2
  <2> HIDE DEF l
  <2> QED BY <1>4, <2>2, <2>3
<1> HIDE DEF l, low, high
<1>8. Summary(l) = [trade_count   |-> Len(s) + 1,
                    total_volume  |-> st.total_volume + t.quantity,
                    total_price   |-> st.total_price + t.price,
                    minimum_price |-> low,
                    maximum_price |-> high,
                    volume        |-> [st.volume EXCEPT ![t.side] = @ + t.quantity]]
  BY Zenon, <1>1, <1>5, <1>6, <1>7, SummaryFields
<1> QED BY Zenon, <1>4, <1>8 DEF stats_add_trade, l, low, high

-----------------------------------------------------------------------------
(***************************************************************************)
(* AnalyticsExecutionHandler: the loop over the trades of an execution.    *)
(***************************************************************************)
\* h[i] is what the first i trades make of a.
Loop(a, trades, h) ==
  h = [i \in 0 .. Len(trades) |-> IF i = 0 THEN a ELSE add_trade(h[i - 1], trades[i])]

LoopUpTo(a, trades, k, h) ==
  \A i \in 0 .. k : h[i] = IF i = 0 THEN a ELSE add_trade(h[i - 1], trades[i])

\* The loop of apply_execution does what its recursive function says.
LEMMA LoopExists ==
  ASSUME NEW a, NEW trades \in Seq(Trade)
  PROVE  \E h : Loop(a, trades, h) /\ apply_execution(a, trades) = h[Len(trades)]
<1> DEFINE n == Len(trades)
           S == {k \in 0 .. n : \E h : LoopUpTo(a, trades, k, h)}
<1>1. n \in Nat
  OBVIOUS
<1> HIDE DEF n
<1>2. 0 \in S
  <2>1. LoopUpTo(a, trades, 0, [i \in 0 .. 0 |-> a])
    BY DEF LoopUpTo
  <2> QED BY <1>1, <2>1
<1>3. ASSUME NEW k \in 0 .. n - 1, k \in S PROVE k + 1 \in S
  <2>1. PICK h : LoopUpTo(a, trades, k, h)
    BY Zenon, <1>3
  <2> DEFINE last == add_trade(h[k], trades[k + 1])
             g == [i \in 0 .. k + 1 |-> IF i = k + 1 THEN last ELSE h[i]]
  <2>2. k \in Nat
    BY <1>1
  <2>3. ASSUME NEW i \in 0 .. k + 1
        PROVE  g[i] = IF i = 0 THEN a ELSE add_trade(g[i - 1], trades[i])
    <3>1. CASE i = k + 1
      <4>1. g[i] = last /\ i # 0 /\ i - 1 = k /\ g[k] = h[k]
        BY <2>2, <3>1
      <4> HIDE DEF g
      <4> QED BY Zenon, <3>1, <4>1
    <3>2. CASE i \in 0 .. k
      <4>1. g[i] = h[i] /\ (i # 0 => g[i - 1] = h[i - 1])
        BY <2>2, <3>2
      <4>2. h[i] = IF i = 0 THEN a ELSE add_trade(h[i - 1], trades[i])
        BY Zenon, <2>1, <3>2 DEF LoopUpTo
      <4> HIDE DEF g
      <4> QED BY Zenon, <4>1, <4>2
    <3> QED BY <2>2, <3>1, <3>2
  <2> HIDE DEF g
  <2>4. LoopUpTo(a, trades, k + 1, g)
    BY Zenon, <2>3 DEF LoopUpTo
  <2> QED BY <1>1, <2>4
<1> HIDE DEF S
<1>4. \A k \in 0 .. n : k \in S
  BY Zenon, <1>1, <1>2, <1>3, Induction
<1>5. PICK h : LoopUpTo(a, trades, n, h)
  BY <1>1, <1>4 DEF S
<1> DEFINE f == [i \in 0 .. n |-> h[i]]
<1>6. Loop(a, trades, f)
  <2>1. ASSUME NEW i \in 0 .. n
        PROVE  f[i] = IF i = 0 THEN a ELSE add_trade(f[i - 1], trades[i])
    <3>1. f[i] = h[i] /\ (i # 0 => f[i - 1] = h[i - 1])
      BY <1>1
    <3>2. h[i] = IF i = 0 THEN a ELSE add_trade(h[i - 1], trades[i])
      BY Zenon, <1>5 DEF LoopUpTo
    <3> HIDE DEF f
    <3> QED BY Zenon, <3>1, <3>2
  <2>2. f = [i \in 0 .. n |-> f[i]]
    BY Zenon
  <2> HIDE DEF f
  <2> QED BY Zenon, <2>1, <2>2 DEF Loop, n
<1> HIDE DEF f
<1> DEFINE c == CHOOSE g : Loop(a, trades, g)
<1>7. Loop(a, trades, c) /\ apply_execution(a, trades) = c[n]
  <2>1. Loop(a, trades, c)
    BY Zenon, <1>6
  <2> QED BY Zenon, <2>1 DEF apply_execution, Loop, n
<1> HIDE DEF c
<1> QED BY Zenon, <1>7 DEF n

\* The loop, one trade after the other
LEMMA LoopSteps ==
  ASSUME NEW a, NEW trades \in Seq(Trade)
  PROVE  \E h : /\ h[0] = a
                /\ \A i \in 0 .. Len(trades) - 1 : h[i + 1] = add_trade(h[i], trades[i + 1])
                /\ apply_execution(a, trades) = h[Len(trades)]
<1>1. PICK h : Loop(a, trades, h) /\ apply_execution(a, trades) = h[Len(trades)]
  BY Zenon, LoopExists
<1>2. Len(trades) \in Nat
  OBVIOUS
<1>3. h[0] = a
  BY <1>1, <1>2 DEF Loop
<1>4. ASSUME NEW i \in 0 .. Len(trades) - 1 PROVE h[i + 1] = add_trade(h[i], trades[i + 1])
  <2>1. i + 1 \in 0 .. Len(trades) /\ i + 1 # 0 /\ (i + 1) - 1 = i
    BY <1>2
  <2>2. h[i + 1] = add_trade(h[(i + 1) - 1], trades[i + 1])
    BY Zenon, <1>1, <2>1 DEF Loop
  <2> QED BY Zenon, <2>1, <2>2
<1> QED BY Zenon, <1>1, <1>3, <1>4

\* The two analytics of a symbol; the window counts what it holds.
Analytics(a) ==
  /\ a = [vwap |-> a.vwap, statistics |-> a.statistics]
  /\ Windowed(a.vwap)

\* One trade keeps the window in order.
LEMMA AddTradeKeeps ==
  ASSUME NEW a, Analytics(a), NEW t \in Trade
  PROVE  /\ Analytics(add_trade(a, t))
         /\ add_trade(a, t).vwap = vwap_add_trade(a.vwap, t)
         /\ add_trade(a, t).statistics = stats_add_trade(a.statistics, t)
<1>1. Windowed(vwap_add_trade(a.vwap, t))
  BY Zenon, AddToWindow DEF Analytics
<1> QED BY Zenon, <1>1 DEF add_trade, Analytics

\* So does an execution.
LEMMA ExecutionKeeps ==
  ASSUME NEW a, Analytics(a), NEW trades \in Seq(Trade)
  PROVE  Analytics(apply_execution(a, trades))
<1> DEFINE n == Len(trades)
<1>1. n \in Nat /\ \A i \in 0 .. n - 1 : trades[i + 1] \in Trade
  OBVIOUS
<1>2. PICK h : /\ h[0] = a
               /\ \A i \in 0 .. n - 1 : h[i + 1] = add_trade(h[i], trades[i + 1])
               /\ apply_execution(a, trades) = h[n]
  BY Zenon, LoopSteps
<1> HIDE DEF n
<1> DEFINE S == {i \in 0 .. n : Analytics(h[i])}
<1>3. 0 \in S
  BY <1>1, <1>2
<1>4. ASSUME NEW k \in 0 .. n - 1, k \in S PROVE k + 1 \in S
  <2>1. Analytics(add_trade(h[k], trades[k + 1]))
    BY Zenon, <1>1, <1>4, AddTradeKeeps
  <2>2. k + 1 \in 0 .. n
    BY <1>1
  <2> QED BY Zenon, <1>2, <2>1, <2>2
<1> HIDE DEF S
<1>5. \A k \in 0 .. n : k \in S
  BY Zenon, <1>1, <1>3, <1>4, Induction
<1> QED BY <1>1, <1>2, <1>5 DEF S

\* And so does an execution that memory runs out in, wherever it stops.
LEMMA FailedExecutionKeeps ==
  ASSUME NEW a, Analytics(a), NEW trades \in Seq(Trade),
         NEW left \in apply_execution_failed(a, trades)
  PROVE  Analytics(left)
<1>1. PICK i \in 1 .. Len(trades) :
        LET before == apply_execution(a, SubSeq(trades, 1, i - 1))
        IN  \/ left = before
            \/ left = [before EXCEPT !.vwap = drop_oldest(@)]
            \/ left = [before EXCEPT !.vwap = vwap_add_trade(@, trades[i])]
  BY Zenon DEF apply_execution_failed
<1> DEFINE before == apply_execution(a, SubSeq(trades, 1, i - 1))
<1>2. Analytics(before)
  <2>1. SubSeq(trades, 1, i - 1) \in Seq(Trade)
    OBVIOUS
  <2> QED BY Zenon, <2>1, ExecutionKeeps
<1>3. trades[i] \in Trade
  OBVIOUS
<1> HIDE DEF before
<1>4. Windowed(drop_oldest(before.vwap)) /\ Windowed(vwap_add_trade(before.vwap, trades[i]))
  BY Zenon, <1>2, <1>3, DropOldest, AddToWindow DEF Analytics
<1>5. ASSUME NEW w, Windowed(w) PROVE Analytics([before EXCEPT !.vwap = w])
  BY <1>2, <1>5 DEF Analytics
<1> QED BY Zenon, <1>1, <1>2, <1>4, <1>5 DEF before

-----------------------------------------------------------------------------
(***************************************************************************)
(* Analytics that follow the trades of the position.                       *)
(***************************************************************************)
\* The last trades are a sequence of trades, the latest of them last.
LEMMA LastTrades ==
  ASSUME NEW s \in Seq(Trade), NEW n \in 0 .. Len(s)
  PROVE  /\ LastOf(s, n) \in Seq(Trade) /\ Len(LastOf(s, n)) = n
         /\ \A i \in 1 .. n : LastOf(s, n)[i] = s[(Len(s) - n) + i]
         /\ n = 0 => LastOf(s, n) = <<>>
<1> DEFINE first == Len(s) - n + 1
<1>1. Len(s) \in Nat /\ first \in 1 .. Len(s) + 1 /\ Len(s) - first + 1 = n
  OBVIOUS
<1>2. SubSeq(s, first, Len(s)) = [i \in 1 .. n |-> s[first + i - 1]]
  BY <1>1
<1>3. \A i \in 1 .. n : first + i - 1 = (Len(s) - n) + i /\ (Len(s) - n) + i \in 1 .. Len(s)
  BY <1>1
<1> DEFINE last == [i \in 1 .. n |-> s[(Len(s) - n) + i]]
<1>4. LastOf(s, n) = last
  BY Zenon, <1>2, <1>3 DEF LastOf
<1>5. last \in Seq(Trade) /\ Len(last) = n
  BY <1>1, <1>3
<1>6. \A i \in 1 .. n : last[i] = s[(Len(s) - n) + i]
  BY Zenon
<1>7. n = 0 => last = <<>>
  OBVIOUS
<1> HIDE DEF last
<1> QED BY Zenon, <1>4, <1>5, <1>6, <1>7

\* Sequences with the same trades are equal.
LEMMA SameTrades ==
  ASSUME NEW s \in Seq(Trade), NEW t \in Seq(Trade), Len(s) = Len(t),
         \A i \in 1 .. Len(s) : s[i] = t[i]
  PROVE  s = t
OBVIOUS

\* One more trade comes last.
LEMMA LastOfAppended ==
  ASSUME NEW s \in Seq(Trade), NEW n \in 0 .. Len(s), NEW t \in Trade
  PROVE  LastOf(Append(s, t), n + 1) = Append(LastOf(s, n), t)
<1> DEFINE l == Append(s, t)
           x == LastOf(l, n + 1)
           r == LastOf(s, n)
           y == Append(r, t)
<1>1. /\ l \in Seq(Trade) /\ Len(l) = Len(s) + 1 /\ Len(s) \in Nat /\ n + 1 \in 0 .. Len(l)
      /\ l[Len(s) + 1] = t /\ \A i \in 1 .. Len(s) : l[i] = s[i]
  OBVIOUS
<1>2. r \in Seq(Trade) /\ Len(r) = n /\ \A i \in 1 .. n : r[i] = s[(Len(s) - n) + i]
  BY Zenon, LastTrades
<1> HIDE DEF l, r
<1>3. x \in Seq(Trade) /\ Len(x) = n + 1
        /\ \A i \in 1 .. n + 1 : x[i] = l[(Len(l) - (n + 1)) + i]
  BY Zenon, <1>1, LastTrades
<1>4. /\ y \in Seq(Trade) /\ Len(y) = n + 1
      /\ y[n + 1] = t /\ \A i \in 1 .. n : y[i] = r[i]
  BY <1>2
<1> HIDE DEF x, y
<1>5. ASSUME NEW i \in 1 .. n + 1 PROVE x[i] = y[i]
  <2>1. (Len(l) - (n + 1)) + i = (Len(s) - n) + i
    BY <1>1
  <2>2. CASE i = n + 1
    <3>1. (Len(s) - n) + i = Len(s) + 1
      BY <1>1, <2>2
    <3> QED BY Zenon, <1>1, <1>3, <1>4, <2>1, <2>2, <3>1
  <2>3. CASE i \in 1 .. n
    <3>1. (Len(s) - n) + i \in 1 .. Len(s)
      BY <1>1, <2>3
    <3>2. x[i] = l[(Len(s) - n) + i]
      BY Zenon, <1>3, <2>1
    <3>3. y[i] = s[(Len(s) - n) + i]
      BY Zenon, <1>2, <1>4, <2>3
    <3> DEFINE j == (Len(s) - n) + i
    <3> HIDE DEF j
    <3>4. j \in 1 .. Len(s) /\ x[i] = l[j] /\ y[i] = s[j]
      BY Zenon, <3>1, <3>2, <3>3 DEF j
    <3> QED BY Zenon, <1>1, <3>4
  <2> QED BY <2>2, <2>3
<1>6. x = y
  BY Zenon, <1>3, <1>4, <1>5, SameTrades
<1> QED BY Zenon, <1>6 DEF x, y, l, r

\* The oldest of them goes.
LEMMA LastOfShortened ==
  ASSUME NEW s \in Seq(Trade), NEW n \in 1 .. Len(s)
  PROVE  Tail(LastOf(s, n)) = LastOf(s, n - 1)
<1> DEFINE r == LastOf(s, n)
           x == Tail(r)
           y == LastOf(s, n - 1)
<1>1. Len(s) \in Nat /\ n \in Nat \ {0} /\ n \in 0 .. Len(s) /\ n - 1 \in 0 .. Len(s)
  OBVIOUS
<1>2. r \in Seq(Trade) /\ Len(r) = n /\ \A i \in 1 .. n : r[i] = s[(Len(s) - n) + i]
  BY Zenon, <1>1, LastTrades
<1>3. /\ y \in Seq(Trade) /\ Len(y) = n - 1
      /\ \A i \in 1 .. n - 1 : y[i] = s[(Len(s) - (n - 1)) + i]
  BY Zenon, <1>1, LastTrades
<1> HIDE DEF r, y
<1>4. x \in Seq(Trade) /\ Len(x) = n - 1 /\ \A i \in 1 .. n - 1 : x[i] = r[i + 1]
  BY <1>1, <1>2
<1> HIDE DEF x
<1>5. ASSUME NEW i \in 1 .. n - 1 PROVE x[i] = y[i]
  <2>1. (Len(s) - (n - 1)) + i = (Len(s) - n) + (i + 1) /\ i + 1 \in 1 .. n
    BY <1>1
  <2>2. x[i] = r[i + 1]
    BY Zenon, <1>4
  <2>3. r[i + 1] = s[(Len(s) - n) + (i + 1)]
    BY Zenon, <1>2, <2>1
  <2>4. y[i] = s[(Len(s) - (n - 1)) + i]
    BY Zenon, <1>3
  <2> QED BY Zenon, <2>1, <2>2, <2>3, <2>4
<1>6. x = y
  BY Zenon, <1>3, <1>4, <1>5, SameTrades
<1> QED BY Zenon, <1>6 DEF x, y, r

InWindow(n) == IF n < window_size THEN n ELSE window_size

\* What AnalyticsAgree says of the analytics of healthy symbols: base are the
\* trades of the position, and f how many of them each of the two was fed.
Follows(a, base, f) ==
  /\ a.vwap.trades = LastOf(base, InWindow(f.vwap))
  /\ a.statistics = Summary(LastOf(base, f.statistics))

Feedings(base) == [vwap : 0 .. Len(base), statistics : 0 .. Len(base)]
More(f, n) == [vwap |-> f.vwap + n, statistics |-> f.statistics + n]

\* They still do after one more trade.
LEMMA FollowsTrade ==
  ASSUME NEW a, Analytics(a), NEW base \in Seq(Trade), NEW f \in Feedings(base),
         Follows(a, base, f), NEW t \in Trade
  PROVE  Follows(add_trade(a, t), Append(base, t), More(f, 1))
<1> DEFINE n == InWindow(f.vwap)
           s == LastOf(base, n)
           w == drop_oldest(a.vwap).trades
<1>1. /\ Len(base) \in Nat /\ f.vwap \in 0 .. Len(base) /\ f.statistics \in 0 .. Len(base)
      /\ window_size \in Nat \ {0} /\ n \in 0 .. Len(base) /\ n <= window_size
  BY WindowAssumption DEF Feedings, InWindow
<1>2. a.vwap.trades = s /\ Len(s) = n
  BY Zenon, <1>1, LastTrades DEF Follows
<1>3. /\ add_trade(a, t).vwap.trades = Append(w, t)
      /\ add_trade(a, t).statistics = stats_add_trade(a.statistics, t)
      /\ w = IF Len(s) = window_size THEN Tail(s) ELSE s
  BY Zenon, <1>2, AddTradeKeeps, AddToWindow, DropOldest DEF Analytics
<1>4. More(f, 1).vwap = f.vwap + 1 /\ More(f, 1).statistics = f.statistics + 1
  BY Zenon DEF More
<1>5. Append(w, t) = LastOf(Append(base, t), InWindow(f.vwap + 1))
  <2>1. CASE n = window_size
    <3>1. w = LastOf(base, n - 1)
      BY <1>1, <1>2, <1>3, <2>1, LastOfShortened
    <3>2. InWindow(f.vwap + 1) = (n - 1) + 1 /\ n - 1 \in 0 .. Len(base)
      BY <1>1, <2>1 DEF InWindow
    <3> HIDE DEF n
    <3> QED BY Zenon, <3>1, <3>2, LastOfAppended
  <2>2. CASE n # window_size
    <3>1. w = LastOf(base, n)
      BY Zenon, <1>2, <1>3, <2>2
    <3>2. InWindow(f.vwap + 1) = n + 1
      BY <1>1, <2>2 DEF InWindow
    <3> HIDE DEF n
    <3> QED BY Zenon, <1>1, <3>1, <3>2, LastOfAppended
  <2> QED BY Zenon, <2>1, <2>2
<1>6. stats_add_trade(a.statistics, t) = Summary(LastOf(Append(base, t), f.statistics + 1))
  <2> DEFINE r == LastOf(base, f.statistics)
  <2>1. r \in Seq(Trade) /\ LastOf(Append(base, t), f.statistics + 1) = Append(r, t)
    BY Zenon, <1>1, LastTrades, LastOfAppended
  <2>2. a.statistics = Summary(r)
    BY Zenon DEF Follows
  <2> HIDE DEF r
  <2> QED BY Zenon, <2>1, <2>2, SummaryAppended
<1> QED BY Zenon, <1>3, <1>4, <1>5, <1>6 DEF Follows

\* The trades that a call has applied are the last ones of the position.
EndsWith(whole, done) ==
  /\ Len(done) <= Len(whole)
  /\ \A i \in 0 .. Len(done) - 1 : done[i + 1] = whole[(Len(whole) - Len(done)) + (i + 1)]

First(whole, k) == SubSeq(whole, 1, k)

\* The first k + 1 trades are the first k and one more.
LEMMA FirstTrades ==
  ASSUME NEW s \in Seq(Trade)
  PROVE  /\ \A k \in 0 .. Len(s) : First(s, k) \in Seq(Trade) /\ Len(First(s, k)) = k
         /\ \A k \in 0 .. Len(s) - 1 : First(s, k + 1) = Append(First(s, k), s[k + 1])
         /\ First(s, Len(s)) = s
<1>1. Len(s) \in Nat
  OBVIOUS
<1>2. \A k \in 0 .. Len(s) : /\ First(s, k) \in Seq(Trade) /\ Len(First(s, k)) = k
                             /\ \A i \in 1 .. k : First(s, k)[i] = s[i]
  BY <1>1 DEF First
<1>3. ASSUME NEW k \in 0 .. Len(s) - 1
      PROVE  First(s, k + 1) = Append(First(s, k), s[k + 1])
  <2> DEFINE x == First(s, k + 1)
             r == First(s, k)
             y == Append(r, s[k + 1])
  <2>1. k \in 0 .. Len(s) /\ k + 1 \in 0 .. Len(s) /\ k \in Nat /\ s[k + 1] \in Trade
    BY <1>1
  <2>2. /\ x \in Seq(Trade) /\ Len(x) = k + 1 /\ \A i \in 1 .. k + 1 : x[i] = s[i]
        /\ r \in Seq(Trade) /\ Len(r) = k /\ \A i \in 1 .. k : r[i] = s[i]
    BY Zenon, <1>2, <2>1
  <2> HIDE DEF x, r
  <2>3. /\ y \in Seq(Trade) /\ Len(y) = k + 1 /\ y[k + 1] = s[k + 1]
        /\ \A i \in 1 .. k : y[i] = r[i]
    BY <2>1, <2>2
  <2> HIDE DEF y
  <2>4. \A i \in 1 .. k + 1 : x[i] = y[i]
    BY <2>1, <2>2, <2>3
  <2>5. x = y
    BY Zenon, <2>2, <2>3, <2>4, SameTrades
  <2> QED BY Zenon, <2>5 DEF x, y, r
<1>4. First(s, Len(s)) = s
  BY <1>1, <1>2, SameTrades
<1> QED BY Zenon, <1>2, <1>3, <1>4

\* Fed with the trades of a call, the analytics have caught up.
LEMMA FollowsExecution ==
  ASSUME NEW a, Analytics(a), NEW whole \in Seq(Trade), NEW done \in Seq(Trade),
         EndsWith(whole, done),
         NEW f \in Feedings(First(whole, Len(whole) - Len(done))),
         Follows(a, First(whole, Len(whole) - Len(done)), f)
  PROVE  Follows(apply_execution(a, done), whole, More(f, Len(done)))
<1> DEFINE n == Len(done)
           m == Len(whole) - n
<1>1. n \in Nat /\ m \in Nat /\ Len(whole) = m + n /\ m \in 0 .. Len(whole)
  BY DEF EndsWith
<1>2. ASSUME NEW i \in 0 .. n - 1
      PROVE  done[i + 1] \in Trade /\ done[i + 1] = whole[(m + i) + 1]
  <2>1. done[i + 1] \in Trade /\ done[i + 1] = whole[m + (i + 1)] /\ m + (i + 1) = (m + i) + 1
    BY <1>1 DEF EndsWith
  <2> QED BY Zenon, <2>1
<1>3. PICK h : /\ h[0] = a
               /\ \A i \in 0 .. n - 1 : h[i + 1] = add_trade(h[i], done[i + 1])
               /\ apply_execution(a, done) = h[n]
  BY Zenon, LoopSteps
<1>4. f.vwap \in 0 .. m /\ f.statistics \in 0 .. m /\ f = More(f, 0)
  <2>1. Len(First(whole, m)) = m
    BY Zenon, <1>1, FirstTrades
  <2>2. f \in [vwap : 0 .. m, statistics : 0 .. m]
    BY Zenon, <2>1 DEF Feedings
  <2> HIDE DEF m
  <2> QED BY <1>1, <2>2 DEF More
<1>5. Follows(a, First(whole, m), f)
  BY Zenon
<1> HIDE DEF n, m
<1> DEFINE S == {i \in 0 .. n : Analytics(h[i]) /\ Follows(h[i], First(whole, m + i), More(f, i))}
<1>6. 0 \in S
  <2>1. m + 0 = m
    BY <1>1
  <2> QED BY <1>1, <1>3, <1>4, <1>5, <2>1
<1>7. ASSUME NEW k \in 0 .. n - 1, k \in S PROVE k + 1 \in S
  <2> DEFINE b == First(whole, m + k)
             g == More(f, k)
             t == done[k + 1]
  <2>1. m + k \in 0 .. Len(whole) /\ m + k \in 0 .. Len(whole) - 1 /\ m + (k + 1) = (m + k) + 1
        /\ k + 1 \in 0 .. n
    BY <1>1
  <2>2. b \in Seq(Trade) /\ Len(b) = m + k
    BY Zenon, <2>1, FirstTrades
  <2>3. First(whole, m + (k + 1)) = Append(b, t)
    BY Zenon, <1>2, <2>1, FirstTrades
  <2>4. More(g, 1) = More(f, k + 1)
    BY <1>1, <1>4 DEF More
  <2>5. Analytics(h[k]) /\ Follows(h[k], b, g)
    BY Zenon, <1>7
  <2>6. t \in Trade /\ h[k + 1] = add_trade(h[k], t)
    BY Zenon, <1>2, <1>3
  <2> HIDE DEF b, t
  <2>7. g \in Feedings(b)
    BY <1>1, <1>4, <2>1, <2>2 DEF Feedings, More
  <2> HIDE DEF g
  <2>8. Follows(add_trade(h[k], t), Append(b, t), More(g, 1)) /\ Analytics(add_trade(h[k], t))
    BY Zenon, <2>2, <2>5, <2>6, <2>7, FollowsTrade, AddTradeKeeps
  <2> QED BY Zenon, <2>1, <2>3, <2>4, <2>6, <2>8
<1> HIDE DEF S
<1>8. \A k \in 0 .. n : k \in S
  BY Zenon, <1>1, <1>6, <1>7, Induction
<1>9. Follows(h[n], First(whole, m + n), More(f, n))
  BY <1>1, <1>8 DEF S
<1>10. First(whole, m + n) = whole
  BY Zenon, <1>1, FirstTrades
<1> QED BY Zenon, <1>3, <1>9, <1>10 DEF n

\* Where the analytics of a symbol stand while a call has applied done: they
\* were fed what came before it, and while healthy they follow that.
InStep(healthy, a, whole, done, f) ==
  /\ EndsWith(whole, done)
  /\ f \in Feedings(First(whole, Len(whole) - Len(done)))
  /\ healthy => Follows(a, First(whole, Len(whole) - Len(done)), f)

\* apply_trade applies the next trade of a call: the analytics do not know yet.
LEMMA InStepTrade ==
  ASSUME NEW healthy, NEW a, NEW whole \in Seq(Trade), NEW done \in Seq(Trade), NEW f,
         InStep(healthy, a, whole, done, f), NEW t \in Trade
  PROVE  InStep(healthy, a, Append(whole, t), Append(done, t), f)
<1> DEFINE l == Append(whole, t)
           e == Append(done, t)
           m == Len(whole) - Len(done)
<1>1. /\ l \in Seq(Trade) /\ Len(l) = Len(whole) + 1 /\ Len(whole) \in Nat
      /\ l[Len(whole) + 1] = t /\ \A i \in 1 .. Len(whole) : l[i] = whole[i]
  OBVIOUS
<1>2. /\ e \in Seq(Trade) /\ Len(e) = Len(done) + 1 /\ Len(done) \in Nat
      /\ e[Len(done) + 1] = t /\ \A i \in 1 .. Len(done) : e[i] = done[i]
  OBVIOUS
<1>3. /\ Len(done) <= Len(whole)
      /\ \A i \in 0 .. Len(done) - 1 : done[i + 1] = whole[m + (i + 1)]
  BY Zenon DEF InStep, EndsWith
<1> HIDE DEF l, e
<1>4. m \in Nat /\ m \in 0 .. Len(whole) /\ Len(l) - Len(e) = m /\ m \in 0 .. Len(l)
  BY <1>1, <1>2, <1>3
<1>5. First(l, m) = First(whole, m)
  <2> DEFINE x == First(l, m)
             y == First(whole, m)
  <2>1. x \in Seq(Trade) /\ Len(x) = m /\ y \in Seq(Trade) /\ Len(y) = m
    BY Zenon, <1>1, <1>4, FirstTrades
  <2>2. \A i \in 1 .. m : x[i] = l[i] /\ y[i] = whole[i] /\ i \in 1 .. Len(whole)
    BY <1>1, <1>4 DEF First
  <2> HIDE DEF x, y, m
  <2>3. \A i \in 1 .. m : x[i] = y[i]
    BY Zenon, <1>1, <2>2
  <2> QED BY Zenon, <2>1, <2>3, SameTrades DEF x, y
<1>6. EndsWith(l, e)
  <2>1. ASSUME NEW i \in 0 .. Len(e) - 1 PROVE e[i + 1] = l[m + (i + 1)]
    <3>1. CASE i = Len(done)
      <4>1. m + (i + 1) = Len(whole) + 1
        BY <1>1, <1>2, <3>1
      <4> QED BY Zenon, <1>1, <1>2, <3>1, <4>1
    <3>2. CASE i \in 0 .. Len(done) - 1
      <4>1. i + 1 \in 1 .. Len(done) /\ m + (i + 1) \in 1 .. Len(whole)
        BY <1>1, <1>2, <1>4, <3>2
      <4>2. e[i + 1] = done[i + 1]
        BY Zenon, <1>2, <4>1
      <4>3. l[m + (i + 1)] = whole[m + (i + 1)]
        BY Zenon, <1>1, <4>1
      <4> QED BY Zenon, <1>3, <3>2, <4>2, <4>3
    <3> QED BY <1>2, <3>1, <3>2
  <2>2. Len(e) <= Len(l)
    BY <1>1, <1>2, <1>3
  <2> QED BY Zenon, <1>4, <2>1, <2>2 DEF EndsWith
<1> QED BY Zenon, <1>4, <1>5, <1>6 DEF InStep, l, e

\* Nothing is pending: the trades that matter are those of the position.
LEMMA NothingPending ==
  ASSUME NEW whole \in Seq(Trade)
  PROVE  /\ EndsWith(whole, <<>>)
         /\ First(whole, Len(whole) - Len(<<>>)) = whole
<1>1. Len(<<>>) = 0 /\ Len(whole) \in Nat /\ Len(whole) - Len(<<>>) = Len(whole)
  OBVIOUS
<1> QED BY <1>1, FirstTrades DEF EndsWith

\* The analytics of a call: they have caught up, or are no longer healthy.
LEMMA InStepAnalytics ==
  ASSUME NEW healthy, NEW a, Analytics(a), NEW whole \in Seq(Trade), NEW done \in Seq(Trade),
         NEW f, InStep(healthy, a, whole, done, f)
  PROVE  /\ InStep(healthy, apply_execution(a, done), whole, <<>>, More(f, Len(done)))
         /\ \A x : InStep(FALSE, x, whole, <<>>, More(f, Len(done)))
<1> DEFINE m == Len(whole) - Len(done)
<1>1. More(f, Len(done)) \in Feedings(whole)
  <2>1. Len(whole) \in Nat /\ Len(done) \in Nat /\ Len(done) <= Len(whole) /\ m \in 0 .. Len(whole)
    BY DEF InStep, EndsWith
  <2>2. Len(First(whole, m)) = m
    BY Zenon, <2>1, FirstTrades
  <2>3. f.vwap \in 0 .. m /\ f.statistics \in 0 .. m
    BY Zenon, <2>2 DEF InStep, Feedings
  <2> QED BY <2>1, <2>3 DEF Feedings, More
<1>2. healthy => Follows(apply_execution(a, done), whole, More(f, Len(done)))
  BY Zenon, FollowsExecution DEF InStep
<1> HIDE DEF m
<1> QED BY Zenon, <1>1, <1>2, NothingPending DEF InStep

\* clear_symbol of one of the two: it starts again with what comes.
LEMMA InStepCleared ==
  ASSUME NEW healthy, NEW a, Analytics(a), NEW whole \in Seq(Trade), NEW f,
         InStep(healthy, a, whole, <<>>, f)
  PROVE  /\ InStep(healthy, [a EXCEPT !.vwap = NoVwap], whole, <<>>, [f EXCEPT !.vwap = 0])
         /\ InStep(healthy, [a EXCEPT !.statistics = NoStatistics], whole, <<>>,
                   [f EXCEPT !.statistics = 0])
<1>1. Len(whole) \in Nat /\ 0 \in 0 .. Len(whole)
  OBVIOUS
<1>2. f \in Feedings(whole) /\ (healthy => Follows(a, whole, f))
  BY Zenon, NothingPending DEF InStep
<1>3. LastOf(whole, 0) = <<>> /\ InWindow(0) = 0
  BY <1>1, LastTrades, WindowAssumption DEF InWindow
<1>4. /\ [f EXCEPT !.vwap = 0] \in Feedings(whole)
      /\ [f EXCEPT !.statistics = 0] \in Feedings(whole)
      /\ [f EXCEPT !.vwap = 0].vwap = 0
      /\ [f EXCEPT !.vwap = 0].statistics = f.statistics
      /\ [f EXCEPT !.statistics = 0].vwap = f.vwap
      /\ [f EXCEPT !.statistics = 0].statistics = 0
  BY Zenon, <1>1, <1>2 DEF Feedings
<1>5. /\ [a EXCEPT !.vwap = NoVwap].vwap = NoVwap
      /\ [a EXCEPT !.vwap = NoVwap].statistics = a.statistics
      /\ [a EXCEPT !.statistics = NoStatistics].vwap = a.vwap
      /\ [a EXCEPT !.statistics = NoStatistics].statistics = NoStatistics
  BY Zenon DEF Analytics
<1>6. NoVwap.trades = <<>>
  BY Zenon DEF NoVwap
<1>7. healthy => Follows([a EXCEPT !.vwap = NoVwap], whole, [f EXCEPT !.vwap = 0])
  BY Zenon, <1>2, <1>3, <1>4, <1>5, <1>6 DEF Follows
<1>8. healthy => Follows([a EXCEPT !.statistics = NoStatistics], whole,
                         [f EXCEPT !.statistics = 0])
  BY Zenon, <1>2, <1>3, <1>4, <1>5, NothingToSummarise DEF Follows
<1> QED BY Zenon, <1>4, <1>7, <1>8, NothingPending DEF InStep

-----------------------------------------------------------------------------
(***************************************************************************)
(* The invariant behind AnalyticsAgree.  Between calls it says what        *)
(* AnalyticsAgree says; during a call the trades that the call has applied *)
(* to the position are still to be fed.  A call with such trades has made  *)
(* the position, so it can no longer fail before its analytics.            *)
(***************************************************************************)
Pending(s) == IF call.status = "applying" /\ call.symbol = s THEN call.done ELSE <<>>

AnalyticsInv ==
  /\ RiskInv
  /\ analytics_healthy \in BOOLEAN
  /\ analytics = [s \in Symbols |-> analytics[s]]
  /\ applied \in [Symbols -> Seq(Trade)]
  /\ fed = [s \in Symbols |-> fed[s]]
  /\ \A s \in Symbols : Analytics(analytics[s])
  /\ call.status = "applying" /\ call.done # <<>> => call.symbol \in known
  /\ WithAnalytics =>
       \A s \in Symbols :
         InStep(analytics_healthy, analytics[s], applied[s], Pending(s), fed[s])

NotFed == [vwap |-> 0, statistics |-> 0]

\* The program starts without trades.
LEMMA AnalyticsStart == Init => AnalyticsInv
<1> SUFFICES ASSUME Init PROVE AnalyticsInv
  BY Zenon
<1>1. RiskInv
  BY Zenon, RiskStart
<1>2. <<>> \in Seq(Trade) /\ Len(<<>>) = 0
  OBVIOUS
<1>3. /\ analytics = [s \in Symbols |-> NoAnalytics] /\ fed = [s \in Symbols |-> NotFed]
      /\ applied = [s \in Symbols |-> <<>>] /\ call = Idle /\ analytics_healthy = TRUE
  BY Zenon DEF Init, NotFed
<1>4. Analytics(NoAnalytics)
  BY Zenon, EmptyWindow DEF Analytics, NoAnalytics
<1>5. call.status = "idle"
  BY Zenon, <1>3 DEF Idle
<1>6. InStep(TRUE, NoAnalytics, <<>>, <<>>, NotFed)
  <2>1. LastOf(<<>>, 0) = <<>> /\ InWindow(0) = 0
    <3>1. PICK none \in Seq(Trade) : none = <<>>
      BY Zenon, <1>2
    <3>2. 0 \in 0 .. Len(none)
      BY <1>2, <3>1
    <3>3. LastOf(none, 0) = <<>>
      BY Zenon, <3>2, LastTrades
    <3> QED BY <3>1, <3>3, WindowAssumption DEF InWindow
  <2>2. Follows(NoAnalytics, <<>>, NotFed)
    BY Zenon, <2>1, NothingToSummarise DEF Follows, NoAnalytics, NoVwap, NotFed
  <2>3. NotFed \in Feedings(<<>>)
    BY <1>2 DEF NotFed, Feedings
  <2> QED BY Zenon, <1>2, <2>2, <2>3, NothingPending DEF InStep
<1>7. \A s \in Symbols : Pending(s) = <<>>
  BY Zenon, <1>5 DEF Pending
<1> QED BY Zenon, <1>1, <1>2, <1>3, <1>4, <1>5, <1>6, <1>7 DEF AnalyticsInv

\* Steps that leave the analytics and the pending trades alone
LEMMA OtherKeeps ==
  ASSUME AnalyticsInv, RiskInv',
         analytics' = analytics, analytics_healthy' = analytics_healthy,
         applied' = applied, fed' = fed,
         WithAnalytics => \A s \in Symbols : Pending(s)' = Pending(s),
         call'.status = "applying" /\ call'.done # <<>> => call'.symbol \in known'
  PROVE  AnalyticsInv'
BY Zenon DEF AnalyticsInv

\* apply_trade: the trade joins the position's and those of the call.
LEMMA TradeKeeps ==
  ASSUME AnalyticsInv, RiskInv', NEW price \in Price, NEW quantity \in Quantity,
         position_apply_trade(price, quantity)
  PROVE  AnalyticsInv'
<1> DEFINE s == call.symbol
           t == [side |-> call.side, price |-> price, quantity |-> quantity]
<1>1. call.status = "applying" /\ s \in Symbols /\ call.side \in Side /\ call.done \in Seq(Trade)
  BY Zenon, CallForms DEF AnalyticsInv, RiskInv, position_apply_trade
<1>2. t \in Trade
  BY Zenon, <1>1 DEF Trade
<1>3. /\ call'.status = "applying" /\ call'.symbol = s /\ call'.done = Append(call.done, t)
      /\ s \in known'
      /\ applied' = [applied EXCEPT ![s] = IF WithAnalytics THEN Append(@, t) ELSE @]
      /\ analytics' = analytics /\ analytics_healthy' = analytics_healthy /\ fed' = fed
  BY Zenon DEF position_apply_trade, Applying
<1> HIDE DEF s, t
<1>4. applied \in [Symbols -> Seq(Trade)]
  BY Zenon DEF AnalyticsInv
<1>5. applied' \in [Symbols -> Seq(Trade)]
  BY <1>1, <1>2, <1>3, <1>4
<1>6. ASSUME WithAnalytics, NEW x \in Symbols
      PROVE  InStep(analytics_healthy', analytics'[x], applied'[x], Pending(x)', fed'[x])
  <2>1. InStep(analytics_healthy, analytics[x], applied[x], Pending(x), fed[x])
    BY Zenon, <1>6 DEF AnalyticsInv
  <2>2. CASE x = s
    <3>1. applied'[x] = Append(applied[x], t) /\ applied[x] \in Seq(Trade)
      BY Zenon, <1>1, <1>3, <1>4, <1>6, <2>2
    <3>2. Pending(x) = call.done /\ Pending(x)' = Append(call.done, t)
      BY Zenon, <1>1, <1>3, <2>2 DEF Pending, s
    <3> QED BY <1>1, <1>2, <1>3, <2>1, <3>1, <3>2, InStepTrade
  <2>3. CASE x # s
    <3>1. applied'[x] = applied[x]
      BY Zenon, <1>3, <1>4, <2>3
    <3>2. Pending(x) = <<>> /\ Pending(x)' = <<>>
      BY Zenon, <1>3, <2>3 DEF Pending, s
    <3> QED BY Zenon, <1>3, <2>1, <3>1, <3>2
  <2> QED BY Zenon, <2>2, <2>3
<1> QED BY Zenon, <1>3, <1>5, <1>6 DEF AnalyticsInv

\* The analytics of one symbol become new, and it is known how much they were
\* fed: the end of a call and clear_symbol.
LEMMA RenewedKeeps ==
  ASSUME AnalyticsInv, RiskInv', NEW s \in Symbols, NEW new, NEW f,
         analytics' = [analytics EXCEPT ![s] = new],
         fed' = [fed EXCEPT ![s] = f],
         applied' = applied, call' = Idle,
         analytics_healthy' \in BOOLEAN, analytics_healthy' => analytics_healthy,
         \A x \in Symbols \ {s} : Pending(x) = <<>>,
         Analytics(new),
         WithAnalytics => InStep(analytics_healthy', new, applied[s], <<>>, f)
  PROVE  AnalyticsInv'
<1>1. \A x \in Symbols : Pending(x)' = <<>>
  BY Zenon DEF Pending, Idle
<1>2. call'.status # "applying"
  BY Zenon DEF Idle
<1>3. /\ analytics = [x \in Symbols |-> analytics[x]] /\ fed = [x \in Symbols |-> fed[x]]
      /\ \A x \in Symbols : Analytics(analytics[x])
  BY Zenon DEF AnalyticsInv
<1>4. /\ analytics' = [x \in Symbols |-> IF x = s THEN new ELSE analytics[x]]
      /\ fed' = [x \in Symbols |-> IF x = s THEN f ELSE fed[x]]
  BY Zenon, <1>3
<1>5. ASSUME WithAnalytics, NEW x \in Symbols
      PROVE  InStep(analytics_healthy', analytics'[x], applied'[x], Pending(x)', fed'[x])
  <2>1. CASE x = s
    BY Zenon, <1>1, <1>4, <1>5, <2>1
  <2>2. CASE x # s
    <3>1. InStep(analytics_healthy, analytics[x], applied[x], <<>>, fed[x])
      BY Zenon, <1>5, <2>2 DEF AnalyticsInv
    <3>2. InStep(analytics_healthy', analytics[x], applied[x], <<>>, fed[x])
      BY Zenon, <3>1 DEF InStep
    <3> QED BY Zenon, <1>1, <1>4, <2>2, <3>2
  <2> QED BY Zenon, <2>1, <2>2
<1>6. /\ analytics' = [x \in Symbols |-> analytics'[x]] /\ fed' = [x \in Symbols |-> fed'[x]]
      /\ \A x \in Symbols : Analytics(analytics'[x])
  BY Zenon, <1>3, <1>4
<1> QED BY Zenon, <1>2, <1>5, <1>6 DEF AnalyticsInv

\* apply_analytics, whether it succeeds or memory runs out
LEMMA EndOfCallKeeps ==
  ASSUME AnalyticsInv, RiskInv', apply_analytics \/ analytics_fail
  PROVE  AnalyticsInv'
<1> DEFINE s == call.symbol
           a == analytics[s]
           f == More(fed[s], Len(call.done))
<1>1. call.status = "applying" /\ s \in Symbols /\ call.done \in Seq(Trade)
  BY Zenon, CallForms DEF AnalyticsInv, RiskInv, apply_analytics, analytics_fail, AllApplied
<1>2. /\ WithAnalytics /\ call' = Idle /\ applied' = applied
      /\ fed' = [fed EXCEPT ![s] = f]
  BY Zenon DEF apply_analytics, analytics_fail, account, Fed, More
<1>3. /\ Analytics(a) /\ applied[s] \in Seq(Trade) /\ analytics_healthy \in BOOLEAN
      /\ InStep(analytics_healthy, a, applied[s], call.done, fed[s])
  BY Zenon, <1>1, <1>2 DEF AnalyticsInv, Pending
<1>4. \A x \in Symbols \ {s} : Pending(x) = <<>>
  BY Zenon DEF Pending
<1>5. /\ InStep(analytics_healthy, apply_execution(a, call.done), applied[s], <<>>, f)
      /\ \A x : InStep(FALSE, x, applied[s], <<>>, f)
  BY Zenon, <1>1, <1>3, InStepAnalytics
<1>6. CASE apply_analytics
  <2> DEFINE new == apply_execution(a, call.done)
  <2>1. analytics' = [analytics EXCEPT ![s] = new] /\ analytics_healthy' = analytics_healthy
    BY Zenon, <1>6 DEF apply_analytics
  <2>2. Analytics(new)
    BY Zenon, <1>1, <1>3, ExecutionKeeps
  <2> HIDE DEF new, f, s
  <2> QED BY Zenon, <1>1, <1>2, <1>3, <1>4, <1>5, <2>1, <2>2, RenewedKeeps DEF new
<1>7. CASE analytics_fail
  <2>1. PICK new \in apply_execution_failed(a, call.done) :
          analytics' = [analytics EXCEPT ![s] = new]
    BY Zenon, <1>7 DEF analytics_fail
  <2>2. analytics_healthy' = FALSE
    BY Zenon, <1>7 DEF analytics_fail
  <2>3. Analytics(new)
    BY Zenon, <1>1, <1>3, <2>1, FailedExecutionKeeps
  <2> HIDE DEF f, s
  <2> QED BY Zenon, <1>1, <1>2, <1>4, <1>5, <2>1, <2>2, <2>3, RenewedKeeps
<1> QED BY Zenon, <1>6, <1>7

\* clear_symbol of the window or of the statistics
LEMMA ClearKeeps ==
  ASSUME AnalyticsInv, RiskInv', NEW s \in Symbols, clear_vwap(s) \/ clear_statistics(s)
  PROVE  AnalyticsInv'
<1> DEFINE a == analytics[s]
           f == fed[s]
<1>1. /\ WithAnalytics /\ call = Idle /\ call' = Idle /\ applied' = applied
      /\ analytics_healthy' = analytics_healthy
  BY Zenon DEF clear_vwap, clear_statistics, account
<1>2. \A x \in Symbols : Pending(x) = <<>>
  BY Zenon, <1>1 DEF Pending, Idle
<1>3. /\ Analytics(a) /\ applied[s] \in Seq(Trade) /\ analytics_healthy \in BOOLEAN
      /\ InStep(analytics_healthy, a, applied[s], <<>>, f)
  BY Zenon, <1>1, <1>2 DEF AnalyticsInv
<1>4. CASE clear_vwap(s)
  <2> DEFINE new == [a EXCEPT !.vwap = NoVwap]
             g == [f EXCEPT !.vwap = 0]
  <2>1. analytics' = [analytics EXCEPT ![s] = new] /\ fed' = [fed EXCEPT ![s] = g]
    BY Zenon, <1>4 DEF clear_vwap
  <2>2. InStep(analytics_healthy, new, applied[s], <<>>, g)
    BY Zenon, <1>3, InStepCleared
  <2>3. Analytics(new)
    BY <1>3, EmptyWindow DEF Analytics
  <2> HIDE DEF new, g
  <2> QED BY Zenon, <1>1, <1>2, <1>3, <2>1, <2>2, <2>3, RenewedKeeps
<1>5. CASE clear_statistics(s)
  <2> DEFINE new == [a EXCEPT !.statistics = NoStatistics]
             g == [f EXCEPT !.statistics = 0]
  <2>1. analytics' = [analytics EXCEPT ![s] = new] /\ fed' = [fed EXCEPT ![s] = g]
    BY Zenon, <1>5 DEF clear_statistics
  <2>2. InStep(analytics_healthy, new, applied[s], <<>>, g)
    BY Zenon, <1>3, InStepCleared
  <2>3. Analytics(new)
    BY <1>3 DEF Analytics
  <2> HIDE DEF new, g
  <2> QED BY Zenon, <1>1, <1>2, <1>3, <2>1, <2>2, <2>3, RenewedKeeps
<1> QED BY Zenon, <1>4, <1>5

\* Every step of every call keeps the analytics in step.
LEMMA AnalyticsStep == AnalyticsInv /\ [Next]_vars => AnalyticsInv'
<1> SUFFICES ASSUME AnalyticsInv, [Next]_vars PROVE AnalyticsInv'
  BY Zenon
<1>1. RiskInv'
  BY Zenon, RiskStep DEF AnalyticsInv
<1>2. ASSUME NEW s \in Symbols, NEW side \in Side, NEW quantity \in Quantity,
             NEW executed \in 0 .. MaxQuantity,
             execute_market(s, side, quantity, executed)
      PROVE  AnalyticsInv'
  <2>1. call.status = "idle" /\ call'.done = <<>>
    BY Zenon, <1>2 DEF execute_market, Idle, Applying
  <2>2. \A x \in Symbols : Pending(x) = <<>> /\ Pending(x)' = <<>>
    BY Zenon, <2>1 DEF Pending
  <2> QED BY Zenon, <1>1, <1>2, <2>1, <2>2, OtherKeeps DEF execute_market, account
<1>3. ASSUME NEW price \in Price, NEW quantity \in Quantity,
             position_apply_trade(price, quantity)
      PROVE  AnalyticsInv'
  BY Zenon, <1>1, <1>3, TradeKeeps
<1>4. CASE position_apply_fails
  <2>1. call.status = "applying" /\ call.done = <<>> /\ call'.status = "idle"
    BY Zenon, <1>4 DEF position_apply_fails, AnalyticsInv, Idle
  <2>2. \A x \in Symbols : Pending(x) = <<>> /\ Pending(x)' = <<>>
    BY Zenon, <2>1 DEF Pending
  <2> QED BY Zenon, <1>1, <1>4, <2>1, <2>2, OtherKeeps DEF position_apply_fails, account
<1>5. CASE no_analytics
  <2>1. WithAnalytics => call.done = <<>>
    BY Zenon, <1>5 DEF no_analytics
  <2>2. call'.status = "idle"
    BY Zenon, <1>5 DEF no_analytics, Idle
  <2>3. WithAnalytics => \A x \in Symbols : Pending(x) = <<>> /\ Pending(x)' = <<>>
    BY Zenon, <2>1, <2>2 DEF Pending
  <2> QED BY Zenon, <1>1, <1>5, <2>2, <2>3, OtherKeeps DEF no_analytics, account
<1>6. CASE apply_analytics \/ analytics_fail
  BY Zenon, <1>1, <1>6, EndOfCallKeeps
<1>7. ASSUME NEW s \in Symbols, clear_vwap(s) \/ clear_statistics(s)
      PROVE  AnalyticsInv'
  BY Zenon, <1>1, <1>7, ClearKeeps
<1>8. CASE UNCHANGED vars
  <2>1. \A x \in Symbols : Pending(x)' = Pending(x)
    BY Zenon, <1>8 DEF vars, Pending
  <2> QED BY Zenon, <1>1, <1>8, <2>1, OtherKeeps DEF vars, account, AnalyticsInv
<1> QED BY Zenon, <1>2, <1>3, <1>4, <1>5, <1>6, <1>7, <1>8 DEF Next

\* The totals of every window are those of its trades, and while the analytics
\* are healthy they tell the same story as the positions between calls.
THEOREM AnalyticsAlwaysAgree == Spec => []AnalyticsAgree
<1>1. AnalyticsInv => AnalyticsAgree
  <2> SUFFICES ASSUME AnalyticsInv PROVE AnalyticsAgree
    BY Zenon
  <2>1. TypeOK
    BY Zenon DEF AnalyticsInv, RiskInv, Types, PositionRecord, TypeOK, Analytics, Windowed
  <2>2. ASSUME NEW s \in Symbols
        PROVE  LET v == analytics[s].vwap
               IN  /\ v.total_notional = SumOver(v.trades, notional)
                   /\ v.total_volume = SumOver(v.trades, LAMBDA t : t.quantity)
    <3> DEFINE v == analytics[s].vwap
    <3>1. Windowed(v)
      BY Zenon DEF AnalyticsInv, Analytics
    <3> HIDE DEF v
    <3>2. v.trades \in Seq(Trade) /\ DOMAIN v.trades = 1 .. Len(v.trades)
      BY <3>1 DEF Windowed
    <3>3. /\ v.total_notional = SumOver(v.trades, notional)
          /\ v.total_volume = SumOver(v.trades, LAMBDA t : t.quantity)
      BY Zenon, <3>1, <3>2 DEF Windowed, SumOver, Notionals, Quantities
    <3> QED BY Zenon, <3>3 DEF v
  <2>3. ASSUME NEW s \in Symbols, WithAnalytics /\ call = Idle /\ analytics_healthy
        PROVE  /\ analytics[s].vwap.trades =
                    LastOf(applied[s], IF fed[s].vwap < window_size
                                         THEN fed[s].vwap ELSE window_size)
               /\ analytics[s].statistics = Summary(LastOf(applied[s], fed[s].statistics))
    <3>1. Pending(s) = <<>>
      BY Zenon, <2>3 DEF Pending, Idle
    <3>2. InStep(analytics_healthy, analytics[s], applied[s], <<>>, fed[s])
      BY Zenon, <2>3, <3>1 DEF AnalyticsInv
    <3>3. applied[s] \in Seq(Trade)
      BY Zenon DEF AnalyticsInv
    <3>4. Follows(analytics[s], applied[s], fed[s])
      BY Zenon, <2>3, <3>2, <3>3, NothingPending DEF InStep
    <3> QED BY Zenon, <3>4 DEF Follows, InWindow
  <2> QED BY Zenon, <2>1, <2>2, <2>3 DEF AnalyticsAgree
<1> QED BY <1>1, AnalyticsStart, AnalyticsStep, PTL DEF Spec
=============================================================================
