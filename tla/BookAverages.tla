----------------------------- MODULE BookAverages -----------------------------
(***************************************************************************)
(* The averages that OrderBook (src/order_book.cpp) computes in long       *)
(* double and casts to int64: the VWAP of a side and the microprice.  A    *)
(* long double keeps the leading MantissaBits bits of every product, sum   *)
(* and quotient, rounded to the nearest, ties to even.  It is a fraction   *)
(* <<n, d>> here, and d is a power of two.                                 *)
(*                                                                         *)
(* quote is a bid and an ask above it.  They serve as the best levels of a *)
(* book and as the two levels of one side.                                 *)
(***************************************************************************)
EXTENDS Integers, Sequences

CONSTANTS
  MantissaBits,   \* of a long double, 64 in the x86-64 builds
  MaxInteger      \* the largest int64

\* A long double holds every int64.
ASSUME MantissaAssumption ==
  /\ MantissaBits \in Nat \ {0}
  /\ MaxInteger \in 1 .. 2 ^ MantissaBits - 1

VARIABLE quote

-----------------------------------------------------------------------------
(* long double                                                             *)

Whole(n) == <<n, 1>>

\* The unit of the last bit kept of x > 0, as a fraction
unit(x) ==
  LET units == {<<2 ^ k, 1>> : k \in 0 .. MantissaBits + 2}
                 \cup {<<1, 2 ^ k>> : k \in 1 .. 2 * MantissaBits}
  IN  CHOOSE u \in units :
        LET n == x[1] * u[2]
            d == x[2] * u[1]
        IN  2 ^ (MantissaBits - 1) * d <= n /\ n < 2 ^ MantissaBits * d

rounded(x) ==
  IF x[1] = 0 THEN Whole(0)
  ELSE LET u    == unit(x)
           n    == x[1] * u[2]
           d    == x[2] * u[1]
           kept == n \div d
           rest == 2 * (n % d)
           up   == rest > d \/ (rest = d /\ kept % 2 = 1)
       IN  <<(IF up THEN kept + 1 ELSE kept) * u[1], u[2]>>

plus(x, y)    == rounded(<<x[1] * y[2] + y[1] * x[2], x[2] * y[2]>>)
times(x, y)   == rounded(<<x[1] * y[1], x[2] * y[2]>>)
divided(x, y) == rounded(<<x[1] * y[2], x[2] * y[1]>>)

\* static_cast<std::int64_t> of a number that is not negative.  Beyond the
\* range the cast is undefined: x86-64 gives the smallest int64, ARM the
\* largest.
casts(x) ==
  LET n == x[1] \div x[2]
  IN  IF n <= MaxInteger THEN {n} ELSE {- (MaxInteger + 1), MaxInteger}

-----------------------------------------------------------------------------
(* The averages                                                            *)

\* What each level adds to the two totals
products_of(v) ==
  [i \in DOMAIN v |-> times(Whole(v[i].price_ticks), Whole(v[i].quantity))]

quantities_of(v) == [i \in DOMAIN v |-> Whole(v[i].quantity)]

\* Added up level by level
total_of(values) ==
  LET sum[i \in 0 .. Len(values)] ==
        IF i = 0 THEN Whole(0) ELSE plus(sum[i - 1], values[i])
  IN  sum[Len(values)]

\* Mutant: the total is divided by the number of levels.
vwap_ticks_by_levels(v) == casts(divided(total_of(products_of(v)), Whole(Len(v))))

\* An optional is the set of its value.  No level has quantity 0, so the total
\* quantity is 0 only when there are no levels.
vwap_ticks(v) ==
  LET vwap == divided(total_of(products_of(v)), total_of(quantities_of(v)))
  IN  IF v = <<>> \/ vwap[1] > MaxInteger * vwap[2] THEN {} ELSE casts(vwap)

microprice_ticks(bid, ask) ==
  casts(divided(plus(times(Whole(bid.price_ticks), Whole(ask.quantity)),
                     times(Whole(ask.price_ticks), Whole(bid.quantity))),
                plus(Whole(bid.quantity), Whole(ask.quantity))))

-----------------------------------------------------------------------------
(* Properties                                                              *)

QuotedLevel == [price_ticks : 0 .. MaxInteger, quantity : 1 .. MaxInteger]

\* Exact integers of the mantissa's width
Fits(n) == n < 2 ^ MantissaBits

\* An average of prices between low and high
Near(averages, low, high, slack) == averages \subseteq low - slack .. high + slack

\* Part of StatisticsInRange: a VWAP lies between the lowest and the highest
\* price of its levels, and the microprice between bid and ask, as long as
\* the sum of price times quantity fits the mantissa.  Beyond that, rounding
\* moves a VWAP by at most one tick per level out of that range, a microprice
\* by at most two ticks, and the microprice is never cast out of range.
AveragesStayInside ==
  \A q \in quote :
    LET bid   == q[1]
        ask   == q[2]
        low   == bid.price_ticks
        high  == ask.price_ticks
        exact == Fits(low * bid.quantity + high * ask.quantity)
    IN  /\ \A l \in {bid, ask} :
             LET fits == Fits(l.price_ticks * l.quantity)
             IN  /\ Near(vwap_ticks(<<l>>), l.price_ticks, l.price_ticks, IF fits THEN 0 ELSE 1)
                 /\ fits => vwap_ticks(<<l>>) # {}
        /\ \A v \in {<<bid, ask>>, <<ask, bid>>} :
             /\ Near(vwap_ticks(v), low, high, IF exact THEN 0 ELSE 2)
             /\ exact => vwap_ticks(v) # {}
        /\ Near(microprice_ticks(bid, ask), low, high,
                IF Fits(low * ask.quantity + high * bid.quantity) THEN 0 ELSE 2)
=============================================================================
