--------------------------- MODULE DepthStatistics ---------------------------
(***************************************************************************)
(* DepthWeightedPricing (include/depth_weighted_pricing.hpp) and           *)
(* LiquidityConcentration (include/liquidity_concentration.hpp) on every   *)
(* book that OrderBook can be.  Their results stay long doubles, which are *)
(* exact fractions here: a number n / d is <<n, d>>, and an optional is    *)
(* the set of its value.                                                   *)
(***************************************************************************)
EXTENDS OrderBook, BookAverages, MarketImpact

SumOf(seq) == FoldLeft(LAMBDA a, b : a + b, 0, seq)

\* bid_depth and ask_depth of a DepthSummary
depth_of(rows) == IF rows = <<>> THEN 0 ELSE Last(rows).cumulative_quantity

-----------------------------------------------------------------------------
(* DepthWeightedPricing                                                    *)

calculate_weighted_price(rows) ==
  IF rows = <<>> THEN {}
  ELSE {<<SumOf([i \in DOMAIN rows |-> rows[i].price_ticks * rows[i].quantity]),
          depth_of(rows)>>}

\* weighted_bid_price_ticks and weighted_ask_price_ticks
weighted_price(b, side, max_levels) ==
  calculate_weighted_price(build_levels(b, side, max_levels))

weighted_mid_price(b, max_levels) ==
  {<<bid[1] * ask[2] + ask[1] * bid[2], 2 * bid[2] * ask[2]>> :
   <<bid, ask>> \in weighted_price(b, "Buy", max_levels)
                      \X weighted_price(b, "Sell", max_levels)}

-----------------------------------------------------------------------------
(* LiquidityConcentration                                                  *)

best_level_share(rows) ==
  IF rows = <<>> THEN {} ELSE {<<rows[1].quantity, depth_of(rows)>>}

\* Mutant: the shares are not squared.
calculate_hhi_linear(rows) ==
  IF rows = <<>> THEN {} ELSE {<<SumOf([i \in DOMAIN rows |-> rows[i].quantity]), depth_of(rows)>>}

calculate_hhi(rows) ==
  IF rows = <<>> THEN {}
  ELSE {<<SumOf([i \in DOMAIN rows |-> rows[i].quantity * rows[i].quantity]),
          depth_of(rows) * depth_of(rows)>>}

-----------------------------------------------------------------------------
(* Properties                                                              *)

AtMost(a, b) == a[1] * b[2] <= b[1] * a[2]
NotBetter(side, a, b) == IF side = "Buy" THEN AtMost(a, b) ELSE AtMost(b, a)

\* Part of StatisticsInRange: before rounding, a weighted price is never better
\* than the best level nor worse than the last level that was looked at, and
\* looking one level deeper never makes it better.  In a book that is not
\* crossed the weighted mid price lies between the weighted prices of the
\* sides.
WeightedPricesOrdered ==
  /\ \A side \in Side, n \in 1 .. depth_levels :
       LET rows == build_levels(Quantities, side, n)
       IN  \A price \in weighted_price(Quantities, side, n) :
             /\ NotBetter(side, price, Whole(rows[1].price_ticks))
             /\ NotBetter(side, Whole(Last(rows).price_ticks), price)
             /\ \A deeper \in weighted_price(Quantities, side, n + 1) :
                  NotBetter(side, deeper, price)
  /\ has_level(Quantities, "Buy") /\ has_level(Quantities, "Sell")
       /\ best_price(Quantities, "Buy") < best_price(Quantities, "Sell")
     => \A mid \in weighted_mid_price(Quantities, depth_levels) :
          /\ \A bid \in weighted_price(Quantities, "Buy", depth_levels) : AtMost(bid, mid)
          /\ \A ask \in weighted_price(Quantities, "Sell", depth_levels) : AtMost(mid, ask)

\* Part of StatisticsInRange: before rounding, the concentration index lies
\* between an even spread over the levels and a single level, which alone
\* reaches 1; the best level's share squared is part of it; and looking one
\* level deeper never raises that share.
ConcentrationInRange ==
  \A side \in Side, n \in 1 .. depth_levels :
    LET rows == build_levels(Quantities, side, n)
    IN  \A hhi \in calculate_hhi(rows), share \in best_level_share(rows) :
          /\ AtMost(<<1, Len(rows)>>, hhi)
          /\ AtMost(hhi, Whole(1)) /\ (hhi[1] = hhi[2]) = (Len(rows) = 1)
          /\ AtMost(<<share[1] * share[1], share[2] * share[2]>>, hhi)
          /\ \A deeper \in best_level_share(build_levels(Quantities, side, n + 1)) :
               AtMost(deeper, share)

\* What is computed from a book stays within what it summarises: mid price
\* and depth exactly, the VWAPs and the microprice up to the rounding of long
\* double, the weighted prices and the concentration before it.
StatisticsInRange ==
  MidAndDepthInside /\ AveragesStayInside /\ WeightedPricesOrdered /\ ConcentrationInRange
=============================================================================
