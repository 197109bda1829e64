----------------------------- MODULE MarketImpact -----------------------------
(***************************************************************************)
(* MarketImpact (include/market_impact.hpp) and DepthAnalytics             *)
(* (include/depth_analytics.hpp) as functions of books and trades.  The    *)
(* code divides long doubles; here prices stay multiplied by the executed  *)
(* quantity, and mid prices by two.                                        *)
(***************************************************************************)
EXTENDS PriceLevels, SequencesExt

CONSTANT depth_levels   \* levels that DepthAnalytics looks at

\* The constructor of AnalyticsEngine refuses zero levels.
ASSUME DepthAssumption == depth_levels \in Nat \ {0}

-----------------------------------------------------------------------------
(* MarketQuote                                                             *)

\* bids() and asks(): the levels of a side, best first
levels_of(b, side) ==
  SetToSortSeq({p \in BookPrice : b[side][p] > 0}, LAMBDA p, q : Better(side, p, q))

\* bid_depth and ask_depth: a sum that overflows becomes the largest int64,
\* which MaxQuantity stands for.
book_depth(b, side) ==
  LET sum == FoldLeft(LAMBDA acc, p : acc + b[side][p], 0, levels_of(b, side))
  IN  IF sum > MaxQuantity THEN MaxQuantity ELSE sum

\* best is the set of the best price, empty when the side is.
capture_quote(b) ==
  [s \in Side |-> [best  |-> IF has_level(b, s) THEN {best_price(b, s)} ELSE {},
                   depth |-> book_depth(b, s)]]

\* Twice mid_price_ticks, which is nullopt when a side is empty
quote_mid_price_ticks(quote) ==
  {bid + ask : <<bid, ask>> \in quote["Buy"].best \X quote["Sell"].best}

-----------------------------------------------------------------------------
(* MarketImpactSummary                                                     *)

filled_quantity(trades) == FoldLeft(LAMBDA sum, t : sum + t.quantity, 0, trades)
notional(trades) == FoldLeft(LAMBDA sum, t : sum + t.price_ticks * t.quantity, 0, trades)

direction(side) == IF side = "Buy" THEN 1 ELSE -1

\* Mutant: a buy is compared with the bid, a sell with the ask.
reference_price_own_side(side, before_quote) == before_quote[side].best

reference_price(side, before_quote) == before_quote[Opposite(side)].best

\* An optional is the set of its value.
analyze(side, trades, before_quote, after_quote) ==
  LET filled == filled_quantity(trades)
  IN  [side                |-> side,
       liquidity_consumed  |-> filled,
       fill_count          |-> Len(trades),
       available_liquidity |-> before_quote[Opposite(side)].depth,
       slippage            |-> {direction(side) * (notional(trades) - reference * filled) :
                                  reference \in reference_price(side, before_quote)},
       effective_spread    |-> {direction(side) * (2 * notional(trades) - mid * filled) :
                                  mid \in quote_mid_price_ticks(before_quote)},
       signed_mid_impact   |-> {direction(side) * (post - pre) :
                                  <<pre, post>> \in quote_mid_price_ticks(before_quote)
                                                      \X quote_mid_price_ticks(after_quote)}]

-----------------------------------------------------------------------------
(* DepthSummary                                                            *)

\* The best levels of a side with cumulative quantities
build_levels(b, side, max_levels) ==
  LET prices == levels_of(b, side)
      count  == IF Len(prices) < max_levels THEN Len(prices) ELSE max_levels
  IN  [i \in 1 .. count |->
         [price_ticks |-> prices[i], quantity |-> b[side][prices[i]],
          cumulative_quantity |->
            FoldLeft(LAMBDA sum, p : sum + b[side][p], 0, SubSeq(prices, 1, i))]]

analyze_depth(b) == [s \in Side |-> build_levels(b, s, depth_levels)]

\* What depth_by_symbol_[symbol] creates
NoDepth == [s \in Side |-> <<>>]
=============================================================================
