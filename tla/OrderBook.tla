------------------------------- MODULE OrderBook -------------------------------
(***************************************************************************)
(* OrderBook of src/order_book.cpp: the aggregated book as two vectors of  *)
(* price levels, bids_ in descending and asks_ in ascending price order.   *)
(* Every writing method holds the exclusive lock from its first access to  *)
(* its last, and replace_snapshot prepares both vectors before it takes    *)
(* the lock, so each method is one step.                                   *)
(*                                                                         *)
(* book["Buy"] is bids_ and book["Sell"] is asks_.  call records the last  *)
(* call and whether it threw.                                              *)
(***************************************************************************)
EXTENDS PriceLevels, SequencesExt

CONSTANT MaxSnapshotLength   \* bound on the levels a snapshot lists

ASSUME SnapshotAssumption == MaxSnapshotLength \in Nat

VARIABLES book, call

vars == <<book, call>>

\* What a call does never depends on the call before it.
BookView == book

PriceLevel(price, quantity) == [price_ticks |-> price, quantity |-> quantity]

\* Arguments: any int64, of which one negative price and quantity stand for
\* all, and the smallest delta has no negation.
ArgPrice    == -1 .. MaxPrice
ArgQuantity == -1 .. MaxQuantity
ArgDelta    == -(MaxQuantity + 1) .. MaxQuantity
ArgLevel    == [price_ticks : ArgPrice, quantity : ArgQuantity]

validate_level(price, quantity) == price >= 0 /\ quantity >= 0

-----------------------------------------------------------------------------
(* Helpers on one vector                                                   *)

\* std::lower_bound: the first position whose price is not better.
lower_bound(v, side, price) ==
  Min({i \in 1 .. Len(v) : ~ Better(side, v[i].price_ticks, price)} \cup {Len(v) + 1})

found(v, i, price) == i <= Len(v) /\ v[i].price_ticks = price

\* Mutant: a level set to 0 is kept.
update_levels_keeps_zero(v, side, price, quantity) ==
  LET i == lower_bound(v, side, price)
  IN  IF found(v, i, price) THEN [v EXCEPT ![i] = PriceLevel(price, quantity)]
      ELSE IF quantity = 0 THEN v
      ELSE InsertAt(v, i, PriceLevel(price, quantity))

\* update_bid_levels and update_ask_levels
update_levels(v, side, price, quantity) ==
  LET i == lower_bound(v, side, price)
  IN  IF found(v, i, price)
      THEN IF quantity = 0 THEN RemoveAt(v, i)
                           ELSE [v EXCEPT ![i] = PriceLevel(price, quantity)]
      ELSE IF quantity = 0 THEN v
                           ELSE InsertAt(v, i, PriceLevel(price, quantity))

\* The throws of adjust_levels: a negative price, a removal from a missing
\* level or of more than it holds, a sum above INT64_MAX, INT64_MIN.
adjust_throws(v, side, price, delta) ==
  LET i == lower_bound(v, side, price)
  IN  \/ price < 0
      \/ ~ found(v, i, price) /\ delta < 0
      \/ found(v, i, price) /\ delta > 0 /\ v[i].quantity > MaxQuantity - delta
      \/ found(v, i, price) /\ delta = -(MaxQuantity + 1)
      \/ found(v, i, price) /\ delta < 0 /\ -delta > v[i].quantity

adjust_levels(v, side, price, delta) ==
  LET i == lower_bound(v, side, price)
  IN  IF delta = 0 THEN v
      ELSE IF ~ found(v, i, price) THEN InsertAt(v, i, PriceLevel(price, delta))
      ELSE IF -delta = v[i].quantity THEN RemoveAt(v, i)
      ELSE [v EXCEPT ![i] = PriceLevel(price, v[i].quantity + delta)]

\* Mutant: the last duplicate wins.
aggregated_last(v, price) ==
  FoldSeq(LAMBDA l, sum : IF l.price_ticks = price THEN l.quantity ELSE sum, 0, Reverse(v))

\* normalize_bids and normalize_asks: a std::map adds up the quantities of a
\* price, and its traversal gives the vector.
aggregated(v, price) ==
  FoldSeq(LAMBDA l, sum : IF l.price_ticks = price THEN sum + l.quantity ELSE sum, 0, v)

normalize_throws(v) ==
  \/ \E i \in DOMAIN v : ~ validate_level(v[i].price_ticks, v[i].quantity)
  \/ \E p \in BookPrice : aggregated(v, p) > MaxQuantity

normalize(v, side) ==
  LET kept == {v[i].price_ticks : i \in {j \in DOMAIN v : v[j].quantity # 0}}
      sorted == SetToSortSeq(kept, LAMBDA p, q : Better(side, p, q))
  IN  [i \in DOMAIN sorted |-> PriceLevel(sorted[i], aggregated(v, sorted[i]))]

-----------------------------------------------------------------------------
(* Methods                                                                 *)

Init ==
  /\ book = [s \in Side |-> <<>>]
  /\ call = [method |-> "OrderBook", threw |-> FALSE]

\* update_bid and update_ask
update(side, price, quantity) ==
  LET threw == ~ validate_level(price, quantity)
  IN  /\ call' = [method |-> "update", side |-> side, price |-> price,
                  quantity |-> quantity, threw |-> threw]
      /\ book' = IF threw THEN book
                 ELSE [book EXCEPT ![side] = update_levels(@, side, price, quantity)]

\* adjust_bid and adjust_ask
adjust(side, price, delta) ==
  LET threw == adjust_throws(book[side], side, price, delta)
  IN  /\ call' = [method |-> "adjust", side |-> side, price |-> price,
                  delta |-> delta, threw |-> threw]
      /\ book' = IF threw THEN book
                 ELSE [book EXCEPT ![side] = adjust_levels(@, side, price, delta)]

replace_snapshot(bids, asks) ==
  LET threw == normalize_throws(bids) \/ normalize_throws(asks)
      listed == [s \in Side |-> IF s = "Buy" THEN bids ELSE asks]
  IN  /\ call' = [method |-> "replace", snapshot |-> listed, threw |-> threw]
      /\ book' = IF threw THEN book
                 ELSE [s \in Side |-> normalize(listed[s], s)]

Next ==
  \/ \E s \in Side, p \in ArgPrice, q \in ArgQuantity : update(s, p, q)
  \/ \E s \in Side, p \in ArgPrice, d \in ArgDelta : adjust(s, p, d)
  \/ \E bids, asks \in SeqOf(ArgLevel, MaxSnapshotLength) :
       /\ Len(bids) + Len(asks) <= MaxSnapshotLength
       /\ replace_snapshot(bids, asks)

Spec == Init /\ [][Next]_vars

-----------------------------------------------------------------------------
(* Queries                                                                 *)

truncated(n, d) == IF n >= 0 THEN n \div d ELSE -((-n) \div d)

depth(v) == LET sum == FoldSeq(LAMBDA l, total : total + l.quantity, 0, v)
            IN  IF sum > MaxQuantity THEN MaxQuantity ELSE sum

\* Saturates like the two depths it adds.
total_depth ==
  LET sum == depth(book["Buy"]) + depth(book["Sell"])
  IN  IF sum > MaxQuantity THEN MaxQuantity ELSE sum

mid_price_ticks(bid, ask) ==
  bid.price_ticks + truncated(ask.price_ticks - bid.price_ticks, 2)

-----------------------------------------------------------------------------
(* Properties                                                              *)

\* Each vector holds valid levels, strictly sorted with the best price first
\* and never with quantity 0.  lower_bound relies on it, and so does everyone
\* who takes front() for the best level.
Normalized ==
  \A s \in Side :
    /\ book[s] \in Seq([price_ticks : BookPrice, quantity : Quantity])
    /\ \A i, j \in 1 .. Len(book[s]) :
         i < j => Better(s, book[s][i].price_ticks, book[s][j].price_ticks)

\* The book as quantities per price, read off the vectors.
Quantities ==
  [s \in Side |-> [p \in BookPrice |->
     IF \E i \in DOMAIN book[s] : book[s][i].price_ticks = p
     THEN book[s][CHOOSE i \in DOMAIN book[s] : book[s][i].price_ticks = p].quantity
     ELSE 0]]

Levels == INSTANCE LevelBook WITH levels <- Quantities

\* The sorted vectors implement quantities per price: every accepted call has
\* exactly its effect, and a call throws exactly when its result would not be
\* a book, in which case it changes nothing.
ImplementsLevelBook == Levels!Spec

\* Part of StatisticsInRange: the mid price of an uncrossed book, an integer
\* division, lies between bid and ask; and what depth saturates to is never
\* below a single level, nor the total depth below that of a side.
MidAndDepthInside ==
  /\ \A s \in Side :
       /\ \A i \in DOMAIN book[s] : book[s][i].quantity <= depth(book[s])
       /\ depth(book[s]) <= total_depth
  /\ book["Buy"] # <<>> /\ book["Sell"] # <<>> /\ ~ Crossed(Quantities) =>
       LET bid == book["Buy"][1]
           ask == book["Sell"][1]
       IN  mid_price_ticks(bid, ask) \in bid.price_ticks .. ask.price_ticks

\* README.md and docs/architecture.md: visible levels have positive prices.
VisiblePricesPositive ==
  \A s \in Side : \A i \in DOMAIN book[s] : book[s][i].price_ticks > 0
=============================================================================
