------------------------------- MODULE LevelBook -------------------------------
(***************************************************************************)
(* What an OrderBook promises to its callers: every writing method sets    *)
(* or adds up quantities per price in one step, and a call that throws     *)
(* leaves the book alone.  call is the last call and whether it threw.     *)
(***************************************************************************)
EXTENDS PriceLevels, Sequences, FiniteSetsExt

VARIABLES levels, call

\* The first call of a book is its construction.
Construction == [method |-> "OrderBook", threw |-> FALSE]

Init == levels = EmptyBook /\ call = Construction

\* The quantity a snapshot lists for a price, duplicates added up.
Listed(snapshot, side, price) ==
  MapThenSumSet(LAMBDA i : snapshot[side][i].quantity,
                {i \in DOMAIN snapshot[side] : snapshot[side][i].price_ticks = price})

ValidSnapshot(snapshot) ==
  \A s \in Side :
    /\ \A i \in DOMAIN snapshot[s] :
         snapshot[s][i].price_ticks >= 0 /\ snapshot[s][i].quantity >= 0
    /\ \A p \in BookPrice : Listed(snapshot, s, p) \in LevelQuantity

\* When a call is accepted, and the book it then leaves.
Accepted(c) ==
  CASE c.method = "update"  -> c.price >= 0 /\ c.quantity >= 0
    [] c.method = "adjust"  -> c.price >= 0 /\ can_adjust(levels, c.side, c.price, c.delta)
    [] c.method = "replace" -> ValidSnapshot(c.snapshot)

Effect(c) ==
  CASE c.method = "update"  -> update_level(levels, c.side, c.price, c.quantity)
    [] c.method = "adjust"  -> adjust_level(levels, c.side, c.price, c.delta)
    [] c.method = "replace" -> [s \in Side |->
                                  [p \in BookPrice |-> Listed(c.snapshot, s, p)]]

Next ==
  /\ call'.method # Construction.method
  /\ call'.threw = ~ Accepted(call')
  /\ levels' = IF call'.threw THEN levels ELSE Effect(call')

Spec == Init /\ [][Next]_<<levels, call>>
=============================================================================
