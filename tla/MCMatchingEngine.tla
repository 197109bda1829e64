--------------------------- MODULE MCMatchingEngine ---------------------------
(***************************************************************************)
(* Instances of MatchingEngine for TLC.                                    *)
(***************************************************************************)
EXTENDS MatchingEngine

Depth(bids, asks) ==
  [s \in Side |-> [p \in BookPrice |->
     IF s = "Buy" THEN (IF p \in bids THEN MaxQuantity ELSE 0)
                  ELSE (IF p \in asks THEN MaxQuantity ELSE 0)]]

\* Two-sided depth; a crossed book, which a feed may send; and a bid at
\* price 0, which replace_snapshot accepts and record_trade does not.
MCSnapshots == {Depth({1}, {2}), Depth({0, 2}, {1})}
=============================================================================
