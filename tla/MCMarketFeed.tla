----------------------------- MODULE MCMarketFeed -----------------------------
(* The market feed with few changes, each of them good or spoilt. *)
EXTENDS MarketFeed

CONSTANTS yes, no   \* the tokens of the two outcomes of a market

MCTokens == {yes, no}
MCSubscribed == {yes}

BidAt(t, size, fault) ==
  [asset_id |-> t, side |-> "Buy", price |-> 1, size |-> size, fault |-> fault]

MCAnnounced ==
  {BidAt(yes, size, "none") : size \in {0, 1}}
    \cup {BidAt(yes, 1, "value")}
    \cup {BidAt(no, 1, fault) : fault \in Faults}
=============================================================================
