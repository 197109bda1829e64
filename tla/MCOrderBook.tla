----------------------------- MODULE MCOrderBook -----------------------------
(***************************************************************************)
(* The order book with what is computed from it, and, while it is empty,   *)
(* the conversion of texts that grow one character at a time, and the      *)
(* averages of quotes with larger numbers than the book holds here.        *)
(***************************************************************************)
EXTENDS DepthStatistics, FixedPoint

MCInit == Init /\ text = <<>> /\ quote = {}

Idle == book["Buy"] \o book["Sell"] = <<>> /\ UNCHANGED vars

Extend ==
  /\ Len(text) < MaxLength
  /\ \E c \in Characters : text' = Append(text, c)

Quote ==
  \E bid, ask \in QuotedLevel :
    bid.price_ticks < ask.price_ticks /\ quote' = {<<bid, ask>>}

MCNext ==
  \/ text = <<>> /\ quote = {} /\ Next /\ UNCHANGED <<text, quote>>
  \/ Idle /\ quote = {} /\ Extend /\ UNCHANGED quote
  \/ Idle /\ text = <<>> /\ quote = {} /\ Quote /\ UNCHANGED text
  \/ Idle /\ (text # <<>> \/ quote # {}) /\ text' = <<>> /\ quote' = {}

MCSpec == MCInit /\ [][MCNext]_<<vars, text, quote>>

\* What a call does never depends on the call before it.
MCView == <<book, text, quote>>
=============================================================================
