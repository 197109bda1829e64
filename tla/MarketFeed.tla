------------------------------ MODULE MarketFeed ------------------------------
(***************************************************************************)
(* What WebSocketClient does with the messages of the market channel       *)
(* (src/websocket_client.cpp, include/websocket_market_state.hpp,          *)
(* include/websocket_payload_dispatcher.hpp): one book per subscribed      *)
(* token, replaced by snapshots and changed by price changes.              *)
(*                                                                         *)
(* The server is external: it has a book per token, announces what changes *)
(* in it and sends snapshots, in order over one connection, and some of    *)
(* what it sends cannot be used.  A payload is an array of messages; one   *)
(* that is not an array is an array of one.                                *)
(***************************************************************************)
EXTENDS PriceLevels, SequencesExt

CONSTANTS
  Tokens,         \* the tokens the server has books for
  Subscribed,     \* those of the subscription
  Announced,      \* the changes that the server may announce
  MaxChanges,     \* bound on the changes of the server's books
  MaxPayloads,    \* bound on the payloads in flight
  MaxArray        \* bound on the messages of a payload

ASSUME FeedAssumption ==
  /\ Subscribed \subseteq Tokens
  /\ MaxChanges \in Nat /\ MaxPayloads \in Nat /\ MaxArray \in Nat

VARIABLES
  server,       \* the server's books
  changes,      \* how often they have changed
  connected,
  channel,      \* payloads sent and not yet read
  market_state  \* the client's state of every subscribed token

vars == <<server, changes, connected, channel, market_state>>

\* A price change whose fields are missing or of the wrong type has a bad
\* shape; one whose price, size or side does not denote one a bad value.
Faults == {"none", "shape", "value"}

Change == [asset_id : Tokens, side : Side, price : BookPrice,
           size : LevelQuantity, fault : Faults]

ASSUME AnnouncedAssumption == Announced \subseteq Change

BookEvent(t, book, valid) ==
  [event_type |-> "book", asset_id |-> t, book |-> book, valid |-> valid]
PriceChangeEvent(entries) ==
  [event_type |-> "price_change", price_changes |-> entries]
OtherEvent == [event_type |-> "other"]

-----------------------------------------------------------------------------
(* The client                                                              *)

\* WebSocketTokenState; missed is a history variable: an announced change
\* was dropped with the rest of its message since the last snapshot.
NewTokenState == [book |-> EmptyBook, snapshot_received |-> FALSE, missed |-> FALSE]

contains(t) == t \in Subscribed

Listening(ms, t) == contains(t) /\ ms[t].snapshot_received

\* apply_price_change looks at the values only after it knows the token and
\* has its snapshot.
Throws(ms, c) ==
  \/ c.fault = "shape"
  \/ c.fault = "value" /\ Listening(ms, c.asset_id)

\* Mutant: changes are applied before the first snapshot too.
apply_price_change_early(ms, c) ==
  IF contains(c.asset_id)
    THEN [ms EXCEPT ![c.asset_id].book = update_level(@, c.side, c.price, c.size)]
    ELSE ms

apply_price_change(ms, c) ==
  IF Listening(ms, c.asset_id)
    THEN [ms EXCEPT ![c.asset_id].book = update_level(@, c.side, c.price, c.size)]
    ELSE ms

\* The changes before the first that throws stay applied, the others are lost.
process_price_change(ms, entries) ==
  LET good == SelectInSeq(entries, LAMBDA c : Throws(ms, c))
      kept == IF good = 0 THEN entries ELSE SubSeq(entries, 1, good - 1)
      lost == IF good = 0 THEN {} ELSE {entries[i].asset_id : i \in good .. Len(entries)}
      then == FoldLeft(apply_price_change, ms, kept)
  IN  [t \in Subscribed |->
         IF t \in lost /\ ms[t].snapshot_received
           THEN [then[t] EXCEPT !.missed = TRUE] ELSE then[t]]

\* Both sides are parsed before the book is replaced.
process_book(ms, m) ==
  IF contains(m.asset_id) /\ m.valid
    THEN [ms EXCEPT ![m.asset_id] =
           [book |-> m.book, snapshot_received |-> TRUE, missed |-> FALSE]]
    ELSE ms

\* What a message that throws has changed by then stays; dispatch_one catches
\* the exception and the next message of the array is processed.
process_message(ms, m) ==
  CASE m.event_type = "book"         -> process_book(ms, m)
    [] m.event_type = "price_change" -> process_price_change(ms, m.price_changes)
    [] OTHER                         -> ms

process_payload(ms, payload) == FoldLeft(process_message, ms, payload)

\* A payload is read.  Text that is not JSON or not a container is ignored.
read_payload ==
  /\ connected /\ channel # <<>>
  /\ market_state' = process_payload(market_state, Head(channel))
  /\ channel' = Tail(channel)
  /\ UNCHANGED <<server, changes, connected>>

-----------------------------------------------------------------------------
(* The connection                                                          *)

Init ==
  /\ server = [t \in Tokens |-> EmptyBook]
  /\ changes = 0
  /\ connected = FALSE
  /\ channel = <<>>
  /\ market_state = [t \in Subscribed |-> NewTokenState]

\* Mutant: the state of the last connection is kept.
connect_keeping ==
  /\ ~ connected
  /\ connected' = TRUE
  /\ UNCHANGED <<server, changes, channel, market_state>>

\* Every connection has a WebSocketMarketState of its own.
connect ==
  /\ ~ connected
  /\ connected' = TRUE
  /\ market_state' = [t \in Subscribed |-> NewTokenState]
  /\ UNCHANGED <<server, changes, channel>>

\* What is in flight is lost.
disconnect ==
  /\ connected
  /\ connected' = FALSE
  /\ channel' = <<>>
  /\ UNCHANGED <<server, changes, market_state>>

-----------------------------------------------------------------------------
(* The server                                                              *)

\* In a payload of its own, or in the last one if nobody has read it yet
Sent(m) ==
  \/ Len(channel) < MaxPayloads /\ channel' = Append(channel, <<m>>)
  \/ /\ channel # <<>> /\ Len(Last(channel)) < MaxArray
     /\ channel' = Front(channel) \o <<Append(Last(channel), m)>>

ServerChanges(entries) ==
  /\ changes + Len(entries) <= MaxChanges
  /\ server' = FoldLeft(LAMBDA s, c : [s EXCEPT ![c.asset_id] =
                          update_level(@, c.side, c.price, c.size)], server, entries)
  /\ changes' = changes + Len(entries)
  /\ IF connected THEN Sent(PriceChangeEvent(entries)) ELSE UNCHANGED channel
  /\ UNCHANGED <<connected, market_state>>

ServerSnapshot(t, valid) ==
  /\ connected
  /\ Sent(BookEvent(t, server[t], valid))
  /\ UNCHANGED <<server, changes, connected, market_state>>

ServerSendsOther ==
  /\ connected
  /\ Sent(OtherEvent)
  /\ UNCHANGED <<server, changes, connected, market_state>>

Next ==
  \/ connect \/ disconnect \/ read_payload
  \/ \E c \in Announced : ServerChanges(<<c>>)
  \/ \E c, d \in Announced : ServerChanges(<<c, d>>)
  \/ \E t \in Tokens, valid \in BOOLEAN : ServerSnapshot(t, valid)
  \/ ServerSendsOther

Spec == Init /\ [][Next]_vars

-----------------------------------------------------------------------------
(* Properties                                                              *)

TokenState == [book : Book, snapshot_received : BOOLEAN, missed : BOOLEAN]

\* Part of NoPartialBook: books are books, and every token of the subscription has a state.
TypeOK ==
  /\ server \in [Tokens -> Book]
  /\ changes \in 0 .. MaxChanges
  /\ connected \in BOOLEAN
  /\ Len(channel) <= MaxPayloads
  /\ market_state \in [Subscribed -> TokenState]

\* Once it has read what is in flight, the client's book of a token is the
\* server's book: after any reconnection, with changes before the snapshot,
\* with snapshots sent again, and with messages next to it that were refused.
\* The exception is a token that had a change in the refused rest of a
\* message, until its next snapshot.
CopyIsTheServersBook ==
  LET ms == FoldLeft(process_payload, market_state, channel)
  IN  connected =>
        \A t \in Subscribed :
          ms[t].snapshot_received /\ ~ ms[t].missed => ms[t].book = server[t]

\* A token has no levels before its snapshot: apply_price_change does not
\* build a partial book from changes, on the first connection or a later one.
NoPartialBook ==
  /\ TypeOK
  /\ \A t \in Subscribed :
       ~ market_state[t].snapshot_received => market_state[t].book = EmptyBook
=============================================================================
