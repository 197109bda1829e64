-------------------------- MODULE OrderFlowImbalance --------------------------
(***************************************************************************)
(* OrderFlowImbalance (include/order_flow_imbalance.hpp) for one symbol,   *)
(* and the snapshot that OFIOrderBookHandler takes for it                  *)
(* (include/ofi_order_book_handler.hpp).  The long doubles of the code     *)
(* hold sums of int64 quantities; they are integers here.                  *)
(***************************************************************************)
EXTENDS PriceLevels, SequencesExt

\* std::optional<OFILevel>: a level without quantity is nullopt.
NoLevel == [price_ticks |-> 0, quantity |-> 0]

best_level(b, side) ==
  IF has_level(b, side)
    THEN [price_ticks |-> best_price(b, side), quantity |-> b[side][best_price(b, side)]]
    ELSE NoLevel

\* The OFISnapshot of a copy of the book
snapshot_of(b) == [s \in Side |-> best_level(b, s)]

\* validate_level, and the test for a crossed or locked book
can_update(snapshot) ==
  /\ \A s \in Side : snapshot[s].quantity > 0 => snapshot[s].price_ticks > 0
  /\ (\A s \in Side : snapshot[s].quantity > 0)
       => snapshot["Buy"].price_ticks < snapshot["Sell"].price_ticks

\* bid_contribution and ask_contribution
contribution(side, previous, current) ==
  CASE previous.quantity = 0 -> current.quantity
    [] previous.quantity > 0 /\ current.quantity = 0 -> - previous.quantity
    [] previous.quantity > 0 /\ current.quantity > 0 ->
         IF Better(side, current.price_ticks, previous.price_ticks) THEN current.quantity
         ELSE IF Better(side, previous.price_ticks, current.price_ticks) THEN - previous.quantity
         ELSE current.quantity - previous.quantity

event_ofi(previous, snapshot) ==
  contribution("Buy", previous["Buy"], snapshot["Buy"])
    - contribution("Sell", previous["Sell"], snapshot["Sell"])

-----------------------------------------------------------------------------
(* struct SymbolState                                                      *)

NoSnapshot == [s \in Side |-> NoLevel]

\* window_size belongs to the object and is the same for all its symbols.
NewSymbolState(window_size) ==
  [initialized |-> FALSE, previous |-> NoSnapshot, events |-> <<>>,
   rolling_total |-> 0, latest_event |-> 0, window_size |-> window_size]

\* Mutant: the oldest event leaves the window and stays in the total.
make_room_keeping_total(st) ==
  IF Len(st.events) = st.window_size THEN [st EXCEPT !.events = Tail(st.events)] ELSE st

make_room(st) ==
  IF Len(st.events) = st.window_size
    THEN [st EXCEPT !.events = Tail(st.events), !.rolling_total = @ - Head(st.events)]
    ELSE st

\* The first snapshot is what the next one is compared with.
update(st, snapshot) ==
  IF ~ st.initialized
    THEN [st EXCEPT !.initialized = TRUE, !.previous = snapshot]
    ELSE LET event == event_ofi(st.previous, snapshot)
             room  == make_room(st)
         IN  [room EXCEPT !.previous = snapshot,
                          !.events = Append(room.events, event),
                          !.rolling_total = @ + event,
                          !.latest_event = event]

\* A capture that throws, in its hook, while the book is copied or the symbol
\* stored, has no effect; push_back runs out of memory when the oldest event
\* is already gone.
update_failed(st) == {st} \cup (IF st.initialized THEN {make_room(st)} ELSE {})
=============================================================================
