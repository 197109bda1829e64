------------------------ MODULE OFIObservableOrderBook ------------------------
(***************************************************************************)
(* OFIObservableOrderBook (include/ofi_observable_order_book.hpp): every   *)
(* change of the book is followed by a capture of it.  The change is not   *)
(* taken back when the capture throws; the caller gets the exception.      *)
(* The thread that owns the object makes all calls.                        *)
(***************************************************************************)
EXTENDS BookObserver

CONSTANTS
  ObservedSnapshots,   \* books that replace_snapshot loads
  Touched,             \* sides and prices of the levels that change one by one
  MaxCaptures          \* bound on the snapshots since the symbol was cleared

ASSUME ObservableAssumption ==
  /\ ObservedSnapshots \subseteq Book
  /\ Touched \subseteq Side \X BookPrice
  /\ MaxCaptures \in Nat

VARIABLES
  captured,   \* history: the snapshots that ofi_ has accepted
  missed      \* history: whether the last capture threw

\* The engine has no part in it, and nothing is kept of failures.
bystanders == <<manager, store, next_order_id, next_sequence_number, pc, op,
                remaining, mutations, before, analytics_healthy>>

ObservableInit ==
  /\ captured = <<>>
  /\ missed = TRUE

observed(b) ==
  /\ Len(captured) < MaxCaptures
  /\ capture(b)
  /\ captured' = Append(captured, snapshot_of(b))
  /\ missed' = FALSE

unobserved(b) ==
  /\ capture_throws(b)
  /\ missed' = TRUE
  /\ UNCHANGED captured

Changed(b) == levels' = b /\ (observed(b) \/ unobserved(b))

initialize_observable == Changed(levels)

\* update_bid and update_ask
update_side(side, price, quantity) == Changed(update_level(levels, side, price, quantity))

\* adjust_bid and adjust_ask
adjust_side(side, price, delta) ==
  /\ can_adjust(levels, side, price, delta)
  /\ Changed(adjust_level(levels, side, price, delta))

observable_replace_snapshot(b) == Changed(b)

\* ofi_ is shared: its owner may drop the symbol at any time.
clear_symbol ==
  /\ state' = NewSymbolState(state.window_size)
  /\ captured' = <<>>
  /\ missed' = TRUE
  /\ UNCHANGED levels

ObservableNext ==
  /\ \/ initialize_observable
     \/ \E <<side, price>> \in Touched :
          \/ \E quantity \in LevelQuantity : update_side(side, price, quantity)
          \/ \E delta \in -MaxQuantity .. MaxQuantity : adjust_side(side, price, delta)
     \/ \E b \in ObservedSnapshots : observable_replace_snapshot(b)
     \/ clear_symbol
  /\ UNCHANGED bystanders

-----------------------------------------------------------------------------
(* Properties                                                              *)

\* The order flow imbalance of two successive quotes, in the form in which it
\* is usually given: what is bid at or above the old bid, less what was bid
\* at or above the new one, and the reverse for the asks.  A side without a
\* quote is infinitely far away.
ReferenceOFI(old, new) ==
  LET AtLeast(side, a, b) ==
        \/ b.quantity = 0
        \/ a.quantity > 0 /\ ~ Better(side, b.price_ticks, a.price_ticks)
      Pressure(side) ==
        (IF AtLeast(side, new[side], old[side]) THEN new[side].quantity ELSE 0)
          - (IF AtLeast(side, old[side], new[side]) THEN old[side].quantity ELSE 0)
  IN  Pressure("Buy") - Pressure("Sell")

Sum(seq) == FoldLeft(LAMBDA a, b : a + b, 0, seq)

ReferenceEvents ==
  [i \in 1 .. Len(captured) - 1 |-> ReferenceOFI(captured[i], captured[i + 1])]

\* Whatever failed in between, the window holds the imbalances of the last
\* snapshots that were accepted, without gap, and the total is their sum.
WindowFollowsSnapshots ==
  deployment = "observable" =>
    /\ IsSuffix(state.events, ReferenceEvents)
    /\ state.rolling_total = Sum(state.events)
    /\ state.events # <<>> => state.latest_event = Last(ReferenceEvents)

\* Part of OFIInStep: a call that returns normally leaves OFI comparing with the book as it is
\* now, also when earlier calls changed the book and threw.
InStepAfterSuccess ==
  ~ missed => state.initialized /\ state.previous = snapshot_of(levels)
=============================================================================
