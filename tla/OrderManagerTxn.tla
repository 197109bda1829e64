--------------------------- MODULE OrderManagerTxn ---------------------------
(***************************************************************************)
(* How MatchingEngine drives its OrderManager inside one operation: it     *)
(* fills and removes resting orders, may add one order, and keeps what it  *)
(* needs to take every step back (OrderMutation, OrderManager::Removal and *)
(* the flags incoming_order_added and modified_order_added in              *)
(* src/matching_engine.cpp).  An operation that fails undoes its steps,    *)
(* last step first, and one that succeeds drops the journal.  An           *)
(* OrderMutation whose order was filled and removed is two entries here.   *)
(*                                                                         *)
(* saved is a history variable: saved[n] is the manager before the n-th    *)
(* journalled step.  The code has no such copy, it relies on the journal.  *)
(***************************************************************************)
EXTENDS OrderManager

CONSTANT MaxJournal   \* bound on the steps of one operation

ASSUME MaxJournalAssumption == MaxJournal \in Nat

VARIABLES
  manager,    \* order_manager_
  journal,    \* what the operation in progress has to undo
  saved       \* the managers before those steps

txnVars == <<manager, journal, saved>>

\* A journal entry: an order that was added, the quantity a resting order had
\* before its fill, or the record of a removal.
Added(id) == [kind |-> "added", order_id |-> id]
Filled(id, remaining) ==
  [kind |-> "filled", order_id |-> id, original_remaining_quantity |-> remaining]
Removed(removal) == [kind |-> "removed", removal |-> removal]

Entry ==
  [kind : {"added"}, order_id : OrderId]
    \cup [kind : {"filled"}, order_id : OrderId,
          original_remaining_quantity : Quantity]
    \cup [kind : {"removed"}, removal : Removal]

Idle == journal = <<>>

Journalled(entry) ==
  /\ Len(journal) < MaxJournal
  /\ journal' = Append(journal, entry)
  /\ saved' = Append(saved, manager)

\* The rest of the order list is left alone once the operation has added its
\* own order: adding is the last thing an operation does.
NothingAdded == \A n \in 1 .. Len(journal) : journal[n].kind # "added"

TxnInit ==
  /\ manager = NoOrders
  /\ journal = <<>>
  /\ saved = <<>>

-----------------------------------------------------------------------------
(* Steps of an operation                                                   *)

AddOrder(o) ==
  /\ can_add_order(manager, o)
  /\ NothingAdded
  /\ Journalled(Added(o.order_id))
  /\ manager' = add_order(manager, o)

\* add_order runs out of memory; the exception is what makes the engine undo.
AddOrderFails(o, id_index_added) ==
  /\ can_add_order(manager, o)
  /\ NothingAdded
  /\ manager' = add_order_failed(manager, o, id_index_added)
  /\ UNCHANGED <<journal, saved>>

\* resting_order->remaining_quantity -= executed_quantity
FillOrder(id, executed) ==
  /\ NothingAdded
  /\ has_order(manager, id)
  /\ LET o == find_order(manager, id)
     IN  /\ executed <= o.remaining_quantity
         /\ Journalled(Filled(id, o.remaining_quantity))
         /\ manager' = set_quantities(manager, id, o.original_quantity,
                                      o.remaining_quantity - executed)

\* cancel_order(id, removal): a filled order, or the original of a modified one
RemoveOrder(id) ==
  /\ NothingAdded
  /\ has_order(manager, id)
  /\ Journalled(Removed(removal_of(manager, id)))
  /\ manager' = cancel_order(manager, id)

-----------------------------------------------------------------------------
(* Ends of an operation                                                    *)

undo(m, entry) ==
  CASE entry.kind = "added"   -> cancel_order(m, entry.order_id)
    [] entry.kind = "filled"  ->
         set_quantities(m, entry.order_id,
                        find_order(m, entry.order_id).original_quantity,
                        entry.original_remaining_quantity)
    [] entry.kind = "removed" -> restore_removal(m, entry.removal)

UndoLast ==
  /\ journal # <<>>
  /\ manager' = undo(manager, journal[Len(journal)])
  /\ journal' = SubSeq(journal, 1, Len(journal) - 1)
  /\ saved' = SubSeq(saved, 1, Len(saved) - 1)

\* An operation never ends with a filled order still in the manager.
Commit ==
  /\ journal # <<>>
  /\ \A i \in 1 .. Len(manager.orders) : manager.orders[i].remaining_quantity > 0
  /\ journal' = <<>>
  /\ saved' = <<>>
  /\ UNCHANGED manager

-----------------------------------------------------------------------------
(* Operations without a journal                                            *)

CancelOrder(id) ==
  /\ Idle
  /\ has_order(manager, id)
  /\ manager' = cancel_order(manager, id)
  /\ UNCHANGED <<journal, saved>>

UpdateSequenceNumber(id, seq) ==
  /\ Idle
  /\ has_order(manager, id)
  /\ find_order(manager, id).sequence_number # seq
  /\ manager' = update_sequence_number(manager, id, seq)
  /\ UNCHANGED <<journal, saved>>

TxnNext ==
  \/ \E o \in LimitOrder :
       \/ AddOrder(o)
       \/ \E added \in BOOLEAN : AddOrderFails(o, added)
  \/ \E id \in OrderId :
       \/ \E q \in Quantity : FillOrder(id, q)
       \/ RemoveOrder(id)
       \/ CancelOrder(id)
       \/ \E seq \in SequenceNumber : UpdateSequenceNumber(id, seq)
  \/ UndoLast
  \/ Commit

TxnSpec == TxnInit /\ [][TxnNext]_txnVars
-----------------------------------------------------------------------------
(* Properties                                                              *)

\* Every variable holds a value of its C++ type.
TxnTypeOK ==
  /\ manager \in Manager
  /\ journal \in Seq(Entry)
  /\ saved \in Seq(Manager)
  /\ Len(saved) = Len(journal)

\* The vector, the id index and both priority sets describe the same orders
\* after every step: also half-way through an operation, after a failed
\* add_order, and after any number of undone steps.
ManagerConsistent == Consistent(manager)

\* None of the std::logic_error checks of restore_removal can fire when an
\* operation is rolled back.
RestoreNeverRefused ==
  \A n \in 1 .. Len(journal) :
    n = Len(journal) /\ journal[n].kind = "removed"
      => restorable(manager, journal[n].removal)

\* Undoing the last step gives back exactly the manager before it: the same
\* orders at the same vector positions, the same indexes.  restore_removal
\* has to reverse a swap with whatever order was last at the time.
UndoIsExact ==
  journal # <<>> => undo(manager, journal[Len(journal)]) = saved[Len(saved)]
=============================================================================
