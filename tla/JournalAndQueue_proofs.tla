------------------------ MODULE JournalAndQueue_proofs ------------------------
(***************************************************************************)
(* Proofs about the two classes that the engine's threads rely on: the     *)
(* order manager with its journal, and the blocking queue.                 *)
(*                                                                         *)
(* OrderManagerTxn.tla: the manager's containers stay consistent and every *)
(* operation can be rolled back exactly, for any number of orders, prices, *)
(* quantities and journalled steps.  Each method keeps a consistent        *)
(* manager consistent, and has an inverse (EngineState_proofs).  The       *)
(* inductive invariant says that the journal is a chain: entry n records a *)
(* step from the n-th saved manager to the next.  Undoing the last entry   *)
(* inverts the last link.                                                  *)
(*                                                                         *)
(* BlockingQueue, as QueueClients.tla uses it, loses no wakeup and pop's   *)
(* nullopt is final, for any finite number of producers and consumers and  *)
(* any number of values.  Its three properties together are inductive.     *)
(* The heart is counting: a step that leaves one more value, or one thread *)
(* fewer to look after the values, makes up for it or leaves no consumer   *)
(* asleep.                                                                 *)
(***************************************************************************)
EXTENDS OrderManagerTxn, QueueClients, EngineState_proofs, FiniteSetTheorems

-----------------------------------------------------------------------------
(***************************************************************************)
(* The inductive invariant.  That the last undo is exact is not inductive: *)
(* after it the entry below becomes the last one.  So every entry is       *)
(* related to the managers before and after the step it records.           *)
(***************************************************************************)
Step(m, entry, t) ==
  \/ \E o \in LimitOrder :
       /\ can_add_order(m, o)
       /\ entry = Added(o.order_id)
       /\ t = add_order(m, o)
  \/ \E id \in OrderId, executed \in Quantity :
       /\ has_order(m, id)
       /\ executed <= find_order(m, id).remaining_quantity
       /\ entry = Filled(id, find_order(m, id).remaining_quantity)
       /\ t = set_quantities(m, id, find_order(m, id).original_quantity,
                             find_order(m, id).remaining_quantity - executed)
  \/ \E id \in OrderId :
       /\ has_order(m, id)
       /\ entry = Removed(removal_of(m, id))
       /\ t = cancel_order(m, id)

ManagerAfter(n) == IF n = Len(journal) THEN manager ELSE saved[n + 1]

JournalRecordsSteps ==
  \A n \in 1 .. Len(journal) :
    /\ Consistent(saved[n])
    /\ Step(saved[n], journal[n], ManagerAfter(n))

TxnInv == TxnTypeOK /\ ManagerConsistent /\ JournalRecordsSteps

(***************************************************************************)
(* A recorded step leads from a consistent manager to a consistent one.    *)
(***************************************************************************)
LEMMA StepConsistent ==
  ASSUME NEW m \in Manager, Consistent(m), NEW entry, NEW t, Step(m, entry, t)
  PROVE  entry \in Entry /\ t \in Manager /\ Consistent(t)
<1>1. CASE \E o \in LimitOrder :
             /\ can_add_order(m, o)
             /\ entry = Added(o.order_id)
             /\ t = add_order(m, o)
  <2>1. PICK o \in LimitOrder :
             /\ can_add_order(m, o)
             /\ entry = Added(o.order_id)
             /\ t = add_order(m, o)
    BY Zenon, <1>1
  <2>2. t \in Manager /\ Consistent(t)
    BY Zenon, <2>1, AddOrderType, AddOrderConsistent
  <2>3. o.order_id \in OrderId
    BY Zenon DEF LimitOrder
  <2>4. entry \in Entry
    BY Zenon, <2>1, <2>3 DEF Entry, Added
  <2> QED BY Zenon, <2>2, <2>4
<1>2. CASE \E id \in OrderId, executed \in Quantity :
             /\ has_order(m, id)
             /\ executed <= find_order(m, id).remaining_quantity
             /\ entry = Filled(id, find_order(m, id).remaining_quantity)
             /\ t = set_quantities(m, id, find_order(m, id).original_quantity,
                                   find_order(m, id).remaining_quantity - executed)
  <2>1. PICK id \in OrderId, executed \in Quantity :
             /\ has_order(m, id)
             /\ executed <= find_order(m, id).remaining_quantity
             /\ entry = Filled(id, find_order(m, id).remaining_quantity)
             /\ t = set_quantities(m, id, find_order(m, id).original_quantity,
                                   find_order(m, id).remaining_quantity - executed)
    BY Zenon, <1>2
  <2> DEFINE o == find_order(m, id)
  <2>2. o.original_quantity \in Quantity /\ o.remaining_quantity \in 0 .. MaxQuantity
    BY Zenon, <2>1, FindOrder DEF Consistent, LimitOrder
  <2>3. /\ o.remaining_quantity \in Quantity
        /\ o.remaining_quantity - executed \in 0 .. MaxQuantity
    BY <2>1, <2>2, MarketAssumption DEF Quantity
  <2>4. QuantitiesSet(m, id, o.original_quantity, o.remaining_quantity - executed, t)
    <3> HIDE DEF o
    <3> QED BY Zenon, <2>1, <2>2, <2>3, SetQuantities DEF o
  <2>5. t \in Manager /\ Consistent(t)
    BY Zenon, <2>4 DEF QuantitiesSet
  <2>6. entry \in Entry
    BY Zenon, <2>1, <2>3 DEF Entry, Filled
  <2> QED BY Zenon, <2>5, <2>6
<1>3. CASE \E id \in OrderId :
             /\ has_order(m, id)
             /\ entry = Removed(removal_of(m, id))
             /\ t = cancel_order(m, id)
  <2>1. PICK id \in OrderId :
             /\ has_order(m, id)
             /\ entry = Removed(removal_of(m, id))
             /\ t = cancel_order(m, id)
    BY Zenon, <1>3
  <2>2. t \in Manager /\ Consistent(t)
    BY Zenon, <2>1, CancelOrderType, CancelOrderConsistent DEF Consistent
  <2>3. removal_of(m, id) \in Removal
    BY Zenon, <2>1, RestoreInvertsCancel
  <2>4. entry \in Entry
    BY Zenon, <2>1, <2>3 DEF Entry, Removed
  <2> QED BY Zenon, <2>2, <2>4
<1> QED BY Zenon, <1>1, <1>2, <1>3 DEF Step

(***************************************************************************)
(* undo is the inverse of the step its entry records, and the checks of    *)
(* restore_removal accept the record.                                      *)
(***************************************************************************)
LEMMA UndoStep ==
  ASSUME NEW m \in Manager, Consistent(m), NEW entry, NEW t, Step(m, entry, t)
  PROVE  /\ undo(t, entry) = m
         /\ entry.kind = "removed" => restorable(t, entry.removal)
<1>1. CASE \E o \in LimitOrder :
             /\ can_add_order(m, o)
             /\ entry = Added(o.order_id)
             /\ t = add_order(m, o)
  <2>1. PICK o \in LimitOrder :
             /\ can_add_order(m, o)
             /\ entry = Added(o.order_id)
             /\ t = add_order(m, o)
    BY Zenon, <1>1
  <2>2. entry.kind = "added" /\ entry.order_id = o.order_id
    BY Zenon, <2>1 DEF Added
  <2>3. undo(t, entry) = cancel_order(t, o.order_id)
    BY Zenon, <2>2 DEF undo
  <2> QED BY Zenon, <2>1, <2>2, <2>3, CancelInvertsAdd
<1>2. CASE \E id \in OrderId, executed \in Quantity :
             /\ has_order(m, id)
             /\ executed <= find_order(m, id).remaining_quantity
             /\ entry = Filled(id, find_order(m, id).remaining_quantity)
             /\ t = set_quantities(m, id, find_order(m, id).original_quantity,
                                   find_order(m, id).remaining_quantity - executed)
  <2>1. PICK id \in OrderId, executed \in Quantity :
             /\ has_order(m, id)
             /\ executed <= find_order(m, id).remaining_quantity
             /\ entry = Filled(id, find_order(m, id).remaining_quantity)
             /\ t = set_quantities(m, id, find_order(m, id).original_quantity,
                                   find_order(m, id).remaining_quantity - executed)
    BY Zenon, <1>2
  <2> DEFINE o == find_order(m, id)
  <2>2. /\ entry.kind = "filled"
        /\ entry.order_id = id
        /\ entry.original_remaining_quantity = o.remaining_quantity
    BY Zenon, <2>1 DEF Filled
  <2>3. undo(t, entry) = set_quantities(t, id, find_order(t, id).original_quantity,
                                        o.remaining_quantity)
    BY Zenon, <2>2 DEF undo
  <2>4. o.remaining_quantity - executed \in 0 .. MaxQuantity
    BY <2>1, FindOrder, MarketAssumption DEF Consistent, LimitOrder, Quantity
  <2>5. undo(t, entry) = m
    BY Zenon, <2>1, <2>3, <2>4, FillUndone
  <2> QED BY Zenon, <2>2, <2>5
<1>3. CASE \E id \in OrderId :
             /\ has_order(m, id)
             /\ entry = Removed(removal_of(m, id))
             /\ t = cancel_order(m, id)
  <2>1. PICK id \in OrderId :
             /\ has_order(m, id)
             /\ entry = Removed(removal_of(m, id))
             /\ t = cancel_order(m, id)
    BY Zenon, <1>3
  <2>2. entry.kind = "removed" /\ entry.removal = removal_of(m, id)
    BY Zenon, <2>1 DEF Removed
  <2>3. undo(t, entry) = restore_removal(t, removal_of(m, id))
    BY Zenon, <2>2 DEF undo
  <2> QED BY Zenon, <2>1, <2>2, <2>3, RestoreInvertsCancel
<1> QED BY Zenon, <1>1, <1>2, <1>3 DEF Step

-----------------------------------------------------------------------------
\* An empty manager with an empty journal satisfies the invariant.
LEMMA TxnInitInv == TxnInit => TxnInv
<1> SUFFICES ASSUME TxnInit PROVE TxnInv
  BY Zenon
<1>1. NoOrders \in Manager
  BY DEF NoOrders, Manager
<1>2. Consistent(NoOrders)
  BY DEF NoOrders, Consistent, IndexConsistent, PriorityConsistent, has_order
<1> QED
  BY <1>1, <1>2 DEF TxnInit, TxnInv, TxnTypeOK, ManagerConsistent, JournalRecordsSteps

(***************************************************************************)
(* A journalled step keeps the invariant: the chain grows by one link.     *)
(***************************************************************************)
LEMMA JournalledInv ==
  ASSUME TxnInv, NEW entry, Journalled(entry), Step(manager, entry, manager')
  PROVE  TxnInv'
<1>1. /\ manager \in Manager /\ Consistent(manager)
      /\ journal \in Seq(Entry)
      /\ saved \in Seq(Manager)
      /\ Len(saved) = Len(journal)
      /\ Len(journal) \in Nat
  BY DEF TxnInv, TxnTypeOK, ManagerConsistent
<1>2. entry \in Entry /\ manager' \in Manager /\ Consistent(manager')
  BY Zenon, <1>1, StepConsistent
<1>3. /\ journal' = Append(journal, entry)
      /\ saved' = Append(saved, manager)
  BY Zenon DEF Journalled
<1>4. /\ journal' \in Seq(Entry)
      /\ saved' \in Seq(Manager)
      /\ Len(journal') = Len(journal) + 1
      /\ Len(saved') = Len(saved) + 1
      /\ \A n \in 1 .. Len(journal) : journal'[n] = journal[n] /\ saved'[n] = saved[n]
      /\ journal'[Len(journal) + 1] = entry
      /\ saved'[Len(journal) + 1] = manager
  BY <1>1, <1>2, <1>3
<1>5. ASSUME NEW n \in 1 .. Len(journal')
      PROVE  Consistent(saved'[n]) /\ Step(saved'[n], journal'[n], ManagerAfter(n)')
  <2>1. CASE n = Len(journal) + 1
    BY Zenon, <1>4, <2>1, <1>1 DEF ManagerAfter
  <2>2. CASE n \in 1 .. Len(journal)
    <3>1. ManagerAfter(n)' = ManagerAfter(n)
      BY <1>1, <1>4, <2>2 DEF ManagerAfter
    <3>2. Consistent(saved[n]) /\ Step(saved[n], journal[n], ManagerAfter(n))
      BY Zenon, <2>2 DEF TxnInv, JournalRecordsSteps
    <3>3. saved'[n] = saved[n] /\ journal'[n] = journal[n]
      BY Zenon, <1>4, <2>2
    <3> QED BY Zenon, <3>1, <3>2, <3>3
  <2> QED BY <1>1, <1>4, <2>1, <2>2
<1>6. JournalRecordsSteps'
  BY Zenon, <1>5 DEF JournalRecordsSteps
<1>7. TxnTypeOK'
  BY Zenon, <1>1, <1>2, <1>4 DEF TxnTypeOK
<1> QED BY Zenon, <1>2, <1>6, <1>7 DEF TxnInv, ManagerConsistent

(***************************************************************************)
(* Undoing the last entry: the manager is the one saved before it, so the  *)
(* shorter chain ends in the manager again.                                *)
(***************************************************************************)
LEMMA LastUndo ==
  ASSUME TxnInv, journal # <<>>
  PROVE  /\ Len(journal) \in 1 .. Len(journal)
         /\ Len(saved) = Len(journal)
         /\ saved[Len(saved)] \in Manager
         /\ Consistent(saved[Len(saved)])
         /\ undo(manager, journal[Len(journal)]) = saved[Len(saved)]
         /\ journal[Len(journal)].kind = "removed"
              => restorable(manager, journal[Len(journal)].removal)
<1> DEFINE n == Len(journal)
<1>1. /\ manager \in Manager
      /\ journal \in Seq(Entry)
      /\ saved \in Seq(Manager)
      /\ Len(saved) = n
      /\ n \in Nat
  BY DEF TxnInv, TxnTypeOK
<1>2. n \in 1 .. n
  BY <1>1
<1>3. saved[n] \in Manager
  BY <1>1, <1>2
<1>4. Consistent(saved[n]) /\ Step(saved[n], journal[n], manager)
  BY Zenon, <1>2 DEF TxnInv, JournalRecordsSteps, ManagerAfter
<1>5. /\ undo(manager, journal[n]) = saved[n]
      /\ journal[n].kind = "removed" => restorable(manager, journal[n].removal)
  BY Zenon, <1>3, <1>4, UndoStep
<1> QED BY Zenon, <1>1, <1>2, <1>3, <1>4, <1>5

\* Undoing the last entry keeps the invariant.
LEMMA UndoLastInv ==
  ASSUME TxnInv, UndoLast
  PROVE  TxnInv'
<1>1. /\ manager \in Manager
      /\ journal \in Seq(Entry)
      /\ saved \in Seq(Manager)
      /\ Len(saved) = Len(journal)
      /\ Len(journal) \in Nat
  BY DEF TxnInv, TxnTypeOK
<1>2. /\ journal # <<>>
      /\ journal' = SubSeq(journal, 1, Len(journal) - 1)
      /\ saved' = SubSeq(saved, 1, Len(journal) - 1)
      /\ manager' = undo(manager, journal[Len(journal)])
  BY Zenon, <1>1 DEF UndoLast
<1>3. /\ manager' = saved[Len(journal)]
      /\ manager' \in Manager
      /\ Consistent(manager')
      /\ Len(journal) \in 1 .. Len(journal)
  BY Zenon, <1>2, LastUndo
<1>4. /\ journal' \in Seq(Entry)
      /\ saved' \in Seq(Manager)
      /\ Len(journal') = Len(journal) - 1
      /\ Len(saved') = Len(journal) - 1
      /\ \A n \in 1 .. Len(journal) - 1 :
           journal'[n] = journal[n] /\ saved'[n] = saved[n]
  BY <1>1, <1>2, <1>3
<1>5. ASSUME NEW n \in 1 .. Len(journal')
      PROVE  Consistent(saved'[n]) /\ Step(saved'[n], journal'[n], ManagerAfter(n)')
  <2>1. n \in 1 .. Len(journal) /\ n # Len(journal) /\ n \in 1 .. Len(journal) - 1
    BY <1>1, <1>4
  <2>2. ManagerAfter(n)' = ManagerAfter(n)
    BY <2>1, <1>1, <1>3, <1>4 DEF ManagerAfter
  <2>3. Consistent(saved[n]) /\ Step(saved[n], journal[n], ManagerAfter(n))
    BY Zenon, <2>1 DEF TxnInv, JournalRecordsSteps
  <2>4. saved'[n] = saved[n] /\ journal'[n] = journal[n]
    BY Zenon, <1>4, <2>1
  <2> QED BY Zenon, <2>2, <2>3, <2>4
<1>6. JournalRecordsSteps'
  BY Zenon, <1>5 DEF JournalRecordsSteps
<1>7. TxnTypeOK'
  BY Zenon, <1>3, <1>4 DEF TxnTypeOK
<1> QED BY Zenon, <1>3, <1>6, <1>7 DEF TxnInv, ManagerConsistent

(***************************************************************************)
(* Steps taken while no operation is in progress need no journal.          *)
(***************************************************************************)
LEMMA IdleInv ==
  ASSUME TxnInv, journal' = <<>>, saved' = <<>>,
         manager' \in Manager, Consistent(manager')
  PROVE  TxnInv'
  BY DEF TxnInv, TxnTypeOK, ManagerConsistent, JournalRecordsSteps

\* A stuttering step keeps the invariant.
LEMMA UnchangedInv ==
  ASSUME TxnInv, UNCHANGED txnVars
  PROVE  TxnInv'
  BY Zenon DEF TxnInv, TxnTypeOK, ManagerConsistent, JournalRecordsSteps, ManagerAfter, txnVars

\* Every step of an operation, of its end or of a rollback keeps it.
LEMMA TxnNextInv == TxnInv /\ [TxnNext]_txnVars => TxnInv'
<1> SUFFICES ASSUME TxnInv, [TxnNext]_txnVars PROVE TxnInv'
  BY Zenon
<1>1. /\ manager \in Manager /\ Consistent(manager)
      /\ saved \in Seq(Manager)
      /\ Len(saved) = Len(journal)
  BY Zenon DEF TxnInv, TxnTypeOK, ManagerConsistent
<1>2. Idle => saved = <<>>
  BY <1>1 DEF Idle
<1>3. ASSUME NEW o \in LimitOrder, AddOrder(o)
      PROVE  TxnInv'
  BY Zenon, <1>3, JournalledInv DEF AddOrder, Step
<1>4. ASSUME NEW o \in LimitOrder, NEW added \in BOOLEAN, AddOrderFails(o, added)
      PROVE  TxnInv'
  BY Zenon, <1>1, <1>4, FailedAddUnchanged, UnchangedInv DEF AddOrderFails, txnVars
<1>5. ASSUME NEW id \in OrderId, NEW executed \in Quantity, FillOrder(id, executed)
      PROVE  TxnInv'
  <2> DEFINE o == find_order(manager, id)
             entry == Filled(id, o.remaining_quantity)
  <2>1. /\ has_order(manager, id)
        /\ executed <= o.remaining_quantity
        /\ Journalled(entry)
        /\ manager' = set_quantities(manager, id, o.original_quantity,
                                     o.remaining_quantity - executed)
    BY Zenon, <1>5 DEF FillOrder
  <2>2. Step(manager, entry, manager')
    BY Zenon, <2>1 DEF Step
  <2> HIDE DEF entry
  <2> QED BY Zenon, <2>1, <2>2, JournalledInv
<1>6. ASSUME NEW id \in OrderId, RemoveOrder(id)
      PROVE  TxnInv'
  BY Zenon, <1>6, JournalledInv DEF RemoveOrder, Step
<1>7. ASSUME NEW id \in OrderId, CancelOrder(id)
      PROVE  TxnInv'
  <2>1. manager' \in Manager /\ Consistent(manager')
    BY Zenon, <1>1, <1>7, CancelOrderType, CancelOrderConsistent DEF CancelOrder, Consistent
  <2> QED BY Zenon, <1>2, <1>7, <2>1, IdleInv DEF CancelOrder, Idle
<1>8. ASSUME NEW id \in OrderId, NEW seq \in SequenceNumber,
             UpdateSequenceNumber(id, seq)
      PROVE  TxnInv'
  BY Zenon, <1>1, <1>8, UpdateSequenceNumberConsistent, <1>2, IdleInv
     DEF UpdateSequenceNumber, Idle
<1>9. CASE UndoLast
  BY Zenon, <1>9, UndoLastInv
<1>10. CASE Commit
  BY Zenon, <1>1, <1>10, IdleInv DEF Commit
<1>11. CASE UNCHANGED txnVars
  BY Zenon, <1>11, UnchangedInv
<1> QED
  BY Zenon, <1>3, <1>4, <1>5, <1>6, <1>7, <1>8, <1>9, <1>10, <1>11 DEF TxnNext

\* The induction that the four theorems share.
LEMMA TxnInvariance == TxnSpec => []TxnInv
  BY TxnInitInv, TxnNextInv, PTL DEF TxnSpec

(***************************************************************************)
(* Whatever the engine does with its OrderManager, every container keeps   *)
(* the type the class gives it.                                            *)
(***************************************************************************)
THEOREM TxnTypeCorrect == TxnSpec => []TxnTypeOK
<1>1. TxnInv => TxnTypeOK
  BY Zenon DEF TxnInv
<1> QED BY <1>1, TxnInvariance, PTL

(***************************************************************************)
(* For any number of orders and any journal length, the vector, the id     *)
(* index and the two priority sets describe the same orders after every    *)
(* add, failed add, fill, removal, sequence update and undo.               *)
(***************************************************************************)
THEOREM IndexesStayConsistent == TxnSpec => []ManagerConsistent
<1>1. TxnInv => ManagerConsistent
  BY Zenon DEF TxnInv
<1> QED BY <1>1, TxnInvariance, PTL

(***************************************************************************)
(* A rollback in the engine never meets a std::logic_error of              *)
(* restore_removal, however many swaps the operation made before it.       *)
(***************************************************************************)
THEOREM RollbackIsNeverRefused == TxnSpec => []RestoreNeverRefused
<1>1. TxnInv => RestoreNeverRefused
  <2> SUFFICES ASSUME TxnInv, NEW n \in 1 .. Len(journal),
                      n = Len(journal), journal[n].kind = "removed"
               PROVE  restorable(manager, journal[n].removal)
    BY Zenon DEF RestoreNeverRefused
  <2>1. journal # <<>>
    OBVIOUS
  <2> QED BY Zenon, <2>1, LastUndo
<1> QED BY <1>1, TxnInvariance, PTL

(***************************************************************************)
(* Undoing the last journalled step gives back the very manager before it, *)
(* positions in the vector included: a rolled back operation is invisible. *)
(***************************************************************************)
THEOREM RollbackIsExact == TxnSpec => []UndoIsExact
<1>1. TxnInv => UndoIsExact
  BY Zenon, LastUndo DEF UndoIsExact
<1> QED BY <1>1, TxnInvariance, PTL

-----------------------------------------------------------------------------
(* The blocking queue                                                      *)

QueueInv == ClientsTypeOK /\ NoLostWakeup /\ EndIsFinal

\* A thread has one role: it is not a producer and a consumer, or a closer.
LEMMA ThreadRoles ==
  /\ \A p \in Producers : p \notin Consumers /\ p \notin Closers /\ p \in Threads
  /\ \A c \in Consumers : c \notin Producers /\ c \notin Closers /\ c \in Threads
  /\ \A k \in Closers : k \notin Producers /\ k \notin Consumers /\ k \in Threads
BY Zenon, ThreadsAssumption DEF Threads

\* The threads that look after values can be counted.
LEMMA Countable ==
  /\ IsFiniteSet(Notifying) /\ Cardinality(Notifying) \in Nat
  /\ IsFiniteSet(Popping) /\ Cardinality(Popping) \in Nat
<1>1. Notifying \in SUBSET Producers /\ Popping \in SUBSET Consumers
  BY Zenon DEF Notifying, Popping
<1>2. IsFiniteSet(Notifying) /\ IsFiniteSet(Popping)
  BY Zenon, <1>1, ThreadsAssumption, FS_Subset
<1> QED
  BY Zenon, <1>2, FS_CardinalityType

\* The same for the next state.
LEMMA CountableNext ==
  /\ IsFiniteSet(Notifying') /\ Cardinality(Notifying') \in Nat
  /\ IsFiniteSet(Popping') /\ Cardinality(Popping') \in Nat
<1>1. Notifying' \in SUBSET Producers /\ Popping' \in SUBSET Consumers
  BY Zenon DEF Notifying, Popping
<1>2. IsFiniteSet(Notifying') /\ IsFiniteSet(Popping')
  BY Zenon, <1>1, ThreadsAssumption, FS_Subset
<1> QED
  BY Zenon, <1>2, FS_CardinalityType

\* Before any call the queue is empty, open and unused.
LEMMA QueueInitInv == ClientsInit => QueueInv
<1> SUFFICES ASSUME ClientsInit PROVE QueueInv
  BY Zenon
<1> USE DEF ClientsInit, QueueInit
<1>1. ClientsTypeOK
  <2>1. queue \in Seq(Nat) /\ pushed \in Nat
    OBVIOUS
  <2>2. \A t \in Threads : at[t] = "outside"
    BY Zenon
  <2>3. at \in [Threads -> ProducerLabels \cup ConsumerLabels \cup CloserLabels]
    BY Zenon DEF ProducerLabels
  <2>4. closed \in BOOLEAN
    BY Zenon
  <2> QED
    BY Zenon, <2>1, <2>2, <2>3, <2>4, ThreadRoles DEF ClientsTypeOK, ProducerLabels, ConsumerLabels, CloserLabels
<1>2. Waiting = {}
  BY Zenon, ThreadRoles DEF Waiting
<1> QED
  BY Zenon, <1>1, <1>2 DEF QueueInv, NoLostWakeup, EndIsFinal

\* Types: every step takes its thread from one place of its method to the next.
LEMMA NextType == ClientsTypeOK /\ ClientsNext => ClientsTypeOK'
<1> SUFFICES ASSUME ClientsTypeOK, ClientsNext PROVE ClientsTypeOK'
  BY Zenon
<1> USE ThreadRoles DEF ClientsTypeOK, ProducerLabels, ConsumerLabels, CloserLabels, GoTo
<1>1. ASSUME NEW p \in Producers, Push(p) PROVE ClientsTypeOK'
  BY <1>1 DEF Push, push
<1>2. ASSUME NEW p \in Producers, push_refused(p), UNCHANGED <<pushed, ended>>
      PROVE ClientsTypeOK'
  BY Zenon, <1>2 DEF push_refused, queueVars
<1>3. ASSUME NEW p \in Producers, notify_one(p), UNCHANGED <<pushed, ended>>
      PROVE ClientsTypeOK'
  BY Zenon, <1>3 DEF notify_one, Waiting
<1>4. ASSUME NEW c \in Consumers, pop(c) \/ wait(c) \/ spurious_wakeup(c),
             UNCHANGED <<pushed, ended>>
      PROVE ClientsTypeOK'
  BY Zenon, <1>4 DEF pop, wait, spurious_wakeup
<1>5. ASSUME NEW c \in Consumers, pop_value(c), UNCHANGED <<pushed, ended>>
      PROVE ClientsTypeOK'
  BY <1>5 DEF pop_value
<1>6. ASSUME NEW c \in Consumers, try_pop(c), UNCHANGED <<pushed, ended>>
      PROVE ClientsTypeOK'
  BY <1>6 DEF try_pop
<1>7. ASSUME NEW c \in Consumers, PopNothing(c) PROVE ClientsTypeOK'
  BY Zenon, <1>7 DEF PopNothing, pop_nothing
<1>8. ASSUME NEW k \in Closers, close(k), UNCHANGED <<pushed, ended>> PROVE ClientsTypeOK'
  BY Zenon, <1>8 DEF close
<1>9. ASSUME NEW k \in Closers, notify_all(k), UNCHANGED <<pushed, ended>>
      PROVE ClientsTypeOK'
  BY Zenon, <1>9 DEF notify_all, Waiting
<1> QED
  BY Zenon, <1>1, <1>2, <1>3, <1>4, <1>5, <1>6, <1>7, <1>8, <1>9
  DEF ClientsNext, Begin, Continue, SpuriousWakeup, Threads

\* push: one more value, and one more producer about to notify.
LEMMA PushWakes ==
  ASSUME ClientsTypeOK, NoLostWakeup, NEW p \in Producers, Push(p)
  PROVE  NoLostWakeup'
<1> USE DEF Push, push, GoTo
<1>1. Waiting' = Waiting /\ Popping' = Popping
  BY Zenon, ThreadRoles DEF Waiting, Popping, ClientsTypeOK
<1>2. Notifying' = Notifying \cup {p} /\ p \notin Notifying
  BY Zenon, ThreadRoles DEF Notifying, ClientsTypeOK
<1>3. Cardinality(Notifying') = Cardinality(Notifying) + 1
  BY Zenon, <1>2, Countable, FS_AddElement
<1>4. Len(queue') = Len(queue) + 1
  BY DEF ClientsTypeOK
<1>5. Len(queue) \in Nat
  BY DEF ClientsTypeOK
<1> QED
  BY <1>1, <1>3, <1>4, <1>5, Countable DEF NoLostWakeup

\* notify_one: a producer less, a consumer more, or nobody sleeps.
LEMMA NotifyOneWakes ==
  ASSUME ClientsTypeOK, NoLostWakeup, NEW p \in Producers, notify_one(p)
  PROVE  NoLostWakeup'
<1> USE DEF notify_one, GoTo
<1>1. CASE Waiting = {} /\ GoTo(p, "outside")
  <2>1. Waiting' = {}
    BY Zenon, <1>1, ThreadRoles DEF Waiting, ClientsTypeOK
  <2> QED
    BY Zenon, <2>1 DEF NoLostWakeup
<1>2. ASSUME NEW c \in Waiting, at' = [at EXCEPT ![p] = "outside", ![c] = "popping"]
      PROVE  NoLostWakeup'
  <2>1. c \in Consumers /\ c # p /\ c \in Threads /\ p \in Threads /\ at[c] = "waiting"
    BY Zenon, ThreadRoles DEF Waiting
  <2>2. Popping' = Popping \cup {c} /\ c \notin Popping
    BY <1>2, <2>1, ThreadRoles DEF Popping, ClientsTypeOK
  <2>3. Notifying' = Notifying \ {p} /\ p \in Notifying
    BY Zenon, <1>2, <2>1, ThreadRoles DEF Notifying, ClientsTypeOK
  <2>4. Cardinality(Popping') = Cardinality(Popping) + 1
    BY Zenon, <2>2, Countable, FS_AddElement
  <2>5. Cardinality(Notifying') = Cardinality(Notifying) - 1
    BY Zenon, <2>3, Countable, FS_RemoveElement
  <2>6. \A k \in Closers : at'[k] = at[k]
    BY <1>2, <2>1, ThreadRoles DEF ClientsTypeOK
  <2>7. Waiting # {} /\ queue' = queue /\ closed' = closed /\ Len(queue) \in Nat
    BY DEF ClientsTypeOK
  <2> QED
    BY <2>4, <2>5, <2>6, <2>7, Countable, CountableNext DEF NoLostWakeup
<1> QED
  BY Zenon, <1>1, <1>2

\* A consumer that begins to pop, or wakes up for no reason, is one more to
\* look after the values.
LEMMA AwakeWakes ==
  ASSUME ClientsTypeOK, NoLostWakeup, NEW c \in Consumers, pop(c) \/ spurious_wakeup(c)
  PROVE  NoLostWakeup'
<1> USE DEF pop, spurious_wakeup, GoTo
<1>1. Waiting' \subseteq Waiting /\ Notifying' = Notifying
  BY Zenon, ThreadRoles DEF Waiting, Notifying, ClientsTypeOK
<1>2. Popping' = Popping \cup {c} /\ c \notin Popping
  BY Zenon, ThreadRoles DEF Popping, ClientsTypeOK
<1>3. Cardinality(Popping') = Cardinality(Popping) + 1
  BY Zenon, <1>2, Countable, FS_AddElement
<1>4. \A k \in Closers : at'[k] = at[k]
  BY Zenon, ThreadRoles DEF ClientsTypeOK
<1>5. queue' = queue /\ closed' = closed /\ Len(queue) \in Nat
  BY DEF ClientsTypeOK
<1> QED
  BY <1>1, <1>3, <1>4, <1>5, Countable DEF NoLostWakeup

\* pop takes a value: a value less and a consumer less.
LEMMA PopValueWakes ==
  ASSUME ClientsTypeOK, NoLostWakeup, NEW c \in Consumers, pop_value(c)
  PROVE  NoLostWakeup'
<1> USE DEF pop_value, GoTo
<1>1. Waiting' = Waiting /\ Notifying' = Notifying
  BY Zenon, ThreadRoles DEF Waiting, Notifying, ClientsTypeOK
<1>2. Popping' = Popping \ {c} /\ c \in Popping
  BY Zenon, ThreadRoles DEF Popping, ClientsTypeOK
<1>3. Cardinality(Popping') = Cardinality(Popping) - 1
  BY Zenon, <1>2, Countable, FS_RemoveElement
<1>4. \A k \in Closers : at'[k] = at[k]
  BY Zenon, ThreadRoles DEF ClientsTypeOK
<1>5. Len(queue') = Len(queue) - 1 /\ Len(queue) \in Nat /\ closed' = closed
  BY DEF ClientsTypeOK
<1> QED
  BY <1>1, <1>3, <1>4, <1>5, Countable, CountableNext DEF NoLostWakeup

\* A consumer falls asleep, or ends, at an empty queue only; and asleep only
\* at an open one.
LEMMA EmptyQueueWakes ==
  ASSUME ClientsTypeOK, NoLostWakeup, NEW c \in Consumers, wait(c) \/ pop_nothing(c)
  PROVE  NoLostWakeup'
<1> USE DEF wait, pop_nothing, GoTo
<1>1. Len(queue') = 0
  OBVIOUS
<1>2. \A k \in Closers : at'[k] = at[k]
  BY Zenon, ThreadRoles DEF ClientsTypeOK
<1>3. CASE wait(c)
  BY <1>1, <1>3, CountableNext DEF NoLostWakeup
<1>4. CASE pop_nothing(c)
  <2>1. Waiting' = Waiting
    BY Zenon, <1>4, ThreadRoles DEF Waiting, ClientsTypeOK
  <2> QED
    BY <1>1, <1>2, <1>4, <2>1, CountableNext DEF NoLostWakeup
<1> QED
  BY Zenon, <1>3, <1>4

\* try_pop only makes the queue shorter.
LEMMA TryPopWakes ==
  ASSUME ClientsTypeOK, NoLostWakeup, NEW c \in Consumers, try_pop(c)
  PROVE  NoLostWakeup'
<1>1. Waiting' = Waiting /\ Notifying' = Notifying /\ Popping' = Popping
  BY Zenon DEF try_pop, Waiting, Notifying, Popping
<1>2. Len(queue') <= Len(queue) /\ Len(queue) \in Nat /\ Len(queue') \in Nat
  BY DEF try_pop, ClientsTypeOK
<1> QED
  BY <1>1, <1>2, Countable DEF try_pop, NoLostWakeup

\* close leaves its own thread about to notify all; a second close does nothing.
LEMMA CloseWakes ==
  ASSUME ClientsTypeOK, NoLostWakeup, NEW k \in Closers, close(k)
  PROVE  NoLostWakeup'
<1> USE DEF close, GoTo
<1>1. Waiting' = Waiting /\ Notifying' = Notifying /\ Popping' = Popping
  BY Zenon, ThreadRoles DEF Waiting, Notifying, Popping, ClientsTypeOK
<1>2. ~ closed => at'[k] = "notify_all"
  BY Zenon, ThreadRoles DEF ClientsTypeOK
<1>3. closed => at' = at
  BY Zenon
<1> QED
  BY Zenon, <1>1, <1>2, <1>3 DEF NoLostWakeup

\* notify_all leaves nobody asleep.
LEMMA NotifyAllWakes ==
  ASSUME ClientsTypeOK, NoLostWakeup, NEW k \in Closers, notify_all(k)
  PROVE  NoLostWakeup'
<1>1. Waiting' = {}
  BY Zenon, ThreadRoles DEF notify_all, Waiting
<1> QED
  BY Zenon, <1>1 DEF NoLostWakeup

\* The invariant is inductive.
LEMMA QueueNextInv == QueueInv /\ [ClientsNext]_allVars => QueueInv'
<1> SUFFICES ASSUME QueueInv, [ClientsNext]_allVars PROVE QueueInv'
  BY Zenon
<1>1. CASE UNCHANGED allVars
  <2>1. ClientsTypeOK'
    BY Zenon, <1>1 DEF QueueInv, ClientsTypeOK, allVars
  <2>2. Waiting' = Waiting /\ Notifying' = Notifying /\ Popping' = Popping
    BY Zenon, <1>1 DEF allVars, Waiting, Notifying, Popping
  <2> QED
    BY Zenon, <1>1, <2>1, <2>2 DEF QueueInv, NoLostWakeup, EndIsFinal, allVars
<1>2. CASE ClientsNext
  <2>1. ClientsTypeOK'
    BY Zenon, <1>2, NextType DEF QueueInv
  <2>2. NoLostWakeup'
    <3>1. ASSUME NEW p \in Producers, push_refused(p) PROVE NoLostWakeup'
      BY Zenon, <3>1 DEF push_refused, queueVars, QueueInv, NoLostWakeup, Waiting, Notifying, Popping
    <3> QED
      BY Zenon, <1>2, <3>1, PushWakes, NotifyOneWakes, AwakeWakes, PopValueWakes,
         EmptyQueueWakes, TryPopWakes, CloseWakes, NotifyAllWakes
      DEF QueueInv, ClientsNext, Begin, Continue, SpuriousWakeup, PopNothing
  <2>3. EndIsFinal'
    <3>1. ASSUME NEW t \in Threads, Begin(t) PROVE EndIsFinal'
      BY Zenon, <3>1 DEF QueueInv, EndIsFinal, Begin, Push, push, push_refused, queueVars, pop, try_pop,
                  close
    <3>2. ASSUME NEW t \in Threads, Continue(t) PROVE EndIsFinal'
      BY Zenon, <3>2 DEF QueueInv, EndIsFinal, Continue, notify_one, pop_value, wait, PopNothing,
                  pop_nothing, notify_all
    <3>3. ASSUME NEW c \in Consumers, SpuriousWakeup(c) PROVE EndIsFinal'
      BY Zenon, <3>3 DEF QueueInv, EndIsFinal, SpuriousWakeup, spurious_wakeup
    <3> QED
      BY Zenon, <1>2, <3>1, <3>2, <3>3 DEF ClientsNext
  <2> QED
    BY Zenon, <2>1, <2>2, <2>3 DEF QueueInv
<1> QED
  BY Zenon, <1>1, <1>2

\* The induction that the theorems below share.
LEMMA QueueInvariance == ClientsSpec => []QueueInv
BY QueueInitInv, QueueNextInv, PTL DEF ClientsSpec

\* Every thread that uses a BlockingQueue is at a place of its own method.
THEOREM QueueTypeCorrect == ClientsSpec => []ClientsTypeOK
BY QueueInvariance, PTL DEF QueueInv

\* push and close notify after they release the mutex, and still no value and
\* no close is missed by a sleeping consumer.
THEOREM NoWakeupIsLost == ClientsSpec => []NoLostWakeup
BY QueueInvariance, PTL DEF QueueInv

\* A consumer may stop at the first nullopt that pop returns: nothing is left
\* and nothing will come.
THEOREM NulloptIsFinal == ClientsSpec => []EndIsFinal
BY QueueInvariance, PTL DEF QueueInv
=============================================================================
