-------------------------- MODULE EngineState_proofs --------------------------
(***************************************************************************)
(* Lemmas about the values that the matching engine works on, for any      *)
(* number of orders, prices and quantities.                                *)
(*                                                                         *)
(* Each method of the order manager keeps a consistent manager consistent, *)
(* and restore_removal inverts cancel_order, cancel_order inverts          *)
(* add_order and the old quantity inverts a fill.  The quantity at a price *)
(* follows the orders, the first key of a side is its best order, the book *)
(* and the trade store change as their methods say, and an entry of the    *)
(* journal undoes the fill it was made for.  Nothing here mentions a       *)
(* variable: the proofs about the engine, its rollback and the order       *)
(* manager's transaction rest on these lemmas.                             *)
(***************************************************************************)
EXTENDS OrderManager, PriceLevels, TradeStore, WellFoundedInduction, TLAPS

(***************************************************************************)
(* Vectors as sequences.                                                   *)
(***************************************************************************)
\* A function on the positions 1 .. n is a sequence of that length (what
\* cancel_order builds).
LEMMA PositionsMakeSequence ==
  ASSUME NEW S, NEW n \in Nat, NEW f \in [1 .. n -> S]
  PROVE  f \in Seq(S) /\ Len(f) = n
OBVIOUS

\* Vectors of equal size with equal elements are equal (what the inverse of a
\* method has to show of orders_).
LEMMA SequencesAgree ==
  ASSUME NEW S, NEW r \in Seq(S), NEW s \in Seq(S), Len(s) = Len(r),
         \A i \in 1 .. Len(r) : s[i] = r[i]
  PROVE  s = r
OBVIOUS

(***************************************************************************)
(* What the fields of a manager are.                                       *)
(***************************************************************************)
LEMMA ManagerFields ==
  ASSUME NEW m \in Manager
  PROVE  /\ m.orders \in Seq(LimitOrder)
         /\ Len(m.orders) \in Nat
         /\ m.order_indices \in [OrderId -> Nat]
         /\ m.priority_index \in [Side -> SUBSET PriorityKey]
         /\ \A i \in 1 .. Len(m.orders) :
              /\ m.orders[i] \in LimitOrder
              /\ m.orders[i].order_id \in OrderId
              /\ m.orders[i].side \in Side
<1>1. /\ m.orders \in Seq(LimitOrder)
      /\ m.order_indices \in [OrderId -> Nat]
      /\ m.priority_index \in [Side -> SUBSET PriorityKey]
  BY Zenon DEF Manager
<1>2. \A i \in 1 .. Len(m.orders) : m.orders[i] \in LimitOrder
  BY <1>1
<1>3. \A o \in LimitOrder : o.order_id \in OrderId /\ o.side \in Side
  BY Zenon DEF LimitOrder
<1> QED BY <1>1, <1>2, <1>3

\* make_priority_key builds a key of the priority sets.
LEMMA KeyType ==
  ASSUME NEW o \in LimitOrder
  PROVE  make_priority_key(o) \in PriorityKey
  BY Zenon DEF LimitOrder, PriorityKey, make_priority_key

(***************************************************************************)
(* add_order                                                               *)
(***************************************************************************)
\* add_order yields a manager.
LEMMA AddOrderType ==
  ASSUME NEW m \in Manager, NEW o \in LimitOrder
  PROVE  add_order(m, o) \in Manager
  BY ManagerFields, KeyType DEF Manager, add_order, LimitOrder

\* add_order gives the new order the next position and its side's key.
LEMMA AddOrderConsistent ==
  ASSUME NEW m \in Manager, NEW o \in LimitOrder, Consistent(m),
         can_add_order(m, o)
  PROVE  Consistent(add_order(m, o))
<1> DEFINE t == add_order(m, o)
<1>1. /\ Len(t.orders) = Len(m.orders) + 1
      /\ t.orders[Len(m.orders) + 1] = o
      /\ \A i \in 1 .. Len(m.orders) : t.orders[i] = m.orders[i]
  BY ManagerFields DEF add_order
<1>2. /\ o.order_id \in OrderId
      /\ o.side \in Side
  BY Zenon DEF LimitOrder
<1>3. IndexConsistent(t)
  BY <1>1, <1>2, ManagerFields
     DEF IndexConsistent, Consistent, can_add_order, has_order, add_order
<1>4. PriorityConsistent(t)
  <2>1. ASSUME NEW i \in 1 .. Len(t.orders)
        PROVE  make_priority_key(t.orders[i]) \in t.priority_index[t.orders[i].side]
    <3>1. CASE i = Len(m.orders) + 1
      BY Zenon, <1>1, <1>2, <3>1, ManagerFields DEF add_order
    <3>2. CASE i \in 1 .. Len(m.orders)
      BY Zenon, <1>1, <3>2, ManagerFields, <1>2
         DEF Consistent, PriorityConsistent, add_order
    <3> QED BY <1>1, <2>1, <3>1, <3>2, ManagerFields
  <2>2. ASSUME NEW s \in Side, NEW k \in t.priority_index[s]
        PROVE  /\ has_order(t, k.order_id)
               /\ find_order(t, k.order_id).side = s
               /\ make_priority_key(find_order(t, k.order_id)) = k
    <3>1. CASE s = o.side /\ k = make_priority_key(o)
      BY <1>1, <1>2, <3>1, ManagerFields
         DEF make_priority_key, has_order, find_order, add_order
    <3>2. CASE k \in m.priority_index[s]
      <4>1. /\ k.order_id \in OrderId
            /\ has_order(m, k.order_id)
            /\ find_order(m, k.order_id).side = s
            /\ make_priority_key(find_order(m, k.order_id)) = k
            /\ m.order_indices[k.order_id] \in 1 .. Len(m.orders)
            /\ k.order_id # o.order_id
        BY <3>2, ManagerFields DEF Consistent, PriorityConsistent, IndexConsistent,
           PriorityKey, can_add_order
      <4> QED
        BY Zenon, <1>1, <1>2, <4>1, ManagerFields DEF has_order, find_order, add_order
    <3> QED
      BY Zenon, <1>2, <3>1, <3>2, ManagerFields DEF add_order
  <2> QED BY Zenon, <2>1, <2>2 DEF PriorityConsistent
<1> QED BY Zenon, <1>3, <1>4 DEF Consistent

(***************************************************************************)
(* cancel_order                                                            *)
(***************************************************************************)
\* find_order finds the order with the id it was asked for.
LEMMA FindOrder ==
  ASSUME NEW m \in Manager, IndexConsistent(m), NEW id \in OrderId, has_order(m, id)
  PROVE  /\ m.order_indices[id] \in 1 .. Len(m.orders)
         /\ find_order(m, id) = m.orders[m.order_indices[id]]
         /\ find_order(m, id) \in LimitOrder
         /\ find_order(m, id).order_id = id
         /\ find_order(m, id).side \in Side
  BY Zenon, ManagerFields DEF IndexConsistent, find_order

\* cancel_order yields a manager.
LEMMA CancelOrderType ==
  ASSUME NEW m \in Manager, IndexConsistent(m), NEW id \in OrderId, has_order(m, id)
  PROVE  /\ cancel_order(m, id) \in Manager
         /\ Len(cancel_order(m, id).orders) = Len(m.orders) - 1
         /\ \A i \in 1 .. Len(m.orders) - 1 :
              cancel_order(m, id).orders[i] =
                IF i = m.order_indices[id] THEN m.orders[Len(m.orders)]
                                           ELSE m.orders[i]
<1> DEFINE t == cancel_order(m, id)
           index == m.order_indices[id]
           last == Len(m.orders)
<1>1. /\ index \in 1 .. last
      /\ last \in Nat \ {0}
  BY FindOrder, ManagerFields
<1>2. t.orders = [i \in 1 .. last - 1 |->
                    IF i = index THEN m.orders[last] ELSE m.orders[i]]
  BY Zenon DEF cancel_order
<1>3. /\ t.orders \in Seq(LimitOrder)
      /\ Len(t.orders) = last - 1
  BY <1>1, <1>2, ManagerFields, PositionsMakeSequence
<1>4. t.order_indices \in [OrderId -> Nat]
  BY Zenon, <1>1, ManagerFields DEF cancel_order
<1>5. t.priority_index \in [Side -> SUBSET PriorityKey]
  BY Zenon, ManagerFields DEF cancel_order
<1>6. t = [orders |-> t.orders, order_indices |-> t.order_indices,
           priority_index |-> t.priority_index]
  BY Zenon DEF cancel_order
<1>7. t \in Manager
  BY Zenon, <1>3, <1>4, <1>5, <1>6 DEF Manager
<1> QED BY Zenon, <1>2, <1>3, <1>7

\* cancel_order reindexes the order it moves into the gap.
LEMMA CancelOrderConsistent ==
  ASSUME NEW m \in Manager, Consistent(m), NEW id \in OrderId, has_order(m, id)
  PROVE  Consistent(cancel_order(m, id))
<1> DEFINE t == cancel_order(m, id)
           index == m.order_indices[id]
           last == Len(m.orders)
           gone == m.orders[index]
           moved == m.orders[last]
           At(j) == m.order_indices[j]
<1>1. IndexConsistent(m) /\ PriorityConsistent(m)
  BY Zenon DEF Consistent
<1>2. /\ last \in Nat
      /\ \A i \in 1 .. last :
           /\ m.orders[i].order_id \in OrderId
           /\ m.orders[i].side \in Side
           /\ At(m.orders[i].order_id) = i
           /\ make_priority_key(m.orders[i]) \in m.priority_index[m.orders[i].side]
  BY Zenon, <1>1, ManagerFields DEF IndexConsistent, PriorityConsistent
<1>3. \A j \in OrderId : At(j) # 0 => At(j) \in 1 .. last /\ m.orders[At(j)].order_id = j
  BY Zenon, <1>1 DEF IndexConsistent, has_order
<1>4. \A s \in Side : \A k \in m.priority_index[s] :
        /\ k.order_id \in OrderId
        /\ At(k.order_id) # 0
        /\ m.orders[At(k.order_id)].side = s
        /\ make_priority_key(m.orders[At(k.order_id)]) = k
  BY <1>1, ManagerFields DEF PriorityConsistent, PriorityKey, has_order, find_order
<1>5. /\ index = At(id) /\ gone = m.orders[index] /\ moved = m.orders[last]
      /\ index \in 1 .. last /\ gone.order_id = id
  BY Zenon, <1>3 DEF has_order
<1>6. /\ Len(t.orders) = last - 1
      /\ \A i \in 1 .. last - 1 : t.orders[i] = IF i = index THEN moved ELSE m.orders[i]
  BY Zenon, <1>1, CancelOrderType
<1>7. \A j \in OrderId : t.order_indices[j] =
        IF j = id THEN 0
        ELSE IF index # last /\ j = moved.order_id THEN index ELSE At(j)
  BY Zenon DEF cancel_order
<1>8. t.priority_index = [m.priority_index EXCEPT
                            ![gone.side] = @ \ {make_priority_key(gone)}]
  BY Zenon DEF cancel_order
<1>9. m.priority_index \in [Side -> SUBSET PriorityKey]
  BY Zenon, ManagerFields
<1> HIDE DEF t, index, last, gone, moved, At
<1>10. \A s \in Side : t.priority_index[s] =
         IF s = gone.side THEN m.priority_index[s] \ {make_priority_key(gone)}
                          ELSE m.priority_index[s]
  BY Zenon, <1>8, <1>9
<1>11. last \in 1 .. last /\ At(moved.order_id) = last /\ moved.order_id \in OrderId
  BY <1>2, <1>5
<1>12. IndexConsistent(t)
  <2>1. ASSUME NEW i \in 1 .. last - 1
        PROVE  t.order_indices[t.orders[i].order_id] = i
    <3>1. CASE i = index
      <4>1. t.orders[i] = moved /\ index # last
        BY <1>2, <1>6, <3>1
      <4>2. moved.order_id # id
        BY Zenon, <1>5, <1>11, <4>1
      <4> QED BY Zenon, <1>7, <1>11, <3>1, <4>1, <4>2
    <3>2. CASE i # index
      <4>1. t.orders[i] = m.orders[i] /\ i \in 1 .. last /\ i # last
        BY <1>2, <1>6, <3>2
      <4>2. m.orders[i].order_id \in OrderId /\ At(m.orders[i].order_id) = i
        BY Zenon, <1>2, <4>1
      <4>3. m.orders[i].order_id # id /\ m.orders[i].order_id # moved.order_id
        BY Zenon, <1>5, <1>11, <3>2, <4>1, <4>2
      <4> QED BY Zenon, <1>7, <4>1, <4>2, <4>3
    <3> QED BY Zenon, <3>1, <3>2
  <2>2. ASSUME NEW j \in OrderId, t.order_indices[j] # 0
        PROVE  /\ t.order_indices[j] \in 1 .. last - 1
               /\ t.orders[t.order_indices[j]].order_id = j
    <3>1. j # id
      BY Zenon, <1>7, <2>2
    <3>2. CASE index # last /\ j = moved.order_id
      <4>1. t.order_indices[j] = index /\ index \in 1 .. last - 1
        BY <1>2, <1>5, <1>7, <3>1, <3>2
      <4> QED BY Zenon, <1>6, <3>2, <4>1
    <3>3. CASE ~ (index # last /\ j = moved.order_id)
      <4>1. t.order_indices[j] = At(j)
        BY Zenon, <1>7, <3>1, <3>3
      <4>2. At(j) \in 1 .. last /\ m.orders[At(j)].order_id = j
        BY Zenon, <1>3, <2>2, <4>1
      <4>3. At(j) # index /\ At(j) # last
        BY Zenon, <1>5, <3>1, <3>3, <4>2
      <4>4. At(j) \in 1 .. last - 1
        BY <1>2, <4>2, <4>3
      <4> QED BY Zenon, <1>6, <4>1, <4>2, <4>3, <4>4
    <3> QED BY Zenon, <3>2, <3>3
  <2> QED BY Zenon, <1>6, <2>1, <2>2 DEF IndexConsistent, has_order
<1>13. PriorityConsistent(t)
  <2>1. ASSUME NEW i \in 1 .. last - 1
        PROVE  make_priority_key(t.orders[i]) \in t.priority_index[t.orders[i].side]
    <3>1. PICK n \in 1 .. last : n # index /\ t.orders[i] = m.orders[n]
      <4>1. CASE i = index
        BY <1>2, <1>5, <1>6, <1>11, <4>1
      <4>2. CASE i # index
        BY <1>2, <1>6, <4>2
      <4> QED BY Zenon, <4>1, <4>2
    <3>2. m.orders[n].order_id # id
      BY Zenon, <1>2, <1>5, <3>1
    <3>3. make_priority_key(m.orders[n]) # make_priority_key(gone)
      BY Zenon, <1>5, <3>2 DEF make_priority_key
    <3>4. /\ m.orders[n].side \in Side
          /\ make_priority_key(m.orders[n]) \in m.priority_index[m.orders[n].side]
      BY Zenon, <1>2
    <3> QED BY Zenon, <1>10, <3>1, <3>3, <3>4
  <2>2. ASSUME NEW s \in Side, NEW k \in t.priority_index[s]
        PROVE  /\ t.order_indices[k.order_id] # 0
               /\ t.orders[t.order_indices[k.order_id]].side = s
               /\ make_priority_key(t.orders[t.order_indices[k.order_id]]) = k
    <3> DEFINE n == At(k.order_id)
    <3>1. k \in m.priority_index[s]
      BY Zenon, <1>10
    <3>2. /\ k.order_id \in OrderId /\ n # 0 /\ m.orders[n].side = s
          /\ make_priority_key(m.orders[n]) = k
      BY Zenon, <1>4, <3>1
    <3>3. n \in 1 .. last /\ m.orders[n].order_id = k.order_id
      BY Zenon, <1>3, <3>2
    <3> HIDE DEF n
    <3>4. k.order_id # id
      <4> SUFFICES ASSUME k.order_id = id PROVE FALSE
        BY Zenon
      <4>1. n = index
        BY Zenon, <1>5 DEF n
      <4>2. k = make_priority_key(gone) /\ s = gone.side
        BY Zenon, <1>5, <3>2, <4>1
      <4> QED BY Zenon, <1>10, <4>2
    <3>5. n # index
      BY Zenon, <1>5, <3>3, <3>4
    <3>6. CASE n = last
      <4>1. k.order_id = moved.order_id /\ index # last
        BY Zenon, <1>5, <3>3, <3>5, <3>6
      <4>2. t.order_indices[k.order_id] = index
        BY Zenon, <1>7, <3>2, <3>4, <4>1
      <4>3. index \in 1 .. last - 1
        BY <1>2, <1>5, <4>1
      <4>4. t.orders[index] = m.orders[n]
        BY Zenon, <1>5, <1>6, <3>6, <4>3
      <4>5. index # 0
        BY <1>2, <4>3
      <4> QED BY Zenon, <3>2, <4>2, <4>4, <4>5
    <3>7. CASE n # last
      <4>1. k.order_id # moved.order_id
        BY Zenon, <1>11, <3>7 DEF n
      <4>2. t.order_indices[k.order_id] = n
        BY Zenon, <1>7, <3>2, <3>4, <4>1 DEF n
      <4>3. n \in 1 .. last - 1
        BY <1>2, <3>3, <3>7
      <4>4. t.orders[n] = m.orders[n]
        BY Zenon, <1>6, <3>5, <4>3
      <4> QED BY Zenon, <3>2, <4>2, <4>4
    <3> QED BY Zenon, <3>6, <3>7
  <2> QED BY Zenon, <1>6, <2>1, <2>2 DEF PriorityConsistent, has_order, find_order
<1> QED BY Zenon, <1>12, <1>13 DEF Consistent, t

\* Two managers are equal when their three containers are.
LEMMA ManagerEqual ==
  ASSUME NEW m \in Manager, NEW t \in Manager,
         Len(t.orders) = Len(m.orders),
         \A i \in 1 .. Len(m.orders) : t.orders[i] = m.orders[i],
         \A j \in OrderId : t.order_indices[j] = m.order_indices[j],
         \A s \in Side : t.priority_index[s] = m.priority_index[s]
  PROVE  t = m
<1>1. t.orders = m.orders
  BY Zenon, ManagerFields, SequencesAgree
<1>2. t.order_indices = m.order_indices
  BY ManagerFields
<1>3. t.priority_index = m.priority_index
  BY ManagerFields
<1> QED BY <1>1, <1>2, <1>3 DEF Manager

(***************************************************************************)
(* restore_removal is the inverse of the cancel_order that made the record. *)
(***************************************************************************)
LEMMA RestoreInvertsCancel ==
  ASSUME NEW m \in Manager, Consistent(m), NEW id \in OrderId, has_order(m, id)
  PROVE  /\ removal_of(m, id) \in Removal
         /\ restorable(cancel_order(m, id), removal_of(m, id))
         /\ restore_removal(cancel_order(m, id), removal_of(m, id)) = m
<1> DEFINE t == cancel_order(m, id)
           r == removal_of(m, id)
           u == restore_removal(t, r)
           index == m.order_indices[id]
           last == Len(m.orders)
           gone == m.orders[index]
           moved == m.orders[last]
           key == make_priority_key(gone)
<1>1. IndexConsistent(m) /\ PriorityConsistent(m)
  BY Zenon DEF Consistent
<1>2. /\ index \in 1 .. last /\ last \in Nat
      /\ gone \in LimitOrder /\ gone.order_id = id /\ gone.side \in Side
      /\ key \in m.priority_index[gone.side]
  BY Zenon, <1>1, FindOrder, ManagerFields DEF PriorityConsistent, find_order
<1>3. /\ moved.order_id \in OrderId
      /\ m.order_indices[moved.order_id] = last
  <2>1. last \in 1 .. last
    BY <1>2
  <2> QED BY Zenon, <1>1, <2>1, ManagerFields DEF IndexConsistent
<1>4. /\ Len(t.orders) = last - 1
      /\ \A i \in 1 .. last - 1 : t.orders[i] = IF i = index THEN moved ELSE m.orders[i]
  BY Zenon, <1>1, CancelOrderType
<1>5. \A j \in OrderId : t.order_indices[j] =
        IF j = id THEN 0
        ELSE IF index # last /\ j = moved.order_id THEN index
        ELSE m.order_indices[j]
  BY Zenon DEF cancel_order
<1>6. t.priority_index = [m.priority_index EXCEPT ![gone.side] = @ \ {key}]
  BY Zenon DEF cancel_order
<1>7. /\ r.removed_order = gone
      /\ r.original_index = index
      /\ r.priority_key = key
      /\ index # last => r.swapped /\ r.swapped_order_id = moved.order_id
      /\ index = last => ~ r.swapped
  BY Zenon DEF removal_of
<1>8. r \in Removal
  BY <1>2, <1>3, KeyType DEF Removal, removal_of
<1>9. /\ m.orders \in Seq(LimitOrder) /\ last = Len(m.orders)
      /\ m.orders[index] = gone /\ m.orders[last] = moved /\ m.order_indices[id] = index
      /\ m.order_indices \in [OrderId -> Nat]
      /\ m.priority_index \in [Side -> SUBSET PriorityKey]
  BY Zenon, ManagerFields
<1>10. u = [orders         |-> u.orders,
            order_indices  |-> u.order_indices,
            priority_index |-> u.priority_index]
  BY Zenon DEF restore_removal
<1> HIDE DEF t, r, index, last, gone, moved, key
<1>11. last - 1 \in Nat /\ Len(t.orders) + 1 = last /\ last \in 1 .. last
  BY <1>2, <1>4
<1>12. restorable(t, r)
  <2>1. ~ has_order(t, id) /\ key \notin t.priority_index[gone.side]
    BY <1>2, <1>5, <1>6, <1>9 DEF has_order
  <2>2. CASE index # last
    <3>1. index \in 1 .. Len(t.orders)
      BY <1>2, <1>4, <2>2
    <3>2. t.orders[index].order_id = moved.order_id
      BY Zenon, <1>4, <3>1
    <3>3. moved.order_id # id
      BY Zenon, <1>3, <1>9, <2>2
    <3>4. has_order(t, moved.order_id)
      BY <1>2, <1>3, <1>5, <2>2, <3>3 DEF has_order
    <3> QED BY <1>2, <1>7, <2>1, <2>2, <3>1, <3>2, <3>4, Zenon DEF restorable
  <2>3. CASE index = last
    BY <1>2, <1>7, <2>1, <2>3, Zenon DEF restorable
  <2> QED BY Zenon, <2>2, <2>3
<1>13. u.orders = m.orders
  <2>1. m.orders = [i \in 1 .. last |-> m.orders[i]]
    BY <1>9
  <2>2. CASE index # last
    <3>1. u.orders = [i \in 1 .. last |->
            IF i = index THEN gone
            ELSE IF i = last THEN t.orders[index] ELSE t.orders[i]]
      BY <1>7, <1>11, <2>2, Zenon DEF restore_removal
    <3>2. \A i \in 1 .. last : i # index /\ i # last => t.orders[i] = m.orders[i]
      BY <1>2, <1>4
    <3>3. t.orders[index] = m.orders[last]
      BY <1>2, <1>4, <1>9, <2>2
    <3> HIDE DEF u
    <3>4. \A i \in 1 .. last : u.orders[i] = m.orders[i]
      BY <1>9, <3>1, <3>2, <3>3
    <3> QED BY Zenon, <2>1, <3>1, <3>4
  <2>3. CASE index = last
    <3>1. u.orders = [i \in 1 .. last |-> IF i = last THEN gone ELSE t.orders[i]]
      BY <1>7, <1>11, <2>3, Zenon DEF restore_removal
    <3>2. \A i \in 1 .. last : i # last => t.orders[i] = m.orders[i]
      BY <1>2, <1>4, <2>3
    <3> HIDE DEF u
    <3>3. \A i \in 1 .. last : u.orders[i] = m.orders[i]
      BY <1>9, <2>3, <3>1, <3>2
    <3> QED BY Zenon, <2>1, <3>1, <3>3
  <2> QED BY Zenon, <2>2, <2>3
<1>14. u.order_indices = m.order_indices
  <2>1. CASE index # last
    <3>1. u.order_indices = [j \in OrderId |->
            IF j = moved.order_id THEN last
            ELSE IF j = id THEN index ELSE t.order_indices[j]]
      BY <1>2, <1>7, <1>11, <2>1, Zenon DEF restore_removal
    <3> HIDE DEF u
    <3>2. \A j \in OrderId : u.order_indices[j] = m.order_indices[j]
      BY <1>3, <1>5, <1>9, <2>1, <3>1
    <3> QED BY <1>9, <3>1, <3>2
  <2>2. CASE index = last
    <3>1. u.order_indices = [j \in OrderId |-> IF j = id THEN index ELSE t.order_indices[j]]
      BY <1>2, <1>7, <1>11, <2>2, Zenon DEF restore_removal
    <3> HIDE DEF u
    <3>2. \A j \in OrderId : u.order_indices[j] = m.order_indices[j]
      BY <1>5, <1>9, <2>2, <3>1
    <3> QED BY <1>9, <3>1, <3>2
  <2> QED BY Zenon, <2>1, <2>2
<1>15. u.priority_index = m.priority_index
  <2>1. u.priority_index = [t.priority_index EXCEPT ![gone.side] = @ \cup {key}]
    BY <1>7, Zenon DEF restore_removal
  <2>2. (m.priority_index[gone.side] \ {key}) \cup {key} = m.priority_index[gone.side]
    BY Zenon, <1>2
  <2> HIDE DEF u
  <2>3. \A s \in Side : u.priority_index[s] = m.priority_index[s]
    BY <1>2, <1>6, <1>9, <2>1, <2>2
  <2>4. u.priority_index = [s \in Side |-> u.priority_index[s]]
    BY Zenon, <1>6, <1>9, <2>1
  <2> QED BY Zenon, <1>9, <2>3, <2>4
<1>16. u = m
  <2> HIDE DEF u
  <2> QED BY Zenon, <1>10, <1>13, <1>14, <1>15 DEF Manager
<1> QED BY Zenon, <1>8, <1>12, <1>16 DEF t, r

(***************************************************************************)
(* Cancelling the order that was added last gives back the manager.        *)
(***************************************************************************)
LEMMA CancelInvertsAdd ==
  ASSUME NEW m \in Manager, Consistent(m), NEW o \in LimitOrder, can_add_order(m, o)
  PROVE  /\ has_order(add_order(m, o), o.order_id)
         /\ cancel_order(add_order(m, o), o.order_id) = m
<1> DEFINE t == add_order(m, o)
           last == Len(m.orders) + 1
           u == cancel_order(t, o.order_id)
<1>1. o.order_id \in OrderId /\ o.side \in Side
  BY Zenon DEF LimitOrder
<1>2. /\ t \in Manager
      /\ Len(t.orders) = last
      /\ last \in Nat \ {0}
      /\ t.orders[last] = o
      /\ \A i \in 1 .. Len(m.orders) : t.orders[i] = m.orders[i]
      /\ t.order_indices = [m.order_indices EXCEPT ![o.order_id] = last]
      /\ t.priority_index = [m.priority_index EXCEPT
                               ![o.side] = @ \cup {make_priority_key(o)}]
  BY ManagerFields, AddOrderType DEF add_order
<1>3. t.order_indices[o.order_id] = last
  BY <1>1, <1>2, ManagerFields
<1>4. m.order_indices[o.order_id] = 0
  BY Zenon DEF can_add_order, has_order
<1>5. make_priority_key(o) \notin m.priority_index[o.side]
  <2> SUFFICES ASSUME make_priority_key(o) \in m.priority_index[o.side]
               PROVE  FALSE
    BY Zenon
  <2>1. has_order(m, make_priority_key(o).order_id)
    BY Zenon, <1>1 DEF Consistent, PriorityConsistent
  <2> QED BY Zenon, <2>1 DEF can_add_order, make_priority_key
<1> HIDE DEF t
<1>6. u.orders = m.orders
  <2>1. u.orders = [i \in 1 .. last - 1 |->
                      IF i = last THEN t.orders[last] ELSE t.orders[i]]
    BY <1>2, <1>3 DEF cancel_order
  <2>2. last - 1 = Len(m.orders) /\ \A i \in 1 .. Len(m.orders) : i # last
    BY ManagerFields
  <2>3. m.orders = [i \in 1 .. Len(m.orders) |-> m.orders[i]]
    BY ManagerFields
  <2> HIDE DEF u, last
  <2>4. u.orders = [i \in 1 .. Len(m.orders) |-> u.orders[i]]
    BY Zenon, <2>1, <2>2
  <2>5. \A i \in 1 .. Len(m.orders) : u.orders[i] = m.orders[i]
    BY <1>2, <2>1, <2>2
  <2> QED BY <2>3, <2>4, <2>5, Zenon
<1>7. u.order_indices = m.order_indices
  <2>1. u.order_indices = [j \in OrderId |->
                             IF j = o.order_id THEN 0 ELSE t.order_indices[j]]
    BY <1>2, <1>3, Zenon DEF cancel_order
  <2>2. m.order_indices \in [OrderId -> Nat]
    BY Zenon, ManagerFields
  <2>3. \A j \in OrderId : u.order_indices[j] = m.order_indices[j]
    <3> HIDE DEF u, last
    <3> QED BY <1>2, <1>4, <2>1, <2>2
  <2>4. u.order_indices = [j \in OrderId |-> u.order_indices[j]]
    <3> HIDE DEF u
    <3> QED BY Zenon, <2>1
  <2> HIDE DEF u, last
  <2> QED BY Zenon, <2>2, <2>3, <2>4
<1>8. u.priority_index = m.priority_index
  <2> DEFINE key == make_priority_key(o)
             before == m.priority_index
  <2>1. u.priority_index = [t.priority_index EXCEPT ![o.side] = @ \ {key}]
    BY <1>2, <1>3, Zenon DEF cancel_order
  <2>2. (before[o.side] \cup {key}) \ {key} = before[o.side]
    BY Zenon, <1>5
  <2>3. t.priority_index = [before EXCEPT ![o.side] = @ \cup {key}]
    BY Zenon, <1>2
  <2>4. before \in [Side -> SUBSET PriorityKey]
    BY Zenon, ManagerFields
  <2> HIDE DEF u, key, before, last
  <2>5. \A s \in Side : u.priority_index[s] = before[s]
    BY <1>1, <2>1, <2>2, <2>3, <2>4
  <2>6. u.priority_index = [s \in Side |-> u.priority_index[s]]
    BY Zenon, <2>1, <2>3, <2>4
  <2>7. u.priority_index = before
    BY Zenon, <2>4, <2>5, <2>6
  <2> QED BY Zenon, <2>7 DEF before
<1>9. u = [orders |-> u.orders, order_indices |-> u.order_indices,
           priority_index |-> u.priority_index]
  BY Zenon DEF cancel_order
<1>10. u = m
  <2> HIDE DEF u
  <2> QED BY Zenon, <1>6, <1>7, <1>8, <1>9 DEF Manager
<1>11. has_order(t, o.order_id)
  BY Zenon, <1>2, <1>3 DEF has_order
<1> QED BY Zenon, <1>10, <1>11 DEF t

(***************************************************************************)
(* A failed add_order leaves the manager as it was.                        *)
(***************************************************************************)
LEMMA FailedAddUnchanged ==
  ASSUME NEW m \in Manager, NEW o \in LimitOrder, can_add_order(m, o),
         NEW id_index_added \in BOOLEAN
  PROVE  add_order_failed(m, o, id_index_added) = m
<1> DEFINE pushed == Append(m.orders, o)
           u == add_order_failed(m, o, id_index_added)
<1>1. SubSeq(pushed, 1, Len(pushed) - 1) = m.orders
  <2>1. /\ pushed \in Seq(LimitOrder)
        /\ Len(pushed) = Len(m.orders) + 1
        /\ \A i \in 1 .. Len(m.orders) : pushed[i] = m.orders[i]
    BY ManagerFields
  <2>2. Len(pushed) - 1 = Len(m.orders)
    BY <2>1, ManagerFields
  <2>3. SubSeq(pushed, 1, Len(m.orders)) \in Seq(LimitOrder)
    BY <2>1, ManagerFields
  <2>4. /\ Len(SubSeq(pushed, 1, Len(m.orders))) = Len(m.orders)
        /\ \A i \in 1 .. Len(m.orders) :
             SubSeq(pushed, 1, Len(m.orders))[i] = m.orders[i]
    BY <2>1, ManagerFields
  <2> HIDE DEF pushed
  <2> QED BY Zenon, <2>2, <2>3, <2>4, ManagerFields, SequencesAgree
<1>2. o.order_id \in OrderId /\ m.order_indices[o.order_id] = 0
  BY Zenon DEF LimitOrder, can_add_order, has_order
<1>3. u.orders = m.orders
  BY Zenon, <1>1 DEF add_order_failed
<1>4. u.order_indices = m.order_indices
  <2>1. CASE id_index_added
    <3>1. u.order_indices = [[m.order_indices EXCEPT ![o.order_id] = Len(pushed)]
                               EXCEPT ![o.order_id] = 0]
      BY <2>1, Zenon DEF add_order_failed
    <3> HIDE DEF u, pushed
    <3> QED BY Zenon, <1>2, <3>1, ManagerFields
  <2>2. CASE ~ id_index_added
    BY <2>2, Zenon DEF add_order_failed
  <2> QED BY Zenon, <2>1, <2>2
<1>5. u = [orders |-> u.orders, order_indices |-> u.order_indices,
           priority_index |-> m.priority_index]
  BY Zenon DEF add_order_failed
<1> HIDE DEF u
<1>6. u = m
  BY Zenon, <1>3, <1>4, <1>5 DEF Manager
<1> QED BY Zenon, <1>6 DEF u

(***************************************************************************)
(* Writing the quantities of one order, as the engine does through         *)
(* find_order, touches neither the indexes nor another order.              *)
(***************************************************************************)
QuantitiesSet(m, id, original, remaining, t) ==
  /\ t \in Manager
  /\ Consistent(t)
  /\ has_order(t, id)
  /\ Len(t.orders) = Len(m.orders)
  /\ t.order_indices = m.order_indices
  /\ t.priority_index = m.priority_index
  /\ find_order(t, id) =
       [order_id           |-> id,
        side               |-> find_order(m, id).side,
        price_ticks        |-> find_order(m, id).price_ticks,
        original_quantity  |-> original,
        remaining_quantity |-> remaining,
        sequence_number    |-> find_order(m, id).sequence_number]
  /\ \A i \in 1 .. Len(m.orders) :
       i # m.order_indices[id] => t.orders[i] = m.orders[i]

\* A write through find_order has that effect and keeps consistency.
LEMMA SetQuantities ==
  ASSUME NEW m \in Manager, Consistent(m), NEW id \in OrderId, has_order(m, id),
         NEW original \in Quantity, NEW remaining \in 0 .. MaxQuantity
  PROVE  QuantitiesSet(m, id, original, remaining,
                       set_quantities(m, id, original, remaining))
<1> DEFINE t == set_quantities(m, id, original, remaining)
           o == find_order(m, id)
           index == m.order_indices[id]
           updated == [order_id           |-> id,
                       side               |-> o.side,
                       price_ticks        |-> o.price_ticks,
                       original_quantity  |-> original,
                       remaining_quantity |-> remaining,
                       sequence_number    |-> o.sequence_number]
<1>1. IndexConsistent(m) /\ PriorityConsistent(m)
  BY Zenon DEF Consistent
<1>2. /\ index \in 1 .. Len(m.orders)
      /\ o = m.orders[index]
      /\ o \in LimitOrder
      /\ o.order_id = id
      /\ o.side \in Side
  BY Zenon, <1>1, FindOrder
<1>3. updated \in LimitOrder
  BY Zenon, <1>2 DEF LimitOrder
<1>4. /\ updated.order_id = id
      /\ updated.side = o.side
      /\ updated.original_quantity = original
      /\ make_priority_key(updated) = make_priority_key(o)
  BY Zenon, <1>2 DEF make_priority_key
<1>5. t = [orders         |-> [m.orders EXCEPT ![index] = updated],
           order_indices  |-> m.order_indices,
           priority_index |-> m.priority_index]
  BY Zenon, <1>2 DEF set_quantities, with_order, with_quantities
<1> HIDE DEF updated, t, o, index
<1>6. [m.orders EXCEPT ![index] = updated] \in Seq(LimitOrder)
  BY <1>2, <1>3, ManagerFields
<1>7. /\ t.orders \in Seq(LimitOrder)
      /\ Len(t.orders) = Len(m.orders)
      /\ t.orders[index] = updated
      /\ \A i \in 1 .. Len(m.orders) : i # index => t.orders[i] = m.orders[i]
      /\ t.order_indices = m.order_indices
      /\ t.priority_index = m.priority_index
  BY <1>2, <1>5, <1>6, ManagerFields
<1>8. t \in Manager
  BY Zenon, <1>5, <1>6, ManagerFields DEF Manager
<1>9. \A i \in 1 .. Len(m.orders) :
        /\ t.orders[i].order_id = m.orders[i].order_id
        /\ t.orders[i].side = m.orders[i].side
        /\ make_priority_key(t.orders[i]) = make_priority_key(m.orders[i])
  BY Zenon, <1>2, <1>4, <1>7
<1>10. IndexConsistent(t)
  BY SMTT(20), <1>1, <1>7, <1>9 DEF IndexConsistent, has_order
<1>11. PriorityConsistent(t)
  <2>1. \A i \in 1 .. Len(t.orders) :
          make_priority_key(t.orders[i]) \in t.priority_index[t.orders[i].side]
    BY <1>1, <1>7, <1>9 DEF PriorityConsistent
  <2>2. ASSUME NEW s \in Side, NEW k \in t.priority_index[s]
        PROVE  /\ has_order(t, k.order_id)
               /\ find_order(t, k.order_id).side = s
               /\ make_priority_key(find_order(t, k.order_id)) = k
    <3>1. /\ has_order(m, k.order_id)
          /\ find_order(m, k.order_id).side = s
          /\ make_priority_key(find_order(m, k.order_id)) = k
          /\ k.order_id \in OrderId
      BY <1>1, <1>7, ManagerFields DEF PriorityConsistent, PriorityKey
    <3>2. m.order_indices[k.order_id] \in 1 .. Len(m.orders)
      BY Zenon, <1>1, <3>1 DEF IndexConsistent
    <3> QED BY Zenon, <1>7, <1>9, <3>1, <3>2 DEF has_order, find_order
  <2> QED BY Zenon, <2>1, <2>2 DEF PriorityConsistent
<1>12. has_order(t, id) /\ find_order(t, id) = updated
  BY Zenon, <1>2, <1>7 DEF has_order, find_order, index
<1>13. Consistent(t)
  BY Zenon, <1>10, <1>11 DEF Consistent
<1> QED BY Zenon, <1>7, <1>8, <1>12, <1>13 DEF t, updated, o, index, QuantitiesSet

(***************************************************************************)
(* Writing back the quantities an order had gives back the manager.        *)
(***************************************************************************)
LEMMA FillUndone ==
  ASSUME NEW m \in Manager, Consistent(m), NEW id \in OrderId, has_order(m, id),
         NEW remaining \in 0 .. MaxQuantity
  PROVE  LET o == find_order(m, id)
             t == set_quantities(m, id, o.original_quantity, remaining)
         IN  set_quantities(t, id, find_order(t, id).original_quantity,
                            o.remaining_quantity) = m
<1> DEFINE o == find_order(m, id)
           t == set_quantities(m, id, o.original_quantity, remaining)
           u == set_quantities(t, id, find_order(t, id).original_quantity,
                               o.remaining_quantity)
<1>1. /\ IndexConsistent(m)
      /\ o \in LimitOrder
      /\ o.order_id = id
      /\ o.original_quantity \in Quantity
      /\ o.remaining_quantity \in 0 .. MaxQuantity
      /\ o = m.orders[m.order_indices[id]]
      /\ m.order_indices[id] \in 1 .. Len(m.orders)
  BY FindOrder DEF Consistent, LimitOrder
<1>2. QuantitiesSet(m, id, o.original_quantity, remaining, t)
  BY Zenon, <1>1, SetQuantities
<1> HIDE DEF t, o
<1>3. /\ find_order(t, id).original_quantity = o.original_quantity
      /\ find_order(t, id).side = o.side
      /\ find_order(t, id).price_ticks = o.price_ticks
      /\ find_order(t, id).sequence_number = o.sequence_number
  BY <1>2 DEF QuantitiesSet, o
<1>4. QuantitiesSet(t, id, o.original_quantity, o.remaining_quantity, u)
  <2>1. t \in Manager /\ Consistent(t) /\ has_order(t, id)
    BY Zenon, <1>2 DEF QuantitiesSet
  <2> QED BY Zenon, <1>1, <1>3, <2>1, SetQuantities
<1> HIDE DEF u
<1>5. u.orders[m.order_indices[id]] = o
  <2>1. o = [order_id           |-> id,
             side               |-> o.side,
             price_ticks        |-> o.price_ticks,
             original_quantity  |-> o.original_quantity,
             remaining_quantity |-> o.remaining_quantity,
             sequence_number    |-> o.sequence_number]
    BY Zenon, <1>1 DEF LimitOrder
  <2>2. find_order(u, id) = o
    BY Zenon, <1>3, <1>4, <2>1 DEF QuantitiesSet
  <2>3. u.order_indices = m.order_indices
    BY Zenon, <1>2, <1>4 DEF QuantitiesSet
  <2> QED BY Zenon, <2>2, <2>3 DEF find_order
<1>6. u = m
  <2>1. /\ u \in Manager
        /\ Len(u.orders) = Len(m.orders)
        /\ u.order_indices = m.order_indices
        /\ u.priority_index = m.priority_index
        /\ \A i \in 1 .. Len(m.orders) :
             i # m.order_indices[id] => u.orders[i] = m.orders[i]
    BY Zenon, <1>2, <1>4 DEF QuantitiesSet
  <2>2. \A i \in 1 .. Len(m.orders) : u.orders[i] = m.orders[i]
    BY Zenon, <1>1, <1>5, <2>1
  <2> QED BY Zenon, <2>1, <2>2, ManagerEqual
<1> QED BY Zenon, <1>6 DEF u, t, o

(***************************************************************************)
(* update_sequence_number moves one key of one priority set.               *)
(***************************************************************************)
\* An order is replaced by one with the same id and side, and its key by the
\* key of the new one.
OrderReplaced(m, id, updated, t) ==
  LET o   == find_order(m, id)
      old == make_priority_key(o)
      new == make_priority_key(updated)
  IN  /\ updated \in LimitOrder /\ updated.order_id = id /\ updated.side = o.side
      /\ new # old
      /\ t = [orders         |-> [m.orders EXCEPT ![m.order_indices[id]] = updated],
              order_indices  |-> m.order_indices,
              priority_index |-> [m.priority_index EXCEPT ![o.side] =
                                    (@ \cup {new}) \ {old}]]

\* Such a replacement keeps the containers consistent.
LEMMA ReplacementConsistent ==
  ASSUME NEW m \in Manager, Consistent(m), NEW id \in OrderId, has_order(m, id),
         NEW updated, NEW t, OrderReplaced(m, id, updated, t)
  PROVE  t \in Manager /\ Consistent(t)
<1> DEFINE last == Len(m.orders)
           At(j) == m.order_indices[j]
           index == m.order_indices[id]
           o == find_order(m, id)
           old == make_priority_key(o)
           new == make_priority_key(updated)
<1>1. /\ last \in Nat
      /\ \A i \in 1 .. last :
           /\ m.orders[i].order_id \in OrderId
           /\ m.orders[i].side \in Side
           /\ At(m.orders[i].order_id) = i
           /\ make_priority_key(m.orders[i]) \in m.priority_index[m.orders[i].side]
  BY Zenon, ManagerFields DEF Consistent, IndexConsistent, PriorityConsistent
<1>2. \A j \in OrderId : At(j) # 0 => At(j) \in 1 .. last /\ m.orders[At(j)].order_id = j
  BY Zenon DEF Consistent, IndexConsistent, has_order
<1>3. \A s \in Side : \A k \in m.priority_index[s] :
        /\ k.order_id \in OrderId
        /\ At(k.order_id) # 0
        /\ m.orders[At(k.order_id)].side = s
        /\ make_priority_key(m.orders[At(k.order_id)]) = k
  BY ManagerFields
     DEF Consistent, PriorityConsistent, PriorityKey, has_order, find_order
<1>4. /\ index \in 1 .. last /\ o = m.orders[index] /\ o.order_id = id /\ o.side \in Side
      /\ At(id) = index
  BY Zenon, FindOrder DEF Consistent
<1>5. /\ updated \in LimitOrder /\ updated.order_id = id /\ updated.side = o.side
      /\ new # old /\ new = make_priority_key(updated) /\ old = make_priority_key(o)
      /\ new.order_id = id /\ old.order_id = id /\ new \in PriorityKey
  BY Zenon, <1>4, KeyType DEF make_priority_key, OrderReplaced
<1>6. /\ m.orders \in Seq(LimitOrder) /\ last = Len(m.orders)
      /\ m.order_indices \in [OrderId -> Nat]
      /\ m.priority_index \in [Side -> SUBSET PriorityKey]
  BY Zenon, ManagerFields
<1>7. /\ t.order_indices = m.order_indices /\ \A j \in OrderId : t.order_indices[j] = At(j)
      /\ t.orders = [m.orders EXCEPT ![index] = updated]
      /\ t.priority_index = [m.priority_index EXCEPT ![o.side] = (@ \cup {new}) \ {old}]
      /\ t = [orders         |-> t.orders,
              order_indices  |-> t.order_indices,
              priority_index |-> t.priority_index]
  BY Zenon DEF OrderReplaced
<1>8. \A k : make_priority_key(k).order_id = k.order_id
  BY Zenon DEF make_priority_key
<1> HIDE DEF last, At, index, o, old, new
<1>9. /\ t.orders \in Seq(LimitOrder)
      /\ Len(t.orders) = last
      /\ \A i \in 1 .. last : t.orders[i] = IF i = index THEN updated ELSE m.orders[i]
  <2>1. [m.orders EXCEPT ![index] = updated] \in Seq(LimitOrder)
    BY <1>4, <1>5, <1>6
  <2> QED BY <1>4, <1>6, <1>7, <2>1
<1>10. t.priority_index \in [Side -> SUBSET PriorityKey]
  BY <1>4, <1>5, <1>6, <1>7
<1>11. \A s \in Side : t.priority_index[s] =
         IF s = o.side THEN (m.priority_index[s] \cup {new}) \ {old}
                       ELSE m.priority_index[s]
  BY Zenon, <1>4, <1>6, <1>7
<1>12. t \in Manager
  BY Zenon, <1>6, <1>7, <1>9, <1>10 DEF Manager
<1>13. IndexConsistent(t)
  <2>1. \A i \in 1 .. last : t.orders[i].order_id = m.orders[i].order_id
    BY Zenon, <1>4, <1>5, <1>9
  <2> QED BY <1>1, <1>2, <1>7, <1>9, <2>1 DEF IndexConsistent, has_order
<1>14. PriorityConsistent(t)
  <2>1. ASSUME NEW i \in 1 .. last
        PROVE  make_priority_key(t.orders[i]) \in t.priority_index[t.orders[i].side]
    <3>1. CASE i = index
      <4>1. t.orders[i] = updated
        BY Zenon, <1>9, <3>1
      <4> QED BY Zenon, <1>4, <1>5, <1>11, <4>1
    <3>2. CASE i # index
      <4>1. t.orders[i] = m.orders[i]
        BY Zenon, <1>9, <3>2
      <4>2. /\ m.orders[i].side \in Side
            /\ m.orders[i].order_id # id
            /\ make_priority_key(m.orders[i]) \in m.priority_index[m.orders[i].side]
        BY Zenon, <1>1, <1>4, <3>2
      <4>3. make_priority_key(m.orders[i]) # old
        BY <1>5, <1>8, <4>2, Zenon
      <4> QED BY Zenon, <1>11, <4>1, <4>2, <4>3
    <3> QED BY Zenon, <3>1, <3>2
  <2>2. ASSUME NEW s \in Side, NEW k \in t.priority_index[s]
        PROVE  /\ t.order_indices[k.order_id] # 0
               /\ t.orders[t.order_indices[k.order_id]].side = s
               /\ make_priority_key(t.orders[t.order_indices[k.order_id]]) = k
    <3>1. CASE s = o.side /\ k = new
      <4>1. t.order_indices[k.order_id] = index /\ index # 0
        BY <1>1, <1>4, <1>5, <1>7, <3>1
      <4>2. t.orders[index] = updated
        BY Zenon, <1>4, <1>9
      <4> QED BY Zenon, <1>5, <3>1, <4>1, <4>2
    <3>2. CASE k \in m.priority_index[s] /\ ~ (s = o.side /\ k = old)
      <4>1. /\ k.order_id \in OrderId
            /\ At(k.order_id) # 0
            /\ m.orders[At(k.order_id)].side = s
            /\ make_priority_key(m.orders[At(k.order_id)]) = k
        BY Zenon, <1>3, <3>2
      <4>2. At(k.order_id) \in 1 .. last
        BY Zenon, <1>2, <4>1
      <4>3. At(k.order_id) # index
        BY <1>4, <1>5, <3>2, <4>1, Zenon
      <4>4. t.orders[At(k.order_id)] = m.orders[At(k.order_id)]
        BY Zenon, <1>9, <4>2, <4>3
      <4> QED BY Zenon, <1>7, <4>1, <4>4
    <3> QED BY Zenon, <1>11, <3>1, <3>2
  <2> QED BY Zenon, <1>9, <2>1, <2>2 DEF PriorityConsistent, has_order, find_order
<1> QED BY Zenon, <1>12, <1>13, <1>14 DEF Consistent

\* update_sequence_number is such a replacement if the number differs.
LEMMA UpdateSequenceNumberConsistent ==
  ASSUME NEW m \in Manager, Consistent(m), NEW id \in OrderId, has_order(m, id),
         NEW seq \in SequenceNumber, find_order(m, id).sequence_number # seq
  PROVE  /\ update_sequence_number(m, id, seq) \in Manager
         /\ Consistent(update_sequence_number(m, id, seq))
<1> DEFINE t == update_sequence_number(m, id, seq)
           o == find_order(m, id)
           updated == [order_id           |-> o.order_id,
                       side               |-> o.side,
                       price_ticks        |-> o.price_ticks,
                       original_quantity  |-> o.original_quantity,
                       remaining_quantity |-> o.remaining_quantity,
                       sequence_number    |-> seq]
           new == make_priority_key(updated)
           old == make_priority_key(o)
<1>1. o \in LimitOrder /\ o.order_id = id
  BY Zenon, FindOrder DEF Consistent
<1>2. updated \in LimitOrder
  BY Zenon, <1>1 DEF LimitOrder
<1>3. updated.order_id = id /\ updated.side = o.side
  BY Zenon, <1>1
<1>4. new # old
  BY Zenon DEF make_priority_key
<1>5. t = [orders         |-> [m.orders EXCEPT ![m.order_indices[id]] = updated],
           order_indices  |-> m.order_indices,
           priority_index |-> [m.priority_index EXCEPT ![o.side] =
                                 (@ \cup {new}) \ {old}]]
  BY Zenon DEF update_sequence_number
<1>6. new = make_priority_key(updated) /\ old = make_priority_key(o) /\ o = find_order(m, id)
  BY Zenon
<1> HIDE DEF t, o, updated, new, old
<1>7. t \in Manager /\ Consistent(t)
  <2>1. OrderReplaced(m, id, updated, t)
    BY Zenon, <1>2, <1>3, <1>4, <1>5, <1>6 DEF OrderReplaced
  <2> QED BY Zenon, <2>1, ReplacementConsistent
<1> QED BY Zenon, <1>7 DEF t

-----------------------------------------------------------------------------
(***************************************************************************)
(* Induction over the natural numbers.                                     *)
(***************************************************************************)
Smaller == {ss \in Nat \X Nat : ss[1] < ss[2]}

\* Every non-empty set of natural numbers has a least member (the first key of a
\* priority set, the best price of a book).
LEMMA Least ==
  ASSUME NEW T \in SUBSET Nat, T # {}
  PROVE  \E x \in T : \A y \in T : x <= y
<1>1. IsWellFoundedOn(Smaller, Nat)
  BY Zenon, NatLessThanWellFounded DEF OpToRel, Smaller
<1>2. PICK x \in T : \A y \in T : <<y, x>> \notin Smaller
  BY Zenon, <1>1, WFMin
<1>3. \A y \in T : x \in Nat /\ y \in Nat /\ ~ (y < x)
  BY Zenon, <1>2 DEF Smaller
<1> QED BY <1>3

\* A set with 0 and with the successor of each member is the set of all natural
\* numbers (the loops over the order vector).
LEMMA NaturalInduction ==
  ASSUME NEW S \in SUBSET Nat, 0 \in S, \A n \in S : n + 1 \in S
  PROVE  S = Nat
<1> SUFFICES ASSUME S # Nat PROVE FALSE
  BY Zenon
<1>1. PICK x \in Nat \ S : \A y \in Nat \ S : x <= y
  <2>1. Nat \ S # {} /\ Nat \ S \in SUBSET Nat
    BY Zenon
  <2> QED BY Zenon, <2>1, Least
<1>2. x # 0 /\ x - 1 \in Nat
  BY <1>1
<1>3. x - 1 \in S
  BY <1>1, <1>2
<1> QED BY <1>1, <1>2, <1>3

(***************************************************************************)
(* Sums over the vector of orders.                                         *)
(***************************************************************************)
\* h[i] is the sum of the first i values of f
PartialSums(f, n, h) == h = [i \in 0 .. n |-> IF i = 0 THEN 0 ELSE h[i - 1] + f[i]]

\* The recursive function of SumUpTo exists.
LEMMA PartialSumsExist ==
  ASSUME NEW f, NEW n \in Nat
  PROVE  \E h : PartialSums(f, n, h)
<1> DEFINE S == {k \in Nat : \E h : PartialSums(f, k, h)}
<1>1. 0 \in S
  <2> DEFINE h == [i \in 0 .. 0 |-> 0]
  <2>1. PartialSums(f, 0, h)
    BY DEF PartialSums
  <2> QED BY Zenon, <2>1
<1>2. ASSUME NEW k \in S PROVE k + 1 \in S
  <2>1. PICK h : PartialSums(f, k, h)
    BY Zenon
  <2>2. k \in Nat
    BY Zenon
  <2> DEFINE g == [i \in 0 .. k + 1 |-> IF i = k + 1 THEN h[k] + f[k + 1] ELSE h[i]]
  <2>3. ASSUME NEW i \in 0 .. k + 1
        PROVE  g[i] = IF i = 0 THEN 0 ELSE g[i - 1] + f[i]
    BY <2>2, <2>1 DEF PartialSums
  <2>4. g = [i \in 0 .. k + 1 |-> g[i]]
    BY Zenon
  <2> HIDE DEF g
  <2>5. PartialSums(f, k + 1, g)
    BY Zenon, <2>3, <2>4 DEF PartialSums
  <2> QED BY <2>2, <2>5
<1> HIDE DEF S
<1>3. S = Nat
  <2>1. S \in SUBSET Nat
    BY Zenon DEF S
  <2> QED BY Zenon, <1>1, <1>2, <2>1, NaturalInduction
<1> QED BY Zenon, <1>3 DEF S

\* Sums over vectors of different lengths agree where both are defined.
LEMMA PartialSumsAgree ==
  ASSUME NEW f, NEW n \in Nat, NEW h, PartialSums(f, n, h),
         NEW m \in Nat, NEW g, PartialSums(f, m, g)
  PROVE  \A i \in Nat : i <= n /\ i <= m => h[i] = g[i]
<1> DEFINE S == {i \in Nat : i <= n /\ i <= m => h[i] = g[i]}
<1>1. 0 \in S
  BY DEF PartialSums
<1>2. ASSUME NEW k \in S PROVE k + 1 \in S
  <2> SUFFICES ASSUME k + 1 <= n, k + 1 <= m PROVE h[k + 1] = g[k + 1]
    OBVIOUS
  <2>1. k \in Nat /\ h[k] = g[k]
    OBVIOUS
  <2>2. h[k + 1] = h[(k + 1) - 1] + f[k + 1] /\ g[k + 1] = g[(k + 1) - 1] + f[k + 1]
    BY <2>1 DEF PartialSums
  <2> QED BY <2>1, <2>2
<1> HIDE DEF S
<1>3. S = Nat
  <2>1. S \in SUBSET Nat
    BY Zenon DEF S
  <2> QED BY Zenon, <1>1, <1>2, <2>1, NaturalInduction
<1> QED BY Zenon, <1>3 DEF S

\* What SumUpTo computes, one value after the other
LEMMA SumSteps ==
  ASSUME NEW f
  PROVE  /\ SumUpTo(f, 0) = 0
         /\ \A n \in Nat : SumUpTo(f, n + 1) = SumUpTo(f, n) + f[n + 1]
<1>1. ASSUME NEW n \in Nat PROVE \E h : PartialSums(f, n, h) /\ SumUpTo(f, n) = h[n]
  <2> DEFINE h == CHOOSE h : PartialSums(f, n, h)
  <2>1. PartialSums(f, n, h)
    BY Zenon, PartialSumsExist
  <2>2. SumUpTo(f, n) = h[n]
    BY Zenon DEF SumUpTo, PartialSums
  <2> QED BY Zenon, <2>1, <2>2
<1>2. SumUpTo(f, 0) = 0
  <2>1. PICK h : PartialSums(f, 0, h) /\ SumUpTo(f, 0) = h[0]
    BY Zenon, <1>1
  <2> QED BY <2>1 DEF PartialSums
<1>3. ASSUME NEW n \in Nat PROVE SumUpTo(f, n + 1) = SumUpTo(f, n) + f[n + 1]
  <2>1. PICK h : PartialSums(f, n, h) /\ SumUpTo(f, n) = h[n]
    BY Zenon, <1>1
  <2>2. PICK g : PartialSums(f, n + 1, g) /\ SumUpTo(f, n + 1) = g[n + 1]
    BY <1>1
  <2>3. h[n] = g[n]
    BY <2>1, <2>2, PartialSumsAgree
  <2>4. g[n + 1] = g[n] + f[n + 1]
    BY <2>2 DEF PartialSums
  <2> QED BY Zenon, <2>1, <2>2, <2>3, <2>4
<1> QED BY Zenon, <1>2, <1>3

\* The sum of quantities is a quantity, at least as large as each of them, and
\* only 0 if all of them are.
LEMMA SumBounds ==
  ASSUME NEW n \in Nat, NEW f, \A i \in 1 .. n : f[i] \in Nat
  PROVE  /\ SumUpTo(f, n) \in Nat
         /\ \A i \in 1 .. n : f[i] <= SumUpTo(f, n)
         /\ SumUpTo(f, n) # 0 => \E i \in 1 .. n : f[i] # 0
<1> DEFINE P(k) == /\ SumUpTo(f, k) \in Nat
                   /\ \A i \in 1 .. k : f[i] <= SumUpTo(f, k)
                   /\ SumUpTo(f, k) # 0 => \E i \in 1 .. k : f[i] # 0
           S == {k \in Nat : k <= n => P(k)}
<1>1. 0 \in S
  BY SumSteps
<1>2. ASSUME NEW k \in S PROVE k + 1 \in S
  <2> SUFFICES ASSUME k + 1 <= n PROVE P(k + 1)
    OBVIOUS
  <2>1. k \in Nat /\ P(k)
    OBVIOUS
  <2>2. SumUpTo(f, k + 1) = SumUpTo(f, k) + f[k + 1] /\ f[k + 1] \in Nat
    BY <2>1, SumSteps
  <2>3. ASSUME NEW i \in 1 .. k + 1 PROVE f[i] <= SumUpTo(f, k + 1)
    BY <2>1, <2>2
  <2>4. ASSUME SumUpTo(f, k + 1) # 0 PROVE \E i \in 1 .. k + 1 : f[i] # 0
    <3>1. CASE f[k + 1] # 0
      BY <2>1, <3>1
    <3>2. CASE f[k + 1] = 0
      <4>1. SumUpTo(f, k) # 0
        BY <2>1, <2>2, <2>4, <3>2
      <4>2. PICK i \in 1 .. k : f[i] # 0
        BY Zenon, <2>1, <4>1
      <4> QED BY <2>1, <4>2
    <3> QED BY Zenon, <3>1, <3>2
  <2> QED BY <2>1, <2>2, <2>3, <2>4
<1> HIDE DEF S
<1>3. S = Nat
  <2>1. S \in SUBSET Nat
    BY Zenon DEF S
  <2> QED BY Zenon, <1>1, <1>2, <2>1, NaturalInduction
<1> QED BY <1>3 DEF S

\* A sum follows the change of one value.
LEMMA SumChanges ==
  ASSUME NEW n \in Nat, NEW f, NEW g, NEW j \in Nat,
         \A i \in 1 .. n : f[i] \in Nat /\ g[i] \in Nat,
         \A i \in 1 .. n : i # j => g[i] = f[i]
  PROVE  SumUpTo(g, n) =
           IF j \in 1 .. n THEN (SumUpTo(f, n) - f[j]) + g[j] ELSE SumUpTo(f, n)
<1> DEFINE P(k) == SumUpTo(g, k) =
             IF j \in 1 .. k THEN (SumUpTo(f, k) - f[j]) + g[j] ELSE SumUpTo(f, k)
           S == {k \in Nat : k <= n => P(k)}
<1>1. 0 \in S
  BY SumSteps
<1>2. ASSUME NEW k \in S PROVE k + 1 \in S
  <2> SUFFICES ASSUME k + 1 <= n PROVE P(k + 1)
    OBVIOUS
  <2>1. k \in Nat /\ P(k)
    OBVIOUS
  <2>2. /\ SumUpTo(f, k + 1) = SumUpTo(f, k) + f[k + 1] /\ f[k + 1] \in Nat
        /\ SumUpTo(g, k + 1) = SumUpTo(g, k) + g[k + 1] /\ g[k + 1] \in Nat
    BY <2>1, SumSteps
  <2>3. SumUpTo(f, k) \in Nat
    BY <2>1, SumBounds
  <2>4. CASE j = k + 1
    BY <2>1, <2>4, <2>2, <2>3
  <2>5. CASE j # k + 1
    <3>1. g[k + 1] = f[k + 1]
      BY <2>1, <2>5
    <3>2. CASE j \in 1 .. k
      BY <2>1, <3>2, <2>2, <2>3, <3>1
    <3>3. CASE j \notin 1 .. k
      <4>1. j \notin 1 .. k + 1
        BY <2>1, <2>5, <3>3
      <4> QED BY Zenon, <2>1, <2>2, <3>1, <3>3, <4>1
    <3> QED BY Zenon, <3>2, <3>3
  <2> QED BY Zenon, <2>4, <2>5
<1> HIDE DEF S
<1>3. S = Nat
  <2>1. S \in SUBSET Nat
    BY Zenon DEF S
  <2> QED BY Zenon, <1>1, <1>2, <2>1, NaturalInduction
<1> QED BY <1>3 DEF S

-----------------------------------------------------------------------------
(***************************************************************************)
(* The orders as has_order and find_order show them.                       *)
(***************************************************************************)
\* Each position of the vector is that of one active order, and the other way
\* round.
LEMMA Positions ==
  ASSUME NEW m \in Manager, Consistent(m)
  PROVE  /\ \A i \in 1 .. Len(m.orders) :
              /\ m.orders[i].order_id \in OrderId
              /\ has_order(m, m.orders[i].order_id)
              /\ find_order(m, m.orders[i].order_id) = m.orders[i]
              /\ m.order_indices[m.orders[i].order_id] = i
         /\ \A id \in OrderId : has_order(m, id) =>
              /\ m.order_indices[id] \in 1 .. Len(m.orders)
              /\ find_order(m, id) = m.orders[m.order_indices[id]]
              /\ find_order(m, id).order_id = id
              /\ find_order(m, id) \in LimitOrder
<1>1. \A i \in 1 .. Len(m.orders) :
        m.orders[i].order_id \in OrderId /\ m.order_indices[m.orders[i].order_id] = i
  BY Zenon, ManagerFields DEF Consistent, IndexConsistent
<1>2. \A i \in 1 .. Len(m.orders) : i # 0
  BY ManagerFields
<1>3. \A i \in 1 .. Len(m.orders) :
        /\ has_order(m, m.orders[i].order_id)
        /\ find_order(m, m.orders[i].order_id) = m.orders[i]
  BY Zenon, <1>1, <1>2 DEF has_order, find_order
<1> QED BY Zenon, <1>1, <1>3, FindOrder DEF Consistent

\* add_order adds one order and leaves the others.
LEMMA AddOrderView ==
  ASSUME NEW m \in Manager, Consistent(m), NEW o \in LimitOrder, can_add_order(m, o),
         NEW j \in OrderId
  PROVE  /\ has_order(add_order(m, o), j) <=> has_order(m, j) \/ j = o.order_id
         /\ has_order(m, j) => find_order(add_order(m, o), j) = find_order(m, j)
         /\ find_order(add_order(m, o), o.order_id) = o
<1> DEFINE t == add_order(m, o)
           last == Len(m.orders) + 1
<1>1. o.order_id \in OrderId /\ ~ has_order(m, o.order_id)
  BY Zenon DEF LimitOrder, can_add_order
<1>2. /\ last \in Nat /\ last # 0
      /\ t.orders[last] = o
      /\ \A i \in 1 .. Len(m.orders) : t.orders[i] = m.orders[i]
      /\ t.order_indices = [m.order_indices EXCEPT ![o.order_id] = last]
  BY ManagerFields DEF add_order
<1> HIDE DEF t, last
<1>3. /\ t.order_indices[o.order_id] = last
      /\ j # o.order_id => t.order_indices[j] = m.order_indices[j]
  BY <1>1, <1>2, ManagerFields
<1>4. has_order(t, j) <=> has_order(m, j) \/ j = o.order_id
  BY Zenon, <1>2, <1>3 DEF has_order
<1>5. ASSUME has_order(m, j) PROVE find_order(t, j) = find_order(m, j)
  <2>1. m.order_indices[j] \in 1 .. Len(m.orders) /\ j # o.order_id
    BY Zenon, <1>1, <1>5, Positions
  <2> QED BY Zenon, <1>2, <1>3, <2>1 DEF find_order
<1>6. find_order(t, o.order_id) = o
  BY Zenon, <1>2, <1>3 DEF find_order
<1> QED BY Zenon, <1>4, <1>5, <1>6 DEF t

\* cancel_order takes one order out and leaves the others, wherever they are.
LEMMA CancelOrderView ==
  ASSUME NEW m \in Manager, Consistent(m), NEW id \in OrderId, has_order(m, id),
         NEW j \in OrderId
  PROVE  /\ has_order(cancel_order(m, id), j) <=> has_order(m, j) /\ j # id
         /\ has_order(cancel_order(m, id), j)
              => find_order(cancel_order(m, id), j) = find_order(m, j)
<1> DEFINE t == cancel_order(m, id)
           index == m.order_indices[id]
           last == Len(m.orders)
           moved == m.orders[last]
<1>1. /\ index \in 1 .. last /\ last \in Nat /\ last \in 1 .. last
      /\ m.orders[index].order_id = id
      /\ moved.order_id \in OrderId /\ m.order_indices[moved.order_id] = last
  <2>1. index \in 1 .. last /\ last \in Nat /\ m.orders[index].order_id = id
    BY Positions, ManagerFields
  <2>2. last \in 1 .. last
    BY <2>1
  <2> QED BY <2>1, <2>2, Positions
<1>2. \A i \in 1 .. last - 1 : t.orders[i] = IF i = index THEN moved ELSE m.orders[i]
  BY CancelOrderType DEF Consistent
<1>3. t.order_indices[j] =
        IF j = id THEN 0
        ELSE IF index # last /\ j = moved.order_id THEN index ELSE m.order_indices[j]
  BY Zenon DEF cancel_order
<1>4. has_order(m, j) => m.order_indices[j] \in 1 .. last /\ m.orders[m.order_indices[j]].order_id = j
  BY Positions
<1>5. index = m.order_indices[id] /\ moved = m.orders[last]
  BY Zenon
<1> HIDE DEF t, index, last, moved
<1>6. has_order(t, j) <=> has_order(m, j) /\ j # id
  BY <1>1, <1>3 DEF has_order
<1>7. ASSUME has_order(m, j), j # id PROVE t.orders[t.order_indices[j]] = m.orders[m.order_indices[j]]
  <2>1. m.order_indices[j] # index
    BY Zenon, <1>1, <1>4, <1>7
  <2>2. CASE m.order_indices[j] = last
    <3>1. j = moved.order_id /\ index # last
      BY <1>4, <1>5, <1>7, <2>1, <2>2
    <3>2. t.order_indices[j] = index /\ index \in 1 .. last - 1
      BY <1>1, <1>3, <1>7, <3>1
    <3> QED BY Zenon, <1>2, <1>5, <2>2, <3>2
  <2>3. CASE m.order_indices[j] # last
    <3>1. j # moved.order_id
      BY Zenon, <1>1, <2>3
    <3>2. t.order_indices[j] = m.order_indices[j] /\ m.order_indices[j] \in 1 .. last - 1
      BY <1>1, <1>3, <1>4, <1>7, <2>3, <3>1
    <3> QED BY Zenon, <1>2, <2>1, <3>2
  <2> QED BY Zenon, <2>2, <2>3
<1> QED BY Zenon, <1>6, <1>7 DEF t, find_order

\* A write through find_order changes the quantities of one order.
LEMMA SetQuantitiesView ==
  ASSUME NEW m \in Manager, Consistent(m), NEW id \in OrderId, NEW original, NEW remaining,
         NEW t, QuantitiesSet(m, id, original, remaining, t), NEW j \in OrderId
  PROVE  /\ has_order(t, j) <=> has_order(m, j)
         /\ has_order(m, j) /\ j # id => find_order(t, j) = find_order(m, j)
<1>1. t.order_indices = m.order_indices
  BY Zenon DEF QuantitiesSet
<1>2. ASSUME has_order(m, j), j # id PROVE t.orders[m.order_indices[j]] = m.orders[m.order_indices[j]]
  <2>1. has_order(m, id)
    BY Zenon, <1>1 DEF QuantitiesSet, has_order
  <2>2. m.order_indices[j] \in 1 .. Len(m.orders) /\ m.order_indices[j] # m.order_indices[id]
    BY <1>2, <2>1, Positions
  <2> QED BY Zenon, <2>2 DEF QuantitiesSet
<1> QED BY Zenon, <1>1, <1>2 DEF has_order, find_order

\* update_sequence_number changes the sequence number of one order.
LEMMA UpdateSequenceNumberView ==
  ASSUME NEW m \in Manager, Consistent(m), NEW id \in OrderId, has_order(m, id),
         NEW seq, NEW j \in OrderId
  PROVE  LET t == update_sequence_number(m, id, seq)
             o == find_order(m, id)
         IN  /\ has_order(t, j) <=> has_order(m, j)
             /\ has_order(m, j) /\ j # id => find_order(t, j) = find_order(m, j)
             /\ find_order(t, id) = [order_id           |-> id,
                                     side               |-> o.side,
                                     price_ticks        |-> o.price_ticks,
                                     original_quantity  |-> o.original_quantity,
                                     remaining_quantity |-> o.remaining_quantity,
                                     sequence_number    |-> seq]
<1> DEFINE t == update_sequence_number(m, id, seq)
           o == find_order(m, id)
           updated == [order_id           |-> id,
                       side               |-> o.side,
                       price_ticks        |-> o.price_ticks,
                       original_quantity  |-> o.original_quantity,
                       remaining_quantity |-> o.remaining_quantity,
                       sequence_number    |-> seq]
<1>1. o.order_id = id /\ m.order_indices[id] \in 1 .. Len(m.orders)
  BY Positions
<1>2. t.order_indices = m.order_indices /\ t.orders = [m.orders EXCEPT ![m.order_indices[id]] = updated]
  BY Zenon, <1>1 DEF update_sequence_number
<1> HIDE DEF t, updated
<1>3. t.orders[m.order_indices[id]] = updated
  BY <1>1, <1>2, ManagerFields
<1>4. ASSUME has_order(m, j), j # id PROVE t.orders[m.order_indices[j]] = m.orders[m.order_indices[j]]
  <2>1. m.order_indices[j] \in 1 .. Len(m.orders) /\ m.order_indices[j] # m.order_indices[id]
    BY <1>4, Positions
  <2> QED BY <1>2, <2>1, ManagerFields
<1> QED BY Zenon, <1>2, <1>3, <1>4 DEF has_order, find_order, t, updated

-----------------------------------------------------------------------------
(***************************************************************************)
(* The quantity at a price, as the methods change it.                      *)
(***************************************************************************)
\* What an order adds to the quantity of a side at a price
Part(o, side, price) ==
  IF o.side = side /\ o.price_ticks = price THEN o.remaining_quantity ELSE 0

Parts(m, side, price) == [i \in 1 .. Len(m.orders) |-> Part(m.orders[i], side, price)]

\* The parts are quantities.
LEMMA PartTypes ==
  ASSUME NEW m \in Manager, NEW side, NEW price
  PROVE  /\ \A o \in LimitOrder : Part(o, side, price) \in Nat
         /\ \A i \in 1 .. Len(m.orders) : Parts(m, side, price)[i] \in Nat
         /\ RestingQuantity(m, side, price) = SumUpTo(Parts(m, side, price), Len(m.orders))
<1>1. \A o \in LimitOrder : Part(o, side, price) \in Nat
  BY MarketAssumption DEF Part, LimitOrder
<1>2. \A i \in 1 .. Len(m.orders) : Parts(m, side, price)[i] \in Nat
  BY Zenon, <1>1, ManagerFields DEF Parts
<1> QED BY Zenon, <1>1, <1>2 DEF RestingQuantity, Parts, Part

\* The quantity at a price counts every order there, and nothing else.
LEMMA RestingBounds ==
  ASSUME NEW m \in Manager, Consistent(m), NEW side, NEW price
  PROVE  /\ RestingQuantity(m, side, price) \in Nat
         /\ \A id \in OrderId : has_order(m, id) =>
              Part(find_order(m, id), side, price) <= RestingQuantity(m, side, price)
         /\ RestingQuantity(m, side, price) # 0 =>
              \E id \in OrderId : /\ has_order(m, id)
                                  /\ find_order(m, id).side = side
                                  /\ find_order(m, id).price_ticks = price
<1> DEFINE f == Parts(m, side, price)
           n == Len(m.orders)
<1>1. /\ n \in Nat /\ \A i \in 1 .. n : f[i] \in Nat
      /\ RestingQuantity(m, side, price) = SumUpTo(f, n)
  BY Zenon, PartTypes, ManagerFields
<1>2. /\ SumUpTo(f, n) \in Nat
      /\ \A i \in 1 .. n : f[i] <= SumUpTo(f, n)
      /\ SumUpTo(f, n) # 0 => \E i \in 1 .. n : f[i] # 0
  <2> HIDE DEF f, n
  <2> QED BY Zenon, <1>1, SumBounds
<1>3. \A i \in 1 .. n : f[i] = Part(m.orders[i], side, price)
  BY Zenon DEF Parts
<1>4. ASSUME NEW id \in OrderId, has_order(m, id)
      PROVE  Part(find_order(m, id), side, price) <= RestingQuantity(m, side, price)
  <2>1. m.order_indices[id] \in 1 .. n /\ find_order(m, id) = m.orders[m.order_indices[id]]
    BY <1>4, Positions
  <2> HIDE DEF f, n
  <2> QED BY <1>1, <1>2, <1>3, <2>1
<1>5. ASSUME RestingQuantity(m, side, price) # 0
      PROVE  \E id \in OrderId : /\ has_order(m, id)
                                 /\ find_order(m, id).side = side
                                 /\ find_order(m, id).price_ticks = price
  <2>1. PICK i \in 1 .. n : f[i] # 0
    BY Zenon, <1>1, <1>2, <1>5
  <2>2. m.orders[i].side = side /\ m.orders[i].price_ticks = price
    BY Zenon, <1>3, <2>1 DEF Part
  <2>3. /\ m.orders[i].order_id \in OrderId /\ has_order(m, m.orders[i].order_id)
        /\ find_order(m, m.orders[i].order_id) = m.orders[i]
    BY Positions
  <2> QED BY Zenon, <2>2, <2>3
<1> QED BY Zenon, <1>1, <1>2, <1>4, <1>5

\* A manager without orders has nothing at any price.
LEMMA NothingRests ==
  ASSUME NEW m \in Manager, m.orders = <<>>, NEW side, NEW price
  PROVE  RestingQuantity(m, side, price) = 0
<1>1. Len(m.orders) = 0
  OBVIOUS
<1> QED BY <1>1, PartTypes, SumSteps

\* add_order adds its order's part.
LEMMA RestingAfterAdd ==
  ASSUME NEW m \in Manager, NEW o \in LimitOrder, NEW side, NEW price
  PROVE  RestingQuantity(add_order(m, o), side, price)
           = RestingQuantity(m, side, price) + Part(o, side, price)
<1> DEFINE t == add_order(m, o)
           f == Parts(m, side, price)
           g == Parts(t, side, price)
           n == Len(m.orders)
<1>1. t \in Manager
  BY Zenon, AddOrderType
<1>2. n \in Nat /\ Len(t.orders) = n + 1 /\ t.orders[n + 1] = o
      /\ \A i \in 1 .. n : t.orders[i] = m.orders[i]
  BY ManagerFields DEF add_order
<1>3. /\ \A i \in 1 .. n : f[i] \in Nat
      /\ \A i \in 1 .. n + 1 : g[i] \in Nat
      /\ RestingQuantity(m, side, price) = SumUpTo(f, n)
      /\ RestingQuantity(t, side, price) = SumUpTo(g, n + 1)
  BY <1>1, <1>2, PartTypes
<1>4. g[n + 1] = Part(o, side, price) /\ \A i \in 1 .. n : g[i] = f[i]
  BY <1>2 DEF Parts
<1> HIDE DEF t, f, g, n
<1>5. SumUpTo(g, n + 1) = SumUpTo(g, n) + g[n + 1]
  BY Zenon, <1>2, SumSteps
<1>6. SumUpTo(g, n) = SumUpTo(f, n)
  <2>1. 0 \in Nat /\ 0 \notin 1 .. n /\ \A i \in 1 .. n : g[i] \in Nat
    BY <1>2, <1>3
  <2> QED BY Zenon, <1>2, <1>3, <1>4, <2>1, SumChanges
<1> QED BY Zenon, <1>3, <1>4, <1>5, <1>6 DEF t

\* A write through find_order replaces its order's part.
LEMMA RestingAfterSet ==
  ASSUME NEW m \in Manager, Consistent(m), NEW id \in OrderId, has_order(m, id),
         NEW t \in Manager, Len(t.orders) = Len(m.orders),
         \A i \in 1 .. Len(m.orders) : i # m.order_indices[id] => t.orders[i] = m.orders[i],
         t.order_indices = m.order_indices,
         NEW side, NEW price
  PROVE  RestingQuantity(t, side, price) =
           (RestingQuantity(m, side, price) - Part(find_order(m, id), side, price))
             + Part(find_order(t, id), side, price)
<1> DEFINE f == Parts(m, side, price)
           g == Parts(t, side, price)
           n == Len(m.orders)
           j == m.order_indices[id]
<1>1. n \in Nat /\ j \in 1 .. n /\ find_order(m, id) = m.orders[j] /\ find_order(t, id) = t.orders[j]
  BY Positions, ManagerFields DEF find_order
<1>2. /\ \A i \in 1 .. n : f[i] \in Nat /\ g[i] \in Nat
      /\ RestingQuantity(m, side, price) = SumUpTo(f, n)
      /\ RestingQuantity(t, side, price) = SumUpTo(g, n)
  BY PartTypes
<1>3. /\ \A i \in 1 .. n : f[i] = Part(m.orders[i], side, price) /\ g[i] = Part(t.orders[i], side, price)
      /\ \A i \in 1 .. n : i # j => g[i] = f[i]
  BY Zenon DEF Parts
<1> HIDE DEF f, g, n, j
<1>4. SumUpTo(g, n) = (SumUpTo(f, n) - f[j]) + g[j]
  <2>1. j \in Nat
    BY <1>1
  <2> QED BY Zenon, <1>1, <1>2, <1>3, <2>1, SumChanges
<1> QED BY <1>1, <1>2, <1>3, <1>4

\* cancel_order takes its order's part out, although it moves another order.
LEMMA RestingAfterCancel ==
  ASSUME NEW m \in Manager, Consistent(m), NEW id \in OrderId, has_order(m, id),
         NEW side, NEW price
  PROVE  RestingQuantity(cancel_order(m, id), side, price) =
           RestingQuantity(m, side, price) - Part(find_order(m, id), side, price)
<1> DEFINE t == cancel_order(m, id)
           f == Parts(m, side, price)
           g == Parts(t, side, price)
           n == Len(m.orders)
           j == m.order_indices[id]
<1>1. n \in Nat \ {0} /\ n - 1 \in Nat /\ j \in 1 .. n /\ find_order(m, id) = m.orders[j]
  BY Positions, ManagerFields
<1>2. /\ t \in Manager /\ Len(t.orders) = n - 1
      /\ \A i \in 1 .. n - 1 : t.orders[i] = IF i = j THEN m.orders[n] ELSE m.orders[i]
  BY CancelOrderType DEF Consistent
<1>3. /\ \A i \in 1 .. n : f[i] \in Nat
      /\ \A i \in 1 .. n - 1 : g[i] \in Nat
      /\ RestingQuantity(m, side, price) = SumUpTo(f, n)
      /\ RestingQuantity(t, side, price) = SumUpTo(g, n - 1)
  BY <1>2, PartTypes
<1>4. /\ \A i \in 1 .. n : f[i] = Part(m.orders[i], side, price)
      /\ \A i \in 1 .. n - 1 : g[i] = Part(t.orders[i], side, price)
  BY Zenon, <1>2 DEF Parts
<1> HIDE DEF t, f, g, n, j
<1>5. \A i \in 1 .. n - 1 : g[i] = IF i = j THEN f[n] ELSE f[i]
  <2> TAKE i \in 1 .. n - 1
  <2>1. i \in 1 .. n /\ n \in 1 .. n
    BY <1>1
  <2> QED BY <1>2, <1>4, <2>1
<1>6. SumUpTo(f, n) = SumUpTo(f, n - 1) + f[n] /\ f[n] \in Nat /\ f[j] \in Nat
  BY <1>1, SumSteps, <1>3
<1>7. \A i \in 1 .. n - 1 : f[i] \in Nat /\ i \in 1 .. n
  BY <1>1, <1>3
<1>8. SumUpTo(f, n - 1) \in Nat
  BY Zenon, <1>1, <1>7, SumBounds
<1>9. SumUpTo(g, n - 1) = SumUpTo(f, n) - f[j]
  <2>1. SumUpTo(g, n - 1) =
          IF j \in 1 .. n - 1 THEN (SumUpTo(f, n - 1) - f[j]) + g[j] ELSE SumUpTo(f, n - 1)
    <3>1. j \in Nat /\ \A i \in 1 .. n - 1 : i # j => g[i] = f[i]
      BY <1>1, <1>5
    <3> QED BY Zenon, <1>1, <1>3, <1>7, <3>1, SumChanges
  <2>2. CASE j \in 1 .. n - 1
    BY <1>5, <2>2, <1>6, <1>8, <2>1
  <2>3. CASE j \notin 1 .. n - 1
    BY <1>1, <2>3, <1>6, <1>8, <2>1
  <2> QED BY Zenon, <2>2, <2>3
<1> QED BY Zenon, <1>1, <1>3, <1>4, <1>9 DEF t

(***************************************************************************)
(* The first order of a side.                                              *)
(***************************************************************************)
\* A non-empty set of keys has a first one: the best price, the smallest sequence
\* number there, the smallest id there.
LEMMA FirstKey ==
  ASSUME NEW side \in Side, NEW K \in SUBSET PriorityKey, K # {}
  PROVE  \E k \in K : \A j \in K \ {k} : Before(side, k, j)
<1> DEFINE badness(k) == IF side = "Buy" THEN MaxPrice - k.price_ticks ELSE k.price_ticks
<1>1. \A k \in K : /\ k.price_ticks \in Price /\ k.sequence_number \in Nat /\ k.order_id \in Nat
                   /\ k = [price_ticks     |-> k.price_ticks,
                           sequence_number |-> k.sequence_number,
                           order_id        |-> k.order_id]
  BY DEF PriorityKey, SequenceNumber, OrderId
<1>2. \A k \in K : badness(k) \in Nat
  BY <1>1, MarketAssumption DEF Price
<1>3. PICK x \in K : \A k \in K : badness(x) <= badness(k)
  <2> DEFINE T == {badness(k) : k \in K}
  <2>1. T \in SUBSET Nat /\ T # {}
    BY Zenon, <1>2
  <2>2. PICK b \in T : \A c \in T : b <= c
    <3> HIDE DEF T
    <3> QED BY Zenon, <2>1, Least
  <2> QED BY <2>2
<1>4. PICK y \in K : /\ y.price_ticks = x.price_ticks
                     /\ \A k \in K : k.price_ticks = x.price_ticks
                                       => y.sequence_number <= k.sequence_number
  <2> DEFINE T == {k.sequence_number : k \in {j \in K : j.price_ticks = x.price_ticks}}
  <2>1. T \in SUBSET Nat /\ T # {}
    BY <1>1
  <2>2. PICK b \in T : \A c \in T : b <= c
    <3> HIDE DEF T
    <3> QED BY Zenon, <2>1, Least
  <2> QED BY <2>2
<1>5. PICK z \in K : /\ z.price_ticks = x.price_ticks /\ z.sequence_number = y.sequence_number
                     /\ \A k \in K : /\ k.price_ticks = x.price_ticks
                                     /\ k.sequence_number = y.sequence_number
                                     => z.order_id <= k.order_id
  <2> DEFINE T == {k.order_id : k \in {j \in K : /\ j.price_ticks = x.price_ticks
                                                 /\ j.sequence_number = y.sequence_number}}
  <2>1. T \in SUBSET Nat /\ T # {}
    BY <1>1, <1>4
  <2>2. PICK b \in T : \A c \in T : b <= c
    <3> HIDE DEF T
    <3> QED BY Zenon, <2>1, Least
  <2> QED BY <2>2
<1>6. ASSUME NEW j \in K \ {z} PROVE Before(side, z, j)
  <2>1. badness(x) <= badness(j)
    BY Zenon, <1>3
  <2>2. CASE j.price_ticks # x.price_ticks
    BY <1>1, <2>1, <2>2, MarketAssumption, <1>5 DEF Better, Price, Before
  <2>3. CASE j.price_ticks = x.price_ticks /\ j.sequence_number # y.sequence_number
    BY <1>1, <1>4, <1>5, <2>3 DEF Before
  <2>4. CASE j.price_ticks = x.price_ticks /\ j.sequence_number = y.sequence_number
    <3>1. z.order_id <= j.order_id
      BY Zenon, <1>5, <2>4
    <3>2. z.order_id # j.order_id
      BY <1>1, <1>5, <2>4
    <3> QED BY <1>1, <1>5, <2>4, <3>1, <3>2 DEF Before
  <2> QED BY Zenon, <2>2, <2>3, <2>4
<1> QED BY Zenon, <1>6

\* best_order is an active order of the side, no order of the side has a better
\* price, and there is one whenever the side has an order.
LEMMA BestOrder ==
  ASSUME NEW m \in Manager, Consistent(m), NEW side \in Side
  PROVE  /\ \A id \in OrderId : has_order(m, id) /\ find_order(m, id).side = side
                                  => has_best_order(m, side)
         /\ has_best_order(m, side) =>
              LET b == best_order(m, side)
              IN  /\ b \in LimitOrder /\ b.order_id \in OrderId
                  /\ has_order(m, b.order_id) /\ find_order(m, b.order_id) = b
                  /\ b.side = side
                  /\ \A id \in OrderId : has_order(m, id) /\ find_order(m, id).side = side
                       => ~ Better(side, find_order(m, id).price_ticks, b.price_ticks)
<1> DEFINE K == m.priority_index[side]
<1>1. K \in SUBSET PriorityKey
  BY Zenon, ManagerFields
<1>2. \A id \in OrderId : has_order(m, id) /\ find_order(m, id).side = side
                            => make_priority_key(find_order(m, id)) \in K
  BY Positions DEF Consistent, PriorityConsistent
<1>3. \A k \in K : /\ k.order_id \in OrderId /\ has_order(m, k.order_id)
                   /\ find_order(m, k.order_id).side = side
                   /\ make_priority_key(find_order(m, k.order_id)) = k
  BY Zenon, <1>1 DEF Consistent, PriorityConsistent, PriorityKey
<1>4. ASSUME has_best_order(m, side)
      PROVE  LET b == best_order(m, side)
             IN  /\ b \in LimitOrder /\ b.order_id \in OrderId
                 /\ has_order(m, b.order_id) /\ find_order(m, b.order_id) = b
                 /\ b.side = side
                 /\ \A id \in OrderId : has_order(m, id) /\ find_order(m, id).side = side
                      => ~ Better(side, find_order(m, id).price_ticks, b.price_ticks)
  <2> DEFINE first == CHOOSE k \in K : \A j \in K \ {k} : Before(side, k, j)
             b == find_order(m, first.order_id)
  <2>1. K # {}
    BY Zenon, <1>4 DEF has_best_order
  <2>2. first \in K /\ \A j \in K \ {first} : Before(side, first, j)
    BY <1>1, <2>1, FirstKey
  <2>3. best_order(m, side) = b
    BY Zenon DEF best_order
  <2> HIDE DEF first, K
  <2>4. /\ first.order_id \in OrderId /\ has_order(m, first.order_id)
        /\ b.side = side /\ make_priority_key(b) = first
    BY Zenon, <1>3, <2>2
  <2>5. b.order_id = first.order_id /\ b \in LimitOrder
    BY <2>4, Positions
  <2>6. ASSUME NEW id \in OrderId, has_order(m, id), find_order(m, id).side = side
        PROVE  ~ Better(side, find_order(m, id).price_ticks, b.price_ticks)
    <3> DEFINE o == find_order(m, id)
    <3>1. make_priority_key(o) \in K /\ o \in LimitOrder
      BY Zenon, <1>2, <2>6, Positions
    <3>2. make_priority_key(o).price_ticks = o.price_ticks /\ first.price_ticks = b.price_ticks
      BY <2>4 DEF make_priority_key
    <3>3. o.price_ticks \in Price /\ b.price_ticks \in Price
      BY <2>5, <3>1 DEF LimitOrder
    <3> SUFFICES ~ Better(side, o.price_ticks, b.price_ticks)
      BY Zenon
    <3> HIDE DEF o, b
    <3>4. CASE make_priority_key(o) = first
      BY <3>2, <3>3, <3>4, MarketAssumption DEF Better, Price
    <3>5. CASE make_priority_key(o) # first
      <4>1. Before(side, first, make_priority_key(o))
        BY Zenon, <2>2, <3>1, <3>5
      <4> QED BY <3>2, <3>3, <4>1, MarketAssumption DEF Before, Better, Price
    <3> QED BY Zenon, <3>4, <3>5
  <2> QED BY Zenon, <2>3, <2>4, <2>5, <2>6
<1>5. \A id \in OrderId : has_order(m, id) /\ find_order(m, id).side = side
                            => has_best_order(m, side)
  BY Zenon, <1>2 DEF has_best_order
<1> QED BY Zenon, <1>4, <1>5

\* An order that was filled just before its removal leaves the same manager as
\* one removed with its quantity, and writing the quantity into the removal
\* gives the record of the latter.
LEMMA FilledOrderRemoved ==
  ASSUME NEW m \in Manager, Consistent(m), NEW id \in OrderId, has_order(m, id),
         NEW t, NEW o, o = find_order(m, id),
         QuantitiesSet(m, id, o.original_quantity, 0, t)
  PROVE  /\ cancel_order(t, id) = cancel_order(m, id)
         /\ removal_of(t, id) \in Removal
         /\ with_removed_order(removal_of(t, id),
              with_quantities(removal_of(t, id).removed_order,
                              removal_of(t, id).removed_order.original_quantity,
                              o.remaining_quantity)) = removal_of(m, id)
<1> DEFINE index == m.order_indices[id]
           last  == Len(m.orders)
<1>1. /\ o \in LimitOrder /\ o.order_id = id
      /\ o.original_quantity \in Quantity /\ o.side \in Side
      /\ o = [order_id           |-> id,
              side               |-> o.side,
              price_ticks        |-> o.price_ticks,
              original_quantity  |-> o.original_quantity,
              remaining_quantity |-> o.remaining_quantity,
              sequence_number    |-> o.sequence_number]
  BY Positions DEF LimitOrder
<1>3. /\ t \in Manager /\ Consistent(t) /\ has_order(t, id)
      /\ Len(t.orders) = last
      /\ t.order_indices = m.order_indices
      /\ t.priority_index = m.priority_index
      /\ \A i \in 1 .. last : i # index => t.orders[i] = m.orders[i]
      /\ find_order(t, id) = t.orders[index]
      /\ find_order(t, id) =
           [order_id           |-> id,
            side               |-> o.side,
            price_ticks        |-> o.price_ticks,
            original_quantity  |-> o.original_quantity,
            remaining_quantity |-> 0,
            sequence_number    |-> o.sequence_number]
  BY Zenon DEF QuantitiesSet, find_order
<1>4. index \in 1 .. last /\ o = m.orders[index] /\ last \in Nat
  BY Positions, ManagerFields
<1> HIDE DEF index, last
<1>5. make_priority_key(t.orders[index]) = make_priority_key(m.orders[index])
  BY <1>1, <1>3, <1>4 DEF make_priority_key
<1>6. t.orders[index].side = m.orders[index].side
  BY <1>1, <1>3, <1>4
<1>7. \A i \in 1 .. last - 1 :
        (IF i = index THEN t.orders[last] ELSE t.orders[i])
          = (IF i = index THEN m.orders[last] ELSE m.orders[i])
  BY <1>3, <1>4
<1>8. index # last => t.orders[last] = m.orders[last]
  BY <1>3, <1>4
<1>9. cancel_order(t, id) = cancel_order(m, id)
  <2>1. [i \in 1 .. last - 1 |-> IF i = index THEN t.orders[last] ELSE t.orders[i]]
          = [i \in 1 .. last - 1 |-> IF i = index THEN m.orders[last] ELSE m.orders[i]]
    BY Zenon, <1>7
  <2>2. [j \in OrderId |->
           IF j = id THEN 0
           ELSE IF index # last /\ j = t.orders[last].order_id THEN index
           ELSE m.order_indices[j]]
          = [j \in OrderId |->
               IF j = id THEN 0
               ELSE IF index # last /\ j = m.orders[last].order_id THEN index
               ELSE m.order_indices[j]]
    BY Zenon, <1>8
  <2>3. cancel_order(t, id) =
          [orders |-> [i \in 1 .. last - 1 |->
                         IF i = index THEN t.orders[last] ELSE t.orders[i]],
           order_indices |-> [j \in OrderId |->
             IF j = id THEN 0
             ELSE IF index # last /\ j = t.orders[last].order_id THEN index
             ELSE m.order_indices[j]],
           priority_index |-> [m.priority_index EXCEPT
             ![m.orders[index].side] = @ \ {make_priority_key(m.orders[index])}]]
    <3>1. t.order_indices[id] = index /\ Len(t.orders) = last
      BY Zenon, <1>3 DEF index
    <3> QED BY <1>3, <1>5, <1>6, <3>1, Zenon DEF cancel_order
  <2>4. cancel_order(m, id) =
          [orders |-> [i \in 1 .. last - 1 |->
                         IF i = index THEN m.orders[last] ELSE m.orders[i]],
           order_indices |-> [j \in OrderId |->
             IF j = id THEN 0
             ELSE IF index # last /\ j = m.orders[last].order_id THEN index
             ELSE m.order_indices[j]],
           priority_index |-> [m.priority_index EXCEPT
             ![m.orders[index].side] = @ \ {make_priority_key(m.orders[index])}]]
    BY Zenon DEF cancel_order, index, last
  <2> QED BY <2>1, <2>2, <2>3, <2>4, Zenon
<1>10. removal_of(t, id) \in Removal
  BY Zenon, <1>3, RestoreInvertsCancel
<1>11. removal_of(t, id) =
         [removed_order    |-> t.orders[index],
          original_index   |-> index,
          swapped          |-> index # last,
          swapped_order_id |-> IF index # last THEN m.orders[last].order_id ELSE 0,
          priority_key     |-> make_priority_key(m.orders[index])]
  BY <1>3, <1>5, <1>8 DEF removal_of, index, last
<1>12. removal_of(m, id) =
         [removed_order    |-> m.orders[index],
          original_index   |-> index,
          swapped          |-> index # last,
          swapped_order_id |-> IF index # last THEN m.orders[last].order_id ELSE 0,
          priority_key     |-> make_priority_key(m.orders[index])]
  BY Zenon DEF removal_of, index, last
<1>13. with_quantities(t.orders[index], t.orders[index].original_quantity,
                       o.remaining_quantity) = m.orders[index]
  BY <1>1, <1>3, <1>4 DEF with_quantities
<1>14. with_removed_order(removal_of(t, id), m.orders[index]) = removal_of(m, id)
  BY <1>11, <1>12 DEF with_removed_order
<1>15. removal_of(t, id).removed_order = t.orders[index]
  BY <1>11
<1> QED BY <1>9, <1>10, <1>13, <1>14, <1>15

-----------------------------------------------------------------------------
(***************************************************************************)
(* The book.                                                               *)
(***************************************************************************)
\* An adjustment that adjust_levels accepts changes one level and leaves a book.
LEMMA AdjustLevel ==
  ASSUME NEW b \in Book, NEW side \in Side, NEW price \in BookPrice, NEW delta \in Int
  PROVE  /\ can_adjust(b, side, price, delta) => adjust_level(b, side, price, delta) \in Book
         /\ \A s \in Side, p \in BookPrice :
              adjust_level(b, side, price, delta)[s][p] =
                IF s = side /\ p = price THEN b[s][p] + delta ELSE b[s][p]
<1> DEFINE a == adjust_level(b, side, price, delta)
<1>1. \A s \in Side : /\ b[s] \in [BookPrice -> LevelQuantity]
                      /\ \A p \in BookPrice : b[s][p] \in LevelQuantity
  BY Zenon DEF Book
<1>2. a = [s \in Side |-> IF s = side
                          THEN [p \in BookPrice |-> IF p = price THEN b[s][p] + delta
                                                                 ELSE b[s][p]]
                          ELSE b[s]]
  BY Zenon, <1>1 DEF adjust_level, Book
<1> HIDE DEF a
<1>3. can_adjust(b, side, price, delta) => a \in Book
  BY Zenon, <1>1, <1>2 DEF can_adjust, Book
<1>4. \A s \in Side, p \in BookPrice :
        a[s][p] = IF s = side /\ p = price THEN b[s][p] + delta ELSE b[s][p]
  BY <1>2
<1> QED BY Zenon, <1>3, <1>4 DEF a

\* Books with the same quantities are equal.
LEMMA BooksAgree ==
  ASSUME NEW a \in Book, NEW b \in Book,
         \A s \in Side, p \in BookPrice : a[s][p] = b[s][p]
  PROVE  a = b
<1>1. \A s \in Side : a[s] = b[s]
  <2> TAKE s \in Side
  <2>1. a[s] \in [BookPrice -> LevelQuantity] /\ b[s] \in [BookPrice -> LevelQuantity]
    BY Zenon DEF Book
  <2> QED BY <2>1
<1> QED BY <1>1 DEF Book

\* The opposite adjustment brings the book back.
LEMMA AdjustBack ==
  ASSUME NEW b \in Book, NEW side \in Side, NEW price \in BookPrice, NEW delta \in Int,
         can_adjust(b, side, price, delta)
  PROVE  /\ can_adjust(adjust_level(b, side, price, delta), side, price, -delta)
         /\ adjust_level(adjust_level(b, side, price, delta), side, price, -delta) = b
<1> DEFINE a == adjust_level(b, side, price, delta)
           c == adjust_level(a, side, price, -delta)
<1>1. a \in Book /\ \A s \in Side, p \in BookPrice :
        a[s][p] = IF s = side /\ p = price THEN b[s][p] + delta ELSE b[s][p]
  BY AdjustLevel
<1>2. b[side][price] \in LevelQuantity /\ b[side][price] \in Int
  BY DEF Book, LevelQuantity
<1>3. -delta \in Int
  OBVIOUS
<1> HIDE DEF a
<1>4. can_adjust(a, side, price, -delta)
  BY <1>1, <1>2 DEF can_adjust
<1>5. c \in Book /\ \A s \in Side, p \in BookPrice :
        c[s][p] = IF s = side /\ p = price THEN a[s][p] + (-delta) ELSE a[s][p]
  BY <1>1, <1>3, <1>4, AdjustLevel
<1> HIDE DEF c
<1>6. \A s \in Side, p \in BookPrice : c[s][p] = b[s][p]
  BY <1>1, <1>2, <1>5
<1>7. c = b
  BY Zenon, <1>5, <1>6, BooksAgree
<1> QED BY Zenon, <1>4, <1>7 DEF a, c

\* update_level with the quantity of a level leaves a book.
LEMMA UpdateLevel ==
  ASSUME NEW b \in Book, NEW side \in Side, NEW price \in BookPrice,
         NEW quantity \in LevelQuantity
  PROVE  update_level(b, side, price, quantity) \in Book
BY Zenon DEF update_level, Book

\* A side with a level has a best one.
LEMMA BestPrice ==
  ASSUME NEW b \in Book, NEW side \in Side, has_level(b, side)
  PROVE  /\ best_price(b, side) \in BookPrice
         /\ b[side][best_price(b, side)] > 0
         /\ \A q \in BookPrice : b[side][q] > 0 /\ q # best_price(b, side)
                                   => Better(side, best_price(b, side), q)
<1> DEFINE badness(p) == IF side = "Buy" THEN MaxPrice - p ELSE p
           P == {p \in BookPrice : b[side][p] > 0}
           T == {badness(p) : p \in P}
<1>1. \A p \in BookPrice : p \in Nat /\ badness(p) \in Nat
  BY MarketAssumption DEF BookPrice
<1>2. T \in SUBSET Nat /\ T # {}
  BY Zenon, <1>1 DEF has_level
<1>3. PICK t \in T : \A u \in T : t <= u
  <2> HIDE DEF T
  <2> QED BY Zenon, <1>2, Least
<1>4. PICK p \in P : \A q \in P : badness(p) <= badness(q)
  BY <1>3
<1>5. \A q \in BookPrice : b[side][q] > 0 /\ q # p => Better(side, p, q)
  BY <1>1, <1>4, MarketAssumption DEF Better
<1> QED BY Zenon, <1>4, <1>5 DEF best_price

(***************************************************************************)
(* The trade store.                                                        *)
(***************************************************************************)
Trade ==
  [aggressor_side     : Side,
   price_ticks        : Price,
   quantity           : Quantity,
   trade_id           : Nat \ {0},
   buy_order_id       : OrderId \cup {0},
   sell_order_id      : OrderId \cup {0},
   execution_sequence : Nat \ {0}]

Store ==
  [trades                  : Seq(Trade),
   next_trade_id           : Nat \ {0},
   next_execution_sequence : Nat \ {0}]

\* A recorded trade goes on top: rolling back to an earlier checkpoint gives
\* what it gave without the trade.
LEMMA RecordTrade ==
  ASSUME NEW st \in Store, NEW aggressor \in Side, NEW price \in Price,
         NEW quantity \in Quantity, NEW buy_id \in OrderId \cup {0},
         NEW sell_id \in OrderId \cup {0}
  PROVE  LET recorded == record_trade(st, aggressor, price, quantity, buy_id, sell_id)
         IN  /\ recorded \in Store
             /\ Len(recorded.trades) = Len(st.trades) + 1
             /\ \A c : c.trade_count \in 0 .. Len(st.trades)
                         => rollback(recorded, c) = rollback(st, c)
<1> DEFINE trade == [aggressor_side     |-> aggressor,
                     price_ticks        |-> price,
                     quantity           |-> quantity,
                     trade_id           |-> st.next_trade_id,
                     buy_order_id       |-> buy_id,
                     sell_order_id      |-> sell_id,
                     execution_sequence |-> st.next_execution_sequence]
           recorded == record_trade(st, aggressor, price, quantity, buy_id, sell_id)
<1>1. /\ st.trades \in Seq(Trade) /\ st.next_trade_id \in Nat \ {0}
      /\ st.next_execution_sequence \in Nat \ {0}
  BY Zenon DEF Store
<1>2. trade \in Trade
  BY Zenon, <1>1 DEF Trade
<1>3. recorded = [trades                  |-> Append(st.trades, trade),
                  next_trade_id           |-> st.next_trade_id + 1,
                  next_execution_sequence |-> st.next_execution_sequence + 1]
  BY Zenon DEF record_trade
<1> HIDE DEF trade, recorded
<1>4. recorded \in Store /\ Len(recorded.trades) = Len(st.trades) + 1
  BY <1>1, <1>2, <1>3 DEF Store
<1>5. ASSUME NEW c, c.trade_count \in 0 .. Len(st.trades)
      PROVE  rollback(recorded, c) = rollback(st, c)
  <2>1. SubSeq(recorded.trades, 1, c.trade_count) = SubSeq(st.trades, 1, c.trade_count)
    BY <1>1, <1>2, <1>3, <1>5
  <2> QED BY Zenon, <2>1 DEF rollback
<1> QED BY <1>4, <1>5 DEF recorded

\* Rolling back twice is rolling back once.
LEMMA RollbackAgain ==
  ASSUME NEW st \in Store, NEW c, c.trade_count \in 0 .. Len(st.trades)
  PROVE  /\ Len(rollback(st, c).trades) = c.trade_count
         /\ rollback(rollback(st, c), c) = rollback(st, c)
<1>1. st.trades \in Seq(Trade) /\ c.trade_count \in Nat
  BY DEF Store
<1> DEFINE kept == SubSeq(st.trades, 1, c.trade_count)
<1>2. kept \in Seq(Trade) /\ Len(kept) = c.trade_count
  BY <1>1
<1>3. SubSeq(kept, 1, c.trade_count) = kept
  <2> HIDE DEF kept
  <2> QED BY <1>1, <1>2
<1> HIDE DEF kept
<1>4. rollback(st, c).trades = kept
  BY Zenon DEF rollback, kept
<1> QED BY Zenon, <1>2, <1>3, <1>4 DEF rollback

\* A checkpoint leads back to the store it was taken of.
LEMMA RollbackToCheckpoint ==
  ASSUME NEW st \in Store
  PROVE  /\ checkpoint(st).trade_count \in 0 .. Len(st.trades)
         /\ rollback(st, checkpoint(st)) = st
  BY DEF Store, rollback, checkpoint

(***************************************************************************)
(* The manager between two calls of the engine: its containers agree, its  *)
(* orders have something left to trade, and their numbers are older than   *)
(* the given ones and differ.                                              *)
(***************************************************************************)
Older(m, id, seq) ==
  /\ m \in Manager
  /\ Consistent(m)
  /\ \A i \in OrderId : has_order(m, i) =>
       /\ i < id
       /\ find_order(m, i).sequence_number < seq
       /\ find_order(m, i).remaining_quantity > 0
  /\ \A i, j \in OrderId : has_order(m, i) /\ has_order(m, j) /\ i # j =>
       find_order(m, i).sequence_number # find_order(m, j).sequence_number

\* Larger counters are still newer than the orders.
LEMMA OlderStill ==
  ASSUME NEW m, NEW id \in Int, NEW seq \in Int, Older(m, id, seq),
         NEW id2 \in Int, NEW seq2 \in Int, id <= id2, seq <= seq2
  PROVE  Older(m, id2, seq2)
<1>1. \A i \in OrderId : has_order(m, i) =>
        i \in Int /\ find_order(m, i).sequence_number \in Int
  BY Positions DEF Older, OrderId, LimitOrder, SequenceNumber
<1> QED BY <1>1 DEF Older

\* add_order with a number that was just given out
LEMMA OlderAfterAdd ==
  ASSUME NEW m, NEW id \in Int, NEW seq \in Int, Older(m, id, seq),
         NEW o \in LimitOrder, validate_order(o), ~ has_order(m, o.order_id),
         o.sequence_number = seq,
         NEW id2 \in Int, NEW seq2 \in Int, id <= id2, seq < seq2, o.order_id < id2
  PROVE  Older(add_order(m, o), id2, seq2)
<1> DEFINE t == add_order(m, o)
<1>1. m \in Manager /\ Consistent(m) /\ can_add_order(m, o)
  BY Zenon DEF Older, can_add_order
<1>2. t \in Manager /\ Consistent(t)
  BY Zenon, <1>1, AddOrderType, AddOrderConsistent
<1>3. \A j \in OrderId :
        /\ has_order(t, j) <=> has_order(m, j) \/ j = o.order_id
        /\ has_order(m, j) => find_order(t, j) = find_order(m, j)
        /\ find_order(t, o.order_id) = o
  BY Zenon, <1>1, AddOrderView
<1>4. \A i \in OrderId : has_order(m, i) =>
        /\ i \in Int /\ find_order(m, i).sequence_number \in Int
        /\ i < id /\ find_order(m, i).sequence_number < seq
        /\ find_order(m, i).remaining_quantity > 0
  BY Positions DEF Older, OrderId, LimitOrder, SequenceNumber
<1>5. o.remaining_quantity > 0
  BY DEF validate_order
<1> HIDE DEF t
<1>6. \A i \in OrderId : has_order(t, i) =>
        /\ i < id2
        /\ find_order(t, i).sequence_number < seq2
        /\ find_order(t, i).remaining_quantity > 0
  BY <1>3, <1>4, <1>5
<1>7. \A i, j \in OrderId : has_order(t, i) /\ has_order(t, j) /\ i # j =>
        find_order(t, i).sequence_number # find_order(t, j).sequence_number
  <2> SUFFICES ASSUME NEW i \in OrderId, NEW j \in OrderId,
                      has_order(t, i), has_order(t, j), i # j
               PROVE  find_order(t, i).sequence_number # find_order(t, j).sequence_number
    BY Zenon
  <2>1. CASE has_order(m, i) /\ has_order(m, j)
    BY <1>3, <2>1 DEF Older
  <2>2. CASE i = o.order_id
    <3>1. has_order(m, j) /\ find_order(t, j) = find_order(m, j) /\ find_order(t, i) = o
      BY Zenon, <1>3, <2>2
    <3> QED BY <1>4, <3>1
  <2>3. CASE j = o.order_id
    <3>1. has_order(m, i) /\ find_order(t, i) = find_order(m, i) /\ find_order(t, j) = o
      BY Zenon, <1>3, <2>3
    <3> QED BY <1>4, <3>1
  <2> QED BY <1>3, <2>1, <2>2, <2>3
<1> QED BY Zenon, <1>2, <1>6, <1>7 DEF Older, t

\* cancel_order
LEMMA OlderAfterCancel ==
  ASSUME NEW m, NEW id, NEW seq, Older(m, id, seq), NEW k \in OrderId, has_order(m, k)
  PROVE  /\ Older(cancel_order(m, k), id, seq)
         /\ \A j \in OrderId : has_order(cancel_order(m, k), j) <=> has_order(m, j) /\ j # k
<1> DEFINE t == cancel_order(m, k)
<1>1. m \in Manager /\ Consistent(m)
  BY DEF Older
<1>2. t \in Manager /\ Consistent(t)
  BY Zenon, <1>1, CancelOrderType, CancelOrderConsistent DEF Consistent
<1>3. \A j \in OrderId : /\ has_order(t, j) <=> has_order(m, j) /\ j # k
                         /\ has_order(t, j) => find_order(t, j) = find_order(m, j)
  BY Zenon, <1>1, CancelOrderView
<1> HIDE DEF t
<1>4. Older(t, id, seq)
  BY Zenon, <1>2, <1>3 DEF Older
<1> QED BY Zenon, <1>3, <1>4 DEF t

\* A write of quantities that leaves something to trade
LEMMA OlderAfterSet ==
  ASSUME NEW m, NEW id, NEW seq, Older(m, id, seq), NEW k \in OrderId, has_order(m, k),
         NEW original \in Quantity, NEW left \in Quantity
  PROVE  LET t == set_quantities(m, k, original, left)
         IN  /\ Older(t, id, seq)
             /\ \A j \in OrderId : has_order(t, j) <=> has_order(m, j)
<1> DEFINE t == set_quantities(m, k, original, left)
<1>1. m \in Manager /\ Consistent(m)
  BY Zenon DEF Older
<1>2. left \in 0 .. MaxQuantity /\ left > 0
  BY DEF Quantity
<1>3. QuantitiesSet(m, k, original, left, t)
  BY <1>1, <1>2, SetQuantities
<1> HIDE DEF t
<1>4. \A j \in OrderId : /\ has_order(t, j) <=> has_order(m, j)
                         /\ has_order(m, j) /\ j # k => find_order(t, j) = find_order(m, j)
  BY <1>1, <1>3, SetQuantitiesView
<1>5. /\ find_order(t, k).remaining_quantity = left
      /\ find_order(t, k).sequence_number = find_order(m, k).sequence_number
      /\ t \in Manager /\ Consistent(t)
  BY <1>3 DEF QuantitiesSet
<1>6. \A j \in OrderId : has_order(m, j) =>
        find_order(t, j).sequence_number = find_order(m, j).sequence_number
  BY Zenon, <1>4, <1>5
<1>7. Older(t, id, seq)
  BY <1>2, <1>4, <1>5, <1>6 DEF Older
<1> QED BY Zenon, <1>4, <1>7 DEF t

\* update_sequence_number with the number just given out
LEMMA OlderResequenced ==
  ASSUME NEW m, NEW id, NEW seq \in SequenceNumber, Older(m, id, seq),
         NEW k \in OrderId, has_order(m, k)
  PROVE  LET t == update_sequence_number(m, k, seq)
         IN  /\ Older(t, id, seq + 1)
             /\ \A j \in OrderId : has_order(t, j) <=> has_order(m, j)
<1> DEFINE t == update_sequence_number(m, k, seq)
<1>1. m \in Manager /\ Consistent(m) /\ find_order(m, k).sequence_number < seq
  BY Zenon DEF Older
<1>2. \A i \in OrderId : has_order(m, i) =>
        find_order(m, i).sequence_number \in Int /\ find_order(m, i).sequence_number < seq
  BY Positions DEF Older, LimitOrder, SequenceNumber
<1>3. seq \in Int /\ find_order(m, k).sequence_number # seq
  BY <1>2 DEF SequenceNumber
<1>4. t \in Manager /\ Consistent(t)
  BY Zenon, <1>1, <1>3, UpdateSequenceNumberConsistent
<1>5. \A j \in OrderId :
        /\ has_order(t, j) <=> has_order(m, j)
        /\ has_order(m, j) /\ j # k => find_order(t, j) = find_order(m, j)
        /\ find_order(t, k).sequence_number = seq
        /\ find_order(t, k).remaining_quantity = find_order(m, k).remaining_quantity
  BY <1>1, UpdateSequenceNumberView
<1> HIDE DEF t
<1>6. \A i \in OrderId : has_order(t, i) =>
        /\ i < id
        /\ find_order(t, i).sequence_number < seq + 1
        /\ find_order(t, i).remaining_quantity > 0
  BY <1>2, <1>3, <1>5 DEF Older
<1>7. \A i, j \in OrderId : has_order(t, i) /\ has_order(t, j) /\ i # j =>
        find_order(t, i).sequence_number # find_order(t, j).sequence_number
  BY <1>2, <1>3, <1>5 DEF Older
<1>8. Older(t, id, seq + 1)
  BY <1>4, <1>6, <1>7 DEF Older
<1> QED BY Zenon, <1>5, <1>8 DEF t

(***************************************************************************)
(* The book that shows the orders.                                         *)
(***************************************************************************)
\* The book that shows exactly the orders of a manager
Resting(m) == [s \in Side |-> [p \in BookPrice |-> RestingQuantity(m, s, p)]]

\* Quantities that differ at one price give books that differ in one level.
LEMMA RestingChanges ==
  ASSUME NEW m, NEW t, NEW side \in Side, NEW price \in BookPrice, NEW delta,
         \A s \in Side, p \in BookPrice :
           RestingQuantity(t, s, p) = IF s = side /\ p = price
                                      THEN RestingQuantity(m, s, p) + delta
                                      ELSE RestingQuantity(m, s, p)
  PROVE  Resting(t) = adjust_level(Resting(m), side, price, delta)
<1> DEFINE b == Resting(m)
<1>1. b = [s \in Side |-> [p \in BookPrice |-> RestingQuantity(m, s, p)]]
  BY Zenon DEF Resting
<1> HIDE DEF b
<1>2. adjust_level(b, side, price, delta) =
        [s \in Side |-> [p \in BookPrice |-> IF s = side /\ p = price
                                             THEN RestingQuantity(m, s, p) + delta
                                             ELSE RestingQuantity(m, s, p)]]
  BY Zenon, <1>1 DEF adjust_level
<1>3. Resting(t) =
        [s \in Side |-> [p \in BookPrice |-> IF s = side /\ p = price
                                             THEN RestingQuantity(m, s, p) + delta
                                             ELSE RestingQuantity(m, s, p)]]
  BY DEF Resting
<1> QED BY Zenon, <1>2, <1>3 DEF b

\* Without orders it is empty.
LEMMA RestingNothing ==
  ASSUME NEW m \in Manager, m.orders = <<>>
  PROVE  Resting(m) = EmptyBook
BY NothingRests DEF Resting, EmptyBook

\* A level is there exactly when an order is.
LEMMA RestingLevels ==
  ASSUME NEW m, NEW id, NEW seq, Older(m, id, seq), NEW s \in Side, NEW p \in BookPrice
  PROVE  /\ Resting(m)[s][p] = RestingQuantity(m, s, p)
         /\ Resting(m)[s][p] \in Nat
         /\ \A i \in OrderId : has_order(m, i) /\ find_order(m, i).side = s
                                               /\ find_order(m, i).price_ticks = p
              => /\ find_order(m, i).remaining_quantity <= Resting(m)[s][p]
                 /\ Resting(m)[s][p] > 0
         /\ Resting(m)[s][p] > 0 =>
              \E i \in OrderId : has_order(m, i) /\ find_order(m, i).side = s
                                                 /\ find_order(m, i).price_ticks = p
<1>1. m \in Manager /\ Consistent(m)
  BY Zenon DEF Older
<1>2. Resting(m)[s][p] = RestingQuantity(m, s, p)
  BY Zenon DEF Resting
<1>3. /\ RestingQuantity(m, s, p) \in Nat
      /\ \A i \in OrderId : has_order(m, i) =>
           Part(find_order(m, i), s, p) <= RestingQuantity(m, s, p)
      /\ RestingQuantity(m, s, p) # 0 =>
           \E i \in OrderId : has_order(m, i) /\ find_order(m, i).side = s
                                              /\ find_order(m, i).price_ticks = p
  BY <1>1, RestingBounds
<1>4. \A i \in OrderId : has_order(m, i) =>
        find_order(m, i).remaining_quantity \in Nat /\ find_order(m, i).remaining_quantity > 0
  BY <1>1, Positions DEF LimitOrder, Older
<1>5. \A i \in OrderId : has_order(m, i) /\ find_order(m, i).side = s
                                         /\ find_order(m, i).price_ticks = p
        => Part(find_order(m, i), s, p) = find_order(m, i).remaining_quantity
  BY Zenon DEF Part
<1> QED BY <1>2, <1>3, <1>4, <1>5

\* add_order shows in the level of the order.
LEMMA RestingAdd ==
  ASSUME NEW m \in Manager, Consistent(m), NEW o \in LimitOrder
  PROVE  Resting(add_order(m, o))
           = adjust_level(Resting(m), o.side, o.price_ticks, o.remaining_quantity)
<1>1. o.side \in Side /\ o.price_ticks \in BookPrice
  BY DEF LimitOrder, Price, BookPrice
<1>2. \A s \in Side, p \in BookPrice :
        RestingQuantity(add_order(m, o), s, p) =
          IF s = o.side /\ p = o.price_ticks
          THEN RestingQuantity(m, s, p) + o.remaining_quantity
          ELSE RestingQuantity(m, s, p)
  <2> TAKE s \in Side, p \in BookPrice
  <2>1. RestingQuantity(add_order(m, o), s, p)
          = RestingQuantity(m, s, p) + Part(o, s, p)
    BY Zenon, RestingAfterAdd
  <2>2. RestingQuantity(m, s, p) \in Nat
    BY Zenon, RestingBounds
  <2> QED BY <2>1, <2>2 DEF Part
<1> QED BY <1>1, <1>2, RestingChanges

\* So does cancel_order.
LEMMA RestingCancel ==
  ASSUME NEW m \in Manager, Consistent(m), NEW k \in OrderId, has_order(m, k)
  PROVE  LET o == find_order(m, k)
         IN  Resting(cancel_order(m, k))
               = adjust_level(Resting(m), o.side, o.price_ticks, -o.remaining_quantity)
<1> DEFINE o == find_order(m, k)
<1>1. o \in LimitOrder
  BY Zenon, Positions
<1> HIDE DEF o
<1>2. o.side \in Side /\ o.price_ticks \in BookPrice /\ o.remaining_quantity \in Nat
  BY <1>1 DEF LimitOrder, Price, BookPrice
<1>3. \A s \in Side, p \in BookPrice :
        RestingQuantity(cancel_order(m, k), s, p) =
          IF s = o.side /\ p = o.price_ticks
          THEN RestingQuantity(m, s, p) + (-o.remaining_quantity)
          ELSE RestingQuantity(m, s, p)
  <2> TAKE s \in Side, p \in BookPrice
  <2>1. RestingQuantity(cancel_order(m, k), s, p)
          = RestingQuantity(m, s, p) - Part(o, s, p)
    BY RestingAfterCancel DEF o
  <2>2. RestingQuantity(m, s, p) \in Nat
    BY Zenon, RestingBounds
  <2> QED BY <1>2, <2>1, <2>2 DEF Part
<1>4. Resting(cancel_order(m, k))
        = adjust_level(Resting(m), o.side, o.price_ticks, -o.remaining_quantity)
  BY <1>2, <1>3, RestingChanges
<1> QED BY Zenon, <1>4 DEF o

\* A write of quantities shows as the difference.
LEMMA RestingSet ==
  ASSUME NEW m \in Manager, Consistent(m), NEW k \in OrderId, has_order(m, k),
         NEW original, NEW left \in 0 .. MaxQuantity,
         NEW t, QuantitiesSet(m, k, original, left, t)
  PROVE  LET o == find_order(m, k)
         IN  Resting(t) = adjust_level(Resting(m), o.side, o.price_ticks,
                                       left - o.remaining_quantity)
<1> DEFINE o == find_order(m, k)
           u == find_order(t, k)
<1>1. o \in LimitOrder
  BY Zenon, Positions
<1>2. /\ t \in Manager /\ Len(t.orders) = Len(m.orders)
      /\ \A i \in 1 .. Len(m.orders) : i # m.order_indices[k] => t.orders[i] = m.orders[i]
      /\ t.order_indices = m.order_indices
      /\ u.side = o.side /\ u.price_ticks = o.price_ticks /\ u.remaining_quantity = left
  BY DEF QuantitiesSet
<1>3. \A s \in Side, p \in BookPrice :
        RestingQuantity(t, s, p) =
          (RestingQuantity(m, s, p) - Part(o, s, p)) + Part(u, s, p)
  BY <1>2, RestingAfterSet
<1> HIDE DEF o, u
<1>4. /\ o.side \in Side /\ o.price_ticks \in BookPrice /\ o.remaining_quantity \in Nat
      /\ left \in Nat
  BY <1>1 DEF LimitOrder, Price, BookPrice
<1>5. \A s \in Side, p \in BookPrice :
        RestingQuantity(t, s, p) =
          IF s = o.side /\ p = o.price_ticks
          THEN RestingQuantity(m, s, p) + (left - o.remaining_quantity)
          ELSE RestingQuantity(m, s, p)
  <2> TAKE s \in Side, p \in BookPrice
  <2>1. RestingQuantity(m, s, p) \in Nat
    BY Zenon, RestingBounds
  <2>2. RestingQuantity(t, s, p) =
          (RestingQuantity(m, s, p) - Part(o, s, p)) + Part(u, s, p)
    BY Zenon, <1>3
  <2> QED BY <1>2, <1>4, <2>1, <2>2 DEF Part
<1>6. Resting(t) = adjust_level(Resting(m), o.side, o.price_ticks,
                                left - o.remaining_quantity)
  BY <1>4, <1>5, RestingChanges
<1> QED BY Zenon, <1>6 DEF o

\* A new sequence number does not show.
LEMMA RestingResequenced ==
  ASSUME NEW m \in Manager, Consistent(m), NEW k \in OrderId, has_order(m, k),
         NEW seq \in SequenceNumber, find_order(m, k).sequence_number # seq
  PROVE  Resting(update_sequence_number(m, k, seq)) = Resting(m)
<1> DEFINE o == find_order(m, k)
           t == update_sequence_number(m, k, seq)
           u == find_order(t, k)
<1>1. t \in Manager
  BY Zenon, UpdateSequenceNumberConsistent
<1>2. u.side = o.side /\ u.price_ticks = o.price_ticks
        /\ u.remaining_quantity = o.remaining_quantity
  BY UpdateSequenceNumberView
<1>3. /\ Len(t.orders) = Len(m.orders) /\ t.order_indices = m.order_indices
      /\ \A i \in 1 .. Len(m.orders) : i # m.order_indices[k] => t.orders[i] = m.orders[i]
  BY ManagerFields DEF update_sequence_number
<1>4. \A s \in Side, p \in BookPrice :
        RestingQuantity(t, s, p) =
          (RestingQuantity(m, s, p) - Part(o, s, p)) + Part(u, s, p)
  <2> HIDE DEF t
  <2> QED BY <1>1, <1>3, RestingAfterSet
<1>5. o \in LimitOrder
  BY Zenon, Positions
<1> HIDE DEF o, t, u
<1>6. \A s \in Side, p \in BookPrice : RestingQuantity(t, s, p) = RestingQuantity(m, s, p)
  <2> TAKE s \in Side, p \in BookPrice
  <2>1. RestingQuantity(m, s, p) \in Nat
    BY Zenon, RestingBounds
  <2>2. Part(u, s, p) = Part(o, s, p) /\ Part(o, s, p) \in Nat
    BY <1>2, <1>5, PartTypes DEF Part
  <2> QED BY <1>4, <2>1, <2>2
<1> QED BY Zenon, <1>6 DEF Resting, t

\* A manager with an order is not empty.
LEMMA HasOrders ==
  ASSUME NEW m, NEW id, NEW seq, Older(m, id, seq), NEW k \in OrderId, has_order(m, k)
  PROVE  m.orders # <<>>
<1>1. m \in Manager /\ Consistent(m)
  BY Zenon DEF Older
<1>2. m.order_indices[k] \in 1 .. Len(m.orders)
  BY Zenon, <1>1, Positions
<1> QED BY <1>2

\* Between two calls: local orders rest, and the book shows them uncrossed.
Sound(b, m) == m.orders # <<>> => b = Resting(m) /\ ~ Crossed(b)

(***************************************************************************)
(* Prices that cross nothing.                                              *)
(***************************************************************************)
\* No level of the other side would trade with an order at this price.
NoneAccepted(b, side, price) ==
  \A p \in BookPrice : b[Opposite(side)][p] > 0 => ~ Accepts(side, price, p)

\* crosses_order_book looks at the best level only, and that is enough.
LEMMA BestPriceDecides ==
  ASSUME NEW b \in Book, NEW side \in Side, NEW price \in Price,
         ~ (/\ has_level(b, Opposite(side))
            /\ Accepts(side, price, best_price(b, Opposite(side))))
  PROVE  NoneAccepted(b, side, price)
<1>1. Opposite(side) \in Side
  BY Zenon DEF Opposite, Side
<1>2. \A p \in BookPrice : b[Opposite(side)][p] > 0 => has_level(b, Opposite(side))
  BY Zenon DEF has_level
<1>3. \A p \in BookPrice : p \in Int
  BY DEF BookPrice
<1>4. price \in Int
  BY DEF Price
<1>5. SUFFICES ASSUME has_level(b, Opposite(side)) PROVE NoneAccepted(b, side, price)
  BY Zenon, <1>2 DEF NoneAccepted
<1>6. /\ best_price(b, Opposite(side)) \in BookPrice
      /\ \A q \in BookPrice : b[Opposite(side)][q] > 0 /\ q # best_price(b, Opposite(side))
           => Better(Opposite(side), best_price(b, Opposite(side)), q)
  BY <1>1, <1>5, BestPrice
<1> QED BY <1>3, <1>4, <1>5, <1>6 DEF NoneAccepted, Accepts, Better, Opposite, Side

\* A book stays uncrossed when no level appears.
LEMMA StaysUncrossed ==
  ASSUME NEW b \in Book, NEW c \in Book, ~ Crossed(b),
         \A s \in Side, p \in BookPrice : c[s][p] > 0 => b[s][p] > 0
  PROVE  ~ Crossed(c)
BY Zenon DEF Crossed, Side

\* A level at a price that accepts nothing of the other side crosses nothing.
LEMMA UncrossedLevel ==
  ASSUME NEW b \in Book, NEW side \in Side, NEW price \in BookPrice,
         NEW delta \in Int, can_adjust(b, side, price, delta),
         ~ Crossed(b), NoneAccepted(b, side, price)
  PROVE  ~ Crossed(adjust_level(b, side, price, delta))
<1> DEFINE c == adjust_level(b, side, price, delta)
<1>1. \A s \in Side, p \in BookPrice :
        c[s][p] = IF s = side /\ p = price THEN b[s][p] + delta ELSE b[s][p]
  BY AdjustLevel
<1> HIDE DEF c
<1>2. SUFFICES ASSUME NEW p \in BookPrice, NEW q \in BookPrice,
                      c["Buy"][p] > 0, c["Sell"][q] > 0, p >= q
               PROVE  FALSE
  BY Zenon DEF Crossed, c
<1>3. p \in Int /\ q \in Int /\ price \in Int
  BY DEF BookPrice
<1>4. CASE side = "Buy"
  <2>1. b["Sell"][q] > 0
    BY <1>1, <1>2, <1>4 DEF Side
  <2>2. price < q
    BY <1>3, <1>4, <2>1 DEF NoneAccepted, Accepts, Opposite
  <2>3. b["Buy"][p] > 0
    BY <1>1, <1>2, <1>3, <1>4, <2>2 DEF Side
  <2> QED BY Zenon, <1>2, <2>1, <2>3 DEF Crossed
<1>5. CASE side = "Sell"
  <2>1. b["Buy"][p] > 0
    BY <1>1, <1>2, <1>5 DEF Side
  <2>2. p < price
    BY <1>3, <1>5, <2>1 DEF NoneAccepted, Accepts, Opposite
  <2>3. b["Sell"][q] > 0
    BY <1>1, <1>2, <1>3, <1>5, <2>2 DEF Side
  <2> QED BY Zenon, <1>2, <2>1, <2>3 DEF Crossed
<1> QED BY Zenon, <1>4, <1>5 DEF Side

\* find_best_match looks at the best order only, and that is enough.
LEMMA BestOrderDecides ==
  ASSUME NEW m, NEW id, NEW seq, Older(m, id, seq), NEW side \in Side, NEW price \in Price,
         ~ (/\ has_best_order(m, Opposite(side))
            /\ Accepts(side, price, best_order(m, Opposite(side)).price_ticks))
  PROVE  NoneAccepted(Resting(m), side, price)
<1>1. m \in Manager /\ Consistent(m) /\ Opposite(side) \in Side
  BY DEF Older, Opposite, Side
<1> DEFINE other == Opposite(side)
           b == best_order(m, other)
<1>2. SUFFICES ASSUME NEW p \in BookPrice, Resting(m)[other][p] > 0
               PROVE  ~ Accepts(side, price, p)
  BY Zenon DEF NoneAccepted
<1>3. PICK i \in OrderId : has_order(m, i) /\ find_order(m, i).side = other
                                           /\ find_order(m, i).price_ticks = p
  BY <1>1, <1>2, RestingLevels
<1>4. has_best_order(m, other)
  BY Zenon, <1>1, <1>3, BestOrder
<1>5. b.price_ticks \in Price /\ ~ Better(other, p, b.price_ticks)
  BY Zenon, <1>1, <1>3, <1>4, BestOrder DEF LimitOrder
<1>6. ~ Accepts(side, price, b.price_ticks)
  BY <1>4
<1> HIDE DEF b
<1> QED BY <1>5, <1>6 DEF Accepts, Better, Opposite, Side, Price, BookPrice

\* Changing a level that is there does not cross the book.
LEMMA ChangedLevelUncrossed ==
  ASSUME NEW b \in Book, ~ Crossed(b), NEW side \in Side, NEW price \in BookPrice,
         NEW delta \in Int, can_adjust(b, side, price, delta), b[side][price] > 0
  PROVE  ~ Crossed(adjust_level(b, side, price, delta))
<1>1. PICK c : c = adjust_level(b, side, price, delta)
  BY Zenon
<1>2. /\ c \in Book
      /\ \A s \in Side, p \in BookPrice :
           c[s][p] = IF s = side /\ p = price THEN b[s][p] + delta ELSE b[s][p]
  BY <1>1, AdjustLevel
<1>3. \A s \in Side, p \in BookPrice : c[s][p] > 0 => b[s][p] > 0
  BY Zenon, <1>2
<1>4. ~ Crossed(c)
  BY Zenon, <1>2, <1>3, StaysUncrossed
<1> QED BY Zenon, <1>1, <1>4

\* An order that nothing on the other side accepts joins the book.
LEMMA JoinedBook ==
  ASSUME NEW m \in Manager, Consistent(m), NEW b \in Book, b = Resting(m), ~ Crossed(b),
         NEW o \in LimitOrder, o.side \in Side, o.price_ticks \in BookPrice,
         NEW quantity \in Int, quantity = o.remaining_quantity,
         can_adjust(b, o.side, o.price_ticks, quantity),
         NoneAccepted(b, o.side, o.price_ticks)
  PROVE  Sound(adjust_level(b, o.side, o.price_ticks, quantity), add_order(m, o))
<1>1. Resting(add_order(m, o)) = adjust_level(b, o.side, o.price_ticks, quantity)
  BY RestingAdd
<1>2. ~ Crossed(adjust_level(b, o.side, o.price_ticks, quantity))
  BY Zenon, UncrossedLevel
<1> QED BY <1>1, <1>2 DEF Sound

\* A new quantity, with or without a new place in the queue
LEMMA RestingModified ==
  ASSUME NEW m, NEW id, NEW seq \in SequenceNumber, Older(m, id, seq),
         NEW k \in OrderId, has_order(m, k), NEW quantity \in Quantity,
         NEW o, o = find_order(m, k), NEW n,
         n = m \/ n = update_sequence_number(m, k, seq)
  PROVE  Resting(set_quantities(n, k, quantity, quantity))
           = adjust_level(Resting(m), o.side, o.price_ticks, quantity - o.remaining_quantity)
<1>1. /\ m \in Manager /\ Consistent(m) /\ find_order(m, k).sequence_number < seq
  BY Zenon DEF Older
<1>2. find_order(m, k).sequence_number # seq
  <2>1. find_order(m, k).sequence_number \in Int /\ seq \in Int
    <3>1. find_order(m, k) \in LimitOrder
      BY Zenon, <1>1, Positions
    <3> QED BY <3>1 DEF LimitOrder, SequenceNumber
  <2> QED BY <1>1, <2>1
<1>3. /\ n \in Manager /\ Consistent(n) /\ has_order(n, k)
      /\ find_order(n, k).side = o.side
      /\ find_order(n, k).price_ticks = o.price_ticks
      /\ find_order(n, k).remaining_quantity = o.remaining_quantity
      /\ Resting(n) = Resting(m)
  <2>1. CASE n = m
    BY Zenon, <1>1, <2>1
  <2>2. CASE n = update_sequence_number(m, k, seq)
    <3>1. n \in Manager /\ Consistent(n)
      BY <1>1, <1>2, <2>2, UpdateSequenceNumberConsistent
    <3>2. /\ has_order(n, k)
          /\ find_order(n, k) = [order_id           |-> k,
                                 side               |-> o.side,
                                 price_ticks        |-> o.price_ticks,
                                 original_quantity  |-> o.original_quantity,
                                 remaining_quantity |-> o.remaining_quantity,
                                 sequence_number    |-> seq]
      BY <1>1, <2>2, UpdateSequenceNumberView
    <3>3. Resting(n) = Resting(m)
      BY Zenon, <1>1, <1>2, <2>2, RestingResequenced
    <3> QED BY <3>1, <3>2, <3>3
  <2> QED BY <2>1, <2>2
<1>4. quantity \in 0 .. MaxQuantity
  BY DEF Quantity
<1>5. QuantitiesSet(n, k, quantity, quantity, set_quantities(n, k, quantity, quantity))
  BY <1>3, <1>4, SetQuantities
<1>6. PICK t : t = set_quantities(n, k, quantity, quantity)
  BY Zenon
<1>7. Resting(t) = adjust_level(Resting(n), find_order(n, k).side, find_order(n, k).price_ticks,
                                quantity - find_order(n, k).remaining_quantity)
  BY <1>3, <1>4, <1>5, <1>6, RestingSet
<1> QED BY <1>3, <1>6, <1>7

\* The book takes back what an undone trade took out.
LEMMA TradeUndone ==
  ASSUME NEW b \in Book, NEW c \in Book, NEW side \in Side, NEW price \in BookPrice,
         NEW quantity \in Int, c = adjust_level(b, side, price, quantity)
  PROVE  can_adjust(b, side, price, quantity)
<1>1. c[side][price] = b[side][price] + quantity
  BY AdjustLevel
<1>2. c[side][price] \in LevelQuantity
  BY Zenon DEF Book
<1> QED BY Zenon, <1>1, <1>2 DEF can_adjust

-----------------------------------------------------------------------------
(***************************************************************************)
(* The matching engine's journal: what it keeps of a fill, and how the     *)
(* entry undoes it.                                                        *)
(***************************************************************************)
OrderMutation ==
  [order_id                    : OrderId,
   side                        : Side,
   price_ticks                 : Price,
   executed_quantity           : Quantity,
   original_remaining_quantity : Quantity,
   removal                     : SUBSET Removal]

Restored(mutation, r) ==
  with_removed_order(r,
    with_quantities(r.removed_order, r.removed_order.original_quantity,
                    mutation.original_remaining_quantity))

Undoes(mutation, after, m) ==
  \/ \E r \in Removal :
       /\ mutation.removal = {r}
       /\ restorable(after, Restored(mutation, r))
       /\ m = restore_removal(after, Restored(mutation, r))
  \/ /\ mutation.removal = {}
     /\ m = set_quantities(after, mutation.order_id,
                           find_order(after, mutation.order_id).original_quantity,
                           mutation.original_remaining_quantity)

\* What a fill does to the manager
Fill(m, o, executed) ==
  LET reduced == set_quantities(m, o.order_id, o.original_quantity,
                                o.remaining_quantity - executed)
  IN  IF executed = o.remaining_quantity THEN cancel_order(reduced, o.order_id) ELSE reduced

\* What the journal keeps of it
FillRecord(m, o, executed) ==
  LET reduced == set_quantities(m, o.order_id, o.original_quantity,
                                o.remaining_quantity - executed)
  IN  [order_id |-> o.order_id, side |-> o.side, price_ticks |-> o.price_ticks,
       executed_quantity |-> executed,
       original_remaining_quantity |-> o.remaining_quantity,
       removal |-> IF executed = o.remaining_quantity
                   THEN {removal_of(reduced, o.order_id)} ELSE {}]

\* A fill keeps the manager in order, shows as the executed quantity, and its
\* journal entry undoes it.
LEMMA FillEffect ==
  ASSUME NEW m, NEW id, NEW seq, Older(m, id, seq), NEW k \in OrderId, has_order(m, k),
         NEW o, o = find_order(m, k), NEW executed \in Quantity,
         executed <= o.remaining_quantity
  PROVE  /\ Older(Fill(m, o, executed), id, seq)
         /\ \A j \in OrderId : has_order(Fill(m, o, executed), j) => has_order(m, j)
         /\ FillRecord(m, o, executed) \in OrderMutation
         /\ Undoes(FillRecord(m, o, executed), Fill(m, o, executed), m)
         /\ Resting(Fill(m, o, executed))
              = adjust_level(Resting(m), o.side, o.price_ticks, -executed)
<1> DEFINE left    == o.remaining_quantity - executed
           reduced == set_quantities(m, k, o.original_quantity, left)
           filled  == executed = o.remaining_quantity
           record  == FillRecord(m, o, executed)
           t       == Fill(m, o, executed)
<1>1. /\ m \in Manager /\ Consistent(m)
      /\ o \in LimitOrder /\ o.order_id = k
  BY Positions DEF Older
<1>2. /\ o.side \in Side /\ o.price_ticks \in Price /\ o.original_quantity \in Quantity
      /\ o.remaining_quantity \in Quantity
      /\ o.remaining_quantity \in Nat /\ executed \in Nat /\ executed > 0
      /\ left \in 0 .. MaxQuantity /\ left = o.remaining_quantity + (-executed)
  BY <1>1, MarketAssumption DEF Older, LimitOrder, Quantity
<1>3. QuantitiesSet(m, k, o.original_quantity, left, reduced)
  <2> HIDE DEF left
  <2> QED BY Zenon, <1>1, <1>2, SetQuantities
<1>4. /\ t = IF filled THEN cancel_order(reduced, k) ELSE reduced
      /\ record = [order_id |-> k, side |-> o.side, price_ticks |-> o.price_ticks,
                   executed_quantity |-> executed,
                   original_remaining_quantity |-> o.remaining_quantity,
                   removal |-> IF filled THEN {removal_of(reduced, k)} ELSE {}]
  BY Zenon, <1>1 DEF Fill, FillRecord
<1>5. /\ record.order_id = k /\ record.original_remaining_quantity = o.remaining_quantity
      /\ record.removal = IF filled THEN {removal_of(reduced, k)} ELSE {}
  BY <1>4
<1>6. CASE filled
  <2>1. left = 0
    BY <1>2, <1>6
  <2>2. /\ cancel_order(reduced, k) = cancel_order(m, k)
        /\ removal_of(reduced, k) \in Removal
        /\ Restored(record, removal_of(reduced, k)) = removal_of(m, k)
    <3>1. QuantitiesSet(m, k, o.original_quantity, 0, reduced)
      BY Zenon, <1>3, <2>1
    <3> HIDE DEF reduced, record
    <3> QED BY <1>1, <1>5, <3>1, FilledOrderRemoved DEF Restored
  <2> HIDE DEF reduced, record, t, left
  <2>3. t = cancel_order(m, k)
    BY Zenon, <1>4, <1>6, <2>2
  <2>4. /\ Older(t, id, seq)
        /\ \A j \in OrderId : has_order(t, j) => has_order(m, j)
    BY <2>3, OlderAfterCancel
  <2>5. record \in OrderMutation
    BY <1>1, <1>2, <1>4, <1>6, <2>2 DEF OrderMutation
  <2>6. /\ restorable(t, removal_of(m, k)) /\ restore_removal(t, removal_of(m, k)) = m
    BY <1>1, <2>3, RestoreInvertsCancel
  <2>7. Undoes(record, t, m)
    <3>1. record.removal = {removal_of(reduced, k)}
      BY <1>5, <1>6
    <3> QED BY <2>2, <2>6, <3>1 DEF Undoes
  <2>8. Resting(t) = adjust_level(Resting(m), o.side, o.price_ticks, -executed)
    BY <1>1, <1>6, <2>3, RestingCancel
  <2> QED BY Zenon, <2>4, <2>5, <2>7, <2>8 DEF record, t
<1>7. CASE ~ filled
  <2>1. t = reduced
    BY <1>4, <1>7
  <2>2. left \in Quantity
    BY <1>2, <1>7 DEF Quantity
  <2>3. /\ Older(reduced, id, seq)
        /\ \A j \in OrderId : has_order(reduced, j) <=> has_order(m, j)
    <3>1. o.original_quantity \in Quantity
      BY <1>2
    <3> HIDE DEF left
    <3> QED BY <2>2, <3>1, OlderAfterSet, Zenon
  <2>4. record \in OrderMutation
    <3> HIDE DEF record
    <3> QED BY <1>1, <1>2, <1>4, <1>7 DEF OrderMutation
  <2>5. Undoes(record, reduced, m)
    <3>1. set_quantities(reduced, k, find_order(reduced, k).original_quantity,
                         o.remaining_quantity) = m
      <4> HIDE DEF left
      <4> QED BY <1>1, <1>2, FillUndone
    <3> HIDE DEF reduced, record
    <3> QED BY <1>5, <1>7, <3>1 DEF Undoes
  <2>6. Resting(reduced) = adjust_level(Resting(m), o.side, o.price_ticks, -executed)
    <3>1. left - o.remaining_quantity = -executed
      BY <1>2
    <3>2. Resting(reduced) = adjust_level(Resting(m), o.side, o.price_ticks,
                                          left - o.remaining_quantity)
      <4> HIDE DEF left, reduced
      <4> QED BY <1>1, <1>2, <1>3, RestingSet
    <3> HIDE DEF left
    <3> QED BY <3>1, <3>2
  <2> HIDE DEF reduced, record, t
  <2> QED BY <2>1, <2>3, <2>4, <2>5, <2>6 DEF record, t
<1> QED BY Zenon, <1>6, <1>7

\* An entry whose fill did not happen undoes nothing.
LEMMA EntryWithoutFill ==
  ASSUME NEW m, NEW id, NEW seq, Older(m, id, seq), NEW k \in OrderId, has_order(m, k),
         NEW o, o = find_order(m, k), NEW entry, entry.order_id = k,
         entry.original_remaining_quantity = o.remaining_quantity, entry.removal = {}
  PROVE  Undoes(entry, m, m)
<1>1. /\ m \in Manager /\ Consistent(m)
      /\ o \in LimitOrder /\ o.order_id = k
  BY Positions DEF Older
<1>2. set_quantities(m, k, o.original_quantity, o.remaining_quantity) = m
  <2> DEFINE t == set_quantities(m, k, o.original_quantity, o.remaining_quantity)
  <2>1. o.original_quantity \in Quantity /\ o.remaining_quantity \in 0 .. MaxQuantity
    BY Zenon, <1>1 DEF LimitOrder
  <2>2. QuantitiesSet(m, k, o.original_quantity, o.remaining_quantity, t)
    BY <1>1, <2>1, SetQuantities
  <2> HIDE DEF t
  <2>3. t \in Manager
    BY Zenon, <2>2 DEF QuantitiesSet
  <2>4. find_order(t, k) = t.orders[m.order_indices[k]] /\ find_order(t, k) = o
    <3>1. find_order(t, k) = [o EXCEPT !.remaining_quantity = o.remaining_quantity]
      BY <2>2, <1>1 DEF QuantitiesSet, LimitOrder
    <3>2. t.order_indices = m.order_indices
      BY Zenon, <2>2 DEF QuantitiesSet
    <3> QED BY Zenon, <1>1, <3>1, <3>2 DEF find_order, LimitOrder
  <2>5. o = m.orders[m.order_indices[k]]
    BY DEF find_order
  <2>6. /\ Len(t.orders) = Len(m.orders)
        /\ \A i \in 1 .. Len(m.orders) : t.orders[i] = m.orders[i]
        /\ \A j \in OrderId : t.order_indices[j] = m.order_indices[j]
        /\ \A s \in Side : t.priority_index[s] = m.priority_index[s]
    BY Zenon, <2>2, <2>4, <2>5 DEF QuantitiesSet
  <2>7. t = m
    BY Zenon, <1>1, <2>3, <2>6, ManagerEqual
  <2> QED BY Zenon, <2>7 DEF t
<1> QED BY Zenon, <1>1, <1>2 DEF Undoes
=============================================================================
