----------------------------- MODULE OrderManager -----------------------------
(***************************************************************************)
(* The active limit orders of the engine: OrderManager in                  *)
(* include/order_manager.hpp and src/order_manager.cpp.                    *)
(*                                                                         *)
(* A manager is a value with the three containers of the class:            *)
(*   orders          orders_, a vector that is not kept in any order:      *)
(*                   a removal moves the last order into the gap;          *)
(*   order_indices   order_indices_, from order id to vector position;     *)
(*                   positions count from 1 and 0 stands for no entry;     *)
(*   priority_index  buy_priority_index_ and sell_priority_index_, the     *)
(*                   sets of keys whose first element is the best order.   *)
(* Every method is an operator from the manager before it to the manager   *)
(* after it.  The class reports a broken index with std::logic_error; the  *)
(* conditions of those throws are the operator restorable and the          *)
(* predicate Consistent, which the specifications that use this module     *)
(* check.                                                                  *)
(***************************************************************************)
EXTENDS MarketTypes, Sequences

CONSTANTS
  MaxOrderId,     \* the largest OrderId, std::uint64_t in the code
  MaxSequence     \* the largest FIFO sequence number, std::uint64_t

ASSUME OrderManagerAssumption ==
  /\ MaxOrderId \in Nat \ {0}
  /\ MaxSequence \in Nat \ {0}

\* validate_order rejects zero ids and sequence numbers.
OrderId        == 1 .. MaxOrderId
SequenceNumber == 1 .. MaxSequence

\* struct LimitOrder.  remaining_quantity is 0 only between the fill of a
\* resting order and its removal.
LimitOrder ==
  [order_id           : OrderId,
   side               : Side,
   price_ticks        : Price,
   original_quantity  : Quantity,
   remaining_quantity : 0 .. MaxQuantity,
   sequence_number    : SequenceNumber]

PriorityKey ==
  [price_ticks : Price, sequence_number : SequenceNumber, order_id : OrderId]

Manager ==
  [orders         : Seq(LimitOrder),
   order_indices  : [OrderId -> Nat],
   priority_index : [Side -> SUBSET PriorityKey]]

NoOrders ==
  [orders         |-> <<>>,
   order_indices  |-> [id \in OrderId |-> 0],
   priority_index |-> [s \in Side |-> {}]]

validate_order(o) ==
  /\ o \in LimitOrder
  /\ o.remaining_quantity > 0
  /\ o.remaining_quantity <= o.original_quantity

make_priority_key(o) ==
  [price_ticks     |-> o.price_ticks,
   sequence_number |-> o.sequence_number,
   order_id        |-> o.order_id]

\* Mutant: the newest order of a price goes first.
Before_newest_first(side, j, k) ==
  \/ Better(side, j.price_ticks, k.price_ticks)
  \/ /\ j.price_ticks = k.price_ticks
     /\ j.sequence_number > k.sequence_number

(***************************************************************************)
(* BuyPriorityCompare and SellPriorityCompare: better price, then earlier  *)
(* sequence number, then smaller id.                                       *)
(***************************************************************************)
Before(side, j, k) ==
  \/ Better(side, j.price_ticks, k.price_ticks)
  \/ /\ j.price_ticks = k.price_ticks
     /\ \/ j.sequence_number < k.sequence_number
        \/ /\ j.sequence_number = k.sequence_number
           /\ j.order_id < k.order_id

-----------------------------------------------------------------------------
(* Queries                                                                 *)

has_order(m, id) == m.order_indices[id] # 0

find_order(m, id) == m.orders[m.order_indices[id]]

has_best_order(m, side) == m.priority_index[side] # {}

\* best_buy_order and best_sell_order: the order of begin() of the set.
best_order(m, side) ==
  LET first == CHOOSE k \in m.priority_index[side] :
                 \A j \in m.priority_index[side] \ {k} : Before(side, k, j)
  IN  find_order(m, first.order_id)

-----------------------------------------------------------------------------
(* Methods that change the manager                                         *)

can_add_order(m, o) == validate_order(o) /\ ~ has_order(m, o.order_id)

\* add_order: the vector, then the id index, then the priority index.
add_order(m, o) ==
  [orders         |-> Append(m.orders, o),
   order_indices  |-> [m.order_indices EXCEPT ![o.order_id] = Len(m.orders) + 1],
   priority_index |-> [m.priority_index EXCEPT
                         ![o.side] = @ \cup {make_priority_key(o)}]]

\* The catch block of add_order, after emplace or the priority insertion ran
\* out of memory: what was added is taken out again, last first.
add_order_failed(m, o, id_index_added) ==
  LET pushed  == Append(m.orders, o)
      indexed == IF id_index_added
                 THEN [m.order_indices EXCEPT ![o.order_id] = Len(pushed)]
                 ELSE m.order_indices
  IN  [orders         |-> SubSeq(pushed, 1, Len(pushed) - 1),
       order_indices  |-> IF id_index_added
                          THEN [indexed EXCEPT ![o.order_id] = 0]
                          ELSE indexed,
       priority_index |-> m.priority_index]

\* Mutant: the order that fills the gap keeps its old position in the index.
cancel_order_no_reindex(m, id) ==
  LET index == m.order_indices[id]
      last  == Len(m.orders)
      gone  == m.orders[index]
  IN  [orders         |-> [i \in 1 .. last - 1 |->
                             IF i = index THEN m.orders[last] ELSE m.orders[i]],
       order_indices  |-> [m.order_indices EXCEPT ![id] = 0],
       priority_index |-> [m.priority_index EXCEPT
                             ![gone.side] = @ \ {make_priority_key(gone)}]]

\* cancel_order: the last order of the vector fills the gap of the removed one.
cancel_order(m, id) ==
  LET index == m.order_indices[id]
      last  == Len(m.orders)
      gone  == m.orders[index]
  IN  [orders         |-> [i \in 1 .. last - 1 |->
                             IF i = index THEN m.orders[last] ELSE m.orders[i]],
       order_indices  |-> [j \in OrderId |->
                             IF j = id THEN 0
                             ELSE IF index # last /\ j = m.orders[last].order_id
                             THEN index
                             ELSE m.order_indices[j]],
       priority_index |-> [m.priority_index EXCEPT
                             ![gone.side] = @ \ {make_priority_key(gone)}]]

\* Mutant: the id of the moved order is read after the move.
removal_of_late_id(m, id) ==
  LET index == m.order_indices[id]
      last  == Len(m.orders)
  IN  [removed_order    |-> m.orders[index],
       original_index   |-> index,
       swapped          |-> index # last,
       swapped_order_id |-> IF index # last THEN m.orders[index].order_id ELSE 0,
       priority_key     |-> make_priority_key(m.orders[index])]

\* The Removal that the second overload of cancel_order fills in.  The
\* extracted priority node is represented by its key.
removal_of(m, id) ==
  LET index == m.order_indices[id]
      last  == Len(m.orders)
  IN  [removed_order    |-> m.orders[index],
       original_index   |-> index,
       swapped          |-> index # last,
       swapped_order_id |-> IF index # last THEN m.orders[last].order_id ELSE 0,
       priority_key     |-> make_priority_key(m.orders[index])]

Removal ==
  [removed_order    : LimitOrder,
   original_index   : Nat \ {0},
   swapped          : BOOLEAN,
   swapped_order_id : OrderId \cup {0},
   priority_key     : PriorityKey]

\* What restore_removal checks before it trusts the record; each failed check
\* is a std::logic_error.
restorable(m, r) ==
  /\ ~ has_order(m, r.removed_order.order_id)
  /\ r.priority_key \notin m.priority_index[r.removed_order.side]
  /\ r.swapped =>
       /\ r.original_index \in 1 .. Len(m.orders)
       /\ m.orders[r.original_index].order_id = r.swapped_order_id
       /\ has_order(m, r.swapped_order_id)

\* Mutant: the order comes back at the end, without the swap.
restore_removal_at_end(m, r) ==
  [orders         |-> Append(m.orders, r.removed_order),
   order_indices  |-> [m.order_indices EXCEPT
                         ![r.removed_order.order_id] = Len(m.orders) + 1],
   priority_index |-> [m.priority_index EXCEPT
                         ![r.removed_order.side] = @ \cup {r.priority_key}]]

\* restore_removal: push_back, std::swap with the gap's order, reinsertion of
\* the two nodes, and the new position of the order that was swapped.
restore_removal(m, r) ==
  LET last == Len(m.orders) + 1
      id   == r.removed_order.order_id
  IN  [orders         |-> [i \in 1 .. last |->
                             IF ~ r.swapped
                             THEN IF i = last THEN r.removed_order ELSE m.orders[i]
                             ELSE IF i = r.original_index THEN r.removed_order
                             ELSE IF i = last THEN m.orders[r.original_index]
                             ELSE m.orders[i]],
       order_indices  |-> [j \in OrderId |->
                             IF r.swapped /\ j = r.swapped_order_id THEN last
                             ELSE IF j = id THEN r.original_index
                             ELSE m.order_indices[j]],
       priority_index |-> [m.priority_index EXCEPT
                             ![r.removed_order.side] = @ \cup {r.priority_key}]]

with_order(m, id, o) ==
  [orders         |-> [m.orders EXCEPT ![m.order_indices[id]] = o],
   order_indices  |-> m.order_indices,
   priority_index |-> m.priority_index]

\* The engine writes the quantities of an active order through find_order.
with_quantities(o, original, remaining) ==
  [order_id           |-> o.order_id,
   side               |-> o.side,
   price_ticks        |-> o.price_ticks,
   original_quantity  |-> original,
   remaining_quantity |-> remaining,
   sequence_number    |-> o.sequence_number]

set_quantities(m, id, original, remaining) ==
  with_order(m, id, with_quantities(find_order(m, id), original, remaining))

\* Before it restores a removal, the engine writes the order it wants back.
with_removed_order(r, o) ==
  [removed_order    |-> o,
   original_index   |-> r.original_index,
   swapped          |-> r.swapped,
   swapped_order_id |-> r.swapped_order_id,
   priority_key     |-> r.priority_key]

\* Mutant: the old key stays in the priority set.
update_sequence_number_keeps_key(m, id, seq) ==
  LET o       == find_order(m, id)
      updated == [order_id           |-> o.order_id,
                  side               |-> o.side,
                  price_ticks        |-> o.price_ticks,
                  original_quantity  |-> o.original_quantity,
                  remaining_quantity |-> o.remaining_quantity,
                  sequence_number    |-> seq]
  IN  [orders         |-> [m.orders EXCEPT ![m.order_indices[id]] = updated],
       order_indices  |-> m.order_indices,
       priority_index |-> [m.priority_index EXCEPT ![o.side] =
                             @ \cup {make_priority_key(updated)}]]

\* update_sequence_number for an existing order and a different number: the
\* new key goes in before the old one comes out.
update_sequence_number(m, id, seq) ==
  LET o       == find_order(m, id)
      updated == [order_id           |-> o.order_id,
                  side               |-> o.side,
                  price_ticks        |-> o.price_ticks,
                  original_quantity  |-> o.original_quantity,
                  remaining_quantity |-> o.remaining_quantity,
                  sequence_number    |-> seq]
  IN  [orders         |-> [m.orders EXCEPT ![m.order_indices[id]] = updated],
       order_indices  |-> m.order_indices,
       priority_index |-> [m.priority_index EXCEPT ![o.side] =
                             (@ \cup {make_priority_key(updated)})
                                \ {make_priority_key(o)}]]

-----------------------------------------------------------------------------
(***************************************************************************)
(* The three containers describe the same orders: every order is indexed   *)
(* at its own position and nothing else is indexed, and each side's        *)
(* priority set holds exactly the keys of that side's orders               *)
(* (docs/architecture.md, "OrderId Index" and "Priority Indexes").         *)
(***************************************************************************)
IndexConsistent(m) ==
  /\ \A i \in 1 .. Len(m.orders) :
       m.order_indices[m.orders[i].order_id] = i
  /\ \A id \in OrderId : has_order(m, id) =>
       /\ m.order_indices[id] \in 1 .. Len(m.orders)
       /\ m.orders[m.order_indices[id]].order_id = id

PriorityConsistent(m) ==
  /\ \A i \in 1 .. Len(m.orders) :
       make_priority_key(m.orders[i]) \in m.priority_index[m.orders[i].side]
  /\ \A s \in Side : \A k \in m.priority_index[s] :
       /\ has_order(m, k.order_id)
       /\ find_order(m, k.order_id).side = s
       /\ make_priority_key(find_order(m, k.order_id)) = k

Consistent(m) == IndexConsistent(m) /\ PriorityConsistent(m)

\* f[1] + ... + f[n]
SumUpTo(f, n) ==
  LET sum[i \in 0 .. n] == IF i = 0 THEN 0 ELSE sum[i - 1] + f[i]
  IN  sum[n]

\* The quantity of the active orders of a side at a price
RestingQuantity(m, side, price) ==
  SumUpTo([i \in 1 .. Len(m.orders) |->
             IF m.orders[i].side = side /\ m.orders[i].price_ticks = price
             THEN m.orders[i].remaining_quantity ELSE 0], Len(m.orders))
=============================================================================
