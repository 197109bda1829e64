---------------------------- MODULE MatchingEngine ----------------------------
(***************************************************************************)
(* MatchingEngine of src/matching_engine.cpp.  One thread runs the engine; *)
(* the OrderBook it writes is shared with reading threads, the             *)
(* OrderManager and the TradeStore are its own.  A step is therefore at    *)
(* most one access to the book together with the engine's own work up to   *)
(* the next one: between two steps a reader may look at the book.          *)
(*                                                                         *)
(* An exception can leave any call that allocates.  Failures lists the     *)
(* places where it does, one per operation: the catch blocks themselves    *)
(* run without a further failure.  An operation that throws before it has  *)
(* changed anything (validation, an unknown id, the copy of the book) is   *)
(* no step.                                                                *)
(***************************************************************************)
EXTENDS OrderManager, PriceLevels, TradeStore

CONSTANTS
  MaxTradeId,   \* no operation starts once the next trade id is above this
  Snapshots,    \* books that an external feed loads
  Failures      \* where memory may run out, a subset of FailurePoints

FailurePoints ==
  {"levels",        \* record_trade or trades.push_back on external depth
   "limit",         \* mutations.push_back or record_trade, limit order
   "journal",       \* mutations.push_back, market order or modification
   "market",        \* record_trade or trades.push_back, market order
   "modify",        \* record_trade, modification
   "level_insert",  \* a new level of the book
   "add_order",     \* add_order, in the id or the priority index
   "resequence"}    \* update_sequence_number

ASSUME EngineAssumption ==
  /\ MaxTradeId \in Nat
  /\ Snapshots \subseteq Book
  /\ Failures \subseteq FailurePoints

VARIABLES
  levels,                \* order_book_
  manager,               \* order_manager_
  store,                 \* trade_store_
  next_order_id,         \* order_id_generator_
  next_sequence_number,  \* next_sequence_number_
  pc,                    \* where the engine is
  op,                    \* arguments, backups and locals of the operation
  remaining,             \* remaining quantity of the incoming order
  mutations,             \* std::vector<OrderMutation>
  before                 \* history: the state before the operation

persistent == <<levels, manager, store, next_order_id, next_sequence_number>>
locals     == <<op, remaining, mutations>>
vars       == <<levels, manager, store, next_order_id, next_sequence_number,
                pc, op, remaining, mutations, before>>

Request ==
  [kind : {"market"}, side : Side, quantity : Quantity]
    \cup [kind : {"limit"}, side : Side, price : Price, quantity : Quantity]
    \cup [kind : {"cancel"}, id : OrderId]
    \cup [kind : {"modify"}, id : OrderId, price : Price, quantity : Quantity]

NoRequest == [kind |-> "none"]

NoCall == [request |-> NoRequest]

\* incoming_order, modified_order, or the side and quantity of a market order,
\* which has neither an id nor a limit.
Incoming(id, side, price, quantity, sequence) ==
  [order_id |-> id, side |-> side, price_ticks |-> price,
   original_quantity |-> quantity, remaining_quantity |-> quantity,
   sequence_number |-> sequence]

\* Called once the operation runs: what it saves before it changes anything,
\* and the order it works for.  original and removal belong to a modification.
Frame(request, incoming, book_backup, original, removal) ==
  [request           |-> request,
   incoming          |-> incoming,
   order_book_backup |-> book_backup,      \* at most one book
   original_order    |-> original,
   original_removal  |-> removal,
   checkpoint        |-> checkpoint(store),
   generator_backup  |-> next_order_id,
   sequence_backup   |-> next_sequence_number]

Init ==
  /\ levels = EmptyBook
  /\ manager = NoOrders
  /\ store = EmptyStore
  /\ next_order_id = 1
  /\ next_sequence_number = 1
  /\ pc = "idle"
  /\ op = NoCall
  /\ remaining = 0
  /\ mutations = <<>>
  /\ before = persistent

\* The two ways out of an operation.  The history variable keeps the old state
\* when it throws, for a property to compare with.
Return ==
  /\ pc' = "idle"
  /\ op' = NoCall
  /\ remaining' = 0
  /\ mutations' = <<>>
  /\ before' = persistent'

Throw ==
  /\ pc' = "idle"
  /\ op' = NoCall
  /\ remaining' = 0
  /\ mutations' = <<>>
  /\ UNCHANGED before

GoTo(label) == pc' = label /\ UNCHANGED before

-----------------------------------------------------------------------------
(* Calls                                                                   *)

\* cancel_order and modify_order return at once for an unknown id.
Call(request) ==
  /\ pc = "idle"
  /\ request.kind \in {"cancel", "modify"} => has_order(manager, request.id)
  /\ request.kind = "modify" => next_sequence_number <= MaxSequence
  /\ request.kind = "limit" => \/ next_sequence_number <= MaxSequence
                               \/ next_order_id > MaxOrderId
  /\ request.kind # "cancel" => store.next_trade_id <= MaxTradeId
  /\ op' = [request |-> request]
  /\ GoTo("called")
  /\ UNCHANGED <<levels, manager, store, next_order_id, next_sequence_number,
                 remaining, mutations>>

clear_trade_history ==
  /\ pc = "idle"
  /\ store' = clear(store)
  /\ UNCHANGED <<levels, manager, next_order_id, next_sequence_number>>
  /\ Return

\* A feed or a test loads external depth while no local order rests.
replace_snapshot(b) ==
  /\ pc = "idle"
  /\ manager.orders = <<>>
  /\ levels' = b
  /\ UNCHANGED <<manager, store, next_order_id, next_sequence_number>>
  /\ Return

-----------------------------------------------------------------------------
(* Matching, shared by the three operations that trade                     *)

\* find_best_match, and best_buy_order or best_sell_order for a market order
has_match ==
  LET side == op.incoming.side
  IN  /\ has_best_order(manager, Opposite(side))
      /\ \/ op.request.kind = "market"
         \/ Accepts(side, op.incoming.price_ticks,
                    best_order(manager, Opposite(side)).price_ticks)

Lesser(a, b) == IF a < b THEN a ELSE b

trade_with(o, executed) ==
  LET side == op.incoming.side
      id   == op.incoming.order_id
  IN  record_trade(store, side, o.price_ticks, executed,
                   IF side = "Buy" THEN id ELSE o.order_id,
                   IF side = "Sell" THEN id ELSE o.order_id)

\* struct OrderMutation; removal is empty until the order is removed.
Mutation(o, executed, removal) ==
  [order_id |-> o.order_id, side |-> o.side, price_ticks |-> o.price_ticks,
   executed_quantity |-> executed,
   original_remaining_quantity |-> o.remaining_quantity,
   removal |-> removal]

\* One turn of the matching loop: the journal entry, the trade, the book, the
\* resting order, and its removal when it is filled.
MatchBest ==
  /\ pc = "match"
  /\ remaining > 0
  /\ has_match
  /\ LET o        == best_order(manager, Opposite(op.incoming.side))
         executed == Lesser(remaining, o.remaining_quantity)
         reduced  == set_quantities(manager, o.order_id, o.original_quantity,
                                    o.remaining_quantity - executed)
         filled   == executed = o.remaining_quantity
     IN  /\ can_adjust(levels, o.side, o.price_ticks, -executed)
         /\ store' = trade_with(o, executed)
         /\ levels' = adjust_level(levels, o.side, o.price_ticks, -executed)
         /\ remaining' = remaining - executed
         /\ manager' = IF filled THEN cancel_order(reduced, o.order_id) ELSE reduced
         /\ mutations' = Append(mutations, Mutation(o, executed,
              IF filled THEN {removal_of(reduced, o.order_id)} ELSE {}))
  /\ GoTo("match")
  /\ UNCHANGED <<next_order_id, next_sequence_number, op>>

\* An exception in the loop comes before the book is touched: while the
\* journal grows, while the trade is recorded, or, for a market order, when
\* the recorded trade is copied into the result.
MatchThrows(journalled, recorded) ==
  /\ pc = "match"
  /\ remaining > 0
  /\ has_match
  /\ recorded => journalled /\ op.request.kind = "market"
  /\ IF op.request.kind = "limit" THEN "limit" \in Failures
     ELSE IF journalled THEN op.request.kind \in Failures
     ELSE "journal" \in Failures
  /\ LET o        == best_order(manager, Opposite(op.incoming.side))
         executed == Lesser(remaining, o.remaining_quantity)
     IN  /\ mutations' = IF journalled THEN Append(mutations, Mutation(o, executed, {}))
                                       ELSE mutations
         /\ store' = IF recorded THEN trade_with(o, executed) ELSE store
  /\ GoTo("undo")
  /\ UNCHANGED <<levels, manager, next_order_id, next_sequence_number, op, remaining>>

\* Nothing is left to match, or nothing to match it with.
MatchingDone ==
  /\ pc = "match"
  /\ remaining = 0 \/ (op.request.kind = "market" /\ ~ has_match)
  /\ UNCHANGED persistent
  /\ Return

\* What is left of the incoming order rests: add_order, then the book.
resting_remainder ==
  with_quantities(op.incoming, op.incoming.original_quantity, remaining)

RestRemainder ==
  /\ pc = "match"
  /\ op.request.kind # "market" /\ remaining > 0 /\ ~ has_match
  /\ LET o == resting_remainder
     IN  /\ can_adjust(levels, o.side, o.price_ticks, remaining)
         /\ manager' = add_order(manager, o)
         /\ levels' = adjust_level(levels, o.side, o.price_ticks, remaining)
  /\ UNCHANGED <<store, next_order_id, next_sequence_number>>
  /\ Return

\* adjust_levels throws above INT64_MAX, and its insert may run out of memory.
insert_throws(o, quantity) ==
  \/ ~ can_adjust(levels, o.side, o.price_ticks, quantity)
  \/ "level_insert" \in Failures /\ levels[o.side][o.price_ticks] = 0

\* The catch block first takes out the order that add_order put in.
RestRemainderThrows ==
  /\ pc = "match"
  /\ op.request.kind # "market" /\ remaining > 0 /\ ~ has_match
  /\ LET o == resting_remainder
     IN  \/ /\ "add_order" \in Failures
            /\ \E id_index_added \in BOOLEAN :
                 manager' = add_order_failed(manager, o, id_index_added)
         \/ /\ insert_throws(o, remaining)
            /\ manager' = cancel_order(add_order(manager, o), o.order_id)
  /\ GoTo("undo")
  /\ UNCHANGED <<levels, store, next_order_id, next_sequence_number, locals>>

\* Mutant: the loop looks at the same entry again.
next_to_undo_same(journal) == journal

\* ++iterator of the loop from rbegin() to rend()
next_to_undo(journal) == SubSeq(journal, 1, Len(journal) - 1)

\* One turn of the rollback loop.  The book of a limit order comes back from
\* its backup; the two other operations add the executed quantity again, and
\* an exception from that leaves the catch block.
UndoMutation ==
  /\ pc = "undo"
  /\ mutations # <<>>
  /\ LET m == mutations[Len(mutations)]
         restored(r) == with_removed_order(r,
           with_quantities(r.removed_order, r.removed_order.original_quantity,
                           m.original_remaining_quantity))
         adjusts == op.request.kind # "limit"
     IN  /\ \/ \E removal \in m.removal :
                 /\ restorable(manager, restored(removal))
                 /\ manager' = restore_removal(manager, restored(removal))
            \/ /\ m.removal = {}
               /\ manager' = set_quantities(manager, m.order_id,
                               find_order(manager, m.order_id).original_quantity,
                               m.original_remaining_quantity)
         /\ levels' = IF adjusts /\ can_adjust(levels, m.side, m.price_ticks,
                                               m.executed_quantity)
                      THEN adjust_level(levels, m.side, m.price_ticks,
                                        m.executed_quantity)
                      ELSE levels
         /\ IF adjusts /\ ~ can_adjust(levels, m.side, m.price_ticks,
                                       m.executed_quantity)
            THEN Throw
            ELSE /\ mutations' = next_to_undo(mutations)
                 /\ GoTo("undo")
                 /\ UNCHANGED <<op, remaining>>
  /\ UNCHANGED <<store, next_order_id, next_sequence_number>>

-----------------------------------------------------------------------------
(* execute_market_order                                                    *)

\* Without local orders the external depth is executed, and the book saved.
execute_market_order ==
  /\ pc = "called"
  /\ op.request.kind = "market"
  /\ LET r        == op.request
         external == manager.orders = <<>>
     IN  /\ op' = Frame(r, Incoming(0, r.side, 0, r.quantity, 0),
                        IF external THEN {levels} ELSE {}, {}, {})
         /\ remaining' = r.quantity
         /\ GoTo(IF external THEN "levels" ELSE "match")
  /\ UNCHANGED <<levels, manager, store, next_order_id, next_sequence_number, mutations>>

ExecuteLevel ==
  /\ pc = "levels"
  /\ remaining > 0
  /\ LET side == Opposite(op.incoming.side)
     IN  /\ has_level(levels, side)
         /\ LET price    == best_price(levels, side)
                executed == Lesser(remaining, levels[side][price])
            IN  /\ validate_trade(price, executed)
                /\ store' = record_trade(store, op.incoming.side, price, executed, 0, 0)
                /\ levels' = update_level(levels, side, price,
                                          levels[side][price] - executed)
                /\ remaining' = remaining - executed
  /\ GoTo("levels")
  /\ UNCHANGED <<manager, next_order_id, next_sequence_number, op, mutations>>

\* record_trade refuses a level at price 0, and it or the copy of the trade
\* into the result may run out of memory.  The catch block follows at once.
ExecuteLevelThrows(recorded) ==
  /\ pc = "levels"
  /\ remaining > 0
  /\ LET side == Opposite(op.incoming.side)
     IN  /\ has_level(levels, side)
         /\ LET price    == best_price(levels, side)
                executed == Lesser(remaining, levels[side][price])
            IN  /\ IF validate_trade(price, executed) THEN "levels" \in Failures
                                                      ELSE ~ recorded
                /\ store' = rollback(
                     IF recorded
                     THEN record_trade(store, op.incoming.side, price, executed, 0, 0)
                     ELSE store, op.checkpoint)
                /\ levels' \in op.order_book_backup
  /\ UNCHANGED <<manager, next_order_id, next_sequence_number>>
  /\ Throw

LevelsDone ==
  /\ pc = "levels"
  /\ remaining = 0 \/ ~ has_level(levels, Opposite(op.incoming.side))
  /\ UNCHANGED persistent
  /\ Return

MarketUndone ==
  /\ pc = "undo"
  /\ op.request.kind = "market"
  /\ mutations = <<>>
  /\ store' = rollback(store, op.checkpoint)
  /\ UNCHANGED <<levels, manager, next_order_id, next_sequence_number>>
  /\ Throw

-----------------------------------------------------------------------------
(* place_limit_order                                                       *)

\* The first local order takes the external depth out of the book, which is
\* saved for the outer catch block.
place_limit_order ==
  /\ pc = "called"
  /\ op.request.kind = "limit"
  /\ LET r == op.request
         first_local_order == manager.orders = <<>>
     IN  /\ levels' = IF first_local_order THEN EmptyBook ELSE levels
         /\ op' = Frame(r, Incoming(0, r.side, r.price, r.quantity, 0),
                        IF first_local_order THEN {levels} ELSE {}, {}, {})
  /\ GoTo("number")
  /\ UNCHANGED <<manager, store, next_order_id, next_sequence_number,
                 remaining, mutations>>

\* Mutant: an order at exactly the opposite best price does not cross.
crosses_order_book_strict(side, price) ==
  /\ has_level(levels, Opposite(side))
  /\ Better(side, price, best_price(levels, Opposite(side)))

\* The book, not the order manager, tells whether the order crosses.
crosses_order_book(side, price) ==
  /\ has_level(levels, Opposite(side))
  /\ Accepts(side, price, best_price(levels, Opposite(side)))

\* OrderIdGenerator::next throws at its limit; MaxOrderId + 1 is the value it
\* stops at, numeric_limits<OrderId>::max().
exhausted == next_order_id > MaxOrderId

NumberOrder ==
  /\ pc = "number"
  /\ ~ exhausted
  /\ LET r       == op.request
         crosses == crosses_order_book(r.side, r.price)
     IN  /\ op' = Frame(r, Incoming(next_order_id, r.side, r.price, r.quantity,
                                    next_sequence_number),
                        IF op.order_book_backup = {} /\ crosses THEN {levels}
                        ELSE op.order_book_backup, {}, {})
         /\ remaining' = r.quantity
         /\ GoTo(IF crosses THEN "match" ELSE "rest")
  /\ next_order_id' = next_order_id + 1
  /\ next_sequence_number' = next_sequence_number + 1
  /\ UNCHANGED <<levels, manager, store, mutations>>

IdsExhausted ==
  /\ pc = "number"
  /\ exhausted
  /\ GoTo("failed")
  /\ UNCHANGED <<levels, manager, store, next_order_id, next_sequence_number, locals>>

RestOrder ==
  /\ pc = "rest"
  /\ LET o == op.incoming
     IN  /\ can_adjust(levels, o.side, o.price_ticks, remaining)
         /\ levels' = adjust_level(levels, o.side, o.price_ticks, remaining)
         /\ manager' = add_order(manager, o)
  /\ UNCHANGED <<store, next_order_id, next_sequence_number>>
  /\ Return

RestOrderThrows ==
  /\ pc = "rest"
  /\ LET o == op.incoming
     IN  \/ /\ insert_throws(o, remaining)
            /\ UNCHANGED <<levels, manager>>
            /\ GoTo("failed")
         \/ /\ "add_order" \in Failures
            /\ can_adjust(levels, o.side, o.price_ticks, remaining)
            /\ levels' = adjust_level(levels, o.side, o.price_ticks, remaining)
            /\ \E id_index_added \in BOOLEAN :
                 manager' = add_order_failed(manager, o, id_index_added)
            /\ GoTo("failed_adjusted")
  /\ UNCHANGED <<store, next_order_id, next_sequence_number, locals>>

\* The end of the inner catch block
LimitUndone ==
  /\ pc = "undo"
  /\ op.request.kind = "limit"
  /\ mutations = <<>>
  /\ store' = rollback(store, op.checkpoint)
  /\ GoTo("failed")
  /\ UNCHANGED <<levels, manager, next_order_id, next_sequence_number, locals>>

\* The outer catch block
LimitFailed ==
  /\ pc \in {"failed", "failed_adjusted"}
  /\ next_order_id' = op.generator_backup
  /\ next_sequence_number' = op.sequence_backup
  /\ LET r == op.request
     IN  \/ levels' \in op.order_book_backup
         \/ /\ op.order_book_backup = {}
            /\ levels' = IF pc = "failed_adjusted"
                         THEN adjust_level(levels, r.side, r.price, -r.quantity)
                         ELSE levels
  /\ UNCHANGED <<manager, store>>
  /\ Throw

-----------------------------------------------------------------------------
(* cancel_order and modify_order                                           *)

CancelOrder ==
  /\ pc = "called"
  /\ op.request.kind = "cancel"
  /\ LET o == find_order(manager, op.request.id)
     IN  /\ can_adjust(levels, o.side, o.price_ticks, -o.remaining_quantity)
         /\ manager' = cancel_order(manager, o.order_id)
         /\ levels' = adjust_level(levels, o.side, o.price_ticks, -o.remaining_quantity)
  /\ UNCHANGED <<store, next_order_id, next_sequence_number>>
  /\ Return

\* Mutant: the change is measured from the original quantity.
quantity_delta_from_original(o, new_quantity) == new_quantity - o.original_quantity

quantity_delta(o, new_quantity) == new_quantity - o.remaining_quantity

\* The same price: the order keeps its place unless its quantity grows.
ModifyQuantity ==
  /\ pc = "called"
  /\ op.request.kind = "modify"
  /\ LET r     == op.request
         o     == find_order(manager, r.id)
         delta == quantity_delta(o, r.quantity)
         loses_priority == r.quantity > o.remaining_quantity
         resequenced == IF loses_priority
                        THEN update_sequence_number(manager, r.id, next_sequence_number)
                        ELSE manager
     IN  /\ r.price = o.price_ticks
         /\ can_adjust(levels, o.side, o.price_ticks, delta)
         /\ levels' = adjust_level(levels, o.side, o.price_ticks, delta)
         /\ manager' = set_quantities(resequenced, r.id, r.quantity, r.quantity)
         /\ next_sequence_number' = IF loses_priority THEN next_sequence_number + 1
                                                      ELSE next_sequence_number
  /\ UNCHANGED <<store, next_order_id>>
  /\ Return

\* The book refuses the delta, or update_sequence_number cannot insert its key.
ModifyQuantityThrows ==
  /\ pc = "called"
  /\ op.request.kind = "modify"
  /\ LET r     == op.request
         o     == find_order(manager, r.id)
         delta == quantity_delta(o, r.quantity)
     IN  /\ r.price = o.price_ticks
         /\ \/ /\ ~ can_adjust(levels, o.side, o.price_ticks, delta)
               /\ UNCHANGED levels
               /\ Throw
            \/ /\ "resequence" \in Failures /\ r.quantity > o.remaining_quantity
               /\ can_adjust(levels, o.side, o.price_ticks, delta)
               /\ levels' = adjust_level(levels, o.side, o.price_ticks, delta)
               /\ GoTo("undo_delta")
               /\ UNCHANGED locals
  /\ UNCHANGED <<manager, store, next_order_id, next_sequence_number>>

UndoDelta ==
  /\ pc = "undo_delta"
  /\ LET o == find_order(manager, op.request.id)
     IN  levels' = adjust_level(levels, o.side, o.price_ticks,
                                -quantity_delta(o, op.request.quantity))
  /\ UNCHANGED <<manager, store, next_order_id, next_sequence_number>>
  /\ Throw

\* A new price: the order is taken out and comes in again as a new one.
ModifyPrice ==
  /\ pc = "called"
  /\ op.request.kind = "modify"
  /\ LET r == op.request
         o == find_order(manager, r.id)
     IN  /\ r.price # o.price_ticks
         /\ can_adjust(levels, o.side, o.price_ticks, -o.remaining_quantity)
         /\ op' = Frame(r, Incoming(r.id, o.side, r.price, r.quantity,
                                    next_sequence_number),
                        {}, {o}, {removal_of(manager, r.id)})
         /\ manager' = cancel_order(manager, r.id)
         /\ levels' = adjust_level(levels, o.side, o.price_ticks, -o.remaining_quantity)
         /\ remaining' = r.quantity
  /\ next_sequence_number' = next_sequence_number + 1
  /\ GoTo("match")
  /\ UNCHANGED <<store, next_order_id, mutations>>

ModifyUndone ==
  /\ pc = "undo"
  /\ op.request.kind = "modify"
  /\ mutations = <<>>
  /\ \E o \in op.original_order, removal \in op.original_removal :
       /\ levels' = adjust_level(levels, o.side, o.price_ticks, o.remaining_quantity)
       /\ manager' = restore_removal(manager, with_removed_order(removal, o))
  /\ next_sequence_number' = op.sequence_backup
  /\ store' = rollback(store, op.checkpoint)
  /\ UNCHANGED next_order_id
  /\ Throw

-----------------------------------------------------------------------------
\* The steps of the engine's thread once an operation is called: those that
\* return from it, and all others
Returning ==
  \/ MatchingDone
  \/ RestRemainder
  \/ LevelsDone
  \/ RestOrder
  \/ CancelOrder
  \/ ModifyQuantity

Running ==
  \/ MatchBest
  \/ \E journalled, recorded \in BOOLEAN : MatchThrows(journalled, recorded)
  \/ RestRemainderThrows
  \/ UndoMutation
  \/ execute_market_order
  \/ ExecuteLevel
  \/ \E recorded \in BOOLEAN : ExecuteLevelThrows(recorded)
  \/ MarketUndone
  \/ place_limit_order
  \/ NumberOrder
  \/ IdsExhausted
  \/ RestOrderThrows
  \/ LimitUndone
  \/ LimitFailed
  \/ ModifyQuantityThrows
  \/ UndoDelta
  \/ ModifyPrice
  \/ ModifyUndone

Next ==
  \/ \E request \in Request : Call(request)
  \/ clear_trade_history
  \/ \E b \in Snapshots : replace_snapshot(b)
  \/ Returning
  \/ Running

Spec == Init /\ [][Next]_vars

-----------------------------------------------------------------------------
(* Properties                                                              *)

Labels == {"idle", "called", "number", "rest", "match", "levels", "undo",
           "undo_delta", "failed", "failed_adjusted"}

\* Part of ManagerConsistent: every variable holds a value of its C++ type.
TypeOK ==
  /\ levels \in Book
  /\ manager \in Manager
  /\ store.next_trade_id \in Nat \ {0}
  /\ next_order_id \in 1 .. MaxOrderId + 1
  /\ next_sequence_number \in 1 .. MaxSequence + 1
  /\ pc \in Labels
  /\ op.request \in Request \cup {NoRequest}
  /\ remaining \in LevelQuantity

\* The containers of the order manager agree after every step of every
\* operation and of every rollback.  Ids and sequence numbers of active orders
\* are older than the next ones and no two orders share a sequence number, so
\* a later order never overtakes an earlier one at its price, whatever was
\* modified or rolled back between.
ManagerConsistent ==
  /\ TypeOK
  /\ Consistent(manager)
  /\ \A i \in 1 .. Len(manager.orders) :
       /\ manager.orders[i].order_id < next_order_id
       /\ manager.orders[i].sequence_number < next_sequence_number
  /\ \A i, j \in 1 .. Len(manager.orders) :
       i # j => manager.orders[i].sequence_number # manager.orders[j].sequence_number

\* The book a reader sees while local orders rest holds exactly their
\* quantities: between the trades of one operation, while a modification is
\* under way, and between two steps of the rollback of a market order or of a
\* modification.  Only the rollback of a limit order and a half-done change
\* of the same level are excepted: their catch blocks write the book last.
BookMatchesOrders ==
  /\ manager.orders # <<>>
  /\ \/ pc \in {"idle", "called", "number", "rest", "match"}
     \/ pc = "undo" /\ op.request.kind # "limit"
  => \A s \in Side, p \in BookPrice : levels[s][p] = RestingQuantity(manager, s, p)

\* Local orders never leave a crossed book behind, and no reader sees one
\* half-way, rollbacks included.
NeverCrossed == manager.orders # <<>> => ~ Crossed(levels)

\* An operation that throws leaves the book, the orders with their positions
\* and indexes, the trades and all counters as they were.
FailureLeavesNoTrace == pc = "idle" => persistent = before

\* How many parts of an operation can still follow
Rank(label) ==
  CASE label = "called" -> 5
    [] label = "number" -> 4
    [] label \in {"rest", "match", "levels"} -> 3
    [] label = "undo" -> 2
    [] label \in {"undo_delta", "failed", "failed_adjusted"} -> 1
    [] label = "idle" -> 0

\* Every step of an operation takes it to a later part, or is a turn of a loop
\* that leaves less to match or less to undo.  An operation always has a next
\* step, or TLC would report a deadlock, so every call comes back.
CallsReturn ==
  [][pc # "idle" =>
       \/ Rank(pc') < Rank(pc)
       \/ /\ pc' = pc
          /\ IF pc = "undo" THEN Len(mutations') < Len(mutations)
                            ELSE remaining' < remaining]_vars
=============================================================================
