----------------- MODULE MatchingEngineRollbackCalls_proofs ------------------
(***************************************************************************)
(* What a failing operation of the matching engine leads back to, and why  *)
(* the steps outside the loops keep to it.                                 *)
(*                                                                         *)
(* All this needs that the copy of a recorded trade, the one failure that  *)
(* the catch blocks of market orders and modifications undo wrongly, does  *)
(* not happen.  The invariant Clean then says that what the journal and    *)
(* the backups lead back to is exactly the state before the call.          *)
(***************************************************************************)
EXTENDS MatchingEngineCalls_proofs

(***************************************************************************)
(* While the copy of a recorded trade does not fail.                       *)
(***************************************************************************)
TradesAreCopied == Failures \cap {"market", "modify"} = {}

\* During one: the book shows the orders, except in a rollback.
BookShowsOrders == pc \in {"number", "rest", "match"} => levels = Resting(manager)

BookUncrossed == pc \notin {"idle", "called", "levels"} => ~ Crossed(levels)

\* What the operation has not changed yet, and what its backups hold.
Kept ==
  /\ before = <<before[1], before[2], before[3], before[4], before[5]>>
  /\ Sound(before[1], before[2])
  /\ pc \in {"idle", "called"} => before = persistent
  /\ pc \in Framed =>
       /\ op.generator_backup = before[4]
       /\ op.sequence_backup = before[5]
       /\ rollback(store, op.checkpoint) = before[3]
       /\ op.request.kind # "limit" => next_order_id = before[4]
       /\ op.request.kind = "market" => next_sequence_number = before[5]
  /\ pc = "number" => next_order_id = before[4] /\ next_sequence_number = before[5]
  /\ pc \in Framed \ {"match", "undo"} => manager = before[2]
  /\ pc \in {"number", "rest", "failed"} =>
       \/ op.order_book_backup = {before[1]}
       \/ op.order_book_backup = {} /\ levels = before[1]
  /\ pc \in {"number", "rest"} => store = before[3]
  /\ pc \in {"failed", "failed_adjusted"} => store = before[3]
  /\ pc = "failed_adjusted" =>
       \/ op.order_book_backup = {before[1]}
       \/ /\ op.order_book_backup = {}
          /\ before[1] = adjust_level(levels, op.request.side, op.request.price,
                                      -op.request.quantity)
  /\ pc = "rest" =>
       NoneAccepted(levels, op.incoming.side, op.incoming.price_ticks)
  /\ pc = "levels" => op.order_book_backup = {before[1]} /\ manager.orders = <<>>
  /\ pc = "undo_delta" =>
       LET o == find_order(manager, op.request.id)
       IN  before = <<adjust_level(levels, o.side, o.price_ticks,
                                   -quantity_delta(o, op.request.quantity)),
                      manager, store, next_order_id, next_sequence_number>>

\* The journal leads back to the state before the operation.
LeadsBack(path) ==
  /\ \A i \in 1 .. Len(path) : Resting(path[i]) \in Book /\ ~ Crossed(Resting(path[i]))
  /\ op.request.kind = "limit" =>
       /\ path[1] = before[2]
       /\ op.order_book_backup = {before[1]}
  /\ op.request.kind # "limit" =>
       /\ levels = Resting(manager)
       /\ \A i \in 1 .. Len(mutations) :
            Resting(path[i]) =
              adjust_level(Resting(path[i + 1]), mutations[i].side,
                           mutations[i].price_ticks, mutations[i].executed_quantity)
  /\ op.request.kind = "market" =>
       /\ path[1] = before[2]
       /\ Resting(path[1]) = before[1]
  /\ op.request.kind = "modify" =>
       \A o \in op.original_order, removal \in op.original_removal :
         /\ WithOriginal(path[1], o, removal) = before[2]
         /\ adjust_level(Resting(path[1]), o.side, o.price_ticks,
                         o.remaining_quantity) = before[1]

Reversible ==
  pc \in {"match", "undo"} => \E path \in Seq(Manager) : Journal(path) /\ LeadsBack(path)

Clean ==
  /\ BookShowsOrders
  /\ BookUncrossed
  /\ Kept
  /\ Reversible

-----------------------------------------------------------------------------
(***************************************************************************)
(* Clean is inductive while trades are copied: one lemma per step.         *)
(***************************************************************************)
\* The empty engine
LEMMA InitClean ==
  ASSUME Init
  PROVE  Clean
<1>1. manager.orders = <<>> /\ pc = "idle" /\ before = persistent
  BY Zenon DEF Init, NoOrders
<1>2. /\ before[1] = levels /\ before[2] = manager
      /\ before = <<before[1], before[2], before[3], before[4], before[5]>>
  BY Zenon, <1>1 DEF persistent
<1>3. Sound(before[1], before[2])
  BY Zenon, <1>1, <1>2 DEF Sound
<1> QED BY Zenon, <1>1, <1>2, <1>3
        DEF Clean, BookShowsOrders, BookUncrossed, Kept, Reversible, Framed

\* An operation that returns
LEMMA ReturnClean ==
  ASSUME pc' = "idle", before' = persistent', Sound(levels', manager')
  PROVE  Clean'
<1>1. /\ before'[1] = levels' /\ before'[2] = manager'
      /\ before' = <<before'[1], before'[2], before'[3], before'[4], before'[5]>>
  BY Zenon DEF persistent
<1>2. Sound(before[1], before[2])'
  BY Zenon, <1>1
<1> QED BY Zenon, <1>1, <1>2 DEF Clean, BookShowsOrders, BookUncrossed, Kept, Reversible, Framed

\* An operation that throws with everything as it was
LEMMA ThrowClean ==
  ASSUME Clean, pc' = "idle", before' = before,
         levels' = before[1], manager' = before[2], store' = before[3],
         next_order_id' = before[4], next_sequence_number' = before[5]
  PROVE  Clean'
<1>1. /\ before = <<before[1], before[2], before[3], before[4], before[5]>>
      /\ Sound(before[1], before[2])
  BY Zenon DEF Clean, Kept
<1>2. before' = persistent'
  BY Zenon, <1>1 DEF persistent
<1> QED BY Zenon, <1>1, <1>2, ReturnClean

\* Between two calls, and when one starts, the state is the one kept in before.
LEMMA BeforeIsCurrent ==
  ASSUME Clean, pc \in {"idle", "called"}
  PROVE  /\ before[1] = levels /\ before[2] = manager /\ before[3] = store
         /\ before[4] = next_order_id /\ before[5] = next_sequence_number
         /\ Sound(levels, manager)
<1>1. before = <<levels, manager, store, next_order_id, next_sequence_number>>
  BY Zenon DEF Clean, Kept, persistent
<1>2. /\ before[1] = levels /\ before[2] = manager /\ before[3] = store
      /\ before[4] = next_order_id /\ before[5] = next_sequence_number
  BY Zenon, <1>1
<1> QED BY Zenon, <1>2 DEF Clean, Kept

\* Call
LEMMA CallClean ==
  ASSUME Clean, NEW request \in Request, Call(request)
  PROVE  Clean'
<1>1. /\ pc = "idle" /\ pc' = "called" /\ before' = before /\ persistent' = persistent
  BY Zenon DEF Call, GoTo, persistent
<1>2. /\ before' = <<before'[1], before'[2], before'[3], before'[4], before'[5]>>
      /\ before' = persistent'
      /\ Sound(before[1], before[2])'
  BY Zenon, <1>1 DEF Clean, Kept
<1> QED BY Zenon, <1>1, <1>2 DEF Clean, BookShowsOrders, BookUncrossed, Kept, Reversible, Framed

\* clear_trade_history and replace_snapshot
LEMMA BetweenCallsClean ==
  ASSUME Clean, clear_trade_history \/ \E b \in Snapshots : replace_snapshot(b)
  PROVE  Clean'
<1>1. CASE clear_trade_history
  <2>1. Sound(levels', manager')
    BY Zenon, <1>1, BeforeIsCurrent DEF clear_trade_history
  <2> QED BY Zenon, <1>1, <2>1, ReturnClean DEF clear_trade_history, Return
<1>2. CASE \E b \in Snapshots : replace_snapshot(b)
  <2>1. Sound(levels', manager')
    BY Zenon, <1>2 DEF replace_snapshot, Sound
  <2> QED BY Zenon, <1>2, <2>1, ReturnClean DEF replace_snapshot, Return
<1> QED BY Zenon, <1>1, <1>2

\* MatchingDone and LevelsDone
LEMMA DoneClean ==
  ASSUME Clean, MatchingDone \/ LevelsDone
  PROVE  Clean'
<1>1. pc \in {"match", "levels"} /\ pc' = "idle" /\ before' = persistent'
        /\ levels' = levels /\ manager' = manager
  BY Zenon DEF MatchingDone, LevelsDone, Return, persistent
<1>2. Sound(levels', manager')
  BY Zenon, <1>1 DEF Sound, Clean, BookShowsOrders, BookUncrossed, Kept
<1> QED BY Zenon, <1>1, <1>2, ReturnClean

\* Before cancel_order or modify_order does anything, the book shows the order.
LEMMA CalledBook ==
  ASSUME Inv, Clean, pc = "called", op.request.kind \in {"cancel", "modify"}
  PROVE  /\ levels = Resting(manager) /\ ~ Crossed(levels) /\ levels \in Book
         /\ LET o == find_order(manager, op.request.id)
            IN  levels[o.side][o.price_ticks] > 0
<1>0. PICK o : o = find_order(manager, op.request.id)
  BY Zenon
<1>1. /\ op.request.id \in OrderId /\ has_order(manager, op.request.id)
      /\ o.side \in Side /\ o.price_ticks \in BookPrice
      /\ Older(manager, next_order_id, next_sequence_number)
  BY Zenon, <1>0, CalledOrder
<1>2. manager.orders # <<>>
  BY Zenon, <1>1, HasOrders
<1>3. levels = Resting(manager) /\ ~ Crossed(levels)
  BY Zenon, <1>2, BeforeIsCurrent DEF Sound
<1>4. Resting(manager)[o.side][o.price_ticks] > 0
  BY Zenon, <1>0, <1>1, RestingLevels
<1> QED BY Zenon, <1>0, <1>3, <1>4 DEF Inv, Typed

\* RestRemainder
LEMMA RestRemainderClean ==
  ASSUME Inv, Clean, RestRemainder
  PROVE  Clean'
<1>0. PICK o : o = resting_remainder
  BY Zenon
<1>1. /\ pc = "match" /\ op.request.kind # "market" /\ remaining > 0 /\ ~ has_match
      /\ can_adjust(levels, o.side, o.price_ticks, remaining)
      /\ manager' = add_order(manager, o)
      /\ levels' = adjust_level(levels, o.side, o.price_ticks, remaining)
      /\ pc' = "idle" /\ before' = persistent'
  BY Zenon, <1>0 DEF RestRemainder, Return
<1>2. /\ o \in LimitOrder /\ manager \in Manager /\ Consistent(manager)
      /\ o.side = op.incoming.side /\ o.side \in Side
      /\ o.price_ticks = op.incoming.price_ticks /\ o.price_ticks \in Price
      /\ o.price_ticks \in BookPrice /\ remaining \in Int
      /\ o.remaining_quantity = remaining
  BY Zenon, <1>0, <1>1, RemainderRests DEF resting_remainder
<1>3. levels = Resting(manager) /\ ~ Crossed(levels) /\ levels \in Book
  BY Zenon, <1>1 DEF Clean, BookShowsOrders, BookUncrossed, Inv, Typed
<1>4. NoneAccepted(levels, o.side, o.price_ticks)
  <2>1. ~ (/\ has_best_order(manager, Opposite(o.side))
           /\ Accepts(o.side, o.price_ticks,
                      best_order(manager, Opposite(o.side)).price_ticks))
    BY Zenon, <1>1, <1>2 DEF has_match
  <2>2. Older(manager, next_order_id, next_sequence_number)
    BY Zenon DEF Inv
  <2>3. NoneAccepted(Resting(manager), o.side, o.price_ticks)
    BY Zenon, <1>2, <2>1, <2>2, BestOrderDecides
  <2> QED BY Zenon, <1>3, <2>3
<1>5. Sound(levels', manager')
  BY Zenon, <1>1, <1>2, <1>3, <1>4, JoinedBook
<1> QED BY Zenon, <1>1, <1>5, ReturnClean

\* RestOrder
LEMMA RestOrderClean ==
  ASSUME Inv, Clean, RestOrder
  PROVE  Clean'
<1>0. PICK o : o = op.incoming
  BY Zenon
<1>1. /\ pc = "rest" /\ can_adjust(levels, o.side, o.price_ticks, remaining)
      /\ manager' = add_order(manager, o)
      /\ levels' = adjust_level(levels, o.side, o.price_ticks, remaining)
      /\ pc' = "idle" /\ before' = persistent'
  BY Zenon, <1>0 DEF RestOrder, Return
<1>2. /\ o \in LimitOrder /\ manager \in Manager /\ Consistent(manager)
      /\ o.side \in Side /\ o.price_ticks \in BookPrice /\ remaining \in Int
      /\ o.remaining_quantity = remaining
  BY Zenon, <1>0, <1>1, RemainderRests, OrderRests
<1>3. levels = Resting(manager) /\ ~ Crossed(levels) /\ levels \in Book
  BY Zenon, <1>1 DEF Clean, BookShowsOrders, BookUncrossed, Inv, Typed
<1>4. NoneAccepted(levels, o.side, o.price_ticks)
  BY Zenon, <1>0, <1>1 DEF Clean, Kept
<1>5. Sound(levels', manager')
  BY Zenon, <1>1, <1>2, <1>3, <1>4, JoinedBook
<1> QED BY Zenon, <1>1, <1>5, ReturnClean

\* Taking an order out of the manager and its quantity out of the book
LEMMA CancelledBook ==
  ASSUME Inv, Clean, pc = "called", op.request.kind \in {"cancel", "modify"},
         NEW o, o = find_order(manager, op.request.id),
         can_adjust(levels, o.side, o.price_ticks, -o.remaining_quantity)
  PROVE  LET b == adjust_level(levels, o.side, o.price_ticks, -o.remaining_quantity)
         IN  b = Resting(cancel_order(manager, op.request.id)) /\ ~ Crossed(b)
<1>1. /\ op.request.id \in OrderId /\ has_order(manager, op.request.id)
      /\ o.side \in Side /\ o.price_ticks \in BookPrice /\ o.remaining_quantity \in Int
      /\ manager \in Manager /\ Consistent(manager)
  BY Zenon, CalledOrder
<1>2. /\ levels = Resting(manager) /\ ~ Crossed(levels) /\ levels \in Book
      /\ levels[o.side][o.price_ticks] > 0
  BY Zenon, CalledBook
<1>3. adjust_level(levels, o.side, o.price_ticks, -o.remaining_quantity)
        = Resting(cancel_order(manager, op.request.id))
  BY Zenon, <1>1, <1>2, RestingCancel
<1>4. -o.remaining_quantity \in Int
  BY <1>1
<1> QED BY Zenon, <1>1, <1>2, <1>3, <1>4, ChangedLevelUncrossed

\* CancelOrder
LEMMA CancelOrderClean ==
  ASSUME Inv, Clean, CancelOrder
  PROVE  Clean'
<1>0. PICK o : o = find_order(manager, op.request.id)
  BY Zenon
<1>1. /\ pc = "called" /\ op.request.kind = "cancel"
      /\ can_adjust(levels, o.side, o.price_ticks, -o.remaining_quantity)
      /\ manager' = cancel_order(manager, o.order_id)
      /\ levels' = adjust_level(levels, o.side, o.price_ticks, -o.remaining_quantity)
      /\ pc' = "idle" /\ before' = persistent'
  BY Zenon, <1>0 DEF CancelOrder, Return
<1>2. o.order_id = op.request.id
  BY Zenon, <1>0, <1>1, CalledOrder
<1>3. levels' = Resting(manager') /\ ~ Crossed(levels')
  BY Zenon, <1>0, <1>1, <1>2, CancelledBook
<1>4. Sound(levels', manager')
  BY Zenon, <1>3 DEF Sound
<1> QED BY Zenon, <1>1, <1>4, ReturnClean

\* ModifyQuantity
LEMMA ModifyQuantityClean ==
  ASSUME Inv, Clean, ModifyQuantity
  PROVE  Clean'
<1>0. PICK r, o, delta, n :
        /\ r = op.request /\ o = find_order(manager, r.id)
        /\ delta = quantity_delta(o, r.quantity)
        /\ n = IF r.quantity > o.remaining_quantity
               THEN update_sequence_number(manager, r.id, next_sequence_number)
               ELSE manager
  BY Zenon
<1>1. /\ pc = "called" /\ op.request.kind = "modify"
      /\ can_adjust(levels, o.side, o.price_ticks, delta)
      /\ levels' = adjust_level(levels, o.side, o.price_ticks, delta)
      /\ manager' = set_quantities(n, r.id, r.quantity, r.quantity)
      /\ pc' = "idle" /\ before' = persistent'
  BY Zenon, <1>0 DEF ModifyQuantity, Return
<1>2. /\ r.id \in OrderId /\ has_order(manager, r.id)
      /\ o.side \in Side /\ o.price_ticks \in BookPrice
      /\ r.quantity \in Quantity /\ delta \in Int
      /\ Older(manager, next_order_id, next_sequence_number)
  BY Zenon, <1>0, <1>1, CalledOrder
<1>3. /\ levels = Resting(manager) /\ ~ Crossed(levels) /\ levels \in Book
      /\ levels[o.side][o.price_ticks] > 0
  BY Zenon, <1>0, <1>1, CalledBook
<1>4. next_sequence_number \in SequenceNumber
  <2>1. next_sequence_number <= MaxSequence /\ next_sequence_number \in 1 .. MaxSequence + 1
    BY Zenon, <1>1 DEF Inv, Called, Typed
  <2> QED BY <2>1, OrderManagerAssumption DEF SequenceNumber
<1>5. Resting(manager') = adjust_level(Resting(manager), o.side, o.price_ticks,
                                       r.quantity - o.remaining_quantity)
  <2>1. n = manager \/ n = update_sequence_number(manager, r.id, next_sequence_number)
    BY Zenon, <1>0
  <2> QED BY <1>0, <1>1, <1>2, <1>4, <2>1, RestingModified
<1>6. delta = r.quantity - o.remaining_quantity
  BY Zenon, <1>0 DEF quantity_delta
<1>7. ~ Crossed(levels')
  BY Zenon, <1>1, <1>2, <1>3, ChangedLevelUncrossed
<1>8. Sound(levels', manager')
  BY Zenon, <1>1, <1>3, <1>5, <1>6, <1>7 DEF Sound
<1> QED BY Zenon, <1>1, <1>8, ReturnClean

\* The steps that only change the part of the operation after the frame is made
LEMMA FramedClean ==
  ASSUME Clean, pc \in Framed, pc' \in {"levels", "failed", "failed_adjusted"},
         op' = op, before' = before, manager' = manager,
         next_order_id' = next_order_id, next_sequence_number' = next_sequence_number,
         rollback(store', op.checkpoint) = rollback(store, op.checkpoint),
         manager = before[2],
         pc' = "failed" =>
           \/ op.order_book_backup = {before[1]}
           \/ op.order_book_backup = {} /\ levels' = before[1],
         pc' # "levels" => store' = before[3] /\ ~ Crossed(levels'),
         pc' = "failed_adjusted" =>
           \/ op.order_book_backup = {before[1]}
           \/ /\ op.order_book_backup = {}
              /\ before[1] = adjust_level(levels', op.request.side, op.request.price,
                                          -op.request.quantity),
         pc' = "levels" => op.order_book_backup = {before[1]} /\ manager.orders = <<>>
  PROVE  Clean'
<1>1. /\ op.generator_backup = before[4] /\ op.sequence_backup = before[5]
      /\ rollback(store', op.checkpoint) = before[3]
      /\ op.request.kind # "limit" => next_order_id' = before[4]
      /\ op.request.kind = "market" => next_sequence_number' = before[5]
      /\ before = <<before[1], before[2], before[3], before[4], before[5]>>
      /\ Sound(before[1], before[2])
  BY Zenon DEF Clean, Kept
<1>2. Kept'
  BY Zenon, <1>1 DEF Kept, Framed
<1>3. BookShowsOrders' /\ BookUncrossed' /\ Reversible'
  BY Zenon DEF BookShowsOrders, BookUncrossed, Reversible, Framed
<1> QED BY Zenon, <1>2, <1>3 DEF Clean

\* ExecuteLevel
LEMMA ExecuteLevelClean ==
  ASSUME Inv, Clean, ExecuteLevel
  PROVE  Clean'
<1>0. PICK side, price, executed :
        /\ side = Opposite(op.incoming.side)
        /\ price = best_price(levels, side)
        /\ executed = Lesser(remaining, levels[side][price])
  BY Zenon
<1>1. /\ pc = "levels" /\ remaining > 0 /\ has_level(levels, side)
      /\ validate_trade(price, executed)
      /\ store' = record_trade(store, op.incoming.side, price, executed, 0, 0)
      /\ pc' = "levels" /\ op' = op /\ before' = before /\ manager' = manager
      /\ next_order_id' = next_order_id /\ next_sequence_number' = next_sequence_number
  BY Zenon, <1>0 DEF ExecuteLevel, GoTo
<1>2. price \in Price /\ op.incoming.side \in Side /\ executed \in Quantity
  BY Zenon, <1>0, <1>1, LevelExecuted
<1>3. pc \in Framed /\ pc' \in {"levels", "failed", "failed_adjusted"} /\ 0 \in OrderId \cup {0}
  BY Zenon, <1>1 DEF Framed
<1>4. rollback(store', op.checkpoint) = rollback(store, op.checkpoint)
  BY Zenon, <1>1, <1>2, <1>3, TradeRecorded
<1>5. manager = before[2] /\ op.order_book_backup = {before[1]} /\ manager.orders = <<>>
  BY Zenon, <1>1 DEF Clean, Kept, Framed
<1> QED BY Zenon, <1>1, <1>3, <1>4, <1>5, FramedClean

\* ExecuteLevelThrows
LEMMA ExecuteLevelThrowsClean ==
  ASSUME Inv, Clean, NEW recorded \in BOOLEAN, ExecuteLevelThrows(recorded)
  PROVE  Clean'
<1>1. /\ pc = "levels" /\ levels' \in op.order_book_backup
      /\ manager' = manager /\ next_order_id' = next_order_id
      /\ next_sequence_number' = next_sequence_number
      /\ pc' = "idle" /\ before' = before
  BY Zenon DEF ExecuteLevelThrows, Throw
<1>2. store' = rollback(store, op.checkpoint)
  BY Zenon, ExecuteLevelThrowsInv
<1>3. op.request.kind = "market"
  BY Zenon, <1>1 DEF Inv, Kinds
<1>4. /\ op.order_book_backup = {before[1]} /\ manager = before[2]
      /\ rollback(store, op.checkpoint) = before[3]
      /\ next_order_id = before[4] /\ next_sequence_number = before[5]
  BY Zenon, <1>1, <1>3 DEF Clean, Kept, Framed
<1> QED BY Zenon, <1>1, <1>2, <1>4, ThrowClean

\* The journal is empty: its path is the manager.
LEMMA JournalDone ==
  ASSUME Clean, pc = "undo", mutations = <<>>
  PROVE  /\ rollback(store, op.checkpoint) = before[3]
         /\ op.sequence_backup = before[5]
         /\ op.request.kind # "limit" => next_order_id = before[4] /\ levels = Resting(manager)
         /\ op.request.kind = "limit" => manager = before[2] /\ op.order_book_backup = {before[1]}
         /\ op.request.kind = "market" => /\ manager = before[2] /\ levels = before[1]
                                          /\ next_sequence_number = before[5]
         /\ op.request.kind = "modify" =>
              \A o \in op.original_order, removal \in op.original_removal :
                /\ WithOriginal(manager, o, removal) = before[2]
                /\ adjust_level(levels, o.side, o.price_ticks, o.remaining_quantity) = before[1]
<1>1. PICK path \in Seq(Manager) : Journal(path) /\ LeadsBack(path)
  BY Zenon DEF Clean, Reversible
<1>2. path[1] = manager
  BY <1>1 DEF Journal
<1>3. /\ rollback(store, op.checkpoint) = before[3]
      /\ op.sequence_backup = before[5]
      /\ op.request.kind # "limit" => next_order_id = before[4]
      /\ op.request.kind = "market" => next_sequence_number = before[5]
  BY Zenon DEF Clean, Kept, Framed
<1>4. op.request.kind # "limit" => levels = Resting(manager)
  BY Zenon, <1>1 DEF LeadsBack
<1>5. /\ op.request.kind = "limit" => manager = before[2] /\ op.order_book_backup = {before[1]}
      /\ op.request.kind = "market" => manager = before[2] /\ levels = before[1]
  BY Zenon, <1>1, <1>2, <1>4 DEF LeadsBack
<1>6. op.request.kind = "modify" =>
        \A o \in op.original_order, removal \in op.original_removal :
          /\ WithOriginal(manager, o, removal) = before[2]
          /\ adjust_level(levels, o.side, o.price_ticks, o.remaining_quantity) = before[1]
  BY Zenon, <1>1, <1>2, <1>4 DEF LeadsBack
<1> QED BY Zenon, <1>3, <1>4, <1>5, <1>6

\* MarketUndone
LEMMA MarketUndoneClean ==
  ASSUME Clean, MarketUndone
  PROVE  Clean'
<1>1. /\ pc = "undo" /\ op.request.kind = "market" /\ mutations = <<>>
      /\ store' = rollback(store, op.checkpoint)
      /\ levels' = levels /\ manager' = manager /\ next_order_id' = next_order_id
      /\ next_sequence_number' = next_sequence_number
      /\ pc' = "idle" /\ before' = before
  BY Zenon DEF MarketUndone, Throw
<1> QED BY Zenon, <1>1, JournalDone, ThrowClean

\* ModifyUndone
LEMMA ModifyUndoneClean ==
  ASSUME Clean, ModifyUndone
  PROVE  Clean'
<1>1. PICK o \in op.original_order, removal \in op.original_removal :
        /\ levels' = adjust_level(levels, o.side, o.price_ticks, o.remaining_quantity)
        /\ manager' = WithOriginal(manager, o, removal)
  BY Zenon DEF ModifyUndone, WithOriginal
<1>2. /\ pc = "undo" /\ op.request.kind = "modify" /\ mutations = <<>>
      /\ store' = rollback(store, op.checkpoint) /\ next_order_id' = next_order_id
      /\ next_sequence_number' = op.sequence_backup
      /\ pc' = "idle" /\ before' = before
  BY Zenon DEF ModifyUndone, Throw
<1>3. levels' = before[1] /\ manager' = before[2]
  BY Zenon, <1>1, <1>2, JournalDone
<1> QED BY Zenon, <1>2, <1>3, JournalDone, ThrowClean

\* LimitUndone
LEMMA LimitUndoneClean ==
  ASSUME Inv, Clean, LimitUndone
  PROVE  Clean'
<1>1. /\ pc = "undo" /\ op.request.kind = "limit" /\ mutations = <<>>
      /\ store' = rollback(store, op.checkpoint)
      /\ levels' = levels /\ manager' = manager /\ op' = op
      /\ next_order_id' = next_order_id /\ next_sequence_number' = next_sequence_number
      /\ pc' = "failed" /\ before' = before
  BY Zenon DEF LimitUndone, GoTo, locals
<1>2. /\ manager = before[2] /\ op.order_book_backup = {before[1]}
      /\ store' = before[3]
  BY Zenon, <1>1, JournalDone
<1>3. ~ Crossed(levels')
  BY Zenon, <1>1 DEF Clean, BookUncrossed
<1>4. pc \in Framed /\ pc' \in {"levels", "failed", "failed_adjusted"}
  BY Zenon, <1>1 DEF Framed
<1>5. rollback(store', op.checkpoint) = rollback(store, op.checkpoint)
  <2>1. store \in Store /\ op.checkpoint.trade_count \in 0 .. Len(store.trades)
    BY Zenon, <1>4, SavedValues
  <2> QED BY Zenon, <1>1, <2>1, RollbackAgain
<1> QED BY Zenon, <1>1, <1>2, <1>3, <1>4, <1>5, FramedClean

\* LimitFailed
LEMMA LimitFailedClean ==
  ASSUME Inv, Clean, LimitFailed
  PROVE  Clean'
<1>0. PICK r : r = op.request
  BY Zenon
<1>1. /\ pc \in {"failed", "failed_adjusted"}
      /\ next_order_id' = op.generator_backup /\ next_sequence_number' = op.sequence_backup
      /\ \/ levels' \in op.order_book_backup
         \/ /\ op.order_book_backup = {}
            /\ levels' = IF pc = "failed_adjusted"
                         THEN adjust_level(levels, r.side, r.price, -r.quantity)
                         ELSE levels
      /\ manager' = manager /\ store' = store
      /\ pc' = "idle" /\ before' = before
  BY Zenon, <1>0 DEF LimitFailed, Throw
<1>2. /\ op.generator_backup = before[4] /\ op.sequence_backup = before[5]
      /\ manager = before[2] /\ store = before[3]
  BY Zenon, <1>1 DEF Clean, Kept, Framed
<1>3. levels' = before[1]
  <2>1. pc = "failed" =>
          \/ op.order_book_backup = {before[1]}
          \/ op.order_book_backup = {} /\ levels = before[1]
    BY Zenon DEF Clean, Kept
  <2>2. pc = "failed_adjusted" =>
          \/ op.order_book_backup = {before[1]}
          \/ /\ op.order_book_backup = {}
             /\ before[1] = adjust_level(levels, r.side, r.price, -r.quantity)
    BY Zenon, <1>0 DEF Clean, Kept
  <2> QED BY <1>1, <2>1, <2>2
<1> QED BY Zenon, <1>1, <1>2, <1>3, ThrowClean

\* IdsExhausted
LEMMA IdsExhaustedClean ==
  ASSUME Clean, IdsExhausted
  PROVE  Clean'
<1>1. /\ pc = "number" /\ pc' = "failed" /\ op' = op /\ before' = before
      /\ levels' = levels /\ manager' = manager /\ store' = store
      /\ next_order_id' = next_order_id /\ next_sequence_number' = next_sequence_number
  BY Zenon DEF IdsExhausted, GoTo, locals
<1>2. /\ manager = before[2] /\ store = before[3] /\ ~ Crossed(levels)
      /\ \/ op.order_book_backup = {before[1]}
         \/ op.order_book_backup = {} /\ levels = before[1]
  BY Zenon, <1>1 DEF Clean, Kept, BookUncrossed, Framed
<1>3. pc \in Framed /\ pc' \in {"levels", "failed", "failed_adjusted"}
  BY Zenon, <1>1 DEF Framed
<1> QED BY Zenon, <1>1, <1>2, <1>3, FramedClean

\* RestOrderThrows
LEMMA RestOrderThrowsClean ==
  ASSUME Inv, Clean, RestOrderThrows
  PROVE  Clean'
<1>0. PICK o : o = op.incoming
  BY Zenon
<1>1. /\ pc = "rest" /\ op' = op /\ before' = before /\ store' = store
      /\ next_order_id' = next_order_id /\ next_sequence_number' = next_sequence_number
      /\ \/ levels' = levels /\ pc' = "failed"
         \/ /\ can_adjust(levels, o.side, o.price_ticks, remaining)
            /\ levels' = adjust_level(levels, o.side, o.price_ticks, remaining)
            /\ pc' = "failed_adjusted"
  BY Zenon, <1>0 DEF RestOrderThrows, GoTo, locals
<1>2. manager' = manager
  BY Zenon, RestOrderThrowsInv
<1>3. /\ manager = before[2] /\ store = before[3] /\ ~ Crossed(levels) /\ levels \in Book
      /\ \/ op.order_book_backup = {before[1]}
         \/ op.order_book_backup = {} /\ levels = before[1]
      /\ NoneAccepted(levels, o.side, o.price_ticks)
  BY Zenon, <1>0, <1>1 DEF Clean, Kept, BookUncrossed, Framed, Inv, Typed
<1>4. pc \in Framed
  BY Zenon, <1>1 DEF Framed
<1>5. CASE levels' = levels /\ pc' = "failed"
  <2>1. pc' \in {"levels", "failed", "failed_adjusted"}
    BY Zenon, <1>5
  <2> QED BY Zenon, <1>1, <1>2, <1>3, <1>4, <1>5, <2>1, FramedClean
<1>6. CASE /\ can_adjust(levels, o.side, o.price_ticks, remaining)
           /\ levels' = adjust_level(levels, o.side, o.price_ticks, remaining)
           /\ pc' = "failed_adjusted"
  <2>1. /\ o.side \in Side /\ o.price_ticks \in BookPrice /\ remaining \in Int
    BY Zenon, <1>0, <1>1, RemainderRests, OrderRests
  <2>2. ~ Crossed(levels')
    BY Zenon, <1>3, <1>6, <2>1, UncrossedLevel
  <2>3. adjust_level(levels', o.side, o.price_ticks, -remaining) = levels
    BY <1>3, <1>6, <2>1, AdjustBack
  <2>4. remaining = op.request.quantity /\ o.side = op.request.side
          /\ o.price_ticks = op.request.price
    BY Zenon, <1>0, <1>1 DEF Inv, Entering
  <2>5. \/ op.order_book_backup = {before[1]}
        \/ /\ op.order_book_backup = {}
           /\ before[1] = adjust_level(levels', op.request.side, op.request.price,
                                       -op.request.quantity)
    BY Zenon, <1>3, <2>3, <2>4
  <2>6. pc' \in {"levels", "failed", "failed_adjusted"} /\ pc' # "failed" /\ pc' # "levels"
    BY Zenon, <1>6
  <2> QED BY Zenon, <1>1, <1>2, <1>3, <1>4, <2>2, <2>5, <2>6, FramedClean
<1> QED BY Zenon, <1>1, <1>5, <1>6

\* ModifyQuantityThrows
LEMMA ModifyQuantityThrowsClean ==
  ASSUME Inv, Clean, ModifyQuantityThrows
  PROVE  Clean'
<1>0. PICK r, o, delta : /\ r = op.request /\ o = find_order(manager, r.id)
                         /\ delta = quantity_delta(o, r.quantity)
  BY Zenon
<1>1. /\ pc = "called" /\ op.request.kind = "modify"
      /\ manager' = manager /\ store' = store
      /\ next_order_id' = next_order_id /\ next_sequence_number' = next_sequence_number
      /\ before' = before
      /\ \/ levels' = levels /\ pc' = "idle"
         \/ /\ can_adjust(levels, o.side, o.price_ticks, delta)
            /\ levels' = adjust_level(levels, o.side, o.price_ticks, delta)
            /\ pc' = "undo_delta" /\ op' = op
  BY Zenon, <1>0 DEF ModifyQuantityThrows, GoTo, Throw, locals
<1>2. /\ before[1] = levels /\ before[2] = manager /\ before[3] = store
      /\ before[4] = next_order_id /\ before[5] = next_sequence_number
  BY Zenon, <1>1, BeforeIsCurrent
<1>3. CASE levels' = levels /\ pc' = "idle"
  BY Zenon, <1>1, <1>2, <1>3, ThrowClean
<1>4. CASE /\ can_adjust(levels, o.side, o.price_ticks, delta)
           /\ levels' = adjust_level(levels, o.side, o.price_ticks, delta)
           /\ pc' = "undo_delta" /\ op' = op
  <2>1. o.side \in Side /\ o.price_ticks \in BookPrice /\ delta \in Int
    BY Zenon, <1>0, <1>1, CalledOrder
  <2>2. ~ Crossed(levels) /\ levels \in Book /\ levels[o.side][o.price_ticks] > 0
    BY Zenon, <1>0, <1>1, CalledBook
  <2>3. ~ Crossed(levels')
    BY Zenon, <1>4, <2>1, <2>2, ChangedLevelUncrossed
  <2>4. adjust_level(levels', o.side, o.price_ticks, -delta) = levels
    BY Zenon, <1>4, <2>1, <2>2, AdjustBack
  <2>5. /\ before = <<before[1], before[2], before[3], before[4], before[5]>>
        /\ Sound(before[1], before[2])
    BY Zenon DEF Clean, Kept
  <2>6. LET p == find_order(manager', op'.request.id)
        IN  before' = <<adjust_level(levels', p.side, p.price_ticks,
                                     -quantity_delta(p, op'.request.quantity)),
                        manager', store', next_order_id', next_sequence_number'>>
    BY Zenon, <1>0, <1>1, <1>2, <1>4, <2>4, <2>5
  <2>7. Kept'
    BY Zenon, <1>1, <1>4, <2>5, <2>6 DEF Kept, Framed
  <2> QED BY Zenon, <1>4, <2>3, <2>7 DEF Clean, BookShowsOrders, BookUncrossed, Reversible
<1> QED BY Zenon, <1>1, <1>3, <1>4

\* UndoDelta
LEMMA UndoDeltaClean ==
  ASSUME Clean, UndoDelta
  PROVE  Clean'
<1>0. PICK o, b : /\ o = find_order(manager, op.request.id)
                  /\ b = adjust_level(levels, o.side, o.price_ticks,
                                      -quantity_delta(o, op.request.quantity))
  BY Zenon
<1>1. /\ pc = "undo_delta" /\ levels' = b
      /\ manager' = manager /\ store' = store
      /\ next_order_id' = next_order_id /\ next_sequence_number' = next_sequence_number
      /\ pc' = "idle" /\ before' = before
  BY Zenon, <1>0 DEF UndoDelta, Throw
<1>2. before = <<b, manager, store, next_order_id, next_sequence_number>>
  BY Zenon, <1>0, <1>1 DEF Clean, Kept
<1>3. /\ before[1] = b /\ before[2] = manager /\ before[3] = store
      /\ before[4] = next_order_id /\ before[5] = next_sequence_number
  BY Zenon, <1>2
<1> QED BY Zenon, <1>1, <1>3, ThrowClean

\* place_limit_order
LEMMA LimitClean ==
  ASSUME Inv, Clean, place_limit_order
  PROVE  Clean'
<1>0. PICK r : r = op.request
  BY Zenon
<1>1. /\ pc = "called" /\ op.request.kind = "limit"
      /\ levels' = IF manager.orders = <<>> THEN EmptyBook ELSE levels
      /\ op' = Frame(r, Incoming(0, r.side, r.price, r.quantity, 0),
                     IF manager.orders = <<>> THEN {levels} ELSE {}, {}, {})
      /\ pc' = "number" /\ before' = before
      /\ manager' = manager /\ store' = store
      /\ next_order_id' = next_order_id /\ next_sequence_number' = next_sequence_number
  BY Zenon, <1>0 DEF place_limit_order, GoTo
<1>2. /\ op'.request = r
      /\ op'.order_book_backup = IF manager.orders = <<>> THEN {levels} ELSE {}
      /\ op'.generator_backup = next_order_id /\ op'.sequence_backup = next_sequence_number
      /\ rollback(store, op'.checkpoint) = store
  BY <1>1, FrameFields
<1>3. /\ before[1] = levels /\ before[2] = manager /\ before[3] = store
      /\ before[4] = next_order_id /\ before[5] = next_sequence_number
      /\ Sound(levels, manager)
  BY Zenon, <1>1, BeforeIsCurrent
<1>4. levels' = Resting(manager') /\ ~ Crossed(levels')
  <2>1. CASE manager.orders = <<>>
    <3>1. manager \in Manager
      BY Zenon DEF Inv, Older
    <3>2. levels' = EmptyBook /\ Resting(manager) = EmptyBook
      BY Zenon, <1>1, <2>1, <3>1, RestingNothing
    <3>3. ~ Crossed(EmptyBook)
      BY DEF Crossed, EmptyBook, Side
    <3> QED BY Zenon, <1>1, <3>2, <3>3
  <2>2. CASE manager.orders # <<>>
    BY Zenon, <1>1, <1>3, <2>2 DEF Sound
  <2> QED BY Zenon, <2>1, <2>2
<1>5. /\ before = <<before[1], before[2], before[3], before[4], before[5]>>
      /\ Sound(before[1], before[2])
  BY Zenon DEF Clean, Kept
<1>6. \/ op'.order_book_backup = {before[1]}
      \/ op'.order_book_backup = {} /\ levels' = before[1]
  BY Zenon, <1>1, <1>2, <1>3
<1>7. Kept'
  BY Zenon, <1>0, <1>1, <1>2, <1>3, <1>5, <1>6 DEF Kept, Framed
<1> QED BY Zenon, <1>1, <1>4, <1>7 DEF Clean, BookShowsOrders, BookUncrossed, Reversible

\* The matching loop starts with an empty journal.
LEMMA EnterLoopClean ==
  ASSUME Inv', pc' = "match", mutations' = <<>>, Kept',
         levels' = Resting(manager'), ~ Crossed(levels'),
         op'.request.kind = "limit" =>
           manager' = before'[2] /\ op'.order_book_backup = {before'[1]},
         op'.request.kind = "market" => manager' = before'[2] /\ levels' = before'[1],
         op'.request.kind = "modify" =>
           \A o \in op'.original_order, removal \in op'.original_removal :
             /\ WithOriginal(manager', o, removal) = before'[2]
             /\ adjust_level(levels', o.side, o.price_ticks, o.remaining_quantity) = before'[1]
  PROVE  Clean'
<1>1. PICK path \in Seq(Manager) : Journal(path)'
  BY Zenon DEF Inv, Journalled
<1>2. Len(path) = 1 /\ path[1] = manager'
  BY <1>1 DEF Journal
<1>3. levels' \in Book
  BY Zenon DEF Inv, Typed
<1>4. /\ \A i \in 1 .. Len(path) : Resting(path[i]) \in Book /\ ~ Crossed(Resting(path[i]))
      /\ Len(mutations') = 0
  BY <1>2, <1>3
<1>5. LeadsBack(path)'
  BY <1>2, <1>4 DEF LeadsBack
<1>6. Reversible'
  BY Zenon, <1>1, <1>5 DEF Reversible
<1> QED BY Zenon, <1>6 DEF Clean, BookShowsOrders, BookUncrossed

\* NumberOrder
LEMMA NumberOrderClean ==
  ASSUME Inv, Inv', Clean, NumberOrder
  PROVE  Clean'
<1>0. PICK r, crosses : r = op.request /\ crosses = crosses_order_book(r.side, r.price)
  BY Zenon
<1>1. /\ pc = "number"
      /\ op' = Frame(r, Incoming(next_order_id, r.side, r.price, r.quantity,
                                 next_sequence_number),
                     IF op.order_book_backup = {} /\ crosses THEN {levels}
                     ELSE op.order_book_backup, {}, {})
      /\ pc' = IF crosses THEN "match" ELSE "rest"
      /\ before' = before
      /\ levels' = levels /\ manager' = manager /\ store' = store /\ mutations' = mutations
  BY Zenon, <1>0 DEF NumberOrder, GoTo
<1>2. /\ op'.request = r
      /\ op'.incoming = Incoming(next_order_id, r.side, r.price, r.quantity,
                                 next_sequence_number)
      /\ op'.order_book_backup = IF op.order_book_backup = {} /\ crosses THEN {levels}
                                 ELSE op.order_book_backup
      /\ op'.generator_backup = next_order_id
      /\ op'.sequence_backup = next_sequence_number
      /\ rollback(store, op'.checkpoint) = store
  BY <1>1, FrameFields
<1>3. /\ r \in Request /\ r.kind = "limit" /\ levels \in Book /\ mutations = <<>>
  BY Zenon, <1>0, <1>1 DEF Inv, Typed, Called, Kinds, Journalled
<1>4. r.side \in Side /\ r.price \in Price
  BY Zenon, <1>3 DEF Request
<1>5. /\ levels = Resting(manager) /\ ~ Crossed(levels)
      /\ manager = before[2] /\ store = before[3]
      /\ next_order_id = before[4] /\ next_sequence_number = before[5]
      /\ \/ op.order_book_backup = {before[1]}
         \/ op.order_book_backup = {} /\ levels = before[1]
      /\ before = <<before[1], before[2], before[3], before[4], before[5]>>
      /\ Sound(before[1], before[2])
  BY Zenon, <1>1 DEF Clean, BookShowsOrders, BookUncrossed, Kept, Framed
<1>6. ~ crosses => NoneAccepted(levels, r.side, r.price)
  <2>1. ~ crosses => ~ (/\ has_level(levels, Opposite(r.side))
                        /\ Accepts(r.side, r.price, best_price(levels, Opposite(r.side))))
    BY Zenon, <1>0 DEF crosses_order_book
  <2> QED BY Zenon, <1>3, <1>4, <2>1, BestPriceDecides
<1>7. op'.incoming.side = r.side /\ op'.incoming.price_ticks = r.price
  BY <1>2 DEF Incoming
<1>8. /\ crosses => op'.order_book_backup = {before[1]}
      /\ \/ op'.order_book_backup = {before[1]}
         \/ op'.order_book_backup = {} /\ levels = before[1]
  <2>1. CASE op.order_book_backup = {before[1]}
    BY Zenon, <1>2, <2>1
  <2>2. CASE op.order_book_backup = {} /\ levels = before[1]
    BY Zenon, <1>2, <2>2
  <2> QED BY Zenon, <1>5, <2>1, <2>2
<1>9. Kept'
  <2>1. pc' \in {"match", "rest"} /\ (pc' = "rest" => ~ crosses) /\ before' = before
    BY Zenon, <1>1
  <2>2. /\ op'.generator_backup = before'[4] /\ op'.sequence_backup = before'[5]
        /\ rollback(store', op'.checkpoint) = before'[3]
        /\ op'.request.kind = "limit"
    BY Zenon, <1>1, <1>2, <1>3, <1>5
  <2>3. pc' = "rest" => NoneAccepted(levels', op'.incoming.side, op'.incoming.price_ticks)
    BY Zenon, <1>1, <1>6, <1>7, <2>1
  <2>4. store' = before'[3] /\ manager' = before'[2]
    BY Zenon, <1>1, <1>5
  <2>5. \/ op'.order_book_backup = {before'[1]}
        \/ op'.order_book_backup = {} /\ levels' = before'[1]
    BY Zenon, <1>1, <1>8
  <2>6. /\ before' = <<before'[1], before'[2], before'[3], before'[4], before'[5]>>
        /\ Sound(before'[1], before'[2])
    BY Zenon, <1>1, <1>5
  <2>7. /\ pc' \notin {"idle", "called"} /\ pc' \notin {"failed", "failed_adjusted"}
        /\ pc' # "number" /\ pc' # "failed_adjusted" /\ pc' # "levels" /\ pc' # "undo_delta"
        /\ op'.request.kind # "market"
    BY <2>1, <2>2
  <2> QED BY Zenon, <2>2, <2>3, <2>4, <2>5, <2>6, <2>7 DEF Kept
<1>10. CASE crosses
  <2>1. pc' = "match"
    BY Zenon, <1>1, <1>10
  <2> QED BY Zenon, <1>1, <1>2, <1>3, <1>5, <1>8, <1>9, <1>10, <2>1, EnterLoopClean
<1>11. CASE ~ crosses
  <2>1. pc' = "rest"
    BY Zenon, <1>1, <1>11
  <2> QED BY Zenon, <1>1, <1>5, <1>9, <2>1 DEF Clean, BookShowsOrders, BookUncrossed, Reversible
<1> QED BY Zenon, <1>10, <1>11

\* execute_market_order
LEMMA MarketClean ==
  ASSUME Inv, Inv', Clean, execute_market_order
  PROVE  Clean'
<1>0. PICK r, external : r = op.request /\ external = (manager.orders = <<>>)
  BY Zenon
<1>1. /\ pc = "called" /\ r.kind = "market"
      /\ op' = Frame(r, Incoming(0, r.side, 0, r.quantity, 0),
                     IF external THEN {levels} ELSE {}, {}, {})
      /\ pc' = IF external THEN "levels" ELSE "match"
      /\ before' = before
      /\ levels' = levels /\ manager' = manager /\ store' = store
      /\ next_order_id' = next_order_id /\ next_sequence_number' = next_sequence_number
      /\ mutations' = mutations
  BY Zenon, <1>0 DEF execute_market_order, GoTo
<1>2. /\ op'.request = r
      /\ op'.order_book_backup = IF external THEN {levels} ELSE {}
      /\ op'.generator_backup = next_order_id /\ op'.sequence_backup = next_sequence_number
      /\ rollback(store, op'.checkpoint) = store
  BY <1>1, FrameFields
<1>3. /\ before[1] = levels /\ before[2] = manager /\ before[3] = store
      /\ before[4] = next_order_id /\ before[5] = next_sequence_number
      /\ Sound(levels, manager)
  BY Zenon, <1>1, BeforeIsCurrent
<1>4. /\ before = <<before[1], before[2], before[3], before[4], before[5]>>
      /\ Sound(before[1], before[2]) /\ mutations = <<>>
  BY Zenon, <1>1 DEF Clean, Kept, Inv, Journalled
<1>5. Kept'
  BY Zenon, <1>0, <1>1, <1>2, <1>3, <1>4 DEF Kept, Framed
<1>6. CASE external
  <2>1. pc' = "levels"
    BY Zenon, <1>1, <1>6
  <2> QED BY Zenon, <1>5, <2>1 DEF Clean, BookShowsOrders, BookUncrossed, Reversible
<1>7. CASE ~ external
  <2>1. pc' = "match" /\ levels = Resting(manager) /\ ~ Crossed(levels)
    BY Zenon, <1>0, <1>1, <1>3, <1>7 DEF Sound
  <2>2. op'.request.kind = "market" /\ mutations' = <<>>
    BY Zenon, <1>1, <1>2, <1>4
  <2> QED BY Zenon, <1>1, <1>3, <1>5, <2>1, <2>2, EnterLoopClean
<1> QED BY Zenon, <1>6, <1>7

\* ModifyPrice
LEMMA ModifyPriceClean ==
  ASSUME Inv, Inv', Clean, ModifyPrice
  PROVE  Clean'
<1>0. PICK r, o : r = op.request /\ o = find_order(manager, r.id)
  BY Zenon
<1>1. /\ pc = "called" /\ op.request.kind = "modify"
      /\ can_adjust(levels, o.side, o.price_ticks, -o.remaining_quantity)
      /\ op' = Frame(r, Incoming(r.id, o.side, r.price, r.quantity, next_sequence_number),
                     {}, {o}, {removal_of(manager, r.id)})
      /\ manager' = cancel_order(manager, r.id)
      /\ levels' = adjust_level(levels, o.side, o.price_ticks, -o.remaining_quantity)
      /\ pc' = "match" /\ before' = before
      /\ store' = store /\ next_order_id' = next_order_id /\ mutations' = mutations
  BY Zenon, <1>0 DEF ModifyPrice, GoTo
<1>2. /\ op'.request = r
      /\ op'.original_order = {o} /\ op'.original_removal = {removal_of(manager, r.id)}
      /\ op'.generator_backup = next_order_id /\ op'.sequence_backup = next_sequence_number
      /\ rollback(store, op'.checkpoint) = store
  BY <1>1, FrameFields
<1>3. /\ before[1] = levels /\ before[2] = manager /\ before[3] = store
      /\ before[4] = next_order_id /\ before[5] = next_sequence_number
  BY Zenon, <1>1, BeforeIsCurrent
<1>4. /\ before = <<before[1], before[2], before[3], before[4], before[5]>>
      /\ Sound(before[1], before[2]) /\ mutations = <<>>
  BY Zenon, <1>1 DEF Clean, Kept, Inv, Journalled
<1>5. levels' = Resting(manager') /\ ~ Crossed(levels')
  BY Zenon, <1>0, <1>1, CancelledBook
<1>6. /\ r.id \in OrderId /\ has_order(manager, r.id)
      /\ o.side \in Side /\ o.price_ticks \in BookPrice /\ o.remaining_quantity \in Int
      /\ Older(manager, next_order_id, next_sequence_number) /\ levels \in Book
  BY Zenon, <1>0, <1>1, CalledOrder DEF Inv, Typed
<1>7. WithOriginal(manager', o, removal_of(manager, r.id)) = manager
  BY Zenon, <1>0, <1>1, <1>6, OriginalComesBack
<1>8. adjust_level(levels', o.side, o.price_ticks, o.remaining_quantity) = levels
  <2>1. -o.remaining_quantity \in Int /\ -(-o.remaining_quantity) = o.remaining_quantity
    BY <1>6
  <2> QED BY <1>1, <1>6, <2>1, AdjustBack
<1>9. Kept'
  BY Zenon, <1>0, <1>1, <1>2, <1>3, <1>4 DEF Kept, Framed
<1>10. /\ op'.request.kind = "modify" /\ mutations' = <<>>
       /\ \A x \in op'.original_order, removal \in op'.original_removal :
            /\ WithOriginal(manager', x, removal) = before'[2]
            /\ adjust_level(levels', x.side, x.price_ticks, x.remaining_quantity) = before'[1]
  <2>1. op'.request.kind = "modify" /\ mutations' = <<>>
    BY Zenon, <1>0, <1>1, <1>2, <1>4
  <2>2. op'.original_order = {o} /\ op'.original_removal = {removal_of(manager, r.id)}
    BY Zenon, <1>2
  <2>3. before'[1] = levels /\ before'[2] = manager
    BY Zenon, <1>1, <1>3
  <2> QED BY Zenon, <1>7, <1>8, <2>1, <2>2, <2>3
<1> QED BY Zenon, <1>1, <1>5, <1>9, <1>10, EnterLoopClean
=============================================================================
