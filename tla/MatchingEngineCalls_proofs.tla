--------------------- MODULE MatchingEngineCalls_proofs ----------------------
(***************************************************************************)
(* The invariant of the matching engine, and why the steps outside its two *)
(* loops keep it: the starts of the operations, what they do before and    *)
(* after matching, and their catch blocks.                                 *)
(*                                                                         *)
(* Inv holds wherever memory runs out: it bounds every value and says that *)
(* the journal leads back, through managers that are all consistent, to    *)
(* the manager before the operation.                                       *)
(***************************************************************************)
EXTENDS MatchingEngine, EngineState_proofs

(***************************************************************************)
(* The types of the values.                                                *)
(***************************************************************************)
Typed ==
  /\ levels \in Book
  /\ store \in Store
  /\ next_order_id \in 1 .. MaxOrderId + 1
  /\ next_sequence_number \in 1 .. MaxSequence + 1
  /\ pc \in Labels
  /\ op.request \in Request \cup {NoRequest}
  /\ remaining \in LevelQuantity
  /\ mutations \in Seq(OrderMutation)

(***************************************************************************)
(* What is known of the operation at each label.                           *)
(***************************************************************************)
Framed == {"number", "rest", "match", "levels", "undo", "failed", "failed_adjusted"}

Kinds ==
  /\ pc \in {"number", "rest", "failed", "failed_adjusted"} => op.request.kind = "limit"
  /\ pc = "levels" => op.request.kind = "market"
  /\ pc = "undo_delta" => op.request.kind = "modify"
  /\ pc \in {"match", "undo"} => op.request.kind \in {"market", "limit", "modify"}

\* The guards of Call still hold when the operation starts.
Called ==
  pc \in {"called", "number", "undo_delta"} =>
    /\ op.request \in Request
    /\ op.request.kind \in {"cancel", "modify"} => has_order(manager, op.request.id)
    /\ pc = "called" /\ op.request.kind = "modify" => next_sequence_number <= MaxSequence
    /\ op.request.kind = "limit" => \/ next_sequence_number <= MaxSequence
                                    \/ next_order_id > MaxOrderId

\* The backups are older than the counters, and the orders older than both.
Saved ==
  pc \in Framed =>
    /\ op.request \in Request
    /\ op.order_book_backup \in SUBSET Book
    /\ op.generator_backup \in 1 .. next_order_id
    /\ op.sequence_backup \in 1 .. next_sequence_number
    /\ Older(manager, op.generator_backup, op.sequence_backup)
    /\ op.checkpoint.trade_count \in 0 .. Len(store.trades)
    /\ rollback(store, op.checkpoint) \in Store

\* The order that comes in: its number is the one just given out.
Entering ==
  /\ pc \in {"rest", "match", "levels", "undo"} =>
       /\ op.incoming.side \in Side
       /\ op.incoming.order_id \in OrderId \cup {0}
  /\ pc \in {"rest", "match", "undo"} =>
       /\ op.incoming.original_quantity \in Quantity
       /\ remaining <= op.incoming.original_quantity
       /\ op.request.kind # "market" =>
            /\ op.incoming \in LimitOrder
            /\ op.incoming.order_id < next_order_id
            /\ op.incoming.sequence_number = op.sequence_backup
            /\ op.sequence_backup < next_sequence_number
            /\ ~ has_order(manager, op.incoming.order_id)
  /\ pc = "rest" =>
       /\ remaining = op.request.quantity
       /\ op.incoming.side = op.request.side
       /\ op.incoming.price_ticks = op.request.price
       /\ op.incoming.remaining_quantity = op.request.quantity

\* What a catch block adds to the book or takes from it fits.
Adjusted ==
  /\ pc = "failed_adjusted" /\ op.order_book_backup = {} =>
       can_adjust(levels, op.request.side, op.request.price, -op.request.quantity)
  /\ pc = "undo_delta" =>
       LET o == find_order(manager, op.request.id)
       IN  can_adjust(levels, o.side, o.price_ticks,
                      -quantity_delta(o, op.request.quantity))
  /\ pc \in {"match", "undo"} /\ op.request.kind = "modify" =>
       \E o \in LimitOrder, removal \in Removal :
         /\ op.original_order = {o} /\ op.original_removal = {removal}
         /\ o.side = op.incoming.side
         /\ can_adjust(levels, o.side, o.price_ticks, o.remaining_quantity)

(***************************************************************************)
(* The journal.  path[i] is the manager before mutations[i] and path[i+1]  *)
(* the one after it: undoing the last mutation yields the last but one.    *)
(***************************************************************************)
\* The manager with the order that a modification took out
WithOriginal(m, o, removal) == restore_removal(m, with_removed_order(removal, o))

Journal(path) ==
  /\ path \in Seq(Manager)
  /\ Len(path) = Len(mutations) + 1
  /\ path[Len(path)] = manager
  /\ \A i \in 1 .. Len(path) :
       /\ Older(path[i], op.generator_backup, op.sequence_backup)
       /\ op.request.kind # "market" => ~ has_order(path[i], op.incoming.order_id)
  /\ \A i \in 1 .. Len(mutations) :
       /\ mutations[i].side = Opposite(op.incoming.side)
       /\ Undoes(mutations[i], path[i + 1], path[i])
  /\ op.request.kind = "modify" =>
       \A o \in op.original_order, removal \in op.original_removal :
         Older(WithOriginal(path[1], o, removal), op.generator_backup, op.sequence_backup)

Journalled ==
  /\ pc \in {"match", "undo"} => \E path \in Seq(Manager) : Journal(path)
  /\ pc \notin {"match", "undo"} => mutations = <<>>

Inv ==
  /\ Typed
  /\ Older(manager, next_order_id, next_sequence_number)
  /\ Kinds
  /\ Called
  /\ Saved
  /\ Entering
  /\ Adjusted
  /\ Journalled

-----------------------------------------------------------------------------
(***************************************************************************)
(* Inv is inductive: one lemma per step.                                   *)
(***************************************************************************)
\* The executed quantity, std::min of the two remaining ones
LEMMA LesserQuantity ==
  ASSUME NEW a \in Quantity, NEW b \in Quantity
  PROVE  /\ Lesser(a, b) \in Quantity /\ Lesser(a, b) <= a /\ Lesser(a, b) <= b
         /\ a - Lesser(a, b) \in LevelQuantity /\ b - Lesser(a, b) \in LevelQuantity
BY MarketAssumption DEF Lesser, Quantity, LevelQuantity

\* The empty engine
LEMMA InitInv ==
  ASSUME Init
  PROVE  Inv
<1>1. levels \in Book
  BY MarketAssumption DEF Init, EmptyBook, Book, LevelQuantity
<1>2. store \in Store
  BY DEF Init, EmptyStore, Store
<1>3. manager \in Manager
  BY DEF Init, NoOrders, Manager
<1>4. \A id \in OrderId : ~ has_order(manager, id)
  BY Zenon DEF Init, NoOrders, has_order
<1>5. Consistent(manager)
  <2>1. Len(manager.orders) = 0
    BY Zenon DEF Init, NoOrders
  <2>2. \A s \in Side : manager.priority_index[s] = {}
    BY Zenon DEF Init, NoOrders
  <2> QED BY <1>4, <2>1, <2>2 DEF Consistent, IndexConsistent, PriorityConsistent
<1>6. Older(manager, next_order_id, next_sequence_number)
  BY Zenon, <1>3, <1>4, <1>5 DEF Older
<1>7. Typed
  BY <1>1, <1>2, MarketAssumption, OrderManagerAssumption
  DEF Init, Typed, Labels, NoCall, LevelQuantity
<1> QED
  BY Zenon, <1>6, <1>7
  DEF Init, Inv, Kinds, Called, Saved, Entering, Adjusted, Journalled, Framed

\* An operation that ends leaves nothing to know of it.
LEMMA EndInv ==
  ASSUME pc' = "idle", op' = NoCall, remaining' = 0, mutations' = <<>>,
         levels' \in Book, store' \in Store,
         next_order_id' \in 1 .. MaxOrderId + 1,
         next_sequence_number' \in 1 .. MaxSequence + 1,
         Older(manager', next_order_id', next_sequence_number')
  PROVE  Inv'
  BY MarketAssumption
     DEF Typed, Labels, NoCall, LevelQuantity, Inv, Kinds, Called, Saved,
         Entering, Adjusted, Journalled, Framed

\* Call
LEMMA CallInv ==
  ASSUME Inv, NEW request \in Request, Call(request)
  PROVE  Inv'
  BY Zenon DEF Inv, Typed, Call, GoTo, Labels, Journalled, Called, Kinds, Saved,
     Entering, Adjusted, Framed

\* clear_trade_history and replace_snapshot
LEMMA BetweenCallsInv ==
  ASSUME Inv, clear_trade_history \/ \E b \in Snapshots : replace_snapshot(b)
  PROVE  Inv'
<1>1. CASE clear_trade_history
  BY <1>1, EndInv DEF Inv, Typed, clear_trade_history, clear, Store, Return
<1>2. CASE \E b \in Snapshots : replace_snapshot(b)
  BY Zenon, <1>2, EngineAssumption, EndInv DEF Inv, Typed, replace_snapshot, Return
<1> QED BY Zenon, <1>1, <1>2

\* MatchingDone and LevelsDone
LEMMA DoneInv ==
  ASSUME Inv, MatchingDone \/ LevelsDone
  PROVE  Inv'
BY Zenon, EndInv DEF Inv, Typed, MatchingDone, LevelsDone, persistent, Return

\* The order that rests is one that add_order accepts.
LEMMA RemainderRests ==
  ASSUME Inv, pc \in {"rest", "match"}, op.request.kind # "market", remaining > 0
  PROVE  LET o == with_quantities(op.incoming, op.incoming.original_quantity, remaining)
         IN  /\ o \in LimitOrder
             /\ can_add_order(manager, o)
             /\ manager \in Manager /\ Consistent(manager)
             /\ o.side = op.incoming.side /\ o.side \in Side
             /\ o.price_ticks = op.incoming.price_ticks /\ o.price_ticks \in Price
             /\ o.price_ticks \in BookPrice /\ remaining \in Int
             /\ o.remaining_quantity = remaining
             /\ Older(add_order(manager, o), next_order_id, next_sequence_number)
<1> DEFINE o == with_quantities(op.incoming, op.incoming.original_quantity, remaining)
<1>1. /\ op.incoming \in LimitOrder /\ remaining <= op.incoming.original_quantity
      /\ op.incoming.order_id < next_order_id
      /\ op.incoming.sequence_number = op.sequence_backup
      /\ op.sequence_backup < next_sequence_number
      /\ ~ has_order(manager, op.incoming.order_id)
  BY Zenon DEF Inv, Entering
<1>2. /\ Older(manager, op.generator_backup, op.sequence_backup)
      /\ op.generator_backup \in 1 .. next_order_id
      /\ op.sequence_backup \in 1 .. next_sequence_number
  BY Zenon DEF Inv, Saved, Framed
<1>3. remaining \in 1 .. MaxQuantity /\ next_order_id \in Int /\ next_sequence_number \in Int
  BY DEF Inv, Typed, LevelQuantity
<1>4. /\ o.order_id = op.incoming.order_id /\ o.sequence_number = op.sequence_backup
      /\ o.side = op.incoming.side /\ o.price_ticks = op.incoming.price_ticks
      /\ o.remaining_quantity = remaining
      /\ o.original_quantity = op.incoming.original_quantity
  BY Zenon, <1>1 DEF with_quantities
<1>5. o \in LimitOrder
  BY <1>1, <1>3 DEF with_quantities, LimitOrder
<1> HIDE DEF o
<1>6. validate_order(o)
  BY Zenon, <1>1, <1>3, <1>4, <1>5 DEF validate_order
<1>7. can_add_order(manager, o) /\ manager \in Manager /\ Consistent(manager)
  BY Zenon, <1>1, <1>2, <1>4, <1>6 DEF can_add_order, Older
<1>8. Older(add_order(manager, o), next_order_id, next_sequence_number)
  <2>1. op.generator_backup \in Int /\ op.sequence_backup \in Int
          /\ op.generator_backup <= next_order_id
    BY <1>2
  <2>2. o.order_id < next_order_id /\ ~ has_order(manager, o.order_id)
    BY Zenon, <1>1, <1>4
  <2> QED BY Zenon, <1>1, <1>2, <1>3, <1>4, <1>5, <1>6, <2>1, <2>2, OlderAfterAdd
<1>9. o.side \in Side /\ o.price_ticks \in Price /\ o.price_ticks \in BookPrice
  BY <1>5 DEF LimitOrder, Price, BookPrice
<1> QED BY <1>3, <1>4, <1>5, <1>7, <1>8, <1>9 DEF o

\* RestRemainder
LEMMA RestRemainderInv ==
  ASSUME Inv, RestRemainder
  PROVE  Inv'
<1> DEFINE o == resting_remainder
<1>1. /\ o.side \in Side /\ o.price_ticks \in BookPrice /\ remaining \in Int
      /\ Older(add_order(manager, o), next_order_id, next_sequence_number)
  BY Zenon, RemainderRests DEF RestRemainder, resting_remainder
<1>2. levels \in Book
  BY Zenon DEF Inv, Typed
<1>3. /\ can_adjust(levels, o.side, o.price_ticks, remaining)
      /\ manager' = add_order(manager, o)
      /\ levels' = adjust_level(levels, o.side, o.price_ticks, remaining)
      /\ UNCHANGED <<store, next_order_id, next_sequence_number>>
      /\ Return
  BY Zenon DEF RestRemainder
<1> HIDE DEF o
<1>4. levels' \in Book
  BY Zenon, <1>1, <1>2, <1>3, AdjustLevel
<1>5. /\ next_order_id' = next_order_id /\ next_sequence_number' = next_sequence_number
      /\ store' = store /\ manager' = add_order(manager, o)
      /\ pc' = "idle" /\ op' = NoCall /\ remaining' = 0 /\ mutations' = <<>>
  BY Zenon, <1>3 DEF Return
<1>6. /\ store \in Store /\ next_order_id \in 1 .. MaxOrderId + 1
      /\ next_sequence_number \in 1 .. MaxSequence + 1
  BY Zenon DEF Inv, Typed
<1> QED BY Zenon, <1>1, <1>4, <1>5, <1>6, EndInv

\* The order of place_limit_order rests unchanged.
LEMMA OrderRests ==
  ASSUME Inv, pc = "rest"
  PROVE  /\ op.request.kind = "limit" /\ remaining > 0
         /\ op.incoming = with_quantities(op.incoming, op.incoming.original_quantity, remaining)
<1>1. /\ op.request.kind = "limit" /\ op.request \in Request
      /\ remaining = op.request.quantity
      /\ op.incoming.remaining_quantity = op.request.quantity
      /\ op.incoming \in LimitOrder
  BY Zenon DEF Inv, Kinds, Saved, Framed, Entering
<1>2. op.request.quantity \in Quantity
  BY Zenon, <1>1 DEF Request
<1> QED BY <1>1, <1>2 DEF with_quantities, LimitOrder, Quantity

\* RestOrder
LEMMA RestOrderInv ==
  ASSUME Inv, RestOrder
  PROVE  Inv'
<1> DEFINE o == op.incoming
<1>1. /\ o.side \in Side /\ o.price_ticks \in BookPrice /\ remaining \in Int
      /\ Older(add_order(manager, o), next_order_id, next_sequence_number)
  BY Zenon, RemainderRests, OrderRests DEF RestOrder
<1>2. levels \in Book
  BY Zenon DEF Inv, Typed
<1>3. /\ can_adjust(levels, o.side, o.price_ticks, remaining)
      /\ levels' = adjust_level(levels, o.side, o.price_ticks, remaining)
      /\ next_order_id' = next_order_id /\ next_sequence_number' = next_sequence_number
      /\ store' = store /\ manager' = add_order(manager, o)
      /\ pc' = "idle" /\ op' = NoCall /\ remaining' = 0 /\ mutations' = <<>>
  BY Zenon DEF RestOrder, Return
<1> HIDE DEF o
<1>4. levels' \in Book
  BY Zenon, <1>1, <1>2, <1>3, AdjustLevel
<1>5. /\ store \in Store /\ next_order_id \in 1 .. MaxOrderId + 1
      /\ next_sequence_number \in 1 .. MaxSequence + 1
  BY Zenon DEF Inv, Typed
<1> QED BY Zenon, <1>1, <1>3, <1>4, <1>5, EndInv

\* The order that cancel_order and modify_order were called for
LEMMA CalledOrder ==
  ASSUME Inv, pc \in {"called", "undo_delta"}, op.request.kind \in {"cancel", "modify"}
  PROVE  LET o == find_order(manager, op.request.id)
         IN  /\ op.request.id \in OrderId /\ has_order(manager, op.request.id)
             /\ o \in LimitOrder /\ o.order_id = op.request.id
             /\ o.side \in Side /\ o.price_ticks \in BookPrice
             /\ o.remaining_quantity \in Quantity /\ o.remaining_quantity \in Int
             /\ op.request.kind = "modify" =>
                  /\ op.request.quantity \in Quantity /\ op.request.price \in Price
                  /\ quantity_delta(o, op.request.quantity) \in Int
             /\ manager \in Manager /\ Consistent(manager)
             /\ Older(manager, next_order_id, next_sequence_number)
<1> DEFINE o == find_order(manager, op.request.id)
<1>1. /\ op.request \in Request /\ has_order(manager, op.request.id)
      /\ Older(manager, next_order_id, next_sequence_number)
  BY Zenon DEF Inv, Called
<1>2. op.request.id \in OrderId
  BY Zenon, <1>1 DEF Request
<1>3. op.request.kind = "modify" => op.request.quantity \in Quantity /\ op.request.price \in Price
  BY Zenon, <1>1 DEF Request
<1>4. manager \in Manager /\ Consistent(manager) /\ o.remaining_quantity > 0
  BY Zenon, <1>1, <1>2 DEF Older
<1>5. o \in LimitOrder /\ o.order_id = op.request.id
  BY Zenon, <1>1, <1>2, <1>4, Positions
<1> HIDE DEF o
<1>6. /\ o.side \in Side /\ o.price_ticks \in BookPrice
      /\ o.remaining_quantity \in Quantity /\ o.remaining_quantity \in Int
  BY <1>4, <1>5 DEF LimitOrder, Price, BookPrice, Quantity
<1>7. op.request.kind = "modify" => quantity_delta(o, op.request.quantity) \in Int
  BY <1>3, <1>6 DEF quantity_delta, Quantity
<1> QED BY Zenon, <1>1, <1>2, <1>3, <1>4, <1>5, <1>6, <1>7 DEF o

\* CancelOrder
LEMMA CancelOrderInv ==
  ASSUME Inv, CancelOrder
  PROVE  Inv'
<1> DEFINE o == find_order(manager, op.request.id)
<1>1. /\ pc = "called" /\ op.request.kind = "cancel"
      /\ can_adjust(levels, o.side, o.price_ticks, -o.remaining_quantity)
      /\ manager' = cancel_order(manager, o.order_id)
      /\ levels' = adjust_level(levels, o.side, o.price_ticks, -o.remaining_quantity)
      /\ next_order_id' = next_order_id /\ next_sequence_number' = next_sequence_number
      /\ store' = store
      /\ pc' = "idle" /\ op' = NoCall /\ remaining' = 0 /\ mutations' = <<>>
  BY Zenon DEF CancelOrder, Return
<1>2. /\ op.request.id \in OrderId /\ has_order(manager, op.request.id)
      /\ o.order_id = op.request.id
      /\ o.side \in Side /\ o.price_ticks \in BookPrice /\ o.remaining_quantity \in Int
      /\ Older(manager, next_order_id, next_sequence_number)
  BY Zenon, <1>1, CalledOrder
<1> HIDE DEF o
<1>3. Older(manager', next_order_id', next_sequence_number')
  BY Zenon, <1>1, <1>2, OlderAfterCancel
<1>4. levels' \in Book
  <2>1. -o.remaining_quantity \in Int /\ levels \in Book
    BY <1>2 DEF Inv, Typed
  <2> QED BY Zenon, <1>1, <1>2, <2>1, AdjustLevel
<1>5. /\ store \in Store /\ next_order_id \in 1 .. MaxOrderId + 1
      /\ next_sequence_number \in 1 .. MaxSequence + 1
  BY Zenon DEF Inv, Typed
<1> QED BY Zenon, <1>1, <1>3, <1>4, <1>5, EndInv

\* ModifyQuantity
LEMMA ModifyQuantityInv ==
  ASSUME Inv, ModifyQuantity
  PROVE  Inv'
<1> DEFINE r == op.request
           o == find_order(manager, r.id)
           delta == quantity_delta(o, r.quantity)
           loses_priority == r.quantity > o.remaining_quantity
           resequenced == IF loses_priority
                          THEN update_sequence_number(manager, r.id, next_sequence_number)
                          ELSE manager
<1>1. /\ pc = "called" /\ op.request.kind = "modify"
      /\ can_adjust(levels, o.side, o.price_ticks, delta)
      /\ levels' = adjust_level(levels, o.side, o.price_ticks, delta)
      /\ manager' = set_quantities(resequenced, r.id, r.quantity, r.quantity)
      /\ next_sequence_number' = IF loses_priority THEN next_sequence_number + 1
                                                   ELSE next_sequence_number
      /\ next_order_id' = next_order_id /\ store' = store
      /\ pc' = "idle" /\ op' = NoCall /\ remaining' = 0 /\ mutations' = <<>>
  BY Zenon DEF ModifyQuantity, Return
<1>2. /\ r.id \in OrderId /\ has_order(manager, r.id)
      /\ o.side \in Side /\ o.price_ticks \in BookPrice /\ o.remaining_quantity \in Int
      /\ r.quantity \in Quantity /\ delta \in Int
      /\ Older(manager, next_order_id, next_sequence_number)
  BY Zenon, <1>1, CalledOrder
<1>3. next_sequence_number <= MaxSequence
  BY Zenon, <1>1 DEF Inv, Called
<1>4. /\ store \in Store /\ next_order_id \in 1 .. MaxOrderId + 1
      /\ next_sequence_number \in 1 .. MaxSequence + 1 /\ levels \in Book
  BY Zenon DEF Inv, Typed
<1>5. levels' \in Book
  <2> HIDE DEF o, delta
  <2> QED BY Zenon, <1>1, <1>2, <1>4, AdjustLevel
<1>6. /\ Older(resequenced, next_order_id', next_sequence_number')
      /\ has_order(resequenced, r.id)
      /\ next_sequence_number' \in 1 .. MaxSequence + 1
  <2>1. CASE loses_priority
    <3>1. next_sequence_number \in SequenceNumber
      BY <1>3, <1>4 DEF SequenceNumber
    <3>2. resequenced = update_sequence_number(manager, r.id, next_sequence_number)
            /\ next_sequence_number' = next_sequence_number + 1
      BY Zenon, <1>1, <2>1
    <3>3. next_sequence_number' \in 1 .. MaxSequence + 1
      BY <1>3, <1>4, <3>2, OrderManagerAssumption
    <3> HIDE DEF resequenced, r
    <3> QED BY <1>1, <1>2, <3>1, <3>2, <3>3, OlderResequenced
  <2>2. CASE ~ loses_priority
    BY Zenon, <1>1, <1>2, <1>4, <2>2
  <2> QED BY Zenon, <2>1, <2>2
<1>7. Older(manager', next_order_id', next_sequence_number')
  <2> HIDE DEF resequenced, r
  <2> QED BY Zenon, <1>1, <1>2, <1>6, OlderAfterSet
<1> QED BY Zenon, <1>1, <1>4, <1>5, <1>6, <1>7, EndInv

\* The counters and the store in an operation that has saved them
LEMMA SavedValues ==
  ASSUME Inv, pc \in Framed
  PROVE  /\ levels \in Book /\ store \in Store
         /\ next_order_id \in 1 .. MaxOrderId + 1
         /\ next_sequence_number \in 1 .. MaxSequence + 1
         /\ op.generator_backup \in 1 .. MaxOrderId + 1
         /\ op.sequence_backup \in 1 .. MaxSequence + 1
         /\ op.generator_backup <= next_order_id
         /\ op.sequence_backup <= next_sequence_number
         /\ Older(manager, op.generator_backup, op.sequence_backup)
         /\ op.checkpoint.trade_count \in 0 .. Len(store.trades)
         /\ rollback(store, op.checkpoint) \in Store
         /\ op.order_book_backup \in SUBSET Book
         /\ op.request \in Request
<1>1. /\ levels \in Book /\ store \in Store
      /\ next_order_id \in 1 .. MaxOrderId + 1
      /\ next_sequence_number \in 1 .. MaxSequence + 1
  BY Zenon DEF Inv, Typed
<1>2. /\ op.generator_backup \in 1 .. next_order_id
      /\ op.sequence_backup \in 1 .. next_sequence_number
      /\ Older(manager, op.generator_backup, op.sequence_backup)
      /\ op.checkpoint.trade_count \in 0 .. Len(store.trades)
      /\ rollback(store, op.checkpoint) \in Store
      /\ op.order_book_backup \in SUBSET Book
      /\ op.request \in Request
  BY Zenon DEF Inv, Saved
<1>3. /\ op.generator_backup \in 1 .. MaxOrderId + 1
      /\ op.sequence_backup \in 1 .. MaxSequence + 1
      /\ op.generator_backup <= next_order_id
      /\ op.sequence_backup <= next_sequence_number
  BY <1>1, <1>2, OrderManagerAssumption
<1> QED BY Zenon, <1>1, <1>2, <1>3

\* A trade that an operation records, and its checkpoint
LEMMA TradeRecorded ==
  ASSUME Inv, pc \in Framed, NEW aggressor \in Side, NEW price \in Price,
         NEW quantity \in Quantity, NEW buy_id \in OrderId \cup {0},
         NEW sell_id \in OrderId \cup {0},
         NEW recorded, recorded = record_trade(store, aggressor, price, quantity, buy_id, sell_id)
  PROVE  /\ recorded \in Store
         /\ op.checkpoint.trade_count \in 0 .. Len(recorded.trades)
         /\ rollback(recorded, op.checkpoint) = rollback(store, op.checkpoint)
<1>1. /\ store \in Store /\ op.checkpoint.trade_count \in 0 .. Len(store.trades)
      /\ Len(store.trades) \in Nat
  BY SavedValues DEF Store
<1>2. /\ recorded \in Store
      /\ Len(recorded.trades) = Len(store.trades) + 1
      /\ \A c : c.trade_count \in 0 .. Len(store.trades)
                  => rollback(recorded, c) = rollback(store, c)
  BY <1>1, RecordTrade
<1> QED BY <1>1, <1>2

\* The level that a market order executes
LEMMA LevelExecuted ==
  ASSUME Inv, pc = "levels", remaining > 0,
         NEW side, side = Opposite(op.incoming.side), has_level(levels, side),
         NEW price, price = best_price(levels, side),
         NEW executed, executed = Lesser(remaining, levels[side][price])
  PROVE  /\ side \in Side /\ price \in BookPrice /\ op.incoming.side \in Side
         /\ executed \in Quantity /\ executed <= remaining
         /\ levels[side][price] - executed \in LevelQuantity
         /\ validate_trade(price, executed) => price \in Price
<1>1. levels \in Book /\ remaining \in LevelQuantity /\ op.incoming.side \in Side
  BY Zenon DEF Inv, Typed, Entering
<1>2. side \in Side
  BY Zenon DEF Opposite, Side
<1>3. price \in BookPrice /\ levels[side][price] > 0
  BY Zenon, <1>1, <1>2, BestPrice
<1>4. levels[side][price] \in LevelQuantity
  BY Zenon, <1>1, <1>2, <1>3 DEF Book
<1>5. /\ executed \in Quantity /\ executed <= remaining
      /\ levels[side][price] - executed \in LevelQuantity
  <2>1. remaining \in Quantity /\ levels[side][price] \in Quantity
    BY <1>1, <1>3, <1>4 DEF LevelQuantity, Quantity
  <2> QED BY Zenon, <2>1, LesserQuantity
<1>6. validate_trade(price, executed) => price \in Price
  BY <1>3 DEF validate_trade, BookPrice, Price
<1> QED BY Zenon, <1>1, <1>2, <1>3, <1>5, <1>6

\* ExecuteLevel
LEMMA ExecuteLevelInv ==
  ASSUME Inv, ExecuteLevel
  PROVE  Inv'
<1>0. PICK side, price, executed :
        /\ side = Opposite(op.incoming.side)
        /\ price = best_price(levels, side)
        /\ executed = Lesser(remaining, levels[side][price])
  BY Zenon
<1>1. /\ pc = "levels" /\ remaining > 0 /\ has_level(levels, side)
      /\ validate_trade(price, executed)
      /\ store' = record_trade(store, op.incoming.side, price, executed, 0, 0)
      /\ levels' = update_level(levels, side, price, levels[side][price] - executed)
      /\ remaining' = remaining - executed
      /\ pc' = "levels" /\ op' = op /\ mutations' = mutations /\ manager' = manager
      /\ next_order_id' = next_order_id /\ next_sequence_number' = next_sequence_number
  BY Zenon, <1>0 DEF ExecuteLevel, GoTo
<1>2. /\ side \in Side /\ price \in BookPrice
      /\ executed \in Quantity /\ executed <= remaining
      /\ levels[side][price] - executed \in LevelQuantity
      /\ store' \in Store /\ op.checkpoint.trade_count \in 0 .. Len(store'.trades)
      /\ rollback(store', op.checkpoint) = rollback(store, op.checkpoint)
  <2>1. /\ side \in Side /\ price \in BookPrice /\ op.incoming.side \in Side
        /\ executed \in Quantity /\ executed <= remaining
        /\ levels[side][price] - executed \in LevelQuantity
        /\ price \in Price
    BY <1>0, <1>1, LevelExecuted, Zenon
  <2>2. pc \in Framed /\ 0 \in OrderId \cup {0}
    BY Zenon, <1>1 DEF Framed
  <2>3. PICK recorded :
          recorded = record_trade(store, op.incoming.side, price, executed, 0, 0)
    BY Zenon
  <2>4. /\ recorded \in Store /\ op.checkpoint.trade_count \in 0 .. Len(recorded.trades)
        /\ rollback(recorded, op.checkpoint) = rollback(store, op.checkpoint)
    BY <2>1, <2>2, <2>3, TradeRecorded, Zenon
  <2> QED BY Zenon, <1>1, <2>1, <2>3, <2>4
<1>3. levels' \in Book
  BY Zenon, <1>1, <1>2, UpdateLevel DEF Inv, Typed
<1>4. remaining' \in LevelQuantity
  <2>1. remaining \in Nat /\ remaining <= MaxQuantity
    BY DEF Inv, Typed, LevelQuantity
  <2>2. executed \in Nat
    BY <1>2 DEF Quantity
  <2> QED BY <1>1, <1>2, <2>1, <2>2, MarketAssumption DEF LevelQuantity
<1>5. Typed'
  BY Zenon, <1>1, <1>2, <1>3, <1>4 DEF Inv, Typed
<1>6. Saved'
  BY Zenon, <1>1, <1>2 DEF Inv, Saved, Framed
<1>7. Entering' /\ Kinds'
  BY Zenon, <1>1 DEF Inv, Entering, Kinds
<1>8. Older(manager, next_order_id, next_sequence_number)'
  BY Zenon, <1>1 DEF Inv
<1>9. mutations' = <<>>
  BY Zenon, <1>1 DEF Inv, Journalled
<1> QED BY Zenon, <1>1, <1>5, <1>6, <1>7, <1>8, <1>9 DEF Inv, Called, Adjusted, Journalled

\* ExecuteLevelThrows
LEMMA ExecuteLevelThrowsInv ==
  ASSUME Inv, NEW recorded \in BOOLEAN, ExecuteLevelThrows(recorded)
  PROVE  Inv' /\ store' = rollback(store, op.checkpoint)
<1>0. PICK side, price, executed :
        /\ side = Opposite(op.incoming.side)
        /\ price = best_price(levels, side)
        /\ executed = Lesser(remaining, levels[side][price])
  BY Zenon
<1>1. /\ pc = "levels" /\ remaining > 0 /\ has_level(levels, side)
      /\ recorded => validate_trade(price, executed)
      /\ store' = rollback(IF recorded
                           THEN record_trade(store, op.incoming.side, price, executed, 0, 0)
                           ELSE store, op.checkpoint)
      /\ levels' \in op.order_book_backup
      /\ manager' = manager
      /\ next_order_id' = next_order_id /\ next_sequence_number' = next_sequence_number
      /\ pc' = "idle" /\ op' = NoCall /\ remaining' = 0 /\ mutations' = <<>>
  BY Zenon, <1>0 DEF ExecuteLevelThrows, Throw
<1>2. store' = rollback(store, op.checkpoint)
  <2>1. CASE recorded
    <3>1. /\ executed \in Quantity /\ price \in Price /\ op.incoming.side \in Side
      BY <1>0, <1>1, <2>1, LevelExecuted, Zenon
    <3>2. pc \in Framed /\ 0 \in OrderId \cup {0}
      BY Zenon, <1>1 DEF Framed
    <3>3. PICK s : s = record_trade(store, op.incoming.side, price, executed, 0, 0)
      BY Zenon
    <3>4. rollback(s, op.checkpoint) = rollback(store, op.checkpoint)
      BY <3>1, <3>2, <3>3, TradeRecorded, Zenon
    <3> QED BY Zenon, <1>1, <2>1, <3>3, <3>4
  <2>2. CASE ~ recorded
    BY Zenon, <1>1, <2>2
  <2> QED BY Zenon, <2>1, <2>2
<1>3. pc \in Framed
  BY Zenon, <1>1 DEF Framed
<1>4. Older(manager', next_order_id', next_sequence_number')
  BY Zenon, <1>1 DEF Inv
<1> QED BY Zenon, <1>1, <1>2, <1>3, <1>4, SavedValues, EndInv

\* MarketUndone
LEMMA MarketUndoneInv ==
  ASSUME Inv, MarketUndone
  PROVE  Inv'
<1>1. pc \in Framed
  BY Zenon DEF MarketUndone, Framed
<1>2. Older(manager', next_order_id', next_sequence_number')
  BY Zenon DEF Inv, MarketUndone
<1> QED BY Zenon, <1>1, <1>2, SavedValues, EndInv DEF MarketUndone, Throw

\* LimitFailed
LEMMA LimitFailedInv ==
  ASSUME Inv, LimitFailed
  PROVE  Inv'
<1>1. pc \in Framed
  BY Zenon DEF LimitFailed, Framed
<1>2. /\ next_order_id' = op.generator_backup
      /\ next_sequence_number' = op.sequence_backup
      /\ manager' = manager /\ store' = store
      /\ pc' = "idle" /\ op' = NoCall /\ remaining' = 0 /\ mutations' = <<>>
  BY Zenon DEF LimitFailed, Throw
<1>3. levels' \in Book
  <2>1. CASE levels' \in op.order_book_backup
    BY Zenon, <1>1, <2>1, SavedValues
  <2>2. CASE /\ op.order_book_backup = {}
             /\ levels' = IF pc = "failed_adjusted"
                          THEN adjust_level(levels, op.request.side, op.request.price,
                                            -op.request.quantity)
                          ELSE levels
    <3>1. op.request.kind = "limit" /\ op.request \in Request
      BY Zenon, <1>1, SavedValues DEF LimitFailed, Inv, Kinds
    <3>2. /\ op.request.side \in Side /\ op.request.price \in BookPrice
          /\ -op.request.quantity \in Int
      BY <3>1 DEF Request, Price, BookPrice, Quantity
    <3>3. pc = "failed_adjusted" =>
            can_adjust(levels, op.request.side, op.request.price, -op.request.quantity)
      BY Zenon, <2>2 DEF Inv, Adjusted
    <3> QED BY <1>1, <2>2, <3>2, <3>3, SavedValues, AdjustLevel
  <2> QED BY Zenon, <2>1, <2>2 DEF LimitFailed
<1> QED BY Zenon, <1>1, <1>2, <1>3, SavedValues, EndInv

\* ModifyQuantityThrows
LEMMA ModifyQuantityThrowsInv ==
  ASSUME Inv, ModifyQuantityThrows
  PROVE  Inv'
<1>0. PICK o, delta : /\ o = find_order(manager, op.request.id)
                      /\ delta = quantity_delta(o, op.request.quantity)
  BY Zenon
<1>1. /\ pc = "called" /\ op.request.kind = "modify"
      /\ \/ UNCHANGED levels /\ Throw
         \/ /\ can_adjust(levels, o.side, o.price_ticks, delta)
            /\ levels' = adjust_level(levels, o.side, o.price_ticks, delta)
            /\ GoTo("undo_delta")
            /\ UNCHANGED locals
      /\ UNCHANGED <<manager, store, next_order_id, next_sequence_number>>
  BY Zenon, <1>0 DEF ModifyQuantityThrows
<1>2. /\ manager' = manager /\ store' = store
      /\ next_order_id' = next_order_id /\ next_sequence_number' = next_sequence_number
      /\ Older(manager', next_order_id', next_sequence_number')
  BY Zenon, <1>1 DEF Inv
<1>3. CASE UNCHANGED levels /\ Throw
  BY Zenon, <1>2, <1>3, EndInv DEF Throw, Inv, Typed
<1>4. CASE /\ can_adjust(levels, o.side, o.price_ticks, delta)
           /\ levels' = adjust_level(levels, o.side, o.price_ticks, delta)
           /\ GoTo("undo_delta")
           /\ UNCHANGED locals
  <2>1. /\ o.side \in Side /\ o.price_ticks \in BookPrice /\ delta \in Int /\ levels \in Book
    BY Zenon, <1>0, <1>1, CalledOrder DEF Inv, Typed
  <2>2. levels' \in Book /\ can_adjust(levels', o.side, o.price_ticks, -delta)
    BY Zenon, <1>4, <2>1, AdjustLevel, AdjustBack
  <2>3. /\ pc' = "undo_delta" /\ op' = op /\ remaining' = remaining /\ mutations' = mutations
    BY Zenon, <1>4 DEF GoTo, locals
  <2>4. Typed'
    BY Zenon, <1>2, <2>2, <2>3 DEF Inv, Typed, Labels
  <2>5. Called'
    BY Zenon, <1>1, <1>2, <2>3 DEF Inv, Called
  <2>6. Adjusted'
    BY Zenon, <1>0, <1>2, <2>2, <2>3 DEF Adjusted
  <2>7. mutations' = <<>>
    BY Zenon, <1>1, <2>3 DEF Inv, Journalled
  <2> QED BY Zenon, <1>1, <1>2, <2>3, <2>4, <2>5, <2>6, <2>7
          DEF Inv, Kinds, Saved, Framed, Entering, Journalled
<1> QED BY Zenon, <1>1, <1>3, <1>4

\* UndoDelta
LEMMA UndoDeltaInv ==
  ASSUME Inv, UndoDelta
  PROVE  Inv'
<1>0. PICK o, delta : /\ o = find_order(manager, op.request.id)
                      /\ delta = quantity_delta(o, op.request.quantity)
  BY Zenon
<1>1. /\ pc = "undo_delta"
      /\ levels' = adjust_level(levels, o.side, o.price_ticks, -delta)
      /\ manager' = manager /\ store' = store
      /\ next_order_id' = next_order_id /\ next_sequence_number' = next_sequence_number
      /\ pc' = "idle" /\ op' = NoCall /\ remaining' = 0 /\ mutations' = <<>>
  BY Zenon, <1>0 DEF UndoDelta, Throw
<1>2. op.request.kind = "modify" /\ can_adjust(levels, o.side, o.price_ticks, -delta)
  BY Zenon, <1>0, <1>1 DEF Inv, Kinds, Adjusted
<1>3. /\ o.side \in Side /\ o.price_ticks \in BookPrice /\ delta \in Int /\ levels \in Book
  BY Zenon, <1>0, <1>1, <1>2, CalledOrder DEF Inv, Typed
<1>4. -delta \in Int
  BY <1>3
<1>5. levels' \in Book
  BY Zenon, <1>1, <1>2, <1>3, <1>4, AdjustLevel
<1> QED BY Zenon, <1>1, <1>5, EndInv DEF Inv, Typed

\* ModifyUndone
LEMMA ModifyUndoneInv ==
  ASSUME Inv, ModifyUndone
  PROVE  Inv'
<1>1. /\ pc = "undo" /\ op.request.kind = "modify" /\ mutations = <<>> /\ pc \in Framed
      /\ next_sequence_number' = op.sequence_backup
      /\ store' = rollback(store, op.checkpoint)
      /\ next_order_id' = next_order_id
      /\ pc' = "idle" /\ op' = NoCall /\ remaining' = 0 /\ mutations' = <<>>
  BY Zenon DEF ModifyUndone, Throw, Framed
<1>2. PICK o \in op.original_order, removal \in op.original_removal :
        /\ levels' = adjust_level(levels, o.side, o.price_ticks, o.remaining_quantity)
        /\ manager' = WithOriginal(manager, o, removal)
  BY Zenon DEF ModifyUndone, WithOriginal
<1>3. PICK path \in Seq(Manager) : Journal(path)
  BY Zenon, <1>1 DEF Inv, Journalled
<1>4. path[1] = manager
  <2>1. Len(mutations) = 0
    BY Zenon, <1>1
  <2> QED BY <1>3, <2>1 DEF Journal
<1>5. Older(manager', op.generator_backup, op.sequence_backup)
  BY Zenon, <1>1, <1>2, <1>3, <1>4 DEF Journal
<1>6. Older(manager', next_order_id', next_sequence_number')
  <2>1. /\ op.generator_backup \in Int /\ next_order_id \in Int /\ op.sequence_backup \in Int
        /\ op.generator_backup <= next_order_id
    BY <1>1, SavedValues
  <2> QED BY <1>1, <1>5, <2>1, OlderStill
<1>7. levels' \in Book
  <2>1. /\ o \in LimitOrder
        /\ can_adjust(levels, o.side, o.price_ticks, o.remaining_quantity)
    BY Zenon, <1>1, <1>2 DEF Inv, Adjusted
  <2>2. o.side \in Side /\ o.price_ticks \in BookPrice /\ o.remaining_quantity \in Int
    BY <2>1 DEF LimitOrder, Price, BookPrice
  <2>3. levels \in Book
    BY Zenon DEF Inv, Typed
  <2> QED BY Zenon, <1>2, <2>1, <2>2, <2>3, AdjustLevel
<1> QED BY Zenon, <1>1, <1>6, <1>7, SavedValues, EndInv

\* A step to the outer catch block of place_limit_order
LEMMA FailedInv ==
  ASSUME Inv, pc \in Framed, op.request.kind = "limit",
         pc' = "failed", op' = op, remaining' = remaining, mutations = <<>>,
         mutations' = mutations, levels' = levels, manager' = manager,
         next_order_id' = next_order_id, next_sequence_number' = next_sequence_number,
         store' \in Store, op.checkpoint.trade_count \in 0 .. Len(store'.trades),
         rollback(store', op.checkpoint) \in Store
  PROVE  Inv'
<1>1. Typed'
  BY Zenon DEF Inv, Typed, Labels
<1>2. Saved'
  BY Zenon DEF Inv, Saved, Framed
<1>3. Older(manager, next_order_id, next_sequence_number)'
  BY Zenon DEF Inv
<1> QED BY Zenon, <1>1, <1>2, <1>3 DEF Inv, Kinds, Called, Entering, Adjusted, Journalled

\* IdsExhausted
LEMMA IdsExhaustedInv ==
  ASSUME Inv, IdsExhausted
  PROVE  Inv'
<1>1. pc \in Framed /\ op.request.kind = "limit" /\ mutations = <<>>
  BY Zenon DEF IdsExhausted, Inv, Kinds, Journalled, Framed
<1> QED BY Zenon, <1>1, SavedValues, FailedInv DEF IdsExhausted, GoTo, locals

\* LimitUndone
LEMMA LimitUndoneInv ==
  ASSUME Inv, LimitUndone
  PROVE  Inv'
<1>1. /\ pc \in Framed /\ op.request.kind = "limit" /\ mutations = <<>>
      /\ store' = rollback(store, op.checkpoint)
      /\ pc' = "failed" /\ op' = op /\ remaining' = remaining /\ mutations' = mutations
      /\ levels' = levels /\ manager' = manager
      /\ next_order_id' = next_order_id /\ next_sequence_number' = next_sequence_number
  BY Zenon DEF LimitUndone, GoTo, locals, Framed
<1>2. store \in Store /\ op.checkpoint.trade_count \in 0 .. Len(store.trades)
  BY Zenon, <1>1, SavedValues
<1>3. /\ Len(rollback(store, op.checkpoint).trades) = op.checkpoint.trade_count
      /\ rollback(rollback(store, op.checkpoint), op.checkpoint)
           = rollback(store, op.checkpoint)
  BY Zenon, <1>2, RollbackAgain
<1>4. op.checkpoint.trade_count \in 0 .. Len(store'.trades)
  BY <1>1, <1>2, <1>3
<1> QED BY Zenon, <1>1, <1>3, <1>4, SavedValues, FailedInv

\* RestOrderThrows
LEMMA RestOrderThrowsInv ==
  ASSUME Inv, RestOrderThrows
  PROVE  Inv' /\ manager' = manager
<1>1. /\ pc = "rest" /\ op.request.kind = "limit" /\ mutations = <<>> /\ pc \in Framed
      /\ store' = store /\ next_order_id' = next_order_id
      /\ next_sequence_number' = next_sequence_number
      /\ op' = op /\ remaining' = remaining /\ mutations' = mutations
  BY Zenon DEF RestOrderThrows, Inv, Kinds, Journalled, locals, Framed
<1>2. CASE UNCHANGED <<levels, manager>> /\ GoTo("failed")
  BY Zenon, <1>1, <1>2, SavedValues, FailedInv DEF GoTo
<1>3. CASE /\ can_adjust(levels, op.incoming.side, op.incoming.price_ticks, remaining)
           /\ levels' = adjust_level(levels, op.incoming.side, op.incoming.price_ticks,
                                     remaining)
           /\ \E id_index_added \in BOOLEAN :
                manager' = add_order_failed(manager, op.incoming, id_index_added)
           /\ GoTo("failed_adjusted")
  <2>1. PICK o : o = op.incoming
    BY Zenon
  <2>2. /\ o \in LimitOrder /\ can_add_order(manager, o) /\ manager \in Manager
        /\ o.side \in Side /\ o.price_ticks \in BookPrice /\ remaining \in Int
    BY Zenon, <1>1, <2>1, RemainderRests, OrderRests
  <2>3. manager' = manager
    BY Zenon, <1>3, <2>1, <2>2, FailedAddUnchanged
  <2>4. levels \in Book /\ levels' \in Book
    BY <1>3, <2>1, <2>2, AdjustLevel DEF Inv, Typed
  <2>5. can_adjust(levels', o.side, o.price_ticks, -remaining)
    BY Zenon, <1>3, <2>1, <2>2, <2>4, AdjustBack
  <2>6. /\ remaining = op.request.quantity /\ o.side = op.request.side
        /\ o.price_ticks = op.request.price
    BY Zenon, <1>1, <2>1 DEF Inv, Entering
  <2>7. pc' = "failed_adjusted"
    BY Zenon, <1>3 DEF GoTo
  <2>8. Typed'
    BY Zenon, <1>1, <2>4, <2>7 DEF Inv, Typed, Labels
  <2>9. Adjusted'
    BY Zenon, <1>1, <2>5, <2>6, <2>7 DEF Adjusted
  <2>10. Saved'
    BY Zenon, <1>1, <2>3, <2>7 DEF Inv, Saved, Framed
  <2>11. Older(manager, next_order_id, next_sequence_number)'
    BY Zenon, <1>1, <2>3 DEF Inv
  <2> QED BY Zenon, <1>1, <2>3, <2>7, <2>8, <2>9, <2>10, <2>11
          DEF Inv, Kinds, Called, Entering, Journalled
<1> QED BY Zenon, <1>2, <1>3 DEF RestOrderThrows

\* The journal of an operation that starts to match is empty.
LEMMA EmptyJournal ==
  ASSUME mutations' = <<>>, manager' \in Manager,
         Older(manager', op'.generator_backup, op'.sequence_backup),
         op'.request.kind # "market" => ~ has_order(manager', op'.incoming.order_id),
         op'.request.kind = "modify" =>
           \A o \in op'.original_order, removal \in op'.original_removal :
             Older(WithOriginal(manager', o, removal), op'.generator_backup,
                   op'.sequence_backup),
         NEW path, path = <<manager'>>
  PROVE  path \in Seq(Manager) /\ Journal(path)'
<1>1. path \in Seq(Manager) /\ Len(path) = 1 /\ path[1] = manager' /\ Len(mutations') = 0
  OBVIOUS
<1>2. \A i \in 1 .. Len(path) : path[i] = manager'
  BY <1>1
<1>3. \A i \in 1 .. Len(mutations') : FALSE
  BY <1>1
<1>4. Len(path) = Len(mutations') + 1
  BY <1>1
<1> QED BY Zenon, <1>1, <1>2, <1>3, <1>4 DEF Journal

\* What a frame holds
LEMMA FrameFields ==
  ASSUME Inv, NEW request, NEW incoming, NEW backup, NEW original, NEW removal,
         NEW f, f = Frame(request, incoming, backup, original, removal)
  PROVE  /\ f.request = request /\ f.incoming = incoming
         /\ f.order_book_backup = backup
         /\ f.original_order = original /\ f.original_removal = removal
         /\ f.generator_backup = next_order_id /\ f.sequence_backup = next_sequence_number
         /\ f.checkpoint.trade_count \in 0 .. Len(store.trades)
         /\ rollback(store, f.checkpoint) = store
<1>1. store \in Store
  BY Zenon DEF Inv, Typed
<1>2. f.checkpoint = checkpoint(store)
  BY Zenon DEF Frame
<1>3. /\ checkpoint(store).trade_count \in 0 .. Len(store.trades)
      /\ rollback(store, checkpoint(store)) = store
  BY Zenon, <1>1, RollbackToCheckpoint
<1> QED BY Zenon, <1>2, <1>3 DEF Frame

\* execute_market_order
LEMMA MarketInv ==
  ASSUME Inv, execute_market_order
  PROVE  Inv'
<1>0. PICK external : external = (manager.orders = <<>>)
  BY Zenon
<1>1. /\ pc = "called" /\ op.request.kind = "market"
      /\ op' = Frame(op.request, Incoming(0, op.request.side, 0, op.request.quantity, 0),
                     IF external THEN {levels} ELSE {}, {}, {})
      /\ remaining' = op.request.quantity
      /\ pc' = IF external THEN "levels" ELSE "match"
      /\ levels' = levels /\ manager' = manager /\ store' = store
      /\ next_order_id' = next_order_id /\ next_sequence_number' = next_sequence_number
      /\ mutations' = mutations
  BY Zenon, <1>0 DEF execute_market_order, GoTo
<1>2. /\ op'.request = op.request
      /\ op'.incoming = Incoming(0, op.request.side, 0, op.request.quantity, 0)
      /\ op'.order_book_backup = IF external THEN {levels} ELSE {}
      /\ op'.generator_backup = next_order_id
      /\ op'.sequence_backup = next_sequence_number
      /\ op'.checkpoint.trade_count \in 0 .. Len(store.trades)
      /\ rollback(store, op'.checkpoint) = store
  BY <1>1, FrameFields
<1>3. /\ op.request \in Request /\ op.request.quantity \in Quantity /\ op.request.side \in Side
  BY Zenon, <1>1 DEF Inv, Called, Request
<1>4. /\ levels \in Book /\ store \in Store /\ mutations = <<>>
      /\ Older(manager, next_order_id, next_sequence_number)
      /\ next_order_id \in 1 .. MaxOrderId + 1
      /\ next_sequence_number \in 1 .. MaxSequence + 1
  BY Zenon, <1>1 DEF Inv, Typed, Journalled
<1>5. /\ op'.incoming.side \in Side /\ op'.incoming.order_id = 0
      /\ op'.incoming.original_quantity = op.request.quantity
  BY <1>2, <1>3 DEF Incoming
<1>6. Typed'
  <2>1. pc' \in Labels /\ op'.request \in Request
    BY Zenon, <1>1, <1>2, <1>3 DEF Labels
  <2>2. remaining' \in LevelQuantity
    BY <1>1, <1>3 DEF Quantity, LevelQuantity
  <2> QED BY Zenon, <1>1, <1>4, <2>1, <2>2 DEF Inv, Typed
<1>7. Saved'
  <2>1. next_order_id \in 1 .. next_order_id /\ next_sequence_number \in 1 .. next_sequence_number
    BY <1>4
  <2> QED BY Zenon, <1>1, <1>2, <1>3, <1>4, <2>1 DEF Saved
<1>8. Entering'
  <2>1. /\ pc' # "rest" /\ op'.request.kind = "market"
        /\ op'.incoming.original_quantity \in Quantity
        /\ remaining' = op'.incoming.original_quantity
    BY Zenon, <1>1, <1>2, <1>3, <1>5
  <2>2. remaining' <= op'.incoming.original_quantity
    BY <2>1 DEF Quantity
  <2> QED BY Zenon, <1>5, <2>1, <2>2 DEF Entering
<1>9. Journalled'
  <2>1. PICK path : path = <<manager'>>
    BY Zenon
  <2>2. path \in Seq(Manager) /\ Journal(path)'
    <3>1. manager' \in Manager
      BY Zenon, <1>1, <1>4 DEF Older
    <3>2. Older(manager', op'.generator_backup, op'.sequence_backup)
      BY Zenon, <1>1, <1>2, <1>4
    <3> QED BY Zenon, <1>1, <1>2, <1>4, <2>1, <3>1, <3>2, EmptyJournal
  <2> QED BY Zenon, <1>1, <1>4, <2>2 DEF Journalled
<1>10. Kinds' /\ Called' /\ Adjusted'
  BY Zenon, <1>1, <1>2 DEF Kinds, Called, Adjusted
<1> QED BY Zenon, <1>1, <1>4, <1>6, <1>7, <1>8, <1>9, <1>10 DEF Inv

\* place_limit_order
LEMMA LimitInv ==
  ASSUME Inv, place_limit_order
  PROVE  Inv'
<1>0. PICK first_local_order, r :
        first_local_order = (manager.orders = <<>>) /\ r = op.request
  BY Zenon
<1>1. /\ pc = "called" /\ r.kind = "limit"
      /\ levels' = IF first_local_order THEN EmptyBook ELSE levels
      /\ op' = Frame(r, Incoming(0, r.side, r.price, r.quantity, 0),
                     IF first_local_order THEN {levels} ELSE {}, {}, {})
      /\ pc' = "number"
      /\ manager' = manager /\ store' = store
      /\ next_order_id' = next_order_id /\ next_sequence_number' = next_sequence_number
      /\ mutations' = mutations /\ remaining' = remaining
  BY Zenon, <1>0 DEF place_limit_order, GoTo
<1>2. /\ op'.request = r
      /\ op'.order_book_backup = IF first_local_order THEN {levels} ELSE {}
      /\ op'.generator_backup = next_order_id
      /\ op'.sequence_backup = next_sequence_number
      /\ op'.checkpoint.trade_count \in 0 .. Len(store.trades)
      /\ rollback(store, op'.checkpoint) = store
  BY <1>1, FrameFields
<1>3. /\ r \in Request
      /\ next_sequence_number <= MaxSequence \/ next_order_id > MaxOrderId
  BY Zenon, <1>0, <1>1 DEF Inv, Called
<1>4. /\ levels \in Book /\ store \in Store /\ mutations = <<>>
      /\ Older(manager, next_order_id, next_sequence_number)
      /\ next_order_id \in 1 .. MaxOrderId + 1
      /\ next_sequence_number \in 1 .. MaxSequence + 1
      /\ remaining \in LevelQuantity
  BY Zenon, <1>0, <1>1 DEF Inv, Typed, Journalled
<1>5. levels' \in Book
  <2>1. EmptyBook \in Book
    BY MarketAssumption DEF EmptyBook, Book, LevelQuantity
  <2> QED BY Zenon, <1>1, <1>4, <2>1
<1>6. Typed'
  BY Zenon, <1>1, <1>2, <1>3, <1>4, <1>5 DEF Inv, Typed, Labels
<1>7. Saved'
  <2>1. next_order_id \in 1 .. next_order_id /\ next_sequence_number \in 1 .. next_sequence_number
    BY <1>4
  <2> QED BY Zenon, <1>1, <1>2, <1>3, <1>4, <2>1 DEF Saved
<1>8. Called'
  BY Zenon, <1>1, <1>2, <1>3 DEF Called
<1>9. Journalled'
  BY Zenon, <1>1, <1>4 DEF Journalled
<1>10. Kinds' /\ Entering' /\ Adjusted'
  BY Zenon, <1>1, <1>2 DEF Kinds, Entering, Adjusted
<1> QED BY Zenon, <1>1, <1>4, <1>6, <1>7, <1>8, <1>9, <1>10 DEF Inv

\* NumberOrder
LEMMA NumberOrderInv ==
  ASSUME Inv, NumberOrder
  PROVE  Inv'
<1>0. PICK r, crosses : r = op.request /\ crosses = crosses_order_book(r.side, r.price)
  BY Zenon
<1>1. /\ pc = "number" /\ next_order_id <= MaxOrderId
      /\ op' = Frame(r, Incoming(next_order_id, r.side, r.price, r.quantity,
                                 next_sequence_number),
                     IF op.order_book_backup = {} /\ crosses THEN {levels}
                     ELSE op.order_book_backup, {}, {})
      /\ remaining' = r.quantity
      /\ pc' = IF crosses THEN "match" ELSE "rest"
      /\ next_order_id' = next_order_id + 1
      /\ next_sequence_number' = next_sequence_number + 1
      /\ levels' = levels /\ manager' = manager /\ store' = store /\ mutations' = mutations
  BY <1>0, OrderManagerAssumption DEF NumberOrder, GoTo, exhausted, Inv, Typed
<1>2. /\ op'.request = r
      /\ op'.incoming = Incoming(next_order_id, r.side, r.price, r.quantity,
                                 next_sequence_number)
      /\ op'.order_book_backup = IF op.order_book_backup = {} /\ crosses THEN {levels}
                                 ELSE op.order_book_backup
      /\ op'.generator_backup = next_order_id
      /\ op'.sequence_backup = next_sequence_number
      /\ op'.checkpoint.trade_count \in 0 .. Len(store.trades)
      /\ rollback(store, op'.checkpoint) = store
  BY <1>1, FrameFields
<1>3. r \in Request /\ r.kind = "limit"
  BY Zenon, <1>0, <1>1 DEF Inv, Called, Kinds
<1>4. r.side \in Side /\ r.price \in Price /\ r.quantity \in Quantity
  BY Zenon, <1>3 DEF Request
<1>5. /\ levels \in Book /\ store \in Store /\ mutations = <<>>
      /\ Older(manager, next_order_id, next_sequence_number)
      /\ next_order_id \in 1 .. MaxOrderId + 1
      /\ next_sequence_number \in 1 .. MaxSequence + 1
      /\ op.order_book_backup \in SUBSET Book
  BY Zenon, <1>1 DEF Inv, Typed, Journalled, Saved, Framed
<1>6. next_sequence_number <= MaxSequence
  <2>1. next_sequence_number <= MaxSequence \/ next_order_id > MaxOrderId
    BY Zenon, <1>0, <1>1, <1>3 DEF Inv, Called
  <2> QED BY <1>1, <1>5, <2>1, OrderManagerAssumption
<1>7. /\ next_order_id \in OrderId /\ next_sequence_number \in SequenceNumber
      /\ next_order_id + 1 \in 1 .. MaxOrderId + 1
      /\ next_sequence_number + 1 \in 1 .. MaxSequence + 1
      /\ next_order_id \in 1 .. next_order_id + 1
      /\ next_sequence_number \in 1 .. next_sequence_number + 1
      /\ next_order_id < next_order_id + 1
      /\ next_sequence_number < next_sequence_number + 1
  BY <1>1, <1>5, <1>6, OrderManagerAssumption DEF OrderId, SequenceNumber
<1>8. /\ op'.incoming \in LimitOrder
      /\ op'.incoming.order_id = next_order_id
      /\ op'.incoming.sequence_number = next_sequence_number
      /\ op'.incoming.original_quantity = r.quantity
      /\ op'.incoming.remaining_quantity = r.quantity
      /\ op'.incoming.side = r.side /\ op'.incoming.price_ticks = r.price
  <2>1. r.quantity \in 0 .. MaxQuantity
    BY <1>4 DEF Quantity
  <2> QED BY <1>2, <1>4, <1>7, <2>1 DEF Incoming, LimitOrder
<1>9. ~ has_order(manager, next_order_id)
  BY <1>5, <1>7 DEF Older
<1>10. Typed'
  <2>1. r.quantity \in LevelQuantity
    BY <1>4 DEF Quantity, LevelQuantity
  <2>2. pc' \in Labels
    BY Zenon, <1>1 DEF Labels
  <2> QED BY Zenon, <1>1, <1>2, <1>3, <1>5, <1>7, <2>1, <2>2 DEF Inv, Typed
<1>11. Older(manager, next_order_id, next_sequence_number)'
  <2>1. /\ next_order_id \in Int /\ next_sequence_number \in Int
        /\ next_order_id + 1 \in Int /\ next_sequence_number + 1 \in Int
        /\ next_order_id <= next_order_id + 1
        /\ next_sequence_number <= next_sequence_number + 1
    BY <1>5
  <2> QED BY Zenon, <1>1, <1>5, <2>1, OlderStill
<1>12. Saved'
  BY Zenon, <1>1, <1>2, <1>3, <1>5, <1>7 DEF Saved
<1>13. Entering'
  <2>1. r.quantity <= r.quantity
    BY <1>4 DEF Quantity
  <2> QED BY Zenon, <1>1, <1>2, <1>4, <1>7, <1>8, <1>9, <2>1 DEF Entering
<1>14. Journalled'
  <2>1. PICK path : path = <<manager'>>
    BY Zenon
  <2>2. path \in Seq(Manager) /\ Journal(path)'
    <3>1. manager' \in Manager
      BY Zenon, <1>1, <1>5 DEF Older
    <3>2. /\ Older(manager', op'.generator_backup, op'.sequence_backup)
          /\ ~ has_order(manager', op'.incoming.order_id)
          /\ op'.request.kind # "modify" /\ mutations' = <<>>
      BY Zenon, <1>1, <1>2, <1>3, <1>5, <1>8, <1>9
    <3> QED BY Zenon, <2>1, <3>1, <3>2, EmptyJournal
  <2> QED BY Zenon, <1>1, <1>5, <2>2 DEF Journalled
<1>15. Kinds' /\ Called' /\ Adjusted'
  BY Zenon, <1>1, <1>2, <1>3 DEF Kinds, Called, Adjusted
<1> QED BY Zenon, <1>10, <1>11, <1>12, <1>13, <1>14, <1>15 DEF Inv

\* A modification can put back the order that it takes out.
LEMMA OriginalComesBack ==
  ASSUME NEW m, NEW id, NEW seq, Older(m, id, seq), NEW k \in OrderId, has_order(m, k)
  PROVE  /\ removal_of(m, k) \in Removal
         /\ WithOriginal(cancel_order(m, k), find_order(m, k), removal_of(m, k)) = m
<1>1. m \in Manager /\ Consistent(m)
  BY Zenon DEF Older
<1>2. /\ removal_of(m, k) \in Removal
      /\ restore_removal(cancel_order(m, k), removal_of(m, k)) = m
  BY Zenon, <1>1, RestoreInvertsCancel
<1>3. with_removed_order(removal_of(m, k), find_order(m, k)) = removal_of(m, k)
  BY Zenon DEF with_removed_order, removal_of, find_order
<1> QED BY Zenon, <1>2, <1>3 DEF WithOriginal

\* ModifyPrice
LEMMA ModifyPriceInv ==
  ASSUME Inv, ModifyPrice
  PROVE  Inv'
<1>0. PICK r, o : r = op.request /\ o = find_order(manager, r.id)
  BY Zenon
<1>1. /\ pc = "called" /\ r.kind = "modify"
      /\ can_adjust(levels, o.side, o.price_ticks, -o.remaining_quantity)
      /\ op' = Frame(r, Incoming(r.id, o.side, r.price, r.quantity, next_sequence_number),
                     {}, {o}, {removal_of(manager, r.id)})
      /\ manager' = cancel_order(manager, r.id)
      /\ levels' = adjust_level(levels, o.side, o.price_ticks, -o.remaining_quantity)
      /\ remaining' = r.quantity
      /\ next_sequence_number' = next_sequence_number + 1
      /\ pc' = "match"
      /\ store' = store /\ next_order_id' = next_order_id /\ mutations' = mutations
  BY Zenon, <1>0 DEF ModifyPrice, GoTo
<1>2. /\ op'.request = r
      /\ op'.incoming = Incoming(r.id, o.side, r.price, r.quantity, next_sequence_number)
      /\ op'.order_book_backup = {}
      /\ op'.original_order = {o} /\ op'.original_removal = {removal_of(manager, r.id)}
      /\ op'.generator_backup = next_order_id
      /\ op'.sequence_backup = next_sequence_number
      /\ op'.checkpoint.trade_count \in 0 .. Len(store.trades)
      /\ rollback(store, op'.checkpoint) = store
  BY <1>1, FrameFields
<1>3. /\ r.id \in OrderId /\ has_order(manager, r.id)
      /\ o \in LimitOrder /\ o.side \in Side /\ o.price_ticks \in BookPrice
      /\ o.remaining_quantity \in Int
      /\ r.quantity \in Quantity /\ r.price \in Price
      /\ Older(manager, next_order_id, next_sequence_number)
  BY Zenon, <1>0, <1>1, CalledOrder
<1>4. /\ levels \in Book /\ store \in Store /\ mutations = <<>>
      /\ next_order_id \in 1 .. MaxOrderId + 1
      /\ next_sequence_number \in 1 .. MaxSequence + 1
      /\ r \in Request /\ next_sequence_number <= MaxSequence
  BY Zenon, <1>0, <1>1 DEF Inv, Typed, Journalled, Called
<1>5. /\ next_sequence_number \in SequenceNumber
      /\ next_sequence_number + 1 \in 1 .. MaxSequence + 1
      /\ next_order_id \in 1 .. next_order_id
      /\ next_sequence_number \in 1 .. next_sequence_number + 1
      /\ next_sequence_number < next_sequence_number + 1
  BY <1>4, OrderManagerAssumption DEF SequenceNumber
<1>6. /\ op'.incoming \in LimitOrder
      /\ op'.incoming.order_id = r.id
      /\ op'.incoming.sequence_number = next_sequence_number
      /\ op'.incoming.original_quantity = r.quantity
      /\ op'.incoming.side = o.side
  <2>1. r.quantity \in 0 .. MaxQuantity
    BY <1>3 DEF Quantity
  <2> QED BY <1>2, <1>3, <1>5, <2>1 DEF Incoming, LimitOrder
<1>7. /\ Older(manager', next_order_id, next_sequence_number)
      /\ ~ has_order(manager', r.id)
  BY Zenon, <1>1, <1>3, OlderAfterCancel
<1>8. /\ removal_of(manager, r.id) \in Removal
      /\ WithOriginal(manager', o, removal_of(manager, r.id)) = manager
  BY Zenon, <1>0, <1>1, <1>3, OriginalComesBack
<1>9. levels' \in Book /\ can_adjust(levels', o.side, o.price_ticks, o.remaining_quantity)
  <2>1. -o.remaining_quantity \in Int /\ -(-o.remaining_quantity) = o.remaining_quantity
    BY <1>3
  <2> QED BY <1>1, <1>3, <1>4, <2>1, AdjustLevel, AdjustBack
<1>10. Typed'
  <2>1. r.quantity \in LevelQuantity
    BY <1>3 DEF Quantity, LevelQuantity
  <2>2. pc' \in Labels
    BY Zenon, <1>1 DEF Labels
  <2> QED BY Zenon, <1>1, <1>2, <1>4, <1>5, <1>9, <2>1, <2>2 DEF Inv, Typed
<1>11. Older(manager, next_order_id, next_sequence_number)'
  BY <1>4, <1>1, <1>7, OlderStill
<1>12. Saved'
  BY Zenon, <1>1, <1>2, <1>4, <1>5, <1>7 DEF Saved
<1>13. Entering'
  <2>1. r.quantity <= r.quantity /\ r.id < next_order_id
    BY <1>3 DEF Quantity, Older
  <2> QED BY Zenon, <1>1, <1>2, <1>3, <1>5, <1>6, <1>7, <2>1 DEF Entering
<1>14. Journalled'
  <2>1. PICK path : path = <<manager'>>
    BY Zenon
  <2>2. path \in Seq(Manager) /\ Journal(path)'
    <3>1. manager' \in Manager
      BY Zenon, <1>7 DEF Older
    <3>2. /\ Older(manager', op'.generator_backup, op'.sequence_backup)
          /\ ~ has_order(manager', op'.incoming.order_id) /\ mutations' = <<>>
      BY Zenon, <1>1, <1>2, <1>4, <1>6, <1>7
    <3>3. \A x \in op'.original_order, removal \in op'.original_removal :
            Older(WithOriginal(manager', x, removal), op'.generator_backup,
                  op'.sequence_backup)
      BY Zenon, <1>2, <1>3, <1>8
    <3> QED BY Zenon, <2>1, <3>1, <3>2, <3>3, EmptyJournal
  <2> QED BY Zenon, <1>1, <1>4, <2>2 DEF Journalled
<1>15. Adjusted'
  BY Zenon, <1>1, <1>2, <1>3, <1>6, <1>8, <1>9 DEF Adjusted
<1>16. Kinds' /\ Called'
  BY Zenon, <1>1, <1>2 DEF Kinds, Called
<1> QED BY Zenon, <1>10, <1>11, <1>12, <1>13, <1>14, <1>15, <1>16 DEF Inv
=============================================================================
