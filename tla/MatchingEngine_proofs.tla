------------------------ MODULE MatchingEngine_proofs ------------------------
(***************************************************************************)
(* The matching engine keeps its state together, for any sizes and any     *)
(* number of orders.                                                       *)
(*                                                                         *)
(* MatchingEngineCalls_proofs has the invariant Inv and its proof for the  *)
(* steps outside the loops.  Here follow one turn of the matching loop and *)
(* of the rollback loop, the induction, and what Inv implies.              *)
(***************************************************************************)
EXTENDS MatchingEngineCalls_proofs

-----------------------------------------------------------------------------
(***************************************************************************)
(* One turn of the matching loop and of the rollback loop.                 *)
(***************************************************************************)
\* The order that find_best_match returns, and the quantity that is executed
LEMMA MatchFacts ==
  ASSUME Inv, pc = "match", remaining > 0, has_match,
         NEW o, o = best_order(manager, Opposite(op.incoming.side)),
         NEW executed, executed = Lesser(remaining, o.remaining_quantity)
  PROVE  /\ o \in LimitOrder /\ o.order_id \in OrderId
         /\ has_order(manager, o.order_id) /\ find_order(manager, o.order_id) = o
         /\ o.side = Opposite(op.incoming.side)
         /\ o.side \in Side /\ op.incoming.side \in Side /\ o.side # op.incoming.side
         /\ o.price_ticks \in Price /\ o.price_ticks \in BookPrice
         /\ executed \in Quantity /\ executed \in Int
         /\ executed <= remaining /\ executed <= o.remaining_quantity
         /\ remaining - executed \in LevelQuantity
<1>1. /\ manager \in Manager /\ Consistent(manager)
      /\ \A i \in OrderId : has_order(manager, i) =>
           find_order(manager, i).remaining_quantity > 0
  BY Zenon DEF Inv, Older
<1>2. op.incoming.side \in Side
  BY Zenon DEF Inv, Entering
<1>3. /\ Opposite(op.incoming.side) \in Side
      /\ Opposite(op.incoming.side) # op.incoming.side
  BY Zenon, <1>2 DEF Opposite, Side
<1>4. has_best_order(manager, Opposite(op.incoming.side))
  BY Zenon DEF has_match
<1>5. /\ o \in LimitOrder /\ o.order_id \in OrderId
      /\ has_order(manager, o.order_id) /\ find_order(manager, o.order_id) = o
      /\ o.side = Opposite(op.incoming.side)
  BY Zenon, <1>1, <1>3, <1>4, BestOrder
<1>6. o.price_ticks \in Price /\ o.price_ticks \in BookPrice
  BY <1>5 DEF LimitOrder, Price, BookPrice
<1>7. remaining \in Quantity /\ o.remaining_quantity \in Quantity
  BY <1>1, <1>5 DEF Inv, Typed, LimitOrder, Quantity, LevelQuantity
<1>8. /\ executed \in Quantity /\ executed <= remaining
      /\ executed <= o.remaining_quantity /\ remaining - executed \in LevelQuantity
  BY Zenon, <1>7, LesserQuantity
<1>9. executed \in Int
  BY <1>8 DEF Quantity
<1> QED BY Zenon, <1>2, <1>3, <1>5, <1>6, <1>8, <1>9

\* The trade of a match
LEMMA MatchTrade ==
  ASSUME Inv, pc = "match", NEW o \in LimitOrder, NEW executed \in Quantity
  PROVE  /\ trade_with(o, executed) \in Store
         /\ op.checkpoint.trade_count \in 0 .. Len(trade_with(o, executed).trades)
         /\ rollback(trade_with(o, executed), op.checkpoint) = rollback(store, op.checkpoint)
<1>1. PICK buy, sell, recorded :
        /\ buy = IF op.incoming.side = "Buy" THEN op.incoming.order_id ELSE o.order_id
        /\ sell = IF op.incoming.side = "Sell" THEN op.incoming.order_id ELSE o.order_id
        /\ recorded = record_trade(store, op.incoming.side, o.price_ticks, executed, buy, sell)
  BY Zenon
<1>2. trade_with(o, executed) = recorded
  BY Zenon, <1>1 DEF trade_with
<1>3. op.incoming.side \in Side /\ op.incoming.order_id \in OrderId \cup {0}
  BY Zenon DEF Inv, Entering
<1>4. o.price_ticks \in Price /\ o.order_id \in OrderId
  BY Zenon DEF LimitOrder
<1>5. buy \in OrderId \cup {0} /\ sell \in OrderId \cup {0}
  BY Zenon, <1>1, <1>3, <1>4
<1>6. pc \in Framed
  BY Zenon DEF Framed
<1>7. PICK side, price : side = op.incoming.side /\ price = o.price_ticks
  BY Zenon
<1>8. /\ side \in Side /\ price \in Price
      /\ recorded = record_trade(store, side, price, executed, buy, sell)
  BY Zenon, <1>1, <1>3, <1>4, <1>7
<1>9. /\ recorded \in Store
      /\ op.checkpoint.trade_count \in 0 .. Len(recorded.trades)
      /\ rollback(recorded, op.checkpoint) = rollback(store, op.checkpoint)
  BY <1>5, <1>6, <1>8, TradeRecorded, Zenon
<1> QED BY Zenon, <1>2, <1>9

\* The journal and its path, one entry longer
JournalExtended(path, entry, longer) ==
  /\ longer \in Seq(Manager) /\ Journal(longer)'
  /\ Len(path) = Len(mutations) + 1 /\ Len(mutations') = Len(mutations) + 1
  /\ Len(mutations) \in Nat
  /\ Len(longer) = Len(path) + 1 /\ longer[Len(longer)] = manager'
  /\ \A i \in 1 .. Len(path) : longer[i] = path[i]
  /\ mutations' \in Seq(OrderMutation)
  /\ mutations'[Len(path)] = entry
  /\ \A i \in 1 .. Len(mutations) : mutations'[i] = mutations[i]

\* A journal entry that leads from the new manager to the old one
LEMMA JournalGrows ==
  ASSUME NEW path \in Seq(Manager), Journal(path), mutations \in Seq(OrderMutation),
         NEW entry \in OrderMutation, entry.side = Opposite(op.incoming.side),
         mutations' = Append(mutations, entry), op' = op, manager' \in Manager,
         Undoes(entry, manager', manager),
         Older(manager', op.generator_backup, op.sequence_backup),
         op.request.kind # "market" => ~ has_order(manager', op.incoming.order_id),
         NEW longer, longer = Append(path, manager')
  PROVE  JournalExtended(path, entry, longer)
<1>1. /\ longer \in Seq(Manager) /\ Len(path) \in Nat
      /\ Len(longer) = Len(path) + 1 /\ longer[Len(longer)] = manager'
      /\ \A i \in 1 .. Len(path) : longer[i] = path[i]
  OBVIOUS
<1>2. /\ Len(mutations) \in Nat /\ Len(mutations') = Len(mutations) + 1
      /\ mutations'[Len(mutations) + 1] = entry
      /\ \A i \in 1 .. Len(mutations) : mutations'[i] = mutations[i]
  OBVIOUS
<1>3. Len(path) = Len(mutations) + 1 /\ path[Len(path)] = manager
  BY Zenon DEF Journal
<1>4. PICK n \in Nat : n = Len(mutations)
  BY Zenon, <1>2
<1>5. /\ Len(path) = n + 1 /\ Len(longer) = n + 2 /\ Len(mutations') = n + 1
      /\ longer[n + 2] = manager' /\ longer[n + 1] = manager
      /\ mutations'[n + 1] = entry
      /\ \A i \in 1 .. n : mutations'[i] = mutations[i]
      /\ \A i \in 1 .. n + 1 : longer[i] = path[i]
  BY <1>1, <1>2, <1>3, <1>4
<1>6. \A i \in 1 .. n + 2 :
        /\ Older(longer[i], op.generator_backup, op.sequence_backup)
        /\ op.request.kind # "market" => ~ has_order(longer[i], op.incoming.order_id)
  <2> SUFFICES ASSUME NEW i \in 1 .. n + 2
               PROVE  /\ Older(longer[i], op.generator_backup, op.sequence_backup)
                      /\ op.request.kind # "market"
                           => ~ has_order(longer[i], op.incoming.order_id)
    BY Zenon
  <2>1. CASE i = n + 2
    BY Zenon, <1>5, <2>1
  <2>2. CASE i # n + 2
    <3>1. i \in 1 .. n + 1
      BY <2>2
    <3>2. longer[i] = path[i] /\ i \in 1 .. Len(path)
      BY Zenon, <1>5, <3>1
    <3> QED BY Zenon, <3>2 DEF Journal
  <2> QED BY Zenon, <2>1, <2>2
<1>7. \A i \in 1 .. n + 1 :
        /\ mutations'[i].side = Opposite(op.incoming.side)
        /\ Undoes(mutations'[i], longer[i + 1], longer[i])
  <2> SUFFICES ASSUME NEW i \in 1 .. n + 1
               PROVE  /\ mutations'[i].side = Opposite(op.incoming.side)
                      /\ Undoes(mutations'[i], longer[i + 1], longer[i])
    BY Zenon
  <2>1. CASE i = n + 1
    <3>1. i + 1 = n + 2
      BY <2>1
    <3> QED BY Zenon, <1>5, <2>1, <3>1
  <2>2. CASE i # n + 1
    <3>1. i \in 1 .. n /\ i + 1 \in 1 .. n + 1 /\ i \in 1 .. n + 1
      BY <2>2
    <3>2. /\ mutations'[i] = mutations[i] /\ longer[i] = path[i]
          /\ longer[i + 1] = path[i + 1] /\ i \in 1 .. Len(mutations)
      BY Zenon, <1>4, <1>5, <3>1
    <3> QED BY Zenon, <3>2 DEF Journal
  <2> QED BY Zenon, <2>1, <2>2
<1>8. longer[1] = path[1]
  BY <1>5
<1>9. Journal(longer)'
  <2>1. Len(longer) = Len(mutations') + 1 /\ longer[Len(longer)] = manager'
    BY <1>4, <1>5
  <2>2. op.request.kind = "modify" =>
          \A o \in op.original_order, removal \in op.original_removal :
            Older(WithOriginal(longer[1], o, removal), op.generator_backup,
                  op.sequence_backup)
    BY Zenon, <1>8 DEF Journal
  <2>3. \A i \in 1 .. Len(longer) :
          /\ Older(longer[i], op.generator_backup, op.sequence_backup)
          /\ op.request.kind # "market" => ~ has_order(longer[i], op.incoming.order_id)
    BY Zenon, <1>5, <1>6
  <2>4. \A i \in 1 .. Len(mutations') :
          /\ mutations'[i].side = Opposite(op.incoming.side)
          /\ Undoes(mutations'[i], longer[i + 1], longer[i])
    BY Zenon, <1>5, <1>7
  <2>5. longer \in Seq(Manager) /\ op' = op
    BY Zenon, <1>1
  <2> QED BY <2>1, <2>2, <2>3, <2>4, <2>5, Zenon DEF Journal
<1>10. mutations' \in Seq(OrderMutation)
  OBVIOUS
<1> QED BY Zenon, <1>1, <1>2, <1>3, <1>9, <1>10 DEF JournalExtended

\* Undoing the last entry
LEMMA JournalShrinks ==
  ASSUME NEW path \in Seq(Manager), Journal(path), mutations \in Seq(OrderMutation),
         mutations # <<>>, mutations' = next_to_undo(mutations), op' = op,
         manager' = path[Len(mutations)],
         NEW shorter, shorter = SubSeq(path, 1, Len(mutations))
  PROVE  /\ shorter \in Seq(Manager) /\ Journal(shorter)'
         /\ Len(shorter) = Len(mutations) /\ Len(mutations') = Len(mutations) - 1
         /\ mutations' \in Seq(OrderMutation)
         /\ \A i \in 1 .. Len(shorter) : shorter[i] = path[i]
         /\ \A i \in 1 .. Len(mutations') : mutations'[i] = mutations[i]
<1>1. PICK n \in Nat : n = Len(mutations) /\ n > 0
  OBVIOUS
<1>2. Len(path) = n + 1
  BY Zenon, <1>1 DEF Journal
<1>3. /\ shorter \in Seq(Manager) /\ Len(shorter) = n
      /\ \A i \in 1 .. n : shorter[i] = path[i]
  BY <1>1, <1>2
<1>4. /\ mutations' \in Seq(OrderMutation) /\ Len(mutations') = n - 1
      /\ \A i \in 1 .. n - 1 : mutations'[i] = mutations[i]
  BY <1>1 DEF next_to_undo
<1>5. /\ Len(shorter) = Len(mutations') + 1 /\ shorter[Len(shorter)] = manager'
      /\ shorter[1] = path[1]
  BY <1>1, <1>3, <1>4
<1>6. \A i \in 1 .. Len(shorter) :
        /\ Older(shorter[i], op.generator_backup, op.sequence_backup)
        /\ op.request.kind # "market" => ~ has_order(shorter[i], op.incoming.order_id)
  <2> TAKE i \in 1 .. Len(shorter)
  <2>1. shorter[i] = path[i] /\ i \in 1 .. Len(path)
    BY <1>2, <1>3
  <2> QED BY Zenon, <2>1 DEF Journal
<1>7. \A i \in 1 .. Len(mutations') :
        /\ mutations'[i].side = Opposite(op.incoming.side)
        /\ Undoes(mutations'[i], shorter[i + 1], shorter[i])
  <2> TAKE i \in 1 .. Len(mutations')
  <2>1. i \in 1 .. n - 1
    BY Zenon, <1>4
  <2>2. i \in 1 .. n /\ i + 1 \in 1 .. n
    BY <2>1
  <2>3. /\ mutations'[i] = mutations[i] /\ shorter[i] = path[i]
        /\ shorter[i + 1] = path[i + 1] /\ i \in 1 .. Len(mutations)
    BY Zenon, <1>1, <1>3, <1>4, <2>1, <2>2
  <2> QED BY Zenon, <2>3 DEF Journal
<1>8. op.request.kind = "modify" =>
        \A o \in op.original_order, removal \in op.original_removal :
          Older(WithOriginal(shorter[1], o, removal), op.generator_backup,
                op.sequence_backup)
  BY Zenon, <1>5 DEF Journal
<1>9. Journal(shorter)'
  <2>1. shorter \in Seq(Manager) /\ op' = op
    BY Zenon, <1>3
  <2> QED BY <1>5, <1>6, <1>7, <1>8, <2>1, Zenon DEF Journal
<1> QED BY Zenon, <1>1, <1>3, <1>4, <1>9

\* A step of the matching loop or of the rollback loop
LEMMA LoopInv ==
  ASSUME Inv, pc \in {"match", "undo"}, pc' \in {"match", "undo"}, op' = op,
         next_order_id' = next_order_id, next_sequence_number' = next_sequence_number,
         levels' \in Book,
         \A p \in BookPrice : levels'[op.incoming.side][p] = levels[op.incoming.side][p],
         store' \in Store, op.checkpoint.trade_count \in 0 .. Len(store'.trades),
         rollback(store', op.checkpoint) = rollback(store, op.checkpoint),
         remaining' \in LevelQuantity, remaining' <= remaining,
         mutations' \in Seq(OrderMutation),
         NEW path \in Seq(Manager), Journal(path)'
  PROVE  Inv'
<1>1. pc \in Framed /\ pc' \in Framed
  BY Zenon DEF Framed
<1>2. /\ Older(manager', op.generator_backup, op.sequence_backup)
      /\ op.request.kind # "market" => ~ has_order(manager', op.incoming.order_id)
  <2>1. /\ path[Len(path)] = manager' /\ Len(path) = Len(mutations') + 1
        /\ \A i \in 1 .. Len(path) :
             /\ Older(path[i], op.generator_backup, op.sequence_backup)
             /\ op.request.kind # "market" => ~ has_order(path[i], op.incoming.order_id)
    BY Zenon DEF Journal
  <2>2. Len(path) \in 1 .. Len(path)
    BY <2>1
  <2> QED BY Zenon, <2>1, <2>2
<1>3. Older(manager, next_order_id, next_sequence_number)'
  <2>1. /\ op.generator_backup \in Int /\ op.sequence_backup \in Int
        /\ next_order_id \in Int /\ next_sequence_number \in Int
        /\ op.generator_backup <= next_order_id
        /\ op.sequence_backup <= next_sequence_number
    BY <1>1, SavedValues
  <2> QED BY Zenon, <1>2, <2>1, OlderStill
<1>4. Typed'
  BY Zenon DEF Inv, Typed, Labels
<1>5. Saved'
  BY Zenon, <1>1, <1>2 DEF Inv, Saved
<1>6. Entering'
  <2>1. remaining' <= op.incoming.original_quantity
    <3>1. remaining <= op.incoming.original_quantity
      BY Zenon DEF Inv, Entering
    <3>2. op.incoming.original_quantity \in Int /\ remaining \in Int /\ remaining' \in Int
      <4>1. op.incoming.original_quantity \in Int
        BY DEF Inv, Entering, Quantity
      <4> QED BY <4>1 DEF Inv, Typed, LevelQuantity
    <3> QED BY <3>1, <3>2
  <2> QED BY Zenon, <1>2, <2>1 DEF Inv, Entering
<1>7. Adjusted'
  <2>1. op.request.kind = "modify" =>
          \E o \in LimitOrder, removal \in Removal :
            /\ op.original_order = {o} /\ op.original_removal = {removal}
            /\ o.side = op.incoming.side
            /\ can_adjust(levels, o.side, o.price_ticks, o.remaining_quantity)
    BY Zenon DEF Inv, Adjusted
  <2>2. \A o \in LimitOrder : o.price_ticks \in BookPrice
    BY DEF LimitOrder, Price, BookPrice
  <2>3. op.request.kind = "modify" =>
          \E o \in LimitOrder, removal \in Removal :
            /\ op.original_order = {o} /\ op.original_removal = {removal}
            /\ o.side = op.incoming.side
            /\ can_adjust(levels', o.side, o.price_ticks, o.remaining_quantity)
    BY <2>1, <2>2 DEF can_adjust
  <2> QED BY Zenon, <2>3 DEF Adjusted
<1>8. Journalled'
  BY Zenon DEF Journalled
<1>9. Kinds' /\ Called'
  BY Zenon DEF Inv, Kinds, Called
<1> QED BY Zenon, <1>3, <1>4, <1>5, <1>6, <1>7, <1>8, <1>9 DEF Inv

\* What MatchBest does to the manager and to the journal
LEMMA MatchBestJournal ==
  ASSUME Inv, MatchBest,
         NEW o, o = best_order(manager, Opposite(op.incoming.side)),
         NEW executed, executed = Lesser(remaining, o.remaining_quantity),
         NEW path \in Seq(Manager), Journal(path),
         NEW longer, longer = Append(path, manager')
  PROVE  /\ JournalExtended(path, FillRecord(manager, o, executed), longer)
         /\ Resting(manager') = adjust_level(Resting(manager), o.side, o.price_ticks, -executed)
<1>1. /\ pc = "match" /\ remaining > 0 /\ has_match
      /\ manager' = Fill(manager, o, executed)
      /\ mutations' = Append(mutations, FillRecord(manager, o, executed))
      /\ op' = op
  BY Zenon DEF MatchBest, Fill, FillRecord, Mutation
<1>2. /\ o \in LimitOrder /\ o.order_id \in OrderId
      /\ has_order(manager, o.order_id) /\ find_order(manager, o.order_id) = o
      /\ o.side = Opposite(op.incoming.side)
      /\ executed \in Quantity /\ executed <= o.remaining_quantity
  BY <1>1, MatchFacts, Zenon
<1>3. /\ Older(manager', op.generator_backup, op.sequence_backup)
      /\ \A j \in OrderId : has_order(manager', j) => has_order(manager, j)
      /\ FillRecord(manager, o, executed) \in OrderMutation
      /\ Undoes(FillRecord(manager, o, executed), manager', manager)
      /\ Resting(manager') = adjust_level(Resting(manager), o.side, o.price_ticks, -executed)
  <2>1. Older(manager, op.generator_backup, op.sequence_backup)
    BY Zenon, <1>1, SavedValues DEF Framed
  <2> QED BY <1>1, <1>2, <2>1, FillEffect
<1>4. mutations \in Seq(OrderMutation)
  BY Zenon DEF Inv, Typed
<1>5. op.request.kind # "market" => ~ has_order(manager', op.incoming.order_id)
  BY Zenon, <1>1, <1>3 DEF Inv, Entering, LimitOrder
<1>6. manager' \in Manager
  BY Zenon, <1>3 DEF Older
<1>7. FillRecord(manager, o, executed).side = Opposite(op.incoming.side)
  BY Zenon, <1>2 DEF FillRecord
<1>8. PICK entry : entry = FillRecord(manager, o, executed)
  BY Zenon
<1>9. JournalExtended(path, entry, longer)
  <2>1. /\ entry \in OrderMutation /\ entry.side = Opposite(op.incoming.side)
        /\ mutations' = Append(mutations, entry) /\ op' = op
        /\ Undoes(entry, manager', manager)
    BY Zenon, <1>1, <1>3, <1>7, <1>8
  <2>2. mutations \in Seq(OrderMutation) /\ Older(manager', op.generator_backup, op.sequence_backup)
    BY Zenon, <1>3, <1>4
  <2> QED BY Zenon, <1>5, <1>6, <2>1, <2>2, JournalGrows
<1> QED BY Zenon, <1>3, <1>8, <1>9

\* MatchBest
LEMMA MatchBestInv ==
  ASSUME Inv, MatchBest
  PROVE  Inv' /\ rollback(store', op.checkpoint) = rollback(store, op.checkpoint)
<1>0. PICK o, executed : /\ o = best_order(manager, Opposite(op.incoming.side))
                         /\ executed = Lesser(remaining, o.remaining_quantity)
  BY Zenon
<1>1. /\ pc = "match" /\ remaining > 0 /\ has_match
      /\ can_adjust(levels, o.side, o.price_ticks, -executed)
      /\ store' = trade_with(o, executed)
      /\ levels' = adjust_level(levels, o.side, o.price_ticks, -executed)
      /\ remaining' = remaining - executed
      /\ pc' = "match" /\ op' = op
      /\ next_order_id' = next_order_id /\ next_sequence_number' = next_sequence_number
  BY Zenon, <1>0 DEF MatchBest, GoTo
<1>2. /\ o \in LimitOrder
      /\ o.side \in Side /\ op.incoming.side \in Side /\ o.side # op.incoming.side
      /\ o.price_ticks \in BookPrice
      /\ executed \in Quantity /\ executed \in Int
      /\ executed <= remaining /\ remaining - executed \in LevelQuantity
  BY <1>0, <1>1, MatchFacts, Zenon
<1>3. /\ store' \in Store /\ op.checkpoint.trade_count \in 0 .. Len(store'.trades)
      /\ rollback(store', op.checkpoint) = rollback(store, op.checkpoint)
  BY Zenon, <1>1, <1>2, MatchTrade
<1>4. /\ levels' \in Book
      /\ \A p \in BookPrice : levels'[op.incoming.side][p] = levels[op.incoming.side][p]
  <2>1. levels \in Book /\ -executed \in Int
    BY <1>2 DEF Inv, Typed
  <2> QED BY <1>1, <1>2, <2>1, AdjustLevel
<1>5. PICK path \in Seq(Manager) : Journal(path)
  BY Zenon, <1>1 DEF Inv, Journalled
<1>6. PICK longer : longer = Append(path, manager')
  BY Zenon
<1>7. mutations' \in Seq(OrderMutation) /\ longer \in Seq(Manager) /\ Journal(longer)'
  BY <1>0, <1>5, <1>6, MatchBestJournal, Zenon DEF JournalExtended
<1>8. remaining' <= remaining
  BY <1>1, <1>2 DEF Inv, Typed, LevelQuantity, Quantity
<1>9. remaining' \in LevelQuantity
  BY Zenon, <1>1, <1>2
<1>10. pc \in {"match", "undo"} /\ pc' \in {"match", "undo"}
  BY Zenon, <1>1
<1> QED BY Zenon, <1>1, <1>3, <1>4, <1>7, <1>8, <1>9, <1>10, LoopInv

\* What MatchThrows leaves in the journal
LEMMA MatchThrowsJournal ==
  ASSUME Inv, NEW journalled \in BOOLEAN, NEW recorded \in BOOLEAN,
         MatchThrows(journalled, recorded), NEW path \in Seq(Manager), Journal(path)
  PROVE  /\ journalled => \E entry, longer : JournalExtended(path, entry, longer)
         /\ ~ journalled => mutations' = mutations /\ Journal(path)'
<1>0. PICK o, executed : /\ o = best_order(manager, Opposite(op.incoming.side))
                         /\ executed = Lesser(remaining, o.remaining_quantity)
  BY Zenon
<1>1. /\ pc = "match" /\ remaining > 0 /\ has_match
      /\ mutations' = IF journalled THEN Append(mutations, Mutation(o, executed, {}))
                                    ELSE mutations
      /\ op' = op /\ manager' = manager
  BY Zenon, <1>0 DEF MatchThrows
<1>2. /\ o \in LimitOrder /\ o.order_id \in OrderId
      /\ has_order(manager, o.order_id) /\ find_order(manager, o.order_id) = o
      /\ o.side = Opposite(op.incoming.side)
      /\ executed \in Quantity
  BY <1>0, <1>1, MatchFacts, Zenon
<1>3. CASE journalled
  <2>1. PICK longer, entry : longer = Append(path, manager') /\ entry = Mutation(o, executed, {})
    BY Zenon
  <2>2. /\ Older(manager, op.generator_backup, op.sequence_backup)
        /\ op.request.kind # "market" => ~ has_order(manager, op.incoming.order_id)
        /\ manager \in Manager /\ mutations \in Seq(OrderMutation)
    BY Zenon, <1>1, SavedValues DEF Framed, Inv, Typed, Entering, Older
  <2>3. /\ entry.order_id = o.order_id /\ entry.side = Opposite(op.incoming.side)
        /\ entry.original_remaining_quantity = o.remaining_quantity
        /\ entry.removal = {}
    BY Zenon, <1>2, <2>1 DEF Mutation
  <2>4. Undoes(entry, manager, manager)
    BY Zenon, <1>2, <2>2, <2>3, EntryWithoutFill
  <2>5. entry \in OrderMutation
    <3>1. o.remaining_quantity > 0
      BY Zenon, <1>2, <2>2 DEF Older
    <3>2. o.side \in Side /\ o.price_ticks \in Price /\ o.remaining_quantity \in Quantity
      BY <1>2, <3>1 DEF LimitOrder, Quantity
    <3> QED BY Zenon, <1>2, <2>1, <3>2 DEF Mutation, OrderMutation
  <2>6. mutations' = Append(mutations, entry)
    BY Zenon, <1>1, <1>3, <2>1
  <2>7. JournalExtended(path, entry, longer)
    BY Zenon, <1>1, <2>1, <2>2, <2>3, <2>4, <2>5, <2>6, JournalGrows
  <2> QED BY Zenon, <1>3, <2>7
<1>4. CASE ~ journalled
  <2>1. mutations' = mutations
    BY Zenon, <1>1, <1>4
  <2>2. Journal(path)'
    BY Zenon, <1>1, <2>1 DEF Journal
  <2> QED BY Zenon, <1>4, <2>1, <2>2
<1> QED BY Zenon, <1>3, <1>4

\* MatchThrows
LEMMA MatchThrowsInv ==
  ASSUME Inv, NEW journalled \in BOOLEAN, NEW recorded \in BOOLEAN,
         MatchThrows(journalled, recorded)
  PROVE  Inv'
<1>0. PICK o, executed : /\ o = best_order(manager, Opposite(op.incoming.side))
                         /\ executed = Lesser(remaining, o.remaining_quantity)
  BY Zenon
<1>1. /\ pc = "match" /\ remaining > 0 /\ has_match
      /\ store' = IF recorded THEN trade_with(o, executed) ELSE store
      /\ pc' = "undo" /\ op' = op /\ remaining' = remaining /\ levels' = levels
      /\ next_order_id' = next_order_id /\ next_sequence_number' = next_sequence_number
  BY Zenon, <1>0 DEF MatchThrows, GoTo
<1>2. o \in LimitOrder /\ executed \in Quantity
  BY <1>0, <1>1, MatchFacts, Zenon
<1>3. /\ store' \in Store /\ op.checkpoint.trade_count \in 0 .. Len(store'.trades)
      /\ rollback(store', op.checkpoint) = rollback(store, op.checkpoint)
  <2>1. pc \in Framed
    BY Zenon, <1>1 DEF Framed
  <2>2. CASE recorded
    BY Zenon, <1>1, <1>2, <2>2, MatchTrade
  <2>3. CASE ~ recorded
    BY Zenon, <1>1, <2>1, <2>3, SavedValues
  <2> QED BY Zenon, <2>2, <2>3
<1>4. levels' \in Book /\ remaining' \in LevelQuantity /\ remaining' <= remaining
        /\ mutations \in Seq(OrderMutation)
  BY <1>1 DEF Inv, Typed, LevelQuantity
<1>5. PICK path \in Seq(Manager) : Journal(path)
  BY Zenon, <1>1 DEF Inv, Journalled
<1>6. pc \in {"match", "undo"} /\ pc' \in {"match", "undo"}
        /\ \A p \in BookPrice : levels'[op.incoming.side][p] = levels[op.incoming.side][p]
  BY Zenon, <1>1
<1>7. PICK other \in Seq(Manager) : Journal(other)' /\ mutations' \in Seq(OrderMutation)
  BY Zenon, <1>4, <1>5, MatchThrowsJournal DEF JournalExtended
<1> QED BY Zenon, <1>1, <1>3, <1>4, <1>6, <1>7, LoopInv

\* RestRemainderThrows: the order is taken out again.
LEMMA RestRemainderThrowsInv ==
  ASSUME Inv, RestRemainderThrows
  PROVE  Inv' /\ manager' = manager
<1>1. /\ pc = "match" /\ op.request.kind # "market" /\ remaining > 0
      /\ pc' = "undo" /\ op' = op /\ remaining' = remaining /\ mutations' = mutations
      /\ levels' = levels /\ store' = store
      /\ next_order_id' = next_order_id /\ next_sequence_number' = next_sequence_number
  BY Zenon DEF RestRemainderThrows, GoTo, locals
<1>2. PICK o : o = resting_remainder
  BY Zenon
<1>3. /\ o \in LimitOrder /\ can_add_order(manager, o)
      /\ manager \in Manager /\ Consistent(manager)
  BY Zenon, <1>1, <1>2, RemainderRests DEF resting_remainder
<1>4. manager' = manager
  <2>1. \/ \E id_index_added \in BOOLEAN : manager' = add_order_failed(manager, o, id_index_added)
        \/ manager' = cancel_order(add_order(manager, o), o.order_id)
    BY Zenon, <1>2 DEF RestRemainderThrows
  <2> QED BY <1>3, <2>1, FailedAddUnchanged, CancelInvertsAdd
<1>5. PICK path \in Seq(Manager) : Journal(path)
  BY Zenon, <1>1 DEF Inv, Journalled
<1>6. Journal(path)'
  BY Zenon, <1>1, <1>4, <1>5 DEF Journal
<1>7. levels' \in Book /\ remaining' \in LevelQuantity /\ remaining' <= remaining
        /\ mutations' \in Seq(OrderMutation)
  BY <1>1 DEF Inv, Typed, LevelQuantity
<1>8. /\ store' \in Store /\ op.checkpoint.trade_count \in 0 .. Len(store'.trades)
      /\ rollback(store', op.checkpoint) = rollback(store, op.checkpoint)
  BY Zenon, <1>1, SavedValues DEF Framed
<1>9. pc \in {"match", "undo"} /\ pc' \in {"match", "undo"}
        /\ \A p \in BookPrice : levels'[op.incoming.side][p] = levels[op.incoming.side][p]
  BY Zenon, <1>1
<1>10. Inv'
  BY Zenon, <1>1, <1>5, <1>6, <1>7, <1>8, <1>9, LoopInv
<1> QED BY Zenon, <1>4, <1>10

\* What the last journal entry leads back to
LEMMA UndoneManager ==
  ASSUME Inv, UndoMutation, NEW path \in Seq(Manager), Journal(path)
  PROVE  /\ manager' = path[Len(mutations)]
         /\ Len(mutations) \in 1 .. Len(path) /\ Len(mutations) \in 1 .. Len(mutations)
         /\ Len(path) = Len(mutations) + 1
         /\ Older(manager', op.generator_backup, op.sequence_backup)
<1>1. mutations # <<>> /\ mutations \in Seq(OrderMutation)
  BY Zenon DEF UndoMutation, Inv, Typed
<1>2. PICK n \in Nat : n = Len(mutations) /\ n \in 1 .. n
  BY <1>1
<1>3. PICK m : m = mutations[n]
  BY Zenon
<1>4. Len(path) = n + 1 /\ path[n + 1] = manager
  BY Zenon, <1>2 DEF Journal
<1>5. Undoes(m, manager, path[n])
  BY Zenon, <1>2, <1>3, <1>4 DEF Journal
<1>6. \/ \E removal \in m.removal : manager' = restore_removal(manager, Restored(m, removal))
      \/ /\ m.removal = {}
         /\ manager' = set_quantities(manager, m.order_id,
                         find_order(manager, m.order_id).original_quantity,
                         m.original_remaining_quantity)
  BY Zenon, <1>2, <1>3 DEF UndoMutation, Restored
<1>7. manager' = path[n]
  BY Zenon, <1>5, <1>6 DEF Undoes
<1>8. n \in 1 .. Len(path)
  BY <1>2, <1>4
<1>9. Older(path[n], op.generator_backup, op.sequence_backup)
  BY Zenon, <1>8 DEF Journal
<1> QED BY Zenon, <1>2, <1>4, <1>7, <1>8, <1>9

\* UndoMutation
LEMMA UndoMutationInv ==
  ASSUME Inv, UndoMutation
  PROVE  Inv'
<1>1. PICK path \in Seq(Manager) : Journal(path)
  BY Zenon DEF UndoMutation, Inv, Journalled
<1>2. /\ manager' = path[Len(mutations)]
      /\ Len(mutations) \in 1 .. Len(mutations)
      /\ Older(manager', op.generator_backup, op.sequence_backup)
  BY Zenon, <1>1, UndoneManager
<1>3. PICK m, side, price, quantity :
        /\ m = mutations[Len(mutations)]
        /\ side = m.side /\ price = m.price_ticks /\ quantity = m.executed_quantity
  BY Zenon
<1>4. mutations \in Seq(OrderMutation) /\ mutations # <<>> /\ pc = "undo"
  BY Zenon DEF UndoMutation, Inv, Typed
<1>5. /\ side \in Side /\ price \in BookPrice /\ quantity \in Int
      /\ side # op.incoming.side
  <2>1. m \in OrderMutation
    BY <1>2, <1>3, <1>4
  <2>2. side = Opposite(op.incoming.side)
    BY Zenon, <1>1, <1>2, <1>3 DEF Journal
  <2>3. op.incoming.side \in Side
    BY Zenon, <1>4 DEF Inv, Entering
  <2> QED BY <1>3, <2>1, <2>2, <2>3
          DEF OrderMutation, Opposite, Side, Price, BookPrice, Quantity
<1>6. /\ levels' = levels \/ (/\ can_adjust(levels, side, price, quantity)
                              /\ levels' = adjust_level(levels, side, price, quantity))
      /\ Throw \/ (/\ mutations' = next_to_undo(mutations)
                   /\ GoTo("undo")
                   /\ UNCHANGED <<op, remaining>>)
      /\ store' = store
      /\ next_order_id' = next_order_id /\ next_sequence_number' = next_sequence_number
  BY Zenon, <1>3 DEF UndoMutation
<1>7. /\ levels' \in Book
      /\ \A p \in BookPrice : levels'[op.incoming.side][p] = levels[op.incoming.side][p]
  <2>1. levels \in Book
    BY Zenon DEF Inv, Typed
  <2>2. op.incoming.side \in Side
    BY Zenon, <1>4 DEF Inv, Entering
  <2> QED BY <1>5, <1>6, <2>1, <2>2, AdjustLevel
<1>8. pc \in Framed
  BY Zenon, <1>4 DEF Framed
<1>9. CASE Throw
  <2>1. /\ op.generator_backup \in Int /\ op.sequence_backup \in Int
        /\ next_order_id \in Int /\ next_sequence_number \in Int
        /\ op.generator_backup <= next_order_id
        /\ op.sequence_backup <= next_sequence_number
    BY <1>8, SavedValues
  <2>2. Older(manager', next_order_id', next_sequence_number')
    BY Zenon, <1>2, <1>6, <2>1, OlderStill
  <2> QED BY Zenon, <1>6, <1>7, <1>8, <1>9, <2>2, SavedValues, EndInv DEF Throw
<1>10. CASE /\ mutations' = next_to_undo(mutations)
            /\ GoTo("undo")
            /\ UNCHANGED <<op, remaining>>
  <2>1. /\ pc' = "undo" /\ op' = op /\ remaining' = remaining
        /\ mutations' = next_to_undo(mutations)
    BY Zenon, <1>10 DEF GoTo
  <2>2. PICK shorter : shorter = SubSeq(path, 1, Len(mutations))
    BY Zenon
  <2>3. /\ shorter \in Seq(Manager) /\ Journal(shorter)'
        /\ mutations' \in Seq(OrderMutation)
    BY Zenon, <1>1, <1>2, <1>4, <2>1, <2>2, JournalShrinks
  <2>4. remaining' \in LevelQuantity /\ remaining' <= remaining
    BY <2>1 DEF Inv, Typed, LevelQuantity
  <2>5. /\ store' \in Store /\ op.checkpoint.trade_count \in 0 .. Len(store'.trades)
        /\ rollback(store', op.checkpoint) = rollback(store, op.checkpoint)
    BY Zenon, <1>6, <1>8, SavedValues
  <2>6. pc \in {"match", "undo"} /\ pc' \in {"match", "undo"}
    BY Zenon, <1>4, <2>1
  <2> QED BY Zenon, <1>6, <1>7, <2>1, <2>3, <2>4, <2>5, <2>6, LoopInv
<1> QED BY Zenon, <1>6, <1>9, <1>10

\* A step that changes nothing
LEMMA StutterInv ==
  ASSUME Inv, UNCHANGED vars
  PROVE  Inv'
<1>1. /\ levels' = levels /\ manager' = manager /\ store' = store
      /\ next_order_id' = next_order_id /\ next_sequence_number' = next_sequence_number
      /\ pc' = pc /\ op' = op /\ remaining' = remaining /\ mutations' = mutations
  BY Zenon DEF vars
<1>2. \A path : Journal(path) => Journal(path)'
  BY Zenon, <1>1 DEF Journal
<1>3. Journalled'
  BY Zenon, <1>1, <1>2 DEF Inv, Journalled
<1>4. Typed' /\ Older(manager, next_order_id, next_sequence_number)' /\ Kinds'
  BY Zenon, <1>1 DEF Inv, Typed, Kinds
<1>5. Called' /\ Saved'
  BY Zenon, <1>1 DEF Inv, Called, Saved
<1>6. Entering' /\ Adjusted'
  BY Zenon, <1>1 DEF Inv, Entering, Adjusted
<1> QED BY Zenon, <1>3, <1>4, <1>5, <1>6 DEF Inv

\* Every step of the engine keeps Inv, wherever memory runs out.
LEMMA StepInv ==
  ASSUME Inv, [Next]_vars
  PROVE  Inv'
  BY Zenon, CallInv, BetweenCallsInv, DoneInv, RestRemainderInv, RestOrderInv,
     CancelOrderInv, ModifyQuantityInv, MatchBestInv, MatchThrowsInv,
     RestRemainderThrowsInv, UndoMutationInv, MarketInv, ExecuteLevelInv,
     ExecuteLevelThrowsInv, MarketUndoneInv, LimitInv, NumberOrderInv,
     IdsExhaustedInv, RestOrderThrowsInv, LimitUndoneInv, LimitFailedInv,
     ModifyQuantityThrowsInv, UndoDeltaInv, ModifyPriceInv, ModifyUndoneInv,
     StutterInv
     DEF Returning, Running, Next

\* The values of the engine are in their types, its journal leads back through
\* consistent managers, and its backups fit, after every step of every operation.
THEOREM AlwaysInv == Spec => []Inv
<1>1. Init => Inv
  BY Zenon, InitInv
<1>2. Inv /\ [Next]_vars => Inv'
  BY Zenon, StepInv
<1> QED BY <1>1, <1>2, PTL DEF Spec

\* ManagerConsistent of every run, for any bounds and any set of failures: the
\* vector, the id index and the priority sets of order_manager_ agree after every
\* step, and the numbers of the active orders are older than the next ones.
THEOREM ManagerAlwaysConsistent == Spec => []ManagerConsistent
<1>1. Inv => ManagerConsistent
  <2> SUFFICES ASSUME Inv PROVE ManagerConsistent
    BY Zenon
  <2>1. Older(manager, next_order_id, next_sequence_number) /\ Typed
    BY Zenon DEF Inv
  <2>2. manager \in Manager /\ Consistent(manager)
    BY Zenon, <2>1 DEF Older
  <2>3. TypeOK
    BY Zenon, <2>1, <2>2 DEF TypeOK, Typed, Store
  <2>4. \A i \in 1 .. Len(manager.orders) :
          /\ manager.orders[i].order_id \in OrderId
          /\ has_order(manager, manager.orders[i].order_id)
          /\ find_order(manager, manager.orders[i].order_id) = manager.orders[i]
          /\ manager.order_indices[manager.orders[i].order_id] = i
    BY Zenon, <2>2, Positions
  <2>5. \A i \in 1 .. Len(manager.orders) :
          /\ manager.orders[i].order_id < next_order_id
          /\ manager.orders[i].sequence_number < next_sequence_number
    BY Zenon, <2>1, <2>4 DEF Older
  <2>6. \A i, j \in 1 .. Len(manager.orders) : i # j =>
          manager.orders[i].sequence_number # manager.orders[j].sequence_number
    <3> SUFFICES ASSUME NEW i \in 1 .. Len(manager.orders),
                        NEW j \in 1 .. Len(manager.orders), i # j
                 PROVE  manager.orders[i].sequence_number # manager.orders[j].sequence_number
      BY Zenon
    <3>1. manager.orders[i].order_id # manager.orders[j].order_id
      BY Zenon, <2>4
    <3> QED BY <2>1, <2>4, <3>1 DEF Older
  <2> QED BY Zenon, <2>2, <2>3, <2>5, <2>6 DEF ManagerConsistent
<1> QED BY <1>1, AlwaysInv, PTL

(***************************************************************************)
(* Every operation comes back.                                             *)
(***************************************************************************)
\* The part of an operation that a label stands for
LEMMA Ranks ==
  /\ Rank("called") = 5 /\ Rank("number") = 4
  /\ Rank("rest") = 3 /\ Rank("match") = 3 /\ Rank("levels") = 3
  /\ Rank("undo") = 2
  /\ Rank("undo_delta") = 1 /\ Rank("failed") = 1 /\ Rank("failed_adjusted") = 1
  /\ Rank("idle") = 0
BY Zenon DEF Rank

\* A turn of one of the two matching loops leaves less to match.
LEMMA LessToMatch ==
  ASSUME Inv, MatchBest \/ ExecuteLevel
  PROVE  pc' = pc /\ pc # "undo" /\ remaining' < remaining
<1>1. CASE MatchBest
  <2>1. PICK o, executed :
          /\ o = best_order(manager, Opposite(op.incoming.side))
          /\ executed = Lesser(remaining, o.remaining_quantity)
    BY Zenon
  <2>2. /\ pc = "match" /\ pc' = "match" /\ remaining > 0 /\ has_match
        /\ remaining' = remaining - executed
    BY Zenon, <1>1, <2>1 DEF MatchBest, GoTo
  <2>3. executed \in Quantity
    BY Zenon, <2>1, <2>2, MatchFacts
  <2> QED BY <2>2, <2>3 DEF Quantity, Inv, Typed, LevelQuantity
<1>2. CASE ExecuteLevel
  <2>1. PICK side, price, executed :
          /\ side = Opposite(op.incoming.side)
          /\ price = best_price(levels, side)
          /\ executed = Lesser(remaining, levels[side][price])
    BY Zenon
  <2>2. /\ pc = "levels" /\ pc' = "levels" /\ remaining > 0 /\ has_level(levels, side)
        /\ remaining' = remaining - executed
    BY Zenon, <1>2, <2>1 DEF ExecuteLevel, GoTo
  <2>3. executed \in Quantity
    BY Zenon, <2>1, <2>2, LevelExecuted
  <2> QED BY <2>2, <2>3 DEF Quantity, Inv, Typed, LevelQuantity
<1> QED BY Zenon, <1>1, <1>2

\* CallsReturn, wherever memory runs out: each step of an operation takes it to
\* a later part, or is a turn of a loop that leaves less to match or to undo,
\* so no catch block and no loop of the engine runs for ever.
THEOREM CallsAlwaysReturn == Spec => CallsReturn
<1> DEFINE Progress == pc # "idle" =>
             \/ Rank(pc') < Rank(pc)
             \/ /\ pc' = pc
                /\ IF pc = "undo" THEN Len(mutations') < Len(mutations)
                                  ELSE remaining' < remaining
<1>1. ASSUME Inv, [Next]_vars PROVE [Progress]_vars
  <2> SUFFICES ASSUME Next, pc # "idle" PROVE Progress
    BY Zenon, <1>1
  <2>1. Returning \/ Running
    BY Zenon DEF Next, Call, clear_trade_history, replace_snapshot
  <2>2. pc \in Labels \ {"idle"}
    BY Zenon, <1>1 DEF Inv, Typed
  <2>3. CASE pc' = "idle"
    BY <2>2, <2>3, Ranks DEF Labels
  <2>4. CASE Returning
    BY Zenon, <2>3, <2>4 DEF Returning, MatchingDone, RestRemainder, LevelsDone, RestOrder,
                      CancelOrder, ModifyQuantity, Return
  <2>5. CASE MatchBest \/ ExecuteLevel
    BY Zenon, <1>1, <2>5, LessToMatch
  <2>6. CASE UndoMutation
    <3>1. CASE Throw
      BY Zenon, <2>3, <3>1 DEF Throw
    <3>2. CASE mutations' = next_to_undo(mutations) /\ GoTo("undo")
      <4>1. mutations # <<>> /\ mutations \in Seq(OrderMutation) /\ pc = "undo" /\ pc' = "undo"
        BY Zenon, <1>1, <2>6, <3>2 DEF UndoMutation, GoTo, Inv, Typed
      <4>2. Len(mutations') < Len(mutations)
        BY <3>2, <4>1 DEF next_to_undo
      <4> QED BY Zenon, <4>1, <4>2
    <3> QED BY Zenon, <2>6, <3>1, <3>2 DEF UndoMutation
  <2>7. CASE MatchThrows(TRUE, TRUE) \/ MatchThrows(TRUE, FALSE)
             \/ MatchThrows(FALSE, TRUE) \/ MatchThrows(FALSE, FALSE)
             \/ RestRemainderThrows
    <3>1. pc = "match" /\ pc' = "undo"
      BY Zenon, <2>7 DEF MatchThrows, RestRemainderThrows, GoTo
    <3> QED BY <3>1, Ranks
  <2>8. CASE \/ execute_market_order \/ place_limit_order
             \/ ModifyPrice \/ ModifyQuantityThrows
    <3>1. pc = "called" /\ pc' \in {"levels", "match", "number", "undo_delta", "idle"}
      BY Zenon, <2>8 DEF execute_market_order, place_limit_order, ModifyPrice,
                  ModifyQuantityThrows, GoTo, Throw
    <3> QED BY <3>1, Ranks
  <2>9. CASE NumberOrder \/ IdsExhausted
    <3>1. pc = "number" /\ pc' \in {"match", "rest", "failed"}
      BY Zenon, <2>9 DEF NumberOrder, IdsExhausted, GoTo
    <3> QED BY <3>1, Ranks
  <2>10. CASE RestOrderThrows
    <3>1. pc = "rest" /\ pc' \in {"failed", "failed_adjusted"}
      BY Zenon, <2>10 DEF RestOrderThrows, GoTo
    <3> QED BY <3>1, Ranks
  <2>11. CASE LimitUndone
    BY <2>11, Ranks DEF LimitUndone, GoTo
  <2>12. CASE \/ ExecuteLevelThrows(TRUE) \/ ExecuteLevelThrows(FALSE)
              \/ MarketUndone \/ LimitFailed \/ UndoDelta \/ ModifyUndone
    BY Zenon, <2>3, <2>12 DEF ExecuteLevelThrows, MarketUndone, LimitFailed, UndoDelta,
                       ModifyUndone, Throw
  <2>13. CASE Running
    <3>1. (\E j, r \in BOOLEAN : MatchThrows(j, r)) =>
            \/ MatchThrows(TRUE, TRUE) \/ MatchThrows(TRUE, FALSE)
            \/ MatchThrows(FALSE, TRUE) \/ MatchThrows(FALSE, FALSE)
      BY Zenon
    <3>2. (\E r \in BOOLEAN : ExecuteLevelThrows(r)) =>
            ExecuteLevelThrows(TRUE) \/ ExecuteLevelThrows(FALSE)
      BY Zenon
    <3> HIDE DEF Progress
    <3> QED BY Zenon, <2>5, <2>6, <2>7, <2>8, <2>9, <2>10, <2>11, <2>12, <2>13, <3>1, <3>2
            DEF Running
  <2> QED BY Zenon, <2>1, <2>4, <2>13
<1>2. Inv /\ [Next]_vars => [Progress]_vars
  BY Zenon, <1>1
<1> QED BY <1>2, AlwaysInv, PTL DEF Spec, CallsReturn
=============================================================================
