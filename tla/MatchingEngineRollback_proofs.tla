-------------------- MODULE MatchingEngineRollback_proofs --------------------
(***************************************************************************)
(* An operation of the matching engine that fails leaves no trace, the     *)
(* book shows the resting orders and it is never crossed.                  *)
(*                                                                         *)
(* MatchingEngineRollbackCalls_proofs has the invariant Clean and its      *)
(* proof for the steps outside the loops; here are the turns of the loops, *)
(* the induction and the three theorems.                                   *)
(***************************************************************************)
EXTENDS MatchingEngine_proofs, MatchingEngineRollbackCalls_proofs

\* A step of the matching loop or of the rollback loop
LEMMA LoopClean ==
  ASSUME Clean, pc \in {"match", "undo"}, pc' \in {"match", "undo"}, op' = op,
         before' = before, next_order_id' = next_order_id,
         next_sequence_number' = next_sequence_number,
         rollback(store', op.checkpoint) = rollback(store, op.checkpoint),
         pc' = "match" => levels' = Resting(manager'), ~ Crossed(levels'),
         NEW path \in Seq(Manager), Journal(path)', LeadsBack(path)'
  PROVE  Clean'
<1>1. /\ op.generator_backup = before[4] /\ op.sequence_backup = before[5]
      /\ rollback(store, op.checkpoint) = before[3]
      /\ op.request.kind # "limit" => next_order_id = before[4]
      /\ op.request.kind = "market" => next_sequence_number = before[5]
      /\ before = <<before[1], before[2], before[3], before[4], before[5]>>
      /\ Sound(before[1], before[2])
  BY Zenon DEF Clean, Kept, Framed
<1>2. Kept'
  BY Zenon, <1>1 DEF Kept, Framed
<1>3. BookShowsOrders' /\ BookUncrossed' /\ Reversible'
  BY Zenon DEF BookShowsOrders, BookUncrossed, Reversible
<1> QED BY Zenon, <1>2, <1>3 DEF Clean

\* What a turn that leaves the manager as it is keeps of LeadsBack
LEMMA LeadsBackLonger ==
  ASSUME NEW path \in Seq(Manager), LeadsBack(path), Journal(path),
         op' = op, before' = before, levels' = levels, manager' = manager,
         NEW entry, NEW longer, JournalExtended(path, entry, longer),
         op.request.kind = "limit"
  PROVE  LeadsBack(longer)'
<1>1. PICK n \in Nat : n = Len(mutations)
  BY Zenon DEF JournalExtended
<1>2. /\ Len(path) = n + 1 /\ Len(longer) = n + 2 /\ longer[n + 2] = manager
      /\ \A i \in 1 .. n + 1 : longer[i] = path[i]
      /\ path[n + 1] = manager
  BY <1>1 DEF JournalExtended, Journal
<1>3. /\ \A i \in 1 .. n + 1 : Resting(path[i]) \in Book /\ ~ Crossed(Resting(path[i]))
      /\ path[1] = before[2] /\ op.order_book_backup = {before[1]}
  BY Zenon, <1>2 DEF LeadsBack
<1>4. \A i \in 1 .. n + 2 : Resting(longer[i]) \in Book /\ ~ Crossed(Resting(longer[i]))
  <2> SUFFICES ASSUME NEW i \in 1 .. n + 2
               PROVE  Resting(longer[i]) \in Book /\ ~ Crossed(Resting(longer[i]))
    BY Zenon
  <2>1. CASE i = n + 2
    BY <1>2, <1>3, <2>1
  <2>2. CASE i # n + 2
    <3>1. i \in 1 .. n + 1
      BY <2>2
    <3> QED BY Zenon, <1>2, <1>3, <3>1
  <2> QED BY Zenon, <2>1, <2>2
<1>5. longer[1] = before[2] /\ 1 \in 1 .. n + 1
  BY <1>2, <1>3
<1> QED BY Zenon, <1>2, <1>3, <1>4, <1>5 DEF LeadsBack

\* MatchThrows.  Only the journal of a limit order, whose book comes back from
\* a backup, may end in an entry that has not been carried out.
LEMMA MatchThrowsClean ==
  ASSUME TradesAreCopied, Inv, Clean, NEW journalled \in BOOLEAN, NEW recorded \in BOOLEAN,
         MatchThrows(journalled, recorded)
  PROVE  Clean'
<1>1. /\ recorded => journalled /\ op.request.kind = "market"
      /\ IF op.request.kind = "limit" THEN "limit" \in Failures
         ELSE IF journalled THEN op.request.kind \in Failures
         ELSE "journal" \in Failures
  BY Zenon DEF MatchThrows
<1>2. /\ pc' = "undo" /\ op' = op /\ before' = before /\ levels' = levels /\ manager' = manager
      /\ next_order_id' = next_order_id /\ next_sequence_number' = next_sequence_number
      /\ ~ recorded => store' = store
  BY Zenon DEF MatchThrows, GoTo
<1>3. op.request.kind \in {"market", "limit", "modify"}
  BY Zenon DEF MatchThrows, Inv, Kinds
<1>4. journalled => op.request.kind = "limit"
  BY Zenon, <1>1, <1>3 DEF TradesAreCopied
<1>5. pc = "match" /\ ~ recorded
  BY Zenon, <1>1, <1>4 DEF MatchThrows
<1>6. PICK path \in Seq(Manager) : Journal(path) /\ LeadsBack(path)
  BY Zenon, <1>5 DEF Clean, Reversible
<1>7. pc \in {"match", "undo"} /\ pc' \in {"match", "undo"} /\ pc' # "match" /\ ~ Crossed(levels')
        /\ rollback(store', op.checkpoint) = rollback(store, op.checkpoint)
  BY Zenon, <1>2, <1>5 DEF Clean, BookUncrossed
<1>8. CASE journalled
  <2>1. PICK entry, longer : JournalExtended(path, entry, longer)
    BY Zenon, <1>6, <1>8, MatchThrowsJournal
  <2>2. LeadsBack(longer)'
    BY Zenon, <1>2, <1>4, <1>6, <1>8, <2>1, LeadsBackLonger
  <2>3. longer \in Seq(Manager) /\ Journal(longer)'
    BY Zenon, <2>1 DEF JournalExtended
  <2> QED BY Zenon, <1>2, <1>7, <2>2, <2>3, LoopClean
<1>9. CASE ~ journalled
  <2>1. mutations' = mutations /\ Journal(path)'
    BY Zenon, <1>6, <1>9, MatchThrowsJournal
  <2>2. LeadsBack(path)'
    BY Zenon, <1>2, <1>6, <2>1 DEF LeadsBack
  <2> QED BY Zenon, <1>2, <1>6, <1>7, <2>1, <2>2, LoopClean
<1> QED BY Zenon, <1>8, <1>9

\* RestRemainderThrows
LEMMA RestRemainderThrowsClean ==
  ASSUME Inv, Clean, RestRemainderThrows
  PROVE  Clean'
<1>1. /\ pc = "match" /\ pc' = "undo" /\ op' = op /\ before' = before
      /\ levels' = levels /\ store' = store /\ mutations' = mutations
      /\ next_order_id' = next_order_id /\ next_sequence_number' = next_sequence_number
  BY Zenon DEF RestRemainderThrows, GoTo, locals
<1>2. manager' = manager
  BY Zenon, RestRemainderThrowsInv
<1>3. PICK path \in Seq(Manager) : Journal(path) /\ LeadsBack(path)
  BY Zenon, <1>1 DEF Clean, Reversible
<1>4. Journal(path)'
  BY Zenon, <1>1, <1>2, <1>3 DEF Journal
<1>5. LeadsBack(path)'
  BY Zenon, <1>1, <1>2, <1>3 DEF LeadsBack
<1>6. pc \in {"match", "undo"} /\ pc' \in {"match", "undo"} /\ pc' # "match" /\ ~ Crossed(levels')
        /\ rollback(store', op.checkpoint) = rollback(store, op.checkpoint)
  BY Zenon, <1>1 DEF Clean, BookUncrossed
<1> QED BY Zenon, <1>1, <1>3, <1>4, <1>5, <1>6, LoopClean

\* MatchBest
LEMMA MatchBestClean ==
  ASSUME Inv, Inv', Clean, MatchBest
  PROVE  Clean'
<1>0. PICK o, executed : /\ o = best_order(manager, Opposite(op.incoming.side))
                         /\ executed = Lesser(remaining, o.remaining_quantity)
  BY Zenon
<1>1. /\ pc = "match" /\ remaining > 0 /\ has_match
      /\ can_adjust(levels, o.side, o.price_ticks, -executed)
      /\ levels' = adjust_level(levels, o.side, o.price_ticks, -executed)
      /\ pc' = "match" /\ op' = op /\ before' = before
      /\ next_order_id' = next_order_id /\ next_sequence_number' = next_sequence_number
  BY Zenon, <1>0 DEF MatchBest, GoTo
<1>2. /\ o.side \in Side /\ o.price_ticks \in BookPrice
      /\ executed \in Quantity /\ executed \in Int
      /\ has_order(manager, o.order_id) /\ find_order(manager, o.order_id) = o
      /\ o.order_id \in OrderId
  BY <1>0, <1>1, MatchFacts, Zenon
<1>3. PICK path \in Seq(Manager) : Journal(path) /\ LeadsBack(path)
  BY Zenon, <1>1 DEF Clean, Reversible
<1>4. PICK longer, entry : /\ longer = Append(path, manager')
                           /\ entry = FillRecord(manager, o, executed)
  BY Zenon
<1>5. /\ JournalExtended(path, FillRecord(manager, o, executed), longer)
      /\ Resting(manager') = adjust_level(Resting(manager), o.side, o.price_ticks, -executed)
  BY <1>0, <1>3, <1>4, MatchBestJournal, Zenon
<1>6. levels = Resting(manager) /\ ~ Crossed(levels) /\ levels \in Book /\ levels' \in Book
  BY Zenon, <1>1 DEF Clean, BookShowsOrders, BookUncrossed, Inv, Typed
<1>7. levels' = Resting(manager')
  BY Zenon, <1>1, <1>5, <1>6
<1>8. -executed \in Int /\ -(-executed) = executed
  BY <1>2
<1>9. ~ Crossed(levels')
  <2>1. levels[o.side][o.price_ticks] > 0
    <3>1. Older(manager, next_order_id, next_sequence_number)
      BY Zenon DEF Inv
    <3> QED BY Zenon, <1>2, <1>6, <3>1, RestingLevels
  <2> QED BY Zenon, <1>1, <1>2, <1>6, <1>8, <2>1, ChangedLevelUncrossed
<1>10. /\ entry.side = o.side /\ entry.price_ticks = o.price_ticks
       /\ entry.executed_quantity = executed
  BY Zenon, <1>4 DEF FillRecord
<1>11. Resting(manager) = adjust_level(Resting(manager'), entry.side, entry.price_ticks,
                                       entry.executed_quantity)
  <2>1. adjust_level(levels', o.side, o.price_ticks, executed) = levels
    BY <1>1, <1>2, <1>6, <1>8, AdjustBack
  <2> QED BY Zenon, <1>6, <1>7, <1>10, <2>1
<1>12. PICK n \in Nat : n = Len(mutations)
  BY Zenon, <1>5 DEF JournalExtended
<1>13. /\ Len(path) = n + 1 /\ Len(longer) = n + 2 /\ Len(mutations') = n + 1
       /\ longer[n + 2] = manager' /\ longer[n + 1] = manager
       /\ mutations'[n + 1] = entry
       /\ \A i \in 1 .. n : mutations'[i] = mutations[i]
       /\ \A i \in 1 .. n + 1 : longer[i] = path[i]
  BY <1>3, <1>4, <1>5, <1>12 DEF JournalExtended, Journal
<1>14. \A i \in 1 .. n + 2 : Resting(longer[i]) \in Book /\ ~ Crossed(Resting(longer[i]))
  <2> SUFFICES ASSUME NEW i \in 1 .. n + 2
               PROVE  Resting(longer[i]) \in Book /\ ~ Crossed(Resting(longer[i]))
    BY Zenon
  <2>1. CASE i = n + 2
    BY Zenon, <1>6, <1>7, <1>9, <1>13, <2>1
  <2>2. CASE i # n + 2
    <3>1. i \in 1 .. n + 1
      BY <2>2
    <3>2. longer[i] = path[i] /\ i \in 1 .. Len(path)
      BY Zenon, <1>13, <3>1
    <3> QED BY Zenon, <1>3, <3>2 DEF LeadsBack
  <2> QED BY Zenon, <2>1, <2>2
<1>15. op.request.kind # "limit" =>
         \A i \in 1 .. n + 1 :
           Resting(longer[i]) =
             adjust_level(Resting(longer[i + 1]), mutations'[i].side,
                          mutations'[i].price_ticks, mutations'[i].executed_quantity)
  <2> SUFFICES ASSUME op.request.kind # "limit", NEW i \in 1 .. n + 1
               PROVE  Resting(longer[i]) =
                        adjust_level(Resting(longer[i + 1]), mutations'[i].side,
                                     mutations'[i].price_ticks,
                                     mutations'[i].executed_quantity)
    BY Zenon
  <2>1. CASE i = n + 1
    <3>1. longer[i] = manager /\ longer[i + 1] = manager' /\ mutations'[i] = entry
      BY <1>13, <2>1
    <3> QED BY Zenon, <1>11, <3>1
  <2>2. CASE i # n + 1
    <3>1. i \in 1 .. n /\ i \in 1 .. n + 1 /\ i + 1 \in 1 .. n + 1
      BY <2>2
    <3>2. longer[i] = path[i] /\ longer[i + 1] = path[i + 1] /\ mutations'[i] = mutations[i]
      BY Zenon, <1>13, <3>1
    <3>3. Resting(path[i]) =
            adjust_level(Resting(path[i + 1]), mutations[i].side,
                         mutations[i].price_ticks, mutations[i].executed_quantity)
      BY Zenon, <1>3, <1>12, <3>1 DEF LeadsBack
    <3> QED BY Zenon, <3>2, <3>3
  <2> QED BY Zenon, <2>1, <2>2
<1>16. longer[1] = path[1]
  BY <1>13
<1>17. LeadsBack(longer)'
  <2>1. /\ op.request.kind = "limit" =>
             longer[1] = before[2] /\ op.order_book_backup = {before[1]}
        /\ op.request.kind = "market" =>
             longer[1] = before[2] /\ Resting(longer[1]) = before[1]
        /\ op.request.kind = "modify" =>
             \A x \in op.original_order, removal \in op.original_removal :
               /\ WithOriginal(longer[1], x, removal) = before[2]
               /\ adjust_level(Resting(longer[1]), x.side, x.price_ticks,
                               x.remaining_quantity) = before[1]
    BY Zenon, <1>3, <1>16 DEF LeadsBack
  <2>2. /\ \A i \in 1 .. Len(longer) : Resting(longer[i]) \in Book /\ ~ Crossed(Resting(longer[i]))
        /\ op.request.kind # "limit" =>
             \A i \in 1 .. Len(mutations') :
               Resting(longer[i]) =
                 adjust_level(Resting(longer[i + 1]), mutations'[i].side,
                              mutations'[i].price_ticks, mutations'[i].executed_quantity)
    BY Zenon, <1>13, <1>14, <1>15
  <2>3. op' = op /\ before' = before /\ levels' = Resting(manager')
    BY Zenon, <1>1, <1>7
  <2> QED BY <2>1, <2>2, <2>3, Zenon DEF LeadsBack
<1>18. longer \in Seq(Manager) /\ Journal(longer)'
  BY Zenon, <1>5 DEF JournalExtended
<1>19. rollback(store', op.checkpoint) = rollback(store, op.checkpoint)
  BY Zenon, MatchBestInv
<1>20. pc \in {"match", "undo"} /\ pc' \in {"match", "undo"}
  BY Zenon, <1>1
<1> QED BY Zenon, <1>1, <1>7, <1>9, <1>17, <1>18, <1>19, <1>20, LoopClean

\* UndoMutation
LEMMA UndoMutationClean ==
  ASSUME Inv, Inv', Clean, UndoMutation
  PROVE  Clean'
<1>1. pc = "undo" /\ mutations # <<>> /\ mutations \in Seq(OrderMutation)
  BY Zenon DEF UndoMutation, Inv, Typed
<1>2. PICK path \in Seq(Manager) : Journal(path) /\ LeadsBack(path)
  BY Zenon, <1>1 DEF Clean, Reversible
<1>3. PICK n : n = Len(mutations)
  BY Zenon
<1>4. /\ manager' = path[n] /\ n \in 1 .. Len(path) /\ n \in 1 .. n /\ Len(path) = n + 1
  BY Zenon, <1>2, <1>3, UndoneManager
<1>5. PICK m : m = mutations[n]
  BY Zenon
<1>6. /\ m.side \in Side /\ m.price_ticks \in BookPrice /\ m.executed_quantity \in Int
  <2>1. m \in OrderMutation
    BY <1>1, <1>3, <1>4, <1>5
  <2> QED BY <2>1 DEF OrderMutation, Price, BookPrice, Quantity
<1>7. path[n + 1] = manager /\ n + 1 \in 1 .. Len(path)
  BY <1>2, <1>4 DEF Journal
<1>8. /\ Resting(path[n]) \in Book /\ ~ Crossed(Resting(path[n]))
      /\ Resting(manager) \in Book
  BY Zenon, <1>2, <1>4, <1>7 DEF LeadsBack
<1>9. op.request.kind # "limit" =>
        /\ levels = Resting(manager)
        /\ Resting(path[n]) = adjust_level(levels, m.side, m.price_ticks, m.executed_quantity)
        /\ can_adjust(levels, m.side, m.price_ticks, m.executed_quantity)
  <2> SUFFICES ASSUME op.request.kind # "limit"
               PROVE  /\ levels = Resting(manager)
                      /\ Resting(path[n]) = adjust_level(levels, m.side, m.price_ticks,
                                                         m.executed_quantity)
                      /\ can_adjust(levels, m.side, m.price_ticks, m.executed_quantity)
    BY Zenon
  <2>1. levels = Resting(manager)
    BY Zenon, <1>2 DEF LeadsBack
  <2>2. Resting(path[n]) = adjust_level(Resting(path[n + 1]), m.side, m.price_ticks,
                                        m.executed_quantity)
    BY Zenon, <1>2, <1>3, <1>4, <1>5 DEF LeadsBack
  <2>3. Resting(path[n]) = adjust_level(levels, m.side, m.price_ticks, m.executed_quantity)
    BY Zenon, <1>7, <2>1, <2>2
  <2> QED BY Zenon, <1>6, <1>8, <2>1, <2>3, TradeUndone
<1>10. /\ levels' = IF op.request.kind # "limit" THEN Resting(manager') ELSE levels
       /\ mutations' = next_to_undo(mutations)
       /\ pc' = "undo" /\ op' = op /\ before' = before /\ store' = store
       /\ next_order_id' = next_order_id /\ next_sequence_number' = next_sequence_number
  <2>1. /\ levels' = IF /\ op.request.kind # "limit"
                        /\ can_adjust(levels, m.side, m.price_ticks, m.executed_quantity)
                     THEN adjust_level(levels, m.side, m.price_ticks, m.executed_quantity)
                     ELSE levels
        /\ IF /\ op.request.kind # "limit"
              /\ ~ can_adjust(levels, m.side, m.price_ticks, m.executed_quantity)
           THEN Throw
           ELSE mutations' = next_to_undo(mutations) /\ GoTo("undo") /\ UNCHANGED <<op, remaining>>
        /\ UNCHANGED <<store, next_order_id, next_sequence_number>>
    BY Zenon, <1>3, <1>5 DEF UndoMutation
  <2> QED BY Zenon, <1>4, <1>9, <2>1 DEF GoTo
<1>11. ~ Crossed(levels')
  <2>1. ~ Crossed(levels)
    BY Zenon, <1>1 DEF Clean, BookUncrossed
  <2> QED BY Zenon, <1>4, <1>8, <1>10, <2>1
<1>12. PICK shorter : shorter = SubSeq(path, 1, n)
  BY Zenon
<1>13. /\ shorter \in Seq(Manager) /\ Journal(shorter)'
       /\ Len(shorter) = n /\ Len(mutations') = n - 1
       /\ \A i \in 1 .. Len(shorter) : shorter[i] = path[i]
       /\ \A i \in 1 .. Len(mutations') : mutations'[i] = mutations[i]
  BY Zenon, <1>1, <1>2, <1>3, <1>4, <1>10, <1>12, JournalShrinks
<1>14. \A i \in 1 .. Len(shorter) : Resting(shorter[i]) \in Book /\ ~ Crossed(Resting(shorter[i]))
  BY <1>2, <1>4, <1>13 DEF LeadsBack
<1>15. op.request.kind # "limit" =>
         \A i \in 1 .. Len(mutations') :
           Resting(shorter[i]) =
             adjust_level(Resting(shorter[i + 1]), mutations'[i].side,
                          mutations'[i].price_ticks, mutations'[i].executed_quantity)
  <2> SUFFICES ASSUME op.request.kind # "limit", NEW i \in 1 .. Len(mutations')
               PROVE  Resting(shorter[i]) =
                        adjust_level(Resting(shorter[i + 1]), mutations'[i].side,
                                     mutations'[i].price_ticks,
                                     mutations'[i].executed_quantity)
    BY Zenon
  <2>1. i \in 1 .. n - 1 /\ i \in 1 .. n /\ i + 1 \in 1 .. n
    BY <1>4, <1>13
  <2>2. shorter[i] = path[i] /\ shorter[i + 1] = path[i + 1] /\ mutations'[i] = mutations[i]
    BY Zenon, <1>13, <2>1
  <2>3. Resting(path[i]) =
          adjust_level(Resting(path[i + 1]), mutations[i].side,
                       mutations[i].price_ticks, mutations[i].executed_quantity)
    BY Zenon, <1>2, <1>3, <2>1 DEF LeadsBack
  <2> QED BY Zenon, <2>2, <2>3
<1>16. LeadsBack(shorter)'
  <2>1. shorter[1] = path[1]
    BY <1>4, <1>13
  <2>2. /\ op.request.kind = "limit" =>
             shorter[1] = before[2] /\ op.order_book_backup = {before[1]}
        /\ op.request.kind = "market" =>
             shorter[1] = before[2] /\ Resting(shorter[1]) = before[1]
        /\ op.request.kind = "modify" =>
             \A x \in op.original_order, removal \in op.original_removal :
               /\ WithOriginal(shorter[1], x, removal) = before[2]
               /\ adjust_level(Resting(shorter[1]), x.side, x.price_ticks,
                               x.remaining_quantity) = before[1]
    BY Zenon, <1>2, <2>1 DEF LeadsBack
  <2>3. /\ op' = op /\ before' = before
        /\ op.request.kind # "limit" => levels' = Resting(manager')
    BY Zenon, <1>10
  <2> QED BY <1>14, <1>15, <2>2, <2>3, Zenon DEF LeadsBack
<1>17. pc \in {"match", "undo"} /\ pc' \in {"match", "undo"} /\ pc' # "match"
         /\ rollback(store', op.checkpoint) = rollback(store, op.checkpoint)
  BY Zenon, <1>1, <1>10
<1> QED BY Zenon, <1>10, <1>11, <1>13, <1>16, <1>17, LoopClean

\* A step that changes nothing
LEMMA StutterClean ==
  ASSUME Clean, UNCHANGED vars
  PROVE  Clean'
<1>1. /\ levels' = levels /\ manager' = manager /\ store' = store
      /\ next_order_id' = next_order_id /\ next_sequence_number' = next_sequence_number
      /\ pc' = pc /\ op' = op /\ mutations' = mutations /\ before' = before
  BY Zenon DEF vars
<1>2. \A path : Journal(path) /\ LeadsBack(path) => Journal(path)' /\ LeadsBack(path)'
  BY <1>1 DEF Journal, LeadsBack
<1>3. Reversible'
  BY Zenon, <1>1, <1>2 DEF Clean, Reversible
<1>4. BookShowsOrders' /\ BookUncrossed' /\ Kept'
  BY <1>1 DEF Clean, BookShowsOrders, BookUncrossed, Kept, persistent
<1> QED BY Zenon, <1>3, <1>4 DEF Clean

\* Every step of the engine keeps Clean, as long as trades are copied.
LEMMA StepClean ==
  ASSUME TradesAreCopied, Inv, Clean, [Next]_vars
  PROVE  Clean'
<1>1. Inv'
  BY Zenon, StepInv
<1>2. ASSUME NEW request \in Request, Call(request)
      PROVE  Clean'
  BY Zenon, <1>2, CallClean
<1>3. CASE clear_trade_history \/ \E b \in Snapshots : replace_snapshot(b)
  BY Zenon, <1>3, BetweenCallsClean
<1>4. CASE Returning
  BY Zenon, <1>4, DoneClean, RestRemainderClean, RestOrderClean, CancelOrderClean,
     ModifyQuantityClean
  DEF Returning
<1>5. CASE Running
  BY Zenon, <1>1, <1>5, MatchBestClean, MatchThrowsClean, RestRemainderThrowsClean,
     UndoMutationClean, MarketClean, ExecuteLevelClean, ExecuteLevelThrowsClean,
     MarketUndoneClean, LimitClean, NumberOrderClean, IdsExhaustedClean,
     RestOrderThrowsClean, LimitUndoneClean, LimitFailedClean, ModifyQuantityThrowsClean,
     UndoDeltaClean, ModifyPriceClean, ModifyUndoneClean
  DEF Running
<1>6. CASE UNCHANGED vars
  BY Zenon, <1>6, StutterClean
<1> QED BY Zenon, <1>2, <1>3, <1>4, <1>5, <1>6 DEF Next

\* While trades are copied, the journal and the backups always lead back to the
\* state before the operation, and the book shows the orders, uncrossed.
THEOREM AlwaysClean ==
  ASSUME TradesAreCopied
  PROVE  Spec => []Clean
<1>1. Init => Clean
  BY Zenon, InitClean
<1>2. Inv /\ Clean /\ [Next]_vars => Clean'
  BY Zenon, StepClean
<1> QED BY <1>1, <1>2, AlwaysInv, PTL DEF Spec

\* FailureLeavesNoTrace, for any bounds: an operation that throws, wherever
\* memory runs out except in the copy of a recorded trade (the catch blocks of
\* market orders and modifications then undo a trade that the book never saw),
\* leaves the book, the orders, the trades and all counters as they were.
THEOREM FailureNeverLeavesATrace ==
  ASSUME TradesAreCopied
  PROVE  Spec => []FailureLeavesNoTrace
<1>1. Clean => FailureLeavesNoTrace
  BY Zenon DEF Clean, Kept, FailureLeavesNoTrace
<1> QED BY <1>1, AlwaysClean, PTL

\* BookMatchesOrders, for any bounds: while local orders rest, every level that
\* a reader of the book sees holds exactly their quantities, also between the
\* trades of one operation, half-way through a modification and half-way
\* through the rollback of either.
THEOREM BookAlwaysMatchesOrders ==
  ASSUME TradesAreCopied
  PROVE  Spec => []BookMatchesOrders
<1>1. Clean => BookMatchesOrders
  <2> SUFFICES ASSUME Clean, manager.orders # <<>>,
                      \/ pc \in {"idle", "called", "number", "rest", "match"}
                      \/ pc = "undo" /\ op.request.kind # "limit",
                      NEW s \in Side, NEW p \in BookPrice
               PROVE  levels[s][p] = RestingQuantity(manager, s, p)
    BY Zenon DEF BookMatchesOrders
  <2>1. levels = Resting(manager)
    <3>1. CASE pc \in {"idle", "called"}
      BY Zenon, <3>1, BeforeIsCurrent DEF Sound
    <3>2. CASE pc \in {"number", "rest", "match"}
      BY Zenon, <3>2 DEF Clean, BookShowsOrders
    <3>3. CASE pc = "undo" /\ op.request.kind # "limit"
      BY Zenon, <3>3 DEF Clean, Reversible, LeadsBack
    <3> QED BY Zenon, <3>1, <3>2, <3>3
  <2> QED BY Zenon, <2>1 DEF Resting
<1> QED BY <1>1, AlwaysClean, PTL

\* NeverCrossed, for any bounds: while local orders rest no reader of the book
\* ever sees a bid at or above an ask, rollbacks included.
THEOREM AlwaysUncrossed ==
  ASSUME TradesAreCopied
  PROVE  Spec => []NeverCrossed
<1>1. Clean => NeverCrossed
  <2> SUFFICES ASSUME Clean, manager.orders # <<>>
               PROVE  ~ Crossed(levels)
    BY Zenon DEF NeverCrossed
  <2>1. CASE pc \in {"idle", "called"}
    BY Zenon, <2>1, BeforeIsCurrent DEF Sound
  <2>2. CASE pc \notin {"idle", "called"}
    BY Zenon, <2>2 DEF Clean, Kept, BookUncrossed
  <2> QED BY Zenon, <2>1, <2>2
<1> QED BY <1>1, AlwaysClean, PTL
=============================================================================
