\* Three orders, so that a removal hits the first, the middle and the last
\* position; as many journalled steps as orders.
CONSTANTS
  MaxOrderId = 3
  MaxPrice = 1
  MaxQuantity = 1
  MaxSequence = 2
  MaxJournal = 3
SPECIFICATION TxnSpec
INVARIANTS ManagerConsistent RestoreNeverRefused UndoIsExact
