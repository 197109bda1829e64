CONSTANTS
  MaxOrderId = 4
  MaxPrice = 2
  MaxQuantity = 2
  MaxSequence = 4
  MaxTradeId = 2
  Snapshots <- MCSnapshots
  Failures = {"levels", "limit", "journal", "level_insert", "add_order", "resequence"}
SPECIFICATION Spec
INVARIANTS
  ManagerConsistent
  BookMatchesOrders
  NeverCrossed
  FailureLeavesNoTrace
PROPERTIES
  CallsReturn
  ImplementsPriceTimeMarket
