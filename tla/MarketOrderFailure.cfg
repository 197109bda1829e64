CONSTANTS
  MaxOrderId = 4
  MaxPrice = 2
  MaxQuantity = 2
  MaxSequence = 4
  MaxTradeId = 2
  Snapshots <- MCSnapshots
  Failures = {"market"}
SPECIFICATION Spec
INVARIANT FailureLeavesNoTrace
