CONSTANTS
  MaxPrice = 2
  MaxQuantity = 2
  MaxSnapshotLength = 2
SPECIFICATION Spec
VIEW BookView
INVARIANT VisiblePricesPositive
