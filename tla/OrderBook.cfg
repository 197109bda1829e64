SPECIFICATION MCSpec
CONSTANTS
  MaxPrice = 2
  MaxQuantity = 2
  MaxSnapshotLength = 2
  depth_levels = 3
  MantissaBits = 5
  MaxInteger = 15
  Places = 2
  MaxTicks = 1097
  Characters = {0, 1, 9, 10, 11, 12, 13}
  MaxLength = 6
VIEW MCView
INVARIANTS
  Normalized
  StatisticsInRange
  ConversionsAreExact
PROPERTY ImplementsLevelBook
