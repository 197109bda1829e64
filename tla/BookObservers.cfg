SPECIFICATION ObserversSpec
VIEW ObserversView
CONSTANTS
  MaxOrderId = 2
  MaxPrice = 2
  MaxQuantity = 2
  MaxSequence = 2
  MaxTradeId = 2
  Failures = {"levels", "limit", "journal"}
  Snapshots <- MCSnapshots
  DirectCallers = TRUE
  MaxCalledTradeId = 1
  ofi_window_size <- MCWindow
  ObservedSnapshots <- MCObservedSnapshots
  Touched <- MCTouched
  MaxCaptures = 4
  LoadedSnapshots <- MCLoadedSnapshots
  MaxPlaced = 1
  depth_levels = 2
INVARIANTS
  WindowFollowsSnapshots
  OFIInStep
  ImpactIsAdverse
  DepthGoesWithOFI
  DepthIsCurrent
