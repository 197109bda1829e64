SPECIFICATION Spec
CONSTANTS
  heartbeat_interval = 5
  pong_timeout = 10
  initial_delay_seconds = 1
  maximum_delay_seconds = 10
  MaxLate = 1
  MaxRetries = 5
INVARIANTS
  OneOperationEach
  SilenceIsNoticed
  ClosingIsDecided
  ShutdownIsPrompt
  BackoffDoubles
PROPERTIES
  NoHastyTimeout
  ShutdownEnds
  LostConnectionIsReplaced
