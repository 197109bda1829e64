\* Three consumers, so that a notification may reach any; more values than
\* consumers.
CONSTANTS
  Producers = {p1, p2}
  Consumers = {c1, c2, c3}
  Closers = {k1}
  MaxPushes = 4
SPECIFICATION ClientsSpec
INVARIANTS NoLostWakeup EndIsFinal
PROPERTY ConsumersProgress
