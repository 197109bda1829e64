CONSTANTS
  Producers = {p1, p2, p3}
  MaxCommands = 3
SPECIFICATION WorkerSpec
INVARIANTS AnswersInQueueOrder ShutdownDrains
PROPERTIES AcceptedAreAnswered ShutdownReturns
