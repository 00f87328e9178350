CONSTANTS
  MaxProcs = 4
  Quantum = 3
SPECIFICATION FairSched
INVARIANTS
  SchedTypeOK
  QueueIsReadySet
  CurrentHeadsQueue
  NullOnlyWhenIdle
  ReadyIsResumable
  StartsWithFullQuantum
PROPERTIES
  ReadyRunsOnceExitsCease
