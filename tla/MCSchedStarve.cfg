CONSTANTS
  MaxProcs = 4
  Quantum = 2
SPECIFICATION FairSched
PROPERTIES
  EveryReadyRuns
