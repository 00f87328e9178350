CONSTANTS
  MaxProcs = 4
  Quantum = 1
  MaxMail = 2
SPECIFICATION Spec
INVARIANTS
  TypeOK
  NoLostWakeup
  SenderIsRegistered
  NoMutualWait
  ShellHasChild
VIEW
  View
