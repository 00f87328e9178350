CONSTANTS
  MaxProcs = 6
  Quantum = 2
  MaxMail = 3
SPECIFICATION RpcSpec
INVARIANTS
  WaitingIsBlocked
  ReceiveSucceeds
PROPERTIES
  ImplementsRpc
