CONSTANTS
  MaxProcs = 4
  Quantum = 1
  MaxMail = 1
SPECIFICATION Spec
PROPERTIES
  ReplyIsFromReceiver
