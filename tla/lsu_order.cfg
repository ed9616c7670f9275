SPECIFICATION Spec
CONSTANTS
  NumWords = 1
  MmioWords <- NoMmio
  Byte <- Bits
  LqSize = 2
  SqSize = 2
  StbSize = 1
  NumAge = 6
  MmioCap = 1
  RobSize = 3
  NumEpoch = 2
  Ops <- OrderOps
  Mispredictions = {FALSE, TRUE}
VIEW LsuView
INVARIANTS LsuTypeOK RingsFollowRob AnsweredOnce AgesOrdered
PROPERTY ImplementsMemory
