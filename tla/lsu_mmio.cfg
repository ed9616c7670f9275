SPECIFICATION Spec
CONSTANTS
  NumWords = 2
  MmioWords <- LastWord
  Byte <- Bits
  LqSize = 2
  SqSize = 2
  StbSize = 2
  NumAge = 8
  MmioCap = 1
  RobSize = 2
  NumEpoch = 2
  Ops <- MmioOps
  Mispredictions = {FALSE, TRUE}
VIEW LsuView
INVARIANTS StbCoversWrites AnsweredOnce
PROPERTY ImplementsMemory
