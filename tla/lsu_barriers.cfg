SPECIFICATION FairSpec
CONSTANTS
  NumWords = 1
  MmioWords <- NoMmio
  Byte <- Zero
  LqSize = 1
  SqSize = 1
  StbSize = 1
  NumAge = 4
  MmioCap = 1
  RobSize = 2
  NumEpoch = 2
  Ops <- BarrierOps
  Mispredictions = {FALSE, TRUE}
CHECK_DEADLOCK FALSE
PROPERTY BarriersComplete
