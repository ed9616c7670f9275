SPECIFICATION FairSpec
CONSTANTS
  NumWords = 2
  MmioWords <- LastWord
  Byte <- Zero
  LqSize = 1
  SqSize = 1
  StbSize = 1
  NumAge = 4
  MmioCap = 1
  RobSize = 2
  NumEpoch = 2
  Ops <- DrainOps
  Mispredictions = {FALSE, TRUE}
\* HeadRetires rules out a stop, and says what stops.
CHECK_DEADLOCK FALSE
PROPERTY HeadRetires
