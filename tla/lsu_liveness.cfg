SPECIFICATION FairSpec
CONSTANTS
  NumWords = 2
  MmioWords <- LastWord
  Byte <- Zero
  LqSize = 3
  SqSize = 1
  StbSize = 1
  NumAge = 6
  MmioCap = 2
  RobSize = 3
  NumEpoch = 2
  Ops <- ReadOps
  Mispredictions = {FALSE}
\* HeadRetires rules out a stop, and says what stops.
CHECK_DEADLOCK FALSE
PROPERTY HeadRetires
