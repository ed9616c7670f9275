SPECIFICATION Spec
CONSTANTS
  NumVal = 2
  NumPc = 2
  NumArchReg = 3
  NumPhysReg = 5
  RobSize = 3
  IqSize = 2
  FuSize = 2
  FetchSize = 1
  DirectSize = 4
  NumEpoch = 3
  TrapPc = 0
  Misaligned <- LastPc
  Programs <- AllPrograms
VIEW CoreView
INVARIANTS TypeOK OneHolder NoLeak EpochWindow    KilledIsLive
 
