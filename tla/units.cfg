SPECIFICATION MCSpec
CONSTANTS
  Contexts = {k, u}
  MaxAllocs = 5
  NumArchReg = 3
  NumPhysReg = 6
  Masks = {1, 2, 3, 4, 5, 6, 7, 8}
  Matrices = {1, 2, 3, 4, 5, 6}
INVARIANTS ContextsKept AllocatorsConsistent ComputationsCorrect
PROPERTIES ResumesUser EcallsReturn CallsReturn ImplementsPageStack ImplementsStack
