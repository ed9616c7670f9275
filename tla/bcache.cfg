SPECIFICATION Spec
CONSTANTS
  NumTag = 2
  Index = {i0}
  Way = {w0, w1}
  Words = 2
  Byte = {b0}
  Value = {0, 1}
  Accessed <- ThreeWords
  Depth = 1
  MaxPending = 2
INVARIANT LinesConsistent
PROPERTIES InvalidatedIsGone ImplementsCachedMemory Serves
