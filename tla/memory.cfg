SPECIFICATION MCSpec
VIEW view
CONSTANTS
  PageSize = 16
  Fanout = 2
  UsizeMod = 65536
  KernelEnd = 40
  MemoryEnd = 168
  Virts <- MCVirts
  Sizes <- MCSizes
  Perms <- MCPerms
  Device = 1
  MaxTables = 2
  MaxHeld = 1
  Word = 2
  IsizeMax = 31
  MaxGiven = 38
  Layouts <- MCLayouts
  Starts <- MCStarts
  Extends <- MCExtends
INVARIANTS PagesPartitioned HeapConsistent
PROPERTIES ImplementsMaps ImplementsBlocks
