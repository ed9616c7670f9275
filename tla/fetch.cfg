SPECIFICATION FairSpec
CONSTANTS
  NumPc = 2
  NumEpoch = 2
  CacheCap = 2
INVARIANTS FetchTypeOK WordsPaired
PROPERTIES ImplementsStream Delivers
