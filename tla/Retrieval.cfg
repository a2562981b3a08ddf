SPECIFICATION Spec
SYMMETRY Symmetry
CONSTANTS
  MaxDocuments = 2
  Contents = {a, b}
  Chunks = {k1, k2}
  TopK = 2
  MaxFaults = 2
  Callers = {c1, c2}
  CacheSize = 1
  Ttl = 1
  MaxRetrievals = 2
  MaxContext = 2
  MaxLookups = 3
  MaxTime = 1
INVARIANTS TypeOK StoresAgree IndexedIsComplete DeletedMeansGone SearchIsConsistent SpendingIsExact AnswersAreRecent
CHECK_DEADLOCK FALSE
