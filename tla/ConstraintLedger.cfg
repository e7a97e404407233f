CONSTANTS
  Ids = {c1, c2, c3}
  NoId = NoId
SPECIFICATION Spec
INVARIANTS LineageInv HistoryComplete NoConflictCycle
PROPERTIES HistoryKept
