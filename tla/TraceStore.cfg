CONSTANTS
  EventIds = {e1, e2, e3, e4}
  Traces = {t1, t2}
  CallIds = {c1, c2}
  Numbers = {0, 1, 2}
  None = None
SPECIFICATION StoreSpec
SYMMETRY TraceSymmetry
INVARIANTS LogsOK IndexesAgree ReplayAccepted
PROPERTIES ImplementsToolCalls
