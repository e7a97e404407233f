CONSTANTS
  Runtimes = {r1, r2}
  RecordsAll = {r2}
  MaxIds = 9
  MaxDepth = 2
  TraceOf <- MCTraceOf
  EventId <- CountedIds
  NewCallId <- CountedIds
  EventIds <- MCEventIds
  CallIds <- MCCallIds
  Traces = {t1}
  Numbers <- MCNumbers
  None = None
  Actions = {"act"}
  Effects = {NoEffect, "breach"}
  Rules = {"rule"}
  Forbids <- MCForbids
  ForbidsAfter <- MCForbidsAfter
  NoEffect = NoEffect
  GivenIds = {c1}
  UserEvents <- MCUserEvents
  UserPointers <- MCUserPointers
  r1 = r1
  r2 = r2
  t1 = t1
  c1 = c1
SPECIFICATION Spec
INVARIANTS EffectsRecorded
