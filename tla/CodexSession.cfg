CONSTANTS
  b1 = b1
  b2 = b2
  p1 = p1
  p2 = p2
  a1 = a1
  a2 = a2
  s1 = s1
  s2 = s2
  d1 = d1
  Sids = {s1}
  Prompts = {p1, p2}
  Actions = {a1, a2}
  Calls = {t1}
  Procs = {h1, h2, h3}
  Dirs = {d1}
  Bodies = {b1, b2}
  FsBodies = {b1}
  OpaqueActions = {a2}
  NoArg = NoArg
  NoProc = NoProc
  Missing = Missing
  Extract <- MCExtract
  Prohibits <- MCProhibits
  DirOf <- MCDirOf
  KillPoints <- Running
  FailPoints <- Saving
SPECIFICATION Spec
SYMMETRY HookSymmetry
INVARIANTS LockExclusive AnswerDurable AllowRespectsPrompts CallsPaired
PROPERTIES NothingLost IncompleteDenies
