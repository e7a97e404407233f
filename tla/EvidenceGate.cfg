CONSTANTS
  x = x
  y = y
  k1 = k1
  k2 = k2
  s1 = s1
  s2 = s2
  tool = tool
  pytest = pytest
  make = make
  file = file
  Odd = Odd
  None = None
  EventIds <- MCEventIds
  Traces = {x, y}
  CallIds = {k1, k2}
  Numbers <- MCNumbers
  Sessions = {s1, s2}
  Tools = {tool}
  Commands = {pytest, make}
  Paths = {file}
  ExitCodes = {0, 1}
  PytestNames = {pytest}
  Payload <- MCPayload
  Candidates <- MCCandidates
  MaxEvents = 4
  ClaimIds = {"q1", "q2"}
  Claims <- MCClaims
SPECIFICATION Spec
INVARIANTS GraphExact DecidedByOne StrongerWins VerifiedAsReported
PROPERTIES NeverFlips LastObservationDecides UndecidedForAReason
