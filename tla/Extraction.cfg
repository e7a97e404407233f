CONSTANTS
  t1 = t1
  t2 = t2
  blank = blank
  b1 = b1
  b2 = b2
  trace = trace
  None = None
  Texts <- MCTexts
  Blank = blank
  Bodies = {b1, b2}
  Patterns <- MCPatterns
  Candidates <- MCCandidates
  Responses <- MCResponses
  Traces = {trace}
  MaxDeaths = 1
SPECIFICATION Spec
INVARIANTS CandidatesAccounted AuthorityKept AskedOncePerPrompt
PROPERTIES RegistersExtract
