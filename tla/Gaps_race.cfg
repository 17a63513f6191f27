SPECIFICATION Spec
CONSTANTS
  a = a
  b = b
  e = e
  Calls = {a, b}
  GapIds = {"g", "h"}
  Fields = {"why"}
  Prose = {"p"}
  None = None
  NoFile = NoFile
  Placeholder <- MCPlaceholder
  FirstTexts <- RaceTexts
  Requests <- RaceRequests
  Adversity = {}
  MaxFaults = 0
INVARIANTS GapsAreKept
CHECK_DEADLOCK FALSE
