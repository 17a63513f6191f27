SPECIFICATION Spec
CONSTANTS
  a = a
  b = b
  e = e
  Calls = {a, b}
  GapIds = {"g", "h"}
  Fields = {"why"}
  Prose = {"p"}
  None = None
  NoFile = NoFile
  Placeholder <- MCPlaceholder
  FirstTexts <- AllTexts
  Requests <- GapRequests
  Adversity = {}
  MaxFaults = 0
INVARIANTS ListIsWhole
CHECK_DEADLOCK FALSE
