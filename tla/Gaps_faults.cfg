SPECIFICATION Spec
CONSTANTS
  a = a
  b = b
  e = e
  Calls = {a, b, e}
  GapIds = {"g", "h"}
  Fields = {"why"}
  Prose = {"p"}
  None = None
  NoFile = NoFile
  Placeholder <- MCPlaceholder
  FirstTexts <- AllTexts
  Requests <- FaultRequests
  Adversity = {"io_error", "crash"}
  MaxFaults = 2
INVARIANTS NoDuplicateGaps MutexIsGivenBack
SYMMETRY Symmetric
CHECK_DEADLOCK FALSE
