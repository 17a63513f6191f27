SPECIFICATION Spec
CONSTANTS
  a = a
  b = b
  e = e
  r = r
  s = s
  Calls = {a, b, e}
  Polls = {r, s}
  Names = {"add_gap", "remove_gap"}
  Tool <- MCTool
  None = None
INVARIANTS LockedHasHolder
CHECK_DEADLOCK FALSE
