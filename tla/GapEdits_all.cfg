SPECIFICATION Spec
CONSTANTS
  GapIds = {"g", "h"}
  Fields = {"why"}
  Prose = {"p", "q"}
  None = None
  Texts <- MCTexts
  MaxInitial = 5
  MaxLines = 9
INVARIANTS ParseFindsEveryHeader AppendAddsOne RemoveDropsOne
CHECK_DEADLOCK FALSE
