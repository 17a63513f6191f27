SPECIFICATION Spec
CONSTANTS
  a = a
  b = b
  e = e
  Calls = {a}
  Ids <- MCIds
  Keys <- MCKeys
  Fold <- MCFold
  Proposers = {"cogitate"}
  Kinds <- MCKinds
  SchemaKinds <- MCSchemaKinds
  OtherKind = "homemade"
  Statuses = {"proposed", "validated"}
  Tests = {"untested", "tested"}
  Texts = {"v0", "v1"}
  None = None
  Rank <- MCRank
  NoFile = NoFile
  Malformed = Malformed
  Requests <- ClobberRequests
  Notebooks <- OddNotebooks
  Adversity = {"edit"}
  MaxFaults = 1
PROPERTIES CreateNeverReplaces
CHECK_DEADLOCK FALSE
