SPECIFICATION FairSpec
CONSTANTS
  a = a
  b = b
  e = e
  Calls = {a, b}
  Ids <- MCIds
  Keys <- MCKeys
  Fold <- MCFold
  Proposers = {"cogitate"}
  Kinds <- MCKinds
  SchemaKinds <- MCSchemaKinds
  OtherKind = "homemade"
  Statuses = {"proposed", "validated"}
  Tests = {"untested", "tested"}
  Texts = {"v0", "v1"}
  None = None
  Rank <- MCRank
  NoFile = NoFile
  Malformed = Malformed
  Requests <- OddRequests
  Notebooks <- OddNotebooks
  Adversity = {"edit", "io_error"}
  MaxFaults = 2
INVARIANTS ListMissesNothing
PROPERTIES DuplicatesAreFrozen EveryCallAnswered
CHECK_DEADLOCK FALSE
