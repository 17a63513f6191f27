SPECIFICATION Spec
CONSTANTS
  a = a
  b = b
  e = e
  Calls = {a}
  Ids <- MCIds
  Keys <- MCKeys
  Fold <- MCFold
  Proposers = {"cogitate"}
  Kinds <- MCKinds
  SchemaKinds <- MCSchemaKinds
  OtherKind = "homemade"
  Statuses = {"proposed", "validated"}
  Tests = {"untested", "tested"}
  Texts = {"v0", "v1"}
  None = None
  Rank <- MCRank
  NoFile = NoFile
  Malformed = Malformed
  Requests <- SelfLinkRequests
  Notebooks <- OddNotebooks
  Adversity = {}
  MaxFaults = 1
INVARIANTS NoSelfLink
CHECK_DEADLOCK FALSE
