SPECIFICATION Spec
CONSTANTS
  a = a
  b = b
  e = e
  Calls = {a, b, e}
  Ids <- MCIds
  Keys <- MCKeys
  Fold <- MCFold
  Proposers = {"cogitate"}
  Kinds <- MCKinds
  SchemaKinds <- MCSchemaKinds
  OtherKind = "homemade"
  Statuses = {"proposed", "validated"}
  Tests = {"untested", "tested"}
  Texts = {"v0", "v1"}
  None = None
  Rank <- MCRank
  NoFile = NoFile
  Malformed = Malformed
  Requests <- CoreRequests
  Notebooks <- CoreNotebooks
  Adversity = {"io_error", "crash"}
  MaxFaults = 1
INVARIANTS TypeOK UniqueIds RoutedByKind OneCreateWins NeverAmbiguous NotFoundIsHonest ReadReturnsTheIdAsked
PROPERTIES LeftoversNeverLand OldSideFirst CreateNeverReplaces ImplementsStore
CHECK_DEADLOCK FALSE
SYMMETRY Symmetric
