SPECIFICATION FairServerSpec
CONSTANTS
  a = a
  b = b
  e = e
  r = r
  Calls = {a, b, e}
  Polls = {r}
  Names <- MCNames
  Tool <- MCTool
  None = None
  Settings <- MCSettings
  Lowered <- MCLowered
  Envs <- MCEnvs
  Threads = 2
  Failures = {"PermissionError"}
  MaxJobs = 1
  MaxCancels = 1
INVARIANTS ServerTypeOK HolderNamesTheWriter HolderShownIsCurrent OwnerHasAThread NothingWrittenBeyondScope ListedIsCallable
PROPERTIES ImplementsSingleWriter EveryCallAnswered StatusNeverBlocks
CHECK_DEADLOCK FALSE
