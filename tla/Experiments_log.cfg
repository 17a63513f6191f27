SPECIFICATION Spec
CONSTANTS
  a = a
  b = b
  e = e
  Calls = {a, b, e}
  Pids = {"foo", "bar"}
  Times <- MCTimes
  Second <- MCSecond
  Spellings <- MCSpellings
  Writable <- MCWritable
  Readable <- MCReadable
  Utc <- MCUtc
  Bodies = {"x", "y"}
  None = None
  Garbled = Garbled
  FirstRuns <- LogRuns
  Requests <- LogRequests
  Adversity = {"io_error", "crash"}
  MaxFaults = 1
INVARIANTS TypeOK RecordsLieWhereTheySay ReadAnswersTheRunAsked ListingIsComplete
PROPERTIES ImplementsExperimentLog LegacyIsNeverWritten
SYMMETRY Symmetric
CHECK_DEADLOCK FALSE
