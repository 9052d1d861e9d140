SPECIFICATION FairSpec
CONSTANTS
  Records = {r1}
  NoRecord = NoRecord
  NoData = NoData
  MaxPuts = 3
  MaxFailures = 2
  MaxLock = 1
INVARIANTS
  OneContinuation
  BuffersBalanced
  QuietRecordIsWritten
PROPERTIES
  ImplementsAsyncWrite
  LastPutReachesPlc
