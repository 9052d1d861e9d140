SPECIFICATION FairSpec
CONSTANTS
  Records = {r1}
  NoRecord = NoRecord
  NoData = NoData
  MaxChanges = 2
  MaxFailures = 1
  MaxScanChanges = 2
  MaxScans = 2
INVARIANTS
  OneContinuation
  BuffersBalanced
  NewDataNotOlderThanPoll
  StaleAtMostTwice
PROPERTIES
  ReadsComplete
  RecordsCatchUp
