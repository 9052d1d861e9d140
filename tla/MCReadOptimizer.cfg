SPECIFICATION FairSpec
CONSTANTS
  NumItems = 4
  Starts <- MCStarts
  Lengths <- MCLengths
  MaxPayload = 16
INVARIANTS
  EveryItemInOnePlace
  BlocksFitPayload
  ListIsJoined
  EveryItemGetsItsBytes
PROPERTIES
  OptimizerEnds
