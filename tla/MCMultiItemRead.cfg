SPECIFICATION FairSpec
CONSTANTS
  NumItems = 5
  PDULength = 48
  MaxVars = 20
  Lengths <- MCLengths
  WordItems = {3}
INVARIANTS
  RequestFitsPDU
  ByteRepliesFitPDU
  RequestsAreMaximal
  ItemsMoveForward
PROPERTIES
  ImplementsReadBatch
  Termination
  EveryStepIsProgress
CHECK_DEADLOCK FALSE
