SPECIFICATION Spec
CONSTANTS
  NumItems = 2
  PDULength = 48
  MaxVars = 20
  Lengths <- MCLengths
  WordItems = {2}
INVARIANTS
  ReplyFitsPDU
CHECK_DEADLOCK FALSE
