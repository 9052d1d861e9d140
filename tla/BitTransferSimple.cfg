SPECIFICATION Spec
CONSTANTS
  MemoryBits <- MCMemoryBits
  Transfers <- Simple
INVARIANTS
  OnlyTheArrayChanges
  BitsAreWritten
  ReadsWhatWasWritten
