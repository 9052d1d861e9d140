SPECIFICATION Spec
CONSTANTS
  MemoryBits <- MCMemoryBits
  Transfers <- Unaligned
INVARIANTS
  ExactlyTheArrayIsWritten
