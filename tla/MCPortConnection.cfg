SPECIFICATION FairSpec
CONSTANTS
  NumWords = 3
  MaxExchanges = 2
  MaxTroubles = 3
INVARIANTS
  NoForeignAnswer
  ExceptionsAlternate
PROPERTIES
  Recovers
