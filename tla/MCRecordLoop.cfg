SPECIFICATION LoopSpec
CONSTANTS
  ByteBits = 2
  MaxStringSize = 3
  Outputs <- MCOutputs
  Values <- MCValues
  Contents <- MCContents
INVARIANTS WrittenValueIsShown StartsWithValueOfPlc ArraysShowTheNumbersOfThePlc
PROPERTIES RestartIsBumpless
