SPECIFICATION TextSpec
CONSTANTS
  Parts = {"script"}
  Width = 8
  Bases = {1, 2, 3, 10, 16, 36, 258}
  Lines <- MCLines
  Readings <- MCReadings
  Ends <- MCEnds
  Draws = {0, 1, 2, 3, 4, 5, 6, 7, 8, 9}
  Addresses <- MCAddresses
  AddressTexts <- MCAddressTexts
  Scripts <- MCScripts
  Step = 2
  MaxTime = 14
  Inputs <- MCInputs
  Targets <- MCTargets
  Lengths = {0, 2}
  Timeout = 1
  MaxCalls = 2
  Names = {1, 2}
  Edited = {1}
  Alphabet <- MCAlphabet
  Texts <- MCTexts
  Pairs <- MCPairs
  MaxLen = 3
  MaxSent = 3
  MaxTaken = 3
  Prints <- MCPrints
CHECK_DEADLOCK FALSE
INVARIANT WaitsHold
