SPECIFICATION TreeSpec
CONSTANTS
  Register = {"p", "q", "r", "s", "b", "h"}
  Temp = {"t"}
  SizeOf <- Sizes
  Byte = {0, 1}
  Width = 2
  Cells <- TwoCells
  Address = {0, 1, 2, 3, 4, 5}
  AddressOf <- Addresses
  Device = {0, 1, 2, 3}
  SymVar <- Variables
  MaxVersion = 4
  MaxCalls = 2
  NoAddress = none
  NoResult = none
  Configuration <- SpillSetups
  PollingCode <- PollingLoops
CHECK_DEADLOCK FALSE
PROPERTY OnlyTargetSolved
