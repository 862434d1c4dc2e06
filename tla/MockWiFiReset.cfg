SPECIFICATION Spec
CONSTANTS
  ConnectDelay = 1
  AddressDelay = 2
  ScanDelay = 1
  MaxTime = 2
  MaxCalls = 3
PROPERTY ResetRestoresDefaults
