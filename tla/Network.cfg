SPECIFICATION NetworkSpec
CONSTANTS
  ConnectDelay = 1
  AddressDelay = 2
  ScanDelay = 1
  MaxTime = 2
  MaxCalls = 3
  Handles = {1, 2}
  None = None
  Options <- MCOptions
  Budgets = {1}
  Types = {"http", "evse"}
  Http = "http"
  Ports = {80, 3232}
  OtaPort = 3232
  Keys = {"service"}
  Hosts = {"x"}
  Nothing = Nothing
  MaxAdverts = 2
  MaxMocks = 1
  MaxReports = 2
  Blank = Blank
  KeyOrder <- MCKeyOrder
  Preset <- MCPreset
  Mocked <- MCMocked
  Limit = 4
  MaxRows = 4
  Lists = {1, 2}
  Services <- MCServices
  MaxFound = 2
  Null = Null
  Garbage = Garbage
CHECK_DEADLOCK FALSE
INVARIANTS  GotAddressWhileConnected ScanAnswersRequest  
PROPERTIES QueueDrains 
