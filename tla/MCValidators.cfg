SPECIFICATION Spec
CONSTANTS
  KbFiles <- MCKbFiles
  Methods <- MCMethods
  ServerOnly = {"Lock"}
  ClientOnly = {"Ask"}
  Databases = {"v1", "v2"}
  Availability <- MCAvailability
  Modes = {"misspelt"}
  SchemaSets <- MCSchemaSets
  Codes <- MCCodes
  Keywords = {"If"}
  KbGiven = TRUE
  BslGiven = TRUE
  MaxCalls = 2
INVARIANTS GateIsSound BadFileDisablesItself NothingLeftBehind OneDatabaseOnceSettled
PROPERTIES ValidationReturns ImplementsGate
