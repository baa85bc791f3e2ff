CONSTANTS
  Environments <- TestEnvironments
  Arguments <- TestArguments
  MaxArguments = 3
  AppData <- TestAppData
  Interfaces <- TestInterfaces
  HostVersions <- TestVersions
  MaxChanges = 2
  Contents <- TestContents
  Schema <- TestSchema
  Numbers <- TestNumbers
  NoText = "none"
  Rejected <- TestRejected
  MaxLoads = 2
  MaxWrites = 1
SPECIFICATION Spec
INVARIANTS TypeOK  OneInstance HighestContextWins
PROPERTIES  FixedWithoutRestart
CHECK_DEADLOCK FALSE
