SPECIFICATION Spec
CONSTANTS
  ModuleCount = 4
  Name = {n1}
  Profiles <- MCProfiles
  MaxRecords = 1
INVARIANTS NoForeignAbi ImportsAgree CensusPredicts
CHECK_DEADLOCK FALSE
