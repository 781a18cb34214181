SPECIFICATION Spec
CONSTANTS
  ModuleCount = 1
  Name = {n1}
  Profiles <- MCProfiles
  MaxRecords = 1
INVARIANT AskedIsThunked
CHECK_DEADLOCK FALSE
