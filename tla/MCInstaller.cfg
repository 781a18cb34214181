SPECIFICATION FairInstallSpec
CONSTANTS
  Libraries <- MCLibraries
  MaxFaults = 4
INVARIANT LaunchedWhole
PROPERTY RetryHeals
