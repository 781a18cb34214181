SPECIFICATION FairSpec
CONSTANTS
  ModuleCount = 2
  Functions = 2
INVARIANT CleanReturnFinalizes
CHECK_DEADLOCK FALSE
