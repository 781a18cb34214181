SPECIFICATION FairSpec
CONSTANTS
  PlayerBuffer = 3
  Rates <- MCRates
  Lengths <- MCLengths
  Counts <- MCCounts
  MaxRate = 1
  MinLength = 1
  MaxLength = 2
  MaxCount = 1
  FrameBytes = 1
INVARIANT QueueBounded
PROPERTIES CallbackOfPlayer PlayerFed
CHECK_DEADLOCK FALSE
