SPECIFICATION FairSpec
CONSTANTS
  Wired <- MCWired
  Sticks <- MCSticks
  Limits <- MCLimits
  MinX = 8
  MaxX = 10
  StartX = 9
  MinY = 8
  MaxY = 9
  StartY = 9
INVARIANTS TouchHeld KeysFollow
PROPERTIES CursorModeQuiet CursorFollows LoopEnds
CHECK_DEADLOCK FALSE
