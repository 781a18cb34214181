SPECIFICATION FairDisplaySpec
CONSTANTS
  ModuleCount = 5
  Functions = 2
  HostsHoldDriver = TRUE
  Width = 640
  Height = 480
  Axis <- MCAxis
  GuestBoxes <- MCGuestBoxes
  GuestCalls = {"player"}
  MaxFrames = 2
INVARIANTS GuestKeepsItsCode FinalizersMirror NothingHeld ZeroMeansPassed
           ThunksLive ClosedInOrder OverlayHarmless
PROPERTY Terminates
CHECK_DEADLOCK FALSE
