SPECIFICATION BridgeSpec
CONSTANTS
  Thread = {t1, t2}
  Caller = {t1, t2}
  t1 = t1
  t2 = t2
  Text <- MCText
  Held <- MCHeld
  Capacity <- MCCapacity
  ListName = "list"
  Asked <- MCAsked
  Paths <- MCPaths
  Archive <- MCArchive
  Size <- MCSize
  MaxCalls = 4
SYMMETRY Symmetric
INVARIANTS SoloIdKept OverrunOnlyByRace AloneListsExactly
CHECK_DEADLOCK FALSE
