SPECIFICATION Spec
CONSTANTS
  PageCount = 3
  SegmentCount = 3
  Protections <- MCProtections
INVARIANTS NothingLeft RightsExact
PROPERTY WritesAllowed
CHECK_DEADLOCK FALSE
