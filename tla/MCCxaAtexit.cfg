CONSTANTS
  Thread = {t1, t2}
  MaxCalls = 4
  Dso = {d1, d2}
  Capacity = 2
  NoDso = NoDso
  NoObject = NoObject
  Nobody = Nobody
SPECIFICATION FairSpec
INVARIANTS
  AtMostOnce
  NoLostRegistration
  SweepComplete
PROPERTIES
  FinalizeReturns
