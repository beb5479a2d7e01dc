SPECIFICATION FairSpec
CONSTANTS
  m1 = m1
  m2 = m2
  s1 = s1
  s2 = s2
  Payments <- TwoPayments
  Hopeless <- OneHopeless
  Sweepers <- TwoSweepers
  BatchSize = 2
  Second = 2
  Lifetime = 3
  MaxTime = 6
  MaxCreates = 2
  MaxCrashes = 1
CHECK_DEADLOCK FALSE
INVARIANTS
  TypeOK
  NeverEarly
  KeyIsOnTime
  PendingIsTimed
PROPERTIES
  OverdueIsDealtWith
