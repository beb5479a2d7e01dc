SPECIFICATION FairSpec
CONSTANTS
  r1 = r1
  r2 = r2
  Requests <- TwoRequests
  Currencies <- DollarsAndRupees
CHECK_DEADLOCK FALSE
INVARIANTS
  TypeOK
  FirstAttemptIsOwn
  MisdirectionNeedsCompany
PROPERTIES
  EveryCreateEnds
