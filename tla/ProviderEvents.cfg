SPECIFICATION FairSpec
CONSTANTS
  w1 = w1
  w2 = w2
  m1 = m1
  Events <- ThreeEvents
  Payments <- OnePayment
  Workers <- TwoWorkers
  Unverified <- JustPayPal
  OtherStatuses <- JustCancelled
  MaxLog = 2
  MaxFaults = 1
CHECK_DEADLOCK FALSE
INVARIANTS
  TypeOK
  AnsweredIsLogged
  MarkedWasHandled
  RepeatsAreDeduplicated
  ConsumedIsSettled
PROPERTIES
  PartitionsDrain
