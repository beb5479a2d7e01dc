SPECIFICATION SameKeySpec
CONSTANTS
  l1 = l1
  l2 = l2
  order = order
  rate = rate
  Lookups <- TwoLookups
  Keys <- OrderAndRate
  Kind <- KindOfEach
  Ttl <- TtlOfEach
  FetchLimit = 1
  CallLimit = 2
  Lag = 1
  MaxTries = 2
  MaxTime = 11
CHECK_DEADLOCK FALSE
INVARIANTS
  TypeOK
  FallbackIsNotStale
  ServedIsRecent
PROPERTIES
  CallersEnd
