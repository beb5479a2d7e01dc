SPECIFICATION FairSpec
CONSTANTS
  c1 = c1
  c2 = c2
  c3 = c3
  k1 = k1
  k2 = k2
  Clients <- ThreeClients
  Keys <- TwoKeys
  LapsingKeys <- OneKey
CHECK_DEADLOCK FALSE
INVARIANTS
  TypeOK
  OneAtATime
  RepliesAreGenuine
  LateDuplicatesDoNotRun
PROPERTIES
  LockIsReleased
