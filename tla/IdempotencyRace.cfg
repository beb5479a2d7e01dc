SPECIFICATION Spec
CONSTANTS
  c1 = c1
  c2 = c2
  c3 = c3
  k1 = k1
  k2 = k2
  Clients <- ThreeClients
  Keys <- OneKey
  LapsingKeys <- NoKey
SYMMETRY Interchangeable
CHECK_DEADLOCK FALSE
PROPERTIES
  DuplicatesHaveNoEffect
