SPECIFICATION Spec
CONSTANTS
  p1 = p1
  p2 = p2
  o1 = o1
  o2 = o2
  h1 = h1
  h2 = h2
  h3 = h3
  h4 = h4
  Payments <- OnePayment
  Orders <- TwoOrders
  Handlers <- Four
  Kinds <- EveryKind
  Serial = TRUE
  StaleReads = TRUE
SYMMETRY Interchangeable
CHECK_DEADLOCK FALSE
PROPERTIES
  TerminalIsFinal
