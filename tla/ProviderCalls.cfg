SPECIFICATION FairSpec
CONSTANTS
  o1 = o1
  o2 = o2
  c1 = c1
  c2 = c2
  c3 = c3
  m1 = m1
  Orders <- TwoOrders
  Provider <- PayPalAndRazorpay
  PaymentOf <- OnePayment
  Calls <- ThreeCalls
  Key <- TwoKeys
  MaxTries = 2
CHECK_DEADLOCK FALSE
INVARIANTS
  TypeOK
  VouchedIsPaid
  OwnCaptureIsRepeated
  ChargedIsResolved
PROPERTIES
  CallsEnd
