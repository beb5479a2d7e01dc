---------------------------- MODULE MCProviderCalls ---------------------------
(***************************************************************************)
(* ProviderCalls on a small instance: one payment with a PayPal and a      *)
(* Razorpay session, three calls of which two share an idempotency key,    *)
(* and two attempts at a provider.                                         *)
(***************************************************************************)
EXTENDS ProviderCalls, TLC

CONSTANTS o1, o2, c1, c2, c3, m1

TwoOrders == {o1, o2}
PayPalAndRazorpay == o1 :> "paypal" @@ o2 :> "razorpay"
OnePayment == [o \in TwoOrders |-> m1]
ThreeCalls == {c1, c2, c3}
TwoKeys == c1 :> "k1" @@ c2 :> "k1" @@ c3 :> "k2"
===============================================================================
