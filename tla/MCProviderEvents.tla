--------------------------- MODULE MCProviderEvents ---------------------------
(***************************************************************************)
(* ProviderEvents on a small instance: one payment with a Razorpay and a   *)
(* PayPal session: two Razorpay events with opposite outcomes in one       *)
(* partition, and a PayPal capture, whose id names no order, in another;   *)
(* two consumers.                                                          *)
(***************************************************************************)
EXTENDS ProviderEvents

CONSTANTS w1, w2, m1

TwoWorkers == {w1, w2}
OnePayment == {m1}

Ev(id, provider, type, payment) ==
  [id |-> id, provider |-> provider, type |-> type, payment |-> payment]

ThreeEvents == {Ev("a", "razorpay", "payment.captured", m1),
                Ev("b", "razorpay", "payment.failed", m1),
                Ev("c", "paypal", "PAYMENT.CAPTURE.COMPLETED", m1)}

JustCancelled == {"cancelled"}

JustPayPal == {"paypal"}
===============================================================================
