-------------------------- MODULE MCPaymentHandlers --------------------------
(***************************************************************************)
(* PaymentHandlers on small sets.  Activations, payments and provider      *)
(* orders are interchangeable.  The bound on a behaviour is the number of  *)
(* activations, each of which runs one use case once.                      *)
(***************************************************************************)
EXTENDS PaymentHandlers, TLC

CONSTANTS p1, p2, o1, o2, h1, h2, h3, h4

OnePayment  == {p1}
TwoPayments == {p1, p2}
TwoOrders   == {o1, o2}
Three       == {h1, h2, h3}
Four        == {h1, h2, h3, h4}

Interchangeable == Permutations(Handlers) \cup Permutations(Orders) \cup Permutations(Payments)

EveryKind   == AllKinds
=============================================================================
