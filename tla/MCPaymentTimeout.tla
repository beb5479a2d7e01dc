--------------------------- MODULE MCPaymentTimeout ---------------------------
(***************************************************************************)
(* PaymentTimeout on a small instance: two payments, of which one can      *)
(* never be expired and stays at the head of a batch of two; two ticks     *)
(* that may overlap; a lifetime of three units, a second and a half.       *)
(***************************************************************************)
EXTENDS PaymentTimeout

CONSTANTS m1, m2, s1, s2

TwoPayments == {m1, m2}
OneHopeless == {m2}
TwoSweepers == {s1, s2}
===============================================================================
