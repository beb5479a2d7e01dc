---------------------------- MODULE MCCachedLookups ---------------------------
(***************************************************************************)
(* CachedLookups on a small instance: two lookups at a time, each as often *)
(* as the clock allows, both of one order or both of one rate: lookups of  *)
(* different things share nothing.                                         *)
(***************************************************************************)
EXTENDS CachedLookups, TLC

CONSTANTS l1, l2, order, rate

TwoLookups == {l1, l2}
OrderAndRate == {order, rate}
KindOfEach == order :> "order" @@ rate :> "rate"
TtlOfEach == order :> 3 @@ rate :> 5

SameKeyInit == Init /\ \A l, m \in Lookups : key[l] = key[m]

SameKeySpec == SameKeyInit /\ [][Next]_vars /\ Fairness
===============================================================================
