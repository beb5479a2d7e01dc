-------------------------- MODULE MCStrategyDispatch --------------------------
(***************************************************************************)
(* StrategyDispatch on small sets: two creates, priced in rupees, which    *)
(* only Razorpay takes, or in dollars, which all take.                     *)
(***************************************************************************)
EXTENDS StrategyDispatch

CONSTANTS r1, r2

TwoRequests == {r1, r2}

DollarsAndRupees == {"USD", "INR"}
===============================================================================
