-------------------------- MODULE PaymentLifecycle --------------------------
(***************************************************************************)
(* What the status of a payment promises to the rest of the platform: it   *)
(* is created PENDING and then only follows the transition table of the    *)
(* Payment entity, so that SUCCESS, FAILED, CANCELLED and EXPIRED are      *)
(* final; but for one thing the repository does not rule out, a use case   *)
(* that writes back a version which is no longer the row's.  Such a write  *)
(* still starts from a status the payment once had, and each use case      *)
(* makes at most one.  This is the abstract specification the handlers are *)
(* compared with.                                                          *)
(***************************************************************************)
EXTENDS PaymentDomain

VARIABLES
  status,      \* the status of each payment, "none" before it exists
  past,        \* [Payments -> every status the payment has had]
  overwritten  \* <<payment, activation>>: who wrote it back from an old version

Init ==
  /\ status = [p \in Payments |-> "none"]
  /\ past = [p \in Payments |-> {}]
  /\ overwritten = {}

Set(p, s) ==
  /\ status' = [status EXCEPT ![p] = s]
  /\ past' = [past EXCEPT ![p] = @ \cup {s}]

Create(p) ==
  /\ status[p] = "none"
  /\ Set(p, "pending")
  /\ UNCHANGED overwritten

Transition(p, s) ==
  /\ status[p] \in Statuses
  /\ s \in AllowedTransitions[status[p]]
  /\ Set(p, s)
  /\ UNCHANGED overwritten

\* The writer knew the payment with status t.
Overwrite(p, h, t, s) ==
  /\ <<p, h>> \notin overwritten
  /\ overwritten' = overwritten \cup {<<p, h>>}
  /\ s = t \/ s \in AllowedTransitions[t]
  /\ Set(p, s)

Next ==
  \E p \in Payments :
     \/ Create(p)
     \/ \E s \in Statuses : Transition(p, s)
     \/ \E h \in Handlers, t \in past[p], s \in Statuses : Overwrite(p, h, t, s)

Spec == Init /\ [][Next]_<<status, past, overwritten>>
=============================================================================
