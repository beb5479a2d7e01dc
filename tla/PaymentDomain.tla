---------------------------- MODULE PaymentDomain ----------------------------
(***************************************************************************)
(* The Payment entity: its statuses, the transitions it allows, and the    *)
(* mark* methods as functions from a version of a payment to the next one. *)
(* A version keeps what the service's decisions depend on: the payment it  *)
(* belongs to (its idempotency key is unique, so one name stands for both  *)
(* the id and the key), its status, the provider order it currently points *)
(* at, and its provider sessions with those whose status is CAPTURED.  A   *)
(* session is the provider order it records and the activation of create   *)
(* that made it: a provider that honours the idempotency key it is sent    *)
(* may answer two creates with one order, and each adds a session.         *)
(***************************************************************************)
EXTENDS Naturals, FiniteSets

CONSTANTS Payments,   \* payments, named by the idempotency key of their creation
          Orders,     \* provider order ids
          Handlers    \* activations of the use cases

ASSUME NamesAssumption == "none" \notin Payments

Statuses == {"pending", "success", "failed", "resolved", "cancelled", "expired"}

AllowedTransitions ==
  [s \in Statuses |->
     CASE s = "pending"  -> {"resolved", "cancelled", "expired", "failed", "success"}
       [] s = "resolved" -> {"failed", "success"}
       [] OTHER          -> {}]

Terminal == {"success", "failed", "cancelled", "expired"}

Sessions == Orders \X Handlers

Version == [id: Payments, status: Statuses, order: Orders,
            sessions: SUBSET Sessions, captured: SUBSET Sessions]

NoVersion == [id |-> "none"]

\* Payment.create followed by addProviderSession and setProviderOrderId.
Created(p, s) == [id |-> p, status |-> "pending", order |-> s[1],
                  sessions |-> {s}, captured |-> {}]

\* Mutant: addProviderSession is forgotten.
WithoutSession(v, s) == [v EXCEPT !.order = s[1]]

\* Mutant: all sessions are made anew.
WithOnlyFreshSessions(v, s) ==
  [v EXCEPT !.order = s[1], !.sessions = @ \cup {s}, !.captured = {}]

\* A further provider session on a payment found by its idempotency key:
\* the status is left as it was found, whatever it is.
WithSession(v, s) == [v EXCEPT !.order = s[1], !.sessions = @ \cup {s}]

\* _transitionTo throws unless the table allows the step.
MayBecome(v, s) == s \in AllowedTransitions[v.status]

Become(v, s) == [v EXCEPT !.status = s]

\* What getSessionByProviderSessionId may find: the first session recorded
\* with order o, if there is one (the rows of a relation come in any order).
Lookup(v, o) ==
  LET found == {s \in v.sessions : s[1] = o}
  IN  IF found = {} THEN {{}} ELSE {{s} : s \in found}

\* Mutant: no look at isTerminalState.
ResolvedFromAny(v, found) ==
  [v EXCEPT !.captured = @ \cup found, !.status = "resolved"]

\* Mutant: the session is looked up by its own id, which is no order id.
ResolvedUncaptured(v, found) ==
  [v EXCEPT !.status = IF v.status \in Terminal THEN @ ELSE "resolved"]

\* The session the look-up found is CAPTURED, then markResolved unless the
\* payment is in a terminal status.
Resolved(v, found) ==
  [v EXCEPT !.captured = @ \cup found,
            !.status   = IF v.status \in Terminal THEN @ ELSE "resolved"]

\* Mutant: the other spelling.
Canceled(v, o) == [Become(v, "canceled") EXCEPT !.order = o]

Cancelled(v, o) == [Become(v, "cancelled") EXCEPT !.order = o]
=============================================================================
