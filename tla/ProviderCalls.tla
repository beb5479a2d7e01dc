---------------------------- MODULE ProviderCalls -----------------------------
(***************************************************************************)
(* resolve and cancel against the providers that do, or do not, carry them *)
(* out.  resolve captures a PayPal order at PayPal, with the caller's      *)
(* idempotency key as the request id, and checks a Razorpay signature by   *)
(* itself; cancel asks PayPal nothing, and asks Razorpay for a payment     *)
(* under the id of an order; Stripe's strategy has neither operation.  A   *)
(* call that throws is repeated, and its answer may be lost after the      *)
(* provider has acted.  Between the read of the payment and its update     *)
(* another call, or the timeout, may move it.                              *)
(***************************************************************************)
EXTENDS Naturals

CONSTANTS
  Orders,     \* orders at the providers
  Provider,   \* [Orders -> the provider]
  PaymentOf,  \* [Orders -> the payment it is a session of]
  Calls,      \* activations of a use case
  Key,        \* [Calls -> the caller's idempotency key]
  MaxTries    \* attempts at a provider: one, and the retries

Payments == {PaymentOf[o] : o \in Orders}

ASSUME OrdersAssumption ==
  /\ Provider \in [Orders -> {"paypal", "razorpay", "stripe"}]
  /\ Key \in [Calls -> STRING] /\ \A c \in Calls : Key[c] # "none"
  /\ "none" \notin Calls
ASSUME TriesAssumption == MaxTries \in Nat \ {0}

VARIABLES
  \* at the providers
  place,      \* [Orders -> "open", or "approved" or "paid" by the customer]
  captor,     \* [Orders -> the request id PayPal has captured it under, or "none"]
  \* in the service
  status,     \* [Payments -> the status in the row]
  past,       \* [Payments -> statuses the row has had]
  pc,         \* where each call is
  kind,       \* "resolve" or "cancel"
  order,      \* [Calls -> the order it names]
  snap,       \* the status it has read
  tries,      \* attempts that have thrown
  answer,     \* what came of the last attempt
  vouched,    \* orders of which a caller was told isResolved
  \* history variables
  chargedBy,  \* [Orders -> the call that PayPal captured it for, or "none"]
  chargedAt,  \* [Orders -> the status its payment had then]
  disturbed   \* payments of which a call overlapped another or the timeout, read an
              \* outdated Redis entry, or broke off

providerVars == <<place, captor, chargedBy, chargedAt>>
paymentVars  == <<status, past>>
vars == <<providerVars, paymentVars, pc, kind, order, snap, tries, answer, vouched, disturbed>>

Statuses == {"pending", "resolved", "cancelled", "expired"}
Final    == {"cancelled", "expired"}

Active(c) == pc[c] \in {"find", "try", "write"}
Payment(c) == PaymentOf[order[c]]
InProgress(p) == {c \in Calls : Active(c) /\ Payment(c) = p}

IsResolve(c, provider) == kind[c] = "resolve" /\ Provider[order[c]] = provider
IsCancel(c, provider)  == kind[c] = "cancel" /\ Provider[order[c]] = provider

\* Has the customer's money been taken for o?
Paid(o) == captor[o] # "none" \/ place[o] = "paid"

----------------------------------------------------------------------------
Init ==
  /\ place = [o \in Orders |-> "open"]
  /\ captor = [o \in Orders |-> "none"]
  /\ status = [p \in Payments |-> "pending"]
  /\ past = [p \in Payments |-> {"pending"}]
  /\ pc = [c \in Calls |-> "idle"]
  /\ kind = [c \in Calls |-> "none"]
  /\ order = [c \in Calls |-> "none"]
  /\ snap = [c \in Calls |-> "none"]
  /\ tries = [c \in Calls |-> 0]
  /\ answer = [c \in Calls |-> "none"]
  /\ vouched = {}
  /\ chargedBy = [o \in Orders |-> "none"]
  /\ chargedAt = [o \in Orders |-> "none"]
  /\ disturbed = {}

\* The customer approves a PayPal order, or pays a Razorpay order, which is
\* captured at once.
CustomerPays(o) ==
  /\ place[o] = "open"
  /\ place' = [place EXCEPT ![o] = IF Provider[o] = "razorpay" THEN "paid" ELSE "approved"]
  /\ UNCHANGED <<captor, chargedBy, chargedAt, paymentVars, pc, kind, order, snap, tries,
                 answer, vouched, disturbed>>

WriteStatus(p, s) ==
  /\ status' = [status EXCEPT ![p] = s]
  /\ past' = [past EXCEPT ![p] = @ \cup {s}]

\* The timeout use case.
Expire(p) ==
  /\ status[p] = "pending"
  /\ WriteStatus(p, "expired")
  /\ disturbed' = IF InProgress(p) = {} THEN disturbed ELSE disturbed \cup {p}
  /\ UNCHANGED <<providerVars, pc, kind, order, snap, tries, answer, vouched>>

----------------------------------------------------------------------------
(* A call.                                                                 *)

\* The idempotency service lets one call with a key in at a time.  A Razorpay
\* signature is to be had by paying.
Begin(c, kd, o) ==
  /\ pc[c] = "idle"
  /\ \A d \in Calls : Active(d) => Key[d] # Key[c]
  /\ kd = "resolve" /\ Provider[o] = "razorpay" => place[o] = "paid"
  /\ pc' = [pc EXCEPT ![c] = "find"]
  /\ kind' = [kind EXCEPT ![c] = kd]
  /\ order' = [order EXCEPT ![c] = o]
  /\ disturbed' = IF InProgress(PaymentOf[o]) = {} THEN disturbed
                                                   ELSE disturbed \cup {PaymentOf[o]}
  /\ UNCHANGED <<providerVars, paymentVars, snap, tries, answer, vouched>>

\* It returns or throws; what it had in memory is gone.
End(c) ==
  /\ pc' = [pc EXCEPT ![c] = "done"]
  /\ snap' = [snap EXCEPT ![c] = "none"]
  /\ tries' = [tries EXCEPT ![c] = 0]
  /\ answer' = [answer EXCEPT ![c] = "none"]
  /\ UNCHANGED <<kind, order>>

\* Mutant: cancel goes on whatever the status.
FindAnything(c) ==
  /\ pc[c] = "find"
  /\ \E s \in past[Payment(c)] :
        /\ pc' = [pc EXCEPT ![c] = "try"]
        /\ snap' = [snap EXCEPT ![c] = s]
        /\ disturbed' = IF s = status[Payment(c)] THEN disturbed
                                                  ELSE disturbed \cup {Payment(c)}
  /\ UNCHANGED <<providerVars, paymentVars, kind, order, tries, answer, vouched>>

\* The payment is read, from the row or from a Redis entry that may hold any
\* earlier version.  cancel goes on only from PENDING; resolve, from any status.
Find(c) ==
  /\ pc[c] = "find"
  /\ \E s \in past[Payment(c)] :
        /\ kind[c] = "cancel" => s = "pending"
        /\ pc' = [pc EXCEPT ![c] = "try"]
        /\ snap' = [snap EXCEPT ![c] = s]
        /\ disturbed' = IF s = status[Payment(c)] THEN disturbed
                                                  ELSE disturbed \cup {Payment(c)}
  /\ UNCHANGED <<providerVars, paymentVars, kind, order, tries, answer, vouched>>

RefuseCancel(c) ==
  /\ pc[c] = "find" /\ kind[c] = "cancel"
  /\ past[Payment(c)] # {"pending"}
  /\ End(c)
  /\ UNCHANGED <<providerVars, paymentVars, vouched, disturbed>>

----------------------------------------------------------------------------
(* Attempts.                                                               *)

Answered(c, a) ==
  /\ pc' = [pc EXCEPT ![c] = "write"]
  /\ answer' = [answer EXCEPT ![c] = a]
  /\ UNCHANGED <<paymentVars, kind, order, snap, tries, vouched, disturbed>>

\* Mutant: an attempt that throws is not counted.
ThrewUncounted(c, why) ==
  /\ answer' = [answer EXCEPT ![c] = why]
  /\ UNCHANGED <<paymentVars, pc, kind, order, snap, tries, vouched, disturbed>>

\* Mutant: one retry more than there are.
ThrewLate(c, why) ==
  /\ tries' = [tries EXCEPT ![c] = @ + 1]
  /\ answer' = [answer EXCEPT ![c] = why]
  /\ tries[c] < MaxTries
  /\ UNCHANGED <<paymentVars, pc, kind, order, snap, vouched, disturbed>>

\* The attempt throws: again, or the call throws too, which leaves a payment that
\* PayPal has charged for it as it was.
Threw(c, why) ==
  /\ \/ /\ tries[c] + 1 < MaxTries
        /\ tries' = [tries EXCEPT ![c] = @ + 1]
        /\ answer' = [answer EXCEPT ![c] = why]
        /\ UNCHANGED <<pc, kind, order, snap, disturbed>>
     \/ /\ tries[c] + 1 = MaxTries
        /\ End(c)
        /\ disturbed' = IF chargedBy'[order[c]] = c THEN disturbed \cup {Payment(c)}
                                                    ELSE disturbed
  /\ UNCHANGED <<paymentVars, vouched>>

\* Mutant: a retry has a request id of its own.
RequestIdOfAttempt(c) == IF tries[c] = 0 THEN Key[c] ELSE "another"

RequestId(c) == Key[c]

\* PayPal captures an approved order, and its answer arrives or is lost.
Capture(c) ==
  LET o == order[c] IN
  /\ pc[c] = "try" /\ IsResolve(c, "paypal")
  /\ place[o] = "approved" /\ captor[o] = "none"
  /\ captor' = [captor EXCEPT ![o] = RequestId(c)]
  /\ chargedBy' = [chargedBy EXCEPT ![o] = c]
  /\ chargedAt' = [chargedAt EXCEPT ![o] = status[Payment(c)]]
  /\ UNCHANGED place
  /\ Answered(c, "completed") \/ Threw(c, "lost")

\* It repeats its answer to a request it has carried out.
RepeatCapture(c) ==
  /\ pc[c] = "try" /\ IsResolve(c, "paypal")
  /\ captor[order[c]] = RequestId(c)
  /\ Answered(c, "completed")
  /\ UNCHANGED providerVars

\* It refuses an order that is not approved, or that another request captured.
RefuseCapture(c) ==
  /\ pc[c] = "try" /\ IsResolve(c, "paypal")
  /\ \/ place[order[c]] = "open"
     \/ captor[order[c]] \notin {"none", RequestId(c)}
  /\ UNCHANGED providerVars
  /\ Threw(c, "refused")

\* It wants something of the customer first: not an error.
PayerActionRequired(c) ==
  /\ pc[c] = "try" /\ IsResolve(c, "paypal")
  /\ place[order[c]] = "approved" /\ captor[order[c]] = "none"
  /\ Answered(c, "incomplete")
  /\ UNCHANGED providerVars

\* The Razorpay signature is computed here; with another secret it differs.
VerifySignature(c) ==
  /\ pc[c] = "try" /\ IsResolve(c, "razorpay")
  /\ Answered(c, "completed") \/ Answered(c, "incomplete")
  /\ UNCHANGED providerVars

\* PayPal's cancelPayment says success and asks nobody.
CancelUnasked(c) ==
  /\ pc[c] = "try" /\ IsCancel(c, "paypal")
  /\ Answered(c, "cancelled")
  /\ UNCHANGED providerVars

\* A request does not get through; Razorpay knows no payment under an order's
\* id; Stripe's strategy has no such method.
FailAttempt(c) ==
  /\ pc[c] = "try"
  /\ ~IsResolve(c, "razorpay") /\ ~IsCancel(c, "paypal")
  /\ UNCHANGED providerVars
  /\ Threw(c, "lost")

----------------------------------------------------------------------------
(* The update.                                                             *)

\* Mutant: whatever is not a failure is a success.
IsNotFailed(c) == answer[c] # "lost"

\* What mapPayPalStatus and the comparison of signatures make of the answer.
IsVerified(c) == answer[c] = "completed"

\* resolve does not ask isVerified; in a final status it skips markResolved, and
\* writes what it has read.  RESOLVED itself is refused by the transition table.
Resolve(c) ==
  /\ pc[c] = "write" /\ kind[c] = "resolve"
  /\ snap[c] # "resolved"
  /\ WriteStatus(Payment(c), IF snap[c] \in Final THEN snap[c] ELSE "resolved")
  /\ vouched' = IF IsVerified(c) THEN vouched \cup {order[c]} ELSE vouched
  /\ End(c)
  /\ UNCHANGED <<providerVars, disturbed>>

RefuseResolved(c) ==
  /\ pc[c] = "write" /\ kind[c] = "resolve"
  /\ snap[c] = "resolved"
  /\ End(c)
  /\ UNCHANGED <<providerVars, paymentVars, vouched, disturbed>>

Cancel(c) ==
  /\ pc[c] = "write" /\ kind[c] = "cancel"
  /\ WriteStatus(Payment(c), "cancelled")
  /\ End(c)
  /\ UNCHANGED <<providerVars, vouched, disturbed>>

\* A round trip to the database or to Redis fails, or the process dies.
Break(c) ==
  /\ Active(c)
  /\ End(c)
  /\ disturbed' = disturbed \cup {Payment(c)}
  /\ UNCHANGED <<providerVars, paymentVars, vouched>>

Step(c) ==
  \/ Find(c) \/ RefuseCancel(c)
  \/ Capture(c) \/ RepeatCapture(c) \/ RefuseCapture(c) \/ PayerActionRequired(c)
  \/ VerifySignature(c) \/ CancelUnasked(c) \/ FailAttempt(c)
  \/ Resolve(c) \/ RefuseResolved(c) \/ Cancel(c)
  \/ Break(c)

Next ==
  \/ \E o \in Orders : CustomerPays(o)
  \/ \E p \in Payments : Expire(p)
  \/ \E c \in Calls :
        \/ Step(c)
        \/ \E kd \in {"resolve", "cancel"}, o \in Orders : Begin(c, kd, o)

Spec == Init /\ [][Next]_vars

\* An attempt is answered or throws, if only at the time limit of the retry.
FairSpec == Spec /\ \A c \in Calls : WF_vars(Step(c))

----------------------------------------------------------------------------
(* Properties.                                                             *)

TypeOK ==
  /\ place \in [Orders -> {"open", "approved", "paid"}]
  /\ captor \in [Orders -> STRING \cup {"none"}]
  /\ status \in [Payments -> Statuses]
  /\ past \in [Payments -> SUBSET Statuses]
  /\ pc \in [Calls -> {"idle", "find", "try", "write", "done"}]
  /\ kind \in [Calls -> {"none", "resolve", "cancel"}]
  /\ order \in [Calls -> Orders \cup {"none"}]
  /\ snap \in [Calls -> Statuses \cup {"none"}]
  /\ tries \in [Calls -> 0..MaxTries - 1]
  /\ answer \in [Calls -> {"none", "lost", "refused", "completed", "incomplete", "cancelled"}]
  /\ vouched \subseteq Orders
  /\ chargedBy \in [Orders -> Calls \cup {"none"}]
  /\ chargedAt \in [Orders -> Statuses \cup {"none"}]
  /\ disturbed \subseteq Payments

\* isResolved in the reply is never said of an order that is not paid.
VouchedIsPaid == \A o \in vouched : Paid(o)

\* PayPal does not refuse a resolve for a capture that an attempt of its own, or an
\* earlier call with its idempotency key, got done: a lost answer is made good by
\* the retry.
OwnCaptureIsRepeated ==
  \A c \in Calls : answer[c] = "refused" =>
     LET first == chargedBy[order[c]] IN first = "none" \/ Key[first] # Key[c]

\* A customer who is charged while the payment is PENDING has it RESOLVED, unless
\* calls or the timeout overlapped, one broke off or was served an old Redis entry.
ChargedIsResolved ==
  \A o \in Orders :
     LET p == PaymentOf[o] IN
     chargedAt[o] = "pending" /\ InProgress(p) = {} /\ p \notin disturbed
       => status[p] = "resolved"

\* Every call comes to an end, also one that asks a provider what it has not got.
CallsEnd == \A c \in Calls : Active(c) ~> pc[c] = "done"

\* "Handle payment resolution and verification": RESOLVED means that the provider
\* has confirmed the money, as the reply's isResolved does.
ResolvedIsPaid ==
  \A p \in Payments : status[p] = "resolved" => \E o \in Orders : PaymentOf[o] = p /\ Paid(o)
===============================================================================
