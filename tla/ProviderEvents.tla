---------------------------- MODULE ProviderEvents ----------------------------
(***************************************************************************)
(* The way of a provider's event: the webhook endpoint, the Kafka topic    *)
(* with one partition per provider (the message key), the consumers of the *)
(* group, and PaymentEventConsumer.handle, which looks the event up in     *)
(* Redis, runs the success or the failure use case, and marks it there.    *)
(* A provider repeats an event it was not answered 2xx for, and a produce  *)
(* may have worked although it throws, so the log holds copies.  A         *)
(* partition may be moved to another consumer while the old one is busy    *)
(* (and goes on), a consumer may die, and the new one starts at the        *)
(* committed offset.  What a use case throws the handler logs, and the     *)
(* message counts as consumed; an exception of the look-up or of the       *)
(* marking leaves the controller, and the message is delivered again.      *)
(***************************************************************************)
EXTENDS Naturals, Sequences, FiniteSets

CONSTANTS
  Events,         \* events, as [id, provider, type, payment] records
  Payments,       \* the payments they are about
  Workers,        \* consumers of the group
  Unverified,     \* providers whose events may fail the endpoint's signature check
  OtherStatuses,  \* what other use cases may make of a payment meanwhile
  MaxLog,         \* bound: messages appended to the log, copies included
  MaxFaults        \* bound: times a partition is moved, a consumer dies or a marking fails

Providers == {"stripe", "paypal", "razorpay"}

NoEvent == [id |-> "none"]

ASSUME EventsAssumption ==
  \A e \in Events : e.provider \in Providers /\ e.payment \in Payments
ASSUME NamesAssumption == NoEvent \notin Events /\ "none" \notin Workers
ASSUME StatusesAssumption == OtherStatuses \subseteq {"resolved", "cancelled", "expired"}
ASSUME BoundsAssumption == MaxLog \in Nat /\ MaxFaults \in Nat

\* The partitions that are used: the message key is the provider.
Partitions == {e.provider : e \in Events}

VARIABLES
  answered,   \* events the provider was answered 2xx for, and repeats no more
  log,        \* [Partitions -> Seq(Events)]
  position,   \* [Partitions -> messages the current consumer has gone past]
  started,    \* [Partitions -> where that consumer started]
  owner,      \* [Partitions -> the consumer the partition is assigned to, or "none"]
  pc,         \* where each consumer is
  hand,       \* the event it handles, or NoEvent
  past,       \* [Payments -> statuses the payment has had]
  marked,     \* events Redis holds a processed key for
  notices,    \* [Events -> times an outcome was announced on its account]
  refused,    \* events a use case threw NotFound or BadRequest for (history variable)
  disturbed,  \* events whose handling failed or was interrupted    (history variable)
  faults       \* counter for MaxFaults

groupVars  == <<position, started, owner, faults>>
workVars   == <<pc, hand>>
ledgerVars == <<past, marked, notices, refused, disturbed>>
vars == <<answered, log, groupVars, workVars, ledgerVars>>

Steps == {"idle", "check", "find", "update", "produce", "mark"}

Statuses == {"pending", "resolved", "cancelled", "expired", "success", "failed"}

Busy(w) == pc[w] # "idle"

----------------------------------------------------------------------------
(* What the endpoint lets through and what the consumer makes of it.       *)

Allowed(e) ==
  CASE e.provider = "stripe"   -> e.type \in {"checkout.session.completed",
         "payment_intent.succeeded", "payment_intent.payment_failed", "charge.refunded"}
    [] e.provider = "razorpay" -> e.type \in {"payment.captured", "payment.failed",
         "order.paid", "refund.processed", "subscription.charged"}
    [] OTHER                   -> TRUE

Outcome(e) ==
  CASE e.provider = "stripe" /\ e.type \in {"checkout.session.completed",
         "payment_intent.succeeded"}                                     -> "success"
    [] e.provider = "stripe" /\ e.type = "payment_intent.payment_failed" -> "failed"
    [] e.provider = "paypal" /\ e.type = "PAYMENT.CAPTURE.COMPLETED"     -> "success"
    [] e.provider = "paypal" /\ e.type \in {"PAYMENT.CAPTURE.DENIED",
         "PAYMENT.CAPTURE.FAILED"}                                       -> "failed"
    [] e.provider = "razorpay" /\ e.type \in {"payment.captured", "order.paid"} -> "success"
    [] e.provider = "razorpay" /\ e.type \in {"payment.failed", "order.failed"} -> "failed"
    [] OTHER                                                             -> "none"

\* Is the id the endpoint takes from the event the one create recorded?  A
\* payment intent's, a capture's and a refund's are not.
NamesItsOrder(e) ==
  CASE e.provider = "stripe" -> e.type = "checkout.session.completed"
    [] e.provider = "paypal" -> e.type = "CHECKOUT.ORDER.APPROVED"
    [] OTHER                 -> e.type # "refund.processed"

\* The statuses from which the use case goes on, and from which it returns
\* because the payment is as it should be.
Accepted(e) ==
  IF Outcome(e) = "success" THEN {"pending", "resolved"} ELSE {"pending"}

Repeated(e) == IF Outcome(e) = "failed" THEN {"failed"} ELSE {}

----------------------------------------------------------------------------
Init ==
  /\ answered = {}
  /\ log = [p \in Partitions |-> << >>]
  /\ position = [p \in Partitions |-> 0]
  /\ started = [p \in Partitions |-> 0]
  /\ owner = [p \in Partitions |-> "none"]
  /\ pc = [w \in Workers |-> "idle"]
  /\ hand = [w \in Workers |-> NoEvent]
  /\ past = [m \in Payments |-> {"pending"}]
  /\ marked = {}
  /\ notices = [e \in Events |-> 0]
  /\ refused = {}
  /\ disturbed = {}
  /\ faults = 0

----------------------------------------------------------------------------
(* The endpoint.                                                           *)

\* e is behind the first n messages of its partition.
Within(e, n) == \E i \in 1..n : log[e.provider][i] = e

InLog(e) == Within(e, Len(log[e.provider]))

Logged == UNION {{p} \X (1..Len(log[p])) : p \in Partitions}

Answer(e) == answered' = answered \cup {e}

AppendToLog(e) ==
  /\ Cardinality(Logged) < MaxLog
  /\ log' = [log EXCEPT ![e.provider] = Append(@, e)]

\* Mutant: an error of publish is logged and not thrown.
AnswerAnyway(e) ==
  /\ e \notin answered
  /\ Answer(e)
  /\ UNCHANGED <<log, groupVars, workVars, ledgerVars>>

\* Not an event to be handled, or one whose signature cannot be verified, because
\* PayPal's certificate cannot be fetched, or because there is no raw body to check
\* Stripe's against: the endpoint returns, which answers 2xx.
Drop(e) ==
  /\ e \notin answered
  /\ ~Allowed(e) \/ e.provider \in Unverified
  /\ Answer(e)
  /\ UNCHANGED <<log, groupVars, workVars, ledgerVars>>

Publish(e) ==
  /\ e \notin answered
  /\ Allowed(e)
  /\ AppendToLog(e)
  /\ Answer(e)
  /\ UNCHANGED <<groupVars, workVars, ledgerVars>>

\* The message is in the log, but produce throws or the answer is lost.
PublishUnanswered(e) ==
  /\ e \notin answered
  /\ Allowed(e)
  /\ AppendToLog(e)
  /\ UNCHANGED <<answered, groupVars, workVars, ledgerVars>>

----------------------------------------------------------------------------
(* The consumer group.                                                     *)

\* The events a consumer loses hold of when it loses these partitions.
InHand(w, parts) ==
  {e \in Events : Busy(w) /\ hand[w] = e /\ e.provider \in parts}

\* A partition without a consumer gets one, which starts at the committed offset:
\* any that the one before it went through.  (What a consumer goes on to do with
\* an event of a partition it has lost counts as another worker's.)
Assign(p, w) ==
  /\ owner[p] = "none"
  /\ InHand(w, {p}) = {}
  /\ owner' = [owner EXCEPT ![p] = w]
  /\ \E c \in started[p]..position[p] :
        /\ position' = [position EXCEPT ![p] = c]
        /\ started' = [started EXCEPT ![p] = c]
  /\ UNCHANGED <<answered, log, faults, workVars, ledgerVars>>

Revoke(p) ==
  /\ owner[p] # "none"
  /\ faults < MaxFaults
  /\ faults' = faults + 1
  /\ disturbed' = disturbed \cup InHand(owner[p], {p})
  /\ owner' = [owner EXCEPT ![p] = "none"]
  /\ UNCHANGED <<answered, log, position, started, workVars,
                 past, marked, notices, refused>>

Crash(w) ==
  /\ faults < MaxFaults
  /\ faults' = faults + 1
  /\ disturbed' = disturbed \cup InHand(w, Partitions)
  /\ owner' = [p \in Partitions |-> IF owner[p] = w THEN "none" ELSE owner[p]]
  /\ pc' = [pc EXCEPT ![w] = "idle"]
  /\ hand' = [hand EXCEPT ![w] = NoEvent]
  /\ UNCHANGED <<answered, log, position, started, past, marked, notices, refused>>

Take(w, p) ==
  /\ owner[p] = w
  /\ ~Busy(w)
  /\ position[p] < Len(log[p])
  /\ pc' = [pc EXCEPT ![w] = "check"]
  /\ hand' = [hand EXCEPT ![w] = log[p][position[p] + 1]]
  /\ UNCHANGED <<answered, log, groupVars, ledgerVars>>

\* The controller rethrows.  For a handler of events the framework lets the
\* exception through to the client, which leaves the offset alone and delivers the
\* message again.  (That it rejoins the group after some attempts is Revoke.)
Redeliver(w) ==
  /\ pc' = [pc EXCEPT ![w] = "idle"]
  /\ hand' = [hand EXCEPT ![w] = NoEvent]
  /\ UNCHANGED <<answered, log, position, started, owner>>

\* Mutant: a consumer that has lost the partition moves its offset, too.
FinishAnyhow(w) ==
  /\ pc' = [pc EXCEPT ![w] = "idle"]
  /\ hand' = [hand EXCEPT ![w] = NoEvent]
  /\ position' = [position EXCEPT ![hand[w].provider] = @ + 1]
  /\ UNCHANGED <<answered, log, started, owner, faults>>

\* The controller returns: on to the next message, for a consumer that still has
\* the partition.
Finish(w) ==
  /\ pc' = [pc EXCEPT ![w] = "idle"]
  /\ hand' = [hand EXCEPT ![w] = NoEvent]
  /\ position' = [p \in Partitions |->
                    IF owner[p] = w /\ hand[w].provider = p THEN position[p] + 1
                                                           ELSE position[p]]
  /\ UNCHANGED <<answered, log, started, owner, faults>>

----------------------------------------------------------------------------
(* PaymentEventConsumer.handle.                                            *)

Goto(w, step) ==
  /\ pc' = [pc EXCEPT ![w] = step]
  /\ UNCHANGED <<answered, log, groupVars, hand>>

\* Mutant: an event whose key cannot be read is taken for one that was handled.
SkipUnread(w) ==
  /\ pc[w] = "check"
  /\ Finish(w)
  /\ UNCHANGED ledgerVars

SkipMarked(w) ==
  /\ pc[w] = "check"
  /\ hand[w] \in marked
  /\ Finish(w)
  /\ UNCHANGED ledgerVars

\* Mutant: the look-up in Redis is left out.
CheckNothing(w) ==
  /\ pc[w] = "check"
  /\ Goto(w, IF Outcome(hand[w]) = "none" THEN "mark" ELSE "find")
  /\ UNCHANGED ledgerVars

\* Mutant: the event is marked before it is handled.
MarkFirst(w) ==
  /\ pc[w] = "check"
  /\ hand[w] \notin marked
  /\ Goto(w, IF Outcome(hand[w]) = "none" THEN "mark" ELSE "find")
  /\ marked' = marked \cup {hand[w]}
  /\ UNCHANGED <<past, notices, refused, disturbed>>

\* Types the switch has no case for are marked like the others.
CheckUnmarked(w) ==
  /\ pc[w] = "check"
  /\ hand[w] \notin marked
  /\ Goto(w, IF Outcome(hand[w]) = "none" THEN "mark" ELSE "find")
  /\ UNCHANGED ledgerVars

\* The payment as the finder returns it: from the row, or from a Redis entry
\* which may hold any earlier version.
Accept(w) ==
  /\ pc[w] = "find"
  /\ NamesItsOrder(hand[w])
  /\ past[hand[w].payment] \cap Accepted(hand[w]) # {}
  /\ Goto(w, "update")
  /\ UNCHANGED ledgerVars

\* The failure use case takes a payment that is FAILED already for done.
AlreadyFailed(w) ==
  /\ pc[w] = "find"
  /\ NamesItsOrder(hand[w])
  /\ past[hand[w].payment] \cap Repeated(hand[w]) # {}
  /\ Goto(w, "mark")
  /\ UNCHANGED ledgerVars

\* Mutant: the handler rethrows what a use case throws.
RefuseAndRepeat(w) ==
  /\ pc[w] = "find"
  /\ ~NamesItsOrder(hand[w])
  /\ Redeliver(w)
  /\ refused' = refused \cup {hand[w]}
  /\ UNCHANGED <<faults, past, marked, notices, disturbed>>

\* NotFound, or BadRequest for the status: logged, and the event not marked.
Refuse(w) ==
  /\ pc[w] = "find"
  /\ \/ ~NamesItsOrder(hand[w])
     \/ past[hand[w].payment] \ (Accepted(hand[w]) \cup Repeated(hand[w])) # {}
  /\ Finish(w)
  /\ refused' = refused \cup {hand[w]}
  /\ UNCHANGED <<past, marked, notices, disturbed>>

Update(w) ==
  /\ pc[w] = "update"
  /\ Goto(w, "produce")
  /\ past' = [past EXCEPT ![hand[w].payment] = @ \cup {Outcome(hand[w])}]
  /\ UNCHANGED <<marked, notices, refused, disturbed>>

Produce(w) ==
  /\ pc[w] = "produce"
  /\ Goto(w, "mark")
  /\ notices' = [notices EXCEPT ![hand[w]] = @ + 1]
  /\ UNCHANGED <<past, marked, refused, disturbed>>

\* The announcement is made although produce throws.
ProduceUnanswered(w) ==
  /\ pc[w] = "produce"
  /\ Finish(w)
  /\ notices' = [notices EXCEPT ![hand[w]] = @ + 1]
  /\ disturbed' = disturbed \cup {hand[w]}
  /\ UNCHANGED <<past, marked, refused>>

Mark(w) ==
  /\ pc[w] = "mark"
  /\ Finish(w)
  /\ marked' = marked \cup {hand[w]}
  /\ UNCHANGED <<past, notices, refused, disturbed>>

\* A round trip of the use case fails: the handler logs it and returns.
FailUseCase(w) ==
  /\ pc[w] \in {"find", "update", "produce"}
  /\ Finish(w)
  /\ disturbed' = disturbed \cup {hand[w]}
  /\ UNCHANGED <<past, marked, notices, refused>>

\* isProcessed throws: nothing has been done yet.
FailCheck(w) ==
  /\ pc[w] = "check"
  /\ Redeliver(w)
  /\ UNCHANGED <<faults, ledgerVars>>

\* markAsProcessed throws, and the key is set all the same or is not.
FailMark(w) ==
  /\ pc[w] = "mark"
  /\ faults < MaxFaults
  /\ faults' = faults + 1
  /\ Redeliver(w)
  /\ marked' \in {marked, marked \cup {hand[w]}}
  /\ disturbed' = disturbed \cup {hand[w]}
  /\ UNCHANGED <<past, notices, refused>>

Handle(w) ==
  \/ SkipMarked(w) \/ CheckUnmarked(w) \/ FailCheck(w)
  \/ Accept(w) \/ AlreadyFailed(w) \/ Refuse(w)
  \/ Update(w) \/ Produce(w) \/ ProduceUnanswered(w) \/ FailUseCase(w)
  \/ Mark(w) \/ FailMark(w)

\* Resolve, cancel and timeout go on beside all this.
Elsewhere(m, s) ==
  /\ past' = [past EXCEPT ![m] = @ \cup {s}]
  /\ UNCHANGED <<answered, log, groupVars, workVars, marked, notices, refused, disturbed>>

Next ==
  \/ \E e \in Events : Drop(e) \/ Publish(e) \/ PublishUnanswered(e)
  \/ \E p \in Partitions : Revoke(p)
  \/ \E w \in Workers :
        \/ \E p \in Partitions : Assign(p, w) \/ Take(w, p)
        \/ Handle(w) \/ Crash(w)
  \/ \E m \in Payments, s \in OtherStatuses : Elsewhere(m, s)

Spec == Init /\ [][Next]_vars

\* The group coordinator gives every partition a consumer, and a consumer goes
\* on with what it has: every round trip is answered or fails.  Redis does not fail
\* every look-up for ever (and, by MaxFaults, not every marking).
FairSpec ==
  /\ Spec
  /\ \A p \in Partitions : WF_vars(\E w \in Workers : Assign(p, w))
  /\ \A w \in Workers : WF_vars((\E p \in Partitions : Take(w, p)) \/ Handle(w))
  /\ \A w \in Workers : SF_vars(SkipMarked(w) \/ CheckUnmarked(w))

----------------------------------------------------------------------------
(* Properties.                                                             *)

\* Every variable keeps its type, and a consumer reads where its partition has
\* messages, even when the one before it goes on with an event it had in hand.
TypeOK ==
  /\ answered \subseteq Events
  /\ log \in [Partitions -> Seq(Events)]
  /\ position \in [Partitions -> Nat]
  /\ started \in [Partitions -> Nat]
  /\ owner \in [Partitions -> Workers \cup {"none"}]
  /\ pc \in [Workers -> Steps]
  /\ hand \in [Workers -> Events \cup {NoEvent}]
  /\ past \in [Payments -> SUBSET Statuses]
  /\ marked \subseteq Events
  /\ notices \in [Events -> Nat]
  /\ refused \subseteq Events
  /\ disturbed \subseteq Events
  /\ faults \in 0..MaxFaults
  /\ \A p \in Partitions : started[p] <= position[p] /\ position[p] <= Len(log[p])

\* An event of a kind the endpoint lets through is answered 2xx, so that the
\* provider stops repeating it, only once it is in the log (those that the endpoint
\* drops because it cannot verify them are the exception).
AnsweredIsLogged ==
  \A e \in answered : Allowed(e) /\ e.provider \notin Unverified => InLog(e)

\* A processed key in Redis, which silences an event for 30 days, is never set
\* for an outcome that was lost: a marked success was announced, and a marked
\* failure was announced or found the payment FAILED.
MarkedWasHandled ==
  \A e \in marked :
     /\ Outcome(e) # "none" => NamesItsOrder(e) /\ Outcome(e) \in past[e.payment]
     /\ Outcome(e) = "success" => notices[e] >= 1

\* "Webhook events are deduplicated": however many copies of an event the log
\* holds, and however often it is consumed again from an old offset, its outcome
\* is announced twice only if its handling failed on the way or was interrupted.
RepeatsAreDeduplicated ==
  \A e \in Events : notices[e] >= 2 => e \in disturbed

\* No consumer goes past an event in silence, whatever is started, revoked or
\* restarted: each was marked, refused, or disturbed while it was in hand.
ConsumedIsSettled ==
  \A e \in Events : Within(e, position[e.provider]) => e \in marked \cup refused \cup disturbed

\* No event blocks the ones behind it for good, although one whose look-up or
\* marking fails is delivered again and the partition waits for it: once the
\* providers are done, the group is at rest and Redis answers now and then, every
\* partition is consumed to its end.
PartitionsDrain == <>[](\A p \in Partitions : position[p] = Len(log[p]))
===============================================================================
