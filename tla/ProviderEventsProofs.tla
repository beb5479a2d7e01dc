------------------------- MODULE ProviderEventsProofs -------------------------
(***************************************************************************)
(* Theorems about ProviderEvents, for any events, consumers and bounds.    *)
(* The invariant has four layers: where consumers and partitions stand     *)
(* (GroupInv), what lies behind a consumer (ConsumedIsSettled), what is    *)
(* known of an event by the step its handler has reached (StepIsFounded),  *)
(* and that an event whose handling was never disturbed has one handler    *)
(* and one announcement (OnceOnly).                                        *)
(***************************************************************************)
EXTENDS ProviderEvents, TLAPS

\* A busy consumer has an event in hand; while nothing has disturbed the event
\* its partition is the consumer's own, and then it is the next message.
HandIsHeld(w) ==
  /\ Busy(w) <=> hand[w] \in Events
  /\ Busy(w) => hand[w] \in disturbed \/ owner[hand[w].provider] = w
  /\ Busy(w) /\ owner[hand[w].provider] = w =>
        /\ position[hand[w].provider] < Len(log[hand[w].provider])
        /\ log[hand[w].provider][position[hand[w].provider] + 1] = hand[w]

\* A partition holds the events of one provider.
KeyedByProvider ==
  \A p \in Partitions : \A i \in 1..Len(log[p]) : log[p][i].provider = p

GroupInv == TypeOK /\ KeyedByProvider /\ \A w \in Workers : HandIsHeld(w)

\* What a marked event has gone through.
HandledWell(e) ==
  /\ Outcome(e) # "none" => NamesItsOrder(e) /\ Outcome(e) \in past[e.payment]
  /\ Outcome(e) = "success" => notices[e] >= 1

StepIsFounded(w) ==
  /\ pc[w] \in {"find", "update", "produce"} => Outcome(hand[w]) # "none"
  /\ pc[w] \in {"update", "produce"} => NamesItsOrder(hand[w])
  /\ pc[w] = "produce" => Outcome(hand[w]) \in past[hand[w].payment]
  /\ pc[w] = "mark" => HandledWell(hand[w])

HandledInv ==
  /\ \A w \in Workers : StepIsFounded(w)
  /\ \A e \in marked : HandledWell(e)

OnceOnly(e) ==
  e \in disturbed \/
    /\ notices[e] <= 1
    /\ notices[e] = 1 => e \in marked \/ \E w \in Workers : hand[w] = e /\ pc[w] = "mark"
    /\ \A w \in Workers :
          hand[w] = e /\ pc[w] \in {"find", "update", "produce"} => notices[e] = 0

EventsInv ==
  /\ GroupInv
  /\ AnsweredIsLogged
  /\ ConsumedIsSettled
  /\ HandledInv
  /\ \A e \in Events : OnceOnly(e)

LEMMA Names ==
  /\ "none" \notin Workers /\ NoEvent \notin Events
  /\ \A e \in Events : e.provider \in Partitions /\ e.payment \in Payments
BY NamesAssumption, EventsAssumption DEF Partitions

LEMMA OutcomeTyped == \A e : Outcome(e) \in {"success", "failed", "none"}
BY DEF Outcome

----------------------------------------------------------------------------
(* Appending to the log.                                                   *)

\* What the log held stays where it was.
LEMMA LogGrows ==
  ASSUME TypeOK, KeyedByProvider, NEW e \in Events, AppendToLog(e)
  PROVE  /\ log' \in [Partitions -> Seq(Events)]
         /\ KeyedByProvider'
         /\ \A p \in Partitions :
              /\ Len(log[p]) <= Len(log'[p])
              /\ \A i \in 1..Len(log[p]) : log'[p][i] = log[p][i]
         /\ Within(e, Len(log[e.provider]))'
<1>1. e.provider \in Partitions
  BY Names
<1>2. log' = [log EXCEPT ![e.provider] = Append(@, e)]
  BY DEF AppendToLog
<1>3. log[e.provider] \in Seq(Events)
  BY <1>1 DEF TypeOK
<1>4. /\ Append(log[e.provider], e) \in Seq(Events)
      /\ Len(Append(log[e.provider], e)) = Len(log[e.provider]) + 1
      /\ \A i \in 1..Len(log[e.provider]) : Append(log[e.provider], e)[i] = log[e.provider][i]
      /\ Append(log[e.provider], e)[Len(log[e.provider]) + 1] = e
  BY <1>3
<1>5. log' \in [Partitions -> Seq(Events)]
  BY <1>1, <1>2, <1>4 DEF TypeOK
<1>6. ASSUME NEW p \in Partitions
      PROVE  /\ Len(log[p]) <= Len(log'[p])
             /\ \A i \in 1..Len(log[p]) : log'[p][i] = log[p][i]
  <2>1. CASE p = e.provider
    BY <1>1, <1>2, <1>3, <1>4, <2>1 DEF TypeOK
  <2>2. CASE p # e.provider
    BY <1>1, <1>2, <2>2 DEF TypeOK
  <2> QED BY <2>1, <2>2
<1>7. Within(e, Len(log[e.provider]))'
  <2>1. log'[e.provider] = Append(log[e.provider], e)
    BY <1>1, <1>2 DEF TypeOK
  <2>2. Len(log[e.provider]) \in Nat
    BY <1>3
  <2> QED BY <1>4, <2>1, <2>2 DEF Within
<1>8. ASSUME NEW p \in Partitions, NEW i \in 1..Len(log'[p])
      PROVE  log'[p][i].provider = p
  <2>1. CASE p = e.provider
    <3>1. log'[p] = Append(log[p], e)
      BY <1>1, <1>2, <2>1 DEF TypeOK
    <3>2. i \in 1..Len(log[p]) \/ i = Len(log[p]) + 1
      BY <1>3, <1>4, <2>1, <3>1
    <3> QED BY <1>4, <2>1, <3>1, <3>2 DEF KeyedByProvider
  <2>2. CASE p # e.provider
    BY <1>1, <1>2, <2>2 DEF TypeOK, KeyedByProvider
  <2> QED BY <2>1, <2>2
<1> QED BY <1>5, <1>6, <1>7, <1>8 DEF KeyedByProvider

----------------------------------------------------------------------------
(* Where consumers and partitions stand.                                   *)

\* What a step must leave alone for a consumer to go on holding its event.
LEMMA HoldsOn ==
  ASSUME NEW v \in Workers, HandIsHeld(v), hand'[v] = hand[v], pc'[v] = pc[v],
         disturbed \subseteq disturbed',
         Busy(v) =>
           LET q == hand[v].provider
           IN  /\ owner[q] = v /\ owner'[q] # v => hand[v] \in disturbed'
               /\ owner'[q] = v => owner[q] = v /\ position'[q] = position[q]
               /\ position[q] < Len(log[q]) =>
                     /\ position[q] < Len(log'[q])
                     /\ log'[q][position[q] + 1] = log[q][position[q] + 1]
  PROVE  HandIsHeld(v)'
<1> DEFINE q == hand[v].provider
<1>1. (Busy(v))' = Busy(v) /\ hand'[v].provider = q
  BY DEF Busy
<1>2. (Busy(v) <=> hand[v] \in Events)'
  BY <1>1 DEF HandIsHeld
<1>3. CASE ~Busy(v)
  BY <1>1, <1>2, <1>3 DEF HandIsHeld
<1>4. CASE Busy(v)
  <2>1. hand[v] \in disturbed' \/ owner'[q] = v
    BY <1>4 DEF HandIsHeld
  <2>2. ASSUME owner'[q] = v
        PROVE  position'[q] < Len(log'[q]) /\ log'[q][position'[q] + 1] = hand[v]
    <3>1. owner[q] = v /\ position'[q] = position[q]
      BY <1>4, <2>2
    <3>2. position[q] < Len(log[q]) /\ log[q][position[q] + 1] = hand[v]
      BY <1>4, <3>1 DEF HandIsHeld
    <3> QED BY <1>4, <3>1, <3>2
  <2> QED BY <1>1, <1>2, <2>1, <2>2 DEF HandIsHeld
<1> QED BY <1>3, <1>4

LEMMA GroupInit == Init => GroupInv
<1> SUFFICES ASSUME Init PROVE GroupInv
  OBVIOUS
<1>1. TypeOK
  BY BoundsAssumption DEF Init, TypeOK, Steps, Statuses
<1>2. ASSUME NEW w \in Workers PROVE HandIsHeld(w)
  BY Names DEF Init, HandIsHeld, Busy
<1>3. KeyedByProvider
  BY DEF Init, KeyedByProvider
<1> QED BY <1>1, <1>2, <1>3 DEF GroupInv

\* The endpoint touches the log, and only at its end.
LEMMA GroupEndpoint ==
  ASSUME GroupInv, NEW e \in Events, Drop(e) \/ Publish(e) \/ PublishUnanswered(e)
  PROVE  GroupInv'
<1>1. UNCHANGED <<groupVars, workVars, ledgerVars>>
  BY DEF Drop, Publish, PublishUnanswered
<1>2. answered' \subseteq Events
  BY DEF Drop, Publish, PublishUnanswered, Answer, GroupInv, TypeOK
<1>3. /\ log' \in [Partitions -> Seq(Events)]
      /\ KeyedByProvider'
      /\ \A p \in Partitions :
              /\ Len(log[p]) <= Len(log'[p])
              /\ \A i \in 1..Len(log[p]) : log'[p][i] = log[p][i]
  <2>1. CASE Drop(e)
    BY <2>1 DEF Drop, GroupInv, TypeOK, KeyedByProvider
  <2>2. CASE Publish(e) \/ PublishUnanswered(e)
    BY <2>2, LogGrows DEF Publish, PublishUnanswered, GroupInv
  <2> QED BY <2>1, <2>2
<1>4. \A p \in Partitions : Len(log[p]) \in Nat /\ Len(log'[p]) \in Nat /\ position[p] \in Nat
  BY <1>3 DEF GroupInv, TypeOK
<1>5. TypeOK'
  BY <1>1, <1>2, <1>3, <1>4 DEF GroupInv, TypeOK, groupVars, workVars, ledgerVars
<1>6. ASSUME NEW w \in Workers PROVE HandIsHeld(w)'
  <2>1. HandIsHeld(w) /\ (Busy(w) => hand[w].provider \in Partitions)
    BY Names DEF GroupInv, HandIsHeld
  <2>2. pc' = pc /\ hand' = hand /\ owner' = owner /\ position' = position /\ disturbed' = disturbed
    BY <1>1 DEF groupVars, workVars, ledgerVars
  <2>3. ASSUME NEW q \in Partitions, position[q] < Len(log[q])
        PROVE  position[q] < Len(log'[q]) /\ log'[q][position[q] + 1] = log[q][position[q] + 1]
    <3>1. position[q] + 1 \in 1..Len(log[q])
      BY <1>4, <2>3
    <3> QED BY <1>3, <1>4, <2>3, <3>1
  <2> QED BY <2>1, <2>2, <2>3, HoldsOn
<1> QED BY <1>3, <1>5, <1>6 DEF GroupInv

LEMMA GroupAssign ==
  ASSUME GroupInv, NEW p \in Partitions, NEW w \in Workers, Assign(p, w)
  PROVE  GroupInv'
<1>1. PICK c \in started[p]..position[p] :
        /\ position' = [position EXCEPT ![p] = c]
        /\ started' = [started EXCEPT ![p] = c]
  BY DEF Assign
<1>2. /\ owner[p] = "none" /\ InHand(w, {p}) = {}
      /\ owner' = [owner EXCEPT ![p] = w]
      /\ UNCHANGED <<answered, log, faults, workVars, ledgerVars>>
  BY DEF Assign
<1>3. c \in Nat /\ c <= Len(log[p]) /\ Len(log[p]) \in Nat
  BY <1>1 DEF GroupInv, TypeOK
<1>4. TypeOK'
  BY <1>1, <1>2, <1>3 DEF GroupInv, TypeOK, workVars, ledgerVars
<1>5. ASSUME NEW v \in Workers PROVE HandIsHeld(v)'
  <2>1. HandIsHeld(v)
    BY DEF GroupInv
  <2>2. v = w /\ Busy(w) => hand[w].provider # p
    BY <1>2, <2>1 DEF InHand, HandIsHeld
  <2>3. pc' = pc /\ hand' = hand /\ log' = log /\ disturbed' = disturbed
    BY <1>2 DEF workVars, ledgerVars
  <2>4. ASSUME NEW q \in Partitions, v # w \/ q # p, owner'[q] = v
        PROVE  owner[q] = v /\ position'[q] = position[q]
    BY <1>1, <1>2, <2>4 DEF GroupInv, TypeOK
  <2>5. ASSUME NEW q \in Partitions, owner[q] = v PROVE owner'[q] = v
    BY <1>2, <2>5, Names DEF GroupInv, TypeOK
  <2>6. Busy(v) => hand[v].provider \in Partitions
    BY <2>1, Names DEF HandIsHeld
  <2> QED BY <2>1, <2>2, <2>3, <2>4, <2>5, <2>6, HoldsOn
<1> QED BY <1>2, <1>4, <1>5 DEF GroupInv, KeyedByProvider

LEMMA GroupRevoke ==
  ASSUME GroupInv, NEW p \in Partitions, Revoke(p)
  PROVE  GroupInv'
<1>1. /\ owner[p] # "none" /\ faults < MaxFaults /\ faults' = faults + 1
      /\ disturbed' = disturbed \cup InHand(owner[p], {p})
      /\ owner' = [owner EXCEPT ![p] = "none"]
      /\ UNCHANGED <<answered, log, position, started, workVars, past, marked, notices, refused>>
  BY DEF Revoke
<1>2. TypeOK'
  BY <1>1, BoundsAssumption DEF GroupInv, TypeOK, workVars, InHand
<1>3. ASSUME NEW v \in Workers PROVE HandIsHeld(v)'
  <2>1. HandIsHeld(v)
    BY DEF GroupInv
  <2>2. pc' = pc /\ hand' = hand /\ log' = log /\ position' = position
    BY <1>1 DEF workVars
  <2>3. Busy(v) => hand[v] \in Events /\ hand[v].provider \in Partitions
    BY <2>1, Names DEF HandIsHeld
  <2>4. ASSUME NEW q \in Partitions, owner'[q] = v PROVE owner[q] = v
    BY <1>1, <2>4, Names DEF GroupInv, TypeOK
  <2>5. ASSUME Busy(v), owner[hand[v].provider] = v, owner'[hand[v].provider] # v
        PROVE  hand[v] \in disturbed'
    <3>1. hand[v].provider = p
      BY <1>1, <2>3, <2>5 DEF GroupInv, TypeOK
    <3> QED BY <1>1, <2>3, <2>5, <3>1 DEF InHand
  <2> QED BY <1>1, <2>1, <2>2, <2>3, <2>4, <2>5, HoldsOn
<1> QED BY <1>1, <1>2, <1>3 DEF GroupInv, KeyedByProvider

LEMMA GroupCrash ==
  ASSUME GroupInv, NEW w \in Workers, Crash(w)
  PROVE  GroupInv'
<1>1. /\ faults < MaxFaults /\ faults' = faults + 1
      /\ disturbed' = disturbed \cup InHand(w, Partitions)
      /\ owner' = [p \in Partitions |-> IF owner[p] = w THEN "none" ELSE owner[p]]
      /\ pc' = [pc EXCEPT ![w] = "idle"]
      /\ hand' = [hand EXCEPT ![w] = NoEvent]
      /\ UNCHANGED <<answered, log, position, started, past, marked, notices, refused>>
  BY DEF Crash
<1>2. TypeOK'
  BY <1>1, BoundsAssumption DEF GroupInv, TypeOK, InHand, Steps
<1>3. ASSUME NEW v \in Workers PROVE HandIsHeld(v)'
  <2>1. HandIsHeld(v)
    BY DEF GroupInv
  <2>2. CASE v = w
    BY <1>1, <2>2, Names DEF HandIsHeld, Busy, GroupInv, TypeOK
  <2>3. CASE v # w
    <3>1. pc'[v] = pc[v] /\ hand'[v] = hand[v]
      BY <1>1, <2>3 DEF GroupInv, TypeOK
    <3>2. CASE hand[v] \in Events
      BY <1>1, <2>1, <2>3, <3>1, <3>2, Names DEF HandIsHeld, Busy, GroupInv, TypeOK
    <3>3. CASE hand[v] \notin Events
      BY <2>1, <3>1, <3>3 DEF HandIsHeld, Busy
    <3> QED BY <3>2, <3>3
  <2> QED BY <2>2, <2>3
<1> QED BY <1>1, <1>2, <1>3 DEF GroupInv, KeyedByProvider

LEMMA GroupTake ==
  ASSUME GroupInv, NEW p \in Partitions, NEW w \in Workers, Take(w, p)
  PROVE  GroupInv'
<1>1. /\ owner[p] = w /\ ~Busy(w) /\ position[p] < Len(log[p])
      /\ pc' = [pc EXCEPT ![w] = "check"]
      /\ hand' = [hand EXCEPT ![w] = log[p][position[p] + 1]]
      /\ UNCHANGED <<answered, log, groupVars, ledgerVars>>
  BY DEF Take
<1>2. /\ log[p][position[p] + 1] \in Events
      /\ log[p][position[p] + 1].provider = p
  BY <1>1 DEF GroupInv, TypeOK, KeyedByProvider
<1>3. TypeOK'
  BY <1>1, <1>2 DEF GroupInv, TypeOK, Steps, groupVars, ledgerVars
<1>4. ASSUME NEW v \in Workers PROVE HandIsHeld(v)'
  <2>1. HandIsHeld(v)
    BY DEF GroupInv
  <2>2. CASE v = w
    BY <1>1, <1>2, <2>2 DEF HandIsHeld, Busy, groupVars, ledgerVars, GroupInv, TypeOK
  <2>3. CASE v # w
    BY <1>1, <2>1, <2>3 DEF HandIsHeld, Busy, groupVars, ledgerVars, GroupInv, TypeOK
  <2> QED BY <2>2, <2>3
<1> QED BY <1>1, <1>3, <1>4 DEF GroupInv, KeyedByProvider, groupVars

\* A step of the handler that is not its last.
LEMMA GroupGoto ==
  ASSUME GroupInv, NEW w \in Workers, NEW s \in Steps \ {"idle"}, Busy(w), Goto(w, s),
         past' \in [Payments -> SUBSET Statuses],
         notices' \in [Events -> Nat], UNCHANGED <<marked, refused, disturbed>>
  PROVE  GroupInv'
<1>1. pc' = [pc EXCEPT ![w] = s] /\ UNCHANGED <<answered, log, groupVars, hand>>
  BY DEF Goto
<1>2. TypeOK'
  BY <1>1 DEF GroupInv, TypeOK, groupVars
<1>3. ASSUME NEW v \in Workers PROVE HandIsHeld(v)'
  <2>1. HandIsHeld(v) /\ (Busy(v))' = Busy(v)
    BY <1>1 DEF GroupInv, TypeOK, Busy
  <2> QED BY <1>1, <2>1 DEF HandIsHeld, groupVars
<1> QED BY <1>1, <1>2, <1>3 DEF GroupInv, KeyedByProvider, groupVars

\* The handler's last step: on to the next message.
LEMMA GroupFinish ==
  ASSUME GroupInv, NEW w \in Workers, Busy(w), Finish(w),
         past' = past, marked' \subseteq Events, refused' \subseteq Events,
         notices' \in [Events -> Nat], disturbed' \subseteq Events, disturbed \subseteq disturbed'
  PROVE  GroupInv'
<1>1. /\ pc' = [pc EXCEPT ![w] = "idle"]
      /\ hand' = [hand EXCEPT ![w] = NoEvent]
      /\ UNCHANGED <<answered, log, started, owner, faults>>
  BY DEF Finish
<1>2. HandIsHeld(w) /\ hand[w] \in Events
  BY DEF GroupInv, HandIsHeld
<1>3. \A p \in Partitions :
        position'[p] = IF owner[p] = w /\ hand[w].provider = p THEN position[p] + 1 ELSE position[p]
  BY DEF Finish
<1>4. \A p \in Partitions : /\ position'[p] \in Nat
                            /\ started[p] <= position'[p] /\ position'[p] <= Len(log[p])
  <2> SUFFICES ASSUME NEW p \in Partitions
               PROVE  /\ position'[p] \in Nat
                      /\ started[p] <= position'[p] /\ position'[p] <= Len(log[p])
    OBVIOUS
  <2>1. /\ position[p] \in Nat /\ started[p] \in Nat /\ Len(log[p]) \in Nat
        /\ started[p] <= position[p] /\ position[p] <= Len(log[p])
    BY DEF GroupInv, TypeOK
  <2>2. CASE owner[p] = w /\ hand[w].provider = p
    <3>1. position[p] < Len(log[p])
      BY <1>2, <2>2 DEF HandIsHeld
    <3> QED BY <1>3, <2>1, <2>2, <3>1
  <2>3. CASE ~(owner[p] = w /\ hand[w].provider = p)
    BY <1>3, <2>1, <2>3
  <2> QED BY <2>2, <2>3
<1>5. position' \in [Partitions -> Nat]
  BY <1>4 DEF Finish
<1>6. TypeOK'
  BY <1>1, <1>4, <1>5 DEF GroupInv, TypeOK, Steps
<1>7. ASSUME NEW v \in Workers PROVE HandIsHeld(v)'
  <2>1. HandIsHeld(v)
    BY DEF GroupInv
  <2>2. CASE v = w
    BY <1>1, <2>2, Names DEF HandIsHeld, Busy, GroupInv, TypeOK
  <2>3. CASE v # w
    <3>1. pc'[v] = pc[v] /\ hand'[v] = hand[v] /\ owner' = owner /\ log' = log
      BY <1>1, <2>3 DEF GroupInv, TypeOK
    <3>2. CASE hand[v] \in Events
      <4>1. hand[v].provider \in Partitions
        BY <3>2, Names
      <4>2. owner[hand[v].provider] = v => position'[hand[v].provider] = position[hand[v].provider]
        BY <1>3, <2>3, <4>1
      <4> QED BY <2>1, <3>1, <4>2 DEF HandIsHeld, Busy
    <3>3. CASE hand[v] \notin Events
      BY <2>1, <3>1, <3>3 DEF HandIsHeld, Busy
    <3> QED BY <3>2, <3>3
  <2> QED BY <2>2, <2>3
<1> QED BY <1>1, <1>6, <1>7 DEF GroupInv, KeyedByProvider

\* The handler's exception leaves the controller: the message is next again.
LEMMA GroupRedeliver ==
  ASSUME GroupInv, NEW w \in Workers, Redeliver(w), faults' \in 0..MaxFaults,
         past' = past, marked' \subseteq Events, refused' = refused, notices' = notices,
         disturbed' \subseteq Events, disturbed \subseteq disturbed'
  PROVE  GroupInv'
<1>1. /\ pc' = [pc EXCEPT ![w] = "idle"]
      /\ hand' = [hand EXCEPT ![w] = NoEvent]
      /\ UNCHANGED <<answered, log, position, started, owner>>
  BY DEF Redeliver
<1>2. TypeOK'
  BY <1>1 DEF GroupInv, TypeOK, Steps
<1>3. ASSUME NEW v \in Workers PROVE HandIsHeld(v)'
  <2>1. CASE v = w
    BY <1>1, <2>1, Names DEF HandIsHeld, Busy, GroupInv, TypeOK
  <2>2. CASE v # w
    <3>1. pc'[v] = pc[v] /\ hand'[v] = hand[v]
      BY <1>1, <2>2 DEF GroupInv, TypeOK
    <3> QED BY <1>1, <3>1, HoldsOn DEF GroupInv
  <2> QED BY <2>1, <2>2
<1> QED BY <1>1, <1>2, <1>3 DEF GroupInv, KeyedByProvider

LEMMA GroupHandle ==
  ASSUME GroupInv, NEW w \in Workers, StepIsFounded(w), Handle(w)
  PROVE  GroupInv'
<1>b. Busy(w) => hand[w] \in Events /\ hand[w].payment \in Payments
  BY Names DEF GroupInv, HandIsHeld
<1>t. /\ past \in [Payments -> SUBSET Statuses] /\ notices \in [Events -> Nat]
      /\ marked \subseteq Events /\ refused \subseteq Events /\ disturbed \subseteq Events
  BY DEF GroupInv, TypeOK
<1>1. CASE SkipMarked(w)
  BY <1>1, <1>t, GroupFinish DEF SkipMarked, Busy, ledgerVars
<1>2. CASE CheckUnmarked(w)
  BY <1>2, <1>t, GroupGoto DEF CheckUnmarked, Busy, Steps, ledgerVars
<1>3. CASE Accept(w)
  BY <1>3, <1>t, GroupGoto DEF Accept, Busy, Steps, ledgerVars
<1>4. CASE AlreadyFailed(w)
  BY <1>4, <1>t, GroupGoto DEF AlreadyFailed, Busy, Steps, ledgerVars
<1>5. CASE Refuse(w)
  <2>1. Busy(w)
    BY <1>5 DEF Refuse, Busy
  <2> QED BY <1>5, <1>b, <1>t, <2>1, GroupFinish DEF Refuse
<1>6. CASE Update(w)
  <2>1. Busy(w) /\ pc[w] = "update"
    BY <1>6 DEF Update, Busy
  <2>2. past' \in [Payments -> SUBSET Statuses]
    <3>1. past' = [past EXCEPT ![hand[w].payment] = @ \cup {Outcome(hand[w])}]
      BY <1>6 DEF Update
    <3>2. Outcome(hand[w]) \in Statuses
      BY <2>1, OutcomeTyped DEF StepIsFounded, Statuses
    <3> QED BY <1>b, <1>t, <2>1, <3>1, <3>2
  <2> QED BY <1>6, <1>t, <2>1, <2>2, GroupGoto DEF Update, Steps
<1>7. CASE Produce(w)
  <2>1. Busy(w)
    BY <1>7 DEF Produce, Busy
  <2>2. notices' \in [Events -> Nat]
    BY <1>7, <1>b, <1>t, <2>1 DEF Produce
  <2> QED BY <1>7, <1>t, <2>1, <2>2, GroupGoto DEF Produce, Steps
<1>8. CASE ProduceUnanswered(w)
  <2>1. Busy(w)
    BY <1>8 DEF ProduceUnanswered, Busy
  <2>2. notices' \in [Events -> Nat]
    BY <1>8, <1>b, <1>t, <2>1 DEF ProduceUnanswered
  <2> QED BY <1>8, <1>b, <1>t, <2>1, <2>2, GroupFinish DEF ProduceUnanswered
<1>9. CASE Mark(w)
  <2>1. Busy(w)
    BY <1>9 DEF Mark, Busy
  <2> QED BY <1>9, <1>b, <1>t, <2>1, GroupFinish DEF Mark
<1>10. CASE FailUseCase(w)
  <2>1. Busy(w)
    BY <1>10 DEF FailUseCase, Busy
  <2> QED BY <1>10, <1>b, <1>t, <2>1, GroupFinish DEF FailUseCase
<1>11. CASE FailCheck(w)
  <2>1. faults' \in 0..MaxFaults
    BY <1>11 DEF FailCheck, GroupInv, TypeOK
  <2> QED BY <1>11, <1>t, <2>1, GroupRedeliver DEF FailCheck, ledgerVars
<1>12. CASE FailMark(w)
  <2>1. Busy(w) /\ faults' \in 0..MaxFaults
    BY <1>12, BoundsAssumption DEF FailMark, Busy, GroupInv, TypeOK
  <2>2. marked' \subseteq Events /\ disturbed' \subseteq Events
    BY <1>12, <1>b, <1>t, <2>1 DEF FailMark
  <2> QED BY <1>12, <2>1, <2>2, GroupRedeliver DEF FailMark
<1> QED BY <1>1, <1>2, <1>3, <1>4, <1>5, <1>6, <1>7, <1>8, <1>9, <1>10, <1>11, <1>12 DEF Handle

----------------------------------------------------------------------------
(* What lies behind a consumer.                                            *)

\* A step that takes no partition further leaves everything behind it settled.
LEMMA SettledStays ==
  ASSUME GroupInv, ConsumedIsSettled,
         marked \cup refused \cup disturbed \subseteq marked' \cup refused' \cup disturbed',
         \A p \in Partitions :
            /\ position'[p] \in Nat /\ position'[p] <= position[p]
            /\ \A i \in 1..Len(log[p]) : log'[p][i] = log[p][i]
  PROVE  ConsumedIsSettled'
<1> SUFFICES ASSUME NEW e \in Events, NEW i \in 1..position'[e.provider],
                    log'[e.provider][i] = e
             PROVE  e \in marked' \cup refused' \cup disturbed'
  BY DEF ConsumedIsSettled, Within
<1>1. e.provider \in Partitions
  BY Names
<1>2. /\ position[e.provider] \in Nat /\ position[e.provider] <= Len(log[e.provider])
      /\ Len(log[e.provider]) \in Nat
  BY <1>1 DEF GroupInv, TypeOK
<1>3. i \in 1..position[e.provider] /\ i \in 1..Len(log[e.provider])
  BY <1>1, <1>2
<1>4. log[e.provider][i] = e
  BY <1>1, <1>3
<1> QED BY <1>3, <1>4 DEF ConsumedIsSettled, Within

\* A handler's last step settles the event it had in hand.
LEMMA SettledFinish ==
  ASSUME GroupInv, ConsumedIsSettled, NEW w \in Workers, Busy(w), Finish(w),
         marked \cup refused \cup disturbed \subseteq marked' \cup refused' \cup disturbed',
         hand[w] \in marked' \cup refused' \cup disturbed'
  PROVE  ConsumedIsSettled'
<1> SUFFICES ASSUME NEW e \in Events, NEW i \in 1..position'[e.provider],
                    log'[e.provider][i] = e
             PROVE  e \in marked' \cup refused' \cup disturbed'
  BY DEF ConsumedIsSettled, Within
<1>1. e.provider \in Partitions
  BY Names
<1>2. position[e.provider] \in Nat
  BY <1>1 DEF GroupInv, TypeOK
<1>3. /\ log' = log
      /\ position'[e.provider] = IF owner[e.provider] = w /\ hand[w].provider = e.provider
                                 THEN position[e.provider] + 1 ELSE position[e.provider]
  BY <1>1 DEF Finish
<1>4. CASE i \in 1..position[e.provider]
  BY <1>3, <1>4 DEF ConsumedIsSettled, Within
<1>5. CASE i \notin 1..position[e.provider]
  <2>1. i = position[e.provider] + 1 /\ owner[e.provider] = w /\ hand[w].provider = e.provider
    BY <1>2, <1>3, <1>5
  <2>2. log[e.provider][position[e.provider] + 1] = hand[w]
    BY <2>1 DEF GroupInv, HandIsHeld
  <2> QED BY <1>3, <2>1, <2>2
<1> QED BY <1>4, <1>5

LEMMA SettledHandle ==
  ASSUME GroupInv, ConsumedIsSettled, NEW w \in Workers, Handle(w)
  PROVE  ConsumedIsSettled'
<1>1. Busy(w)
  BY DEF Handle, SkipMarked, CheckUnmarked, Accept, AlreadyFailed, Refuse, Update, Produce,
         ProduceUnanswered, FailUseCase, Mark, FailCheck, FailMark, Busy
<1>2. CASE CheckUnmarked(w) \/ Accept(w) \/ AlreadyFailed(w) \/ Update(w) \/ Produce(w)
  <2>1. UNCHANGED <<log, position, marked, refused, disturbed>>
    BY <1>2 DEF CheckUnmarked, Accept, AlreadyFailed, Update, Produce, Goto, groupVars, ledgerVars
  <2>2. \A p \in Partitions : position[p] \in Nat
    BY DEF GroupInv, TypeOK
  <2> QED BY <2>1, <2>2, SettledStays
<1>3. CASE SkipMarked(w) \/ Refuse(w) \/ ProduceUnanswered(w) \/ Mark(w) \/ FailUseCase(w)
  <2>1. /\ Finish(w)
        /\ marked \subseteq marked' /\ refused \subseteq refused' /\ disturbed \subseteq disturbed'
        /\ hand[w] \in marked' \cup refused' \cup disturbed'
    BY <1>3 DEF SkipMarked, Refuse, ProduceUnanswered, Mark, FailUseCase, ledgerVars
  <2> QED BY <1>1, <2>1, SettledFinish
<1>4. CASE FailCheck(w) \/ FailMark(w)
  <2>1. /\ UNCHANGED <<log, position, refused>>
        /\ marked \subseteq marked' /\ disturbed \subseteq disturbed'
    BY <1>4 DEF FailCheck, FailMark, Redeliver, ledgerVars
  <2>2. \A p \in Partitions : position[p] \in Nat
    BY DEF GroupInv, TypeOK
  <2> QED BY <2>1, <2>2, SettledStays
<1> QED BY <1>2, <1>3, <1>4 DEF Handle

----------------------------------------------------------------------------
(* What is known of an event by the step its handler has reached.          *)

LedgerGrows ==
  /\ \A m \in Payments : past[m] \subseteq past'[m]
  /\ \A e \in Events : notices[e] \in Nat /\ notices'[e] \in Nat /\ notices[e] <= notices'[e]

LEMMA HandledStays ==
  ASSUME NEW e \in Events, HandledWell(e), LedgerGrows
  PROVE  HandledWell(e)'
BY Names DEF HandledWell, LedgerGrows

LEMMA FoundedStays ==
  ASSUME GroupInv, NEW v \in Workers, StepIsFounded(v), LedgerGrows,
         pc'[v] = pc[v], hand'[v] = hand[v]
  PROVE  StepIsFounded(v)'
<1>1. Busy(v) => hand[v] \in Events /\ hand[v].payment \in Payments
  BY Names DEF GroupInv, HandIsHeld
<1>2. pc[v] \in {"find", "update", "produce", "mark"} => Busy(v)
  BY DEF Busy
<1> QED BY <1>1, <1>2 DEF StepIsFounded, HandledWell, LedgerGrows

LEMMA HandledHandle ==
  ASSUME GroupInv, HandledInv, NEW w \in Workers, Handle(w)
  PROVE  HandledInv' /\ LedgerGrows
<1>b. Busy(w) /\ hand[w] \in Events /\ hand[w].payment \in Payments
  <2>1. Busy(w)
    BY DEF Handle, SkipMarked, CheckUnmarked, Accept, AlreadyFailed, Refuse, Update, Produce,
           ProduceUnanswered, FailUseCase, Mark, FailCheck, FailMark, Busy
  <2> QED BY <2>1, Names DEF GroupInv, HandIsHeld
<1>t. /\ past \in [Payments -> SUBSET Statuses] /\ notices \in [Events -> Nat]
      /\ pc \in [Workers -> Steps] /\ hand \in [Workers -> Events \cup {NoEvent}]
  BY DEF GroupInv, TypeOK
<1>f. StepIsFounded(w) /\ \A e \in marked : HandledWell(e)
  BY DEF HandledInv
<1>g. LedgerGrows
  <2>1. past' = past \/ past' = [past EXCEPT ![hand[w].payment] = @ \cup {Outcome(hand[w])}]
    BY DEF Handle, SkipMarked, CheckUnmarked, Accept, AlreadyFailed, Refuse, Update, Produce,
           ProduceUnanswered, FailUseCase, Mark, FailCheck, FailMark, ledgerVars
  <2>2. notices' = notices \/ notices' = [notices EXCEPT ![hand[w]] = @ + 1]
    BY DEF Handle, SkipMarked, CheckUnmarked, Accept, AlreadyFailed, Refuse, Update, Produce,
           ProduceUnanswered, FailUseCase, Mark, FailCheck, FailMark, ledgerVars
  <2> QED BY <1>b, <1>t, <2>1, <2>2 DEF LedgerGrows
<1>o. \A v \in Workers : v # w => pc'[v] = pc[v] /\ hand'[v] = hand[v]
  <2>1. /\ \E s : pc' = [pc EXCEPT ![w] = s]
        /\ hand' = hand \/ hand' = [hand EXCEPT ![w] = NoEvent]
    BY DEF Handle, SkipMarked, CheckUnmarked, Accept, AlreadyFailed, Refuse, Update, Produce,
           ProduceUnanswered, FailUseCase, Mark, FailCheck, FailMark, Finish, Redeliver, Goto
  <2> QED BY <1>t, <2>1
<1>1. StepIsFounded(w)'
  <2>1. CASE \/ SkipMarked(w) \/ Refuse(w) \/ ProduceUnanswered(w) \/ FailUseCase(w)
             \/ Mark(w) \/ FailCheck(w) \/ FailMark(w)
    <3>1. pc'[w] = "idle"
      BY <1>t, <2>1 DEF SkipMarked, Refuse, ProduceUnanswered, FailUseCase, Mark, FailCheck,
         FailMark, Finish, Redeliver
    <3> QED BY <3>1 DEF StepIsFounded
  <2>2. CASE CheckUnmarked(w)
    <3>1. hand' = hand /\ pc'[w] = IF Outcome(hand[w]) = "none" THEN "mark" ELSE "find"
      BY <1>t, <2>2 DEF CheckUnmarked, Goto
    <3> QED BY <3>1 DEF StepIsFounded, HandledWell
  <2>3. CASE Accept(w)
    <3>1. hand' = hand /\ pc'[w] = "update" /\ pc[w] = "find" /\ NamesItsOrder(hand[w])
      BY <1>t, <2>3 DEF Accept, Goto
    <3> QED BY <1>f, <3>1 DEF StepIsFounded
  <2>4. CASE AlreadyFailed(w)
    <3>1. /\ hand' = hand /\ pc'[w] = "mark" /\ NamesItsOrder(hand[w]) /\ past' = past
          /\ past[hand[w].payment] \cap Repeated(hand[w]) # {}
      BY <1>t, <2>4 DEF AlreadyFailed, Goto, ledgerVars
    <3>2. Outcome(hand[w]) = "failed" /\ "failed" \in past[hand[w].payment]
      BY <3>1 DEF Repeated
    <3> QED BY <3>1, <3>2 DEF StepIsFounded, HandledWell
  <2>5. CASE Update(w)
    <3>1. /\ hand' = hand /\ pc'[w] = "produce" /\ pc[w] = "update"
          /\ past' = [past EXCEPT ![hand[w].payment] = @ \cup {Outcome(hand[w])}]
      BY <1>t, <2>5 DEF Update, Goto
    <3>2. Outcome(hand[w]) \in past'[hand[w].payment]
      BY <1>b, <1>t, <3>1
    <3> QED BY <1>f, <3>1, <3>2 DEF StepIsFounded
  <2>6. CASE Produce(w)
    <3>1. /\ hand' = hand /\ pc'[w] = "mark" /\ pc[w] = "produce" /\ past' = past
          /\ notices' = [notices EXCEPT ![hand[w]] = @ + 1]
      BY <1>t, <2>6 DEF Produce, Goto
    <3>2. notices'[hand[w]] >= 1
      BY <1>b, <1>t, <3>1
    <3> QED BY <1>f, <3>1, <3>2 DEF StepIsFounded, HandledWell
  <2> QED BY <2>1, <2>2, <2>3, <2>4, <2>5, <2>6 DEF Handle
<1>2. ASSUME NEW v \in Workers PROVE StepIsFounded(v)'
  <2>1. CASE v = w
    BY <1>1, <2>1
  <2>2. CASE v # w
    BY <1>g, <1>o, <2>2, FoundedStays DEF HandledInv
  <2> QED BY <2>1, <2>2
<1>3. ASSUME NEW e \in marked' PROVE HandledWell(e)'
  <2>1. e \in marked \/ (e = hand[w] /\ pc[w] = "mark")
    BY <1>3 DEF Handle, SkipMarked, CheckUnmarked, Accept, AlreadyFailed, Refuse, Update, Produce,
           ProduceUnanswered, FailUseCase, Mark, FailCheck, FailMark, ledgerVars
  <2>2. e \in Events /\ HandledWell(e)
    BY <1>b, <1>f, <2>1 DEF StepIsFounded, GroupInv, TypeOK
  <2> QED BY <1>g, <2>2, HandledStays
<1> QED BY <1>g, <1>2, <1>3 DEF HandledInv

----------------------------------------------------------------------------
(* One handler and one announcement, for an event nothing has disturbed.   *)

LEMMA OneHolder ==
  ASSUME GroupInv, NEW v \in Workers, NEW w \in Workers,
         hand[v] \in Events, hand[w] = hand[v], hand[v] \notin disturbed
  PROVE  v = w
BY DEF GroupInv, HandIsHeld

\* A step of w that does not concern the event: w does not have it in hand, or
\* only takes it up.
LEMMA OnceOthers ==
  ASSUME NEW e \in Events, OnceOnly(e), NEW w \in Workers, hand[w] # e,
         hand'[w] = e => pc'[w] \in {"idle", "check"},
         \A v \in Workers : v # w => pc'[v] = pc[v] /\ hand'[v] = hand[v],
         notices'[e] = notices[e], marked \subseteq marked', disturbed \subseteq disturbed'
  PROVE  OnceOnly(e)'
BY DEF OnceOnly

LEMMA OnceHandle ==
  ASSUME GroupInv, NEW e \in Events, OnceOnly(e), NEW w \in Workers, Handle(w)
  PROVE  OnceOnly(e)'
<1>t. /\ pc \in [Workers -> Steps] /\ hand \in [Workers -> Events \cup {NoEvent}]
      /\ notices \in [Events -> Nat]
  BY DEF GroupInv, TypeOK
<1>o. \A v \in Workers : v # w => pc'[v] = pc[v] /\ hand'[v] = hand[v]
  <2>1. /\ \E s : pc' = [pc EXCEPT ![w] = s]
        /\ hand' = hand \/ hand' = [hand EXCEPT ![w] = NoEvent]
    BY DEF Handle, SkipMarked, CheckUnmarked, Accept, AlreadyFailed, Refuse, Update, Produce,
           ProduceUnanswered, FailUseCase, Mark, FailCheck, FailMark, Finish, Redeliver, Goto
  <2> QED BY <1>t, <2>1
<1>m. marked \subseteq marked' /\ disturbed \subseteq disturbed'
  BY DEF Handle, SkipMarked, CheckUnmarked, Accept, AlreadyFailed, Refuse, Update, Produce,
         ProduceUnanswered, FailUseCase, Mark, FailCheck, FailMark, ledgerVars
<1>1. CASE hand[w] # e
  <2>1. notices'[e] = notices[e]
    BY <1>1, <1>t DEF Handle, SkipMarked, CheckUnmarked, Accept, AlreadyFailed, Refuse, Update,
       Produce, ProduceUnanswered, FailUseCase, Mark, FailCheck, FailMark, ledgerVars
  <2>2. hand'[w] # e
    BY <1>1, <1>t, Names DEF Handle, SkipMarked, CheckUnmarked, Accept, AlreadyFailed, Refuse,
       Update, Produce, ProduceUnanswered, FailUseCase, Mark, FailCheck, FailMark, Finish, Redeliver, Goto
  <2> QED BY <1>1, <1>m, <1>o, <2>1, <2>2, OnceOthers
<1>2. CASE hand[w] = e /\ e \in disturbed'
  BY <1>2 DEF OnceOnly
<1>3. CASE hand[w] = e /\ e \notin disturbed'
  <2>1. \A v \in Workers : hand[v] = e => v = w
    BY <1>3, <1>m, OneHolder
  <2>2. \A v \in Workers : hand'[v] = e => v = w
    BY <1>o, <2>1
  <2>3. /\ notices[e] \in Nat /\ notices[e] <= 1
        /\ notices[e] = 1 => e \in marked \/ pc[w] = "mark"
        /\ pc[w] \in {"find", "update", "produce"} => notices[e] = 0
    BY <1>3, <1>m, <1>t, <2>1 DEF OnceOnly
  <2>4. SUFFICES /\ notices'[e] <= 1
                 /\ notices'[e] = 1 => e \in marked' \/ (hand'[w] = e /\ pc'[w] = "mark")
                 /\ pc'[w] \in {"find", "update", "produce"} => notices'[e] = 0
    BY <2>2 DEF OnceOnly
  <2>5. CASE SkipMarked(w)
    <3>1. e \in marked' /\ pc'[w] = "idle" /\ notices' = notices
      BY <1>3, <1>t, <2>5 DEF SkipMarked, Finish, ledgerVars
    <3> QED BY <2>3, <3>1
  <2>6. CASE CheckUnmarked(w)
    <3>1. e \notin marked /\ pc[w] = "check" /\ notices' = notices
      BY <1>3, <2>6 DEF CheckUnmarked, ledgerVars
    <3>2. notices'[e] = 0
      BY <2>3, <3>1
    <3> QED BY <3>2
  <2>7. CASE Accept(w) \/ AlreadyFailed(w) \/ Update(w) \/ Refuse(w)
    <3>1. pc[w] \in {"find", "update", "produce"} /\ notices' = notices
      BY <2>7 DEF Accept, AlreadyFailed, Update, Refuse, ledgerVars
    <3> QED BY <2>3, <3>1
  <2>8. CASE Produce(w)
    <3>1. /\ pc[w] = "produce" /\ pc'[w] = "mark" /\ hand' = hand
          /\ notices' = [notices EXCEPT ![hand[w]] = @ + 1]
      BY <1>t, <2>8 DEF Produce, Goto
    <3>2. notices'[e] = 1
      BY <1>3, <1>t, <2>3, <3>1
    <3> QED BY <1>3, <3>1, <3>2
  <2>9. CASE Mark(w)
    <3>1. e \in marked' /\ pc'[w] = "idle" /\ notices' = notices
      BY <1>3, <1>t, <2>9 DEF Mark, Finish
    <3> QED BY <2>3, <3>1
  <2>10. CASE ProduceUnanswered(w) \/ FailUseCase(w) \/ FailMark(w)
    BY <1>3, <2>10 DEF ProduceUnanswered, FailUseCase, FailMark
  <2>11. CASE FailCheck(w)
    <3>1. pc[w] = "check" /\ pc'[w] = "idle" /\ notices' = notices /\ marked' = marked
      BY <1>t, <2>11 DEF FailCheck, Redeliver, ledgerVars
    <3> QED BY <2>3, <3>1
  <2> QED BY <2>5, <2>6, <2>7, <2>8, <2>9, <2>10, <2>11 DEF Handle
<1> QED BY <1>1, <1>2, <1>3

----------------------------------------------------------------------------
(* The invariant is inductive.                                             *)

LEMMA EventsInit == Init => EventsInv
<1> SUFFICES ASSUME Init PROVE EventsInv
  OBVIOUS
<1>1. GroupInv
  BY GroupInit
<1>2. AnsweredIsLogged /\ ConsumedIsSettled
  BY Names DEF Init, AnsweredIsLogged, ConsumedIsSettled, Within
<1>3. HandledInv
  BY DEF Init, HandledInv, StepIsFounded
<1>4. \A e \in Events : OnceOnly(e)
  BY DEF Init, OnceOnly
<1> QED BY <1>1, <1>2, <1>3, <1>4 DEF EventsInv

\* Steps that leave the log alone leave AnsweredIsLogged alone.
LEMMA AnsweredStays ==
  ASSUME AnsweredIsLogged, UNCHANGED <<answered, log>>
  PROVE  AnsweredIsLogged'
BY DEF AnsweredIsLogged, InLog, Within

LEMMA EventsEndpoint ==
  ASSUME EventsInv, NEW e \in Events, Drop(e) \/ Publish(e) \/ PublishUnanswered(e)
  PROVE  EventsInv'
<1>t. GroupInv /\ TypeOK /\ KeyedByProvider
  BY DEF EventsInv, GroupInv
<1>1. UNCHANGED <<groupVars, workVars, ledgerVars>>
  BY DEF Drop, Publish, PublishUnanswered
<1>2. /\ \A p \in Partitions :
           /\ Len(log[p]) \in Nat /\ Len(log'[p]) \in Nat /\ Len(log[p]) <= Len(log'[p])
           /\ \A i \in 1..Len(log[p]) : log'[p][i] = log[p][i]
      /\ Publish(e) => InLog(e)'
  <2>1. CASE Drop(e) /\ ~Publish(e)
    BY <1>t, <2>1 DEF Drop, TypeOK
  <2>2. CASE Publish(e) \/ PublishUnanswered(e)
    <3>1. AppendToLog(e)
      BY <2>2 DEF Publish, PublishUnanswered
    <3>2. log \in [Partitions -> Seq(Events)] /\ log' \in [Partitions -> Seq(Events)]
      BY <1>t, <3>1, LogGrows DEF TypeOK
    <3>3. \A p \in Partitions : Len(log[p]) \in Nat /\ Len(log'[p]) \in Nat
      BY <3>2
    <3> QED BY <1>t, <3>1, <3>3, LogGrows DEF InLog, Within
  <2> QED BY <2>1, <2>2
<1>3. AnsweredIsLogged'
  <2> SUFFICES ASSUME NEW d \in answered', Allowed(d), d.provider \notin Unverified PROVE InLog(d)'
    BY DEF AnsweredIsLogged, Allowed
  <2>1. d \in answered \/ (d = e /\ Publish(e))
    BY DEF Drop, Publish, PublishUnanswered, Answer
  <2>2. CASE d \in answered
    <3>1. d \in Events /\ d.provider \in Partitions /\ InLog(d)
      BY <1>t, <2>2, Names DEF EventsInv, AnsweredIsLogged, TypeOK
    <3> QED BY <1>2, <3>1 DEF InLog, Within
  <2> QED BY <1>2, <2>1, <2>2
<1>4. ConsumedIsSettled'
  <2>1. \A p \in Partitions : position[p] \in Nat
    BY <1>t DEF TypeOK
  <2> QED BY <1>1, <1>2, <1>t, <2>1, SettledStays DEF EventsInv, groupVars, ledgerVars
<1>5. HandledInv' /\ \A d \in Events : OnceOnly(d)'
  BY <1>1 DEF EventsInv, HandledInv, StepIsFounded, HandledWell, OnceOnly, workVars, ledgerVars
<1> QED BY <1>t, <1>3, <1>4, <1>5, GroupEndpoint DEF EventsInv

LEMMA EventsAssign ==
  ASSUME EventsInv, NEW p \in Partitions, NEW w \in Workers, Assign(p, w)
  PROVE  EventsInv'
<1>1. UNCHANGED <<answered, log, workVars, ledgerVars>>
  BY DEF Assign
<1>2. \A q \in Partitions : position'[q] \in Nat /\ position'[q] <= position[q]
  <2>1. PICK c \in started[p]..position[p] : position' = [position EXCEPT ![p] = c]
    BY DEF Assign
  <2>2. c \in Nat /\ c <= position[p] /\ position \in [Partitions -> Nat]
    BY <2>1 DEF EventsInv, GroupInv, TypeOK
  <2> QED BY <2>1, <2>2
<1>3. ConsumedIsSettled'
  BY <1>1, <1>2, SettledStays DEF EventsInv, ledgerVars
<1>4. HandledInv' /\ \A d \in Events : OnceOnly(d)'
  BY <1>1 DEF EventsInv, HandledInv, StepIsFounded, HandledWell, OnceOnly, workVars, ledgerVars
<1> QED BY <1>1, <1>3, <1>4, AnsweredStays, GroupAssign DEF EventsInv

LEMMA EventsRevoke ==
  ASSUME EventsInv, NEW p \in Partitions, Revoke(p)
  PROVE  EventsInv'
<1>1. /\ UNCHANGED <<answered, log, position, workVars, past, marked, notices, refused>>
      /\ disturbed \subseteq disturbed'
  BY DEF Revoke
<1>2. ConsumedIsSettled'
  <2>1. \A q \in Partitions : position[q] \in Nat
    BY DEF EventsInv, GroupInv, TypeOK
  <2> QED BY <1>1, <2>1, SettledStays DEF EventsInv
<1>3. HandledInv' /\ \A d \in Events : OnceOnly(d)'
  BY <1>1 DEF EventsInv, HandledInv, StepIsFounded, HandledWell, OnceOnly, workVars
<1> QED BY <1>1, <1>2, <1>3, AnsweredStays, GroupRevoke DEF EventsInv

LEMMA EventsCrash ==
  ASSUME EventsInv, NEW w \in Workers, Crash(w)
  PROVE  EventsInv'
<1>1. /\ UNCHANGED <<answered, log, position, past, marked, notices, refused>>
      /\ disturbed' = disturbed \cup InHand(w, Partitions)
      /\ pc' = [pc EXCEPT ![w] = "idle"]
      /\ hand' = [hand EXCEPT ![w] = NoEvent]
  BY DEF Crash
<1>2. pc'[w] = "idle" /\ \A v \in Workers : v # w => pc'[v] = pc[v] /\ hand'[v] = hand[v]
  BY <1>1 DEF EventsInv, GroupInv, TypeOK
<1>3. ConsumedIsSettled'
  <2>1. \A q \in Partitions : position[q] \in Nat
    BY DEF EventsInv, GroupInv, TypeOK
  <2> QED BY <1>1, <2>1, SettledStays DEF EventsInv
<1>4. HandledInv'
  BY <1>1, <1>2 DEF EventsInv, HandledInv, StepIsFounded, HandledWell
<1>5. ASSUME NEW d \in Events PROVE OnceOnly(d)'
  <2>1. CASE hand[w] = d
    <3>1. d \in disturbed'
      BY <1>1, <2>1, Names DEF EventsInv, GroupInv, HandIsHeld, InHand
    <3> QED BY <3>1 DEF OnceOnly
  <2>2. CASE hand[w] # d
    BY <1>1, <1>2, <2>2, OnceOthers DEF EventsInv
  <2> QED BY <2>1, <2>2
<1> QED BY <1>1, <1>3, <1>4, <1>5, AnsweredStays, GroupCrash DEF EventsInv

LEMMA EventsTake ==
  ASSUME EventsInv, NEW p \in Partitions, NEW w \in Workers, Take(w, p)
  PROVE  EventsInv'
<1>1. /\ UNCHANGED <<answered, log, groupVars, ledgerVars>>
      /\ ~Busy(w)
      /\ pc' = [pc EXCEPT ![w] = "check"]
      /\ hand' = [hand EXCEPT ![w] = log[p][position[p] + 1]]
  BY DEF Take
<1>2. pc'[w] = "check" /\ \A v \in Workers : v # w => pc'[v] = pc[v] /\ hand'[v] = hand[v]
  BY <1>1 DEF EventsInv, GroupInv, TypeOK
<1>3. ConsumedIsSettled'
  <2>1. \A q \in Partitions : position[q] \in Nat
    BY DEF EventsInv, GroupInv, TypeOK
  <2> QED BY <1>1, <2>1, SettledStays DEF EventsInv, groupVars, ledgerVars
<1>4. HandledInv'
  BY <1>1, <1>2 DEF EventsInv, HandledInv, StepIsFounded, HandledWell, ledgerVars
<1>5. ASSUME NEW d \in Events PROVE OnceOnly(d)'
  <2>1. hand[w] # d
    BY <1>1 DEF EventsInv, GroupInv, HandIsHeld
  <2> QED BY <1>1, <1>2, <2>1, OnceOthers DEF EventsInv, ledgerVars
<1> QED BY <1>1, <1>3, <1>4, <1>5, AnsweredStays, GroupTake DEF EventsInv

LEMMA EventsHandle ==
  ASSUME EventsInv, NEW w \in Workers, Handle(w)
  PROVE  EventsInv'
<1>1. GroupInv'
  BY GroupHandle DEF EventsInv, HandledInv
<1>2. AnsweredIsLogged'
  <2>1. UNCHANGED <<answered, log>>
    BY DEF Handle, SkipMarked, CheckUnmarked, Accept, AlreadyFailed, Refuse, Update, Produce,
           ProduceUnanswered, FailUseCase, Mark, FailCheck, FailMark, Finish, Redeliver, Goto
  <2> QED BY <2>1, AnsweredStays DEF EventsInv
<1>3. ConsumedIsSettled' /\ HandledInv' /\ \A e \in Events : OnceOnly(e)'
  BY SettledHandle, HandledHandle, OnceHandle DEF EventsInv
<1> QED BY <1>1, <1>2, <1>3 DEF EventsInv

LEMMA EventsElsewhere ==
  ASSUME EventsInv, NEW m \in Payments, NEW s \in OtherStatuses, Elsewhere(m, s)
  PROVE  EventsInv'
<1>1. /\ past' = [past EXCEPT ![m] = @ \cup {s}]
      /\ UNCHANGED <<answered, log, groupVars, workVars, marked, notices, refused, disturbed>>
  BY DEF Elsewhere
<1>2. TypeOK /\ s \in Statuses
  BY StatusesAssumption DEF EventsInv, GroupInv, Statuses
<1>3. past' \in [Payments -> SUBSET Statuses]
  BY <1>1, <1>2 DEF TypeOK
<1>4. GroupInv'
  BY <1>1, <1>3 DEF EventsInv, GroupInv, TypeOK, KeyedByProvider, HandIsHeld, Busy, groupVars, workVars
<1>5. LedgerGrows
  BY <1>1, <1>2 DEF LedgerGrows, TypeOK
<1>6. HandledInv'
  <2>1. \A v \in Workers : StepIsFounded(v)'
    BY <1>1, <1>5, FoundedStays DEF EventsInv, HandledInv, workVars
  <2>2. \A e \in marked' : HandledWell(e)'
    BY <1>1, <1>2, <1>5, HandledStays DEF EventsInv, HandledInv, TypeOK
  <2> QED BY <2>1, <2>2 DEF HandledInv
<1>7. ConsumedIsSettled'
  <2>1. \A q \in Partitions : position[q] \in Nat
    BY <1>2 DEF TypeOK
  <2> QED BY <1>1, <2>1, SettledStays DEF EventsInv, groupVars
<1>8. \A e \in Events : OnceOnly(e)'
  BY <1>1 DEF EventsInv, OnceOnly, workVars
<1> QED BY <1>1, <1>4, <1>6, <1>7, <1>8, AnsweredStays DEF EventsInv

LEMMA EventsStep == EventsInv /\ [Next]_vars => EventsInv'
<1> SUFFICES ASSUME EventsInv, [Next]_vars PROVE EventsInv'
  OBVIOUS
<1>1. ASSUME NEW e \in Events, Drop(e) \/ Publish(e) \/ PublishUnanswered(e) PROVE EventsInv'
  BY <1>1, EventsEndpoint
<1>2. ASSUME NEW p \in Partitions, Revoke(p) PROVE EventsInv'
  BY <1>2, EventsRevoke
<1>3. ASSUME NEW p \in Partitions, NEW w \in Workers, Assign(p, w) \/ Take(w, p) PROVE EventsInv'
  BY <1>3, EventsAssign, EventsTake
<1>4. ASSUME NEW w \in Workers, Handle(w) \/ Crash(w) PROVE EventsInv'
  BY <1>4, EventsHandle, EventsCrash
<1>5. ASSUME NEW m \in Payments, NEW s \in OtherStatuses, Elsewhere(m, s) PROVE EventsInv'
  BY <1>5, EventsElsewhere
<1>6. CASE UNCHANGED vars
  BY <1>6 DEF vars, groupVars, workVars, ledgerVars, EventsInv, GroupInv, TypeOK, KeyedByProvider,
              HandIsHeld, Busy, AnsweredIsLogged, InLog, Within, ConsumedIsSettled,
              HandledInv, StepIsFounded, HandledWell, OnceOnly
<1> QED BY <1>1, <1>2, <1>3, <1>4, <1>5, <1>6 DEF Next

LEMMA EventsInvariant == Spec => []EventsInv
BY EventsInit, EventsStep, PTL DEF Spec

----------------------------------------------------------------------------

\* The types, and that a consumer reads where its partition has messages.
THEOREM EventsTypes == Spec => []TypeOK
<1>1. EventsInv => TypeOK
  BY DEF EventsInv, GroupInv
<1> QED BY <1>1, EventsInvariant, PTL

\* The endpoint answers 2xx only for what is in the log, PayPal's dropped ones excepted.
THEOREM AnsweredLogged == Spec => []AnsweredIsLogged
<1>1. EventsInv => AnsweredIsLogged
  BY DEF EventsInv
<1> QED BY <1>1, EventsInvariant, PTL

\* The consumer marks no event whose outcome is lost.
THEOREM MarkedHandled == Spec => []MarkedWasHandled
<1>1. EventsInv => MarkedWasHandled
  BY DEF EventsInv, HandledInv, HandledWell, MarkedWasHandled
<1> QED BY <1>1, EventsInvariant, PTL

\* The consumer announces an outcome once for each event nothing has disturbed,
\* whatever the log holds and however the group moves its partitions.
THEOREM Deduplicated == Spec => []RepeatsAreDeduplicated
<1>1. EventsInv => RepeatsAreDeduplicated
  BY DEF EventsInv, GroupInv, TypeOK, OnceOnly, RepeatsAreDeduplicated
<1> QED BY <1>1, EventsInvariant, PTL

\* No consumer goes past an event in silence.
THEOREM ConsumedSettled == Spec => []ConsumedIsSettled
<1>1. EventsInv => ConsumedIsSettled
  BY DEF EventsInv
<1> QED BY <1>1, EventsInvariant, PTL
===============================================================================
