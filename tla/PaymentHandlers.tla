--------------------------- MODULE PaymentHandlers ---------------------------
(***************************************************************************)
(* The six use cases that move a payment, running concurrently over one    *)
(* database and one Redis: create, resolve and cancel (gRPC calls, here    *)
(* from the point where the idempotency service has let them in), success  *)
(* and failure (provider events taken from Kafka), and timeout (the        *)
(* sweeper and the Redis worker).  A handler is one activation of one use  *)
(* case.  Node.js runs it without interruption between two awaits, so each *)
(* step below ends at an await, and any other handler may run in between.  *)
(* A step may also fail: the use case throws, or the process dies, and     *)
(* what the handler had in memory is gone.                                 *)
(***************************************************************************)
EXTENDS PaymentStore

CONSTANTS
  Kinds,        \* the use cases that are called
  Serial,       \* TRUE: calls about one payment do not overlap
  StaleReads    \* FALSE: no call is made while an entry it would be served
                \* from is older than the row (the entry lapses first)
                \* The code ensures neither: FALSE and TRUE is the service as
                \* it is, and the other values only serve to show which of
                \* the two a counterexample needs.

OrderKinds == {"resolve", "cancel", "success", "failure"}
AllKinds   == OrderKinds \cup {"create", "timeout"}

ASSUME KindsAssumption == Kinds \subseteq AllKinds
ASSUME EnvironmentAssumption == Serial \in BOOLEAN /\ StaleReads \in BOOLEAN

VARIABLES
  pc,         \* where each handler is
  kind,       \* the use case it runs
  key,        \* the cache key of what its call names
  snap,       \* the version of the payment it has in memory
  base,       \* the version it takes to be in the row  (history variable)
  fromCache,  \* was that version parsed from a Redis entry
  unsaved,    \* sessions of that version that create still has to save
  issued,     \* [Orders -> the payment the provider created it for, or "none"]
  events,     \* [topic, id, status, order] records published to Kafka
  unannounced, \* <<payment, status>>: outcomes whose handler broke off between
               \* its write and its event  (history variable)
  overwritten  \* <<payment, handler>>: rows the handler wrote from a version
               \* that was no longer theirs  (history variable)

localVars == <<pc, kind, key, snap, base, fromCache, unsaved>>
worldVars == <<issued, events, unannounced, overwritten>>
vars == <<storeVars, localVars, worldVars>>

Steps == {"idle", "lookup", "query", "fill", "loaded", "called", "save",
          "sessions", "cacheId", "cacheKey", "schedule", "publish", "done"}

Active(h) == pc[h] \notin {"idle", "done"}

\* The order a handler's call names, for the kinds that name one.
OrderOf(h) == key[h][2]

----------------------------------------------------------------------------
NoKey == <<"none", "none">>

Init ==
  /\ StoreInit
  /\ pc = [h \in Handlers |-> "idle"]
  /\ kind = [h \in Handlers |-> "none"]
  /\ key = [h \in Handlers |-> NoKey]
  /\ snap = [h \in Handlers |-> NoVersion]
  /\ base = [h \in Handlers |-> NoVersion]
  /\ fromCache = [h \in Handlers |-> FALSE]
  /\ unsaved = [h \in Handlers |-> {}]
  /\ issued = [o \in Orders |-> "none"]
  /\ events = {}
  /\ unannounced = {} /\ overwritten = {}

Goto(h, step) == pc' = [pc EXCEPT ![h] = step]

\* On to the next round trip.
Move(h, step) == Goto(h, step) /\ UNCHANGED <<kind, key, snap, base, fromCache, unsaved>>

\* The use case returns or throws; what it had in memory is gone.
End(h) ==
  /\ Goto(h, "done")
  /\ kind' = [kind EXCEPT ![h] = "none"]
  /\ key' = [key EXCEPT ![h] = NoKey]
  /\ snap' = [snap EXCEPT ![h] = NoVersion]
  /\ base' = [base EXCEPT ![h] = NoVersion]
  /\ fromCache' = [fromCache EXCEPT ![h] = FALSE]
  /\ unsaved' = [unsaved EXCEPT ![h] = {}]

MoveIf(cond, h, step) == IF cond THEN Move(h, step) ELSE End(h)

Issued == {o \in Orders : issued[o] # "none"}

\* What a call may name: an order the provider has issued; the payment a
\* timeout was recorded for; any idempotency key.
Target(kd, k) ==
  \/ kd \in OrderKinds /\ k \in {OrderKey(o) : o \in Issued}
  \/ kd = "timeout"    /\ k \in {IdKey(p) : p \in {q \in Payments : db[q] # NoVersion}}
  \/ kd = "create"     /\ k \in {IdempotencyKey(p) : p \in Payments}

\* The payment a call is about.
Subject(k) == IF k \in OrderKeys THEN issued[k[2]] ELSE k[2]

Start(h, kd, k) ==
  /\ pc[h] = "idle"
  /\ Serial => \A g \in Handlers : Active(g) => Subject(key[g]) # Subject(k)
  /\ Target(kd, k)
  /\ Goto(h, "lookup")
  /\ kind' = [kind EXCEPT ![h] = kd]
  /\ key' = [key EXCEPT ![h] = k]
  /\ UNCHANGED <<storeVars, snap, base, fromCache, unsaved, worldVars>>

----------------------------------------------------------------------------
(* The finder: findByProviderOrderId, findByIdempotencyKey or findById,    *)
(* which differ only in the entry and the column they look at.             *)

FindCached(h) ==
  LET v == cache[key[h]] IN
  /\ pc[h] = "lookup"
  /\ v # NoVersion
  /\ StaleReads \/ v = db[v.id]
  /\ Goto(h, "loaded")
  /\ snap' = [snap EXCEPT ![h] = v]
  /\ base' = [base EXCEPT ![h] = v]
  /\ fromCache' = [fromCache EXCEPT ![h] = TRUE]
  /\ UNCHANGED <<storeVars, kind, key, unsaved, worldVars>>

MissCache(h) ==
  /\ pc[h] = "lookup"
  /\ cache[key[h]] = NoVersion
  /\ Move(h, "query")
  /\ UNCHANGED <<storeVars, worldVars>>

QueryRow(h, p) ==
  /\ pc[h] = "query"
  /\ Matches(key[h], db[p])
  /\ Goto(h, "fill")
  /\ snap' = [snap EXCEPT ![h] = db[p]]
  /\ base' = [base EXCEPT ![h] = db[p]]
  /\ UNCHANGED <<storeVars, kind, key, fromCache, unsaved, worldVars>>

\* No row: create goes on with a payment to be made, every other use case
\* throws NotFound.
QueryNothing(h) ==
  /\ pc[h] = "query"
  /\ \A p \in Payments : ~Matches(key[h], db[p])
  /\ MoveIf(kind[h] = "create", h, "loaded")
  /\ UNCHANGED <<storeVars, worldVars>>

FillCache(h) ==
  /\ pc[h] = "fill"
  /\ CacheSet(key[h], snap[h])
  /\ Move(h, "loaded")
  /\ UNCHANGED worldVars

----------------------------------------------------------------------------
(* The use cases: what each accepts, and the provider call some make.      *)

\* The statuses from which a use case goes on; from the others it throws or
\* returns early.
Accepted(kd) ==
  CASE kd \in {"cancel", "failure", "timeout"} -> {"pending"}
    [] kd = "success"                          -> {"pending", "resolved"}
    [] OTHER                                   -> Statuses

Accepts(h) == snap[h] # NoVersion => snap[h].status \in Accepted(kind[h])

TurnAway(h) ==
  /\ pc[h] = "loaded"
  /\ ~Accepts(h)
  /\ End(h)
  /\ UNCHANGED <<storeVars, worldVars>>

\* The provider answers a create call with a new order, or with one it has
\* issued for the same idempotency key.
Issue(o, p) ==
  /\ issued[o] \in {"none", p}
  /\ issued' = [issued EXCEPT ![o] = p]

\* The provider creates an order and the answer is lost: the retry may get
\* this one or another.
LoseProviderOrder(h, o) ==
  /\ pc[h] = "loaded" /\ kind[h] = "create"
  /\ issued[o] = "none"
  /\ Issue(o, key[h][2])
  /\ UNCHANGED <<storeVars, localVars, events, unannounced, overwritten>>

\* create: the provider's order is recorded in a new session of the payment,
\* which is made now if none was found.
CreateProviderOrder(h, o) ==
  /\ pc[h] = "loaded" /\ kind[h] = "create"
  /\ Issue(o, key[h][2])
  /\ Goto(h, "save")
  /\ snap' = [snap EXCEPT ![h] = IF @ = NoVersion THEN Created(key[h][2], <<o, h>>)
                                                  ELSE WithSession(@, <<o, h>>)]
  /\ unsaved' = [unsaved EXCEPT ![h] = snap'[h].sessions]
  /\ UNCHANGED <<storeVars, kind, key, base, fromCache, events, unannounced, overwritten>>

\* resolve and cancel: the strategy's call has returned.  Whether it asked the
\* provider (PayPal's cancel and Razorpay's resolve do not) and what it answered
\* makes no difference to what is written (ProviderCalls looks into it).
CallProvider(h) ==
  /\ pc[h] = "loaded" /\ kind[h] \in {"resolve", "cancel"}
  /\ Accepts(h)
  /\ Move(h, "called")
  /\ UNCHANGED <<storeVars, worldVars>>

\* Mutant: Redis is updated before the database.
MarkAndCache(h, at, target, v) ==
  /\ pc[h] = at
  /\ Accepts(h)
  /\ MayBecome(snap[h], target)
  /\ Goto(h, "cacheId")
  /\ snap' = [snap EXCEPT ![h] = v]
  /\ UNCHANGED <<storeVars, kind, key, base, fromCache, unsaved, worldVars>>

\* Mutant: the event is produced, the update forgotten.
MarkAndPublish(h, at, target, v) ==
  /\ pc[h] = at
  /\ Accepts(h)
  /\ MayBecome(snap[h], target)
  /\ Goto(h, "publish")
  /\ snap' = [snap EXCEPT ![h] = v]
  /\ UNCHANGED <<storeVars, kind, key, base, fromCache, unsaved, worldVars>>

\* mark*: the version to write, if the table of transitions allows it.
Mark(h, at, target, v) ==
  /\ pc[h] = at
  /\ Accepts(h)
  /\ MayBecome(snap[h], target)
  /\ Goto(h, "save")
  /\ snap' = [snap EXCEPT ![h] = v]
  /\ UNCHANGED <<storeVars, kind, key, base, fromCache, unsaved, worldVars>>

MarkSucceed(h) ==
  kind[h] = "success" /\ Mark(h, "loaded", "success", Become(snap[h], "success"))
MarkFailed(h) ==
  kind[h] = "failure" /\ Mark(h, "loaded", "failed", Become(snap[h], "failed"))
MarkExpired(h) ==
  kind[h] = "timeout" /\ Mark(h, "loaded", "expired", Become(snap[h], "expired"))
MarkCancel(h) ==
  kind[h] = "cancel" /\ Mark(h, "called", "cancelled", Cancelled(snap[h], OrderOf(h)))

\* resolve captures the session and, when the payment is in a terminal
\* status, skips markResolved but not the update.
Resolvable(v) == v.status \in Terminal \/ MayBecome(v, "resolved")

MarkResolved(h) ==
  /\ pc[h] = "called" /\ kind[h] = "resolve"
  /\ Resolvable(snap[h])
  /\ Goto(h, "save")
  /\ \E found \in Lookup(snap[h], OrderOf(h)) :
        snap' = [snap EXCEPT ![h] = Resolved(@, found)]
  /\ UNCHANGED <<storeVars, kind, key, base, fromCache, unsaved, worldVars>>

\* A payment that is RESOLVED already: the table refuses and markResolved throws.
RefuseResolved(h) ==
  /\ pc[h] = "called" /\ kind[h] = "resolve"
  /\ ~Resolvable(snap[h])
  /\ End(h)
  /\ UNCHANGED <<storeVars, worldVars>>

----------------------------------------------------------------------------
(* The write: save (create) and update (all others), then the event.       *)

\* The session a create has made.
NewSession(h) == <<snap[h].order, h>>

\* Only a payment create has just made has no session but the new one.
IsNew(h) == kind[h] = "create" /\ snap[h].sessions = {NewSession(h)}

Writable(h) ==
  IF IsNew(h)
  THEN Insertable(snap[h])
  ELSE Updatable(snap[h])

\* Somebody has written the row since h read or wrote it.
Outdated(h) == base[h] # db[snap[h].id]

SaveRow(h) ==
  /\ pc[h] = "save"
  /\ Writable(h)
  /\ Commit(snap[h])
  /\ Goto(h, IF kind[h] = "create" THEN "sessions" ELSE "cacheId")
  /\ base' = [base EXCEPT ![h] = snap[h]]
  /\ overwritten' = IF Outdated(h) THEN overwritten \cup {<<snap[h].id, h>>} ELSE overwritten
  /\ UNCHANGED <<kind, key, snap, fromCache, unsaved, issued, events, unannounced>>

\* Mutant: an update the database refused is taken for done.
IgnoreRefusal(h) ==
  /\ pc[h] = "save"
  /\ ~Writable(h)
  /\ Move(h, "publish")
  /\ UNCHANGED <<storeVars, worldVars>>

RefuseRow(h) ==
  /\ pc[h] = "save"
  /\ ~Writable(h)
  /\ End(h)
  /\ UNCHANGED <<storeVars, worldVars>>

\* save goes on to write the sessions again, one by one, the new one last.
SaveSession(h, s) ==
  /\ pc[h] = "sessions"
  /\ s \in unsaved[h]
  /\ s = NewSession(h) => unsaved[h] = {s}
  /\ Commit(SessionRewritten(snap[h], s))
  /\ unsaved' = [unsaved EXCEPT ![h] = @ \ {s}]
  /\ Goto(h, IF unsaved[h] = {s} THEN "cacheId" ELSE "sessions")
  /\ UNCHANGED <<kind, key, snap, base, fromCache, worldVars>>

CacheById(h) ==
  /\ pc[h] = "cacheId"
  /\ CacheSet(IdKey(snap[h].id), snap[h])
  /\ Move(h, IF kind[h] = "create" THEN "schedule" ELSE "cacheKey")
  /\ UNCHANGED worldVars

\* Mutant: cancel answers its caller as soon as the row is written.
CacheAndAnswer(h) ==
  /\ pc[h] = "cacheKey"
  /\ CacheSet(IdempotencyKey(snap[h].id), snap[h])
  /\ MoveIf(kind[h] \notin {"resolve", "cancel"}, h, "publish")
  /\ UNCHANGED worldVars

CacheByIdempotencyKey(h) ==
  /\ pc[h] = "cacheKey"
  /\ CacheSet(IdempotencyKey(snap[h].id), snap[h])
  /\ MoveIf(kind[h] # "resolve", h, "publish")
  /\ UNCHANGED worldVars

\* schedulePaymentTimeout calls a Date method on expiresAt, which is a string
\* in a payment that was parsed from Redis: it throws then.
ScheduleTimeout(h) ==
  /\ pc[h] = "schedule"
  /\ MoveIf(~fromCache[h], h, "publish")
  /\ UNCHANGED <<storeVars, worldVars>>

Topics == {"PaymentOrderInitiated", "PaymentOrderSucceeded",
           "PaymentOrderFailed", "PaymentOrderTimeout"}

Topic(kd) ==
  CASE kd = "create"                -> "PaymentOrderInitiated"
    [] kd = "success"               -> "PaymentOrderSucceeded"
    [] kd \in {"failure", "cancel"} -> "PaymentOrderFailed"
    [] OTHER                        -> "PaymentOrderTimeout"

Event(kd, v) == [topic |-> Topic(kd), id |-> v.id, status |-> v.status, order |-> v.order]

Publish(h) ==
  /\ pc[h] = "publish"
  /\ events' = events \cup {Event(kind[h], snap[h])}
  /\ End(h)
  /\ UNCHANGED <<storeVars, issued, unannounced, overwritten>>

----------------------------------------------------------------------------
\* h has written an outcome that it has not announced yet.
Owes(h) ==
  /\ pc[h] \in {"cacheId", "cacheKey", "publish"}
  /\ kind[h] \notin {"create", "resolve"}

\* A round trip fails, or the process dies: the use case ends where it is.
Fail(h) ==
  /\ Active(h)
  /\ End(h)
  /\ unannounced' = IF Owes(h) THEN unannounced \cup {<<snap[h].id, snap[h].status>>}
                               ELSE unannounced
  /\ UNCHANGED <<storeVars, issued, events, overwritten>>

Lapse(k) ==
  /\ CacheLapse(k)
  /\ UNCHANGED <<localVars, worldVars>>

Find(h) ==
  \/ FindCached(h)
  \/ MissCache(h)
  \/ \E p \in Payments : QueryRow(h, p)
  \/ QueryNothing(h)
  \/ FillCache(h)

Decide(h) ==
  \/ TurnAway(h)
  \/ \E o \in Orders : LoseProviderOrder(h, o) \/ CreateProviderOrder(h, o)
  \/ CallProvider(h)
  \/ MarkSucceed(h) \/ MarkFailed(h) \/ MarkExpired(h) \/ MarkCancel(h)
  \/ MarkResolved(h) \/ RefuseResolved(h)

Write(h) ==
  \/ SaveRow(h) \/ RefuseRow(h)
  \/ \E s \in Sessions : SaveSession(h, s)
  \/ CacheById(h) \/ CacheByIdempotencyKey(h)
  \/ ScheduleTimeout(h)
  \/ Publish(h)

Next ==
  \/ \E h \in Handlers :
        \/ \E kd \in Kinds, k \in CacheKeys : Start(h, kd, k)
        \/ Find(h) \/ Decide(h) \/ Write(h) \/ Fail(h)
  \/ \E k \in CacheKeys : Lapse(k)

Spec == Init /\ [][Next]_vars

----------------------------------------------------------------------------
(* Properties.                                                             *)

\* Every variable keeps its type, and a handler that is past its finder
\* holds a version of a payment (create may still hold none).
TypeOK ==
  /\ db \in [Payments -> Version \cup {NoVersion}]
  /\ cache \in [CacheKeys -> Version \cup {NoVersion}]
  /\ history \in [Payments -> SUBSET Version]
  /\ pc \in [Handlers -> Steps]
  /\ kind \in [Handlers -> AllKinds \cup {"none"}]
  /\ key \in [Handlers -> CacheKeys \cup {NoKey}]
  /\ snap \in [Handlers -> Version \cup {NoVersion}]
  /\ base \in [Handlers -> Version \cup {NoVersion}]
  /\ fromCache \in [Handlers -> BOOLEAN]
  /\ unsaved \in [Handlers -> SUBSET Sessions]
  /\ issued \in [Orders -> Payments \cup {"none"}]
  /\ events \subseteq [topic: Topics, id: Payments, status: Statuses, order: Orders]
  /\ unannounced \subseteq Payments \X Statuses
  /\ overwritten \subseteq Payments \X Handlers

\* No dirty reads through Redis, whatever the interleaving and wherever a
\* handler dies: an entry holds a version some write has committed, of the
\* payment (or with the current provider order) its key names.
CacheIsSound ==
  \A k \in CacheKeys : cache[k] # NoVersion =>
     /\ Matches(k, cache[k])
     /\ cache[k] \in history[cache[k].id]

\* Nothing is announced that did not happen: the status and provider order in
\* an event published to Kafka were committed before it was, and an outcome
\* event carries the outcome.
Outcomes(t) ==
  CASE t = "PaymentOrderSucceeded" -> {"success"}
    [] t = "PaymentOrderFailed"    -> {"failed", "cancelled"}
    [] t = "PaymentOrderTimeout"   -> {"expired"}
    [] OTHER                       -> Statuses

EventsWereCommitted ==
  \A e \in events :
     /\ e.status \in Outcomes(e.topic)
     /\ \E v \in history[e.id] : v.status = e.status /\ v.order = e.order

\* No outcome is kept from the order service but by a handler that breaks off
\* between its write and its event: whatever interleaves, a terminal status that
\* was ever committed was announced, will be by the handler that wrote it, or
\* was lost in just that gap.  (What create announces is no outcome.)
Announced(p, s) ==
  \E e \in events : e.id = p /\ e.status = s /\ e.topic # "PaymentOrderInitiated"

OutcomesAreAnnounced ==
  \A p \in Payments : \A v \in history[p] :
     v.status \in Terminal =>
        \/ Announced(p, v.status)
        \/ \E h \in Handlers : Owes(h) /\ snap[h].id = p /\ snap[h].status = v.status
        \/ <<p, v.status>> \in unannounced

\* A provider order leads to one payment: no two payments have a session for
\* the same order, and a payment has one for the order it points at, so that
\* findOne({ providerOrderId }) never has a choice to make.
OrdersAreNotShared ==
  \A p, q \in Payments : db[p] # NoVersion /\ db[q] # NoVersion =>
     /\ db[p].order \in {s[1] : s \in db[p].sessions}
     /\ p # q => \A s \in db[p].sessions, t \in db[q].sessions : s[1] # t[1]

\* The order service hears one outcome: a payment is announced both as succeeded
\* and as failed, cancelled or timed out only if some use case has written it
\* from a version that was no longer the row's (a stale entry, or a write in
\* between).
Overwritten(p) == \E h \in Handlers : <<p, h>> \in overwritten

OutcomesAgree ==
  \A e, f \in events :
     e.id = f.id /\ e.topic = "PaymentOrderSucceeded" /\ ~Overwritten(e.id)
       => f.topic \notin {"PaymentOrderFailed", "PaymentOrderTimeout"}

\* h writes the row, or one session of it, from a version that is not the row's.
WritesOutdatedRow(h) == Outdated(h) /\ SaveRow(h)
WritesOutdatedSession(h) == Outdated(h) /\ \E s \in Sessions : SaveSession(h, s)

\* A provider order that a payment has recorded is never forgotten, whoever
\* writes the row and from however old a version: its buyer may still pay it.
RecordedOrders(p) == IF db[p] = NoVersion THEN {} ELSE {s[1] : s \in db[p].sessions}

OrdersStayRecorded == [][\A p \in Payments : RecordedOrders(p) \subseteq RecordedOrders(p)']_db

\* That money was captured is forgotten in one way only: every step that takes a
\* CAPTURED session from a row is the write of a handler whose version of the
\* payment is no longer the row's.  getCompletedSession and isRefundable look
\* for nothing else than a CAPTURED session.
CapturedOf(p) == IF db[p] = NoVersion THEN {} ELSE db[p].captured

CapturesStay ==
  [][\A p \in Payments :
       \/ CapturedOf(p) \subseteq CapturedOf(p)'
       \/ \E h \in Handlers : snap[h].id = p /\ (WritesOutdatedRow(h) \/ WritesOutdatedSession(h))]_db

\* A payment is first RESOLVED without a CAPTURED session in one way only:
\* neither overlapping updates nor stale entries do it, but a create that is
\* still writing its sessions one by one when somebody else writes the row.
Uncaptured(p) == \E v \in history[p] : v.status = "resolved" /\ v.captured = {}

ResolvedIsCaptured ==
  [][\A p \in Payments :
       Uncaptured(p)' => \/ Uncaptured(p)
                        \/ \E h \in Handlers : snap[h].id = p /\ WritesOutdatedSession(h)]_history

\* The status column implements the life cycle of the entity's table, in which
\* the only step off the table is one write per handler from an outdated version.
StatusOf(p) == IF db[p] = NoVersion THEN "none" ELSE db[p].status

Lifecycle == INSTANCE PaymentLifecycle
  WITH status <- [p \in Payments |-> StatusOf(p)],
       past   <- [p \in Payments |-> {v.status : v \in history[p]}]

ImplementsLifecycle == Lifecycle!Spec

----------------------------------------------------------------------------
(* What the documentation says and the code does not keep (the runs that   *)
(* are expected to find a violation).                                      *)

\* SUCCESS, FAILED, CANCELLED and EXPIRED allow no transition
\* (payments.ts:32-35), in the database as in the entity.
TerminalIsFinal ==
  [][\A p \in Payments :
       StatusOf(p) \in Terminal => StatusOf(p)' = StatusOf(p)]_db
=============================================================================
