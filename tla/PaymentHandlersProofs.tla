------------------------ MODULE PaymentHandlersProofs ------------------------
(***************************************************************************)
(* Theorems about PaymentHandlers for any payments, provider orders,       *)
(* activations and mix of use cases, whether calls overlap or not and      *)
(* however old the cache entries are they are served from.  TypeInv is the *)
(* inductive invariant behind the types, SafeInv the one behind the four   *)
(* safety properties: a version is sound before it is written, so what the *)
(* row, the cache and the events show was sound and committed.             *)
(***************************************************************************)
EXTENDS PaymentHandlers, TLAPS

\* The tuple of what is neither stored nor in a handler's memory is nothing but
\* an abbreviation.
USE DEF worldVars

----------------------------------------------------------------------------
(* Types.                                                                  *)

\* TypeOK is not inductive: that a write commits a version needs to know that
\* a handler past its finder holds one, and a key of the sort its finder looks up.
NamesItsTarget(h) ==
  Active(h) =>
     /\ kind[h] \in AllKinds
     /\ kind[h] \in OrderKinds => key[h] \in OrderKeys
     /\ kind[h] \notin OrderKinds => key[h] \in PaymentKeys

HoldsVersion(h) ==
  pc[h] \notin {"idle", "lookup", "query", "done"} =>
     snap[h] \in Version \/ (pc[h] = "loaded" /\ kind[h] = "create" /\ snap[h] = NoVersion)

SavedFirst(h) ==
  /\ pc[h] = "sessions" => db[snap[h].id] \in Version /\ kind[h] = "create"
  /\ pc[h] \in {"save", "sessions"} /\ kind[h] = "create" => unsaved[h] \subseteq snap[h].sessions

TypeInv ==
  /\ TypeOK
  /\ \A h \in Handlers : NamesItsTarget(h) /\ HoldsVersion(h) /\ SavedFirst(h)

\* What the entity's operations return: a version again.
LEMMA VersionOperations ==
  ASSUME NEW v \in Version, NEW n \in Sessions, NEW o \in Orders, NEW p \in Payments,
         NEW s \in Statuses, NEW found \in SUBSET v.sessions
  PROVE  /\ Created(p, n) \in Version
         /\ WithSession(v, n) \in Version
         /\ Become(v, s) \in Version
         /\ Resolved(v, found) \in Version
         /\ Cancelled(v, o) \in Version
<1>1. v = [id |-> v.id, status |-> v.status, order |-> v.order,
           sessions |-> v.sessions, captured |-> v.captured]
  BY DEF Version
<1>2. v.id \in Payments /\ v.status \in Statuses /\ v.order \in Orders
      /\ v.sessions \subseteq Sessions /\ v.captured \subseteq Sessions /\ n[1] \in Orders
  BY DEF Version, Sessions
<1>3. "pending" \in Statuses /\ "resolved" \in Statuses /\ "cancelled" \in Statuses
  BY DEF Statuses
<1>4. Created(p, n) \in Version
  BY <1>2, <1>3 DEF Created, Version
<1>5. WithSession(v, n) \in Version
  BY <1>2 DEF WithSession, Version
<1>6. Become(v, s) \in Version
  BY <1>2 DEF Become, Version
<1>7. Resolved(v, found) \in Version
  BY <1>2, <1>3 DEF Resolved, Version
<1>8. Cancelled(v, o) \in Version
  BY <1>2, <1>3 DEF Cancelled, Become, Version
<1> QED BY <1>4, <1>5, <1>6, <1>7, <1>8

\* The same of one operation, in a form that needs nothing else.
LEMMA ResolvedIsVersion ==
  ASSUME NEW v \in Version, NEW o, NEW found \in Lookup(v, o)
  PROVE  Resolved(v, found) \in Version
<1>1. found \subseteq v.sessions /\ v.sessions \subseteq Sessions /\ v.captured \subseteq Sessions
  BY DEF Lookup, Version
<1>2. "resolved" \in Statuses
  BY DEF Statuses
<1> QED BY <1>1, <1>2 DEF Resolved, Version

\* The entity's operations leave the id alone and forget no capture, and only
\* markResolved makes a payment RESOLVED.
LEMMA OperationsKeepId ==
  ASSUME NEW v \in Version
  PROVE  /\ \A n : /\ WithSession(v, n).id = v.id
                   /\ WithSession(v, n).status = v.status
                   /\ WithSession(v, n).captured = v.captured
         /\ \A s : /\ Become(v, s).id = v.id /\ Become(v, s).status = s
                   /\ Become(v, s).captured = v.captured
         /\ \A o : /\ Cancelled(v, o).id = v.id /\ Cancelled(v, o).status = "cancelled"
                   /\ Cancelled(v, o).captured = v.captured
         /\ \A found :
               /\ Resolved(v, found).id = v.id
               /\ Resolved(v, found).status = IF v.status \in Terminal THEN v.status ELSE "resolved"
               /\ Resolved(v, found).captured = v.captured \cup found
BY DEF Version, WithSession, Become, Cancelled, Resolved

\* The look-up finds nothing or a session of the payment with the order asked for.
LEMMA LookupFinds ==
  ASSUME NEW v, NEW o, NEW found \in Lookup(v, o)
  PROVE  found \in SUBSET v.sessions /\ \A s \in found : s[1] = o
BY DEF Lookup

\* The repository's three kinds of key are keys of the cache.
LEMMA KeyTypes ==
  /\ \A p \in Payments : IdKey(p) \in PaymentKeys /\ IdempotencyKey(p) \in PaymentKeys
  /\ \A o \in Orders : OrderKey(o) \in OrderKeys
  /\ \A k \in PaymentKeys : k \in CacheKeys /\ k[2] \in Payments
  /\ \A k \in OrderKeys : k \in CacheKeys /\ k[2] \in Orders
  /\ NoKey \in CacheKeys \cup {NoKey}
BY DEF IdKey, IdempotencyKey, OrderKey, PaymentKeys, OrderKeys, CacheKeys

\* Nothing is stored and nobody is active at first.
LEMMA TypeInit == Init => TypeInv
BY DEF Init, StoreInit, TypeInv, TypeOK, NamesItsTarget, HoldsVersion, SavedFirst,
       Active, NoKey, Steps

\* A call begins: its key is of the sort its finder looks up.
LEMMA TypeStart ==
  ASSUME TypeInv, NEW h \in Handlers, NEW kd \in Kinds, NEW k \in CacheKeys, Start(h, kd, k)
  PROVE  TypeInv'
<1> USE DEF TypeInv, TypeOK, Start, Goto, storeVars, Steps
<1>1. kd \in AllKinds
  BY KindsAssumption
<1>2. kd \in OrderKinds => k \in OrderKeys
  BY KeyTypes DEF Target, OrderKinds, Issued
<1>3. kd \notin OrderKinds => k \in PaymentKeys
  BY KeyTypes, <1>1 DEF Target, AllKinds
<1>4. TypeOK'
  BY <1>1
<1>5. ASSUME NEW g \in Handlers PROVE (NamesItsTarget(g) /\ HoldsVersion(g) /\ SavedFirst(g))'
  BY <1>1, <1>2, <1>3 DEF NamesItsTarget, HoldsVersion, SavedFirst, Active
<1> QED BY <1>4, <1>5

\* A handler ends.
LEMMA TypeEnd ==
  ASSUME TypeInv, NEW h \in Handlers, End(h), UNCHANGED <<db, history, issued, overwritten>>,
         cache' \in [CacheKeys -> Version \cup {NoVersion}],
         events' \subseteq [topic: Topics, id: Payments, status: Statuses, order: Orders],
         unannounced' \subseteq Payments \X Statuses
  PROVE  TypeInv'
<1> USE DEF TypeInv, TypeOK, End, Goto, storeVars, Steps
<1>1. TypeOK'
  OBVIOUS
<1>2. ASSUME NEW g \in Handlers PROVE (NamesItsTarget(g) /\ HoldsVersion(g) /\ SavedFirst(g))'
  BY DEF NamesItsTarget, HoldsVersion, SavedFirst, Active
<1> QED BY <1>1, <1>2

\* Only h itself may have fewer or more sessions left to save.
UnsavedKept(h) ==
  /\ unsaved' \in [Handlers -> SUBSET Sessions]
  /\ \A g \in Handlers \ {h} : unsaved'[g] = unsaved[g]

\* Any other step of a handler: it goes to step with the version v in memory,
\* and the store keeps its types and the rows it has.
LEMMA TypeStep ==
  ASSUME TypeInv, NEW h \in Handlers, NEW step \in Steps \ {"idle", "done"}, NEW v,
         Active(h),
         Goto(h, step), snap' = [snap EXCEPT ![h] = v], UNCHANGED <<kind, key>>,
         fromCache' \in [Handlers -> BOOLEAN],
         UnsavedKept(h),
         step \in {"save", "sessions"} /\ kind[h] = "create" => unsaved'[h] \subseteq v.sessions,
         step = "sessions" => kind[h] = "create",
         db' \in [Payments -> Version \cup {NoVersion}],
         cache' \in [CacheKeys -> Version \cup {NoVersion}],
         history' \in [Payments -> SUBSET Version],
         issued' \in [Orders -> Payments \cup {"none"}],
         base' \in [Handlers -> Version \cup {NoVersion}],
         events' \subseteq [topic: Topics, id: Payments, status: Statuses, order: Orders],
         unannounced' \subseteq Payments \X Statuses,
         overwritten' \subseteq Payments \X Handlers,
         v \in Version \cup {NoVersion},
         step \notin {"lookup", "query"} =>
           v \in Version \/ (step = "loaded" /\ kind[h] = "create" /\ v = NoVersion),
         step = "sessions" => db'[v.id] \in Version,
         \A p \in Payments : db[p] \in Version => db'[p] \in Version
  PROVE  TypeInv'
<1> USE DEF TypeInv, TypeOK, Goto, Steps
<1>1. TypeOK'
  BY DEF UnsavedKept
<1>2. ASSUME NEW g \in Handlers PROVE (NamesItsTarget(g) /\ HoldsVersion(g))'
  BY DEF NamesItsTarget, HoldsVersion, Active
<1>3. ASSUME NEW g \in Handlers PROVE SavedFirst(g)'
  <2>1. CASE g = h
    BY <2>1 DEF SavedFirst
  <2>2. CASE g # h
    <3>1. pc[g] = "sessions" => snap[g].id \in Payments
      BY DEF HoldsVersion, Version
    <3> QED BY <2>2, <3>1 DEF SavedFirst, UnsavedKept
  <2> QED BY <2>1, <2>2
<1> QED BY <1>1, <1>2, <1>3

\* A handler that goes on with the version it has.
LEMMA TypeMove ==
  ASSUME TypeInv, NEW h \in Handlers, NEW step \in Steps \ {"idle", "done", "lookup", "save", "sessions"},
         Active(h), Move(h, step), UNCHANGED <<storeVars, issued, unannounced, overwritten>>,
         events' \subseteq [topic: Topics, id: Payments, status: Statuses, order: Orders],
         step # "query" =>
           snap[h] \in Version \/ (step = "loaded" /\ kind[h] = "create" /\ snap[h] = NoVersion)
  PROVE  TypeInv'
<1>1. /\ snap' = [snap EXCEPT ![h] = snap[h]] /\ snap[h] \in Version \cup {NoVersion}
      /\ UnsavedKept(h)
  BY DEF Move, UnsavedKept, TypeInv, TypeOK
<1>2. \A p \in Payments : db[p] \in Version => db'[p] \in Version
  BY DEF storeVars
<1>3. Goto(h, step) /\ UNCHANGED <<kind, key, base, fromCache, db, cache, history, issued, unannounced, overwritten>>
  BY DEF Move, storeVars
<1> QED
  BY <1>1, <1>2, <1>3, TypeStep DEF TypeInv, TypeOK

\* A handler that sets an entry of the cache and goes on.
LEMMA TypeCacheSet ==
  ASSUME TypeInv, NEW h \in Handlers, NEW step \in Steps \ {"idle", "done", "lookup", "query", "save", "sessions"},
         NEW k \in CacheKeys,
         Active(h), Move(h, step), CacheSet(k, snap[h]), snap[h] \in Version,
         UNCHANGED worldVars
  PROVE  TypeInv'
<1>1. /\ snap' = [snap EXCEPT ![h] = snap[h]] /\ snap[h] \in Version \cup {NoVersion}
      /\ UnsavedKept(h)
  BY DEF Move, UnsavedKept, TypeInv, TypeOK
<1>2. cache' \in [CacheKeys -> Version \cup {NoVersion}]
  BY DEF CacheSet, TypeInv, TypeOK
<1>3. \A p \in Payments : db[p] \in Version => db'[p] \in Version
  BY DEF CacheSet
<1>4. Goto(h, step) /\ UNCHANGED <<kind, key, base, fromCache, db, history, worldVars>>
  BY DEF Move, CacheSet
<1> QED
  BY <1>1, <1>2, <1>3, <1>4, TypeStep DEF TypeInv, TypeOK

\* A handler that commits a version and goes on.
LEMMA TypeCommit ==
  ASSUME TypeInv, NEW h \in Handlers, NEW step \in {"sessions", "cacheId"}, NEW w \in Version,
         Active(h), Goto(h, step), Commit(w), snap[h] \in Version,
         UnsavedKept(h),
         step = "sessions" =>
           /\ w.id = snap[h].id \/ db[snap[h].id] \in Version
           /\ kind[h] = "create" /\ unsaved'[h] \subseteq snap[h].sessions,
         base' \in [Handlers -> Version \cup {NoVersion}], overwritten' \subseteq Payments \X Handlers,
         UNCHANGED <<kind, key, snap, fromCache, issued, events, unannounced>>
  PROVE  TypeInv'
<1>1. snap' = [snap EXCEPT ![h] = snap[h]] /\ snap[h] \in Version \cup {NoVersion}
  BY DEF TypeInv, TypeOK
<1>2. w.id \in Payments
  BY DEF Version
<1>3. /\ db' \in [Payments -> Version \cup {NoVersion}]
      /\ history' \in [Payments -> SUBSET Version]
      /\ step = "sessions" => db'[snap[h].id] \in Version
      /\ \A p \in Payments : db[p] \in Version => db'[p] \in Version
  BY <1>2 DEF Commit, TypeInv, TypeOK
<1>4. UNCHANGED cache
  BY DEF Commit
<1>5. step \in Steps \ {"idle", "done"}
  BY DEF Steps
<1> QED
  BY <1>1, <1>3, <1>4, <1>5, TypeStep DEF TypeInv, TypeOK

\* The finder.
LEMMA TypeFind ==
  ASSUME TypeInv, NEW h \in Handlers, Find(h)
  PROVE  TypeInv'
<1> USE DEF TypeInv, TypeOK, Goto, Steps
<1>0. \A p \in Payments : db[p] \in Version => db[p] \in Version
  OBVIOUS
<1>k. Active(h) => key[h] \in CacheKeys
  BY KeyTypes DEF NamesItsTarget
<1>1. CASE FindCached(h)
  <2>1. cache[key[h]] \in Version
    BY <1>1, <1>k DEF FindCached, Active
  <2> DEFINE f == fromCache'
  <2>2. f \in [Handlers -> BOOLEAN]
    BY <1>1 DEF FindCached
  <2> QED
    BY <1>1, <2>1, <2>2, TypeStep DEF FindCached, UnsavedKept, Active, storeVars
<1>2. CASE MissCache(h)
  BY <1>2, TypeMove DEF MissCache, Active
<1>3. CASE \E p \in Payments : QueryRow(h, p)
  <2> PICK p \in Payments : QueryRow(h, p)
    BY <1>3
  <2>1. db[p] \in Version
    BY DEF QueryRow, Matches
  <2> QED
    BY <2>1, TypeStep DEF QueryRow, UnsavedKept, Active, storeVars
<1>4. CASE QueryNothing(h)
  <2>1. CASE kind[h] = "create"
    <3>1. Move(h, "loaded")
      BY <1>4, <2>1 DEF QueryNothing, MoveIf
    <3>2. snap[h] \in Version \cup {NoVersion}
      OBVIOUS
    <3> QED
      BY <1>4, <2>1, <3>1, <3>2, TypeMove DEF QueryNothing, Active
  <2>2. CASE kind[h] # "create"
    BY <1>4, <2>2, TypeEnd DEF QueryNothing, MoveIf, storeVars
  <2> QED BY <2>1, <2>2
<1>5. CASE FillCache(h)
  <2>1. snap[h] \in Version
    BY <1>5 DEF FillCache, HoldsVersion
  <2> QED
    BY <1>5, <1>k, <2>1, TypeCacheSet DEF FillCache, Active
<1> QED BY <1>1, <1>2, <1>3, <1>4, <1>5 DEF Find

\* The use case's decision, and the provider's part in it.
LEMMA TypeDecide ==
  ASSUME TypeInv, NEW h \in Handlers, Decide(h)
  PROVE  TypeInv'
<1> USE DEF TypeInv, TypeOK, Goto, Steps
<1>h. pc[h] \in {"loaded", "called"} /\ kind[h] # "create" => snap[h] \in Version
  BY DEF HoldsVersion
<1>s. {"success", "failed", "expired", "cancelled"} \subseteq Statuses
  BY DEF Statuses
<1>1. CASE TurnAway(h)
  BY <1>1, TypeEnd DEF TurnAway, storeVars
<1>2. ASSUME NEW o \in Orders, LoseProviderOrder(h, o) PROVE TypeInv'
  <2>1. issued' \in [Orders -> Payments \cup {"none"}]
    BY <1>2, KeyTypes DEF LoseProviderOrder, Issue, NamesItsTarget, Active, OrderKinds
  <2> QED
    BY <1>2, <2>1 DEF LoseProviderOrder, localVars, storeVars, NamesItsTarget, HoldsVersion,
                      SavedFirst, Active
<1>3. ASSUME NEW o \in Orders, CreateProviderOrder(h, o) PROVE TypeInv'
  <2> DEFINE n == <<o, h>>
             w == IF snap[h] = NoVersion THEN Created(key[h][2], n) ELSE WithSession(snap[h], n)
  <2>0. n \in Sessions /\ n[1] = o
    BY DEF Sessions
  <2>1. key[h][2] \in Payments
    BY <1>3, KeyTypes DEF CreateProviderOrder, NamesItsTarget, Active, OrderKinds
  <2>2. w \in Version
    <3>1. CASE snap[h] = NoVersion
      <4>1. Created(key[h][2], n) \in Version
        BY <2>0, <2>1 DEF Created, Version, Statuses
      <4> QED BY <4>1, <3>1
    <3>2. CASE snap[h] # NoVersion
      <4>1. snap[h] \in Version
        BY <3>2
      <4>2. WithSession(snap[h], n) \in Version
        BY <2>0, <4>1 DEF WithSession, Version
      <4> QED BY <4>2, <3>2
    <3> QED BY <3>1, <3>2
  <2>3. issued' \in [Orders -> Payments \cup {"none"}]
    BY <1>3, <2>1 DEF CreateProviderOrder, Issue
  <2>4. snap' = [snap EXCEPT ![h] = w]
    BY <1>3 DEF CreateProviderOrder
  <2>5. UnsavedKept(h) /\ unsaved'[h] = w.sessions
    BY <1>3, <2>2, <2>4 DEF CreateProviderOrder, UnsavedKept, Version
  <2> HIDE DEF w
  <2> QED
    BY <1>3, <2>2, <2>3, <2>4, <2>5, TypeStep DEF CreateProviderOrder, Active, storeVars
<1>4. CASE CallProvider(h)
  BY <1>4, <1>h, TypeMove DEF CallProvider, Active
<1>5. ASSUME NEW at \in {"loaded", "called"}, NEW target \in Statuses, NEW v \in Version,
             kind[h] # "create", Mark(h, at, target, v)
      PROVE  TypeInv'
  BY <1>5, TypeStep DEF Mark, UnsavedKept, Active, storeVars
<1>6. CASE MarkSucceed(h)
  <2>1. Become(snap[h], "success") \in Version
    BY <1>6, <1>h, <1>s, VersionOperations DEF MarkSucceed, Mark, Become, Version
  <2> QED BY <1>6, <1>5, <1>s, <2>1 DEF MarkSucceed
<1>7. CASE MarkFailed(h)
  <2>1. Become(snap[h], "failed") \in Version
    BY <1>7, <1>h, <1>s DEF MarkFailed, Mark, Become, Version
  <2> QED BY <1>7, <1>5, <1>s, <2>1 DEF MarkFailed
<1>8. CASE MarkExpired(h)
  <2>1. Become(snap[h], "expired") \in Version
    BY <1>8, <1>h, <1>s DEF MarkExpired, Mark, Become, Version
  <2> QED BY <1>8, <1>5, <1>s, <2>1 DEF MarkExpired
<1>o. kind[h] \in {"cancel", "resolve"} /\ pc[h] = "called" => OrderOf(h) \in Orders
  BY KeyTypes DEF OrderOf, NamesItsTarget, Active, OrderKinds
<1>9. CASE MarkCancel(h)
  <2>1. Cancelled(snap[h], OrderOf(h)) \in Version
    BY <1>9, <1>h, <1>s, <1>o DEF MarkCancel, Mark, Cancelled, Become, Version
  <2> QED BY <1>9, <1>5, <1>s, <2>1 DEF MarkCancel
<1>10. CASE MarkResolved(h)
  <2> PICK found \in Lookup(snap[h], OrderOf(h)) : snap' = [snap EXCEPT ![h] = Resolved(@, found)]
    BY <1>10 DEF MarkResolved
  <2>1. Resolved(snap[h], found) \in Version
    BY <1>10, <1>h, ResolvedIsVersion DEF MarkResolved
  <2> QED
    BY <1>10, <2>1, TypeStep DEF MarkResolved, UnsavedKept, Active, storeVars
<1>11. CASE RefuseResolved(h)
  BY <1>11, TypeEnd DEF RefuseResolved, storeVars
<1> QED
  BY <1>1, <1>2, <1>3, <1>4, <1>6, <1>7, <1>8, <1>9, <1>10, <1>11 DEF Decide

\* The write and the event.
LEMMA TypeWrite ==
  ASSUME TypeInv, NEW h \in Handlers, Write(h)
  PROVE  TypeInv'
<1> USE DEF TypeInv, TypeOK, Goto, Steps
<1>h. pc[h] \in {"save", "sessions", "cacheId", "cacheKey", "schedule", "publish"}
        => snap[h] \in Version /\ snap[h].id \in Payments /\ Active(h)
  BY DEF HoldsVersion, Version, Active
<1>1. CASE SaveRow(h)
  <2>1. /\ Goto(h, IF kind[h] = "create" THEN "sessions" ELSE "cacheId")
        /\ UNCHANGED <<kind, key, snap, fromCache, unsaved, issued, events, unannounced>>
        /\ Commit(snap[h]) /\ pc[h] = "save"
    BY <1>1 DEF SaveRow
  <2>2. UnsavedKept(h) /\ (kind[h] = "create" => unsaved'[h] \subseteq snap[h].sessions)
    BY <2>1 DEF SavedFirst, UnsavedKept
  <2>3. /\ base' \in [Handlers -> Version \cup {NoVersion}]
        /\ overwritten' \subseteq Payments \X Handlers
    BY <1>1, <1>h DEF SaveRow
  <2> QED BY <1>h, <2>1, <2>2, <2>3, TypeCommit
<1>2. CASE RefuseRow(h)
  BY <1>2, TypeEnd DEF RefuseRow, storeVars
<1>3. ASSUME NEW s \in Sessions, SaveSession(h, s) PROVE TypeInv'
  <2>1. db[snap[h].id] \in Version
    BY <1>3, <1>h DEF SaveSession, SavedFirst
  <2>2. SessionRewritten(snap[h], s) \in Version
    BY <2>1 DEF SessionRewritten, Version
  <2>3. UnsavedKept(h) /\ unsaved'[h] \subseteq snap[h].sessions /\ kind[h] = "create"
    BY <1>3 DEF SaveSession, SavedFirst, UnsavedKept
  <2>4. Goto(h, "sessions") \/ Goto(h, "cacheId")
    BY <1>3 DEF SaveSession
  <2> QED
    BY <1>3, <1>h, <2>1, <2>2, <2>3, <2>4, TypeCommit DEF SaveSession
<1>4. CASE CacheById(h)
  <2>1. IdKey(snap[h].id) \in CacheKeys
    BY <1>4, <1>h, KeyTypes DEF CacheById
  <2> QED BY <1>4, <1>h, <2>1, TypeCacheSet DEF CacheById
<1>5. CASE CacheByIdempotencyKey(h)
  <2>1. CacheSet(IdempotencyKey(snap[h].id), snap[h]) /\ IdempotencyKey(snap[h].id) \in CacheKeys
    BY <1>5, <1>h, KeyTypes DEF CacheByIdempotencyKey
  <2>2. CASE kind[h] # "resolve"
    BY <1>5, <1>h, <2>1, <2>2, TypeCacheSet DEF CacheByIdempotencyKey, MoveIf
  <2>3. CASE kind[h] = "resolve"
    <3>1. cache' \in [CacheKeys -> Version \cup {NoVersion}]
      BY <1>5, <1>h, <2>1 DEF CacheSet, CacheByIdempotencyKey
    <3>2. End(h) /\ UNCHANGED <<db, history, worldVars>>
      BY <1>5, <2>1, <2>3 DEF CacheByIdempotencyKey, MoveIf, CacheSet
    <3> QED BY <3>1, <3>2, TypeEnd
  <2> QED BY <2>2, <2>3
<1>6. CASE ScheduleTimeout(h)
  BY <1>6, <1>h, TypeMove, TypeEnd DEF ScheduleTimeout, MoveIf, storeVars
<1>7. CASE Publish(h)
  <2>0. Topic(kind[h]) \in Topics
    BY DEF Topic, Topics
  <2>1. Event(kind[h], snap[h]) \in [topic: Topics, id: Payments, status: Statuses, order: Orders]
    BY <1>7, <1>h, <2>0 DEF Publish, Event, Version
  <2>2. events' \subseteq [topic: Topics, id: Payments, status: Statuses, order: Orders]
    BY <1>7, <2>1 DEF Publish
  <2> QED
    BY <1>7, <2>2, TypeEnd DEF Publish, storeVars
<1> QED BY <1>1, <1>2, <1>3, <1>4, <1>5, <1>6, <1>7 DEF Write

\* Every step keeps the type invariant.
LEMMA TypeNext == TypeInv /\ [Next]_vars => TypeInv'
<1> SUFFICES ASSUME TypeInv, [Next]_vars PROVE TypeInv'
  OBVIOUS
<1>1. ASSUME NEW h \in Handlers, NEW kd \in Kinds, NEW k \in CacheKeys, Start(h, kd, k)
      PROVE  TypeInv'
  BY <1>1, TypeStart
<1>2. ASSUME NEW h \in Handlers, Find(h) \/ Decide(h) \/ Write(h) PROVE TypeInv'
  BY <1>2, TypeFind, TypeDecide, TypeWrite
<1>3. ASSUME NEW h \in Handlers, Fail(h) PROVE TypeInv'
  <2>1. Owes(h) => snap[h].id \in Payments /\ snap[h].status \in Statuses
    BY DEF Owes, TypeInv, HoldsVersion, Version
  <2>2. unannounced' \subseteq Payments \X Statuses
    BY <1>3, <2>1 DEF Fail, TypeInv, TypeOK
  <2> QED BY <1>3, <2>2, TypeEnd DEF Fail, TypeInv, TypeOK, storeVars
<1>4. ASSUME NEW k \in CacheKeys, Lapse(k) PROVE TypeInv'
  BY <1>4 DEF Lapse, CacheLapse, CacheSet, TypeInv, TypeOK, NamesItsTarget, HoldsVersion,
              SavedFirst, Active, localVars
<1>5. CASE UNCHANGED vars
  BY <1>5 DEF vars, localVars, storeVars, TypeInv, TypeOK, NamesItsTarget, HoldsVersion,
              SavedFirst, Active
<1> QED
  BY <1>1, <1>2, <1>3, <1>4, <1>5 DEF Next

\* Every variable keeps its type, for any payments, orders and activations.
THEOREM TypeCorrect == Spec => []TypeOK
<1>1. TypeInv => TypeOK
  BY DEF TypeInv
<1> QED
  BY <1>1, TypeInit, TypeNext, PTL DEF Spec

----------------------------------------------------------------------------
(* Safety.                                                                 *)

\* What is true of every version that is written, cached or announced: it
\* points at the order of one of its sessions, the provider issued their orders
\* for its payment.
Sound(v) ==
  /\ \E s \in v.sessions : v.order = s[1]
  /\ \A s \in v.sessions : issued[s[1]] = v.id

\* A handler holds a version that was committed until it makes one that is to
\* be, and one that was committed again from then on.
Committed(v) == v \in history[v.id]

Before == {"fill", "loaded", "called"}
After  == {"sessions", "cacheId", "cacheKey", "schedule", "publish"}

SnapIsSound(h) ==
  /\ pc[h] \in {"idle", "lookup", "query"} => snap[h] = NoVersion
  /\ pc[h] \in Before /\ snap[h] # NoVersion => Committed(snap[h]) /\ Matches(key[h], snap[h])
  /\ pc[h] = "save" => Sound(snap[h])
  /\ pc[h] \in After => Committed(snap[h])

\* The outcome a handler will announce is the one it has marked.
OutcomeIsMarked(h) ==
  /\ pc[h] \in After \cup {"save"} /\ kind[h] # "resolve"
       => snap[h].status \in Outcomes(Topic(kind[h]))
  /\ pc[h] \in {"schedule", "publish"} => kind[h] # "resolve"

HistoryIsSound == \A p \in Payments : \A v \in history[p] : v.id = p /\ Sound(v)

RowsAreCommitted == \A p \in Payments : db[p] # NoVersion => db[p] \in history[p]

SafeInv ==
  /\ HistoryIsSound
  /\ RowsAreCommitted
  /\ CacheIsSound
  /\ EventsWereCommitted
  /\ \A h \in Handlers : SnapIsSound(h) /\ OutcomeIsMarked(h)

\* No version is mistaken for the absence of one.
LEMMA NoVersionIsNoVersion == NoVersion \notin Version
BY NamesAssumption DEF NoVersion, Version

\* The types of what the repository writes for a payment.
LEMMA VersionTypes ==
  ASSUME NEW v \in Version
  PROVE  /\ v.id \in Payments /\ v.status \in Statuses /\ v.order \in Orders
         /\ v.sessions \subseteq Sessions /\ v.captured \subseteq Sessions
BY DEF Version

\* The provider never takes an order back.
ProviderGrows == \A o \in Orders : issued[o] # "none" => issued'[o] = issued[o]

HistoryGrows == \A p \in Payments : history[p] \subseteq history'[p]

OthersKeep(h) ==
  \A g \in Handlers \ {h} :
     pc'[g] = pc[g] /\ kind'[g] = kind[g] /\ key'[g] = key[g] /\ snap'[g] = snap[g]

\* A sound version stays sound: the provider takes nothing back.
LEMMA SoundStays ==
  ASSUME TypeInv, ProviderGrows, NEW v \in Version, Sound(v)
  PROVE  Sound(v)'
<1>1. \A s \in v.sessions : issued[s[1]] # "none" /\ s[1] \in Orders
  BY VersionTypes, NamesAssumption DEF Sound, Sessions
<1> QED BY <1>1 DEF ProviderGrows, Sound

\* What the other handlers hold stays as good as it was.
LEMMA SnapStays ==
  ASSUME TypeInv, ProviderGrows, HistoryGrows, NEW h \in Handlers, OthersKeep(h),
         NEW g \in Handlers \ {h}, SnapIsSound(g), OutcomeIsMarked(g)
  PROVE  (SnapIsSound(g) /\ OutcomeIsMarked(g))'
<1>1. pc'[g] = pc[g] /\ kind'[g] = kind[g] /\ key'[g] = key[g] /\ snap'[g] = snap[g]
  BY DEF OthersKeep
<1>2. snap[g] # NoVersion => snap[g] \in Version /\ snap[g].id \in Payments
  BY VersionTypes DEF TypeInv, TypeOK
<1>3. pc[g] \in After \cup {"save"} => snap[g] \in Version /\ snap[g].id \in Payments
  BY VersionTypes DEF TypeInv, HoldsVersion, After
<1>4. (pc[g] \in Before /\ snap[g] # NoVersion => Committed(snap[g]) /\ Matches(key[g], snap[g]))'
  BY <1>1, <1>2 DEF SnapIsSound, Committed, HistoryGrows, Matches
<1>6. (pc[g] = "save" => Sound(snap[g]))'
  <2> PICK v : v = snap[g]
    OBVIOUS
  <2>1. pc[g] = "save" => Sound(v)'
    BY <1>3, SoundStays DEF SnapIsSound
  <2> QED BY <1>1, <2>1 DEF Sound
<1>7. (pc[g] \in After => Committed(snap[g]))'
  BY <1>1, <1>3 DEF SnapIsSound, Committed, HistoryGrows
<1>8. (pc[g] \in {"idle", "lookup", "query"} => snap[g] = NoVersion)'
  BY <1>1 DEF SnapIsSound
<1>9. OutcomeIsMarked(g)'
  BY <1>1 DEF OutcomeIsMarked
<1> QED BY <1>4, <1>6, <1>7, <1>8, <1>9 DEF SnapIsSound

\* An entry that is left alone stays committed: histories only grow.
LEMMA CacheStays ==
  ASSUME TypeInv, CacheIsSound, HistoryGrows, UNCHANGED cache
  PROVE  CacheIsSound'
<1> SUFFICES ASSUME NEW k \in CacheKeys, cache[k] # NoVersion
             PROVE  Matches(k, cache[k]) /\ cache[k] \in history'[cache[k].id]
  BY DEF CacheIsSound, Matches
<1>1. cache[k].id \in Payments
  BY VersionTypes DEF TypeInv, TypeOK
<1> QED BY <1>1 DEF CacheIsSound, HistoryGrows

\* An event that was published stays committed.
LEMMA EventsStay ==
  ASSUME TypeInv, EventsWereCommitted, HistoryGrows, UNCHANGED events
  PROVE  EventsWereCommitted'
<1> SUFFICES ASSUME NEW e \in events
             PROVE  /\ e.status \in Outcomes(e.topic)
                    /\ \E v \in history'[e.id] : v.status = e.status /\ v.order = e.order
  BY DEF EventsWereCommitted
<1>1. e.id \in Payments
  BY DEF TypeInv, TypeOK
<1> QED BY <1>1 DEF EventsWereCommitted, HistoryGrows

\* A step of h that leaves the store and the events alone: only what h itself
\* now holds is to be looked at.
LEMMA SafeLocal ==
  ASSUME TypeInv, SafeInv, ProviderGrows, UNCHANGED <<storeVars, events>>,
         NEW h \in Handlers, OthersKeep(h), (SnapIsSound(h) /\ OutcomeIsMarked(h))'
  PROVE  SafeInv'
<1>1. HistoryGrows
  BY DEF HistoryGrows, storeVars
<1>2. HistoryIsSound'
  <2> SUFFICES ASSUME NEW p \in Payments, NEW v \in history[p] PROVE v.id = p /\ Sound(v)'
    BY DEF HistoryIsSound, storeVars
  <2> QED BY SoundStays DEF SafeInv, HistoryIsSound, TypeInv, TypeOK
<1>3. RowsAreCommitted'
  BY DEF SafeInv, RowsAreCommitted, storeVars
<1>4. CacheIsSound' /\ EventsWereCommitted'
  BY <1>1, CacheStays, EventsStay DEF SafeInv, storeVars
<1>5. \A g \in Handlers : (SnapIsSound(g) /\ OutcomeIsMarked(g))'
  BY <1>1, SnapStays DEF SafeInv
<1> QED BY <1>2, <1>3, <1>4, <1>5 DEF SafeInv

\* A step of h that sets an entry of the cache to a committed version.
LEMMA SafeCacheSet ==
  ASSUME TypeInv, SafeInv, UNCHANGED <<issued, events>>,
         NEW h \in Handlers, OthersKeep(h), (SnapIsSound(h) /\ OutcomeIsMarked(h))',
         NEW k \in CacheKeys, NEW v, CacheSet(k, v),
         v # NoVersion => v \in Version /\ Committed(v) /\ Matches(k, v)
  PROVE  SafeInv'
<1>0. ProviderGrows /\ HistoryGrows
  BY DEF ProviderGrows, HistoryGrows, CacheSet
<1>1. UNCHANGED <<db, history>>
  BY DEF CacheSet
<1>2. HistoryIsSound'
  <2> SUFFICES ASSUME NEW p \in Payments, NEW w \in history[p] PROVE w.id = p /\ Sound(w)'
    BY <1>1 DEF HistoryIsSound
  <2> QED BY <1>0, SoundStays DEF SafeInv, HistoryIsSound, TypeInv, TypeOK
<1>3. RowsAreCommitted'
  BY <1>1 DEF SafeInv, RowsAreCommitted
<1>4. CacheIsSound'
  <2> SUFFICES ASSUME NEW j \in CacheKeys, cache'[j] # NoVersion
               PROVE  Matches(j, cache'[j]) /\ cache'[j] \in history[cache'[j].id]
    BY <1>1 DEF CacheIsSound, Matches
  <2>1. cache' = [cache EXCEPT ![k] = v]
    BY DEF CacheSet
  <2>2. CASE j = k
    BY <2>1, <2>2 DEF TypeInv, TypeOK, Committed
  <2>3. CASE j # k
    BY <2>1, <2>3 DEF TypeInv, TypeOK, SafeInv, CacheIsSound
  <2> QED BY <2>2, <2>3
<1>5. EventsWereCommitted'
  BY <1>0, EventsStay DEF SafeInv
<1>6. \A g \in Handlers : (SnapIsSound(g) /\ OutcomeIsMarked(g))'
  BY <1>0, SnapStays DEF SafeInv
<1> QED BY <1>2, <1>3, <1>4, <1>5, <1>6 DEF SafeInv

\* A step of h that commits a sound version.
LEMMA SafeCommit ==
  ASSUME TypeInv, SafeInv, UNCHANGED <<issued, events>>,
         NEW h \in Handlers, OthersKeep(h), (SnapIsSound(h) /\ OutcomeIsMarked(h))',
         NEW w \in Version, Commit(w), Sound(w)
  PROVE  SafeInv'
<1>a. w.id \in Payments
  BY VersionTypes
<1>b. /\ db' = [db EXCEPT ![w.id] = w]
      /\ history' = [history EXCEPT ![w.id] = @ \cup {w}]
      /\ cache' = cache
  BY DEF Commit
<1>0. ProviderGrows /\ HistoryGrows
  BY <1>a, <1>b DEF ProviderGrows, HistoryGrows, TypeInv, TypeOK
<1>2. HistoryIsSound'
  <2> SUFFICES ASSUME NEW p \in Payments, NEW v \in history'[p] PROVE v.id = p /\ Sound(v)'
    BY DEF HistoryIsSound
  <2>1. CASE v \in history[p]
    BY <1>0, <2>1, SoundStays DEF SafeInv, HistoryIsSound, TypeInv, TypeOK
  <2>2. CASE v \notin history[p]
    <3>1. v = w /\ p = w.id
      BY <1>a, <1>b, <2>2 DEF TypeInv, TypeOK
    <3> QED BY <1>0, <3>1, SoundStays
  <2> QED BY <2>1, <2>2
<1>3. RowsAreCommitted'
  BY <1>a, <1>b DEF SafeInv, RowsAreCommitted, TypeInv, TypeOK
<1>4. CacheIsSound' /\ EventsWereCommitted'
  BY <1>0, <1>b, CacheStays, EventsStay DEF SafeInv
<1>5. \A g \in Handlers : (SnapIsSound(g) /\ OutcomeIsMarked(g))'
  BY <1>0, SnapStays DEF SafeInv
<1> QED BY <1>2, <1>3, <1>4, <1>5 DEF SafeInv

----------------------------------------------------------------------------
\* Nothing is written, cached or announced at first.
LEMMA SafeInit == Init => SafeInv
BY DEF Init, StoreInit, SafeInv, HistoryIsSound, RowsAreCommitted, CacheIsSound,
       EventsWereCommitted, SnapIsSound, OutcomeIsMarked, Before, After

\* A handler that ends holds nothing.
LEMMA SafeEnd ==
  ASSUME TypeInv, NEW h \in Handlers, End(h)
  PROVE  OthersKeep(h) /\ (SnapIsSound(h) /\ OutcomeIsMarked(h))'
BY DEF End, Goto, OthersKeep, SnapIsSound, OutcomeIsMarked, Before, After, TypeInv, TypeOK

\* The finder: what it takes from Redis or from the row is committed.
LEMMA SafeFind ==
  ASSUME TypeInv, SafeInv, NEW h \in Handlers, Find(h)
  PROVE  SafeInv'
<1> USE DEF TypeInv, TypeOK, Goto
<1>k. Active(h) => key[h] \in CacheKeys
  BY KeyTypes DEF NamesItsTarget
<1>1. CASE FindCached(h)
  <2>1. cache[key[h]] \in Version /\ Committed(cache[key[h]]) /\ Matches(key[h], cache[key[h]])
    BY <1>1, <1>k DEF FindCached, Active, SafeInv, CacheIsSound, Committed
  <2>2. OthersKeep(h)
    BY <1>1 DEF FindCached, OthersKeep
  <2>3. (SnapIsSound(h) /\ OutcomeIsMarked(h))'
    BY <1>1, <2>1 DEF FindCached, SnapIsSound, OutcomeIsMarked, Before, After, Committed,
                      Matches, storeVars
  <2>4. ProviderGrows
    BY <1>1 DEF FindCached, ProviderGrows
  <2> QED BY <1>1, <2>2, <2>3, <2>4, SafeLocal DEF FindCached
<1>2. CASE MissCache(h)
  <2>1. OthersKeep(h) /\ ProviderGrows
    BY <1>2 DEF MissCache, Move, OthersKeep, ProviderGrows
  <2>2. (SnapIsSound(h) /\ OutcomeIsMarked(h))'
    BY <1>2 DEF MissCache, Move, SafeInv, SnapIsSound, OutcomeIsMarked, Before, After
  <2> QED BY <1>2, <2>1, <2>2, SafeLocal DEF MissCache
<1>3. CASE \E p \in Payments : QueryRow(h, p)
  <2> PICK p \in Payments : QueryRow(h, p)
    BY <1>3
  <2>1. db[p] \in Version /\ Committed(db[p]) /\ Matches(key[h], db[p])
    BY DEF QueryRow, Matches, SafeInv, RowsAreCommitted, HistoryIsSound, Committed
  <2>2. OthersKeep(h) /\ ProviderGrows
    BY DEF QueryRow, OthersKeep, ProviderGrows
  <2>3. (SnapIsSound(h) /\ OutcomeIsMarked(h))'
    BY <2>1 DEF QueryRow, SnapIsSound, OutcomeIsMarked, Before, After, Committed,
                Matches, storeVars
  <2> QED BY <2>2, <2>3, SafeLocal DEF QueryRow
<1>4. CASE QueryNothing(h)
  <2>1. CASE kind[h] = "create"
    <3>1. Move(h, "loaded") /\ UNCHANGED <<storeVars, issued, events>>
      BY <1>4, <2>1 DEF QueryNothing, MoveIf
    <3>2. pc[h] = "query" /\ snap[h] = NoVersion
      BY <1>4 DEF QueryNothing, SafeInv, SnapIsSound
    <3>3. OthersKeep(h) /\ ProviderGrows
      BY <3>1 DEF Move, OthersKeep, ProviderGrows
    <3>4. (SnapIsSound(h) /\ OutcomeIsMarked(h))'
      BY <3>1, <3>2 DEF Move, SnapIsSound, OutcomeIsMarked, Before, After
    <3> QED BY <3>1, <3>3, <3>4, SafeLocal
  <2>2. CASE kind[h] # "create"
    <3>1. End(h) /\ UNCHANGED <<storeVars, issued, events>>
      BY <1>4, <2>2 DEF QueryNothing, MoveIf
    <3> QED BY <3>1, SafeEnd, SafeLocal DEF ProviderGrows
  <2> QED BY <2>1, <2>2
<1>5. CASE FillCache(h)
  <2>1. snap[h] \in Version /\ Committed(snap[h]) /\ Matches(key[h], snap[h])
    BY <1>5, NoVersionIsNoVersion DEF FillCache, HoldsVersion, SafeInv, SnapIsSound, Before
  <2>2. OthersKeep(h) /\ key[h] \in CacheKeys
    BY <1>5, <1>k DEF FillCache, Move, OthersKeep, Active
  <2>3. (SnapIsSound(h) /\ OutcomeIsMarked(h))'
    BY <1>5, <2>1 DEF FillCache, Move, CacheSet, SnapIsSound, OutcomeIsMarked, Before, After,
                      Committed, Matches
  <2> QED BY <1>5, <2>1, <2>2, <2>3, SafeCacheSet DEF FillCache
<1> QED BY <1>1, <1>2, <1>3, <1>4, <1>5 DEF Find

\* The marked version of a committed one is sound: it keeps the sessions.
LEMMA MarkedIsSound ==
  ASSUME NEW v \in Version, Sound(v), NEW s \in Statuses, NEW o \in Orders
  PROVE  /\ Sound(Become(v, s))
         /\ v.order = o => Sound(Cancelled(v, o))
         /\ \A found : Sound(Resolved(v, found))
<1>1. Sound(Become(v, s))
  BY DEF Sound, Become, Version
<1>2. ASSUME v.order = o PROVE Sound(Cancelled(v, o))
  BY <1>2 DEF Sound, Become, Cancelled, Version
<1>3. ASSUME NEW found PROVE Sound(Resolved(v, found))
  BY DEF Sound, Resolved, Version
<1> QED BY <1>1, <1>2, <1>3

\* The decision: only a sound version goes on to be written.
LEMMA SafeDecide ==
  ASSUME TypeInv, SafeInv, NEW h \in Handlers, Decide(h)
  PROVE  SafeInv'
<1> USE DEF TypeInv, TypeOK, Goto
<1>h. pc[h] \in {"loaded", "called"} /\ snap[h] # NoVersion
        => /\ snap[h] \in Version /\ Sound(snap[h])
           /\ Committed(snap[h]) /\ Matches(key[h], snap[h])
  <2>1. pc[h] \in {"loaded", "called"} /\ snap[h] # NoVersion
          => snap[h] \in Version /\ Committed(snap[h]) /\ Matches(key[h], snap[h])
    BY DEF SafeInv, SnapIsSound, Before
  <2> QED BY <2>1, VersionTypes DEF SafeInv, HistoryIsSound, Committed
<1>v. pc[h] \in {"loaded", "called"} /\ kind[h] # "create" => snap[h] # NoVersion
  BY NoVersionIsNoVersion DEF HoldsVersion
<1>o. pc[h] \in {"loaded", "called"} /\ kind[h] \in OrderKinds
        => OrderOf(h) \in Orders /\ snap[h].order = OrderOf(h)
  BY <1>h, <1>v, KeyTypes DEF OrderOf, NamesItsTarget, Active, OrderKinds, Matches
<1>s. {"success", "failed", "expired", "cancelled", "resolved"} \subseteq Statuses
  BY DEF Statuses
<1>1. CASE TurnAway(h)
  BY <1>1, SafeEnd, SafeLocal DEF TurnAway, ProviderGrows
<1>2. ASSUME NEW o \in Orders, LoseProviderOrder(h, o) PROVE SafeInv'
  <2>1. ProviderGrows /\ OthersKeep(h) /\ pc' = pc /\ snap' = snap /\ key' = key /\ kind' = kind
    BY <1>2 DEF LoseProviderOrder, Issue, ProviderGrows, OthersKeep, localVars
  <2>2. (SnapIsSound(h) /\ OutcomeIsMarked(h))'
    BY <1>2, <2>1 DEF LoseProviderOrder, SafeInv, SnapIsSound, OutcomeIsMarked, Before, After,
                      Committed, Matches, storeVars
  <2> QED BY <1>2, <2>1, <2>2, SafeLocal DEF LoseProviderOrder
<1>3. ASSUME NEW o \in Orders, CreateProviderOrder(h, o) PROVE SafeInv'
  <2>1. key[h] \in PaymentKeys /\ key[h][2] \in Payments /\ key[h] \notin OrderKeys
    BY <1>3, KeyTypes DEF CreateProviderOrder, NamesItsTarget, Active, OrderKinds,
                          PaymentKeys, OrderKeys
  <2>2. ProviderGrows /\ OthersKeep(h) /\ issued'[o] = key[h][2]
    BY <1>3 DEF CreateProviderOrder, Issue, ProviderGrows, OthersKeep
  <2> PICK n : n = <<o, h>>
    OBVIOUS
  <2>3. Sound(snap[h])'
    <3>1. CASE snap[h] = NoVersion
      <4>1. snap'[h] = Created(key[h][2], n)
        BY <1>3, <3>1 DEF CreateProviderOrder
      <4>2. /\ snap'[h].id = key[h][2] /\ snap'[h].status = "pending" /\ snap'[h].order = n[1]
            /\ snap'[h].captured = {} /\ snap'[h].sessions = {n}
        BY <4>1 DEF Created
      <4>3. issued'[n[1]] = key[h][2]
        BY <2>2
      <4> QED BY <4>2, <4>3 DEF Sound
    <3>2. CASE snap[h] # NoVersion
      <4> PICK v : v = snap[h]
        OBVIOUS
      <4>1. snap'[h] = WithSession(v, n)
        BY <1>3, <3>2 DEF CreateProviderOrder
      <4>2. v \in Version /\ v.id = key[h][2]
        BY <1>3, <1>h, <2>1, <3>2 DEF CreateProviderOrder, Matches
      <4>3. Sound(v)'
        BY <1>3, <1>h, <2>2, <3>2, SoundStays DEF CreateProviderOrder
      <4> PICK w : w = WithSession(v, n)
        OBVIOUS
      <4>4. /\ w.id = v.id /\ w.status = v.status /\ w.captured = v.captured
            /\ w.order = n[1] /\ w.sessions = v.sessions \cup {n}
        BY <4>2 DEF WithSession, Version
      <4>5. issued'[n[1]] = v.id
        BY <2>2, <4>2
      <4>6. Sound(w)'
        BY <4>3, <4>4, <4>5 DEF Sound
      <4>7. snap'[h] = w
        BY <4>1
      <4> HIDE DEF TypeInv, TypeOK
      <4> QED BY <4>6, <4>7 DEF Sound
    <3> QED BY <3>1, <3>2
  <2>4. (SnapIsSound(h) /\ OutcomeIsMarked(h))'
    <3>1. pc'[h] = "save" /\ kind'[h] = "create"
      BY <1>3 DEF CreateProviderOrder
    <3>2. snap'[h] \in Version
      <4>1. Decide(h)
        BY <1>3 DEF Decide
      <4>2. TypeInv'
        BY <4>1, TypeDecide
      <4> QED BY <3>1, <4>2 DEF HoldsVersion
    <3>3. Outcomes(Topic("create")) = Statuses
      BY DEF Outcomes, Topic
    <3>4. snap'[h].status \in Statuses
      BY <3>2, VersionTypes
    <3>5. SnapIsSound(h)'
      BY <2>3, <3>1 DEF SnapIsSound, Before, After
    <3>6. OutcomeIsMarked(h)'
      BY <3>1, <3>3, <3>4 DEF OutcomeIsMarked, After
    <3> QED BY <3>5, <3>6
  <2> QED BY <1>3, <2>2, <2>4, SafeLocal DEF CreateProviderOrder
<1>4. CASE CallProvider(h)
  <2>1. ProviderGrows /\ OthersKeep(h)
    BY <1>4 DEF CallProvider, Move, ProviderGrows, OthersKeep
  <2>2. (SnapIsSound(h) /\ OutcomeIsMarked(h))'
    BY <1>4, <1>h, <1>v DEF CallProvider, Move, SnapIsSound, OutcomeIsMarked, Before, After,
                            Committed, Matches, OrderOf, storeVars
  <2> QED BY <1>4, <2>1, <2>2, SafeLocal DEF CallProvider
<1>5. ASSUME NEW at \in {"loaded", "called"}, NEW target \in Statuses, NEW v \in Version,
             Mark(h, at, target, v), Sound(v),
             kind[h] # "resolve" => v.status \in Outcomes(Topic(kind[h]))
      PROVE  SafeInv'
  <2>1. ProviderGrows /\ OthersKeep(h)
    BY <1>5 DEF Mark, ProviderGrows, OthersKeep
  <2>2. (SnapIsSound(h) /\ OutcomeIsMarked(h))'
    <3>1. pc'[h] = "save" /\ snap'[h] = v /\ kind'[h] = kind[h]
      BY <1>5 DEF Mark
    <3>2. Sound(v)'
      BY <1>5, <2>1, SoundStays
    <3> QED BY <1>5, <3>1, <3>2 DEF SnapIsSound, OutcomeIsMarked, Before, After, Sound
  <2> QED BY <1>5, <2>1, <2>2, SafeLocal DEF Mark
<1>6. CASE MarkSucceed(h)
  <2> DEFINE w == Become(snap[h], "success")
  <2>1. w \in Version /\ Sound(w) /\ w.status = "success"
    BY <1>6, <1>h, <1>v, <1>s, MarkedIsSound DEF MarkSucceed, Mark, Become, Version
  <2>2. "success" \in Outcomes(Topic("success"))
    BY DEF Outcomes, Topic
  <2> HIDE DEF w
  <2> QED BY <1>6, <1>5, <1>s, <2>1, <2>2 DEF MarkSucceed, w
<1>7. CASE MarkFailed(h)
  <2> DEFINE w == Become(snap[h], "failed")
  <2>1. w \in Version /\ Sound(w) /\ w.status = "failed"
    BY <1>7, <1>h, <1>v, <1>s, MarkedIsSound DEF MarkFailed, Mark, Become, Version
  <2>2. "failed" \in Outcomes(Topic("failure"))
    BY DEF Outcomes, Topic
  <2> HIDE DEF w
  <2> QED BY <1>7, <1>5, <1>s, <2>1, <2>2 DEF MarkFailed, w
<1>8. CASE MarkExpired(h)
  <2> DEFINE w == Become(snap[h], "expired")
  <2>1. w \in Version /\ Sound(w) /\ w.status = "expired"
    BY <1>8, <1>h, <1>v, <1>s, MarkedIsSound DEF MarkExpired, Mark, Become, Version
  <2>2. "expired" \in Outcomes(Topic("timeout"))
    BY DEF Outcomes, Topic
  <2> HIDE DEF w
  <2> QED BY <1>8, <1>5, <1>s, <2>1, <2>2 DEF MarkExpired, w
<1>9. CASE MarkCancel(h)
  <2> DEFINE w == Cancelled(snap[h], OrderOf(h))
  <2>1. w \in Version /\ w.status = "cancelled"
    BY <1>9, <1>h, <1>v, <1>o, <1>s DEF MarkCancel, Mark, Cancelled, Become, Version, OrderKinds
  <2>2. Sound(w)
    BY <1>9, <1>h, <1>v, <1>o, <1>s, MarkedIsSound DEF MarkCancel, Mark, OrderKinds
  <2>3. "cancelled" \in Outcomes(Topic("cancel"))
    BY DEF Outcomes, Topic
  <2> HIDE DEF w
  <2> QED BY <1>9, <1>5, <1>s, <2>1, <2>2, <2>3 DEF MarkCancel, w
<1>10. CASE MarkResolved(h)
  <2> PICK found \in Lookup(snap[h], OrderOf(h)) : snap' = [snap EXCEPT ![h] = Resolved(@, found)]
    BY <1>10 DEF MarkResolved
  <2> PICK v : v = Resolved(snap[h], found)
    OBVIOUS
  <2>1. v \in Version
    BY <1>10, <1>h, <1>v, ResolvedIsVersion DEF MarkResolved
  <2>2. Sound(v)
    BY <1>10, <1>h, <1>v, <1>o, <1>s, MarkedIsSound DEF MarkResolved, OrderKinds
  <2>3. ProviderGrows /\ OthersKeep(h) /\ pc'[h] = "save" /\ snap'[h] = v /\ kind'[h] = "resolve"
    BY <1>10 DEF MarkResolved, ProviderGrows, OthersKeep
  <2>4. Sound(v)'
    BY <2>1, <2>2, <2>3, SoundStays
  <2>5. (SnapIsSound(h) /\ OutcomeIsMarked(h))'
    <3>1. Sound(snap[h])'
      BY <2>3, <2>4 DEF Sound
    <3> QED BY <2>3, <3>1 DEF SnapIsSound, OutcomeIsMarked, Before, After
  <2> QED BY <1>10, <2>3, <2>5, SafeLocal DEF MarkResolved
<1>11. CASE RefuseResolved(h)
  BY <1>11, SafeEnd, SafeLocal DEF RefuseResolved, ProviderGrows
<1> QED
  BY <1>1, <1>2, <1>3, <1>4, <1>6, <1>7, <1>8, <1>9, <1>10, <1>11 DEF Decide

\* What sessionRepo.save leaves is sound when the row and the version are.
LEMMA RewrittenIsSound ==
  ASSUME NEW v \in Version, Sound(v), NEW s \in v.sessions,
         db[v.id] \in Version, Sound(db[v.id]), db[v.id].id = v.id
  PROVE  SessionRewritten(v, s) \in Version /\ Sound(SessionRewritten(v, s))
<1>1. SessionRewritten(v, s) \in Version
  BY DEF SessionRewritten, Version
<1>2. Sound(SessionRewritten(v, s))
  BY DEF SessionRewritten, Version, Sound
<1> QED BY <1>1, <1>2

\* The write and the event: sound versions are committed, committed ones
\* cached and announced.
LEMMA SafeWrite ==
  ASSUME TypeInv, SafeInv, NEW h \in Handlers, Write(h)
  PROVE  SafeInv'
<1> USE DEF TypeInv, TypeOK, Goto
<1>h. pc[h] \in After \cup {"save"}
        => snap[h] \in Version /\ Sound(snap[h]) /\ snap[h].id \in Payments
  BY VersionTypes DEF HoldsVersion, SafeInv, SnapIsSound, HistoryIsSound, Committed, After
<1>c. pc[h] \in After => Committed(snap[h]) /\ snap[h] # NoVersion
  BY <1>h, NoVersionIsNoVersion DEF SafeInv, SnapIsSound
<1>m. pc[h] \in After \cup {"save"} /\ kind[h] # "resolve"
        => snap[h].status \in Outcomes(Topic(kind[h]))
  BY DEF SafeInv, OutcomeIsMarked
<1>1. CASE SaveRow(h)
  <2>1. /\ pc[h] = "save" /\ pc'[h] \in {"sessions", "cacheId"}
        /\ snap' = snap /\ kind' = kind /\ OthersKeep(h)
    BY <1>1 DEF SaveRow, Move, OthersKeep
  <2>2. (SnapIsSound(h) /\ OutcomeIsMarked(h))'
    <3>1. snap[h] \in history'[snap[h].id]
      BY <1>1, <1>h, <2>1 DEF SaveRow, Commit
    <3>2. OutcomeIsMarked(h)'
      BY <1>m, <2>1 DEF OutcomeIsMarked, After
    <3> QED BY <2>1, <3>1, <3>2 DEF SnapIsSound, Committed, Before, After
  <2> QED BY <1>1, <1>h, <2>1, <2>2, SafeCommit DEF SaveRow
<1>2. CASE RefuseRow(h)
  BY <1>2, SafeEnd, SafeLocal DEF RefuseRow, ProviderGrows
<1>3. ASSUME NEW s \in Sessions, SaveSession(h, s) PROVE SafeInv'
  <2>1. /\ pc[h] = "sessions" /\ pc'[h] \in {"sessions", "cacheId"}
        /\ snap' = snap /\ kind' = kind /\ OthersKeep(h)
    BY <1>3 DEF SaveSession, OthersKeep
  <2>o. s \in snap[h].sessions
    BY <1>3, <2>1 DEF SaveSession, SavedFirst
  <2>2. db[snap[h].id] \in Version /\ Sound(db[snap[h].id]) /\ db[snap[h].id].id = snap[h].id
    BY <1>h, <2>1, NoVersionIsNoVersion DEF SavedFirst, SafeInv, RowsAreCommitted, HistoryIsSound, After
  <2> PICK w : w = SessionRewritten(snap[h], s)
    OBVIOUS
  <2>3. w \in Version /\ Sound(w)
    BY <1>h, <2>o, <2>1, <2>2, RewrittenIsSound DEF After
  <2>4. w.id \in Payments /\ history' = [history EXCEPT ![w.id] = @ \cup {w}]
    BY <1>3, <2>3, VersionTypes DEF SaveSession, Commit
  <2>5. snap[h] \in history'[snap[h].id]
    BY <1>c, <1>h, <2>1, <2>4 DEF Committed, After
  <2>6. (SnapIsSound(h) /\ OutcomeIsMarked(h))'
    BY <1>m, <2>1, <2>5 DEF SnapIsSound, OutcomeIsMarked, Committed, Before, After
  <2> QED BY <1>3, <2>1, <2>3, <2>6, SafeCommit DEF SaveSession
<1>4. CASE CacheById(h)
  <2>1. /\ pc[h] = "cacheId" /\ pc'[h] \in {"schedule", "cacheKey"}
        /\ pc'[h] = "schedule" => kind[h] # "resolve"
        /\ snap' = snap /\ kind' = kind /\ OthersKeep(h) /\ history' = history
    BY <1>4 DEF CacheById, Move, OthersKeep, CacheSet
  <2>2. (SnapIsSound(h) /\ OutcomeIsMarked(h))'
    BY <1>c, <1>m, <2>1 DEF SnapIsSound, OutcomeIsMarked, Committed, Before, After
  <2>3. IdKey(snap[h].id) \in CacheKeys /\ Matches(IdKey(snap[h].id), snap[h])
    BY <1>c, <1>h, <2>1, KeyTypes DEF Matches, IdKey, OrderKeys, After
  <2> QED BY <1>4, <1>c, <1>h, <2>1, <2>2, <2>3, SafeCacheSet DEF CacheById, After
<1>5. CASE CacheByIdempotencyKey(h)
  <2>1. /\ pc[h] = "cacheKey" /\ history' = history
        /\ CacheSet(IdempotencyKey(snap[h].id), snap[h]) /\ UNCHANGED <<issued, events>>
    BY <1>5 DEF CacheByIdempotencyKey, CacheSet
  <2>2. OthersKeep(h) /\ (SnapIsSound(h) /\ OutcomeIsMarked(h))'
    <3>1. CASE kind[h] # "resolve"
      <4>1. pc'[h] = "publish" /\ snap' = snap /\ kind' = kind /\ OthersKeep(h)
        BY <1>5, <3>1 DEF CacheByIdempotencyKey, MoveIf, Move, OthersKeep
      <4> QED BY <1>c, <1>m, <2>1, <3>1, <4>1 DEF SnapIsSound, OutcomeIsMarked, Committed,
                                                  Before, After
    <3>2. CASE kind[h] = "resolve"
      BY <1>5, <3>2, SafeEnd DEF CacheByIdempotencyKey, MoveIf
    <3> QED BY <3>1, <3>2
  <2>3. IdempotencyKey(snap[h].id) \in CacheKeys /\ Matches(IdempotencyKey(snap[h].id), snap[h])
    BY <1>c, <1>h, <2>1, KeyTypes DEF Matches, IdempotencyKey, OrderKeys, After
  <2> QED BY <1>c, <1>h, <2>1, <2>2, <2>3, SafeCacheSet DEF After
<1>6. CASE ScheduleTimeout(h)
  <2>1. ProviderGrows /\ UNCHANGED <<storeVars, events>> /\ pc[h] = "schedule"
    BY <1>6 DEF ScheduleTimeout, ProviderGrows
  <2>2. CASE fromCache[h]
    BY <1>6, <2>1, <2>2, SafeEnd, SafeLocal DEF ScheduleTimeout, MoveIf
  <2>3. CASE ~fromCache[h]
    <3>1. pc'[h] = "publish" /\ snap' = snap /\ kind' = kind /\ OthersKeep(h)
      BY <1>6, <2>3 DEF ScheduleTimeout, MoveIf, Move, OthersKeep
    <3>2. kind[h] # "resolve"
      BY <2>1 DEF SafeInv, OutcomeIsMarked
    <3>3. (SnapIsSound(h) /\ OutcomeIsMarked(h))'
      BY <1>c, <1>m, <2>1, <3>1, <3>2 DEF SnapIsSound, OutcomeIsMarked, Committed, Before,
                                          After, storeVars
    <3> QED BY <2>1, <3>1, <3>3, SafeLocal
  <2> QED BY <2>2, <2>3
<1>7. CASE Publish(h)
  <2>1. ProviderGrows /\ HistoryGrows /\ OthersKeep(h) /\ (SnapIsSound(h) /\ OutcomeIsMarked(h))'
    BY <1>7, SafeEnd DEF Publish, ProviderGrows, HistoryGrows, storeVars
  <2>2. EventsWereCommitted'
    <3> SUFFICES ASSUME NEW e \in events'
                 PROVE  /\ e.status \in Outcomes(e.topic)
                        /\ \E v \in history[e.id] : v.status = e.status /\ v.order = e.order
      BY <1>7 DEF EventsWereCommitted, Publish, storeVars
    <3>1. CASE e \in events
      BY <3>1 DEF SafeInv, EventsWereCommitted
    <3>2. CASE e = Event(kind[h], snap[h])
      <4>1. kind[h] # "resolve" /\ pc[h] = "publish"
        BY <1>7 DEF Publish, SafeInv, OutcomeIsMarked
      <4> QED BY <1>c, <1>m, <3>2, <4>1 DEF Event, Committed, After
    <3> QED BY <1>7, <3>1, <3>2 DEF Publish
  <2>3. HistoryIsSound'
    <3> SUFFICES ASSUME NEW p \in Payments, NEW v \in history[p] PROVE v.id = p /\ Sound(v)'
      BY <1>7 DEF HistoryIsSound, Publish, storeVars
    <3> QED BY <2>1, SoundStays DEF SafeInv, HistoryIsSound
  <2>4. RowsAreCommitted' /\ CacheIsSound'
    BY <1>7, <2>1, CacheStays DEF Publish, SafeInv, RowsAreCommitted, storeVars
  <2>5. \A g \in Handlers : (SnapIsSound(g) /\ OutcomeIsMarked(g))'
    BY <2>1, SnapStays DEF SafeInv
  <2> QED BY <2>2, <2>3, <2>4, <2>5 DEF SafeInv
<1> QED BY <1>1, <1>2, <1>3, <1>4, <1>5, <1>6, <1>7 DEF Write

\* Every step keeps the safety invariant.
LEMMA SafeNext == TypeInv /\ SafeInv /\ [Next]_vars => SafeInv'
<1> SUFFICES ASSUME TypeInv, SafeInv, [Next]_vars PROVE SafeInv'
  OBVIOUS
<1>1. ASSUME NEW h \in Handlers, NEW kd \in Kinds, NEW k \in CacheKeys, Start(h, kd, k)
      PROVE  SafeInv'
  <2>1. ProviderGrows /\ OthersKeep(h) /\ pc[h] = "idle" /\ pc'[h] = "lookup" /\ snap' = snap
    BY <1>1 DEF Start, Goto, ProviderGrows, OthersKeep, TypeInv, TypeOK
  <2>2. (SnapIsSound(h) /\ OutcomeIsMarked(h))'
    BY <2>1 DEF SafeInv, SnapIsSound, OutcomeIsMarked, Before, After
  <2> QED BY <1>1, <2>1, <2>2, SafeLocal DEF Start
<1>2. ASSUME NEW h \in Handlers, Find(h) \/ Decide(h) \/ Write(h) PROVE SafeInv'
  BY <1>2, SafeFind, SafeDecide, SafeWrite
<1>3. ASSUME NEW h \in Handlers, Fail(h) PROVE SafeInv'
  BY <1>3, SafeEnd, SafeLocal DEF Fail, ProviderGrows
<1>4. ASSUME NEW k \in CacheKeys, Lapse(k) PROVE SafeInv'
  <2>1. /\ cache' = [cache EXCEPT ![k] = NoVersion]
        /\ UNCHANGED <<db, history, localVars, issued, events>>
    BY <1>4 DEF Lapse, CacheLapse, CacheSet
  <2>2. CacheIsSound'
    BY <2>1 DEF SafeInv, CacheIsSound, Matches, TypeInv, TypeOK
  <2>3. HistoryIsSound' /\ RowsAreCommitted' /\ EventsWereCommitted'
    BY <2>1 DEF SafeInv, HistoryIsSound, RowsAreCommitted, EventsWereCommitted, Sound
  <2>4. \A g \in Handlers : (SnapIsSound(g) /\ OutcomeIsMarked(g))'
    BY <2>1 DEF SafeInv, SnapIsSound, OutcomeIsMarked, Committed, Matches, Sound,
                OrderOf, localVars
  <2> QED BY <2>2, <2>3, <2>4 DEF SafeInv
<1>5. CASE UNCHANGED vars
  <2>1. UNCHANGED <<db, cache, history, localVars, issued, events>>
    BY <1>5 DEF vars, storeVars
  <2>2. HistoryIsSound'
    BY <2>1 DEF SafeInv, HistoryIsSound, Sound
  <2>3. RowsAreCommitted' /\ CacheIsSound' /\ EventsWereCommitted'
    BY <2>1 DEF SafeInv, RowsAreCommitted, CacheIsSound, Matches, EventsWereCommitted
  <2>4. \A g \in Handlers : (SnapIsSound(g) /\ OutcomeIsMarked(g))'
    BY <2>1 DEF SafeInv, SnapIsSound, OutcomeIsMarked, Committed, Matches, Sound,
                OrderOf, localVars
  <2> QED BY <2>2, <2>3, <2>4 DEF SafeInv
<1> QED
  BY <1>1, <1>2, <1>3, <1>4, <1>5 DEF Next

\* The two invariants hold in every behaviour of the use cases.
THEOREM SafetyHolds == Spec => [](TypeInv /\ SafeInv)
<1> QED
  BY TypeInit, TypeNext, SafeInit, SafeNext, PTL DEF Spec

\* Redis never serves a version that was not committed, whatever interleaves
\* and wherever a handler dies.
THEOREM CacheSound == Spec => []CacheIsSound
<1>1. TypeInv /\ SafeInv => CacheIsSound
  BY DEF SafeInv
<1> QED BY <1>1, SafetyHolds, PTL

\* No event announces a status that was not committed before.
THEOREM EventsCommitted == Spec => []EventsWereCommitted
<1>1. TypeInv /\ SafeInv => EventsWereCommitted
  BY DEF SafeInv
<1> QED BY <1>1, SafetyHolds, PTL

\* A provider order leads to one payment.
THEOREM OrdersNotShared == Spec => []OrdersAreNotShared
<1>1. ASSUME TypeInv, SafeInv PROVE OrdersAreNotShared
  <2>1. \A p \in Payments : db[p] # NoVersion => db[p].id = p /\ Sound(db[p])
    BY <1>1 DEF SafeInv, RowsAreCommitted, HistoryIsSound
  <2> QED BY <2>1 DEF OrdersAreNotShared, Sound
<1> QED BY <1>1, SafetyHolds, PTL

----------------------------------------------------------------------------
(* What a step of a handler may touch.                                     *)

\* A step of a handler is its own: the others keep what they have, the provider
\* takes nothing back, and the call goes on to be about what it was about.
LEMMA StepIsOwn ==
  ASSUME TypeInv, NEW h \in Handlers, Find(h) \/ Decide(h) \/ Write(h) \/ Fail(h)
  PROVE  /\ OthersKeep(h) /\ ProviderGrows /\ Active(h)
         /\ pc'[h] = "done" \/ (key'[h] = key[h] /\ kind'[h] = kind[h])
<1> USE DEF OthersKeep, ProviderGrows, Active
<1>1. ASSUME End(h), UNCHANGED issued
      PROVE  OthersKeep(h) /\ ProviderGrows /\ pc'[h] = "done"
  BY <1>1 DEF End, Goto, TypeInv, TypeOK
<1>2. ASSUME NEW step, Move(h, step), UNCHANGED issued
      PROVE  OthersKeep(h) /\ ProviderGrows /\ key'[h] = key[h] /\ kind'[h] = kind[h]
  BY <1>2 DEF Move, Goto
<1>3. CASE Fail(h)
  BY <1>1, <1>3 DEF Fail
<1>4. CASE Find(h)
  <2>1. CASE FindCached(h)
    BY <2>1 DEF FindCached, Goto
  <2>4. ASSUME NEW p \in Payments, QueryRow(h, p)
        PROVE  OthersKeep(h) /\ ProviderGrows /\ Active(h) /\ key'[h] = key[h] /\ kind'[h] = kind[h]
    BY <2>4 DEF QueryRow, Goto
  <2>2. CASE MissCache(h) \/ FillCache(h)
    BY <1>2, <2>2 DEF MissCache, FillCache
  <2>3. CASE QueryNothing(h)
    BY <1>1, <1>2, <2>3 DEF QueryNothing, MoveIf
  <2> QED BY <1>4, <2>1, <2>2, <2>3, <2>4 DEF Find
<1>5. CASE Decide(h)
  <2>1. CASE TurnAway(h) \/ RefuseResolved(h)
    BY <1>1, <2>1 DEF TurnAway, RefuseResolved
  <2>2. ASSUME NEW o \in Orders, LoseProviderOrder(h, o) \/ CreateProviderOrder(h, o)
        PROVE  OthersKeep(h) /\ ProviderGrows /\ Active(h) /\ key'[h] = key[h] /\ kind'[h] = kind[h]
    <3>1. CASE LoseProviderOrder(h, o)
      BY <3>1 DEF LoseProviderOrder, Issue, localVars
    <3>2. CASE CreateProviderOrder(h, o)
      BY <3>2 DEF CreateProviderOrder, Issue, Goto
    <3> QED BY <2>2, <3>1, <3>2
  <2>3. CASE CallProvider(h)
    BY <1>2, <2>3 DEF CallProvider
  <2>m. ASSUME NEW at \in {"loaded", "called"}, NEW target, NEW v, Mark(h, at, target, v)
        PROVE  OthersKeep(h) /\ ProviderGrows /\ Active(h) /\ key'[h] = key[h] /\ kind'[h] = kind[h]
    BY <2>m DEF Mark, Goto
  <2>4. CASE MarkSucceed(h) \/ MarkFailed(h) \/ MarkExpired(h) \/ MarkCancel(h)
    BY <2>m, <2>4 DEF MarkSucceed, MarkFailed, MarkExpired, MarkCancel
  <2>5. CASE MarkResolved(h)
    BY <2>5 DEF MarkResolved, Goto
  <2> QED BY <1>5, <2>1, <2>2, <2>3, <2>4, <2>5 DEF Decide
<1>6. CASE Write(h)
  <2>1. CASE CacheById(h)
    BY <1>2, <2>1 DEF CacheById
  <2>5. CASE SaveRow(h)
    BY <2>5 DEF SaveRow, Goto
  <2>2. CASE RefuseRow(h) \/ Publish(h)
    BY <1>1, <2>2 DEF RefuseRow, Publish
  <2>3. CASE \E s \in Sessions : SaveSession(h, s)
    BY <2>3 DEF SaveSession, Goto
  <2>4. CASE CacheByIdempotencyKey(h) \/ ScheduleTimeout(h)
    BY <1>1, <1>2, <2>4 DEF CacheByIdempotencyKey, ScheduleTimeout, MoveIf
  <2> QED BY <1>6, <2>1, <2>2, <2>3, <2>4, <2>5 DEF Write
<1> QED BY <1>3, <1>4, <1>5, <1>6

\* Only SaveRow and SaveSession write the database.
LEMMA OthersReadOnly ==
  ASSUME NEW h \in Handlers,
         \/ Find(h) \/ Decide(h) \/ Fail(h)
         \/ RefuseRow(h) \/ CacheById(h) \/ CacheByIdempotencyKey(h) \/ ScheduleTimeout(h)
         \/ Publish(h)
  PROVE  UNCHANGED <<db, history>>
<1> USE DEF storeVars, CacheSet
<1>1. CASE Find(h)
  BY <1>1 DEF Find, FindCached, MissCache, QueryRow, QueryNothing, FillCache
<1>2. CASE Decide(h)
  BY <1>2 DEF Decide, TurnAway, LoseProviderOrder, CreateProviderOrder, CallProvider,
              MarkSucceed, MarkFailed, MarkExpired, MarkCancel, Mark, MarkResolved, RefuseResolved
<1>3. CASE RefuseRow(h) \/ CacheById(h) \/ CacheByIdempotencyKey(h) \/ ScheduleTimeout(h)
           \/ Publish(h) \/ Fail(h)
  BY <1>3 DEF RefuseRow, CacheById, CacheByIdempotencyKey, ScheduleTimeout, Publish, Fail
<1> QED BY <1>1, <1>2, <1>3

----------------------------------------------------------------------------
(* What is announced.                                                      *)

\* A terminal status is announced, still owed by the handler that wrote it, or
\* lost with that handler.
Settled(p, s) ==
  \/ Announced(p, s)
  \/ \E h \in Handlers : Owes(h) /\ snap[h].id = p /\ snap[h].status = s
  \/ <<p, s>> \in unannounced

\* create and resolve write a terminal status only where one was committed already.
WritesNoOutcome(h) ==
  pc[h] = "save" /\ kind[h] \in {"create", "resolve"} /\ snap[h].status \in Terminal
    => \E v \in history[snap[h].id] : v.status = snap[h].status

AnnounceInv ==
  /\ OutcomesAreAnnounced
  /\ \A h \in Handlers : WritesNoOutcome(h)

\* What was announced or lost stays so, and what h owed it still owes, has
\* announced or has lost.
LEMMA DebtsAreKept ==
  ASSUME TypeInv, NEW h \in Handlers, Find(h) \/ Decide(h) \/ Write(h) \/ Fail(h)
  PROVE  /\ events \subseteq events' /\ unannounced \subseteq unannounced'
         /\ \A p, s : Owes(h) /\ snap[h].id = p /\ snap[h].status = s
                        => \/ Owes(h)' /\ snap'[h] = snap[h]
                           \/ Announced(p, s)'
                           \/ <<p, s>> \in unannounced'
<1> USE DEF TypeInv, TypeOK
<1>1. CASE Find(h)
  BY <1>1 DEF Find, FindCached, MissCache, QueryRow, QueryNothing, FillCache, Owes
<1>2. CASE Decide(h)
  BY <1>2 DEF Decide, TurnAway, LoseProviderOrder, CreateProviderOrder, CallProvider, MarkSucceed,
              MarkFailed, MarkExpired, MarkCancel, Mark, MarkResolved, RefuseResolved, Owes
<1>3. CASE Fail(h)
  BY <1>3 DEF Fail
<1>4. CASE SaveRow(h) \/ RefuseRow(h) \/ ScheduleTimeout(h) \/ \E s \in Sessions : SaveSession(h, s)
  BY <1>4 DEF SaveRow, RefuseRow, ScheduleTimeout, SaveSession, Owes
<1>5. CASE CacheById(h) \/ CacheByIdempotencyKey(h)
  BY <1>5 DEF CacheById, CacheByIdempotencyKey, Move, MoveIf, Goto, Owes
<1>6. CASE Publish(h)
  <2>1. events' = events \cup {Event(kind[h], snap[h])} /\ unannounced' = unannounced
    BY <1>6 DEF Publish
  <2>2. ASSUME Owes(h) PROVE \E e \in events' : /\ e.id = snap[h].id /\ e.status = snap[h].status
                                                /\ e.topic # "PaymentOrderInitiated"
    <3>1. Event(kind[h], snap[h]).topic # "PaymentOrderInitiated"
      BY <2>2 DEF Owes, Event, Topic
    <3> QED BY <2>1, <3>1 DEF Event
  <2>3. Owes(h) => \E e \in events' : /\ e.id = snap[h].id /\ e.status = snap[h].status
                                      /\ e.topic # "PaymentOrderInitiated"
    BY <2>2
  <2> QED BY <2>1, <2>3 DEF Announced
<1> QED BY <1>1, <1>2, <1>3, <1>4, <1>5, <1>6 DEF Write

\* What was settled stays settled.
LEMMA SettledStays ==
  ASSUME TypeInv, NEW h \in Handlers, Find(h) \/ Decide(h) \/ Write(h) \/ Fail(h),
         NEW p, NEW s, Settled(p, s)
  PROVE  Settled(p, s)'
<1>1. OthersKeep(h)
  BY StepIsOwn
<1>2. CASE Announced(p, s) \/ <<p, s>> \in unannounced
  BY <1>2, DebtsAreKept DEF Announced, Settled
<1>3. ASSUME NEW g \in Handlers, Owes(g), snap[g].id = p, snap[g].status = s PROVE Settled(p, s)'
  <2>1. CASE g = h
    BY <1>3, <2>1, DebtsAreKept DEF Settled
  <2>2. CASE g # h
    <3>1. Owes(g)' /\ snap'[g] = snap[g]
      BY <1>1, <1>3, <2>2 DEF OthersKeep, Owes
    <3> QED BY <1>3, <3>1 DEF Settled
  <2> QED BY <2>1, <2>2
<1> QED BY <1>2, <1>3 DEF Settled

\* What is left to show of a step of h: that a terminal status it commits was
\* committed before or is one it owes, and what it is about to write.
LEMMA AnnounceStep ==
  ASSUME TypeInv, AnnounceInv, NEW h \in Handlers, Find(h) \/ Decide(h) \/ Write(h) \/ Fail(h),
         HistoryGrows,
         \A p \in Payments : \A v \in history'[p] :
            v.status \in Terminal =>
              \/ \E u \in history[p] : u.status = v.status
              \/ Owes(h)' /\ snap'[h].id = p /\ snap'[h].status = v.status,
         WritesNoOutcome(h)'
  PROVE  AnnounceInv'
<1>1. OthersKeep(h)
  BY StepIsOwn
<1>2. ASSUME NEW p \in Payments, NEW v \in history'[p], v.status \in Terminal
      PROVE  Settled(p, v.status)'
  <2> PICK s : s = v.status
    OBVIOUS
  <2>1. CASE \E u \in history[p] : u.status = v.status
    <3>1. Settled(p, s)
      BY <1>2, <2>1 DEF AnnounceInv, OutcomesAreAnnounced, Settled
    <3> QED BY <3>1, SettledStays
  <2>2. CASE Owes(h)' /\ snap'[h].id = p /\ snap'[h].status = v.status
    <3>1. Settled(p, s)'
      BY <2>2 DEF Settled
    <3> QED BY <3>1
  <2> QED BY <1>2, <2>1, <2>2
<1>3. OutcomesAreAnnounced'
  BY <1>2 DEF OutcomesAreAnnounced, Settled
<1>4. ASSUME NEW g \in Handlers \ {h} PROVE WritesNoOutcome(g)'
  <2>1. pc'[g] = pc[g] /\ kind'[g] = kind[g] /\ snap'[g] = snap[g]
    BY <1>1 DEF OthersKeep
  <2>2. SUFFICES ASSUME pc[g] = "save", kind[g] \in {"create", "resolve"},
                        snap[g].status \in Terminal
                 PROVE  \E v \in history'[snap[g].id] : v.status = snap[g].status
    BY <2>1 DEF WritesNoOutcome
  <2>3. snap[g].id \in Payments
    BY <2>2, VersionTypes DEF TypeInv, HoldsVersion
  <2>4. PICK v \in history[snap[g].id] : v.status = snap[g].status
    BY <2>2 DEF AnnounceInv, WritesNoOutcome
  <2> QED BY <2>3, <2>4 DEF HistoryGrows
<1> QED BY <1>3, <1>4 DEF AnnounceInv

LEMMA AnnounceInit == Init => AnnounceInv
BY DEF Init, StoreInit, AnnounceInv, OutcomesAreAnnounced, WritesNoOutcome

\* A step that commits nothing: what h is about to write is all there is to show.
LEMMA AnnounceQuiet ==
  ASSUME TypeInv, AnnounceInv, NEW h \in Handlers, Find(h) \/ Decide(h) \/ Write(h) \/ Fail(h),
         UNCHANGED history, WritesNoOutcome(h)'
  PROVE  AnnounceInv'
<1>1. HistoryGrows
  BY DEF HistoryGrows
<1>2. \A p \in Payments : \A v \in history'[p] :
         v.status \in Terminal =>
           \/ \E u \in history[p] : u.status = v.status
           \/ Owes(h)' /\ snap'[h].id = p /\ snap'[h].status = v.status
  OBVIOUS
<1> QED BY <1>1, <1>2, AnnounceStep

\* The decision: create and resolve keep a terminal status as they found it, in
\* a version that was committed.
LEMMA AnnounceDecide ==
  ASSUME TypeInv, SafeInv, AnnounceInv, NEW h \in Handlers, Decide(h)
  PROVE  AnnounceInv'
<1> USE DEF TypeInv, TypeOK, Goto
<1>u. UNCHANGED history
  BY OthersReadOnly
<1>h. pc[h] \in {"loaded", "called"} /\ snap[h] # NoVersion
        => snap[h] \in Version /\ Committed(snap[h])
  BY DEF SafeInv, SnapIsSound, Before
<1>v. pc[h] \in {"loaded", "called"} /\ kind[h] # "create" => snap[h] # NoVersion
  BY NoVersionIsNoVersion DEF HoldsVersion
\* A handler that keeps the status of a committed version has no outcome of its own.
<1>k. ASSUME snap[h] # NoVersion, pc[h] \in {"loaded", "called"}, snap'[h].id = snap[h].id,
             snap'[h].status = snap[h].status
      PROVE  WritesNoOutcome(h)'
  <2>1. snap[h] \in history[snap[h].id]
    BY <1>h, <1>k DEF Committed
  <2> PICK w : w = snap[h]
    OBVIOUS
  <2>2. w \in history'[w.id] /\ snap'[h].id = w.id /\ snap'[h].status = w.status
    BY <1>k, <1>u, <2>1
  <2>3. \E x \in history'[snap'[h].id] : x.status = snap'[h].status
    BY <2>2
  <2> QED BY <2>3 DEF WritesNoOutcome
<1>1. CASE TurnAway(h) \/ RefuseResolved(h)
  <2>1. pc'[h] = "done"
    BY <1>1 DEF TurnAway, RefuseResolved, End
  <2> QED BY <1>u, <2>1, AnnounceQuiet DEF WritesNoOutcome
<1>2. ASSUME NEW o \in Orders, LoseProviderOrder(h, o) PROVE AnnounceInv'
  <2>1. pc'[h] # "save"
    BY <1>2 DEF LoseProviderOrder, localVars
  <2> QED BY <1>u, <2>1, AnnounceQuiet DEF WritesNoOutcome
<1>3. ASSUME NEW o \in Orders, CreateProviderOrder(h, o) PROVE AnnounceInv'
  <2> PICK n : n = <<o, h>>
    OBVIOUS
  <2>1. CASE snap[h] = NoVersion
    <3>1. snap'[h] = Created(key[h][2], n)
      BY <1>3, <2>1 DEF CreateProviderOrder
    <3>2. snap'[h].status \notin Terminal
      BY <3>1 DEF Created, Terminal
    <3> QED BY <1>u, <3>2, AnnounceQuiet DEF WritesNoOutcome
  <2>2. CASE snap[h] # NoVersion
    <3>1. snap'[h] = WithSession(snap[h], n) /\ pc[h] = "loaded"
      BY <1>3, <2>2 DEF CreateProviderOrder
    <3>2. snap'[h].id = snap[h].id /\ snap'[h].status = snap[h].status
      BY <1>h, <2>2, <3>1, OperationsKeepId
    <3> QED BY <1>k, <1>u, <2>2, <3>1, <3>2, AnnounceQuiet
  <2> QED BY <2>1, <2>2
<1>4. CASE CallProvider(h)
  <2>1. pc'[h] = "called"
    BY <1>4 DEF CallProvider, Move
  <2> QED BY <1>u, <2>1, AnnounceQuiet DEF WritesNoOutcome
<1>5. CASE MarkSucceed(h) \/ MarkFailed(h) \/ MarkExpired(h) \/ MarkCancel(h)
  <2>1. kind'[h] \notin {"create", "resolve"}
    BY <1>5 DEF MarkSucceed, MarkFailed, MarkExpired, MarkCancel, Mark
  <2> QED BY <1>u, <2>1, AnnounceQuiet DEF WritesNoOutcome
<1>6. CASE MarkResolved(h)
  <2>1. pc[h] = "called" /\ kind[h] = "resolve"
    BY <1>6 DEF MarkResolved
  <2> PICK found : snap' = [snap EXCEPT ![h] = Resolved(@, found)]
    BY <1>6 DEF MarkResolved
  <2>2. snap'[h] = Resolved(snap[h], found)
    OBVIOUS
  <2>3. /\ snap'[h].id = snap[h].id
        /\ snap'[h].status = IF snap[h].status \in Terminal THEN snap[h].status ELSE "resolved"
    BY <1>h, <1>v, <2>1, <2>2, OperationsKeepId
  <2>4. CASE snap[h].status \in Terminal
    BY <1>k, <1>u, <1>v, <2>1, <2>3, <2>4, AnnounceQuiet
  <2>5. CASE snap[h].status \notin Terminal
    <3>1. snap'[h].status \notin Terminal
      BY <2>3, <2>5 DEF Terminal
    <3> QED BY <1>u, <3>1, AnnounceQuiet DEF WritesNoOutcome
  <2> QED BY <2>4, <2>5
<1> QED BY <1>1, <1>2, <1>3, <1>4, <1>5, <1>6 DEF Decide

\* A write: the outcome it commits is one the handler owes from now on, or one
\* that was committed before.
LEMMA AnnounceWrite ==
  ASSUME TypeInv, SafeInv, AnnounceInv, NEW h \in Handlers, Write(h)
  PROVE  AnnounceInv'
<1> USE DEF TypeInv, TypeOK, Goto
<1>1. CASE SaveRow(h)
  <2>1. /\ pc[h] = "save" /\ Commit(snap[h])
        /\ kind'[h] = kind[h] /\ snap'[h] = snap[h]
        /\ pc'[h] = IF kind[h] = "create" THEN "sessions" ELSE "cacheId"
    BY <1>1 DEF SaveRow, Move
  <2>2. snap[h] \in Version /\ snap[h].id \in Payments
    BY <2>1, VersionTypes DEF HoldsVersion
  <2> PICK w : w = snap[h]
    OBVIOUS
  <2>3. history' = [history EXCEPT ![w.id] = @ \cup {w}]
    BY <2>1 DEF Commit
  <2>4. HistoryGrows
    BY <2>2, <2>3 DEF HistoryGrows
  <2>5. WritesNoOutcome(h)'
    BY <2>1 DEF WritesNoOutcome
  <2>6. ASSUME NEW p \in Payments, NEW v \in history'[p], v.status \in Terminal
        PROVE  \/ \E u \in history[p] : u.status = v.status
               \/ Owes(h)' /\ snap'[h].id = p /\ snap'[h].status = v.status
    <3>1. CASE v \in history[p]
      BY <3>1
    <3>2. CASE v \notin history[p]
      <4>1. p = w.id /\ v = w
        BY <2>2, <2>3, <3>2
      <4>2. CASE kind[h] \in {"create", "resolve"}
        BY <2>1, <2>6, <4>1, <4>2 DEF AnnounceInv, WritesNoOutcome
      <4>3. CASE kind[h] \notin {"create", "resolve"}
        <5>1. Owes(h)'
          BY <2>1, <4>3 DEF Owes
        <5> QED BY <2>1, <4>1, <5>1
      <4> QED BY <4>2, <4>3
    <3> QED BY <3>1, <3>2
  <2> QED BY <2>4, <2>5, <2>6, AnnounceStep
<1>2. ASSUME NEW s \in Sessions, SaveSession(h, s) PROVE AnnounceInv'
  <2>1. /\ pc[h] = "sessions" /\ pc'[h] # "save"
        /\ Commit(SessionRewritten(snap[h], s))
    BY <1>2 DEF SaveSession
  <2>2. snap[h] \in Version /\ snap[h].id \in Payments /\ db[snap[h].id] \in Version
    BY <2>1, VersionTypes DEF HoldsVersion, SavedFirst
  <2> PICK q : q = snap[h].id
    OBVIOUS
  <2> PICK w : w = SessionRewritten(snap[h], s)
    OBVIOUS
  <2>3. w.id = db[q].id /\ w.status = db[q].status
    BY <2>2 DEF SessionRewritten, Version
  <2>4. db[q] \in history[q] /\ db[q].id = q
    BY <2>2, NoVersionIsNoVersion DEF SafeInv, RowsAreCommitted, HistoryIsSound
  <2>5. history' = [history EXCEPT ![q] = @ \cup {w}]
    BY <2>1, <2>3, <2>4 DEF Commit
  <2>6. HistoryGrows
    BY <2>2, <2>5 DEF HistoryGrows
  <2>7. ASSUME NEW p \in Payments, NEW v \in history'[p]
        PROVE  \E u \in history[p] : u.status = v.status
    BY <2>2, <2>3, <2>4, <2>5, <2>7
  <2>8. WritesNoOutcome(h)'
    BY <2>1 DEF WritesNoOutcome
  <2> QED BY <1>2, <2>6, <2>7, <2>8, AnnounceStep
<1>3. CASE RefuseRow(h) \/ CacheById(h) \/ CacheByIdempotencyKey(h) \/ ScheduleTimeout(h)
             \/ Publish(h)
  <2>1. pc'[h] # "save"
    BY <1>3 DEF RefuseRow, CacheById, CacheByIdempotencyKey, ScheduleTimeout, Publish, End, Move,
                MoveIf
  <2>2. UNCHANGED history
    BY <1>3, OthersReadOnly
  <2> QED BY <2>1, <2>2, AnnounceQuiet DEF WritesNoOutcome
<1> QED BY <1>1, <1>2, <1>3 DEF Write

LEMMA AnnounceNext == TypeInv /\ SafeInv /\ AnnounceInv /\ [Next]_vars => AnnounceInv'
<1> SUFFICES ASSUME TypeInv, SafeInv, AnnounceInv, [Next]_vars PROVE AnnounceInv'
  OBVIOUS
<1>1. ASSUME NEW h \in Handlers, NEW kd \in Kinds, NEW k \in CacheKeys, Start(h, kd, k)
      PROVE  AnnounceInv'
  <2>1. /\ UNCHANGED <<history, snap, events, unannounced>>
        /\ pc[h] = "idle" /\ pc'[h] = "lookup"
        /\ \A g \in Handlers \ {h} : pc'[g] = pc[g] /\ kind'[g] = kind[g]
    BY <1>1 DEF Start, Goto, storeVars, TypeInv, TypeOK
  <2>2. ASSUME NEW g \in Handlers PROVE (Owes(g) => Owes(g)') /\ WritesNoOutcome(g)'
    BY <2>1, <2>2 DEF Owes, WritesNoOutcome, AnnounceInv
  <2>3. ASSUME NEW p \in Payments, NEW v \in history[p], v.status \in Terminal
        PROVE  Settled(p, v.status)'
    <3> PICK s : s = v.status
      OBVIOUS
    <3>1. Settled(p, s)
      BY <2>3 DEF AnnounceInv, OutcomesAreAnnounced, Settled
    <3>2. Settled(p, s)'
      BY <2>1, <2>2, <3>1 DEF Settled, Announced
    <3> QED BY <3>2
  <2>4. OutcomesAreAnnounced'
    BY <2>1, <2>3 DEF OutcomesAreAnnounced, Settled
  <2> QED BY <2>2, <2>4 DEF AnnounceInv
<1>2. ASSUME NEW h \in Handlers, Find(h) \/ Fail(h) PROVE AnnounceInv'
  <2>1. pc'[h] # "save"
    BY <1>2 DEF Find, FindCached, MissCache, QueryRow, QueryNothing, FillCache, Fail, Move, MoveIf,
                End, Goto, TypeInv, TypeOK
  <2>2. UNCHANGED history
    BY <1>2, OthersReadOnly
  <2> QED BY <1>2, <2>1, <2>2, AnnounceQuiet DEF WritesNoOutcome
<1>3. ASSUME NEW k \in CacheKeys, Lapse(k) PROVE AnnounceInv'
  BY <1>3 DEF Lapse, CacheLapse, CacheSet, localVars, AnnounceInv, OutcomesAreAnnounced, Announced,
              Owes, WritesNoOutcome
<1>4. CASE UNCHANGED vars
  BY <1>4 DEF vars, storeVars, localVars, AnnounceInv, OutcomesAreAnnounced, Announced, Owes,
              WritesNoOutcome
<1> QED BY <1>1, <1>2, <1>3, <1>4, AnnounceDecide, AnnounceWrite DEF Next

\* Whatever interleaves, and however old the entries that are read, an outcome
\* that was committed is announced, will be by the handler that wrote it, or was
\* lost by a handler that broke off in between.
THEOREM OutcomesAnnounced == Spec => []OutcomesAreAnnounced
<1>1. TypeInv /\ SafeInv /\ AnnounceInv /\ [Next]_vars => AnnounceInv'
  BY AnnounceNext
<1>2. AnnounceInv => OutcomesAreAnnounced
  BY DEF AnnounceInv
<1> QED BY <1>1, <1>2, AnnounceInit, SafetyHolds, PTL DEF Spec
=============================================================================
