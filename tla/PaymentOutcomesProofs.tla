------------------------- MODULE PaymentOutcomesProofs -------------------------
(***************************************************************************)
(* What becomes of a payment's status, captures, sessions and outcome when *)
(* nothing keeps calls about it apart and entries may be of any age: for   *)
(* any payments, orders, activations and mix of use cases, and whatever    *)
(* the constants Serial and StaleReads are.  BaseInv says how the version  *)
(* a handler is about to write came of the one it read, and so what its    *)
(* write does to a row that is still that one; StandInv follows the        *)
(* outcomes that were announced or are owed.  The status column implements *)
(* PaymentLifecycle.                                                       *)
(***************************************************************************)
EXTENDS PaymentHandlersProofs

USE DEF worldVars

----------------------------------------------------------------------------
(* The version a handler read and the one it writes.                       *)

\* Where the status column may go from one of its values: nowhere, or along
\* an arrow of the table.
Follows(s, t) == s = t \/ (t \in Statuses /\ s \in AllowedTransitions[t])

Captures(v) == v.status = "resolved" => v.captured # {}

\* h took the payment for new, or has a version that was committed once, from
\* which the table leads to what it is about to write; it forgets no capture.
MadeFromBase(h) ==
  \/ base[h] = NoVersion /\ IsNew(h) /\ snap[h].status = "pending"
  \/ /\ base[h] \in Version /\ Committed(base[h])
     /\ snap[h].id = base[h].id
     /\ Follows(snap[h].status, base[h].status)
     /\ base[h].captured \subseteq snap[h].captured

BaseIsKept(h) ==
  /\ pc[h] # "save" => base[h] = snap[h]
  /\ pc[h] = "save" => MadeFromBase(h) /\ (Captures(snap[h]) \/ Uncaptured(snap[h].id))
  /\ \A p \in Payments : <<p, h>> \in overwritten => pc[h] \in After \cup {"done"}

BaseInv == \A h \in Handlers : BaseIsKept(h)

\* Of the versions handlers know and of the overwriting a step of h touches
\* its own only.
LEMMA BaseIsOwn ==
  ASSUME TypeInv, NEW h \in Handlers, Find(h) \/ Decide(h) \/ Write(h) \/ Fail(h)
  PROVE  /\ \A g \in Handlers \ {h} : base'[g] = base[g]
         /\ SaveRow(h) \/ overwritten' = overwritten
<1> DEFINE Own == \A g \in Handlers \ {h} : base'[g] = base[g]
<1> USE DEF TypeInv, TypeOK
<1>e. ASSUME End(h) PROVE Own
  BY <1>e DEF End
<1>m. ASSUME NEW step, Move(h, step) PROVE Own
  BY <1>m DEF Move
<1>b. ASSUME NEW v, base' = [base EXCEPT ![h] = v] PROVE Own
  BY <1>b
<1> HIDE DEF Own
<1>u. ASSUME base' = base PROVE Own
  BY <1>u DEF Own
<1>1. CASE Fail(h)
  BY <1>1, <1>e DEF Fail, Own
<1>2. CASE Find(h)
  <2>1. overwritten' = overwritten
    BY <1>2 DEF Find, FindCached, MissCache, QueryRow, QueryNothing, FillCache
  <2>2. Own
    BY <1>2, <1>e, <1>m, <1>b DEF Find, FindCached, MissCache, QueryRow, QueryNothing, FillCache, MoveIf
  <2> QED BY <2>1, <2>2 DEF Own
<1>3. CASE Decide(h)
  <2>1. overwritten' = overwritten
    BY <1>3 DEF Decide, TurnAway, LoseProviderOrder, CreateProviderOrder, CallProvider, MarkSucceed,
                MarkFailed, MarkExpired, MarkCancel, Mark, MarkResolved, RefuseResolved
  <2>2. Own
    BY <1>3, <1>e, <1>m, <1>u
       DEF Decide, TurnAway, LoseProviderOrder, CreateProviderOrder, CallProvider, MarkSucceed,
           MarkFailed, MarkExpired, MarkCancel, Mark, MarkResolved, RefuseResolved, localVars
  <2> QED BY <2>1, <2>2 DEF Own
<1>4. CASE Write(h)
  <2>1. CASE SaveRow(h)
    <3>1. Own
      BY <1>b, <2>1 DEF SaveRow
    <3> QED BY <2>1, <3>1 DEF Own
  <2>2. CASE \E s \in Sessions : SaveSession(h, s)
    <3>1. base' = base /\ overwritten' = overwritten
      BY <2>2 DEF SaveSession
    <3> QED BY <1>u, <3>1 DEF Own
  <2>3. CASE RefuseRow(h) \/ CacheById(h) \/ CacheByIdempotencyKey(h) \/ ScheduleTimeout(h) \/ Publish(h)
    <3>1. overwritten' = overwritten
      BY <2>3 DEF RefuseRow, CacheById, CacheByIdempotencyKey, ScheduleTimeout, Publish
    <3>2. Own
      BY <1>e, <1>m, <2>3
         DEF RefuseRow, CacheById, CacheByIdempotencyKey, ScheduleTimeout, Publish, MoveIf
    <3> QED BY <3>1, <3>2 DEF Own
  <2> QED BY <1>4, <2>1, <2>2, <2>3 DEF Write
<1> QED BY <1>1, <1>2, <1>3, <1>4

\* No step takes a version out of the history.
LEMMA HistoryStays ==
  ASSUME TypeInv, NEW h \in Handlers, Find(h) \/ Decide(h) \/ Write(h) \/ Fail(h)
  PROVE  HistoryGrows
<1>1. ASSUME NEW w, Commit(w) PROVE HistoryGrows
  BY <1>1 DEF Commit, HistoryGrows, TypeInv, TypeOK
<1>2. CASE SaveRow(h)
  BY <1>1, <1>2 DEF SaveRow
<1>3. ASSUME NEW s \in Sessions, SaveSession(h, s) PROVE HistoryGrows
  BY <1>1, <1>3 DEF SaveSession
<1>4. CASE UNCHANGED <<db, history>>
  BY <1>4 DEF HistoryGrows
<1> QED BY <1>2, <1>3, <1>4, OthersReadOnly DEF Write

\* What is left to show of a step of h: that h itself keeps its part.
LEMMA BaseStep ==
  ASSUME TypeInv, SafeInv, BaseInv, NEW h \in Handlers,
         Find(h) \/ Decide(h) \/ Write(h) \/ Fail(h), BaseIsKept(h)'
  PROVE  BaseInv'
<1>1. OthersKeep(h) /\ HistoryGrows
  BY StepIsOwn, HistoryStays
<1> SUFFICES ASSUME NEW g \in Handlers \ {h} PROVE BaseIsKept(g)'
  BY DEF BaseInv
<1>2. /\ pc'[g] = pc[g] /\ kind'[g] = kind[g] /\ snap'[g] = snap[g] /\ base'[g] = base[g]
  BY <1>1, BaseIsOwn DEF OthersKeep
<1>3. \A p \in Payments : <<p, g>> \in overwritten' => <<p, g>> \in overwritten
  BY BaseIsOwn DEF SaveRow
<1>4. IsNew(g)' = IsNew(g)
  BY <1>2 DEF IsNew, NewSession
<1>5. base[g] \in Version /\ Committed(base[g]) => base[g] \in history'[base[g].id]
  BY <1>1, VersionTypes DEF Committed, HistoryGrows
<1>6. pc[g] = "save" => snap[g].id \in Payments
  BY VersionTypes DEF TypeInv, HoldsVersion
<1>7. pc[g] = "save" /\ Uncaptured(snap[g].id) => \E v \in history'[snap[g].id] :
                                                     v.status = "resolved" /\ v.captured = {}
  BY <1>1, <1>6 DEF Uncaptured, HistoryGrows
<1>8. MadeFromBase(g) => MadeFromBase(g)'
  BY <1>2, <1>4, <1>5 DEF MadeFromBase, Committed
<1> QED BY <1>2, <1>3, <1>7, <1>8 DEF BaseInv, BaseIsKept, Captures, Uncaptured

\* A step of h that makes no version to write.
LEMMA BaseQuiet ==
  ASSUME TypeInv, SafeInv, BaseInv, NEW h \in Handlers,
         Find(h) \/ Decide(h) \/ Write(h) \/ Fail(h),
         pc'[h] # "save", base'[h] = snap'[h], ~SaveRow(h),
         pc[h] \in After \cup {"done"} => pc'[h] \in After \cup {"done"}
  PROVE  BaseInv'
<1>1. overwritten' = overwritten
  BY BaseIsOwn
<1>2. BaseIsKept(h)'
  BY <1>1 DEF BaseInv, BaseIsKept
<1> QED BY <1>2, BaseStep

\* A handler that ends holds nothing.
LEMMA BaseEnd ==
  ASSUME TypeInv, SafeInv, BaseInv, NEW h \in Handlers,
         Find(h) \/ Decide(h) \/ Write(h) \/ Fail(h), ~SaveRow(h), End(h)
  PROVE  BaseInv'
<1>1. pc'[h] = "done" /\ base'[h] = snap'[h]
  BY DEF End, Goto, TypeInv, TypeOK
<1> QED BY <1>1, BaseQuiet

\* A handler that goes on with what it has.
LEMMA BaseMove ==
  ASSUME TypeInv, SafeInv, BaseInv, NEW h \in Handlers, NEW step,
         Find(h) \/ Decide(h) \/ Write(h) \/ Fail(h), ~SaveRow(h), Move(h, step),
         pc[h] # "save", step # "save",
         pc[h] \in After \cup {"done"} => step \in After \cup {"done"}
  PROVE  BaseInv'
<1>1. pc'[h] = step /\ base'[h] = base[h] /\ snap'[h] = snap[h]
  BY DEF Move, Goto, TypeInv, TypeOK
<1>2. base[h] = snap[h]
  BY DEF BaseInv, BaseIsKept
<1> QED BY <1>1, <1>2, BaseQuiet

\* The finder: the version it finds is the one the handler knows.
LEMMA BaseFind ==
  ASSUME TypeInv, SafeInv, BaseInv, NEW h \in Handlers, Find(h)
  PROVE  BaseInv'
<1>1. pc[h] \in {"lookup", "query", "fill"} /\ ~SaveRow(h)
  BY DEF Find, FindCached, MissCache, QueryRow, QueryNothing, FillCache, SaveRow
<1>2. pc[h] \notin After \cup {"done", "save"}
  BY <1>1 DEF After
<1>3. CASE FindCached(h) \/ \E p \in Payments : QueryRow(h, p)
  <2>1. pc'[h] \in {"loaded", "fill"} /\ base'[h] = snap'[h]
    BY <1>3 DEF FindCached, QueryRow, Goto, TypeInv, TypeOK
  <2> QED BY <1>1, <1>2, <2>1, BaseQuiet
<1>4. CASE MissCache(h) \/ FillCache(h)
  BY <1>1, <1>2, <1>4, BaseMove DEF MissCache, FillCache
<1>5. CASE QueryNothing(h)
  BY <1>1, <1>2, <1>5, BaseMove, BaseEnd DEF QueryNothing, MoveIf
<1> QED BY <1>3, <1>4, <1>5 DEF Find

\* The decision: what the table and the entity's methods make of the version.
LEMMA BaseDecide ==
  ASSUME TypeInv, SafeInv, BaseInv, NEW h \in Handlers, Decide(h)
  PROVE  BaseInv'
<1> USE DEF TypeInv, TypeOK, Goto
<1>0. pc[h] \in {"loaded", "called"} /\ ~SaveRow(h) /\ pc[h] \notin After \cup {"done"}
  BY DEF Decide, TurnAway, LoseProviderOrder, CreateProviderOrder, CallProvider, MarkSucceed,
         MarkFailed, MarkExpired, MarkCancel, Mark, MarkResolved, RefuseResolved, SaveRow, After
<1>1. history' = history /\ overwritten' = overwritten /\ base[h] = snap[h]
  BY <1>0, OthersReadOnly, BaseIsOwn DEF BaseInv, BaseIsKept
<1>h. snap[h] # NoVersion
        => /\ snap[h] \in Version /\ snap[h].status \in Statuses /\ Sound(snap[h])
           /\ snap[h] \in history[snap[h].id] /\ Matches(key[h], snap[h])
  <2>1. snap[h] # NoVersion => snap[h] \in Version /\ snap[h] \in history[snap[h].id]
                               /\ Matches(key[h], snap[h])
    BY <1>0 DEF SafeInv, SnapIsSound, Committed, Before
  <2> QED BY <2>1, VersionTypes DEF SafeInv, HistoryIsSound
<1>v. kind[h] # "create" => snap[h] # NoVersion
  BY <1>0, NoVersionIsNoVersion DEF HoldsVersion
\* A version that was found and is written on: its status follows.
<1>w. ASSUME pc'[h] = "save", base'[h] = base[h], snap[h] # NoVersion,
             snap'[h].id = snap[h].id, Follows(snap'[h].status, snap[h].status),
             snap[h].captured \subseteq snap'[h].captured,
             \/ Captures(snap'[h])
             \/ snap'[h].status = snap[h].status /\ snap'[h].captured = snap[h].captured
      PROVE  BaseInv'
  <2>1. MadeFromBase(h)'
    BY <1>1, <1>h, <1>w DEF MadeFromBase, Committed, Follows
  <2>2. Captures(snap'[h]) \/ \E v \in history[snap[h].id] : v.status = "resolved" /\ v.captured = {}
    BY <1>h, <1>w DEF Captures
  <2>3. (Captures(snap[h]) \/ Uncaptured(snap[h].id))'
    BY <1>1, <1>w, <2>2 DEF Captures, Uncaptured
  <2>4. \A p \in Payments : <<p, h>> \notin overwritten'
    BY <1>0, <1>1 DEF BaseInv, BaseIsKept
  <2>5. BaseIsKept(h)'
    BY <1>w, <2>1, <2>3, <2>4 DEF BaseIsKept
  <2> QED BY <2>5, BaseStep
<1>2. CASE TurnAway(h) \/ RefuseResolved(h)
  BY <1>0, <1>2, BaseEnd DEF TurnAway, RefuseResolved
<1>3. ASSUME NEW o \in Orders, LoseProviderOrder(h, o) PROVE BaseInv'
  <2>1. pc' = pc /\ base' = base /\ snap' = snap
    BY <1>3 DEF LoseProviderOrder, localVars
  <2> QED BY <1>0, <1>1, <2>1, BaseQuiet
<1>4. ASSUME NEW o \in Orders, CreateProviderOrder(h, o) PROVE BaseInv'
  <2>1. pc'[h] = "save" /\ base'[h] = base[h] /\ kind'[h] = "create"
    BY <1>4 DEF CreateProviderOrder
  <2> PICK n : n = <<o, h>>
    OBVIOUS
  <2>2. CASE snap[h] = NoVersion
    <3>1. snap'[h] = Created(key[h][2], n)
      BY <1>4, <2>2 DEF CreateProviderOrder
    <3>2. snap'[h].status = "pending" /\ snap'[h].order = o /\ snap'[h].sessions = {<<o, h>>}
      BY <3>1 DEF Created
    <3>3. IsNew(h)'
      BY <2>1, <3>2 DEF IsNew, NewSession
    <3>4. MadeFromBase(h)' /\ Captures(snap[h])'
      BY <1>1, <2>1, <2>2, <3>2, <3>3 DEF MadeFromBase, Captures
    <3>5. \A p \in Payments : <<p, h>> \notin overwritten'
      BY <1>0, <1>1 DEF BaseInv, BaseIsKept
    <3>6. BaseIsKept(h)'
      BY <2>1, <3>4, <3>5 DEF BaseIsKept
    <3> QED BY <3>6, BaseStep
  <2>3. CASE snap[h] # NoVersion
    <3>1. snap'[h] = WithSession(snap[h], n)
      BY <1>4, <2>3 DEF CreateProviderOrder
    <3>2. /\ snap'[h].id = snap[h].id /\ snap'[h].status = snap[h].status
          /\ snap'[h].captured = snap[h].captured
      BY <1>h, <2>3, <3>1, OperationsKeepId
    <3> QED BY <1>w, <2>1, <2>3, <3>2 DEF Follows
  <2> QED BY <2>2, <2>3
<1>5. CASE CallProvider(h)
  BY <1>0, <1>5, BaseMove DEF CallProvider
<1>6. ASSUME NEW at, NEW target, NEW v, kind[h] # "create",
             Mark(h, at, target, v), v.id = snap[h].id, v.status = target, target # "resolved",
             v.captured = snap[h].captured
      PROVE  BaseInv'
  <2>1. pc'[h] = "save" /\ snap'[h] = v /\ MayBecome(snap[h], target) /\ base'[h] = base[h]
    BY <1>6 DEF Mark
  <2>2. Follows(target, snap[h].status)
    BY <1>6, <1>h, <1>v, <2>1 DEF MayBecome, Follows
  <2> QED BY <1>6, <1>v, <1>w, <2>1, <2>2 DEF Captures
<1>7. CASE MarkSucceed(h) \/ MarkFailed(h) \/ MarkExpired(h)
  <2>1. kind[h] # "create"
    BY <1>7 DEF MarkSucceed, MarkFailed, MarkExpired
  <2>2. \A s : /\ Become(snap[h], s).id = snap[h].id /\ Become(snap[h], s).status = s
               /\ Become(snap[h], s).captured = snap[h].captured
    BY <1>h, <1>v, <2>1, OperationsKeepId
  <2>3. CASE MarkSucceed(h)
    BY <1>6, <2>1, <2>2, <2>3 DEF MarkSucceed
  <2>4. CASE MarkFailed(h)
    BY <1>6, <2>1, <2>2, <2>4 DEF MarkFailed
  <2>5. CASE MarkExpired(h)
    BY <1>6, <2>1, <2>2, <2>5 DEF MarkExpired
  <2> QED BY <1>7, <2>3, <2>4, <2>5
<1>8. CASE MarkCancel(h)
  <2>1. kind[h] # "create"
    BY <1>8 DEF MarkCancel
  <2>2. /\ Cancelled(snap[h], OrderOf(h)).id = snap[h].id
        /\ Cancelled(snap[h], OrderOf(h)).status = "cancelled"
        /\ Cancelled(snap[h], OrderOf(h)).captured = snap[h].captured
    BY <1>h, <1>v, <2>1, OperationsKeepId
  <2> QED BY <1>6, <1>8, <2>1, <2>2 DEF MarkCancel
<1>9. CASE MarkResolved(h)
  <2>1. /\ pc[h] = "called" /\ kind[h] = "resolve" /\ pc'[h] = "save" /\ Resolvable(snap[h])
        /\ base'[h] = base[h]
    BY <1>9 DEF MarkResolved
  <2> PICK found \in Lookup(snap[h], OrderOf(h)) : snap' = [snap EXCEPT ![h] = Resolved(@, found)]
    BY <1>9 DEF MarkResolved
  <2>2. snap'[h] = Resolved(snap[h], found)
    OBVIOUS
  <2>3. /\ snap'[h].id = snap[h].id
        /\ snap'[h].status = IF snap[h].status \in Terminal THEN snap[h].status ELSE "resolved"
        /\ snap'[h].captured = snap[h].captured \cup found
    BY <1>h, <1>v, <2>1, <2>2, OperationsKeepId
  <2>4. Follows(snap'[h].status, snap[h].status)
    BY <1>h, <1>v, <2>1, <2>3 DEF Follows, Resolvable, MayBecome
  <2>5. snap[h].order = OrderOf(h)
    BY <1>h, <1>v, <2>1 DEF Matches, OrderOf, NamesItsTarget, Active, OrderKinds
  <2>6. found # {}
    BY <1>h, <1>v, <2>1, <2>5 DEF Lookup, Sound
  <2> QED BY <1>v, <1>w, <2>1, <2>3, <2>4, <2>6 DEF Captures
<1> QED BY <1>2, <1>3, <1>4, <1>5, <1>7, <1>8, <1>9 DEF Decide

\* The write: from then on the handler knows what it wrote.
LEMMA BaseWrite ==
  ASSUME TypeInv, SafeInv, BaseInv, NEW h \in Handlers, Write(h)
  PROVE  BaseInv'
<1> USE DEF TypeInv, TypeOK, Goto
<1>1. CASE SaveRow(h)
  <2>1. pc'[h] \in {"sessions", "cacheId"} /\ base'[h] = snap[h] /\ snap'[h] = snap[h]
    BY <1>1 DEF SaveRow
  <2>2. BaseIsKept(h)'
    BY <2>1 DEF BaseIsKept, After
  <2> QED BY <2>2, BaseStep
<1>2. CASE RefuseRow(h)
  <2>1. ~SaveRow(h)
    BY <1>2 DEF RefuseRow, SaveRow
  <2> QED BY <1>2, <2>1, BaseEnd DEF RefuseRow
<1>3. ASSUME NEW s \in Sessions, SaveSession(h, s) PROVE BaseInv'
  <2>1. /\ pc[h] = "sessions" /\ pc'[h] \in {"sessions", "cacheId"} /\ ~SaveRow(h)
        /\ base' = base /\ snap' = snap
    BY <1>3 DEF SaveSession, SaveRow
  <2>2. base'[h] = snap'[h]
    BY <2>1 DEF BaseInv, BaseIsKept
  <2> QED BY <2>1, <2>2, BaseQuiet DEF After
<1>4. CASE CacheById(h) \/ CacheByIdempotencyKey(h) \/ ScheduleTimeout(h) \/ Publish(h)
  <2>1. pc[h] \in {"cacheId", "cacheKey", "schedule", "publish"} /\ ~SaveRow(h)
    BY <1>4 DEF CacheById, CacheByIdempotencyKey, ScheduleTimeout, Publish, SaveRow
  <2>2. End(h) \/ \E step \in After : Move(h, step)
    BY <1>4 DEF CacheById, CacheByIdempotencyKey, ScheduleTimeout, Publish, MoveIf, After
  <2>3. \A step \in After : step # "save"
    BY DEF After
  <2> QED BY <2>1, <2>2, <2>3, BaseEnd, BaseMove
<1> QED BY <1>1, <1>2, <1>3, <1>4 DEF Write

\* Nobody knows anything at first.
LEMMA BaseInit == Init => BaseInv
BY DEF Init, BaseInv, BaseIsKept

\* Every step keeps the invariant.
LEMMA BaseNext == TypeInv /\ SafeInv /\ BaseInv /\ [Next]_vars => BaseInv'
<1> SUFFICES ASSUME TypeInv, SafeInv, BaseInv, [Next]_vars PROVE BaseInv'
  OBVIOUS
<1>1. ASSUME NEW h \in Handlers, NEW kd \in Kinds, NEW k \in CacheKeys, Start(h, kd, k)
      PROVE  BaseInv'
  <2>1. /\ pc[h] = "idle" /\ pc' = [pc EXCEPT ![h] = "lookup"] /\ kind' = [kind EXCEPT ![h] = kd]
        /\ UNCHANGED <<snap, base, history, overwritten>>
    BY <1>1 DEF Start, Goto, storeVars
  <2>2. \A g \in Handlers : pc'[g] # pc[g] => pc'[g] = "lookup" /\ pc[g] = "idle"
    BY <2>1 DEF TypeInv, TypeOK
  <2>3. \A g \in Handlers : pc[g] = "save" => kind'[g] = kind[g]
    BY <2>1 DEF TypeInv, TypeOK
  <2> SUFFICES ASSUME NEW g \in Handlers PROVE BaseIsKept(g)'
    BY DEF BaseInv
  <2>4. pc[g] = "save" => MadeFromBase(g)' = MadeFromBase(g)
    BY <2>1, <2>3 DEF MadeFromBase, IsNew, NewSession, Committed
  <2>5. BaseIsKept(g)
    BY DEF BaseInv
  <2> QED BY <2>1, <2>2, <2>4, <2>5 DEF BaseIsKept, Captures, Uncaptured, After
<1>2. ASSUME NEW h \in Handlers, Find(h) \/ Decide(h) \/ Write(h) PROVE BaseInv'
  BY <1>2, BaseFind, BaseDecide, BaseWrite
<1>3. ASSUME NEW h \in Handlers, Fail(h) PROVE BaseInv'
  <2>1. UNCHANGED history /\ End(h) /\ overwritten' = overwritten
    BY <1>3, OthersReadOnly DEF Fail
  <2>2. pc'[h] = "done" /\ base'[h] = snap'[h]
    BY <2>1 DEF End, Goto, TypeInv, TypeOK
  <2>3. BaseIsKept(h)'
    BY <2>2 DEF BaseIsKept
  <2> QED BY <1>3, <2>3, BaseStep
<1>4. CASE UNCHANGED <<history, localVars, overwritten>>
  BY <1>4 DEF BaseInv, BaseIsKept, MadeFromBase, IsNew, NewSession, Committed, Captures, Uncaptured,
              localVars
<1>5. ASSUME NEW k \in CacheKeys, Lapse(k) PROVE BaseInv'
  BY <1>4, <1>5 DEF Lapse, CacheLapse, CacheSet
<1>6. CASE UNCHANGED vars
  BY <1>4, <1>6 DEF vars, storeVars
<1> QED
  BY <1>1, <1>2, <1>3, <1>5, <1>6 DEF Next

\* The invariants hold in every behaviour of the use cases.
THEOREM BaseHolds == Spec => [](TypeInv /\ SafeInv /\ BaseInv)
<1> QED BY BaseInit, BaseNext, SafetyHolds, PTL DEF Spec

----------------------------------------------------------------------------
(* What one write does to the row.                                         *)

\* The table sends the terminal statuses nowhere, and no status to one that
\* does not exist.
LEMMA TableFacts ==
  /\ \A s \in Terminal : AllowedTransitions[s] = {}
  /\ \A s \in Statuses : AllowedTransitions[s] \subseteq Statuses
  /\ Terminal \subseteq Statuses /\ "pending" \in Statuses /\ "none" \notin Statuses
BY DEF Terminal, Statuses, AllowedTransitions

\* From an outdated version h writes what follows from a status the payment once
\* had, and has not done so before.
OverwritesRow(h) ==
  /\ Outdated(h)
  /\ <<snap[h].id, h>> \notin overwritten
  /\ overwritten' = overwritten \cup {<<snap[h].id, h>>}
  /\ snap[h].status \in Statuses
  /\ \E v \in history[snap[h].id] : Follows(snap[h].status, v.status)

\* From the row's own version it makes a PENDING payment, or what follows from the
\* row's status with the row's captures.
AdvancesRow(h) ==
  /\ ~Outdated(h)
  /\ overwritten' = overwritten
  /\ \/ db[snap[h].id] = NoVersion /\ snap[h].status = "pending"
     \/ /\ db[snap[h].id] \in Version
        /\ Follows(snap[h].status, db[snap[h].id].status)
        /\ db[snap[h].id].captured \subseteq snap[h].captured

\* Which of the two it is that SaveRow does.
LEMMA RowIsWritten ==
  ASSUME TypeInv, SafeInv, BaseInv, NEW h \in Handlers, SaveRow(h)
  PROVE  OverwritesRow(h) \/ AdvancesRow(h)
<1>1. pc[h] = "save" /\ Writable(h) /\ snap[h] \in Version
  BY DEF SaveRow, TypeInv, HoldsVersion
<1>2. snap[h].id \in Payments /\ snap[h].status \in Statuses
  BY <1>1, VersionTypes
<1>3. /\ MadeFromBase(h)
      /\ <<snap[h].id, h>> \notin overwritten
  BY <1>1, <1>2 DEF BaseInv, BaseIsKept, After
<1>4. overwritten' = IF Outdated(h) THEN overwritten \cup {<<snap[h].id, h>>} ELSE overwritten
  BY DEF SaveRow
<1>5. CASE base[h] = NoVersion /\ IsNew(h) /\ snap[h].status = "pending"
  <2>1. db[snap[h].id] = NoVersion
    BY <1>1, <1>5 DEF Writable, Insertable
  <2> QED BY <1>4, <1>5, <2>1 DEF AdvancesRow, Outdated
<1>6. CASE /\ base[h] \in Version /\ Committed(base[h])
           /\ snap[h].id = base[h].id
           /\ Follows(snap[h].status, base[h].status)
           /\ base[h].captured \subseteq snap[h].captured
  <2>1. CASE Outdated(h)
    <3>1. base[h] \in history[snap[h].id]
      BY <1>6 DEF Committed
    <3> QED BY <1>2, <1>3, <1>4, <1>6, <2>1, <3>1 DEF OverwritesRow
  <2>2. CASE ~Outdated(h)
    BY <1>4, <1>6, <2>2 DEF AdvancesRow, Outdated
  <2> QED BY <2>1, <2>2
<1> QED BY <1>3, <1>5, <1>6 DEF MadeFromBase

\* What the row, its status and its history become.
LEMMA RowStep ==
  ASSUME TypeInv, NEW h \in Handlers, SaveRow(h)
  PROVE  /\ snap[h] \in Version /\ snap[h].id \in Payments /\ events' = events
         /\ \A q \in Payments :
               /\ db'[q] = IF q = snap[h].id THEN snap[h] ELSE db[q]
               /\ history'[q] = IF q = snap[h].id THEN history[q] \cup {snap[h]} ELSE history[q]
               /\ StatusOf(q)' = IF q = snap[h].id THEN snap[h].status ELSE StatusOf(q)
<1>1. /\ db' = [db EXCEPT ![snap[h].id] = snap[h]]
      /\ history' = [history EXCEPT ![snap[h].id] = @ \cup {snap[h]}]
      /\ pc[h] = "save" /\ events' = events
  BY DEF SaveRow, Commit
<1>2. snap[h] \in Version /\ snap[h].id \in Payments
  BY <1>1, VersionTypes DEF TypeInv, HoldsVersion
<1>3. \A q \in Payments :
         /\ db'[q] = IF q = snap[h].id THEN snap[h] ELSE db[q]
         /\ history'[q] = IF q = snap[h].id THEN history[q] \cup {snap[h]} ELSE history[q]
  BY <1>1, <1>2 DEF TypeInv, TypeOK
<1>4. \A q \in Payments : StatusOf(q)' = IF q = snap[h].id THEN snap[h].status ELSE StatusOf(q)
  BY <1>2, <1>3, NoVersionIsNoVersion DEF StatusOf
<1> QED BY <1>1, <1>2, <1>3, <1>4

\* Writing a session of the row again, from the version in the row, changes nothing.
LEMMA RewrittenIsSame ==
  ASSUME NEW v \in Version, NEW s \in v.sessions, db[v.id] = v
  PROVE  SessionRewritten(v, s) = v
<1>1. v = [id |-> v.id, status |-> v.status, order |-> v.order,
           sessions |-> v.sessions, captured |-> v.captured]
  BY DEF Version
<1>2. v.sessions \cup {s} = v.sessions /\ (v.captured \ {s}) \cup ({s} \cap v.captured) = v.captured
  OBVIOUS
<1>3. SessionRewritten(v, s)
        = [id |-> v.id, status |-> v.status, order |-> v.order,
           sessions |-> v.sessions \cup {s},
           captured |-> (v.captured \ {s}) \cup ({s} \cap v.captured)]
  BY <1>1 DEF SessionRewritten
<1> QED BY <1>1, <1>2, <1>3

\* save's rewriting of one session: the status and the orders stay, and without a
\* write in between the row does, too.
LEMMA SessionStep ==
  ASSUME TypeInv, SafeInv, BaseInv, NEW h \in Handlers, NEW s \in Sessions, SaveSession(h, s)
  PROVE  /\ overwritten' = overwritten /\ events' = events
         /\ \A q \in Payments :
               /\ StatusOf(q)' = StatusOf(q)
               /\ {v.status : v \in history'[q]} = {v.status : v \in history[q]}
               /\ RecordedOrders(q) \subseteq RecordedOrders(q)'
               /\ q # snap[h].id => db'[q] = db[q] /\ history'[q] = history[q]
         /\ ~Outdated(h) => UNCHANGED <<db, history>>
<1> USE DEF TypeInv, TypeOK
<1>1. /\ pc[h] = "sessions" /\ s \in unsaved[h] /\ Commit(SessionRewritten(snap[h], s))
      /\ overwritten' = overwritten /\ events' = events
  BY DEF SaveSession
<1> PICK p : p = snap[h].id
  OBVIOUS
<1>2. /\ snap[h] \in Version /\ p \in Payments /\ db[p] \in Version
      /\ s \in snap[h].sessions /\ base[h] = snap[h]
  BY <1>1, VersionTypes DEF HoldsVersion, SavedFirst, BaseInv, BaseIsKept
<1>3. db[p] # NoVersion /\ db[p] \in history[p] /\ db[p].id = p
  BY <1>2, NoVersionIsNoVersion DEF SafeInv, RowsAreCommitted, HistoryIsSound
<1> PICK w : w = SessionRewritten(snap[h], s)
  OBVIOUS
<1>4. /\ w \in Version /\ w # NoVersion /\ w.id = p /\ w.status = db[p].status
      /\ db[p].sessions \subseteq w.sessions
  <2>1. w \in Version
    BY <1>2 DEF SessionRewritten, Version
  <2>2. w.id = db[p].id /\ w.status = db[p].status /\ db[p].sessions \subseteq w.sessions
    BY <1>2 DEF SessionRewritten, Version
  <2> QED BY <1>3, <2>1, <2>2, NoVersionIsNoVersion
<1>5. db' = [db EXCEPT ![p] = w] /\ history' = [history EXCEPT ![p] = @ \cup {w}]
  BY <1>1, <1>4 DEF Commit
<1>6. \A q \in Payments :
         /\ q = p => db'[q] = w /\ history'[q] = history[q] \cup {w}
         /\ q # p => db'[q] = db[q] /\ history'[q] = history[q]
  BY <1>2, <1>5
<1>7. ASSUME NEW q \in Payments
      PROVE  /\ StatusOf(q)' = StatusOf(q)
             /\ {v.status : v \in history'[q]} = {v.status : v \in history[q]}
             /\ RecordedOrders(q) \subseteq RecordedOrders(q)'
  <2>1. CASE q = p
    <3>1. db'[q] = w /\ history'[q] = history[q] \cup {w}
      BY <1>6, <2>1
    <3>2. StatusOf(q)' = StatusOf(q)
      BY <1>3, <1>4, <2>1, <3>1 DEF StatusOf
    <3>3. {v.status : v \in history'[q]} = {v.status : v \in history[q]}
      BY <1>3, <1>4, <2>1, <3>1
    <3>4. RecordedOrders(q) \subseteq RecordedOrders(q)'
      BY <1>3, <1>4, <2>1, <3>1 DEF RecordedOrders
    <3> QED BY <3>2, <3>3, <3>4
  <2>2. CASE q # p
    <3>1. db'[q] = db[q] /\ history'[q] = history[q]
      BY <1>6, <2>2
    <3> QED BY <3>1 DEF StatusOf, RecordedOrders
  <2> QED BY <2>1, <2>2
<1>8. ASSUME ~Outdated(h) PROVE UNCHANGED <<db, history>>
  <2>1. db[snap[h].id] = snap[h]
    BY <1>2, <1>8 DEF Outdated
  <2>2. w = snap[h] /\ w = db[p]
    BY <1>2, <2>1, RewrittenIsSame
  <2> QED BY <1>2, <1>3, <1>5, <2>2
<1> QED BY <1>1, <1>6, <1>7, <1>8

\* Every other step leaves the rows, their histories and what was overwritten alone.
LEMMA WriteOrNothing ==
  ASSUME TypeInv, [Next]_vars
  PROVE  \/ \E h \in Handlers : SaveRow(h) \/ \E s \in Sessions : SaveSession(h, s)
         \/ UNCHANGED <<db, history, overwritten>>
<1>1. ASSUME NEW h \in Handlers, NEW kd \in Kinds, NEW k \in CacheKeys, Start(h, kd, k)
      PROVE  UNCHANGED <<db, history, overwritten>>
  BY <1>1 DEF Start, storeVars
<1>2. ASSUME NEW h \in Handlers, Find(h) \/ Decide(h) \/ Fail(h)
      PROVE  UNCHANGED <<db, history, overwritten>> \/ SaveRow(h)
  BY <1>2, OthersReadOnly, BaseIsOwn
<1>3. ASSUME NEW h \in Handlers, Write(h)
      PROVE  \/ SaveRow(h) \/ \E s \in Sessions : SaveSession(h, s)
             \/ UNCHANGED <<db, history, overwritten>>
  BY <1>3, OthersReadOnly, BaseIsOwn DEF Write
<1>4. ASSUME NEW k \in CacheKeys, Lapse(k) PROVE UNCHANGED <<db, history, overwritten>>
  BY <1>4 DEF Lapse, CacheLapse, CacheSet
<1>5. CASE UNCHANGED vars
  BY <1>5 DEF vars, storeVars
<1> QED BY <1>1, <1>2, <1>3, <1>4, <1>5 DEF Next

----------------------------------------------------------------------------
(* Orders and captures.                                                    *)

\* A provider order that a payment has recorded is never forgotten: the database
\* refuses the version that lacks a session, however old it is.
THEOREM OrdersRecorded == Spec => OrdersStayRecorded
<1>1. ASSUME TypeInv, SafeInv, BaseInv, [Next]_vars, NEW p \in Payments
      PROVE  RecordedOrders(p) \subseteq RecordedOrders(p)'
  <2>1. ASSUME NEW h \in Handlers, SaveRow(h)
        PROVE  RecordedOrders(p) \subseteq RecordedOrders(p)'
    <3>1. p = snap[h].id => db[p] = NoVersion \/ db[p].sessions \subseteq snap[h].sessions
      BY <1>1, <2>1 DEF SaveRow, Writable, Insertable, Updatable
    <3>2. db'[p] = IF p = snap[h].id THEN snap[h] ELSE db[p]
      BY <1>1, <2>1, RowStep
    <3>3. snap[h] # NoVersion
      BY <1>1, <2>1, RowStep, NoVersionIsNoVersion
    <3> QED BY <3>1, <3>2, <3>3 DEF RecordedOrders
  <2>2. ASSUME NEW h \in Handlers, NEW s \in Sessions, SaveSession(h, s)
        PROVE  RecordedOrders(p) \subseteq RecordedOrders(p)'
    BY <1>1, <2>2, SessionStep
  <2>3. CASE UNCHANGED <<db, history, overwritten>>
    BY <2>3 DEF RecordedOrders
  <2> QED BY <1>1, <2>1, <2>2, <2>3, WriteOrNothing
<1>2. TypeInv /\ SafeInv /\ BaseInv /\ [Next]_vars
        => [\A p \in Payments : RecordedOrders(p) \subseteq RecordedOrders(p)']_db
  BY <1>1
<1> QED BY <1>2, BaseHolds, PTL DEF Spec, OrdersStayRecorded

\* A CAPTURED session is only taken from a row by a handler whose version of the
\* payment is no longer the row's.
THEOREM CapturesNotLost == Spec => CapturesStay
<1> DEFINE Kept(p) == \/ CapturedOf(p) \subseteq CapturedOf(p)'
                      \/ \E h \in Handlers :
                            snap[h].id = p /\ (WritesOutdatedRow(h) \/ WritesOutdatedSession(h))
<1>1. ASSUME TypeInv, SafeInv, BaseInv, [Next]_vars, NEW p \in Payments
      PROVE  Kept(p)
  <2>1. ASSUME NEW h \in Handlers, SaveRow(h) PROVE Kept(p)
    <3>1. db'[p] = IF p = snap[h].id THEN snap[h] ELSE db[p]
      BY <1>1, <2>1, RowStep
    <3>2. CASE p # snap[h].id
      BY <3>1, <3>2 DEF CapturedOf
    <3>3. CASE p = snap[h].id /\ Outdated(h)
      BY <2>1, <3>3 DEF WritesOutdatedRow
    <3>4. CASE p = snap[h].id /\ ~Outdated(h)
      <4>1. AdvancesRow(h)
        BY <1>1, <2>1, <3>4, RowIsWritten DEF OverwritesRow
      <4>2. db[p] = NoVersion \/ db[p].captured \subseteq snap[h].captured
        BY <3>4, <4>1 DEF AdvancesRow
      <4>3. snap[h] # NoVersion
        BY <1>1, <2>1, RowStep, NoVersionIsNoVersion
      <4>4. CapturedOf(p) \subseteq CapturedOf(p)'
        BY <3>1, <3>4, <4>2, <4>3 DEF CapturedOf
      <4> QED BY <4>4
    <3> QED BY <3>2, <3>3, <3>4
  <2>2. ASSUME NEW h \in Handlers, NEW s \in Sessions, SaveSession(h, s) PROVE Kept(p)
    <3>1. CASE p # snap[h].id \/ ~Outdated(h)
      <4>1. db'[p] = db[p]
        BY <1>1, <2>2, <3>1, SessionStep
      <4> QED BY <4>1 DEF CapturedOf
    <3>2. CASE p = snap[h].id /\ Outdated(h)
      BY <2>2, <3>2 DEF WritesOutdatedSession
    <3> QED BY <3>1, <3>2
  <2>3. CASE UNCHANGED <<db, history, overwritten>>
    BY <2>3 DEF CapturedOf
  <2> QED BY <1>1, <2>1, <2>2, <2>3, WriteOrNothing
<1>2. TypeInv /\ SafeInv /\ BaseInv /\ [Next]_vars => [\A p \in Payments : Kept(p)]_db
  BY <1>1
<1> QED BY <1>2, BaseHolds, PTL DEF Spec, CapturesStay

\* A payment is first RESOLVED without a CAPTURED session by a create that is
\* writing its sessions while somebody else writes the row.
THEOREM ResolvedCaptured == Spec => ResolvedIsCaptured
<1> DEFINE Torn(p) == \E h \in Handlers : snap[h].id = p /\ WritesOutdatedSession(h)
<1>1. ASSUME TypeInv, SafeInv, BaseInv, [Next]_vars, NEW p \in Payments, Uncaptured(p)'
      PROVE  Uncaptured(p) \/ Torn(p)
  <2>1. PICK v \in history'[p] : v.status = "resolved" /\ v.captured = {}
    BY <1>1 DEF Uncaptured
  <2>2. v \in history[p] => Uncaptured(p)
    BY <2>1 DEF Uncaptured
  <2>3. ASSUME NEW h \in Handlers, SaveRow(h) PROVE Uncaptured(p)
    <3>1. history'[p] = IF p = snap[h].id THEN history[p] \cup {snap[h]} ELSE history[p]
      BY <1>1, <2>3, RowStep
    <3>2. Captures(snap[h]) \/ Uncaptured(snap[h].id)
      BY <1>1, <2>3 DEF SaveRow, BaseInv, BaseIsKept
    <3> QED BY <2>1, <2>2, <3>1, <3>2 DEF Captures
  <2>4. ASSUME NEW h \in Handlers, NEW s \in Sessions, SaveSession(h, s)
        PROVE  Uncaptured(p) \/ Torn(p)
    <3>1. CASE p # snap[h].id \/ ~Outdated(h)
      <4>1. history'[p] = history[p]
        BY <1>1, <2>4, <3>1, SessionStep
      <4> QED BY <2>1, <2>2, <4>1
    <3>2. CASE p = snap[h].id /\ Outdated(h)
      BY <2>4, <3>2 DEF WritesOutdatedSession
    <3> QED BY <3>1, <3>2
  <2>5. CASE UNCHANGED <<db, history, overwritten>>
    BY <2>1, <2>2, <2>5
  <2> QED BY <1>1, <2>3, <2>4, <2>5, WriteOrNothing
<1>2. TypeInv /\ SafeInv /\ BaseInv /\ [Next]_vars
        => [\A p \in Payments :
              Uncaptured(p)' => \/ Uncaptured(p)
                               \/ \E h \in Handlers : snap[h].id = p /\ WritesOutdatedSession(h)]_history
  BY <1>1
<1> QED BY <1>2, BaseHolds, PTL DEF Spec, ResolvedIsCaptured

----------------------------------------------------------------------------
(* The refinement.                                                         *)

\* At first no payment exists.
LEMMA LifecycleInit == Init => Lifecycle!Init
BY DEF Init, StoreInit, Lifecycle!Init, StatusOf

\* What SaveRow does is a Create, a Transition or an Overwrite of the life cycle,
\* or leaves its variables as they are.
LEMMA LifecycleRow ==
  ASSUME TypeInv, SafeInv, BaseInv, NEW h \in Handlers, SaveRow(h)
  PROVE  [Lifecycle!Next]_<<[p \in Payments |-> StatusOf(p)],
                            [p \in Payments |-> {v.status : v \in history[p]}], overwritten>>
<1> DEFINE status == [p \in Payments |-> StatusOf(p)]
           past   == [p \in Payments |-> {v.status : v \in history[p]}]
<1> SUFFICES [Lifecycle!Next]_<<status, past, overwritten>>
  OBVIOUS
<1>1. PICK p \in Payments : p = snap[h].id
  BY RowStep
<1>2. PICK s : s = snap[h].status
  OBVIOUS
<1>3. \A q \in Payments :
         /\ StatusOf(q)' = IF q = p THEN s ELSE StatusOf(q)
         /\ history'[q] = IF q = p THEN history[q] \cup {snap[h]} ELSE history[q]
  BY <1>1, <1>2, RowStep
<1>4. status' = [status EXCEPT ![p] = s]
  BY <1>3
<1>5. past' = [past EXCEPT ![p] = @ \cup {s}]
  <2>1. \A q \in Payments :
           {v.status : v \in history'[q]}
             = IF q = p THEN {v.status : v \in history[q]} \cup {s} ELSE {v.status : v \in history[q]}
    BY <1>2, <1>3
  <2> QED BY <2>1
<1>6. status[p] = StatusOf(p) /\ past[p] = {v.status : v \in history[p]}
  OBVIOUS
<1>7. StatusOf(p) # "none" => StatusOf(p) \in past[p] /\ StatusOf(p) \in Statuses
  BY <1>6, VersionTypes, TableFacts
     DEF StatusOf, SafeInv, RowsAreCommitted, TypeInv, TypeOK
<1> HIDE DEF status, past
<1>s. Lifecycle!Set(p, s)
  BY <1>4, <1>5 DEF Lifecycle!Set, status, past
<1>t. Lifecycle!Statuses = Statuses /\ Lifecycle!AllowedTransitions = AllowedTransitions
  BY DEF Lifecycle!Statuses, Lifecycle!AllowedTransitions, Statuses, AllowedTransitions
<1>8. CASE OverwritesRow(h)
  <2>1. /\ <<p, h>> \notin overwritten /\ overwritten' = overwritten \cup {<<p, h>>}
        /\ s \in Statuses
    BY <1>1, <1>2, <1>8 DEF OverwritesRow
  <2>2. PICK t \in past[p] : s = t \/ s \in AllowedTransitions[t]
    BY <1>1, <1>2, <1>6, <1>8 DEF OverwritesRow, Follows
  <2>3. Lifecycle!Overwrite(p, h, t, s)
    BY <1>s, <1>t, <2>1, <2>2 DEF Lifecycle!Overwrite
  <2> QED BY <1>t, <2>1, <2>3 DEF Lifecycle!Next, past
<1>9. CASE AdvancesRow(h)
  <2>0. overwritten' = overwritten
    BY <1>9 DEF AdvancesRow
  <2>1. CASE db[p] = NoVersion /\ s = "pending"
    <3>1. Lifecycle!Create(p)
      BY <1>s, <1>6, <2>0, <2>1 DEF Lifecycle!Create, StatusOf, status
    <3> QED BY <3>1 DEF Lifecycle!Next
  <2>2. CASE db[p] \in Version /\ s \in AllowedTransitions[StatusOf(p)]
    <3>1. StatusOf(p) \in Statuses /\ s \in Statuses
      BY <2>2, VersionTypes, NoVersionIsNoVersion, TableFacts DEF StatusOf
    <3>2. Lifecycle!Transition(p, s)
      BY <1>s, <1>t, <1>6, <2>0, <2>2, <3>1 DEF Lifecycle!Transition, status
    <3> QED BY <1>t, <3>1, <3>2 DEF Lifecycle!Next
  <2>3. CASE db[p] \in Version /\ s = StatusOf(p)
    <3>1. s \in past[p] /\ status[p] = s
      BY <1>6, <1>7, <2>3, VersionTypes, NoVersionIsNoVersion, TableFacts DEF StatusOf
    <3>2. past[p] \cup {s} = past[p]
      BY <3>1
    <3>3. status = [status EXCEPT ![p] = s] /\ past = [past EXCEPT ![p] = past[p]]
      BY <3>1 DEF status, past
    <3>4. status' = status /\ past' = past
      BY <1>4, <1>5, <3>2, <3>3
    <3> QED BY <2>0, <3>4
  <2>4. db[p] \in Version => StatusOf(p) = db[p].status
    BY NoVersionIsNoVersion DEF StatusOf
  <2> QED BY <1>1, <1>2, <1>9, <2>1, <2>2, <2>3, <2>4 DEF AdvancesRow, Follows
<1> QED BY <1>8, <1>9, RowIsWritten

\* The status column, with the statuses payments have had and the overwriting, implements
\* the life cycle: every step is a step of it or leaves its variables alone.
THEOREM LifecycleImplemented == Spec => ImplementsLifecycle
<1> DEFINE view == <<[p \in Payments |-> StatusOf(p)],
                     [p \in Payments |-> {v.status : v \in history[p]}], overwritten>>
<1>1. ASSUME TypeInv, SafeInv, BaseInv, [Next]_vars PROVE [Lifecycle!Next]_view
  <2>1. ASSUME NEW h \in Handlers, SaveRow(h) PROVE [Lifecycle!Next]_view
    BY <1>1, <2>1, LifecycleRow
  <2>2. ASSUME NEW h \in Handlers, NEW s \in Sessions, SaveSession(h, s) PROVE view' = view
    BY <1>1, <2>2, SessionStep
  <2>3. CASE UNCHANGED <<db, history, overwritten>>
    BY <2>3 DEF StatusOf
  <2> QED BY <1>1, <2>1, <2>2, <2>3, WriteOrNothing
<1>2. TypeInv /\ SafeInv /\ BaseInv /\ [Next]_vars => [Lifecycle!Next]_view
  BY <1>1
<1> QED BY <1>2, LifecycleInit, BaseHolds, PTL DEF Spec, ImplementsLifecycle, Lifecycle!Spec

----------------------------------------------------------------------------
(* One outcome.                                                            *)

\* A payment that was not overwritten still has the outcome that was announced of
\* it, and the one a handler is about to announce.
OutcomesStand ==
  \A e \in events :
     e.topic # "PaymentOrderInitiated" /\ ~Overwritten(e.id) => StatusOf(e.id) = e.status

OwedStands(h) ==
  /\ Owes(h) /\ ~Overwritten(snap[h].id) => StatusOf(snap[h].id) = snap[h].status
  /\ pc[h] = "schedule" => kind[h] = "create"

StandInv == OutcomesStand /\ \A h \in Handlers : OwedStands(h)

\* Only an overwriting takes a payment out of a terminal status.
TerminalStays ==
  /\ overwritten \subseteq overwritten'
  /\ \A p \in Payments :
        StatusOf(p) \in Terminal /\ ~Overwritten(p)' => StatusOf(p)' = StatusOf(p)

\* No step of the handlers takes a terminal status away but by overwriting.
LEMMA TerminalKept ==
  ASSUME TypeInv, SafeInv, BaseInv, [Next]_vars
  PROVE  TerminalStays
<1>1. ASSUME NEW h \in Handlers, SaveRow(h) PROVE TerminalStays
  <2>1. overwritten \subseteq overwritten'
    BY <1>1, RowIsWritten DEF OverwritesRow, AdvancesRow
  <2> SUFFICES ASSUME NEW p \in Payments, StatusOf(p) \in Terminal, ~Overwritten(p)'
               PROVE  StatusOf(p)' = StatusOf(p)
    BY <2>1 DEF TerminalStays
  <2>2. CASE p # snap[h].id
    BY <1>1, <2>2, RowStep
  <2>3. CASE p = snap[h].id
    <3>1. ~OverwritesRow(h)
      BY <2>3 DEF OverwritesRow, Overwritten
    <3>2. AdvancesRow(h)
      BY <1>1, <3>1, RowIsWritten
    <3>3. StatusOf(p) = "none" \/ Follows(snap[h].status, StatusOf(p))
      BY <2>3, <3>2 DEF AdvancesRow, StatusOf
    <3>4. snap[h].status = StatusOf(p)
      BY <3>3, TableFacts DEF Follows
    <3> QED BY <1>1, <2>3, <3>4, RowStep
  <2> QED BY <2>2, <2>3
<1>2. ASSUME NEW h \in Handlers, NEW s \in Sessions, SaveSession(h, s) PROVE TerminalStays
  BY <1>2, SessionStep DEF TerminalStays
<1>3. CASE UNCHANGED <<db, history, overwritten>>
  BY <1>3 DEF TerminalStays, StatusOf
<1> QED BY <1>1, <1>2, <1>3, WriteOrNothing

\* What a handler owes is the terminal status of a payment.
LEMMA OwedIsTerminal ==
  ASSUME TypeInv, SafeInv, NEW h \in Handlers, Owes(h)
  PROVE  snap[h].id \in Payments /\ snap[h].status \in Terminal
<1>1. /\ pc[h] \in {"cacheId", "cacheKey", "publish"}
      /\ kind[h] \notin {"create", "resolve"}
  BY DEF Owes
<1>2. snap[h].id \in Payments /\ kind[h] \in AllKinds
  BY <1>1, VersionTypes DEF TypeInv, HoldsVersion, NamesItsTarget, Active
<1>3. snap[h].status \in Outcomes(Topic(kind[h]))
  BY <1>1 DEF SafeInv, OutcomeIsMarked, After
<1>4. Topic(kind[h]) \in {"PaymentOrderSucceeded", "PaymentOrderFailed", "PaymentOrderTimeout"}
  BY <1>1 DEF Topic
<1> QED BY <1>2, <1>3, <1>4 DEF Outcomes, Terminal

\* An announced outcome is a terminal status, so it stands as long as those do.
LEMMA AnnouncedStands ==
  ASSUME TypeInv, SafeInv, OutcomesStand, TerminalStays, NEW e \in events,
         e.topic # "PaymentOrderInitiated", ~Overwritten(e.id)'
  PROVE  StatusOf(e.id)' = e.status
<1> PICK p \in Payments : p = e.id
  BY DEF TypeInv, TypeOK
<1>1. e.topic \in Topics /\ e.status \in Outcomes(e.topic)
  BY DEF TypeInv, TypeOK, SafeInv, EventsWereCommitted
<1>2. e.status \in Terminal
  BY <1>1 DEF Topics, Outcomes, Terminal
<1>3. ~Overwritten(p)' /\ ~Overwritten(p)
  BY DEF Overwritten, TerminalStays
<1>4. StatusOf(p) = e.status
  BY <1>3 DEF OutcomesStand
<1>5. StatusOf(p)' = StatusOf(p)
  BY <1>2, <1>3, <1>4 DEF TerminalStays
<1> QED BY <1>4, <1>5

\* The same of what a handler owes, before and after the step.
LEMMA DebtStands ==
  ASSUME TypeInv, SafeInv, TerminalStays, NEW h \in Handlers, OwedStands(h), Owes(h),
         NEW p, p = snap[h].id, ~Overwritten(p)'
  PROVE  StatusOf(p)' = snap[h].status
<1>1. p \in Payments /\ snap[h].status \in Terminal
  BY OwedIsTerminal
<1>2. ~Overwritten(p)
  BY DEF Overwritten, TerminalStays
<1>3. StatusOf(p) = snap[h].status
  BY <1>2 DEF OwedStands
<1> QED BY <1>1, <1>3 DEF TerminalStays

\* What is left to show of a step of h: what was published and what h owes.
LEMMA StandStep ==
  ASSUME TypeInv, SafeInv, BaseInv, StandInv, [Next]_vars, NEW h \in Handlers,
         Find(h) \/ Decide(h) \/ Write(h) \/ Fail(h),
         \A e \in events' \ events :
            e.topic # "PaymentOrderInitiated" =>
               Owes(h) /\ e.id = snap[h].id /\ e.status = snap[h].status,
         Owes(h)' => \/ Owes(h) /\ snap'[h] = snap[h]
                     \/ StatusOf(snap[h].id)' = snap'[h].status,
         pc'[h] = "schedule" => kind'[h] = "create"
  PROVE  StandInv'
<1>1. TerminalStays
  BY TerminalKept
<1>2. OthersKeep(h)
  BY StepIsOwn
<1>d. \A g \in Handlers : OwedStands(g)
  BY DEF StandInv
<1>3. OutcomesStand'
  <2> SUFFICES ASSUME NEW e \in events', e.topic # "PaymentOrderInitiated", ~Overwritten(e.id)'
               PROVE  StatusOf(e.id)' = e.status
    BY DEF OutcomesStand
  <2>1. CASE e \in events
    BY <1>1, <2>1, AnnouncedStands DEF StandInv
  <2>2. CASE e \notin events
    <3>1. Owes(h) /\ e.id = snap[h].id /\ e.status = snap[h].status
      BY <2>2
    <3> PICK p : p = e.id
      OBVIOUS
    <3>2. ~Overwritten(p)'
      BY DEF Overwritten
    <3>3. StatusOf(p)' = e.status
      BY <1>1, <1>d, <3>1, <3>2, DebtStands
    <3> QED BY <3>3 DEF StatusOf
  <2> QED BY <2>1, <2>2
<1>4. ASSUME NEW g \in Handlers \ {h} PROVE OwedStands(g)'
  <2>1. pc'[g] = pc[g] /\ kind'[g] = kind[g] /\ snap'[g] = snap[g]
    BY <1>2 DEF OthersKeep
  <2>2. Owes(g)' = Owes(g)
    BY <2>1 DEF Owes
  <2>3. pc[g] = "schedule" => kind[g] = "create"
    BY <1>d DEF OwedStands
  <2> PICK p : p = snap[g].id
    OBVIOUS
  <2>4. Owes(g) /\ ~Overwritten(p)' => StatusOf(p)' = snap[g].status
    BY <1>1, <1>d, DebtStands
  <2> QED BY <2>1, <2>2, <2>3, <2>4 DEF OwedStands, Overwritten, StatusOf
<1>5. OwedStands(h)'
  <2> SUFFICES ASSUME Owes(h)', ~Overwritten(snap[h].id)'
               PROVE  (StatusOf(snap[h].id) = snap[h].status)'
    BY DEF OwedStands
  <2>1. CASE Owes(h) /\ snap'[h] = snap[h]
    <3> PICK p : p = snap[h].id
      OBVIOUS
    <3>1. ~Overwritten(p)'
      BY <2>1 DEF Overwritten
    <3>2. StatusOf(p)' = snap[h].status
      BY <1>1, <1>d, <2>1, <3>1, DebtStands
    <3> QED BY <2>1, <3>2 DEF StatusOf
  <2>2. CASE StatusOf(snap[h].id)' = snap'[h].status
    BY <2>2
  <2> QED BY <2>1, <2>2
<1> QED BY <1>3, <1>4, <1>5 DEF StandInv

\* A step of h that publishes nothing and leaves h with no new debt.
LEMMA StandQuiet ==
  ASSUME TypeInv, SafeInv, BaseInv, StandInv, [Next]_vars, NEW h \in Handlers,
         Find(h) \/ Decide(h) \/ Write(h) \/ Fail(h), events' = events,
         pc'[h] \notin {"cacheId", "cacheKey", "schedule", "publish"}
  PROVE  StandInv'
<1>1. ~Owes(h)'
  BY DEF Owes
<1> QED BY <1>1, StandStep

\* At first nothing is announced and nothing owed.
LEMMA StandInit == Init => StandInv
BY DEF Init, StandInv, OutcomesStand, OwedStands, Owes

\* Only a use case that wrote an outcome owes one, until it has published it.
LEMMA StandWrite ==
  ASSUME TypeInv, SafeInv, BaseInv, StandInv, [Next]_vars, NEW h \in Handlers, Write(h)
  PROVE  StandInv'
<1> USE DEF TypeInv, TypeOK, Goto
<1>1. CASE SaveRow(h)
  <2>1. StatusOf(snap[h].id)' = snap'[h].status
    BY <1>1, RowStep DEF SaveRow, StatusOf
  <2>2. events' = events /\ pc'[h] \in {"sessions", "cacheId"}
    BY <1>1 DEF SaveRow
  <2> QED BY <2>1, <2>2, StandStep
<1>2. CASE RefuseRow(h)
  BY <1>2, StandQuiet DEF RefuseRow, End
<1>3. ASSUME NEW s \in Sessions, SaveSession(h, s) PROVE StandInv'
  <2>1. /\ pc[h] = "sessions" /\ pc'[h] \in {"sessions", "cacheId"}
        /\ kind'[h] = kind[h] /\ events' = events
    BY <1>3 DEF SaveSession
  <2>2. ~Owes(h)'
    BY <2>1 DEF SavedFirst, Owes
  <2> QED BY <2>1, <2>2, StandStep
<1>4. CASE CacheById(h) \/ CacheByIdempotencyKey(h) \/ ScheduleTimeout(h)
  <2>1. events' = events
    BY <1>4 DEF CacheById, CacheByIdempotencyKey, ScheduleTimeout
  <2>2. CASE End(h)
    BY <2>1, <2>2, StandQuiet DEF End
  <2>3. CASE \E step : Move(h, step)
    <3>1. kind'[h] = kind[h] /\ snap'[h] = snap[h]
      BY <2>3 DEF Move
    <3>2. /\ pc[h] \in {"cacheId", "cacheKey", "schedule"}
          /\ pc[h] = "schedule" => kind[h] = "create"
      BY <1>4 DEF CacheById, CacheByIdempotencyKey, ScheduleTimeout, StandInv, OwedStands
    <3>3. pc'[h] = "schedule" => kind[h] = "create"
      BY <1>4, <2>3 DEF CacheById, CacheByIdempotencyKey, ScheduleTimeout, Move, MoveIf, End
    <3>4. Owes(h)' => Owes(h)
      BY <3>1, <3>2 DEF Owes
    <3> QED BY <2>1, <3>1, <3>3, <3>4, StandStep
  <2> QED BY <1>4, <2>2, <2>3 DEF CacheById, CacheByIdempotencyKey, ScheduleTimeout, MoveIf
<1>5. CASE Publish(h)
  <2>1. /\ pc[h] = "publish" /\ pc'[h] = "done"
        /\ events' = events \cup {Event(kind[h], snap[h])}
    BY <1>5 DEF Publish, End
  <2>2. kind[h] # "resolve" /\ kind[h] \in AllKinds
    BY <2>1 DEF SafeInv, OutcomeIsMarked, NamesItsTarget, Active
  <2>3. ASSUME NEW e \in events' \ events, e.topic # "PaymentOrderInitiated"
        PROVE  Owes(h) /\ e.id = snap[h].id /\ e.status = snap[h].status
    <3>1. e = Event(kind[h], snap[h])
      BY <2>1
    <3>2. e.topic = Topic(kind[h]) /\ e.id = snap[h].id /\ e.status = snap[h].status
      BY <3>1 DEF Event
    <3>3. kind[h] # "create"
      BY <2>3, <3>2 DEF Topic
    <3> QED BY <2>1, <2>2, <3>2, <3>3 DEF Owes
  <2>4. ~Owes(h)'
    BY <2>1 DEF Owes
  <2> QED BY <2>1, <2>3, <2>4, StandStep
<1> QED BY <1>1, <1>2, <1>3, <1>4, <1>5 DEF Write

\* Every step keeps StandInv.
LEMMA StandNext == TypeInv /\ SafeInv /\ BaseInv /\ StandInv /\ [Next]_vars => StandInv'
<1> SUFFICES ASSUME TypeInv, SafeInv, BaseInv, StandInv, [Next]_vars PROVE StandInv'
  OBVIOUS
<1>1. ASSUME NEW h \in Handlers, NEW kd \in Kinds, NEW k \in CacheKeys, Start(h, kd, k)
      PROVE  StandInv'
  <2>1. /\ pc' = [pc EXCEPT ![h] = "lookup"] /\ kind' = [kind EXCEPT ![h] = kd]
        /\ UNCHANGED <<db, snap, events, overwritten>>
    BY <1>1 DEF Start, Goto, storeVars
  <2>2. \A g \in Handlers : pc'[g] \in {"cacheId", "cacheKey", "schedule", "publish"}
                               => pc'[g] = pc[g] /\ kind'[g] = kind[g]
    BY <2>1 DEF TypeInv, TypeOK
  <2>3. \A g \in Handlers : OwedStands(g)'
    BY <2>1, <2>2 DEF StandInv, OwedStands, Owes, StatusOf, Overwritten
  <2>4. OutcomesStand'
    BY <2>1 DEF StandInv, OutcomesStand, StatusOf, Overwritten
  <2> QED BY <2>3, <2>4 DEF StandInv
<1>2. ASSUME NEW h \in Handlers, Find(h) \/ Decide(h) PROVE StandInv'
  <2>1. pc'[h] \in {"query", "fill", "loaded", "called", "save", "done"}
    BY <1>2 DEF Find, FindCached, MissCache, QueryRow, QueryNothing, FillCache, Decide, TurnAway,
                LoseProviderOrder, CreateProviderOrder, CallProvider, MarkSucceed, MarkFailed,
                MarkExpired, MarkCancel, Mark, MarkResolved, RefuseResolved, Move, MoveIf, End, Goto,
                localVars, TypeInv, TypeOK
  <2>2. events' = events
    BY <1>2 DEF Find, FindCached, MissCache, QueryRow, QueryNothing, FillCache, Decide, TurnAway,
                LoseProviderOrder, CreateProviderOrder, CallProvider, MarkSucceed, MarkFailed,
                MarkExpired, MarkCancel, Mark, MarkResolved, RefuseResolved
  <2> QED BY <1>2, <2>1, <2>2, StandQuiet
<1>3. ASSUME NEW h \in Handlers, Write(h) PROVE StandInv'
  BY <1>3, StandWrite
<1>4. ASSUME NEW h \in Handlers, Fail(h) PROVE StandInv'
  BY <1>4, StandQuiet DEF Fail, End, Goto, TypeInv, TypeOK
<1>5. CASE UNCHANGED <<db, localVars, events, overwritten>>
  BY <1>5 DEF StandInv, OutcomesStand, OwedStands, Owes, StatusOf, Overwritten, localVars
<1>6. ASSUME NEW k \in CacheKeys, Lapse(k) PROVE StandInv'
  BY <1>5, <1>6 DEF Lapse, CacheLapse, CacheSet
<1>7. CASE UNCHANGED vars
  BY <1>5, <1>7 DEF vars, storeVars
<1> QED
  BY <1>1, <1>2, <1>3, <1>4, <1>6, <1>7 DEF Next

\* A payment that no use case wrote from an outdated version is announced with one
\* outcome, the status of its row.
THEOREM OneOutcome == Spec => []OutcomesAgree
<1>1. ASSUME TypeInv, SafeInv, StandInv PROVE OutcomesAgree
  <2> SUFFICES ASSUME NEW e \in events, NEW f \in events, e.id = f.id,
                      e.topic = "PaymentOrderSucceeded", ~Overwritten(e.id),
                      f.topic \in {"PaymentOrderFailed", "PaymentOrderTimeout"}
               PROVE  FALSE
    BY DEF OutcomesAgree
  <2>1. e.status = f.status
    BY <1>1 DEF StandInv, OutcomesStand
  <2>2. e.status \in Outcomes(e.topic) /\ f.status \in Outcomes(f.topic)
    BY <1>1 DEF SafeInv, EventsWereCommitted
  <2> QED BY <2>1, <2>2 DEF Outcomes
<1>2. TypeInv /\ SafeInv /\ BaseInv /\ StandInv /\ [Next]_vars => StandInv'
  BY StandNext
<1>3. TypeInv /\ SafeInv /\ BaseInv /\ StandInv => OutcomesAgree
  BY <1>1
<1> QED BY <1>2, <1>3, StandInit, BaseHolds, PTL DEF Spec
=============================================================================
