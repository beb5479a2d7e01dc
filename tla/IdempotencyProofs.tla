-------------------------- MODULE IdempotencyProofs --------------------------
(***************************************************************************)
(* What the idempotency service guarantees for every set of calls and of   *)
(* keys.  The invariant is a conjunction of three parts, each about one    *)
(* way of going wrong: the lock (two clients inside), the result (a reply  *)
(* nobody computed) and the latecomers (a callback that runs although a    *)
(* result was there from the start).                                       *)
(***************************************************************************)
EXTENDS Idempotency, FiniteSetTheorems, TLAPS

Inside == {"callback", "store", "unlock"}

\* A client that is inside under a lock that outlives its holder.
Secure(c) == pc[c] \in Inside /\ key[c] \notin LapsingKeys

\* It holds the lock of its key, and holds it alone.
LockInv ==
  /\ \A c \in Clients : Secure(c) => locked[key[c]]
  /\ \A c, d \in Clients : Secure(c) /\ Secure(d) /\ key[c] = key[d] => c = d

\* A client about to store has run; so has one whose result is stored or was
\* replied.
ResultInv ==
  /\ \A c \in Clients : pc[c] = "store" => c \in ran[key[c]]
  /\ RepliesAreGenuine

\* A latecomer finds the result: it never gets to the lock.
LateInv ==
  /\ \A c \in late : pc[c] \in {"check", "done", "dead"} /\ result[key[c]] # "none"
  /\ \A c \in Clients : pc[c] = "idle" => \A k \in Keys : c \notin ran[k]
  /\ LateDuplicatesDoNotRun

Inv == TypeOK /\ LockInv /\ ResultInv /\ LateInv

----------------------------------------------------------------------------
\* Nothing is stored, locked, run or replied before the first call.
LEMMA InitInv == Init => Inv
  BY NoAnswerIsAClient
  DEF Init, Inv, TypeOK, LockInv, ResultInv, LateInv, RepliesAreGenuine,
      LateDuplicatesDoNotRun, Steps, Replies, Secure, Inside

\* Every step keeps the types.
LEMMA TypeStep == TypeOK /\ [Next]_vars => TypeOK'
<1> SUFFICES ASSUME TypeOK, [Next]_vars PROVE TypeOK'
  OBVIOUS
<1> USE DEF TypeOK, Steps, Replies, Goto, Answer
<1>1. CASE \E c \in Clients : Start(c)
  BY <1>1 DEF Start
<1>2. ASSUME NEW c \in Clients, Proceed(c) PROVE TypeOK'
  <2>1. CASE FindResult(c)
    BY <2>1 DEF FindResult
  <2>2. CASE FindNoResult(c)
    BY <2>2 DEF FindNoResult
  <2>3. CASE Acquire(c)
    BY <2>3 DEF Acquire
  <2>4. CASE Refuse(c)
    BY <2>4 DEF Refuse
  <2>5. CASE Run(c)
    BY <2>5 DEF Run
  <2>6. CASE Store(c)
    BY <2>6 DEF Store
  <2>7. CASE Throw(c)
    BY <2>7 DEF Throw
  <2>8. CASE Unlock(c)
    BY <2>8 DEF Unlock
  <2>9. CASE RedisFails(c)
    BY <2>9 DEF RedisFails
  <2> QED
    BY <1>2, <2>1, <2>2, <2>3, <2>4, <2>5, <2>6, <2>7, <2>8, <2>9 DEF Proceed
<1>3. CASE \E c \in Clients : Die(c)
  BY <1>3 DEF Die
<1>4. CASE \E k \in Keys : LockLapses(k)
  BY <1>4 DEF LockLapses
<1>5. CASE UNCHANGED vars
  BY <1>5 DEF vars
<1> QED
  BY <1>1, <1>2, <1>3, <1>4, <1>5 DEF Next

\* A lock is set only when nobody is inside, and freed only by the one that
\* leaves or, once its holder is gone, by its TTL.
LEMMA LockStep == TypeOK /\ LockInv /\ [Next]_vars => LockInv'
<1> SUFFICES ASSUME TypeOK, LockInv, [Next]_vars PROVE LockInv'
  OBVIOUS
<1> USE DEF TypeOK, LockInv, Secure, Inside, Goto
<1>1. CASE \E c \in Clients : Start(c)
  BY <1>1 DEF Start
<1>2. ASSUME NEW c \in Clients, Proceed(c) PROVE LockInv'
  <2>1. CASE FindResult(c)
    BY <2>1 DEF FindResult
  <2>2. CASE FindNoResult(c)
    BY <2>2 DEF FindNoResult
  <2>3. CASE Acquire(c)
    BY <2>3 DEF Acquire
  <2>4. CASE Refuse(c)
    BY <2>4 DEF Refuse
  <2>5. CASE Run(c)
    BY <2>5 DEF Run
  <2>6. CASE Store(c)
    BY <2>6 DEF Store
  <2>7. CASE Throw(c)
    BY <2>7 DEF Throw
  <2>8. CASE Unlock(c)
    BY <2>8 DEF Unlock
  <2>9. CASE RedisFails(c)
    BY <2>9 DEF RedisFails
  <2> QED
    BY <1>2, <2>1, <2>2, <2>3, <2>4, <2>5, <2>6, <2>7, <2>8, <2>9 DEF Proceed
<1>3. CASE \E c \in Clients : Die(c)
  BY <1>3 DEF Die
<1>4. CASE \E k \in Keys : LockLapses(k)
  BY <1>4 DEF LockLapses, Holders
<1>5. CASE UNCHANGED vars
  BY <1>5 DEF vars
<1> QED
  BY <1>1, <1>2, <1>3, <1>4, <1>5 DEF Next

\* Only a client that has run stores, and only a stored result is replayed.
LEMMA ResultStep == TypeOK /\ ResultInv /\ [Next]_vars => ResultInv'
<1> SUFFICES ASSUME TypeOK, ResultInv, [Next]_vars PROVE ResultInv'
  OBVIOUS
<1> USE NoAnswerIsAClient DEF TypeOK, ResultInv, RepliesAreGenuine, Replies, Goto, Answer
<1>1. CASE \E c \in Clients : Start(c)
  BY <1>1 DEF Start
<1>2. ASSUME NEW c \in Clients, Proceed(c) PROVE ResultInv'
  <2>1. CASE FindResult(c)
    BY <2>1 DEF FindResult
  <2>2. CASE FindNoResult(c)
    BY <2>2 DEF FindNoResult
  <2>3. CASE Acquire(c)
    BY <2>3 DEF Acquire
  <2>4. CASE Refuse(c)
    BY <2>4 DEF Refuse
  <2>5. CASE Run(c)
    BY <2>5 DEF Run
  <2>6. CASE Store(c)
    BY <2>6 DEF Store
  <2>7. CASE Throw(c)
    BY <2>7 DEF Throw
  <2>8. CASE Unlock(c)
    BY <2>8 DEF Unlock
  <2>9. CASE RedisFails(c)
    BY <2>9 DEF RedisFails
  <2> QED
    BY <1>2, <2>1, <2>2, <2>3, <2>4, <2>5, <2>6, <2>7, <2>8, <2>9 DEF Proceed
<1>3. CASE \E c \in Clients : Die(c)
  BY <1>3 DEF Die
<1>4. CASE \E k \in Keys : LockLapses(k)
  BY <1>4 DEF LockLapses
<1>5. CASE UNCHANGED vars
  BY <1>5 DEF vars
<1> QED
  BY <1>1, <1>2, <1>3, <1>4, <1>5 DEF Next

\* A stored result is never removed, so a latecomer is answered at its check.
LEMMA LateStep == TypeOK /\ LateInv /\ [Next]_vars => LateInv'
<1> SUFFICES ASSUME TypeOK, LateInv, [Next]_vars PROVE LateInv'
  OBVIOUS
<1> USE NoAnswerIsAClient DEF TypeOK, LateInv, LateDuplicatesDoNotRun, Goto
<1>1. CASE \E c \in Clients : Start(c)
  BY <1>1 DEF Start
<1>2. ASSUME NEW c \in Clients, Proceed(c) PROVE LateInv'
  <2>1. CASE FindResult(c)
    BY <2>1 DEF FindResult
  <2>2. CASE FindNoResult(c)
    BY <2>2 DEF FindNoResult
  <2>3. CASE Acquire(c)
    BY <2>3 DEF Acquire
  <2>4. CASE Refuse(c)
    BY <2>4 DEF Refuse
  <2>5. CASE Run(c)
    BY <2>5 DEF Run
  <2>6. CASE Store(c)
    BY <2>6 DEF Store
  <2>7. CASE Throw(c)
    BY <2>7 DEF Throw
  <2>8. CASE Unlock(c)
    BY <2>8 DEF Unlock
  <2>9. CASE RedisFails(c)
    BY <2>9 DEF RedisFails
  <2> QED
    BY <1>2, <2>1, <2>2, <2>3, <2>4, <2>5, <2>6, <2>7, <2>8, <2>9 DEF Proceed
<1>3. CASE \E c \in Clients : Die(c)
  BY <1>3 DEF Die
<1>4. CASE \E k \in Keys : LockLapses(k)
  BY <1>4 DEF LockLapses
<1>5. CASE UNCHANGED vars
  BY <1>5 DEF vars
<1> QED
  BY <1>1, <1>2, <1>3, <1>4, <1>5 DEF Next

\* The whole invariant holds in every behaviour.
THEOREM Invariant == Spec => []Inv
<1>1. Inv /\ [Next]_vars => Inv'
  BY TypeStep, LockStep, ResultStep, LateStep DEF Inv
<1> QED
  BY InitInv, <1>1, PTL DEF Spec

----------------------------------------------------------------------------
\* Every variable keeps its type, for any calls and keys.
THEOREM TypeCorrect == Spec => []TypeOK
<1>1. Inv => TypeOK
  BY DEF Inv
<1> QED
  BY Invariant, <1>1, PTL

\* Mutual exclusion: where every callback ends within the TTL of its lock, there
\* is never more than one client inside for a key, although DEL looks at no
\* owner and clients may die or lose the connection to Redis anywhere.
THEOREM MutualExclusion == Spec => []OneAtATime
<1>1. ASSUME Inv, NEW k \in Keys \ LapsingKeys PROVE Cardinality(Holders(k)) <= 1
  <2>1. \A c, d \in Holders(k) : c = d
    BY <1>1 DEF Inv, LockInv, Secure, Holders, Inside
  <2>2. CASE Holders(k) = {}
    BY <2>2, FS_EmptySet
  <2>3. CASE Holders(k) # {}
    <3>1. PICK c : Holders(k) = {c}
      BY <2>1, <2>3
    <3> QED
      BY <3>1, FS_Singleton
  <2> QED
    BY <2>2, <2>3
<1>2. Inv => OneAtATime
  BY <1>1 DEF OneAtATime
<1> QED
  BY Invariant, <1>2, PTL

\* Whatever is stored or replayed was computed by a callback that ran to its
\* end for the same key, whether or not locks lapse early.
THEOREM GenuineReplies == Spec => []RepliesAreGenuine
<1>1. Inv => RepliesAreGenuine
  BY DEF Inv, ResultInv
<1> QED
  BY Invariant, <1>1, PTL

\* A duplicate that arrives after a result was stored never runs the callback,
\* whether or not locks lapse early.
THEOREM LateDuplicatesAreReplays == Spec => []LateDuplicatesDoNotRun
<1>1. Inv => LateDuplicatesDoNotRun
  BY DEF Inv, LateInv
<1> QED
  BY Invariant, <1>1, PTL
==============================================================================
