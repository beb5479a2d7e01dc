----------------------------- MODULE Idempotency -----------------------------
(***************************************************************************)
(* IdempotencyService.check, which wraps create, resolve and cancel.  Two  *)
(* Redis keys per idempotency key: the result of a finished call, and a    *)
(* lock with a TTL, whose value names no owner.  A client is one call;     *)
(* calls with the same key are duplicates of each other, sent by a caller  *)
(* that retries.  Every Redis command is a step.  A client may die at any  *)
(* step, and the lock it held stays until its TTL has passed.  A behaviour *)
(* spans less than the 24 hours a result is kept.                          *)
(***************************************************************************)
EXTENDS Naturals, FiniteSets

CONSTANTS
  Clients,        \* calls
  Keys,           \* idempotency keys
  LapsingKeys     \* those whose callbacks may take longer than the lock's 30 seconds

ASSUME LapseAssumption == LapsingKeys \subseteq Keys
ASSUME NoAnswerIsAClient == {"none", "busy", "error"} \cap Clients = {}

VARIABLES
  result,    \* [Keys -> the client whose callback computed the stored result, or "none"]
  locked,    \* [Keys -> BOOLEAN]
  pc,        \* where each client is
  key,       \* the key it sent
  reply,     \* what it was answered: a result, "busy", "error", or "none" yet
  ran,       \* [Keys -> clients whose callback has run to its end]  (history variable)
  late       \* clients whose call began when a result was stored    (history variable)

vars == <<result, locked, pc, key, reply, ran, late>>

Steps == {"idle", "check", "lock", "callback", "store", "unlock", "done", "dead"}

Replies == Clients \cup {"none", "busy", "error"}

\* The clients that believe they hold the lock of k.
Holders(k) == {c \in Clients : key[c] = k /\ pc[c] \in {"callback", "store", "unlock"}}

Init ==
  /\ result = [k \in Keys |-> "none"]
  /\ locked = [k \in Keys |-> FALSE]
  /\ pc = [c \in Clients |-> "idle"]
  /\ key \in [Clients -> Keys]
  /\ reply = [c \in Clients |-> "none"]
  /\ ran = [k \in Keys |-> {}]
  /\ late = {}

Goto(c, step) == pc' = [pc EXCEPT ![c] = step]
Answer(c, r)  == reply' = [reply EXCEPT ![c] = r]

Start(c) ==
  /\ pc[c] = "idle"
  /\ Goto(c, "check")
  /\ late' = IF result[key[c]] = "none" THEN late ELSE late \cup {c}
  /\ UNCHANGED <<result, locked, key, reply, ran>>

FindResult(c) ==
  /\ pc[c] = "check"
  /\ result[key[c]] # "none"
  /\ Answer(c, result[key[c]])
  /\ Goto(c, "done")
  /\ UNCHANGED <<result, locked, key, ran, late>>

\* Mutant: the stored result is not looked at.
FindAnything(c) ==
  /\ pc[c] = "check"
  /\ Goto(c, "lock")
  /\ UNCHANGED <<result, locked, key, reply, ran, late>>

FindNoResult(c) ==
  /\ pc[c] = "check"
  /\ result[key[c]] = "none"
  /\ Goto(c, "lock")
  /\ UNCHANGED <<result, locked, key, reply, ran, late>>

\* SET lockKey 'locked' PX 30000 NX
Acquire(c) ==
  /\ pc[c] = "lock"
  /\ ~locked[key[c]]
  /\ locked' = [locked EXCEPT ![key[c]] = TRUE]
  /\ Goto(c, "callback")
  /\ UNCHANGED <<result, key, reply, ran, late>>

\* Mutant: the lock is taken inside the try, so that a refused client runs the
\* finally too.
RefuseAndUnlock(c) ==
  /\ pc[c] = "lock"
  /\ locked[key[c]]
  /\ Answer(c, "busy")
  /\ Goto(c, "unlock")
  /\ UNCHANGED <<result, locked, key, ran, late>>

\* Mutant: a refused client is answered with what the lock key holds.
RefuseWithLock(c) ==
  /\ pc[c] = "lock"
  /\ locked[key[c]]
  /\ Answer(c, "locked")
  /\ Goto(c, "done")
  /\ UNCHANGED <<result, locked, key, ran, late>>

Refuse(c) ==
  /\ pc[c] = "lock"
  /\ locked[key[c]]
  /\ Answer(c, "busy")
  /\ Goto(c, "done")
  /\ UNCHANGED <<result, locked, key, ran, late>>

\* The second look at the result, after the lock, is commented out: the
\* callback runs.
Run(c) ==
  /\ pc[c] = "callback"
  /\ ran' = [ran EXCEPT ![key[c]] = @ \cup {c}]
  /\ Goto(c, "store")
  /\ UNCHANGED <<result, locked, key, reply, late>>

Store(c) ==
  /\ pc[c] = "store"
  /\ result' = [result EXCEPT ![key[c]] = c]
  /\ Answer(c, c)
  /\ Goto(c, "unlock")
  /\ UNCHANGED <<locked, key, ran, late>>

\* Mutant: a failed callback leaves its outcome as the result.
ThrowAndStore(c) ==
  /\ pc[c] \in {"callback", "store"}
  /\ result' = [result EXCEPT ![key[c]] = c]
  /\ Answer(c, "error")
  /\ Goto(c, "unlock")
  /\ UNCHANGED <<locked, key, ran, late>>

\* The callback throws, or the SET of its result does, after Redis has carried
\* it out or without.
Throw(c) ==
  /\ pc[c] \in {"callback", "store"}
  /\ \/ UNCHANGED result
     \/ pc[c] = "store" /\ result' = [result EXCEPT ![key[c]] = c]
  /\ Answer(c, "error")
  /\ Goto(c, "unlock")
  /\ UNCHANGED <<locked, key, ran, late>>

\* finally: DEL lockKey, whoever set it.
Unlock(c) ==
  /\ pc[c] = "unlock"
  /\ locked' = [locked EXCEPT ![key[c]] = FALSE]
  /\ Goto(c, "done")
  /\ UNCHANGED <<result, key, reply, ran, late>>

\* A Redis command fails outside the try, or the DEL in finally does, after
\* Redis has carried it out or without: the caller gets that error, and a lock
\* may be set that no client believes to hold.
RedisFails(c) ==
  /\ pc[c] \in {"check", "lock", "unlock"}
  /\ \/ UNCHANGED locked
     \/ pc[c] # "check" /\ locked' = [locked EXCEPT ![key[c]] = (pc[c] = "lock")]
  /\ Answer(c, "error")
  /\ Goto(c, "done")
  /\ UNCHANGED <<result, key, ran, late>>

\* The process dies.
Die(c) ==
  /\ pc[c] \notin {"idle", "done", "dead"}
  /\ Goto(c, "dead")
  /\ UNCHANGED <<result, locked, key, reply, ran, late>>

\* Mutant: the lock is set without a TTL.
LockNeverLapses(k) == FALSE /\ UNCHANGED vars

\* The lock's TTL passes.
LockLapses(k) ==
  /\ locked[k]
  /\ k \in LapsingKeys \/ Holders(k) = {}
  /\ locked' = [locked EXCEPT ![k] = FALSE]
  /\ UNCHANGED <<result, pc, key, reply, ran, late>>

Proceed(c) ==
  \/ FindResult(c) \/ FindNoResult(c)
  \/ Acquire(c) \/ Refuse(c)
  \/ Run(c) \/ Store(c) \/ Throw(c)
  \/ Unlock(c) \/ RedisFails(c)

Next ==
  \/ \E c \in Clients : Start(c) \/ Proceed(c) \/ Die(c)
  \/ \E k \in Keys : LockLapses(k)

Spec == Init /\ [][Next]_vars

\* The event loop runs what is ready, and Redis drops what has expired.
FairSpec ==
  /\ Spec
  /\ \A c \in Clients : WF_vars(Proceed(c))
  /\ \A k \in Keys : WF_vars(LockLapses(k))

----------------------------------------------------------------------------
(* Properties.                                                             *)

\* Every variable keeps its type.
TypeOK ==
  /\ result \in [Keys -> Clients \cup {"none"}]
  /\ locked \in [Keys -> BOOLEAN]
  /\ pc \in [Clients -> Steps]
  /\ key \in [Clients -> Keys]
  /\ reply \in [Clients -> Replies]
  /\ ran \in [Keys -> SUBSET Clients]
  /\ late \subseteq Clients

\* As long as a callback ends within the TTL of its lock, duplicates never run
\* it at the same time, although the lock names no owner, unlock deletes it
\* unconditionally, and clients die holding it.
OneAtATime == \A k \in Keys \ LapsingKeys : Cardinality(Holders(k)) <= 1

\* A result that is stored, and a reply that replays it, come from a callback
\* that ran to its end for the same key: no duplicate is answered with the
\* outcome of a call that failed, or of another key.
RepliesAreGenuine ==
  /\ \A k \in Keys : result[k] # "none" => result[k] \in ran[k]
  /\ \A c \in Clients : reply[c] \in Clients => reply[c] \in ran[key[c]]

\* A duplicate that arrives once a result is stored does not run the callback
\* again, whatever its predecessors did and wherever they died.
LateDuplicatesDoNotRun == \A k \in Keys : ran[k] \cap late = {}

\* Whoever dies or fails to release it, the lock of a key never blocks the key
\* for ever: the TTL frees it.
LockIsReleased == \A k \in Keys : locked[k] ~> ~locked[k]

\* "Duplicate requests return existing payment without side effects"
\* (README.md:222): no callback runs once a result is stored for its key, even
\* for a duplicate that found none before it took the lock ("Recheck after
\* acquiring lock to handle race conditions", idempotency.service.ts:35).
DuplicatesHaveNoEffect ==
  [][\A c \in Clients : Run(c) => result[key[c]] = "none"]_vars
=============================================================================
