---------------------------- MODULE PaymentStore ----------------------------
(***************************************************************************)
(* PaymentTypeOrmRepository: one row per payment in PostgreSQL and up to   *)
(* three copies of it in Redis, under its id, its idempotency key and a    *)
(* provider order id.  A finder reads Redis and, when it misses, the       *)
(* database, and then fills the entry it looked for; save and update write *)
(* the row and then some of the entries.  Every read and every write is a  *)
(* round trip of its own, so each is an operator of its own, used by one   *)
(* step of a handler.                                                      *)
(***************************************************************************)
EXTENDS PaymentDomain

VARIABLES
  db,        \* [Payments -> the row, or NoVersion before the payment is saved]
  cache,     \* [CacheKeys -> the version the Redis entry holds, or NoVersion]
  history    \* [Payments -> every version a write has committed]  (history variable)

storeVars == <<db, cache, history>>

IdKey(p)          == <<"id", p>>
IdempotencyKey(p) == <<"key", p>>
OrderKey(o)       == <<"order", o>>

PaymentKeys == {"id", "key"} \X Payments
OrderKeys   == {"order"} \X Orders
CacheKeys   == PaymentKeys \cup OrderKeys

\* The row a finder's database query is satisfied by.
Matches(k, v) ==
  /\ v # NoVersion
  /\ k[2] = IF k \in OrderKeys THEN v.order ELSE v.id

StoreInit ==
  /\ db = [p \in Payments |-> NoVersion]
  /\ cache = [k \in CacheKeys |-> NoVersion]
  /\ history = [p \in Payments |-> {}]

CacheSet(k, v) == cache' = [cache EXCEPT ![k] = v] /\ UNCHANGED <<db, history>>

\* An entry disappears: its hour has passed, or Redis dropped it.
CacheLapse(k) ==
  /\ cache[k] # NoVersion
  /\ CacheSet(k, NoVersion)

\* What the database accepts for the payment of v.  A payment that the caller
\* takes for new collides with the unique idempotencyKey of one that exists; a
\* session the row has and v lacks would be detached by the cascaded relation,
\* which the NOT NULL column paymentId refuses.
Insertable(v) == db[v.id] = NoVersion

\* Mutant: a session may be left without its payment.
UpdatableAlways(v) == db[v.id] # NoVersion

Updatable(v)  == db[v.id] # NoVersion /\ db[v.id].sessions \subseteq v.sessions

\* paymentRepo.save overwrites the whole row with the caller's version.
Commit(v) ==
  /\ db' = [db EXCEPT ![v.id] = v]
  /\ history' = [history EXCEPT ![v.id] = @ \cup {v}]
  /\ UNCHANGED cache

\* sessionRepo.save of one session of v, once the row is written: it
\* overwrites that session again, and only it.
SessionRewritten(v, s) ==
  [db[v.id] EXCEPT !.sessions = @ \cup {s},
                   !.captured = (@ \ {s}) \cup ({s} \cap v.captured)]
=============================================================================
