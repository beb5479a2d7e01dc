-------------------------- MODULE CachedLookupsProofs -------------------------
(***************************************************************************)
(* Theorems about CachedLookups, for any lookups, keys and times that let  *)
(* a rate live longer than it takes to fetch and store it.  A lookup of a  *)
(* rate in flight missed before the entry that lives now, or the value     *)
(* that another is storing, came to be (SeesEntry, SeesStore); for that    *)
(* the entry a value was taken from must outlive its being stored again    *)
(* (Kept).                                                                 *)
(***************************************************************************)
EXTENDS CachedLookups, TLAPS

InFlight(l) == pc[l] \in {"fetch", "fallback"} /\ IsRate(l)
Storing(l)  == pc[l] = "store"

\* The age a value may have when it is stored, and when it is served.
StoreAge(l) == Lag + (IF IsRate(l) THEN FetchLimit + 2 * Lag ELSE 0)

LookupInv(l) ==
  /\ pc[l] \in {"fetch", "fallback", "store"} => missed[l] <= now
  /\ pc[l] = "fetch" /\ IsRate(l) => now <= missed[l] + FetchLimit
  /\ pc[l] = "fallback" =>
        /\ IsRate(l) /\ missed[l] <= since[l] /\ since[l] <= missed[l] + FetchLimit
        /\ since[l] <= now /\ now <= since[l] + Lag
  /\ pc[l] = "store" =>
        /\ missed[l] <= value[l] + Lag /\ value[l] <= since[l]
        /\ since[l] <= now /\ now <= since[l] + Lag
        /\ since[l] + Lag <= value[l] + StoreAge(l)

AgeInv(l) == age[l] < Ttl[key[l]] + StoreAge(l)

EntryInv(k) ==
  /\ entry[k].at <= now
  /\ entry[k].until <= entry[k].at + Ttl[k] + Lag
                       + (IF Kind[k] = "rate" THEN FetchLimit + 2 * Lag ELSE 0)
  /\ entry[k].until = 0 \/ entry[k].until >= entry[k].at + Ttl[k]

SeesEntry(l) == InFlight(l) /\ Live(key[l]) => missed[l] <= entry[key[l]].at + Lag

SeesStore(l, m) ==
  InFlight(l) /\ Storing(m) /\ key[m] = key[l] => missed[l] <= value[m] + Lag

Kept(l) ==
  Storing(l) /\ IsRate(l) =>
     since[l] = value[l] \/ entry[key[l]].until >= value[l] + Ttl[key[l]]

CacheInv ==
  /\ TypeOK
  /\ \A l \in Lookups : LookupInv(l) /\ AgeInv(l) /\ SeesEntry(l) /\ Kept(l)
  /\ \A k \in Keys : EntryInv(k)
  /\ \A l, m \in Lookups : SeesStore(l, m)

LEMMA CacheFacts ==
  /\ \A k \in Keys : Ttl[k] \in Nat /\ Ttl[k] > 0
  /\ \A k \in Keys : Kind[k] = "rate" => Ttl[k] > FetchLimit + 3 * Lag
  /\ FetchLimit \in Nat /\ Lag \in Nat /\ MaxTime \in Nat
  /\ 0 \in 0..MaxTries - 1
BY TimeAssumption, RatesOutliveFetches

LEMMA CacheInit == Init => CacheInv
<1> SUFFICES ASSUME Init PROVE CacheInv
  OBVIOUS
<1>1. TypeOK
  BY CacheFacts DEF Init, TypeOK
<1>2. ASSUME NEW k \in Keys PROVE EntryInv(k)
  BY CacheFacts DEF Init, EntryInv
<1>3. ASSUME NEW l \in Lookups PROVE /\ pc[l] = "idle" /\ LookupInv(l) /\ SeesEntry(l) /\ Kept(l)
                                     /\ key[l] \in Keys /\ age[l] = 0
  BY DEF Init, LookupInv, SeesEntry, Kept, InFlight, Storing
<1>4. ASSUME NEW l \in Lookups PROVE AgeInv(l)
  BY <1>3, CacheFacts DEF AgeInv, StoreAge
<1>5. \A l, m \in Lookups : SeesStore(l, m)
  BY <1>3 DEF SeesStore, InFlight
<1> QED BY <1>1, <1>2, <1>3, <1>4, <1>5 DEF CacheInv

----------------------------------------------------------------------------
\* A step that ends lookups or sends them back to the start, and may store what one
\* of them holds.
LEMMA CacheEnds ==
  ASSUME CacheInv, TypeOK', now' = now,
         \A l \in Lookups : AgeInv(l)',
         \A l \in Lookups :
            \/ pc'[l] \in {"idle", "get"}
            \/ /\ pc'[l] = pc[l] /\ key'[l] = key[l] /\ since'[l] = since[l]
               /\ missed'[l] = missed[l] /\ value'[l] = value[l],
         \/ entry' = entry
         \/ \E l \in Lookups : Storing(l) /\ Stored(key[l], value[l])
  PROVE  CacheInv'
<1>1. ASSUME NEW l \in Lookups PROVE LookupInv(l)'
  <2>1. LookupInv(l)
    BY DEF CacheInv
  <2>2. CASE pc'[l] \in {"idle", "get"}
    BY <2>2 DEF LookupInv
  <2>3. CASE /\ pc'[l] = pc[l] /\ key'[l] = key[l] /\ since'[l] = since[l]
             /\ missed'[l] = missed[l] /\ value'[l] = value[l]
    BY <2>1, <2>3 DEF LookupInv, IsRate, StoreAge
  <2> QED BY <2>2, <2>3
<1>2. CASE entry' = entry
  <2>1. ASSUME NEW k \in Keys PROVE EntryInv(k)'
    BY <1>2 DEF CacheInv, EntryInv
  <2>2. ASSUME NEW l \in Lookups PROVE SeesEntry(l)' /\ Kept(l)'
    BY <1>2 DEF CacheInv, SeesEntry, Kept, InFlight, Storing, IsRate, Live
  <2>3. ASSUME NEW l \in Lookups, NEW m \in Lookups PROVE SeesStore(l, m)'
    BY DEF CacheInv, SeesStore, InFlight, Storing, IsRate
  <2> QED BY <1>1, <2>1, <2>2, <2>3 DEF CacheInv
<1>3. ASSUME NEW s \in Lookups, Storing(s), Stored(key[s], value[s]) PROVE CacheInv'
  <2>1. key[s] \in Keys /\ value[s] \in Nat /\ now \in Nat /\ since[s] \in Nat
    BY DEF CacheInv, TypeOK
  <2>2. /\ entry'[key[s]] = [at |-> value[s], until |-> now + Ttl[key[s]]]
        /\ \A k \in Keys : k # key[s] => entry'[k] = entry[k]
    BY <1>3, <2>1 DEF CacheInv, TypeOK, Stored
  <2>3. /\ value[s] <= since[s] /\ since[s] <= now /\ now <= since[s] + Lag
        /\ since[s] + Lag <= value[s] + StoreAge(s)
    BY <1>3 DEF CacheInv, LookupInv, Storing
  <2>4. ASSUME NEW k \in Keys PROVE EntryInv(k)'
    <3>1. CASE k = key[s]
      <4>1. /\ entry'[k].at = value[s] /\ entry'[k].until = now + Ttl[k]
            /\ Ttl[k] \in Nat /\ Lag \in Nat /\ FetchLimit \in Nat
        BY <2>2, <3>1, CacheFacts
      <4>2. now <= value[s] + Lag + (IF Kind[k] = "rate" THEN FetchLimit + 2 * Lag ELSE 0)
        BY <2>1, <2>3, <3>1, <4>1 DEF StoreAge, IsRate
      <4> QED BY <2>1, <2>3, <4>1, <4>2 DEF EntryInv
    <3>2. CASE k # key[s]
      BY <2>2, <3>2 DEF CacheInv, EntryInv
    <3> QED BY <3>1, <3>2
  <2>5. ASSUME NEW l \in Lookups PROVE SeesEntry(l)' /\ Kept(l)'
    <3>1. CASE pc'[l] \in {"idle", "get"}
      BY <3>1 DEF SeesEntry, Kept, InFlight, Storing
    <3>2. CASE /\ pc'[l] = pc[l] /\ key'[l] = key[l] /\ since'[l] = since[l]
               /\ missed'[l] = missed[l] /\ value'[l] = value[l]
      <4>1. SeesEntry(l) /\ Kept(l) /\ SeesStore(l, s) /\ LookupInv(l) /\ key[l] \in Keys
            /\ value[l] \in Nat /\ since[l] \in Nat
        BY DEF CacheInv, TypeOK
      <4>2. CASE key[l] = key[s]
        <5>1. SeesEntry(l)'
          BY <1>3, <2>2, <3>2, <4>1, <4>2 DEF SeesEntry, SeesStore, InFlight, IsRate
        <5>2. Storing(l) => now + Ttl[key[l]] >= value[l] + Ttl[key[l]]
          BY <2>1, <4>1, CacheFacts DEF LookupInv, Storing
        <5>3. Kept(l)'
          BY <2>2, <3>2, <4>2, <5>2 DEF Kept, Storing, IsRate
        <5> QED BY <5>1, <5>3
      <4>3. CASE key[l] # key[s]
        BY <2>2, <3>2, <4>1, <4>3 DEF SeesEntry, Kept, InFlight, Storing, IsRate, Live
      <4> QED BY <4>2, <4>3
    <3> QED BY <3>1, <3>2
  <2>6. ASSUME NEW l \in Lookups, NEW m \in Lookups PROVE SeesStore(l, m)'
    BY DEF CacheInv, SeesStore, InFlight, Storing, IsRate
  <2> QED BY <1>1, <2>4, <2>5, <2>6 DEF CacheInv
<1> QED BY <1>2, <1>3

----------------------------------------------------------------------------
(* The steps that end an attempt.                                          *)

LEMMA EndedLookup ==
  ASSUME TypeOK, NEW l \in Lookups, End(l)
  PROVE  /\ pc' \in [Lookups -> {"idle", "get", "fetch", "fallback", "store"}]
         /\ since' \in [Lookups -> Nat] /\ missed' \in [Lookups -> Nat]
         /\ value' \in [Lookups -> Nat] /\ tries' \in [Lookups -> 0..MaxTries - 1]
         /\ waiting' \in [Lookups -> BOOLEAN] /\ began' \in [Lookups -> Nat]
         /\ key' = key /\ pc'[l] = "idle"
         /\ \A m \in Lookups \ {l} : /\ pc'[m] = pc[m] /\ since'[m] = since[m]
                                     /\ missed'[m] = missed[m] /\ value'[m] = value[m]
<1>1. tries' \in [Lookups -> 0..MaxTries - 1]
  BY CacheFacts DEF TypeOK, End
<1>2. waiting' \in [Lookups -> BOOLEAN]
  BY DEF TypeOK, End
<1> QED BY <1>1, <1>2 DEF TypeOK, End

LEMMA CacheThrows ==
  ASSUME CacheInv, NEW l \in Lookups, Throw(l), now' = now,
         entry' \in [Keys -> [at : Nat, until : Nat]],
         \/ entry' = entry
         \/ Storing(l) /\ Stored(key[l], value[l])
  PROVE  CacheInv'
<1>1. TypeOK
  BY DEF CacheInv
<1>2. age' = age /\ key' = key
  BY DEF Throw, End, caller
<1>3. CASE /\ tries[l] + 1 < MaxTries
           /\ tries' = [tries EXCEPT ![l] = @ + 1]
           /\ GoTo(l, "get")
           /\ missed' = [missed EXCEPT ![l] = 0]
           /\ value' = [value EXCEPT ![l] = 0]
           /\ UNCHANGED <<key, caller>>
  <2>1. tries[l] + 1 \in 0..MaxTries - 1
    BY <1>1, <1>3, TimeAssumption DEF TypeOK
  <2>2. tries' \in [Lookups -> 0..MaxTries - 1]
    BY <1>1, <1>3, <2>1 DEF TypeOK
  <2>3. waiting' = waiting /\ began' = began
    BY <1>3 DEF caller
  <2>4. now \in Nat /\ now \in 0..MaxTime
    BY <1>1, CacheFacts DEF TypeOK
  <2>5. /\ pc' \in [Lookups -> {"idle", "get", "fetch", "fallback", "store"}]
        /\ since' \in [Lookups -> Nat] /\ missed' \in [Lookups -> Nat]
        /\ value' \in [Lookups -> Nat]
    BY <1>1, <1>3, <2>4 DEF TypeOK, GoTo
  <2>6. TypeOK'
    BY <1>1, <1>2, <2>2, <2>3, <2>4, <2>5 DEF TypeOK
  <2>7. /\ pc'[l] = "get"
        /\ \A m \in Lookups \ {l} : /\ pc'[m] = pc[m] /\ since'[m] = since[m]
                                    /\ missed'[m] = missed[m] /\ value'[m] = value[m]
    BY <1>1, <1>3 DEF TypeOK, GoTo
  <2>8. \A m \in Lookups : AgeInv(m)'
    BY <1>2 DEF CacheInv, AgeInv, StoreAge, IsRate
  <2> QED BY <1>2, <2>6, <2>7, <2>8, CacheEnds
<1>4. CASE End(l)
  <2>1. TypeOK'
    BY <1>1, <1>2, <1>4, EndedLookup DEF TypeOK
  <2>2. \A m \in Lookups : AgeInv(m)'
    BY <1>2 DEF CacheInv, AgeInv, StoreAge, IsRate
  <2>3. /\ pc'[l] = "idle"
        /\ \A m \in Lookups \ {l} : /\ pc'[m] = pc[m] /\ since'[m] = since[m]
                                    /\ missed'[m] = missed[m] /\ value'[m] = value[m]
    BY <1>1, <1>4, EndedLookup
  <2> QED BY <1>2, <2>1, <2>2, <2>3, CacheEnds
<1> QED BY <1>3, <1>4 DEF Throw

\* What is served has the age of what is stored, or of an entry that lives.
LEMMA CacheServes ==
  ASSUME CacheInv, NEW l \in Lookups, NEW t \in Nat, Serve(l, t), now' = now,
         t <= now, now - t < Ttl[key[l]] + StoreAge(l),
         entry' \in [Keys -> [at : Nat, until : Nat]],
         \/ entry' = entry
         \/ Storing(l) /\ Stored(key[l], value[l])
  PROVE  CacheInv'
<1>1. TypeOK /\ End(l) /\ age' = [age EXCEPT ![l] = IF waiting[l] THEN now - t ELSE @]
  BY DEF CacheInv, Serve
<1>2. now \in Nat /\ now - t \in Nat /\ key' = key
  BY <1>1, CacheFacts, EndedLookup DEF TypeOK
<1>3. age' \in [Lookups -> Nat]
  BY <1>1, <1>2 DEF TypeOK
<1>4. TypeOK'
  BY <1>1, <1>2, <1>3, EndedLookup DEF TypeOK
<1>5. ASSUME NEW m \in Lookups PROVE AgeInv(m)'
  <2>1. AgeInv(m) /\ (age'[m] = age[m] \/ (m = l /\ age'[m] = now - t))
    BY <1>1 DEF CacheInv, TypeOK
  <2> QED BY <1>2, <2>1 DEF AgeInv, StoreAge, IsRate
<1>6. /\ pc'[l] = "idle"
      /\ \A m \in Lookups \ {l} : /\ pc'[m] = pc[m] /\ since'[m] = since[m]
                                  /\ missed'[m] = missed[m] /\ value'[m] = value[m]
  BY <1>1, EndedLookup
<1> QED BY <1>2, <1>4, <1>5, <1>6, CacheEnds

LEMMA StoredType ==
  ASSUME TypeOK, NEW k \in Keys, NEW t \in Nat, Stored(k, t)
  PROVE  entry' \in [Keys -> [at : Nat, until : Nat]]
<1>1. now + Ttl[k] \in Nat
  BY CacheFacts DEF TypeOK
<1> QED BY <1>1 DEF TypeOK, Stored

LEMMA CacheHit ==
  ASSUME CacheInv, NEW l \in Lookups, Hit(l)
  PROVE  CacheInv'
<1>1. Live(key[l]) /\ Serve(l, entry[key[l]].at) /\ now' = now /\ entry' = entry
  BY DEF Hit
<1>2. key[l] \in Keys /\ EntryInv(key[l]) /\ TypeOK
  BY DEF CacheInv, TypeOK
<1>3. /\ entry[key[l]].at \in Nat /\ entry[key[l]].until \in Nat /\ now \in Nat
      /\ entry' \in [Keys -> [at : Nat, until : Nat]]
  BY <1>1, <1>2, CacheFacts DEF TypeOK
<1>4. /\ entry[key[l]].at <= now
      /\ now - entry[key[l]].at < Ttl[key[l]] + StoreAge(l)
  BY <1>1, <1>2, <1>3, CacheFacts DEF EntryInv, Live, StoreAge, IsRate
<1> QED BY <1>1, <1>3, <1>4, CacheServes

LEMMA CacheStore ==
  ASSUME CacheInv, NEW l \in Lookups, Store(l) \/ FailStore(l)
  PROVE  CacheInv'
<1>1. /\ pc[l] = "store" /\ now' = now
      /\ Stored(key[l], value[l]) \/ entry' = entry
      /\ Serve(l, value[l]) \/ Throw(l)
  BY DEF Store, FailStore
<1>2. TypeOK /\ key[l] \in Keys /\ value[l] \in Nat /\ since[l] \in Nat /\ now \in Nat
  BY CacheFacts DEF CacheInv, TypeOK
<1>3. entry' \in [Keys -> [at : Nat, until : Nat]]
  BY <1>1, <1>2, StoredType DEF TypeOK
<1>4. value[l] <= now /\ now - value[l] < Ttl[key[l]] + StoreAge(l)
  BY <1>1, <1>2, CacheFacts DEF CacheInv, LookupInv, StoreAge
<1> QED BY <1>1, <1>2, <1>3, <1>4, CacheServes, CacheThrows DEF Storing

LEMMA CacheCaller ==
  ASSUME CacheInv, NEW l \in Lookups,
         Begin(l) \/ TimeOut(l) \/ RefuseOrder(l)
  PROVE  CacheInv'
<1>1. TypeOK
  BY DEF CacheInv
<1>2. CASE Begin(l)
  <2>1. /\ pc' = [pc EXCEPT ![l] = "get"]
        /\ since' = [since EXCEPT ![l] = now]
        /\ waiting' = [waiting EXCEPT ![l] = TRUE]
        /\ began' = [began EXCEPT ![l] = now]
        /\ age' = [age EXCEPT ![l] = 0]
        /\ UNCHANGED <<now, entry, key, missed, value, tries>>
    BY <1>2 DEF Begin, GoTo
  <2>2. now \in Nat
    BY <1>1, CacheFacts DEF TypeOK
  <2>3. /\ pc' \in [Lookups -> {"idle", "get", "fetch", "fallback", "store"}]
        /\ since' \in [Lookups -> Nat] /\ key' \in [Lookups -> Keys]
        /\ began' \in [Lookups -> Nat] /\ age' \in [Lookups -> Nat]
    BY <1>1, <2>1, <2>2 DEF TypeOK
  <2>4. waiting' \in [Lookups -> BOOLEAN]
    BY <1>1, <2>1 DEF TypeOK
  <2>5. TypeOK'
    BY <1>1, <2>1, <2>3, <2>4 DEF TypeOK
  <2>6. /\ pc'[l] = "get" /\ key' = key /\ age'[l] = 0
        /\ \A m \in Lookups \ {l} : /\ pc'[m] = pc[m] /\ since'[m] = since[m]
                                    /\ age'[m] = age[m]
    BY <1>1, <2>1 DEF TypeOK
  <2>7. ASSUME NEW m \in Lookups PROVE AgeInv(m)'
    <3>1. CASE m = l
      BY <1>1, <2>6, <3>1, CacheFacts DEF AgeInv, StoreAge, TypeOK
    <3>2. CASE m # l
      BY <2>6, <3>2 DEF CacheInv, AgeInv, StoreAge, IsRate
    <3> QED BY <3>1, <3>2
  <2>8. missed' = missed /\ value' = value /\ now' = now /\ entry' = entry
    BY <2>1
  <2> QED BY <2>5, <2>6, <2>7, <2>8, CacheEnds
<1>3. CASE TimeOut(l)
  <2>1. /\ waiting' = [waiting EXCEPT ![l] = FALSE]
        /\ began' = [began EXCEPT ![l] = 0]
        /\ UNCHANGED <<now, entry, pc, key, since, missed, value, tries, age>>
    BY <1>3 DEF TimeOut, control
  <2>2. waiting' \in [Lookups -> BOOLEAN]
    BY <1>1, <2>1 DEF TypeOK
  <2>3. TypeOK'
    BY <1>1, <2>1, <2>2 DEF TypeOK
  <2>4. \A m \in Lookups : AgeInv(m)'
    BY <2>1 DEF CacheInv, AgeInv, StoreAge, IsRate
  <2> QED BY <2>1, <2>3, <2>4, CacheEnds
<1>4. CASE RefuseOrder(l)
  <2>1. /\ pc' = [m \in Lookups |-> "idle"]
        /\ since' = [m \in Lookups |-> 0] /\ missed' = [m \in Lookups |-> 0]
        /\ value' = [m \in Lookups |-> 0] /\ tries' = [m \in Lookups |-> 0]
        /\ waiting' = [m \in Lookups |-> FALSE]
        /\ began' = [m \in Lookups |-> 0]
        /\ UNCHANGED <<now, entry, key, age>>
    BY <1>4 DEF RefuseOrder
  <2>2. TypeOK'
    BY <1>1, <2>1, CacheFacts DEF TypeOK
  <2>3. \A m \in Lookups : pc'[m] = "idle" /\ AgeInv(m)'
    BY <2>1 DEF CacheInv, AgeInv, StoreAge, IsRate
  <2> QED BY <2>1, <2>2, <2>3, CacheEnds
<1> QED BY <1>2, <1>3, <1>4

----------------------------------------------------------------------------
(* The steps that take a lookup on.                                        *)

\* The others, while l goes from one place to another and Redis is left alone.
LEMMA CacheOthers ==
  ASSUME CacheInv, NEW l \in Lookups, UNCHANGED <<now, entry, key, age>>,
         \A m \in Lookups \ {l} : /\ pc'[m] = pc[m] /\ since'[m] = since[m]
                                  /\ missed'[m] = missed[m] /\ value'[m] = value[m]
  PROVE  /\ \A m \in Lookups \ {l} : LookupInv(m)' /\ SeesEntry(m)' /\ Kept(m)'
         /\ \A m \in Lookups : AgeInv(m)'
         /\ \A k \in Keys : EntryInv(k)'
         /\ \A m, n \in Lookups \ {l} : SeesStore(m, n)'
<1>1. ASSUME NEW m \in Lookups \ {l} PROVE LookupInv(m)' /\ SeesEntry(m)' /\ Kept(m)'
  <2>1. LookupInv(m) /\ SeesEntry(m) /\ Kept(m)
    BY DEF CacheInv
  <2>2. /\ pc'[m] = pc[m] /\ since'[m] = since[m] /\ missed'[m] = missed[m]
        /\ value'[m] = value[m] /\ key'[m] = key[m] /\ now' = now /\ entry' = entry
    OBVIOUS
  <2>3. LookupInv(m)'
    BY <2>1, <2>2 DEF LookupInv, StoreAge, IsRate
  <2> QED BY <2>1, <2>2, <2>3 DEF SeesEntry, Kept, InFlight, Storing, IsRate, Live
<1>2. (\A m \in Lookups : AgeInv(m)') /\ \A k \in Keys : EntryInv(k)'
  BY DEF CacheInv, AgeInv, EntryInv, StoreAge, IsRate
<1>3. ASSUME NEW m \in Lookups \ {l}, NEW n \in Lookups \ {l} PROVE SeesStore(m, n)'
  BY DEF CacheInv, SeesStore, InFlight, Storing, IsRate
<1> QED BY <1>1, <1>2, <1>3

LEMMA CacheMiss ==
  ASSUME CacheInv, NEW l \in Lookups, Miss(l)
  PROVE  CacheInv'
<1>1. /\ pc' = [pc EXCEPT ![l] = "fetch"]
      /\ missed' = [missed EXCEPT ![l] = now]
      /\ since' = [since EXCEPT ![l] = 0]
      /\ UNCHANGED <<now, entry, key, value, tries, waiting, began, age>> /\ ~Live(key[l])
  BY DEF Miss, caller
<1>2. TypeOK /\ now \in Nat /\ key[l] \in Keys
  BY CacheFacts DEF CacheInv, TypeOK
<1>3. TypeOK'
  BY <1>1, <1>2 DEF TypeOK
<1>4. /\ pc'[l] = "fetch" /\ missed'[l] = now
      /\ \A m \in Lookups \ {l} : /\ pc'[m] = pc[m] /\ since'[m] = since[m]
                                  /\ missed'[m] = missed[m] /\ value'[m] = value[m]
  BY <1>1, <1>2 DEF TypeOK
<1>5. /\ \A m \in Lookups \ {l} : LookupInv(m)' /\ SeesEntry(m)' /\ Kept(m)'
      /\ \A m \in Lookups : AgeInv(m)'
      /\ \A k \in Keys : EntryInv(k)'
      /\ \A m, n \in Lookups \ {l} : SeesStore(m, n)'
  BY <1>1, <1>4, CacheOthers
<1>6. LookupInv(l)'
  BY <1>1, <1>2, <1>4, CacheFacts DEF LookupInv
<1>7. SeesEntry(l)' /\ Kept(l)'
  BY <1>1, <1>4 DEF SeesEntry, Kept, Live, Storing
\* A value another lookup holds was fetched a moment ago, or is in Redis.
<1>8. ASSUME NEW m \in Lookups \ {l} PROVE SeesStore(l, m)' /\ SeesStore(m, l)'
  <2>1. SeesStore(m, l)'
    BY <1>4 DEF SeesStore, Storing
  <2>2. SUFFICES ASSUME IsRate(l), Storing(m), key[m] = key[l] PROVE now <= value[m] + Lag
    BY <1>1, <1>4 DEF SeesStore, InFlight, Storing, IsRate
  <2>3. LookupInv(m) /\ Kept(m) /\ value[m] \in Nat /\ since[m] \in Nat
        /\ entry[key[l]].until \in Nat
    BY <1>2 DEF CacheInv, TypeOK
  <2>4. now <= since[m] + Lag /\ since[m] + Lag <= value[m] + FetchLimit + 3 * Lag
    BY <2>2, <2>3, CacheFacts DEF LookupInv, Storing, StoreAge, IsRate
  <2>5. CASE since[m] = value[m]
    BY <2>4, <2>5
  <2>6. CASE entry[key[l]].until >= value[m] + Ttl[key[l]]
    <3>1. now >= entry[key[l]].until
      BY <1>1, <1>2, <2>3 DEF Live
    <3>2. Ttl[key[l]] > FetchLimit + 3 * Lag /\ Ttl[key[l]] \in Nat
      BY <1>2, <2>2, CacheFacts DEF IsRate
    <3> QED BY <1>2, <2>3, <2>4, <2>6, <3>1, <3>2, CacheFacts
  <2> QED BY <2>1, <2>2, <2>3, <2>5, <2>6 DEF Kept, IsRate
<1>9. SeesStore(l, l)'
  BY <1>4 DEF SeesStore, Storing
<1> QED BY <1>3, <1>5, <1>6, <1>7, <1>8, <1>9 DEF CacheInv

\* An answer, or what the fallback has found: a value in hand, to be stored.
LEMMA CacheGot ==
  ASSUME CacheInv, NEW l \in Lookups, NEW t \in Nat,
         pc' = [pc EXCEPT ![l] = "store"], since' = [since EXCEPT ![l] = now],
         value' = [value EXCEPT ![l] = t],
         UNCHANGED <<now, entry, key, missed, tries, caller>>,
         t <= now, missed[l] <= now, missed[l] <= t + Lag,
         now + Lag <= t + StoreAge(l),
         \A m \in Lookups : InFlight(m) /\ key[m] = key[l] => missed[m] <= t + Lag,
         t = now \/ entry[key[l]].until >= t + Ttl[key[l]]
  PROVE  CacheInv'
<1>1. TypeOK /\ now \in Nat
  BY CacheFacts DEF CacheInv, TypeOK
<1>2. TypeOK' /\ UNCHANGED <<now, entry, key, missed, age>>
  BY <1>1 DEF TypeOK, caller
<1>3. /\ pc'[l] = "store" /\ since'[l] = now /\ value'[l] = t
      /\ \A m \in Lookups \ {l} : /\ pc'[m] = pc[m] /\ since'[m] = since[m]
                                  /\ missed'[m] = missed[m] /\ value'[m] = value[m]
  BY <1>1, <1>2 DEF TypeOK
<1>4. /\ \A m \in Lookups \ {l} : LookupInv(m)' /\ SeesEntry(m)' /\ Kept(m)'
      /\ \A m \in Lookups : AgeInv(m)'
      /\ \A k \in Keys : EntryInv(k)'
      /\ \A m, n \in Lookups \ {l} : SeesStore(m, n)'
  BY <1>2, <1>3, CacheOthers
<1>5. LookupInv(l)'
  BY <1>1, <1>2, <1>3, CacheFacts DEF LookupInv, StoreAge, IsRate
<1>6. SeesEntry(l)' /\ Kept(l)'
  BY <1>2, <1>3 DEF SeesEntry, Kept, InFlight
<1>7. ASSUME NEW m \in Lookups PROVE SeesStore(m, l)' /\ SeesStore(l, m)'
  BY <1>2, <1>3 DEF SeesStore, InFlight, Storing, IsRate
<1> QED BY <1>2, <1>4, <1>5, <1>6, <1>7 DEF CacheInv

LEMMA CacheAnswer ==
  ASSUME CacheInv, NEW l \in Lookups, Answer(l)
  PROVE  CacheInv'
<1>1. /\ pc[l] = "fetch"
      /\ value' = [value EXCEPT ![l] = now]
      /\ pc' = [pc EXCEPT ![l] = "store"] /\ since' = [since EXCEPT ![l] = now]
      /\ UNCHANGED <<now, entry, key, missed, tries, caller>>
  BY DEF Answer, GoTo
<1>2. now \in Nat /\ \A m \in Lookups : missed[m] \in Nat /\ LookupInv(m)
  BY CacheFacts DEF CacheInv, TypeOK
<1>3. missed[l] <= now /\ missed[l] <= now + Lag /\ now + Lag <= now + StoreAge(l)
  BY <1>1, <1>2, CacheFacts DEF LookupInv, StoreAge
<1>4. \A m \in Lookups : InFlight(m) => missed[m] <= now + Lag
  BY <1>2, CacheFacts DEF InFlight, LookupInv
<1>5. PICK t \in Nat : t = now
  BY <1>2
<1>6. t <= now /\ value' = [value EXCEPT ![l] = t] /\ missed[l] <= t + Lag /\ now + Lag <= t + StoreAge(l)
  BY <1>1, <1>2, <1>3, <1>5
<1>7. \A m \in Lookups : InFlight(m) /\ key[m] = key[l] => missed[m] <= t + Lag
  BY <1>4, <1>5
<1> QED BY <1>1, <1>3, <1>5, <1>6, <1>7, CacheGot

LEMMA CacheFallBack ==
  ASSUME CacheInv, NEW l \in Lookups, FallBack(l)
  PROVE  CacheInv'
<1> DEFINE k == key[l]
           t == entry[k].at
<1>1. /\ pc[l] = "fallback" /\ Live(k)
      /\ value' = [value EXCEPT ![l] = t]
      /\ pc' = [pc EXCEPT ![l] = "store"] /\ since' = [since EXCEPT ![l] = now]
      /\ UNCHANGED <<now, entry, key, missed, tries, caller>>
  BY DEF FallBack, GoTo
<1>2. /\ now \in Nat /\ t \in Nat /\ entry[k].until \in Nat /\ k \in Keys /\ missed[l] \in Nat
      /\ since[l] \in Nat
  BY CacheFacts DEF CacheInv, TypeOK
<1>3. IsRate(l) /\ LookupInv(l) /\ EntryInv(k)
  BY <1>1, <1>2 DEF CacheInv, LookupInv
<1>4. \A m \in Lookups : InFlight(m) /\ key[m] = k => missed[m] <= t + Lag
  BY <1>1 DEF CacheInv, SeesEntry
<1>5. missed[l] <= t + Lag
  BY <1>1, <1>3, <1>4 DEF InFlight
<1>6. t <= now /\ entry[k].until >= t + Ttl[k]
  BY <1>1, <1>2, <1>3 DEF EntryInv, Live
<1>7. missed[l] <= now /\ now + Lag <= t + StoreAge(l)
  BY <1>1, <1>2, <1>3, <1>5, CacheFacts DEF LookupInv, StoreAge
<1> HIDE DEF t
<1> QED BY <1>1, <1>2, <1>4, <1>5, <1>6, <1>7, CacheGot

LEMMA CacheFails ==
  ASSUME CacheInv, NEW l \in Lookups, FailFetch(l) \/ FailGet(l)
  PROVE  CacheInv'
<1>1. now' = now /\ entry' = entry /\ TypeOK
  BY DEF FailFetch, FailGet, CacheInv
<1>2. CASE Throw(l)
  BY <1>1, <1>2, CacheThrows DEF TypeOK
<1>3. CASE /\ pc[l] = "fetch" /\ IsRate(l) /\ GoTo(l, "fallback")
           /\ UNCHANGED <<key, missed, value, tries, caller>>
  <2>1. now \in Nat /\ LookupInv(l) /\ SeesEntry(l) /\ missed[l] \in Nat
    BY CacheFacts DEF CacheInv, TypeOK
  <2>2. TypeOK' /\ UNCHANGED <<now, entry, key, missed, value, age>>
    BY <1>1, <1>3, <2>1 DEF TypeOK, GoTo, caller
  <2>3. /\ pc'[l] = "fallback" /\ since'[l] = now
        /\ \A m \in Lookups \ {l} : /\ pc'[m] = pc[m] /\ since'[m] = since[m]
                                    /\ missed'[m] = missed[m] /\ value'[m] = value[m]
    BY <1>1, <1>3, <2>2 DEF TypeOK, GoTo
  <2>4. /\ \A m \in Lookups \ {l} : LookupInv(m)' /\ SeesEntry(m)' /\ Kept(m)'
        /\ \A m \in Lookups : AgeInv(m)'
        /\ \A k \in Keys : EntryInv(k)'
        /\ \A m, n \in Lookups \ {l} : SeesStore(m, n)'
    BY <2>2, <2>3, CacheOthers
  <2>5. LookupInv(l)'
    BY <1>3, <2>1, <2>2, <2>3, CacheFacts DEF LookupInv, IsRate
  <2>6. SeesEntry(l)' /\ Kept(l)'
    BY <1>3, <2>1, <2>2, <2>3 DEF SeesEntry, Kept, InFlight, Storing, IsRate, Live
  <2>7. ASSUME NEW m \in Lookups PROVE SeesStore(l, m)' /\ SeesStore(m, l)'
    <3>1. SeesStore(l, m) /\ (m # l => pc'[m] = pc[m] /\ value'[m] = value[m])
      BY <2>3 DEF CacheInv
    <3> QED BY <1>3, <2>2, <2>3, <3>1 DEF SeesStore, InFlight, Storing, IsRate
  <2> QED BY <2>2, <2>4, <2>5, <2>6, <2>7 DEF CacheInv
<1> QED BY <1>2, <1>3 DEF FailFetch, FailGet

LEMMA CacheTick == ASSUME CacheInv, Tick PROVE CacheInv'
<1>1. /\ now < MaxTime /\ now' = now + 1
      /\ \A l \in Lookups : ~AbortDue(l) /\ ~RedisDue(l)
      /\ UNCHANGED <<entry, pc, key, since, missed, value, tries, waiting, began, age>>
  BY DEF Tick, control, caller
<1>2. TypeOK /\ now \in Nat
  BY CacheFacts DEF CacheInv, TypeOK
<1>3. TypeOK'
  BY <1>1, <1>2, CacheFacts DEF TypeOK
<1>4. ASSUME NEW l \in Lookups PROVE LookupInv(l)'
  <2>1. /\ LookupInv(l) /\ ~AbortDue(l) /\ ~RedisDue(l)
        /\ missed[l] \in Nat /\ since[l] \in Nat /\ value[l] \in Nat
    BY <1>1, <1>2 DEF CacheInv, TypeOK
  <2>2. pc[l] = "fetch" /\ IsRate(l) => now + 1 <= missed[l] + FetchLimit
    BY <1>2, <2>1, CacheFacts DEF AbortDue
  <2>3. pc[l] \in {"fallback", "store"} => now + 1 <= since[l] + Lag
    BY <1>2, <2>1, CacheFacts DEF RedisDue
  <2> QED BY <1>1, <1>2, <2>1, <2>2, <2>3, CacheFacts DEF LookupInv, StoreAge, IsRate
<1>5. ASSUME NEW k \in Keys PROVE EntryInv(k)'
  BY <1>1, <1>2 DEF CacheInv, EntryInv, TypeOK
<1>6. ASSUME NEW l \in Lookups PROVE AgeInv(l)' /\ SeesEntry(l)' /\ Kept(l)'
  <2>1. AgeInv(l) /\ SeesEntry(l) /\ Kept(l) /\ key[l] \in Keys /\ entry[key[l]].until \in Nat
    BY <1>2 DEF CacheInv, TypeOK
  <2>2. Live(key[l])' => Live(key[l])
    BY <1>1, <1>2, <2>1 DEF Live
  <2> QED BY <1>1, <2>1, <2>2 DEF AgeInv, SeesEntry, Kept, InFlight, Storing, IsRate, StoreAge
<1>7. \A l, m \in Lookups : SeesStore(l, m)'
  BY <1>1 DEF CacheInv, SeesStore, InFlight, Storing, IsRate
<1> QED BY <1>3, <1>4, <1>5, <1>6, <1>7 DEF CacheInv

LEMMA CacheStutter == CacheInv /\ UNCHANGED vars => CacheInv'
<1> SUFFICES ASSUME CacheInv, UNCHANGED vars PROVE CacheInv'
  OBVIOUS
<1>1. UNCHANGED <<now, entry, pc, key, since, missed, value, tries, waiting, began, age>>
  BY DEF vars, control, caller
<1>2. TypeOK' /\ \A l \in Lookups : AgeInv(l)'
  BY <1>1 DEF CacheInv, TypeOK, AgeInv, StoreAge, IsRate
<1> QED BY <1>1, <1>2, CacheEnds

LEMMA CacheInductive == CacheInv /\ [Next]_vars => CacheInv'
<1> SUFFICES ASSUME CacheInv, [Next]_vars PROVE CacheInv'
  OBVIOUS
<1>1. CASE Tick
  BY <1>1, CacheTick
<1>2. ASSUME NEW l \in Lookups, Redis(l) PROVE CacheInv'
  BY <1>2, CacheHit, CacheMiss, CacheFallBack, CacheFails, CacheStore DEF Redis
<1>3. ASSUME NEW l \in Lookups, Answer(l) \/ FailFetch(l) PROVE CacheInv'
  BY <1>3, CacheAnswer, CacheFails
<1>4. ASSUME NEW l \in Lookups, Begin(l) \/ TimeOut(l) \/ RefuseOrder(l)
      PROVE  CacheInv'
  BY <1>4, CacheCaller
<1>5. CASE UNCHANGED vars
  BY <1>5, CacheStutter
<1> QED BY <1>1, <1>2, <1>3, <1>4, <1>5 DEF Next

THEOREM CacheInvariant == Spec => []CacheInv
BY CacheInit, CacheInductive, PTL DEF Spec

----------------------------------------------------------------------------
(* The properties.                                                         *)

\* The variables of the lookups keep their types.
THEOREM LookupTypes == Spec => []TypeOK
<1>1. CacheInv => TypeOK
  BY DEF CacheInv
<1> QED BY <1>1, CacheInvariant, PTL

\* What a lookup stores, its fallback included, is not older than its miss.
THEOREM FallbackNotStale == Spec => []FallbackIsNotStale
<1>1. CacheInv => FallbackIsNotStale
  BY DEF CacheInv, LookupInv, FallbackIsNotStale
<1> QED BY <1>1, CacheInvariant, PTL

\* What create is given is never older than an entry's life and a lookup.
THEOREM ServedRecent == Spec => []ServedIsRecent
<1>1. CacheInv => ServedIsRecent
  <2> SUFFICES ASSUME CacheInv, NEW l \in Lookups
               PROVE  age[l] < Ttl[key[l]] + Lag + (IF IsRate(l) THEN FetchLimit + 2 * Lag ELSE 0)
    BY DEF ServedIsRecent
  <2>1. AgeInv(l) /\ age[l] \in Nat /\ Ttl[key[l]] \in Nat
    BY CacheFacts DEF CacheInv, TypeOK
  <2> QED BY <2>1, CacheFacts DEF AgeInv, StoreAge
<1> QED BY <1>1, CacheInvariant, PTL
===============================================================================
