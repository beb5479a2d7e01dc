----------------------------- MODULE CachedLookups ----------------------------
(***************************************************************************)
(* What create looks up elsewhere: the order, its courses, and the         *)
(* exchange rate.  Each is looked for in Redis, fetched on a miss and      *)
(* stored for a while.  create stops waiting for an order or for courses   *)
(* after a time, but the lookup it has given up goes on; a rate that       *)
(* cannot be fetched is looked for in Redis once more and stored again.    *)
(* Time is a number, and what is fetched is the time it was fetched at.    *)
(***************************************************************************)
EXTENDS Integers

CONSTANTS
  Lookups,     \* lookups in progress at once
  Keys,        \* what can be looked up
  Kind,        \* [Keys -> "order", "courses" or "rate"]
  Ttl,         \* [Keys -> how long an entry lives]
  FetchLimit,  \* how long a rate may take: the abort, and the request's way out
  CallLimit,   \* how long create waits for an order or for courses
  Lag,         \* how long a Redis command may take, or the delay of a retry
  MaxTries,    \* attempts at an order or at courses
  MaxTime      \* bound of the clock

ASSUME KindAssumption == Kind \in [Keys -> {"order", "courses", "rate"}]
ASSUME TimeAssumption ==
  /\ Ttl \in [Keys -> Nat \ {0}] /\ FetchLimit \in Nat /\ CallLimit \in Nat
  /\ Lag \in Nat /\ MaxTries \in Nat \ {0} /\ MaxTime \in Nat
\* 60 seconds, against 15 and the commands of one lookup.
ASSUME RatesOutliveFetches ==
  \A k \in Keys : Kind[k] = "rate" => Ttl[k] > FetchLimit + 3 * Lag

VARIABLES
  now,
  entry,    \* [Keys -> the last entry: when it was fetched, until when it lives]
  pc,       \* where each lookup is
  key,      \* what it looks up, from the start
  since,    \* when its Redis command, or the wait before it, began
  missed,   \* when it last found nothing
  value,    \* when what it has got was fetched
  tries,    \* attempts that have thrown
  waiting,  \* is create waiting for it?
  began,    \* since when
  age       \* how old was what create was given? (history)

control == <<pc, key, since, missed, value, tries>>
caller  == <<waiting, began, age>>
vars == <<now, entry, control, caller>>

IsRate(l) == Kind[key[l]] = "rate"
Live(k)   == now < entry[k].until

Init ==
  /\ now = 0
  /\ entry = [k \in Keys |-> [at |-> 0, until |-> 0]]
  /\ pc = [l \in Lookups |-> "idle"]
  /\ key \in [Lookups -> Keys]
  /\ since = [l \in Lookups |-> 0]
  /\ missed = [l \in Lookups |-> 0]
  /\ value = [l \in Lookups |-> 0]
  /\ tries = [l \in Lookups |-> 0]
  /\ waiting = [l \in Lookups |-> FALSE]
  /\ began = [l \in Lookups |-> 0]
  /\ age = [l \in Lookups |-> 0]

----------------------------------------------------------------------------
(* The clock waits for timers that are due, and for Redis.                 *)

AbortDue(l)   == pc[l] = "fetch" /\ IsRate(l) /\ now - missed[l] >= FetchLimit
TimeOutDue(l) == waiting[l] /\ ~IsRate(l) /\ now - began[l] >= CallLimit
RedisDue(l)   == pc[l] \in {"get", "fallback", "store"} /\ now - since[l] >= Lag

Tick ==
  /\ now < MaxTime
  /\ \A l \in Lookups : ~AbortDue(l) /\ ~TimeOutDue(l) /\ ~RedisDue(l)
  /\ now' = now + 1
  /\ UNCHANGED <<entry, control, caller>>

----------------------------------------------------------------------------
(* The ways of a lookup.                                                   *)

\* It goes on to s, which takes a Redis command.
GoTo(l, s) ==
  /\ pc' = [pc EXCEPT ![l] = s]
  /\ since' = [since EXCEPT ![l] = now]

\* It is over; what it had in memory is gone.
End(l) ==
  /\ pc' = [pc EXCEPT ![l] = "idle"]
  /\ since' = [since EXCEPT ![l] = 0]
  /\ missed' = [missed EXCEPT ![l] = 0]
  /\ value' = [value EXCEPT ![l] = 0]
  /\ tries' = [tries EXCEPT ![l] = 0]
  /\ waiting' = [waiting EXCEPT ![l] = FALSE]
  /\ began' = [began EXCEPT ![l] = 0]
  /\ UNCHANGED key

\* create is given something fetched at time t, if it still waits.
Serve(l, t) ==
  /\ End(l)
  /\ age' = [age EXCEPT ![l] = IF waiting[l] THEN now - t ELSE @]

\* Mutant: one attempt more than there are.
ThrowLate(l) ==
  \/ /\ ~IsRate(l) /\ tries[l] < MaxTries
     /\ tries' = [tries EXCEPT ![l] = @ + 1]
     /\ GoTo(l, "get")
     /\ missed' = [missed EXCEPT ![l] = 0]
     /\ value' = [value EXCEPT ![l] = 0]
     /\ UNCHANGED <<key, caller>>
  \/ /\ IsRate(l) \/ tries[l] = MaxTries
     /\ End(l)
     /\ UNCHANGED age

\* The lookup throws: an order and courses are tried again, from the start.
Throw(l) ==
  \/ /\ ~IsRate(l) /\ tries[l] + 1 < MaxTries
     /\ tries' = [tries EXCEPT ![l] = @ + 1]
     /\ GoTo(l, "get")
     /\ missed' = [missed EXCEPT ![l] = 0]
     /\ value' = [value EXCEPT ![l] = 0]
     /\ UNCHANGED <<key, caller>>
  \/ /\ IsRate(l) \/ tries[l] + 1 = MaxTries
     /\ End(l)
     /\ UNCHANGED age

\* The bound on the clock leaves it time to end.
Begin(l) ==
  /\ pc[l] = "idle"
  /\ now + FetchLimit + 3 * Lag <= MaxTime /\ now + CallLimit <= MaxTime
  /\ GoTo(l, "get")
  /\ waiting' = [waiting EXCEPT ![l] = TRUE]
  /\ began' = [began EXCEPT ![l] = now]
  /\ age' = [age EXCEPT ![l] = 0]
  /\ UNCHANGED <<now, entry, key, missed, value, tries>>

\* Mutant: an entry that is found is kept for longer.
HitRenews(l) ==
  /\ pc[l] = "get" /\ Live(key[l])
  /\ Serve(l, entry[key[l]].at)
  /\ entry' = [entry EXCEPT ![key[l]].until = now + Ttl[key[l]]]
  /\ UNCHANGED now

Hit(l) ==
  /\ pc[l] = "get" /\ Live(key[l])
  /\ Serve(l, entry[key[l]].at)
  /\ UNCHANGED <<now, entry>>

Miss(l) ==
  /\ pc[l] = "get" /\ ~Live(key[l])
  /\ pc' = [pc EXCEPT ![l] = "fetch"]
  /\ missed' = [missed EXCEPT ![l] = now]
  /\ since' = [since EXCEPT ![l] = 0]
  /\ UNCHANGED <<now, entry, key, value, tries, caller>>

\* The other service, or the rate provider, answers.  (The abort covers the head of
\* the rate's answer; its body, a few dozen bytes, is taken to come with it.)
Answer(l) ==
  /\ pc[l] = "fetch"
  /\ value' = [value EXCEPT ![l] = now]
  /\ GoTo(l, "store")
  /\ UNCHANGED <<now, entry, key, missed, tries, caller>>

\* It fails, or a rate is not there in time; a rate is then looked for in Redis,
\* unless the provider's answer had none in it.
FailFetch(l) ==
  /\ pc[l] = "fetch"
  /\ \/ IsRate(l) /\ GoTo(l, "fallback") /\ UNCHANGED <<key, missed, value, tries, caller>>
     \/ Throw(l)
  /\ UNCHANGED <<now, entry>>

\* The order service answers with an error: thrown where nobody can catch it, in
\* the subscriber, and the process goes.
RefuseOrder(l) ==
  /\ pc[l] = "fetch" /\ Kind[key[l]] = "order"
  /\ pc' = [m \in Lookups |-> "idle"]
  /\ since' = [m \in Lookups |-> 0]
  /\ missed' = [m \in Lookups |-> 0]
  /\ value' = [m \in Lookups |-> 0]
  /\ tries' = [m \in Lookups |-> 0]
  /\ waiting' = [m \in Lookups |-> FALSE]
  /\ began' = [m \in Lookups |-> 0]
  /\ UNCHANGED <<now, entry, key, age>>

\* Mutant: the fallback finds entries that are gone.
FallBackOnAnything(l) ==
  /\ pc[l] = "fallback"
  /\ value' = [value EXCEPT ![l] = entry[key[l]].at]
  /\ GoTo(l, "store")
  /\ UNCHANGED <<now, entry, key, missed, tries, caller>>

FallBack(l) ==
  /\ pc[l] = "fallback" /\ Live(key[l])
  /\ value' = [value EXCEPT ![l] = entry[key[l]].at]
  /\ GoTo(l, "store")
  /\ UNCHANGED <<now, entry, key, missed, tries, caller>>

\* Nothing there, or Redis fails.
FailGet(l) ==
  /\ pc[l] \in {"get", "fallback"}
  /\ Throw(l)
  /\ UNCHANGED <<now, entry>>

Stored(k, t) == entry' = [entry EXCEPT ![k] = [at |-> t, until |-> now + Ttl[k]]]

Store(l) ==
  /\ pc[l] = "store"
  /\ Stored(key[l], value[l])
  /\ Serve(l, value[l])
  /\ UNCHANGED now

\* A SET that fails, carried out or not: a rate is returned all the same.
FailStore(l) ==
  /\ pc[l] = "store"
  /\ Stored(key[l], value[l]) \/ UNCHANGED entry
  /\ IF IsRate(l) THEN Serve(l, value[l]) ELSE Throw(l)
  /\ UNCHANGED now

----------------------------------------------------------------------------
(* create.                                                                 *)

\* Mutant: only a first attempt is timed.
TimeOutFirst(l) ==
  /\ TimeOutDue(l) /\ tries[l] = 0
  /\ waiting' = [waiting EXCEPT ![l] = FALSE]
  /\ began' = [began EXCEPT ![l] = 0]
  /\ UNCHANGED <<now, entry, control, age>>

TimeOut(l) ==
  /\ TimeOutDue(l)
  /\ waiting' = [waiting EXCEPT ![l] = FALSE]
  /\ began' = [began EXCEPT ![l] = 0]
  /\ UNCHANGED <<now, entry, control, age>>

Redis(l) == Hit(l) \/ Miss(l) \/ FallBack(l) \/ FailGet(l) \/ Store(l) \/ FailStore(l)

Next ==
  \/ Tick
  \/ \E l \in Lookups :
        \/ Begin(l) \/ Redis(l)
        \/ Answer(l) \/ FailFetch(l) \/ RefuseOrder(l)
        \/ TimeOut(l)

Spec == Init /\ [][Next]_vars

\* Timers fire and Redis commands end; nobody need ever answer a fetch.
Fairness ==
  /\ WF_vars(Tick)
  /\ \A l \in Lookups :
        /\ WF_vars(Redis(l))
        /\ WF_vars(AbortDue(l) /\ FailFetch(l))
        /\ WF_vars(TimeOut(l))

FairSpec == Spec /\ Fairness

----------------------------------------------------------------------------
(* Properties.                                                             *)

TypeOK ==
  /\ now \in 0..MaxTime
  /\ entry \in [Keys -> [at : Nat, until : Nat]]
  /\ pc \in [Lookups -> {"idle", "get", "fetch", "fallback", "store"}]
  /\ key \in [Lookups -> Keys]
  /\ since \in [Lookups -> Nat]
  /\ missed \in [Lookups -> Nat]
  /\ value \in [Lookups -> Nat]
  /\ tries \in [Lookups -> 0..MaxTries - 1]
  /\ waiting \in [Lookups -> BOOLEAN]
  /\ began \in [Lookups -> Nat]
  /\ age \in [Lookups -> Nat]

\* The fallback never brings an old rate back: whatever a lookup is going to store
\* and to return was fetched after the lookup began to fetch, but for the time that
\* another's SET was on its way.
FallbackIsNotStale ==
  \A l \in Lookups : pc[l] = "store" => missed[l] <= value[l] + Lag

\* create never decides on an order, courses or a rate older than an entry's life
\* and the time a lookup takes, although rates are stored again with a life of
\* their own and given-up lookups store what nobody waits for.
ServedIsRecent ==
  \A l \in Lookups :
     age[l] < Ttl[key[l]] + Lag + (IF IsRate(l) THEN FetchLimit + 2 * Lag ELSE 0)

\* create is not left waiting, whoever does not answer.
CallersEnd == \A l \in Lookups : waiting[l] ~> ~waiting[l]
===============================================================================
