---------------------------- MODULE PaymentTimeout ----------------------------
(***************************************************************************)
(* How a payment that is never paid comes to its end.  create gives a new  *)
(* payment a deadline, saves it, and sets a Redis key that lives until     *)
(* then, in whole seconds.  When the key expires Redis publishes that, and *)
(* PaymentTimeoutRedisWorker, if it is subscribed at that moment, runs the *)
(* timeout use case.  Every minute PaymentTimeoutSweeper asks the database *)
(* for the oldest overdue pending payments, one batch of them, and runs    *)
(* the use case for each; a tick does not wait for the one before it.      *)
(* What the use case itself does, between its read and its write, is       *)
(* PaymentHandlers' subject; here it is one step.                          *)
(***************************************************************************)
EXTENDS Naturals, FiniteSets

CONSTANTS
  Payments,    \* one for each idempotency key
  Hopeless,    \* payments the use case throws for whenever it is run
  Sweepers,    \* ticks that can be under way at once
  BatchSize,   \* payments a tick takes
  Second,      \* units of time in a second
  Lifetime,    \* from the making of a payment to its deadline
  MaxTime,     \* bound: the clock
  MaxCreates,  \* bound: calls of create
  MaxCrashes   \* bound: restarts of the service

ASSUME HopelessAssumption ==
  Hopeless \subseteq Payments /\ Cardinality(Hopeless) < BatchSize
ASSUME UnitsAssumption ==
  /\ BatchSize \in Nat /\ Second \in Nat \ {0} /\ Lifetime \in Nat \ {0}
  /\ MaxTime \in Nat /\ MaxCreates \in Nat /\ MaxCrashes \in Nat

VARIABLES
  now,        \* the clock
  status,     \* [Payments -> the status in the row, or "none"]
  deadline,   \* [Payments -> expiresAt, 0 before the payment is made]
  past,       \* [Payments -> statuses the row has had]
  call,       \* [Payments -> where the create for it is]
  seen,       \* [Payments -> the status that create has in memory]
  origin,     \* [Payments -> where it has that from: "row" or "redis"]
  timer,      \* [Payments -> when the Redis key expires, or 0 if there is none]
  link,       \* is the worker's connection to Redis "up" or "down"
  mail,       \* payments whose expiry the worker has been told of
  batch,      \* [Sweepers -> payments the tick has still to deal with]
  untimed,    \* payments a create has left without setting the key (history variable)
  creates, crashes  \* counters for the bounds

rowVars   == <<status, past>>
callVars  == <<call, seen, origin, deadline, untimed>>
watchVars == <<timer, link, mail, batch>>
vars == <<now, rowVars, callVars, watchVars, creates, crashes>>

Statuses == {"pending", "expired", "settled"}

----------------------------------------------------------------------------
Init ==
  /\ now = 1
  /\ status = [m \in Payments |-> "none"]
  /\ deadline = [m \in Payments |-> 0]
  /\ past = [m \in Payments |-> {}]
  /\ call = [m \in Payments |-> "idle"]
  /\ seen = [m \in Payments |-> "none"]
  /\ origin = [m \in Payments |-> "none"]
  /\ timer = [m \in Payments |-> 0]
  /\ link = "up"
  /\ mail = {}
  /\ batch = [s \in Sweepers |-> {}]
  /\ untimed = {}
  /\ creates = 0
  /\ crashes = 0

Tick ==
  /\ now < MaxTime
  /\ now' = now + 1
  /\ UNCHANGED <<rowVars, callVars, watchVars, creates, crashes>>

Write(m, s) ==
  /\ status' = [status EXCEPT ![m] = s]
  /\ past' = [past EXCEPT ![m] = @ \cup {s}]

----------------------------------------------------------------------------
(* create, from the point where it has or makes the payment.               *)

Begin(m, s, src) ==
  /\ call[m] = "idle"
  /\ creates < MaxCreates
  /\ creates' = creates + 1
  /\ call' = [call EXCEPT ![m] = "save"]
  /\ seen' = [seen EXCEPT ![m] = s]
  /\ origin' = [origin EXCEPT ![m] = src]
  /\ UNCHANGED <<now, rowVars, untimed, watchVars, crashes>>

Make(m) ==
  /\ status[m] = "none"
  /\ Begin(m, "pending", "row")
  /\ deadline' = [deadline EXCEPT ![m] = now + Lifetime]

\* Mutant: what the finder did not find is taken for a payment.
ReuseNothing(m) ==
  /\ Begin(m, status[m], "row")
  /\ UNCHANGED deadline

\* The key has a payment already: the row as it is, or a Redis entry, which may
\* be older than the row.
Reuse(m) ==
  /\ status[m] # "none"
  /\ Begin(m, status[m], "row") \/ \E s \in past[m] : Begin(m, s, "redis")
  /\ UNCHANGED deadline

Save(m) ==
  /\ call[m] = "save"
  /\ Write(m, seen[m])
  /\ call' = [call EXCEPT ![m] = "schedule"]
  /\ UNCHANGED <<now, seen, origin, deadline, untimed, watchVars, creates, crashes>>

\* create returns or throws, and what it had in memory is gone.
Leave(m) ==
  /\ call' = [call EXCEPT ![m] = "idle"]
  /\ seen' = [seen EXCEPT ![m] = "none"]
  /\ origin' = [origin EXCEPT ![m] = "none"]
  /\ UNCHANGED <<now, rowVars, deadline, link, mail, batch, creates, crashes>>

CeilSeconds(t) == (t + Second - 1) \div Second

\* Mutant: a payment found again gets its whole lifetime again.
ScheduleAfresh(m) ==
  /\ call[m] = "schedule" /\ origin[m] = "row" /\ now < deadline[m]
  /\ timer' = [timer EXCEPT ![m] = now + CeilSeconds(Lifetime) * Second]
  /\ Leave(m)
  /\ UNCHANGED untimed

Schedule(m) ==
  /\ call[m] = "schedule" /\ origin[m] = "row" /\ now < deadline[m]
  /\ timer' = [timer EXCEPT ![m] = now + CeilSeconds(deadline[m] - now) * Second]
  /\ Leave(m)
  /\ UNCHANGED untimed

\* Mutant: less than a second is not worth a key.
SkipShort(m) ==
  /\ call[m] = "schedule" /\ origin[m] = "row" /\ deadline[m] < now + Second
  /\ Leave(m)
  /\ UNCHANGED <<timer, untimed>>

SkipOverdue(m) ==
  /\ call[m] = "schedule" /\ origin[m] = "row" /\ deadline[m] <= now
  /\ Leave(m)
  /\ UNCHANGED <<timer, untimed>>

\* A payment that was parsed from JSON has a string for its deadline, and
\* getTime throws, after the row was saved; so may every round trip.
GiveUp(m) ==
  /\ call[m] # "idle"
  /\ Leave(m)
  /\ untimed' = untimed \cup {m}
  /\ UNCHANGED timer

----------------------------------------------------------------------------
(* The timeout use case, as its callers see it.                            *)

Expire(m) ==
  /\ m \notin Hopeless
  /\ IF status[m] = "pending" THEN Write(m, "expired") ELSE UNCHANGED rowVars

\* It throws, or is served a Redis entry that says the payment is finished.
Shrug == UNCHANGED rowVars

----------------------------------------------------------------------------
(* The Redis key and the worker.                                           *)

\* Redis removes the key, then or later, and tells who is subscribed.
KeyExpires(m) ==
  /\ timer[m] # 0 /\ timer[m] <= now
  /\ timer' = [timer EXCEPT ![m] = 0]
  /\ mail' = IF link = "up" THEN mail \cup {m} ELSE mail
  /\ UNCHANGED <<now, rowVars, callVars, link, batch, creates, crashes>>

Disconnect ==
  /\ link = "up"
  /\ link' = "down"
  /\ UNCHANGED <<now, rowVars, callVars, timer, mail, batch, creates, crashes>>

Reconnect ==
  /\ link = "down"
  /\ link' = "up"
  /\ UNCHANGED <<now, rowVars, callVars, timer, mail, batch, creates, crashes>>

HandleExpiredKey(m) ==
  /\ m \in mail
  /\ mail' = mail \ {m}
  /\ Expire(m) \/ Shrug
  /\ UNCHANGED <<now, callVars, timer, link, batch, creates, crashes>>

----------------------------------------------------------------------------
(* The sweeper.                                                            *)

Overdue == {m \in Payments : status[m] = "pending" /\ deadline[m] <= now}

\* A batch the query can return: as many as it may take of those that have been
\* overdue for longest.
Oldest(B) ==
  /\ B \subseteq Overdue
  /\ Cardinality(B) <= BatchSize
  /\ B = Overdue \/ Cardinality(B) = BatchSize
  /\ \A m \in B, n \in Overdue \ B : deadline[m] <= deadline[n]

\* Mutant: the query forgets the deadline.
SweepAll(s) ==
  /\ batch[s] = {}
  /\ batch' = [batch EXCEPT ![s] = {m \in Payments : status[m] = "pending"}]
  /\ UNCHANGED <<now, rowVars, callVars, timer, link, mail, creates, crashes>>

StartSweep(s) ==
  /\ batch[s] = {}
  /\ \E B \in SUBSET Overdue : Oldest(B) /\ batch' = [batch EXCEPT ![s] = B]
  /\ UNCHANGED <<now, rowVars, callVars, timer, link, mail, creates, crashes>>

\* The payment the loop of tick s has come to.
AtHead(s, m) ==
  m \in batch[s] /\ \A n \in batch[s] : deadline[m] <= deadline[n]

SweepExpires(s, m) ==
  /\ AtHead(s, m)
  /\ Expire(m)
  /\ batch' = [batch EXCEPT ![s] = @ \ {m}]
  /\ UNCHANGED <<now, callVars, timer, link, mail, creates, crashes>>

\* Mutant: what is thrown for one payment ends the tick.
SweepBreaks(s, m) ==
  /\ AtHead(s, m)
  /\ Shrug
  /\ batch' = [batch EXCEPT ![s] = {}]
  /\ UNCHANGED <<now, callVars, timer, link, mail, creates, crashes>>

\* What is thrown for one payment is logged, and the loop goes on.
SweepPassesOver(s, m) ==
  /\ AtHead(s, m)
  /\ Shrug
  /\ batch' = [batch EXCEPT ![s] = @ \ {m}]
  /\ UNCHANGED <<now, callVars, timer, link, mail, creates, crashes>>

----------------------------------------------------------------------------
\* A resolve, a cancel or a provider event settles the payment.
Settle(m) ==
  /\ status[m] = "pending"
  /\ Write(m, "settled")
  /\ UNCHANGED <<now, callVars, watchVars, creates, crashes>>

\* The service restarts: creates, ticks and what the worker was told are gone.
Crash ==
  /\ crashes < MaxCrashes
  /\ crashes' = crashes + 1
  /\ untimed' = untimed \cup {m \in Payments : call[m] # "idle"}
  /\ call' = [m \in Payments |-> "idle"]
  /\ seen' = [m \in Payments |-> "none"]
  /\ origin' = [m \in Payments |-> "none"]
  /\ link' = "down"
  /\ mail' = {}
  /\ batch' = [s \in Sweepers |-> {}]
  /\ UNCHANGED <<now, rowVars, deadline, timer, creates>>

Next ==
  \/ Tick
  \/ \E m \in Payments :
        \/ Make(m) \/ Reuse(m) \/ Save(m)
        \/ Schedule(m) \/ SkipOverdue(m) \/ GiveUp(m)
        \/ KeyExpires(m) \/ HandleExpiredKey(m)
        \/ Settle(m)
  \/ Disconnect \/ Reconnect
  \/ \E s \in Sweepers :
        \/ StartSweep(s)
        \/ \E m \in Payments : SweepExpires(s, m) \/ SweepPassesOver(s, m)
  \/ Crash

Spec == Init /\ [][Next]_vars

\* The scheduler keeps ticking and a tick goes on; an attempt at a payment that
\* can be expired does not fail for ever.  Nothing is asked of Redis.
FairSpec ==
  /\ Spec
  /\ \A s \in Sweepers :
        /\ WF_vars(StartSweep(s) /\ batch[s]' # {})
        /\ WF_vars(\E m \in Payments : SweepExpires(s, m) \/ SweepPassesOver(s, m))
  /\ \A m \in Payments : SF_vars(\E s \in Sweepers : SweepExpires(s, m))

----------------------------------------------------------------------------
(* Properties.                                                             *)

TypeOK ==
  /\ now \in Nat
  /\ status \in [Payments -> Statuses \cup {"none"}]
  /\ deadline \in [Payments -> Nat]
  /\ past \in [Payments -> SUBSET Statuses]
  /\ call \in [Payments -> {"idle", "save", "schedule"}]
  /\ seen \in [Payments -> Statuses \cup {"none"}]
  /\ origin \in [Payments -> {"none", "row", "redis"}]
  /\ timer \in [Payments -> Nat]
  /\ link \in {"up", "down"}
  /\ mail \subseteq Payments
  /\ batch \in [Sweepers -> SUBSET Payments]
  /\ untimed \subseteq Payments
  /\ creates \in 0..MaxCreates
  /\ crashes \in 0..MaxCrashes

\* No payment is expired before the deadline it was made with, whichever of the
\* worker and the sweeper gets to it, and however often create was called again.
NeverEarly == \A m \in Payments : status[m] = "expired" => deadline[m] <= now

\* The Redis key of a payment expires less than a second after the payment's
\* deadline, and not before it, also when a later create has set it again.  (The
\* TTL is computed before the SET is sent; its round trip takes no time here.)
KeyIsOnTime ==
  \A m \in Payments : timer[m] # 0 => timer[m] \in deadline[m]..(deadline[m] + Second - 1)

\* Until its deadline a pending payment has a Redis key that will end it, unless
\* a create for it failed or died on the way; only then is it left to the sweeper.
PendingIsTimed ==
  \A m \in Payments :
     status[m] = "pending" /\ now < deadline[m] /\ call[m] = "idle" =>
       timer[m] # 0 \/ m \in untimed

\* "Safety net": whatever becomes of the keys and of the worker, a payment that
\* can be expired does not stay pending past its deadline; those that cannot be,
\* fewer than a batch, do not keep the sweeper from the others.
OverdueIsDealtWith ==
  \A m \in Payments \ Hopeless : m \in Overdue ~> status[m] # "pending"
===============================================================================
