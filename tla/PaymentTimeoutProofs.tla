------------------------- MODULE PaymentTimeoutProofs -------------------------
(***************************************************************************)
(* Theorems about PaymentTimeout, for any payments, batch size, unit of    *)
(* time and bounds.  A deadline is fixed once anything depends on it (a    *)
(* row, a key, a notification or a batch), and an expired version, in the  *)
(* row, in its past or in a create's memory, has its deadline behind it.   *)
(***************************************************************************)
EXTENDS PaymentTimeout, TLAPS

\* The payment has been saved, and its deadline has passed.
Due(m) == status[m] # "none" /\ deadline[m] <= now

\* What is known of one payment.
DeadlineInv(m) ==
  /\ status[m] # "none" => status[m] \in past[m]
  /\ status[m] = "none" => past[m] = {}
  /\ call[m] = "save" => seen[m] # "none"
  /\ call[m] = "schedule" => status[m] # "none"
  /\ timer[m] # 0 => status[m] # "none"
  /\ m \in mail => Due(m)
  /\ \A s \in Sweepers : m \in batch[s] => Due(m)
  /\ "expired" \in past[m] \/ seen[m] = "expired" => Due(m)

TimeoutInv ==
  /\ TypeOK
  /\ \A m \in Payments : DeadlineInv(m)
  /\ KeyIsOnTime
  /\ PendingIsTimed

\* Math.ceil: the first whole number of seconds that is not too short.
LEMMA CeilBounds ==
  ASSUME NEW t \in Nat \ {0}
  PROVE  CeilSeconds(t) * Second \in t..(t + Second - 1)
<1>1. ASSUME NEW n \in Nat \ {0}
      PROVE  ((t + n - 1) \div n) * n \in t..(t + n - 1)
  <2> DEFINE a == t + n - 1
  <2>1. /\ a \in Nat /\ a \div n \in Nat /\ a % n \in 0..(n - 1)
        /\ a = (a \div n) * n + (a % n)
    OBVIOUS
  <2> QED BY <2>1
<1> QED BY <1>1, UnitsAssumption DEF CeilSeconds

LEMMA TimeoutInit == Init => TimeoutInv
BY UnitsAssumption
DEF Init, TimeoutInv, TypeOK, Statuses, DeadlineInv, Due, KeyIsOnTime, PendingIsTimed

----------------------------------------------------------------------------
(* Types.                                                                  *)

LEMMA TypesCreate ==
  ASSUME TypeOK, NEW m \in Payments,
         Make(m) \/ Reuse(m) \/ Save(m) \/ Schedule(m) \/ SkipOverdue(m) \/ GiveUp(m),
         call[m] = "save" => seen[m] # "none"
  PROVE  TypeOK'
<1>1. CASE Make(m)
  BY <1>1, UnitsAssumption
  DEF TypeOK, Make, Begin, Statuses, rowVars, watchVars
<1>2. CASE Reuse(m)
  BY <1>2, UnitsAssumption
  DEF TypeOK, Reuse, Begin, Statuses, rowVars, watchVars
<1>3. CASE Save(m)
  BY <1>3 DEF TypeOK, Save, Write, Statuses, watchVars
<1>4. CASE Schedule(m)
  <2>1. now + CeilSeconds(deadline[m] - now) * Second \in Nat
    <3>1. deadline[m] - now \in Nat \ {0} /\ now \in Nat
      BY <1>4 DEF TypeOK, Schedule
    <3> QED BY <3>1, CeilBounds, UnitsAssumption
  <2> QED BY <1>4, <2>1 DEF TypeOK, Schedule, Leave, rowVars
<1>5. CASE SkipOverdue(m) \/ GiveUp(m)
  BY <1>5 DEF TypeOK, SkipOverdue, GiveUp, Leave, rowVars
<1> QED BY <1>1, <1>2, <1>3, <1>4, <1>5

LEMMA TypesExpiry ==
  ASSUME TypeOK, NEW m \in Payments,
         \/ KeyExpires(m) \/ HandleExpiredKey(m) \/ Settle(m)
         \/ \E s \in Sweepers : SweepExpires(s, m) \/ SweepPassesOver(s, m)
  PROVE  TypeOK'
BY DEF TypeOK, KeyExpires, HandleExpiredKey, Settle, SweepExpires, SweepPassesOver, Expire, Shrug,
       Write, Statuses, rowVars, callVars, watchVars

LEMMA TypesRest ==
  ASSUME TypeOK, \/ Tick \/ Disconnect \/ Reconnect \/ Crash
                 \/ \E s \in Sweepers : StartSweep(s)
  PROVE  TypeOK'
<1>1. CASE Tick \/ Disconnect \/ Reconnect
  BY <1>1 DEF TypeOK, Tick, Disconnect, Reconnect, rowVars, callVars, watchVars
<1>2. CASE Crash
  BY <1>2, UnitsAssumption DEF TypeOK, Crash, rowVars
<1>3. ASSUME NEW s \in Sweepers, StartSweep(s) PROVE TypeOK'
  BY <1>3 DEF TypeOK, StartSweep, Overdue, rowVars, callVars
<1> QED BY <1>1, <1>2, <1>3

----------------------------------------------------------------------------
(* Deadlines.                                                              *)

\* A step that makes nothing of another payment.
Apart(m) ==
  /\ status'[m] = status[m] /\ past'[m] = past[m] /\ deadline'[m] = deadline[m]
  /\ call'[m] = call[m] /\ seen'[m] = seen[m] /\ timer'[m] = timer[m]
  /\ m \in mail' => m \in mail
  /\ \A s \in Sweepers : m \in batch'[s] => m \in batch[s]
  /\ m \in untimed => m \in untimed'
  /\ now' \in Nat /\ now <= now'

LEMMA ApartStays ==
  ASSUME TypeOK, NEW m \in Payments, DeadlineInv(m), Apart(m)
  PROVE  DeadlineInv(m)'
BY DEF TypeOK, DeadlineInv, Due, Apart

\* The two properties of one payment's key.
KeyFits(m) == timer[m] # 0 => timer[m] \in deadline[m]..(deadline[m] + Second - 1)

Timed(m) ==
  status[m] = "pending" /\ now < deadline[m] /\ call[m] = "idle" => timer[m] # 0 \/ m \in untimed

LEMMA ApartKeys ==
  ASSUME TypeOK, NEW m \in Payments, KeyFits(m), Timed(m), Apart(m)
  PROVE  KeyFits(m)' /\ Timed(m)'
BY UnitsAssumption DEF TypeOK, KeyFits, Timed, Apart

LEMMA CreateKeepsApart ==
  ASSUME TypeOK, NEW m \in Payments,
         Make(m) \/ Reuse(m) \/ Save(m) \/ Schedule(m) \/ SkipOverdue(m) \/ GiveUp(m)
  PROVE  /\ \A n \in Payments \ {m} : Apart(n)
         /\ now' = now /\ mail' = mail /\ batch' = batch
<1>1. CASE Make(m) \/ Reuse(m)
  BY <1>1 DEF TypeOK, Make, Reuse, Begin, Apart, rowVars, watchVars
<1>2. CASE Save(m)
  BY <1>2 DEF TypeOK, Save, Write, Apart, watchVars
<1>3. CASE Schedule(m) \/ SkipOverdue(m) \/ GiveUp(m)
  BY <1>3 DEF TypeOK, Schedule, SkipOverdue, GiveUp, Leave, Apart, rowVars
<1> QED BY <1>1, <1>2, <1>3

LEMMA DeadlineCreate ==
  ASSUME TypeOK, NEW m \in Payments, DeadlineInv(m), KeyFits(m), Timed(m),
         Make(m) \/ Reuse(m) \/ Save(m) \/ Schedule(m) \/ SkipOverdue(m) \/ GiveUp(m)
  PROVE  DeadlineInv(m)' /\ KeyFits(m)' /\ Timed(m)'
<1>1. CASE Make(m)
  <2>1. /\ status[m] = "none" /\ seen'[m] = "pending" /\ call'[m] = "save"
        /\ UNCHANGED <<now, rowVars, untimed, watchVars>>
    BY <1>1 DEF TypeOK, Make, Begin
  <2> QED BY <2>1 DEF DeadlineInv, Due, KeyFits, Timed, rowVars, watchVars
<1>2. CASE Reuse(m)
  <2>1. /\ status[m] # "none" /\ call'[m] = "save" /\ deadline' = deadline
        /\ seen'[m] = status[m] \/ seen'[m] \in past[m]
        /\ UNCHANGED <<now, rowVars, untimed, watchVars>>
    BY <1>2 DEF TypeOK, Reuse, Begin
  <2>2. seen'[m] \in past[m] /\ seen'[m] # "none"
    BY <2>1 DEF TypeOK, DeadlineInv, Statuses
  <2> QED BY <2>1, <2>2 DEF DeadlineInv, Due, KeyFits, Timed, rowVars, watchVars
<1>3. CASE Save(m)
  <2>1. /\ call[m] = "save" /\ call'[m] = "schedule" /\ status'[m] = seen[m]
        /\ past'[m] = past[m] \cup {seen[m]} /\ seen' = seen /\ deadline' = deadline
        /\ UNCHANGED <<now, untimed, watchVars>>
    BY <1>3 DEF TypeOK, Save, Write
  <2> QED BY <2>1 DEF DeadlineInv, Due, KeyFits, Timed, watchVars
<1>4. CASE Schedule(m)
  <2>1. /\ call[m] = "schedule" /\ call'[m] = "idle" /\ seen'[m] = "none" /\ now < deadline[m]
        /\ timer'[m] = now + CeilSeconds(deadline[m] - now) * Second
        /\ deadline' = deadline /\ UNCHANGED <<now, rowVars, mail, batch>>
    BY <1>4 DEF TypeOK, Schedule, Leave
  <2>2. timer'[m] \in deadline[m]..(deadline[m] + Second - 1) /\ timer'[m] # 0
    <3>1. deadline[m] - now \in Nat \ {0} /\ now \in Nat /\ deadline[m] \in Nat
      BY <2>1 DEF TypeOK
    <3>2. CeilSeconds(deadline[m] - now) * Second
            \in (deadline[m] - now)..(deadline[m] - now + Second - 1)
      BY <3>1, CeilBounds
    <3> QED BY <2>1, <3>1, <3>2, UnitsAssumption
  <2> QED BY <2>1, <2>2 DEF DeadlineInv, Due, KeyFits, Timed, rowVars
<1>5. CASE SkipOverdue(m) \/ GiveUp(m)
  <2>1. /\ call[m] # "idle" /\ call'[m] = "idle" /\ seen'[m] = "none" /\ timer' = timer
        /\ deadline[m] <= now \/ m \in untimed'
        /\ deadline' = deadline /\ UNCHANGED <<now, rowVars, mail, batch>>
    BY <1>5 DEF TypeOK, SkipOverdue, GiveUp, Leave
  <2> QED BY <2>1 DEF TypeOK, DeadlineInv, Due, KeyFits, Timed, rowVars
<1> QED BY <1>1, <1>2, <1>3, <1>4, <1>5

\* The worker, the sweeper and what settles a payment do not touch its key,
\* and expire nothing but what is due.
LEMMA ExpiryKeepsApart ==
  ASSUME TypeOK, NEW m \in Payments,
         \/ KeyExpires(m) \/ HandleExpiredKey(m) \/ Settle(m)
         \/ \E s \in Sweepers : SweepExpires(s, m) \/ SweepPassesOver(s, m)
  PROVE  \A n \in Payments \ {m} : Apart(n)
<1>1. CASE KeyExpires(m)
  BY <1>1 DEF TypeOK, KeyExpires, Apart, rowVars, callVars
<1>2. CASE HandleExpiredKey(m)
  BY <1>2 DEF TypeOK, HandleExpiredKey, Expire, Shrug, Write, Apart, rowVars, callVars
<1>3. CASE Settle(m)
  BY <1>3 DEF TypeOK, Settle, Write, Apart, callVars, watchVars
<1>4. ASSUME NEW s \in Sweepers, SweepExpires(s, m) \/ SweepPassesOver(s, m)
      PROVE  \A n \in Payments \ {m} : Apart(n)
  BY <1>4 DEF TypeOK, SweepExpires, SweepPassesOver, Expire, Shrug, Write, Apart, rowVars, callVars
<1> QED BY <1>1, <1>2, <1>3, <1>4

\* What the use case does to a payment that is due.
LEMMA DeadlineExpire ==
  ASSUME TypeOK, NEW m \in Payments, DeadlineInv(m), KeyFits(m), Timed(m), Due(m),
         Expire(m) \/ Shrug, UNCHANGED <<now, callVars, timer>>,
         m \in mail' => m \in mail,
         \A s \in Sweepers : m \in batch'[s] => m \in batch[s]
  PROVE  DeadlineInv(m)' /\ KeyFits(m)' /\ Timed(m)'
<1>1. CASE UNCHANGED rowVars
  BY <1>1 DEF DeadlineInv, Due, KeyFits, Timed, rowVars, callVars
<1>2. CASE status'[m] = "expired" /\ past'[m] = past[m] \cup {"expired"}
  BY <1>2 DEF DeadlineInv, Due, KeyFits, Timed, callVars
<1>3. UNCHANGED rowVars \/ Write(m, "expired")
  BY DEF Expire, Shrug
<1> QED BY <1>1, <1>2, <1>3 DEF TypeOK, Write

LEMMA DeadlineExpiry ==
  ASSUME TypeOK, NEW m \in Payments, DeadlineInv(m), KeyFits(m), Timed(m),
         \/ KeyExpires(m) \/ HandleExpiredKey(m) \/ Settle(m)
         \/ \E s \in Sweepers : SweepExpires(s, m) \/ SweepPassesOver(s, m)
  PROVE  DeadlineInv(m)' /\ KeyFits(m)' /\ Timed(m)'
<1>1. CASE KeyExpires(m)
  <2>1. /\ timer[m] # 0 /\ timer[m] <= now /\ timer'[m] = 0
        /\ UNCHANGED <<now, rowVars, callVars, batch>>
    BY <1>1 DEF TypeOK, KeyExpires
  <2>2. deadline[m] <= now /\ status[m] # "none"
    BY <2>1, UnitsAssumption DEF TypeOK, KeyFits, DeadlineInv
  <2> QED BY <2>1, <2>2 DEF TypeOK, DeadlineInv, Due, KeyFits, Timed, rowVars, callVars
<1>2. CASE HandleExpiredKey(m)
  <2>1. Due(m) /\ (Expire(m) \/ Shrug) /\ UNCHANGED <<now, callVars, timer, batch>> /\ mail' \subseteq mail
    BY <1>2 DEF HandleExpiredKey, DeadlineInv
  <2> QED BY <2>1, DeadlineExpire
<1>3. CASE Settle(m)
  <2>1. /\ status[m] = "pending" /\ status'[m] = "settled" /\ past'[m] = past[m] \cup {"settled"}
        /\ UNCHANGED <<now, callVars, watchVars>>
    BY <1>3 DEF TypeOK, Settle, Write
  <2> QED BY <2>1 DEF DeadlineInv, Due, KeyFits, Timed, callVars, watchVars
<1>4. ASSUME NEW s \in Sweepers, SweepExpires(s, m) \/ SweepPassesOver(s, m)
      PROVE  DeadlineInv(m)' /\ KeyFits(m)' /\ Timed(m)'
  <2>1. /\ Due(m) /\ (Expire(m) \/ Shrug) /\ UNCHANGED <<now, callVars, timer, mail>>
        /\ batch' = [batch EXCEPT ![s] = @ \ {m}]
    BY <1>4 DEF SweepExpires, SweepPassesOver, AtHead, DeadlineInv
  <2>2. \A r \in Sweepers : batch'[r] \subseteq batch[r]
    BY <2>1 DEF TypeOK
  <2> QED BY <2>1, <2>2, DeadlineExpire
<1> QED BY <1>1, <1>2, <1>3, <1>4

LEMMA DeadlineRest ==
  ASSUME TypeOK, NEW m \in Payments, DeadlineInv(m), KeyFits(m), Timed(m),
         \/ Tick \/ Disconnect \/ Reconnect \/ Crash
         \/ \E s \in Sweepers : StartSweep(s)
  PROVE  DeadlineInv(m)' /\ KeyFits(m)' /\ Timed(m)'
<1>1. CASE Tick \/ Disconnect \/ Reconnect
  <2>1. Apart(m)
    BY <1>1 DEF TypeOK, Tick, Disconnect, Reconnect, Apart, rowVars, callVars, watchVars
  <2> QED BY <2>1, ApartStays, ApartKeys
<1>2. CASE Crash
  <2>1. /\ call'[m] = "idle" /\ seen'[m] = "none" /\ mail' = {}
        /\ \A s \in Sweepers : batch'[s] = {}
        /\ call[m] # "idle" => m \in untimed'
        /\ untimed \subseteq untimed'
        /\ UNCHANGED <<now, rowVars, deadline, timer>>
    BY <1>2 DEF Crash
  <2> QED BY <2>1 DEF DeadlineInv, Due, KeyFits, Timed, rowVars
<1>3. ASSUME NEW s \in Sweepers, StartSweep(s)
      PROVE  DeadlineInv(m)' /\ KeyFits(m)' /\ Timed(m)'
  <2>1. PICK B \in SUBSET Overdue : batch' = [batch EXCEPT ![s] = B]
    BY <1>3 DEF StartSweep
  <2>2. \A r \in Sweepers : m \in batch'[r] => m \in batch[r] \/ m \in Overdue
    BY <2>1 DEF TypeOK
  <2>3. UNCHANGED <<now, rowVars, callVars, timer, mail>>
    BY <1>3 DEF StartSweep
  <2>4. m \in Overdue => Due(m)
    BY DEF Overdue, Due
  <2> QED BY <2>2, <2>3, <2>4 DEF DeadlineInv, Due, KeyFits, Timed, rowVars, callVars
<1> QED BY <1>1, <1>2, <1>3

----------------------------------------------------------------------------

LEMMA TimeoutStep == TimeoutInv /\ [Next]_vars => TimeoutInv'
<1> SUFFICES ASSUME TimeoutInv, [Next]_vars PROVE TimeoutInv'
  OBVIOUS
<1>t. TypeOK /\ \A n \in Payments : DeadlineInv(n) /\ KeyFits(n) /\ Timed(n)
  BY DEF TimeoutInv, KeyIsOnTime, PendingIsTimed, KeyFits, Timed
<1>g. SUFFICES TypeOK' /\ \A n \in Payments : DeadlineInv(n)' /\ KeyFits(n)' /\ Timed(n)'
  BY DEF TimeoutInv, KeyIsOnTime, PendingIsTimed, KeyFits, Timed
<1>1. ASSUME NEW m \in Payments,
             Make(m) \/ Reuse(m) \/ Save(m) \/ Schedule(m) \/ SkipOverdue(m) \/ GiveUp(m)
      PROVE  TypeOK' /\ \A n \in Payments : DeadlineInv(n)' /\ KeyFits(n)' /\ Timed(n)'
  <2>1. TypeOK'
    BY <1>1, <1>t, TypesCreate DEF DeadlineInv
  <2>2. DeadlineInv(m)' /\ KeyFits(m)' /\ Timed(m)'
    BY <1>1, <1>t, DeadlineCreate
  <2>3. ASSUME NEW n \in Payments \ {m} PROVE DeadlineInv(n)' /\ KeyFits(n)' /\ Timed(n)'
    BY <1>1, <1>t, CreateKeepsApart, ApartStays, ApartKeys
  <2> QED BY <2>1, <2>2, <2>3
<1>2. ASSUME NEW m \in Payments,
             \/ KeyExpires(m) \/ HandleExpiredKey(m) \/ Settle(m)
             \/ \E s \in Sweepers : SweepExpires(s, m) \/ SweepPassesOver(s, m)
      PROVE  TypeOK' /\ \A n \in Payments : DeadlineInv(n)' /\ KeyFits(n)' /\ Timed(n)'
  <2>1. TypeOK'
    BY <1>2, <1>t, TypesExpiry
  <2>2. DeadlineInv(m)' /\ KeyFits(m)' /\ Timed(m)'
    BY <1>2, <1>t, DeadlineExpiry
  <2>3. ASSUME NEW n \in Payments \ {m} PROVE DeadlineInv(n)' /\ KeyFits(n)' /\ Timed(n)'
    BY <1>2, <1>t, ExpiryKeepsApart, ApartStays, ApartKeys
  <2> QED BY <2>1, <2>2, <2>3
<1>3. CASE \/ Tick \/ Disconnect \/ Reconnect \/ Crash
           \/ \E s \in Sweepers : StartSweep(s)
  BY <1>3, <1>t, TypesRest, DeadlineRest
<1>4. CASE UNCHANGED vars
  BY <1>4, <1>t DEF vars, rowVars, callVars, watchVars, TypeOK, DeadlineInv, Due, KeyFits, Timed
<1> QED BY <1>1, <1>2, <1>3, <1>4 DEF Next

LEMMA TimeoutInvariant == Spec => []TimeoutInv
BY TimeoutInit, TimeoutStep, PTL DEF Spec

\* The types, for any number of payments, ticks, calls and restarts.
THEOREM TimeoutTypes == Spec => []TypeOK
<1>1. TimeoutInv => TypeOK
  BY DEF TimeoutInv
<1> QED BY <1>1, TimeoutInvariant, PTL

\* Neither the Redis worker nor the sweeper expires a payment before its deadline.
THEOREM NeverExpiredEarly == Spec => []NeverEarly
<1>1. TimeoutInv => NeverEarly
  BY DEF TimeoutInv, DeadlineInv, Due, NeverEarly
<1> QED BY <1>1, TimeoutInvariant, PTL

\* What create sets in Redis expires within the second after the deadline.
THEOREM KeysOnTime == Spec => []KeyIsOnTime
<1>1. TimeoutInv => KeyIsOnTime
  BY DEF TimeoutInv
<1> QED BY <1>1, TimeoutInvariant, PTL

\* A pending payment has its key until its deadline, unless a create broke off.
THEOREM PendingTimed == Spec => []PendingIsTimed
<1>1. TimeoutInv => PendingIsTimed
  BY DEF TimeoutInv
<1> QED BY <1>1, TimeoutInvariant, PTL
===============================================================================
