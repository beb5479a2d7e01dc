-------------------------- MODULE ProviderCallsProofs -------------------------
(***************************************************************************)
(* Theorems about ProviderCalls, for any orders, payments, calls, keys and *)
(* number of attempts.  While nothing has disturbed a payment it has one   *)
(* call at most, and that call has the row's status in hand (Calm), so the *)
(* call PayPal charged a pending payment for is there to resolve it        *)
(* (ChargeInv).                                                            *)
(***************************************************************************)
EXTENDS ProviderCalls, TLAPS

\* What is known of one call.
SlotInv(c) ==
  /\ Active(c) => order[c] \in Orders /\ kind[c] \in {"resolve", "cancel"}
  /\ ~Active(c) => answer[c] = "none"
  /\ Active(c) /\ IsResolve(c, "razorpay") => place[order[c]] = "paid"
  /\ pc[c] = "write" /\ answer[c] = "completed" => Paid(order[c])
  /\ pc[c] \in {"try", "write"} => snap[c] \in Statuses
  /\ pc[c] \in {"try", "write"} /\ kind[c] = "cancel" => snap[c] = "pending"
  /\ answer[c] = "refused" =>
        \/ chargedBy[order[c]] = "none"
        \/ Key[chargedBy[order[c]]] # Key[c]

\* The idempotency service lets one call with a key in at a time.
Locked == \A c, d \in Calls : Active(c) /\ Active(d) /\ Key[c] = Key[d] => c = d

OrderInv(o) ==
  /\ captor[o] = "none" <=> chargedBy[o] = "none"
  /\ chargedBy[o] # "none" => captor[o] = Key[chargedBy[o]]
  /\ captor[o] = "none" => chargedAt[o] = "none"
  /\ place[o] = "open" => captor[o] = "none"

\* On an undisturbed payment there is one call at most, and what it has read is
\* what the row says.
Calm(p) ==
  p \notin disturbed =>
     \A c \in Calls : Active(c) /\ Payment(c) = p =>
        /\ \A d \in Calls : Active(d) /\ Payment(d) = p => d = c
        /\ pc[c] \in {"try", "write"} => snap[c] = status[p]

\* A payment PayPal has charged while it was pending is resolved, or the call it
\* was charged for is still at it.
ChargeInv(o) ==
  chargedAt[o] = "pending" /\ PaymentOf[o] \notin disturbed =>
     \/ status[PaymentOf[o]] = "resolved"
     \/ /\ status[PaymentOf[o]] = "pending"
        /\ chargedBy[o] \in Calls /\ order[chargedBy[o]] = o
        /\ pc[chargedBy[o]] \in {"try", "write"} /\ kind[chargedBy[o]] = "resolve"

CallsInv ==
  /\ TypeOK
  /\ \A c \in Calls : SlotInv(c)
  /\ Locked
  /\ \A o \in Orders : OrderInv(o)
  /\ \A p \in Payments : Calm(p)
  /\ VouchedIsPaid
  /\ \A o \in Orders : ChargeInv(o)

LEMMA Facts ==
  /\ "none" \notin Calls
  /\ \A o \in Orders : PaymentOf[o] \in Payments
  /\ \A c \in Calls : Key[c] \in STRING /\ Key[c] # "none"
BY OrdersAssumption DEF Payments

LEMMA CallsInit == Init => CallsInv
<1> SUFFICES ASSUME Init PROVE CallsInv
  OBVIOUS
<1>1. TypeOK
  <2>1. 0 \in 0..MaxTries - 1
    BY TriesAssumption
  <2>2. /\ place \in [Orders -> {"open", "approved", "paid"}]
        /\ captor \in [Orders -> STRING \cup {"none"}]
        /\ status \in [Payments -> Statuses]
        /\ past \in [Payments -> SUBSET Statuses]
        /\ vouched \subseteq Orders /\ disturbed \subseteq Payments
        /\ chargedBy \in [Orders -> Calls \cup {"none"}]
        /\ chargedAt \in [Orders -> Statuses \cup {"none"}]
    <3>1. {"pending"} \in SUBSET Statuses /\ "pending" \in Statuses
      BY DEF Statuses
    <3>2. past \in [Payments -> SUBSET Statuses] /\ status \in [Payments -> Statuses]
      BY <3>1 DEF Init
    <3>3. /\ chargedBy \in [Orders -> Calls \cup {"none"}]
          /\ chargedAt \in [Orders -> Statuses \cup {"none"}]
          /\ place \in [Orders -> {"open", "approved", "paid"}]
      BY DEF Init
    <3>5. captor \in [Orders -> STRING \cup {"none"}]
      BY DEF Init
    <3>4. vouched \subseteq Orders /\ disturbed \subseteq Payments
      BY DEF Init
    <3> QED BY <3>2, <3>3, <3>4, <3>5
  <2>3. /\ pc \in [Calls -> {"idle", "find", "try", "write", "done"}]
        /\ kind \in [Calls -> {"none", "resolve", "cancel"}]
        /\ order \in [Calls -> Orders \cup {"none"}]
        /\ snap \in [Calls -> Statuses \cup {"none"}]
        /\ tries \in [Calls -> 0..MaxTries - 1]
        /\ answer \in [Calls -> {"none", "lost", "refused", "completed", "incomplete", "cancelled"}]
    BY <2>1 DEF Init
  <2> QED BY <2>2, <2>3 DEF TypeOK
<1>2. /\ \A c \in Calls : SlotInv(c) /\ ~Active(c)
      /\ \A o \in Orders : OrderInv(o) /\ ChargeInv(o)
  BY DEF Init, SlotInv, OrderInv, ChargeInv, Active
<1> QED BY <1>1, <1>2 DEF Init, CallsInv, Locked, Calm, VouchedIsPaid

----------------------------------------------------------------------------
(* The customer and the timeout.                                           *)

LEMMA CallsCustomer ==
  ASSUME CallsInv, NEW o \in Orders, CustomerPays(o)
  PROVE  CallsInv'
<1>1. /\ place[o] = "open"
      /\ place' = [place EXCEPT ![o] = IF Provider[o] = "razorpay" THEN "paid" ELSE "approved"]
      /\ UNCHANGED <<captor, chargedBy, chargedAt, paymentVars, pc, kind, order, snap, tries,
                     answer, vouched, disturbed>>
  BY DEF CustomerPays
<1>2. TypeOK'
  BY <1>1 DEF CallsInv, TypeOK, paymentVars
<1>3. \A q \in Orders : (Paid(q) => Paid(q)') /\ (place[q] = "paid" => place'[q] = "paid")
  BY <1>1 DEF CallsInv, TypeOK, Paid
<1>4. ASSUME NEW c \in Calls PROVE SlotInv(c)'
  BY <1>1, <1>3 DEF CallsInv, SlotInv, Active, IsResolve
<1>5. Locked' /\ (\A p \in Payments : Calm(p)') /\ \A q \in Orders : ChargeInv(q)'
  BY <1>1 DEF CallsInv, Locked, Calm, ChargeInv, Active, Payment, paymentVars
<1>7. ASSUME NEW q \in Orders PROVE OrderInv(q)'
  <2>1. OrderInv(q) /\ (place'[q] = "open" => place[q] = "open")
    BY <1>1 DEF CallsInv, TypeOK
  <2> QED BY <1>1, <2>1 DEF OrderInv
<1>6. VouchedIsPaid'
  BY <1>1, <1>3 DEF CallsInv, VouchedIsPaid, TypeOK
<1> QED BY <1>2, <1>4, <1>5, <1>6, <1>7 DEF CallsInv

LEMMA CallsExpire ==
  ASSUME CallsInv, NEW p \in Payments, Expire(p)
  PROVE  CallsInv'
<1>1. /\ status[p] = "pending"
      /\ status' = [status EXCEPT ![p] = "expired"]
      /\ past' = [past EXCEPT ![p] = @ \cup {"expired"}]
      /\ disturbed' = IF InProgress(p) = {} THEN disturbed ELSE disturbed \cup {p}
      /\ UNCHANGED <<providerVars, pc, kind, order, snap, tries, answer, vouched>>
  BY DEF Expire, WriteStatus
<1>2. TypeOK'
  BY <1>1 DEF CallsInv, TypeOK, Statuses, providerVars
<1>3. /\ Locked' /\ VouchedIsPaid'
      /\ \A c \in Calls : SlotInv(c)'
      /\ \A o \in Orders : OrderInv(o)'
  BY <1>1 DEF CallsInv, Locked, VouchedIsPaid, Paid, SlotInv, Active, IsResolve, OrderInv, providerVars
<1>4. \A q \in Payments : q # p => status'[q] = status[q]
  BY <1>1 DEF CallsInv, TypeOK
<1>5. disturbed \subseteq disturbed' /\ (p \in disturbed' \/ InProgress(p) = {})
  BY <1>1
<1>6. ASSUME NEW q \in Payments PROVE Calm(q)'
  <2>1. Calm(q)
    BY DEF CallsInv
  <2>2. CASE q = p
    BY <1>1, <1>5, <2>2 DEF Calm, InProgress, Active, Payment
  <2>3. CASE q # p
    BY <1>1, <1>4, <1>5, <2>1, <2>3 DEF Calm, Active, Payment
  <2> QED BY <2>2, <2>3
<1>7. ASSUME NEW o \in Orders PROVE ChargeInv(o)'
  <2>1. ChargeInv(o) /\ PaymentOf[o] \in Payments
    BY Facts DEF CallsInv
  <2>2. CASE PaymentOf[o] = p
    BY <1>1, <1>5, <2>1, <2>2 DEF ChargeInv, InProgress, Active, Payment, providerVars
  <2>3. CASE PaymentOf[o] # p
    BY <1>1, <1>4, <1>5, <2>1, <2>3 DEF ChargeInv, providerVars
  <2> QED BY <2>2, <2>3
<1> QED BY <1>2, <1>3, <1>6, <1>7 DEF CallsInv

----------------------------------------------------------------------------
(* What a step of a call leaves alone.                                     *)

\* A call of the others, and the lock, while the providers are left alone.
LEMMA Others ==
  ASSUME CallsInv, NEW c \in Calls, Active(c), TypeOK',
         UNCHANGED <<providerVars, kind, order>>,
         \A d \in Calls \ {c} : pc'[d] = pc[d] /\ snap'[d] = snap[d] /\ answer'[d] = answer[d]
  PROVE  /\ Locked'
         /\ \A d \in Calls \ {c} : SlotInv(d)'
         /\ \A o \in Orders : OrderInv(o)'
<1>1. \A d \in Calls : Active(d)' => Active(d)
  BY DEF Active
<1>2. Locked'
  BY <1>1 DEF CallsInv, Locked
<1>3. ASSUME NEW d \in Calls \ {c} PROVE SlotInv(d)'
  <2>1. SlotInv(d) /\ pc'[d] = pc[d] /\ snap'[d] = snap[d] /\ answer'[d] = answer[d]
    BY DEF CallsInv
  <2> QED BY <2>1 DEF SlotInv, Active, IsResolve, Paid, providerVars
<1>4. ASSUME NEW o \in Orders PROVE OrderInv(o)'
  BY DEF CallsInv, OrderInv, providerVars
<1> QED BY <1>2, <1>3, <1>4

\* The payments the call is not about.
LEMMA OtherPayments ==
  ASSUME CallsInv, NEW c \in Calls, Active(c), kind' = kind, order' = order,
         \A d \in Calls \ {c} : pc'[d] = pc[d] /\ snap'[d] = snap[d],
         \A o \in Orders : PaymentOf[o] # Payment(c) =>
            chargedBy'[o] = chargedBy[o] /\ chargedAt'[o] = chargedAt[o],
         \A q \in Payments : q # Payment(c) =>
            status'[q] = status[q] /\ (q \in disturbed => q \in disturbed')
  PROVE  /\ \A q \in Payments : q # Payment(c) => Calm(q)'
         /\ \A o \in Orders : PaymentOf[o] # Payment(c) => ChargeInv(o)'
<1>1. ASSUME NEW q \in Payments, q # Payment(c) PROVE Calm(q)'
  <2>1. Calm(q) /\ status'[q] = status[q] /\ (q \in disturbed => q \in disturbed')
    BY <1>1 DEF CallsInv
  <2>2. \A d \in Calls : Payment(d)' = Payment(d)
    BY DEF Payment
  <2>3. \A d \in Calls : Payment(d) = q =>
           d # c /\ pc'[d] = pc[d] /\ snap'[d] = snap[d] /\ (Active(d)' <=> Active(d))
    BY <1>1 DEF Active
  <2> QED BY <2>1, <2>2, <2>3 DEF Calm
<1>2. ASSUME NEW o \in Orders, PaymentOf[o] # Payment(c) PROVE ChargeInv(o)'
  <2>1. ChargeInv(o) /\ PaymentOf[o] \in Payments
    BY Facts DEF CallsInv
  <2>2. chargedBy'[o] = chargedBy[o] /\ chargedAt'[o] = chargedAt[o]
    BY <1>2
  <2>3. status'[PaymentOf[o]] = status[PaymentOf[o]]
        /\ (PaymentOf[o] \in disturbed => PaymentOf[o] \in disturbed')
    BY <1>2, <2>1
  <2>4. chargedBy[o] \in Calls /\ order[chargedBy[o]] = o => pc'[chargedBy[o]] = pc[chargedBy[o]]
    BY <1>2 DEF Payment
  <2> QED BY <2>1, <2>2, <2>3, <2>4 DEF ChargeInv
<1> QED BY <1>1, <1>2

\* A step that leaves the providers and the rows alone: it makes the call's payment
\* no less disturbed, and it keeps the call going, or its charge is accounted for.
LEMMA RowsKept ==
  ASSUME CallsInv, NEW c \in Calls, Active(c), TypeOK', SlotInv(c)',
         UNCHANGED <<providerVars, paymentVars, kind, order, vouched>>,
         \A d \in Calls \ {c} : pc'[d] = pc[d] /\ snap'[d] = snap[d] /\ answer'[d] = answer[d],
         disturbed \subseteq disturbed',
         \A q \in disturbed' : q \in disturbed \/ q = Payment(c),
         pc'[c] \in {"try", "write"} =>
            \/ snap'[c] = status[Payment(c)]
            \/ Payment(c) \in disturbed'
            \/ pc[c] \in {"try", "write"} /\ snap'[c] = snap[c],
         \/ pc[c] = "find" \/ pc'[c] \in {"try", "write"}
         \/ chargedBy[order[c]] # c \/ Payment(c) \in disturbed'
         \/ kind[c] = "resolve" /\ status[Payment(c)] = "resolved"
  PROVE  CallsInv'
<1>1. order[c] \in Orders /\ Payment(c) \in Payments
  BY Facts DEF CallsInv, SlotInv, Payment
<1>2. /\ Locked'
      /\ \A d \in Calls : SlotInv(d)'
      /\ \A o \in Orders : OrderInv(o)'
  BY Others
<1>3. VouchedIsPaid'
  BY DEF CallsInv, VouchedIsPaid, Paid, providerVars
<1>4. /\ \A q \in Payments : q # Payment(c) => Calm(q)'
      /\ \A o \in Orders : PaymentOf[o] # Payment(c) => ChargeInv(o)'
  BY OtherPayments DEF providerVars, paymentVars
<1>5. ASSUME NEW p \in Payments, p = Payment(c) PROVE Calm(p)'
  <2>1. SUFFICES ASSUME p \notin disturbed' PROVE Calm(p)'
    BY DEF Calm
  <2>2. p \notin disturbed /\ status' = status
    BY <2>1 DEF paymentVars
  <2>3. Calm(p)
    BY DEF CallsInv
  <2>4. \A d \in Calls : Active(d)' /\ Payment(d)' = p => d = c
    BY <1>5, <2>2, <2>3 DEF Calm, Active, Payment
  <2>5. pc'[c] \in {"try", "write"} => snap'[c] = status[p]
    BY <1>5, <2>1, <2>2, <2>3 DEF Calm
  <2> QED BY <2>2, <2>4, <2>5 DEF Calm
<1>6. ASSUME NEW o \in Orders, PaymentOf[o] = Payment(c) PROVE ChargeInv(o)'
  <2>1. ChargeInv(o) /\ UNCHANGED <<chargedBy, chargedAt, status, kind, order>>
    BY DEF CallsInv, providerVars, paymentVars
  <2>2. PaymentOf[o] \in disturbed => PaymentOf[o] \in disturbed'
    OBVIOUS
  <2>3. CASE chargedBy[o] = c /\ order[c] = o
    BY <1>6, <2>1, <2>2, <2>3 DEF ChargeInv
  <2>4. CASE chargedBy[o] \in Calls \ {c}
    <3>1. pc'[chargedBy[o]] = pc[chargedBy[o]]
      BY <2>4
    <3> QED BY <2>1, <2>2, <3>1 DEF ChargeInv
  <2>5. CASE chargedBy[o] \notin Calls \/ order[chargedBy[o]] # o
    BY <2>1, <2>2, <2>5 DEF ChargeInv
  <2> QED BY <2>3, <2>4, <2>5
<1> QED BY <1>1, <1>2, <1>3, <1>4, <1>5, <1>6 DEF CallsInv

----------------------------------------------------------------------------
(* How a call ends, and its attempts.                                      *)

LEMMA EndedCall ==
  ASSUME TypeOK, NEW c \in Calls, End(c)
  PROVE  /\ pc' \in [Calls -> {"idle", "find", "try", "write", "done"}]
         /\ snap' \in [Calls -> Statuses \cup {"none"}]
         /\ tries' \in [Calls -> 0..MaxTries - 1]
         /\ answer' \in [Calls -> {"none", "lost", "refused", "completed", "incomplete", "cancelled"}]
         /\ kind' = kind /\ order' = order
         /\ pc'[c] = "done" /\ snap'[c] = "none" /\ answer'[c] = "none"
         /\ \A d \in Calls \ {c} : pc'[d] = pc[d] /\ snap'[d] = snap[d] /\ answer'[d] = answer[d]
<1>1. 0 \in 0..MaxTries - 1
  BY TriesAssumption
<1>2. tries' \in [Calls -> 0..MaxTries - 1]
  BY <1>1 DEF TypeOK, End
<1> QED BY <1>2 DEF TypeOK, End

LEMMA CallsEnded ==
  ASSUME CallsInv, NEW c \in Calls, Active(c), End(c),
         UNCHANGED <<providerVars, paymentVars, vouched>>,
         disturbed' = disturbed \/ disturbed' = disturbed \cup {Payment(c)},
         \/ pc[c] = "find" \/ chargedBy[order[c]] # c \/ Payment(c) \in disturbed'
         \/ kind[c] = "resolve" /\ status[Payment(c)] = "resolved"
  PROVE  CallsInv'
<1>1. TypeOK
  BY DEF CallsInv
<1>2. /\ kind' = kind /\ order' = order
      /\ pc'[c] = "done" /\ snap'[c] = "none" /\ answer'[c] = "none"
      /\ \A d \in Calls \ {c} : pc'[d] = pc[d] /\ snap'[d] = snap[d] /\ answer'[d] = answer[d]
  BY <1>1, EndedCall
<1>3. Payment(c) \in Payments
  BY Facts DEF CallsInv, SlotInv, Payment
<1>4. TypeOK'
  BY <1>1, <1>2, <1>3, EndedCall DEF TypeOK, providerVars, paymentVars
<1>5. SlotInv(c)'
  BY <1>2 DEF SlotInv, Active
<1> QED BY <1>2, <1>4, <1>5, RowsKept

\* An attempt that is answered, when the provider has done nothing for it now.
LEMMA CallsAnswered ==
  ASSUME CallsInv, NEW c \in Calls, pc[c] = "try", UNCHANGED providerVars,
         NEW a \in {"completed", "incomplete", "cancelled"}, Answered(c, a),
         a = "completed" => Paid(order[c])
  PROVE  CallsInv'
<1>1. /\ pc' = [pc EXCEPT ![c] = "write"]
      /\ answer' = [answer EXCEPT ![c] = a]
      /\ UNCHANGED <<paymentVars, kind, order, snap, tries, vouched, disturbed>>
  BY DEF Answered
<1>2. TypeOK' /\ Active(c) /\ pc'[c] = "write" /\ answer'[c] = a
  BY <1>1 DEF CallsInv, TypeOK, Active, providerVars, paymentVars
<1>3. /\ \A d \in Calls \ {c} : pc'[d] = pc[d] /\ snap'[d] = snap[d] /\ answer'[d] = answer[d]
      /\ snap'[c] = snap[c]
  BY <1>1 DEF CallsInv, TypeOK
<1>4. SlotInv(c)
  BY DEF CallsInv
<1>5. SlotInv(c)'
  BY <1>1, <1>2, <1>3, <1>4 DEF SlotInv, Active, IsResolve, Paid, providerVars
<1> QED BY <1>1, <1>2, <1>3, <1>5, RowsKept

\* An attempt that throws, when the provider has done nothing for it now.
LEMMA CallsThrew ==
  ASSUME CallsInv, NEW c \in Calls, pc[c] = "try", UNCHANGED providerVars,
         NEW why \in {"lost", "refused"}, Threw(c, why),
         why = "refused" => \/ chargedBy[order[c]] = "none"
                            \/ Key[chargedBy[order[c]]] # Key[c]
  PROVE  CallsInv'
<1>1. Active(c) /\ UNCHANGED <<paymentVars, vouched>>
  BY DEF Active, Threw
<1>2. CASE /\ tries[c] + 1 < MaxTries
           /\ tries' = [tries EXCEPT ![c] = @ + 1]
           /\ answer' = [answer EXCEPT ![c] = why]
           /\ UNCHANGED <<pc, kind, order, snap, disturbed>>
  <2>1. tries[c] + 1 \in 0..MaxTries - 1
    BY <1>2, TriesAssumption DEF CallsInv, TypeOK
  <2>2. tries' \in [Calls -> 0..MaxTries - 1]
    BY <1>2, <2>1 DEF CallsInv, TypeOK
  <2>3. TypeOK' /\ answer'[c] = why /\ \A d \in Calls \ {c} : answer'[d] = answer[d]
    BY <1>1, <1>2, <2>2 DEF CallsInv, TypeOK, providerVars, paymentVars
  <2>4. SlotInv(c)
    BY DEF CallsInv
  <2>5. SlotInv(c)'
    BY <1>1, <1>2, <2>3, <2>4 DEF SlotInv, Active, IsResolve, Paid, providerVars
  <2> QED BY <1>1, <1>2, <2>3, <2>5, RowsKept
<1>3. CASE /\ End(c)
           /\ disturbed' = IF chargedBy'[order[c]] = c THEN disturbed \cup {Payment(c)}
                                                       ELSE disturbed
  <2>1. chargedBy' = chargedBy
    BY DEF providerVars
  <2> QED BY <1>1, <1>3, <2>1, CallsEnded
<1> QED BY <1>2, <1>3 DEF Threw

LEMMA CallsFind ==
  ASSUME CallsInv, NEW c \in Calls, Find(c)
  PROVE  CallsInv'
<1>1. PICK s \in past[Payment(c)] :
         /\ pc[c] = "find"
         /\ kind[c] = "cancel" => s = "pending"
         /\ pc' = [pc EXCEPT ![c] = "try"]
         /\ snap' = [snap EXCEPT ![c] = s]
         /\ disturbed' = IF s = status[Payment(c)] THEN disturbed
                                                   ELSE disturbed \cup {Payment(c)}
         /\ UNCHANGED <<providerVars, paymentVars, kind, order, tries, answer, vouched>>
  BY DEF Find
<1>2. Active(c) /\ Payment(c) \in Payments
  BY <1>1, Facts DEF Active, CallsInv, SlotInv, Payment
<1>3. s \in Statuses
  BY <1>2, <1>1 DEF CallsInv, TypeOK
<1>4. TypeOK'
  BY <1>1, <1>2, <1>3 DEF CallsInv, TypeOK, providerVars, paymentVars
<1>5. pc'[c] = "try" /\ snap'[c] = s /\ \A d \in Calls \ {c} : pc'[d] = pc[d] /\ snap'[d] = snap[d]
  BY <1>1 DEF CallsInv, TypeOK
<1>6. SlotInv(c)
  BY DEF CallsInv
<1>7. SlotInv(c)'
  BY <1>1, <1>2, <1>3, <1>5, <1>6 DEF SlotInv, Active, IsResolve, providerVars
<1>8. /\ UNCHANGED <<providerVars, paymentVars, kind, order, vouched>> /\ answer' = answer
      /\ disturbed \subseteq disturbed'
      /\ \A q \in disturbed' : q \in disturbed \/ q = Payment(c)
      /\ snap'[c] = status[Payment(c)] \/ Payment(c) \in disturbed'
  BY <1>1, <1>5
<1>9. \A d \in Calls \ {c} : pc'[d] = pc[d] /\ snap'[d] = snap[d] /\ answer'[d] = answer[d]
  BY <1>5, <1>8
<1>10. pc[c] = "find" /\ Active(c)
  BY <1>1, <1>2
<1> QED BY <1>4, <1>7, <1>8, <1>9, <1>10, RowsKept

LEMMA CallsCapture ==
  ASSUME CallsInv, NEW c \in Calls, Capture(c)
  PROVE  CallsInv'
<1>a. Active(c) /\ order[c] \in Orders /\ PaymentOf[order[c]] \in Payments
  BY Facts DEF Capture, Active, CallsInv, SlotInv
<1>o. PICK o \in Orders : o = order[c]
  BY <1>a
<1>p. PICK p \in Payments : p = Payment(c) /\ p = PaymentOf[o]
  BY <1>a, <1>o DEF Payment
<1>1. /\ pc[c] = "try" /\ kind[c] = "resolve" /\ Provider[o] = "paypal"
      /\ captor[o] = "none" /\ place[o] = "approved"
      /\ captor' = [captor EXCEPT ![o] = Key[c]]
      /\ chargedBy' = [chargedBy EXCEPT ![o] = c]
      /\ chargedAt' = [chargedAt EXCEPT ![o] = status[p]]
      /\ place' = place
      /\ Answered(c, "completed") \/ Threw(c, "lost")
  BY <1>o, <1>p DEF Capture, IsResolve, RequestId
<1>2. Active(c) /\ SlotInv(c) /\ p = PaymentOf[o] /\ p = Payment(c) /\ o = order[c]
  BY <1>a, <1>o, <1>p DEF CallsInv
<1>3. /\ captor'[o] = Key[c] /\ chargedBy'[o] = c /\ chargedAt'[o] = status[p]
      /\ \A q \in Orders \ {o} : /\ captor'[q] = captor[q] /\ chargedBy'[q] = chargedBy[q]
                                /\ chargedAt'[q] = chargedAt[q]
  BY <1>1, <1>2 DEF CallsInv, TypeOK
<1>4. /\ captor' \in [Orders -> STRING \cup {"none"}]
      /\ chargedBy' \in [Orders -> Calls \cup {"none"}]
      /\ chargedAt' \in [Orders -> Statuses \cup {"none"}]
  BY <1>1, <1>2, Facts DEF CallsInv, TypeOK
\* The three things that can come of the attempt.
<1>5. /\ kind' = kind /\ order' = order /\ status' = status /\ past' = past /\ vouched' = vouched
      /\ disturbed \subseteq disturbed' /\ \A q \in disturbed' : q \in disturbed \/ q = p
      /\ \A d \in Calls \ {c} : pc'[d] = pc[d] /\ snap'[d] = snap[d] /\ answer'[d] = answer[d]
      /\ \/ pc'[c] = "write" /\ answer'[c] = "completed" /\ snap'[c] = snap[c]
         \/ pc'[c] = "try" /\ answer'[c] = "lost" /\ snap'[c] = snap[c]
         \/ pc'[c] = "done" /\ answer'[c] = "none" /\ snap'[c] = "none" /\ p \in disturbed'
      /\ pc' \in [Calls -> {"idle", "find", "try", "write", "done"}]
      /\ snap' \in [Calls -> Statuses \cup {"none"}]
      /\ tries' \in [Calls -> 0..MaxTries - 1]
      /\ answer' \in [Calls -> {"none", "lost", "refused", "completed", "incomplete", "cancelled"}]
  <2>1. CASE Answered(c, "completed")
    BY <2>1 DEF Answered, CallsInv, TypeOK, paymentVars
  <2>2. CASE /\ tries[c] + 1 < MaxTries
             /\ tries' = [tries EXCEPT ![c] = @ + 1]
             /\ answer' = [answer EXCEPT ![c] = "lost"]
             /\ UNCHANGED <<pc, kind, order, snap, disturbed, paymentVars, vouched>>
    <3>1. tries[c] + 1 \in 0..MaxTries - 1
      BY <2>2, TriesAssumption DEF CallsInv, TypeOK
    <3>2. tries' \in [Calls -> 0..MaxTries - 1]
      BY <2>2, <3>1 DEF CallsInv, TypeOK
    <3> QED BY <1>1, <2>2, <3>2 DEF CallsInv, TypeOK, paymentVars
  <2>3. CASE /\ End(c)
             /\ disturbed' = IF chargedBy'[o] = c THEN disturbed \cup {p} ELSE disturbed
             /\ UNCHANGED <<paymentVars, vouched>>
    <3>1. TypeOK
      BY DEF CallsInv
    <3> QED BY <1>2, <1>3, <2>3, <3>1, EndedCall DEF paymentVars
  <2> QED BY <1>1, <1>2, <2>1, <2>2, <2>3 DEF Threw
<1>6. TypeOK'
  <2>1. place' \in [Orders -> {"open", "approved", "paid"}] /\ status' \in [Payments -> Statuses]
        /\ past' \in [Payments -> SUBSET Statuses] /\ vouched' \subseteq Orders
        /\ kind' \in [Calls -> {"none", "resolve", "cancel"}]
        /\ order' \in [Calls -> Orders \cup {"none"}]
        /\ disturbed' \subseteq Payments
    BY <1>1, <1>2, <1>5 DEF CallsInv, TypeOK
  <2> QED BY <1>4, <1>5, <2>1 DEF TypeOK
<1>7. \A d \in Calls : Active(d)' => Active(d)
  BY <1>2, <1>5 DEF Active
<1>8. Locked'
  BY <1>7 DEF CallsInv, Locked
<1>9. Paid(o)' /\ \A q \in Orders : Paid(q) => Paid(q)'
  BY <1>1, <1>2, <1>3, Facts DEF Paid
<1>10. ASSUME NEW d \in Calls PROVE SlotInv(d)'
  <2>1. SlotInv(d)
    BY DEF CallsInv
  <2>2. CASE d = c
    BY <1>1, <1>2, <1>5, <1>9, <2>1, <2>2 DEF SlotInv, Active, IsResolve
  <2>3. CASE d # c
    <3>1. pc'[d] = pc[d] /\ snap'[d] = snap[d] /\ answer'[d] = answer[d] /\ order'[d] = order[d]
          /\ kind'[d] = kind[d]
      BY <1>5, <2>3
    <3>2. answer[d] = "refused" /\ order[d] = o => Key[c] # Key[d]
      BY <1>2, <2>1, <2>3 DEF SlotInv, CallsInv, Locked
    <3>3. answer[d] = "refused" => order[d] \in Orders
      BY <2>1 DEF SlotInv
    <3>4. answer'[d] = "refused" => \/ chargedBy'[order'[d]] = "none"
                                    \/ Key[chargedBy'[order'[d]]] # Key[d]
      BY <1>3, <2>1, <3>1, <3>2, <3>3 DEF SlotInv
    <3> QED BY <1>1, <1>9, <2>1, <3>1, <3>4 DEF SlotInv, Active, IsResolve
  <2> QED BY <2>2, <2>3
<1>11. ASSUME NEW q \in Orders PROVE OrderInv(q)'
  BY <1>1, <1>2, <1>3, Facts DEF CallsInv, OrderInv
<1>12. /\ \A q \in Payments : q # p => Calm(q)'
       /\ \A q \in Orders : PaymentOf[q] # p => ChargeInv(q)'
  <2>1. \A q \in Orders : PaymentOf[q] # p =>
           chargedBy'[q] = chargedBy[q] /\ chargedAt'[q] = chargedAt[q]
    BY <1>2, <1>3
  <2>2. \A q \in Payments : q # p =>
           status'[q] = status[q] /\ (q \in disturbed => q \in disturbed')
    BY <1>5
  <2> QED BY <1>2, <1>5, <2>1, <2>2, OtherPayments
<1>13. Calm(p)'
  <2>1. SUFFICES ASSUME p \notin disturbed' PROVE Calm(p)'
    BY DEF Calm
  <2>2. p \notin disturbed /\ Calm(p)
    BY <1>2, <1>5, <2>1 DEF CallsInv
  <2>3. /\ \A d \in Calls : Active(d) /\ Payment(d) = p => d = c
        /\ pc[c] \in {"try", "write"} => snap[c] = status[p]
    BY <1>2, <2>2 DEF Calm
  <2>4. \A d \in Calls : Active(d)' /\ Payment(d)' = p => d = c
    BY <1>5, <1>7, <2>3 DEF Payment
  <2>5. pc'[c] \in {"try", "write"} => snap'[c] = status'[p]
    BY <1>1, <1>5, <2>3
  <2> QED BY <2>4, <2>5 DEF Calm
<1>14. ASSUME NEW q \in Orders, PaymentOf[q] = p PROVE ChargeInv(q)'
  <2>1. ChargeInv(q)
    BY DEF CallsInv
  <2>2. CASE q = o
    <3>1. /\ chargedBy'[o] = c /\ chargedAt'[o] = status'[p]
          /\ order'[c] = o /\ kind'[c] = "resolve"
          /\ pc'[c] \in {"try", "write"} \/ p \in disturbed'
      BY <1>1, <1>2, <1>3, <1>5
    <3> QED BY <1>2, <2>2, <3>1 DEF ChargeInv
  <2>3. CASE q # o
    BY <1>2, <1>3, <1>5, <1>14, <2>1, <2>3 DEF ChargeInv
  <2> QED BY <2>2, <2>3
<1>15. VouchedIsPaid'
  BY <1>5, <1>9 DEF CallsInv, VouchedIsPaid, TypeOK
<1> QED BY <1>6, <1>8, <1>10, <1>11, <1>12, <1>13, <1>14, <1>15 DEF CallsInv

----------------------------------------------------------------------------
(* The update, and a new call.                                             *)

\* The call writes s and ends.  If the payment is undisturbed and was pending, or
\* resolved, s is "resolved", or no order of it was charged for another call.
LEMMA CallsUpdate ==
  ASSUME CallsInv, NEW c \in Calls, pc[c] = "write", End(c),
         NEW s \in Statuses, WriteStatus(Payment(c), s),
         UNCHANGED <<providerVars, disturbed>>,
         vouched \subseteq vouched',
         \A o \in vouched' : o \in vouched \/ (o = order[c] /\ Paid(o)),
         \/ Payment(c) \in disturbed
         \/ s = "resolved"
         \/ snap[c] \in Final
         \/ snap[c] = "pending" /\ kind[c] = "cancel"
  PROVE  CallsInv'
<1>1. TypeOK /\ Active(c) /\ SlotInv(c)
  BY DEF CallsInv, Active
<1>2. PICK p \in Payments : p = Payment(c)
  BY <1>1, Facts DEF SlotInv, Payment
<1>3. /\ kind' = kind /\ order' = order
      /\ pc'[c] = "done" /\ snap'[c] = "none" /\ answer'[c] = "none"
      /\ \A d \in Calls \ {c} : pc'[d] = pc[d] /\ snap'[d] = snap[d] /\ answer'[d] = answer[d]
  BY <1>1, EndedCall
<1>4. /\ status' = [status EXCEPT ![p] = s]
      /\ past' = [past EXCEPT ![p] = @ \cup {s}]
  BY <1>2 DEF WriteStatus
<1>5. TypeOK'
  <2>1. status' \in [Payments -> Statuses] /\ past' \in [Payments -> SUBSET Statuses]
    BY <1>1, <1>4 DEF TypeOK
  <2>2. vouched' \subseteq Orders
    BY <1>1 DEF TypeOK, SlotInv
  <2> QED BY <1>1, <1>3, <2>1, <2>2, EndedCall DEF TypeOK, providerVars
<1>6. /\ Locked'
      /\ \A d \in Calls \ {c} : SlotInv(d)'
      /\ \A o \in Orders : OrderInv(o)'
  BY <1>1, <1>3, <1>5, Others
<1>7. SlotInv(c)'
  BY <1>3 DEF SlotInv, Active
<1>8. status'[p] = s /\ \A q \in Payments : q # p => status'[q] = status[q]
  BY <1>1, <1>4 DEF TypeOK
<1>9. /\ \A q \in Payments : q # p => Calm(q)'
      /\ \A o \in Orders : PaymentOf[o] # p => ChargeInv(o)'
  BY <1>1, <1>2, <1>3, <1>8, OtherPayments DEF providerVars
<1>10. p \notin disturbed => /\ snap[c] = status[p]
                             /\ \A d \in Calls : Active(d) /\ Payment(d) = p => d = c
  BY <1>1, <1>2 DEF CallsInv, Calm
<1>11. Calm(p)'
  <2>1. p \notin disturbed => \A d \in Calls : ~(Active(d)' /\ Payment(d)' = p)
    BY <1>3, <1>10 DEF Active, Payment
  <2> QED BY <2>1 DEF Calm
<1>12. ASSUME NEW o \in Orders, PaymentOf[o] = p PROVE ChargeInv(o)'
  <2>1. ChargeInv(o) /\ UNCHANGED <<chargedBy, chargedAt, disturbed>>
    BY DEF CallsInv, providerVars
  <2>2. SUFFICES ASSUME chargedAt[o] = "pending", p \notin disturbed PROVE s = "resolved"
    BY <1>8, <1>12, <2>1 DEF ChargeInv
  <2>3. CASE status[p] = "resolved"
    BY <1>2, <1>10, <2>2, <2>3 DEF Final
  <2>4. CASE /\ status[p] = "pending"
             /\ chargedBy[o] \in Calls /\ order[chargedBy[o]] = o
             /\ pc[chargedBy[o]] \in {"try", "write"} /\ kind[chargedBy[o]] = "resolve"
    <3>1. chargedBy[o] = c
      BY <1>10, <1>12, <2>2, <2>4 DEF Active, Payment
    <3> QED BY <1>2, <1>10, <2>2, <2>4, <3>1 DEF Final
  <2> QED BY <1>12, <2>1, <2>2, <2>3, <2>4 DEF ChargeInv
<1>13. VouchedIsPaid'
  BY <1>1 DEF CallsInv, VouchedIsPaid, Paid, providerVars
<1> QED BY <1>5, <1>6, <1>7, <1>9, <1>11, <1>12, <1>13 DEF CallsInv

LEMMA CallsBegin ==
  ASSUME CallsInv, NEW c \in Calls, NEW kd \in {"resolve", "cancel"}, NEW o \in Orders,
         Begin(c, kd, o)
  PROVE  CallsInv'
<1>1. /\ pc[c] = "idle"
      /\ \A d \in Calls : Active(d) => Key[d] # Key[c]
      /\ kd = "resolve" /\ Provider[o] = "razorpay" => place[o] = "paid"
      /\ disturbed' = IF InProgress(PaymentOf[o]) = {} THEN disturbed
                                                       ELSE disturbed \cup {PaymentOf[o]}
      /\ UNCHANGED <<providerVars, paymentVars, snap, tries, answer, vouched>>
  BY DEF Begin
<1>2. /\ pc' = [pc EXCEPT ![c] = "find"]
      /\ kind' = [kind EXCEPT ![c] = kd]
      /\ order' = [order EXCEPT ![c] = o]
  BY DEF Begin
<1>3. PaymentOf[o] \in Payments
  BY Facts
<1>4. TypeOK'
  BY <1>1, <1>2, <1>3 DEF CallsInv, TypeOK, providerVars, paymentVars
<1>5. /\ pc'[c] = "find" /\ kind'[c] = kd /\ order'[c] = o
      /\ \A d \in Calls \ {c} : pc'[d] = pc[d] /\ kind'[d] = kind[d] /\ order'[d] = order[d]
  BY <1>2 DEF CallsInv, TypeOK
<1>6. /\ Active(c)' /\ ~Active(c)
      /\ \A d \in Calls \ {c} : (Active(d)' <=> Active(d)) /\ Payment(d)' = Payment(d)
  BY <1>1, <1>5 DEF Active, Payment
<1>7. Locked'
  BY <1>1, <1>6 DEF CallsInv, Locked
<1>8. ASSUME NEW d \in Calls PROVE SlotInv(d)'
  <2>1. SlotInv(d)
    BY DEF CallsInv
  <2>2. CASE d = c
    <3>1. answer'[c] = "none" /\ pc'[c] = "find" /\ order'[c] = o /\ kind'[c] = kd
      BY <1>1, <1>5, <1>6, <2>1, <2>2 DEF SlotInv
    <3>2. IsResolve(c, "razorpay")' => place'[o] = "paid"
      BY <1>1, <3>1 DEF IsResolve, providerVars
    <3> QED BY <2>2, <3>1, <3>2 DEF SlotInv
  <2>3. CASE d # c
    BY <1>1, <1>5, <1>6, <2>1, <2>3 DEF SlotInv, IsResolve, Paid, providerVars
  <2> QED BY <2>2, <2>3
<1>9. /\ VouchedIsPaid'
      /\ \A q \in Orders : OrderInv(q)'
  BY <1>1 DEF CallsInv, VouchedIsPaid, Paid, OrderInv, providerVars
<1>10. disturbed \subseteq disturbed' /\ status' = status
  BY <1>1 DEF paymentVars
<1>11. ASSUME NEW p \in Payments PROVE Calm(p)'
  <2>1. SUFFICES ASSUME p \notin disturbed' PROVE Calm(p)'
    BY DEF Calm
  <2>2. p \notin disturbed /\ Calm(p)
    BY <1>10, <2>1 DEF CallsInv
  <2>3. CASE p = PaymentOf[o]
    <3>1. \A d \in Calls : ~(Active(d) /\ Payment(d) = p)
      BY <1>1, <2>1, <2>3 DEF InProgress
    <3>2. \A d \in Calls : Active(d)' /\ Payment(d)' = p => d = c
      BY <1>6, <3>1
    <3> QED BY <1>5, <3>2 DEF Calm
  <2>4. CASE p # PaymentOf[o]
    <3>1. Payment(c)' # p
      BY <1>5, <2>4 DEF Payment
    <3>2. \A d \in Calls : Active(d)' /\ Payment(d)' = p =>
             /\ d # c /\ Active(d) /\ Payment(d) = p
             /\ pc'[d] = pc[d] /\ snap'[d] = snap[d] /\ status'[p] = status[p]
      BY <1>1, <1>5, <1>6, <1>10, <3>1
    <3> QED BY <2>2, <3>2 DEF Calm
  <2> QED BY <2>3, <2>4
<1>12. ASSUME NEW q \in Orders PROVE ChargeInv(q)'
  <2>1. ChargeInv(q) /\ UNCHANGED <<chargedBy, chargedAt, status>>
    BY <1>1 DEF CallsInv, providerVars, paymentVars
  <2>2. chargedBy[q] \in Calls /\ pc[chargedBy[q]] \in {"try", "write"} => chargedBy[q] \in Calls \ {c}
    BY <1>1
  <2> QED BY <1>5, <1>10, <2>1, <2>2 DEF ChargeInv
<1> QED BY <1>4, <1>7, <1>8, <1>9, <1>11, <1>12 DEF CallsInv

----------------------------------------------------------------------------
(* Every step.                                                             *)

LEMMA CallsResolve ==
  ASSUME CallsInv, NEW c \in Calls, Resolve(c)
  PROVE  CallsInv'
<1>1. /\ pc[c] = "write" /\ kind[c] = "resolve" /\ snap[c] # "resolved"
      /\ WriteStatus(Payment(c), IF snap[c] \in Final THEN snap[c] ELSE "resolved")
      /\ vouched' = IF IsVerified(c) THEN vouched \cup {order[c]} ELSE vouched
      /\ End(c) /\ UNCHANGED <<providerVars, disturbed>>
  BY DEF Resolve
<1>2. IsVerified(c) => Paid(order[c])
  BY <1>1 DEF CallsInv, SlotInv, IsVerified
<1>3. vouched \subseteq vouched' /\ \A o \in vouched' : o \in vouched \/ (o = order[c] /\ Paid(o))
  BY <1>1, <1>2
<1>4. CASE snap[c] \in Final
  <2>1. snap[c] \in Statuses
    BY <1>4 DEF Final, Statuses
  <2> QED BY <1>1, <1>3, <1>4, <2>1, CallsUpdate
<1>5. CASE snap[c] \notin Final
  <2>1. "resolved" \in Statuses
    BY DEF Statuses
  <2> QED BY <1>1, <1>3, <1>5, <2>1, CallsUpdate
<1> QED BY <1>4, <1>5

LEMMA CallsCancel ==
  ASSUME CallsInv, NEW c \in Calls, Cancel(c)
  PROVE  CallsInv'
<1>1. /\ pc[c] = "write" /\ kind[c] = "cancel" /\ WriteStatus(Payment(c), "cancelled")
      /\ End(c) /\ UNCHANGED <<providerVars, disturbed>> /\ vouched' = vouched
  BY DEF Cancel
<1>2. snap[c] = "pending" /\ "cancelled" \in Statuses
  BY <1>1 DEF CallsInv, SlotInv, Statuses
<1> QED BY <1>1, <1>2, CallsUpdate

LEMMA CallsAttempts ==
  ASSUME CallsInv, NEW c \in Calls,
         \/ RepeatCapture(c) \/ RefuseCapture(c) \/ PayerActionRequired(c)
         \/ VerifySignature(c) \/ CancelUnasked(c) \/ FailAttempt(c)
  PROVE  CallsInv'
<1>1. pc[c] = "try" /\ UNCHANGED providerVars
  BY DEF RepeatCapture, RefuseCapture, PayerActionRequired, VerifySignature, CancelUnasked, FailAttempt
<1>2. SlotInv(c) /\ Active(c) /\ order[c] \in Orders
  BY <1>1 DEF CallsInv, SlotInv, Active
<1>3. CASE RepeatCapture(c)
  <2>1. Paid(order[c]) /\ Answered(c, "completed")
    BY <1>3, Facts DEF RepeatCapture, RequestId, Paid
  <2> QED BY <1>1, <2>1, CallsAnswered
<1>4. CASE RefuseCapture(c)
  <2>1. \/ chargedBy[order[c]] = "none"
        \/ Key[chargedBy[order[c]]] # Key[c]
    <3>1. OrderInv(order[c])
      BY <1>2 DEF CallsInv
    <3>2. place[order[c]] = "open" \/ captor[order[c]] \notin {"none", Key[c]}
      BY <1>4 DEF RefuseCapture, RequestId
    <3> QED BY <3>1, <3>2 DEF OrderInv
  <2>2. Threw(c, "refused")
    BY <1>4 DEF RefuseCapture
  <2> QED BY <1>1, <2>1, <2>2, CallsThrew
<1>5. CASE PayerActionRequired(c)
  <2>1. Answered(c, "incomplete")
    BY <1>5 DEF PayerActionRequired
  <2> QED BY <1>1, <2>1, CallsAnswered
<1>6. CASE VerifySignature(c)
  <2>1. Paid(order[c])
    BY <1>2, <1>6 DEF VerifySignature, SlotInv, Paid
  <2>2. Answered(c, "completed") \/ Answered(c, "incomplete")
    BY <1>6 DEF VerifySignature
  <2> QED BY <1>1, <2>1, <2>2, CallsAnswered
<1>7. CASE CancelUnasked(c)
  <2>1. Answered(c, "cancelled")
    BY <1>7 DEF CancelUnasked
  <2> QED BY <1>1, <2>1, CallsAnswered
<1>8. CASE FailAttempt(c)
  <2>1. Threw(c, "lost")
    BY <1>8 DEF FailAttempt
  <2> QED BY <1>1, <2>1, CallsThrew
<1> QED BY <1>3, <1>4, <1>5, <1>6, <1>7, <1>8

LEMMA CallsGivenUp ==
  ASSUME CallsInv, NEW c \in Calls, RefuseCancel(c) \/ RefuseResolved(c) \/ Break(c)
  PROVE  CallsInv'
<1>1. /\ Active(c) /\ End(c) /\ UNCHANGED <<providerVars, paymentVars, vouched>>
  BY DEF RefuseCancel, RefuseResolved, Break, Active
<1>2. CASE RefuseCancel(c)
  <2>1. pc[c] = "find" /\ disturbed' = disturbed
    BY <1>2 DEF RefuseCancel
  <2> QED BY <1>1, <2>1, CallsEnded
<1>3. CASE RefuseResolved(c)
  <2>1. pc[c] = "write" /\ kind[c] = "resolve" /\ snap[c] = "resolved" /\ disturbed' = disturbed
    BY <1>3 DEF RefuseResolved
  <2>2. Payment(c) \in Payments
    BY <1>1, Facts DEF CallsInv, SlotInv, Payment
  <2>3. Payment(c) \in disturbed \/ status[Payment(c)] = "resolved"
    BY <1>1, <2>1, <2>2 DEF CallsInv, Calm
  <2> QED BY <1>1, <2>1, <2>3, CallsEnded
<1>4. CASE Break(c)
  <2>1. disturbed' = disturbed \cup {Payment(c)}
    BY <1>4 DEF Break
  <2> QED BY <1>1, <2>1, CallsEnded
<1> QED BY <1>2, <1>3, <1>4

LEMMA CallsStutter == CallsInv /\ UNCHANGED vars => CallsInv'
<1> SUFFICES ASSUME CallsInv, UNCHANGED vars PROVE CallsInv'
  OBVIOUS
<1>1. UNCHANGED <<place, captor, chargedBy, chargedAt, status, past, pc, kind, order, snap, tries,
                  answer, vouched, disturbed>>
  BY DEF vars, providerVars, paymentVars
<1>2. TypeOK' /\ VouchedIsPaid' /\ Locked' /\ \A c \in Calls : SlotInv(c)'
  BY <1>1 DEF CallsInv, TypeOK, VouchedIsPaid, Paid, Locked, Active, SlotInv, IsResolve
<1>3. (\A p \in Payments : Calm(p)') /\ \A o \in Orders : OrderInv(o)' /\ ChargeInv(o)'
  BY <1>1 DEF CallsInv, Calm, Active, Payment, OrderInv, ChargeInv
<1> QED BY <1>2, <1>3 DEF CallsInv

LEMMA CallsInductive == CallsInv /\ [Next]_vars => CallsInv'
<1> SUFFICES ASSUME CallsInv, [Next]_vars PROVE CallsInv'
  OBVIOUS
<1>1. CASE \E o \in Orders : CustomerPays(o)
  BY <1>1, CallsCustomer
<1>2. CASE \E p \in Payments : Expire(p)
  BY <1>2, CallsExpire
<1>3. ASSUME NEW c \in Calls, Step(c) PROVE CallsInv'
  BY <1>3, CallsFind, CallsCapture, CallsAttempts, CallsResolve, CallsCancel, CallsGivenUp DEF Step
<1>4. CASE \E c \in Calls, kd \in {"resolve", "cancel"}, o \in Orders : Begin(c, kd, o)
  BY <1>4, CallsBegin
<1>5. CASE UNCHANGED vars
  BY <1>5, CallsStutter
<1> QED BY <1>1, <1>2, <1>3, <1>4, <1>5 DEF Next

THEOREM CallsInvariant == Spec => []CallsInv
BY CallsInit, CallsInductive, PTL DEF Spec

----------------------------------------------------------------------------
(* The properties.                                                         *)

\* The variables of resolve and cancel keep their types.
THEOREM CallsTypes == Spec => []TypeOK
<1>1. CallsInv => TypeOK
  BY DEF CallsInv
<1> QED BY <1>1, CallsInvariant, PTL

\* isResolved in the reply to a resolve is never said of an order that is not paid.
THEOREM VouchedPaid == Spec => []VouchedIsPaid
<1>1. CallsInv => VouchedIsPaid
  BY DEF CallsInv
<1> QED BY <1>1, CallsInvariant, PTL

\* PayPal never refuses a resolve for a capture it has made under the same key.
THEOREM OwnCaptureRepeated == Spec => []OwnCaptureIsRepeated
<1>1. CallsInv => OwnCaptureIsRepeated
  BY DEF CallsInv, SlotInv, OwnCaptureIsRepeated
<1> QED BY <1>1, CallsInvariant, PTL

\* A customer PayPal charges while the payment is PENDING has it RESOLVED, when
\* nothing disturbed the payment and no call is left on it.
THEOREM ChargedResolved == Spec => []ChargedIsResolved
<1>1. CallsInv => ChargedIsResolved
  <2> SUFFICES ASSUME CallsInv, NEW o \in Orders, chargedAt[o] = "pending",
                      InProgress(PaymentOf[o]) = {}, PaymentOf[o] \notin disturbed
               PROVE  status[PaymentOf[o]] = "resolved"
    BY DEF ChargedIsResolved
  <2>1. ChargeInv(o)
    BY DEF CallsInv
  <2> QED BY <2>1 DEF ChargeInv, InProgress, Active, Payment
<1> QED BY <1>1, CallsInvariant, PTL
===============================================================================
