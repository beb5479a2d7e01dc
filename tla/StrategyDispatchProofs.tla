------------------------ MODULE StrategyDispatchProofs ------------------------
(***************************************************************************)
(* Theorems about StrategyDispatch for any number of creates and any mix   *)
(* of currencies.  DispatchInv says of an attempt that is under way what   *)
(* the properties say of the order it may get, and that whatever strategy  *)
(* is set, some request has selected it.                                   *)
(***************************************************************************)
EXTENDS StrategyDispatch, TLAPS

Selected(p) == \E r \in Requests : want[r] = p

Trying(r) == pc[r] \in {"asking", "answered", "waiting"}
Asking(r) == pc[r] \in {"asking", "answered"}

\* A request that is between its first attempt and its end: it has selected a
\* strategy other than Stripe's, and its Money is renamed only if someone has
\* selected Stripe.
TryingIsFounded(r) ==
  Trying(r) =>
     /\ want[r] \in Providers \ {"stripe"}
     /\ money[r] \in AllCurrencies
     /\ money[r] # priced[r] => Selected("stripe")
     /\ tries[r] >= 1
     /\ pc[r] = "waiting" => tries[r] < MaxTries

\* Its attempt under way: the first one is its own, and every one is with a
\* provider that some request has selected.
AskingIsFounded(r) ==
  Asking(r) =>
     /\ asked[r] \in Providers /\ Selected(asked[r])
     /\ tries[r] = 1 => asked[r] = want[r] /\ money[r] = priced[r]

StrategyIsFounded ==
  /\ strategy # "none" => Selected(strategy)
  /\ \A r \in Requests : Active(r) => strategy # "none"

OrderIsFounded(o) ==
  /\ pc[o.request] # "idle" /\ want[o.request] \in Providers \ {"stripe"}
  /\ o.attempt = 1 => o.provider = want[o.request] /\ o.currency = priced[o.request]
  /\ Selected(o.provider)
  /\ o.currency # priced[o.request] => Selected("stripe")

DispatchInv ==
  /\ TypeOK
  /\ StrategyIsFounded
  /\ \A r \in Requests :
        /\ pc[r] = "idle" => want[r] = "none"
        /\ TryingIsFounded(r) /\ AskingIsFounded(r)
  /\ \A o \in orders : OrderIsFounded(o)

\* The literals of the steps' domains.
LEMMA Literals ==
  /\ "none" \notin Providers /\ "stripe" \in Providers
  /\ "USD" \in AllCurrencies /\ Currencies \subseteq AllCurrencies
  /\ MaxTries = 3
BY CurrenciesAssumption DEF Providers, AllCurrencies, MaxTries

\* No request is there yet.
LEMMA DispatchInit == Init => DispatchInv
BY Literals DEF Init, DispatchInv, TypeOK, StrategyIsFounded, TryingIsFounded, AskingIsFounded,
                Trying, Asking, Active, Steps

\* What a request has selected stays: want and priced change only when an idle
\* request selects.
WantsStay(r) ==
  \A q \in Requests \ {r} : want'[q] = want[q] /\ priced'[q] = priced[q]

OthersStay(r) ==
  \A q \in Requests \ {r} :
     /\ pc'[q] = pc[q] /\ money'[q] = money[q] /\ asked'[q] = asked[q] /\ tries'[q] = tries[q]

\* A provider that was selected stays so.
LEMMA SelectedStays ==
  ASSUME DispatchInv, NEW r \in Requests, WantsStay(r),
         want'[r] = want[r] \/ pc[r] = "idle",
         NEW p \in Providers, Selected(p)
  PROVE  Selected(p)'
<1> PICK q \in Requests : want[q] = p
  BY DEF Selected
<1>1. CASE q = r
  BY <1>1, Literals DEF DispatchInv, Selected
<1>2. CASE q # r
  BY <1>2 DEF WantsStay, Selected
<1> QED BY <1>1, <1>2

\* A step of r keeps what is known of the other requests and of the orders.
LEMMA OthersFounded ==
  ASSUME DispatchInv, NEW r \in Requests, WantsStay(r), OthersStay(r),
         pc[r] = "idle" \/ (want'[r] = want[r] /\ priced'[r] = priced[r] /\ pc'[r] # "idle"),
         want'[r] = want[r] \/ pc[r] = "idle"
  PROVE  /\ \A q \in Requests \ {r} :
              /\ pc'[q] = "idle" => want'[q] = "none"
              /\ TryingIsFounded(q)' /\ AskingIsFounded(q)'
         /\ \A o \in orders : OrderIsFounded(o)'
<1>s. "stripe" \in Providers
  BY Literals
<1>1. ASSUME NEW q \in Requests \ {r}
      PROVE  /\ pc'[q] = "idle" => want'[q] = "none"
             /\ TryingIsFounded(q)' /\ AskingIsFounded(q)'
  <2>1. /\ pc'[q] = pc[q] /\ money'[q] = money[q] /\ asked'[q] = asked[q] /\ tries'[q] = tries[q]
        /\ want'[q] = want[q] /\ priced'[q] = priced[q]
    BY DEF WantsStay, OthersStay
  <2>2. /\ pc[q] = "idle" => want[q] = "none"
        /\ TryingIsFounded(q) /\ AskingIsFounded(q)
    BY DEF DispatchInv
  <2>3. TryingIsFounded(q)'
    BY <1>s, <2>1, <2>2, SelectedStays DEF TryingIsFounded, Trying
  <2>4. AskingIsFounded(q)'
    BY <2>1, <2>2, SelectedStays DEF AskingIsFounded, Asking
  <2> QED BY <2>1, <2>2, <2>3, <2>4
<1>2. ASSUME NEW o \in orders PROVE OrderIsFounded(o)'
  <2>1. OrderIsFounded(o) /\ o.request \in Requests /\ o.provider \in Providers
    BY DEF DispatchInv, TypeOK, Order
  <2>2. /\ pc'[o.request] # "idle" /\ want'[o.request] = want[o.request]
        /\ priced'[o.request] = priced[o.request]
    BY <2>1 DEF OrderIsFounded, WantsStay, OthersStay
  <2>3. Selected(o.provider)'
    BY <2>1, SelectedStays DEF OrderIsFounded
  <2>4. Selected("stripe") => Selected("stripe")'
    BY <1>s, SelectedStays
  <2> QED BY <2>1, <2>2, <2>3, <2>4 DEF OrderIsFounded
<1> QED BY <1>1, <1>2

\* The turn in which a request selects its strategy, whatever comes of it.
LEMMA DispatchBegin ==
  ASSUME DispatchInv, NEW r \in Requests, Begin(r)
  PROVE  DispatchInv'
<1> PICK c \in Currencies :
      \/ RefuseStripe(r, c)
      \/ \E p \in Providers : StartConversion(r, p, c) \/ RefuseTotal(r, p, c) \/ FirstAttempt(r, p, c)
  BY DEF Begin
<1>1. PICK p \in Providers : /\ Select(r, p, c)
                             /\ \/ Refuse(r)
                                \/ Goto(r, "convert") /\ UNCHANGED <<money, asked, tries>>
                                \/ p # "stripe" /\ FirstAttempt(r, p, c)
  BY Literals DEF RefuseStripe, StartConversion, RefuseTotal, FirstAttempt
<1>2. c \in AllCurrencies
  BY Literals
<1>3. /\ pc[r] = "idle" /\ strategy' = p /\ UNCHANGED <<orders, recorded>>
      /\ want' = [want EXCEPT ![r] = p] /\ priced' = [priced EXCEPT ![r] = c]
  BY <1>1 DEF Select
<1>4. /\ WantsStay(r) /\ OthersStay(r) /\ want'[r] = p /\ priced'[r] = c
      /\ \/ pc'[r] \in {"done", "convert"}
         \/ /\ p # "stripe" /\ pc'[r] = "asking" /\ money'[r] = c /\ asked'[r] = p /\ tries'[r] = 1
  BY <1>1, <1>3 DEF WantsStay, OthersStay, Refuse, FirstAttempt, Goto, DispatchInv, TypeOK
<1>5. TypeOK'
  BY <1>1, <1>2, <1>3, Literals DEF Refuse, FirstAttempt, Goto, DispatchInv, TypeOK, Steps
<1>6. Selected(p)'
  BY <1>4 DEF Selected
<1>7. StrategyIsFounded'
  BY <1>3, <1>6, Literals DEF StrategyIsFounded
<1>8. /\ pc'[r] # "idle"
      /\ TryingIsFounded(r)' /\ AskingIsFounded(r)'
  <2>1. TryingIsFounded(r)'
    BY <1>2, <1>4, Literals DEF TryingIsFounded, Trying
  <2>2. AskingIsFounded(r)'
    BY <1>4, <1>6 DEF AskingIsFounded, Asking
  <2> QED BY <1>4, <2>1, <2>2
<1> QED BY <1>3, <1>4, <1>5, <1>7, <1>8, OthersFounded DEF DispatchInv

\* What an attempt gets is founded as the attempt is.
LEMMA OrderOfFounded ==
  ASSUME DispatchInv, NEW r \in Requests, Asking(r)
  PROVE  OrderOf(r) \in Order /\ OrderIsFounded(OrderOf(r)) /\ want[r] \in Providers
<1>1. /\ pc[r] # "idle" /\ want[r] \in Providers \ {"stripe"} /\ money[r] \in AllCurrencies
      /\ asked[r] \in Providers /\ Selected(asked[r])
      /\ money[r] # priced[r] => Selected("stripe")
      /\ tries[r] = 1 => asked[r] = want[r] /\ money[r] = priced[r]
  BY DEF DispatchInv, TryingIsFounded, AskingIsFounded, Trying, Asking
<1>2. tries[r] \in 1..MaxTries
  BY Literals DEF DispatchInv, TypeOK, TryingIsFounded, Trying, Asking
<1> QED BY <1>1, <1>2 DEF OrderOf, Order, OrderIsFounded

\* A request that ends, possibly with one more order.
LEMMA DispatchEnd ==
  ASSUME DispatchInv, NEW r \in Requests, Active(r), End(r),
         orders' = orders \/ (Asking(r) /\ orders' = orders \cup {OrderOf(r)}),
         recorded' \subseteq [provider: Providers, order: Order]
  PROVE  DispatchInv'
<1>1. /\ WantsStay(r) /\ OthersStay(r) /\ pc'[r] = "done" /\ UNCHANGED <<strategy, want, priced>>
  BY DEF End, Goto, WantsStay, OthersStay, DispatchInv, TypeOK
<1>2. TypeOK'
  BY <1>1, OrderOfFounded, Literals DEF End, Goto, DispatchInv, TypeOK, Steps
<1>3. StrategyIsFounded'
  BY <1>1 DEF StrategyIsFounded, DispatchInv, Active, OthersStay, Selected
<1>4. ASSUME NEW o \in orders' PROVE OrderIsFounded(o)'
  <2>1. CASE o \in orders
    BY <1>1, <2>1, OthersFounded
  <2>2. CASE o \notin orders
    <3>1. o = OrderOf(r) /\ OrderIsFounded(o) /\ o.request = r
      BY <2>2, OrderOfFounded DEF OrderOf
    <3> QED BY <1>1, <3>1 DEF OrderIsFounded, Selected
  <2> QED BY <2>1, <2>2
<1>5. TryingIsFounded(r)' /\ AskingIsFounded(r)'
  BY <1>1 DEF TryingIsFounded, AskingIsFounded, Trying, Asking
<1> QED BY <1>1, <1>2, <1>3, <1>4, <1>5, OthersFounded DEF DispatchInv

\* The awaits of a request.
LEMMA DispatchProceed ==
  ASSUME DispatchInv, NEW r \in Requests, Proceed(r)
  PROVE  DispatchInv'
<1>0. recorded \subseteq [provider: Providers, order: Order]
  BY DEF DispatchInv, TypeOK
<1>1. CASE FailConversion(r)
  BY <1>0, <1>1, DispatchEnd DEF FailConversion, Active
<1>2. CASE MakeOrder(r)
  <2>1. /\ WantsStay(r) /\ OthersStay(r) /\ pc[r] = "asking" /\ pc'[r] = "answered"
        /\ UNCHANGED <<strategy, want, priced, money, asked, tries, recorded>>
    BY <1>2 DEF MakeOrder, Move, Goto, WantsStay, OthersStay, DispatchInv, TypeOK
  <2>2. OrderOf(r) \in Order /\ OrderIsFounded(OrderOf(r)) /\ OrderOf(r).request = r
    BY <2>1, OrderOfFounded DEF Asking, OrderOf
  <2>3. TypeOK'
    BY <1>2, <2>2 DEF MakeOrder, Move, Goto, DispatchInv, TypeOK, Steps
  <2>4. StrategyIsFounded'
    BY <2>1 DEF StrategyIsFounded, DispatchInv, Active, OthersStay, Selected
  <2>5. ASSUME NEW o \in orders' PROVE OrderIsFounded(o)'
    <3>1. CASE o \in orders
      BY <2>1, <3>1, OthersFounded
    <3>2. CASE o = OrderOf(r)
      BY <2>1, <2>2, <3>2 DEF OrderIsFounded, Selected
    <3> QED BY <1>2, <3>1, <3>2 DEF MakeOrder
  <2>6. TryingIsFounded(r)' /\ AskingIsFounded(r)'
    BY <2>1 DEF DispatchInv, TryingIsFounded, AskingIsFounded, Trying, Asking, Selected
  <2> QED BY <2>1, <2>3, <2>4, <2>5, <2>6, OthersFounded DEF DispatchInv
<1>3. CASE Record(r)
  <2>1. recorded' \subseteq [provider: Providers, order: Order]
    BY <1>0, <1>3, OrderOfFounded DEF Record, Asking
  <2> QED BY <1>3, <2>1, DispatchEnd DEF Record, Active
<1>4. CASE RefuseRecord(r)
  BY <1>0, <1>4, DispatchEnd DEF RefuseRecord, Active
<1>5. CASE FailAttempt(r)
  <2>1. CASE Exhausted(r)
    BY <1>0, <1>5, <2>1, DispatchEnd DEF FailAttempt, Active
  <2>2. CASE ~Exhausted(r)
    <3>1. /\ WantsStay(r) /\ OthersStay(r) /\ Asking(r) /\ pc'[r] = "waiting"
          /\ UNCHANGED <<strategy, want, priced, money, asked, tries, orders, recorded>>
      BY <1>5, <2>2 DEF FailAttempt, Move, Goto, Asking, WantsStay, OthersStay, DispatchInv, TypeOK
    <3>2. tries[r] < MaxTries
      BY <2>2, Literals DEF Exhausted, DispatchInv, TypeOK
    <3>3. TypeOK'
      BY <1>5, <2>2, <3>1 DEF FailAttempt, Move, Goto, DispatchInv, TypeOK, Steps
    <3>4. StrategyIsFounded'
      BY <3>1 DEF StrategyIsFounded, DispatchInv, Active, Asking, OthersStay, Selected
    <3>5. TryingIsFounded(r)' /\ AskingIsFounded(r)'
      BY <3>1, <3>2 DEF DispatchInv, TryingIsFounded, AskingIsFounded, Trying, Asking, Selected
    <3> QED BY <3>1, <3>3, <3>4, <3>5, OthersFounded DEF DispatchInv, Asking
  <2> QED BY <2>1, <2>2
<1>6. CASE Retry(r)
  <2>1. /\ pc[r] = "waiting" /\ pc'[r] = "asking" /\ WantsStay(r) /\ OthersStay(r)
        /\ asked'[r] = strategy /\ money'[r] = Renamed(strategy, money[r])
        /\ tries'[r] = tries[r] + 1
        /\ UNCHANGED <<strategy, want, priced, orders, recorded>>
    BY <1>6 DEF Retry, Goto, WantsStay, OthersStay, DispatchInv, TypeOK
  <2>2. /\ strategy \in Providers /\ Selected(strategy)
        /\ tries[r] \in 1..2 /\ TryingIsFounded(r) /\ money[r] \in AllCurrencies
    BY <2>1, Literals DEF DispatchInv, TypeOK, StrategyIsFounded, Active, TryingIsFounded, Trying
  <2>3. /\ money'[r] \in AllCurrencies
        /\ money'[r] # money[r] => strategy = "stripe"
    BY <2>1, <2>2, Literals DEF Renamed
  <2>4. TypeOK'
    <3>1. money' \in [Requests -> AllCurrencies \cup {"none"}]
      BY <1>6, <2>1, <2>3 DEF Retry, DispatchInv, TypeOK
    <3>2. tries' \in [Requests -> 0..MaxTries]
      BY <1>6, <2>2, Literals DEF Retry, DispatchInv, TypeOK
    <3> QED BY <1>6, <2>2, <3>1, <3>2 DEF Retry, Goto, DispatchInv, TypeOK, Steps
  <2>5. StrategyIsFounded'
    BY <2>1 DEF StrategyIsFounded, DispatchInv, Active, OthersStay, Selected
  <2>6. TryingIsFounded(r)'
    BY <2>1, <2>2, <2>3 DEF TryingIsFounded, Trying, Selected
  <2>7. AskingIsFounded(r)'
    BY <2>1, <2>2 DEF AskingIsFounded, Asking, Selected
  <2> QED BY <2>1, <2>4, <2>5, <2>6, <2>7, OthersFounded DEF DispatchInv
<1>7. CASE GiveUp(r)
  BY <1>0, <1>7, DispatchEnd DEF GiveUp, Active, Asking
<1> QED BY <1>1, <1>2, <1>3, <1>4, <1>5, <1>6, <1>7 DEF Proceed

\* A restart ends every request and leaves their orders.
LEMMA DispatchRestart ==
  ASSUME DispatchInv, Restart
  PROVE  DispatchInv'
<1>1. \A r \in Requests : pc'[r] \in {"idle", "done"} /\ (pc'[r] = "idle" <=> pc[r] = "idle")
  BY DEF Restart, Active
<1>2. TypeOK'
  BY DEF Restart, DispatchInv, TypeOK, Steps, MaxTries
<1>3. StrategyIsFounded'
  BY <1>1 DEF Restart, StrategyIsFounded, Active
<1>4. ASSUME NEW o \in orders PROVE OrderIsFounded(o)'
  <2>1. o.request \in Requests /\ OrderIsFounded(o)
    BY DEF DispatchInv, TypeOK, Order
  <2> QED BY <1>1, <2>1 DEF Restart, OrderIsFounded, Selected
<1>5. \A r \in Requests : /\ pc'[r] = "idle" => want'[r] = "none"
                          /\ TryingIsFounded(r)' /\ AskingIsFounded(r)'
  BY <1>1 DEF Restart, DispatchInv, TryingIsFounded, AskingIsFounded, Trying, Asking
<1> QED BY <1>2, <1>3, <1>4, <1>5 DEF DispatchInv, Restart

\* Every step keeps the invariant.
LEMMA DispatchNext == DispatchInv /\ [Next]_vars => DispatchInv'
<1> SUFFICES ASSUME DispatchInv, [Next]_vars PROVE DispatchInv'
  OBVIOUS
<1>1. ASSUME NEW r \in Requests, Begin(r) \/ Proceed(r) PROVE DispatchInv'
  BY <1>1, DispatchBegin, DispatchProceed
<1>2. CASE Restart
  BY <1>2, DispatchRestart
<1>3. CASE UNCHANGED vars
  BY <1>3 DEF vars, request, DispatchInv, TypeOK, StrategyIsFounded, TryingIsFounded,
              AskingIsFounded, OrderIsFounded, Trying, Asking, Active, Selected
<1> QED BY <1>1, <1>2, <1>3 DEF Next

\* The invariant holds in every behaviour of the creates.
THEOREM DispatchHolds == Spec => []DispatchInv
BY DispatchInit, DispatchNext, PTL DEF Spec

\* Every variable keeps its type, and no create makes a fourth attempt.
THEOREM DispatchTypes == Spec => []TypeOK
<1>1. DispatchInv => TypeOK
  BY DEF DispatchInv
<1> QED BY <1>1, DispatchHolds, PTL

\* The first attempt of a create goes to its own provider, in its own currency,
\* whatever the others select meanwhile.
THEOREM FirstAttemptsAreOwn == Spec => []FirstAttemptIsOwn
<1>1. DispatchInv => FirstAttemptIsOwn
  BY DEF DispatchInv, OrderIsFounded, FirstAttemptIsOwn
<1> QED BY <1>1, DispatchHolds, PTL

\* A misdirected order needs another create that selected the provider it went
\* to, or the one that renames currencies.
THEOREM MisdirectionsNeedCompany == Spec => []MisdirectionNeedsCompany
<1>1. DispatchInv => MisdirectionNeedsCompany
  BY DEF DispatchInv, OrderIsFounded, MisdirectionNeedsCompany, Selected
<1> QED BY <1>1, DispatchHolds, PTL
=============================================================================
