--------------------------- MODULE StrategyDispatch ---------------------------
(***************************************************************************)
(* How concurrent creates reach a payment provider.  StrategyContext is    *)
(* one object for the whole process: a create sets its strategy, asks it   *)
(* about the currency and, in the same turn of the event loop, makes its   *)
(* first attempt.  The attempts after a failure read the strategy again,   *)
(* which by then is whatever the last create has set.  A request is one    *)
(* create, from the point where it has its order; what the payment's row   *)
(* and cache make of the session is PaymentHandlers.  The process may die  *)
(* and start again, with no strategy set.                                  *)
(***************************************************************************)
EXTENDS Naturals, FiniteSets

CONSTANTS
  Requests,     \* create calls
  Currencies    \* currencies their orders are priced in

AllCurrencies == {"USD", "EUR", "GBP", "INR"}

ASSUME CurrenciesAssumption == Currencies \subseteq AllCurrencies

Providers == {"stripe", "paypal", "razorpay"}

\* What the strategies say they support, of the currencies Money admits.
Supported ==
  [p \in Providers |-> IF p = "razorpay" THEN {"INR", "USD"} ELSE {"USD", "EUR", "GBP"}]

\* retries: 2
MaxTries == 3

VARIABLES
  strategy,   \* StrategyContext's, or "none"
  pc,         \* where each request is
  want,       \* the provider it names, "none" before it is selected
  priced,     \* the currency of its order, "none" before
  money,      \* the currency of the Money object its attempts share, or "none"
  asked,      \* the provider of its last attempt, or "none"
  tries,      \* attempts made
  orders,     \* orders the providers have created, each with the attempt that got it
  recorded    \* provider sessions saved: the provider they name and the order

request == <<pc, want, priced, money, asked, tries>>
vars == <<strategy, request, orders, recorded>>

Steps == {"idle", "convert", "asking", "answered", "waiting", "done"}

Order == [request: Requests, provider: Providers, currency: AllCurrencies, attempt: 1..MaxTries]

Init ==
  /\ strategy = "none"
  /\ pc = [r \in Requests |-> "idle"]
  /\ want = [r \in Requests |-> "none"]
  /\ priced = [r \in Requests |-> "none"]
  /\ money = [r \in Requests |-> "none"]
  /\ asked = [r \in Requests |-> "none"]
  /\ tries = [r \in Requests |-> 0]
  /\ orders = {}
  /\ recorded = {}

Goto(r, step) == pc' = [pc EXCEPT ![r] = step]

\* On to the next await.
Move(r, step) ==
  /\ Goto(r, step)
  /\ UNCHANGED <<strategy, want, priced, money, asked, tries>>

\* The use case returns or throws; what it had in memory is gone.
End(r) ==
  /\ Goto(r, "done")
  /\ money' = [money EXCEPT ![r] = "none"]
  /\ asked' = [asked EXCEPT ![r] = "none"]
  /\ tries' = [tries EXCEPT ![r] = 0]
  /\ UNCHANGED <<strategy, want, priced>>

----------------------------------------------------------------------------
(* The turn in which a create selects its strategy.                        *)

Select(r, p, c) ==
  /\ pc[r] = "idle"
  /\ strategy' = p
  /\ want' = [want EXCEPT ![r] = p]
  /\ priced' = [priced EXCEPT ![r] = c]
  /\ UNCHANGED <<orders, recorded>>

\* The use case throws in this turn.
Refuse(r) == Goto(r, "done") /\ UNCHANGED <<money, asked, tries>>

\* Mutant: when the strategy cannot be asked, PayPal is set as the default.
FallBack(r, c) ==
  /\ pc[r] = "idle"
  /\ strategy' = "paypal"
  /\ want' = [want EXCEPT ![r] = "stripe"]
  /\ priced' = [priced EXCEPT ![r] = c]
  /\ Refuse(r)
  /\ UNCHANGED <<orders, recorded>>

\* StripePaymentStrategy has no isCurrencySupported: a TypeError, with the
\* strategy set.
RefuseStripe(r, c) == Select(r, "stripe", c) /\ Refuse(r)

\* An unsupported currency: the rate is awaited.
StartConversion(r, p, c) ==
  /\ p # "stripe" /\ c \notin Supported[p]
  /\ Select(r, p, c)
  /\ Goto(r, "convert")
  /\ UNCHANGED <<money, asked, tries>>

\* The items do not add up to the order's amount.
RefuseTotal(r, p, c) ==
  /\ p # "stripe" /\ c \in Supported[p]
  /\ Select(r, p, c) /\ Refuse(r)

\* Mutant: something is awaited between the selection and the first attempt.
SelectAndWait(r, p, c) ==
  /\ p # "stripe" /\ c \in Supported[p]
  /\ Select(r, p, c)
  /\ Goto(r, "waiting")
  /\ money' = [money EXCEPT ![r] = c]
  /\ UNCHANGED <<asked, tries>>

FirstAttempt(r, p, c) ==
  /\ p # "stripe" /\ c \in Supported[p]
  /\ Select(r, p, c)
  /\ Goto(r, "asking")
  /\ money' = [money EXCEPT ![r] = c]
  /\ asked' = [asked EXCEPT ![r] = strategy']
  /\ tries' = [tries EXCEPT ![r] = 1]

----------------------------------------------------------------------------
(* The awaits.                                                             *)

\* With a rate or without: Money has no setAmount, and the create fails.
FailConversion(r) ==
  /\ pc[r] = "convert"
  /\ End(r)
  /\ UNCHANGED <<orders, recorded>>

\* A provider creates no order in a currency it does not support (Razorpay's
\* strategy looks before it asks), nor PayPal one whose items, which are not
\* renamed, are in another currency than its amount.
Acceptable(r) ==
  /\ money[r] \in Supported[asked[r]]
  /\ asked[r] = "paypal" => money[r] = priced[r]

\* The order an attempt gets.
OrderOf(r) == [request |-> r, provider |-> asked[r], currency |-> money[r], attempt |-> tries[r]]

MakeOrder(r) ==
  /\ pc[r] = "asking" /\ Acceptable(r)
  /\ orders' = orders \cup {OrderOf(r)}
  /\ Move(r, "answered")
  /\ UNCHANGED recorded

\* The session names the provider of the request.  Stripe's answer has no
\* amount, which the session's NOT NULL columns refuse.
Record(r) ==
  /\ pc[r] = "answered" /\ asked[r] # "stripe"
  /\ recorded' = recorded \cup {[provider |-> want[r], order |-> OrderOf(r)]}
  /\ End(r)
  /\ UNCHANGED orders

RefuseRecord(r) ==
  /\ pc[r] = "answered"
  /\ End(r)
  /\ UNCHANGED <<orders, recorded>>

\* Mutant: off by one.
ExhaustedLate(r) == tries[r] > MaxTries

Exhausted(r) == tries[r] = MaxTries

\* An attempt fails, before the provider has created an order or after.
FailAttempt(r) ==
  /\ pc[r] \in {"asking", "answered"}
  /\ IF Exhausted(r) THEN End(r) ELSE Move(r, "waiting")
  /\ UNCHANGED <<orders, recorded>>

\* Stripe's strategy renames a currency it does not support.
Renamed(p, c) == IF p = "stripe" /\ c \notin Supported[p] THEN "USD" ELSE c

\* Mutant: the attempts are not counted.
RetryUncounted(r) ==
  /\ pc[r] = "waiting"
  /\ Goto(r, "asking")
  /\ asked' = [asked EXCEPT ![r] = strategy]
  /\ money' = [money EXCEPT ![r] = Renamed(strategy, @)]
  /\ UNCHANGED <<strategy, want, priced, tries, orders, recorded>>

\* The delay has passed: this.strategy is read anew.
Retry(r) ==
  /\ pc[r] = "waiting"
  /\ Goto(r, "asking")
  /\ asked' = [asked EXCEPT ![r] = strategy]
  /\ money' = [money EXCEPT ![r] = Renamed(strategy, @)]
  /\ tries' = [tries EXCEPT ![r] = @ + 1]
  /\ UNCHANGED <<strategy, want, priced, orders, recorded>>

\* retry's own time limit rejects, whatever its attempt still does.
GiveUp(r) ==
  /\ pc[r] \in {"asking", "waiting"}
  /\ \/ UNCHANGED orders
     \/ /\ pc[r] = "asking" /\ Acceptable(r)
        /\ orders' = orders \cup {OrderOf(r)}
  /\ End(r)
  /\ UNCHANGED recorded

Active(r) == pc[r] \notin {"idle", "done"}

\* The process dies and starts again.
Restart ==
  /\ strategy # "none"
  /\ strategy' = "none"
  /\ pc' = [r \in Requests |-> IF Active(r) THEN "done" ELSE pc[r]]
  /\ money' = [r \in Requests |-> "none"]
  /\ asked' = [r \in Requests |-> "none"]
  /\ tries' = [r \in Requests |-> 0]
  /\ UNCHANGED <<want, priced, orders, recorded>>

Begin(r) ==
  \E c \in Currencies :
     \/ RefuseStripe(r, c)
     \/ \E p \in Providers : StartConversion(r, p, c) \/ RefuseTotal(r, p, c) \/ FirstAttempt(r, p, c)

Proceed(r) ==
  \/ FailConversion(r)
  \/ MakeOrder(r) \/ Record(r) \/ RefuseRecord(r)
  \/ FailAttempt(r) \/ Retry(r) \/ GiveUp(r)

Next == (\E r \in Requests : Begin(r) \/ Proceed(r)) \/ Restart

Spec == Init /\ [][Next]_vars

\* Every await of a request ends: its timers fire, and the providers' clients
\* give up on a call.
FairSpec == Spec /\ \A r \in Requests : WF_vars(Proceed(r))

----------------------------------------------------------------------------
(* Properties.                                                             *)

\* Every variable keeps its type, and no request makes a fourth attempt.
TypeOK ==
  /\ strategy \in Providers \cup {"none"}
  /\ pc \in [Requests -> Steps]
  /\ want \in [Requests -> Providers \cup {"none"}]
  /\ priced \in [Requests -> AllCurrencies \cup {"none"}]
  /\ money \in [Requests -> AllCurrencies \cup {"none"}]
  /\ asked \in [Requests -> Providers \cup {"none"}]
  /\ tries \in [Requests -> 0..MaxTries]
  /\ orders \subseteq Order
  /\ recorded \subseteq [provider: Providers, order: Order]

\* A create that needs no retry is safe from the others, although they share
\* the strategy: what its first attempt gets is an order of the provider it
\* names, in the currency of its order.
FirstAttemptIsOwn ==
  \A o \in orders : o.attempt = 1 =>
     o.provider = want[o.request] /\ o.currency = priced[o.request]

\* What it takes to go wrong: an order of another provider needs another
\* create that has selected that provider, and an order in another currency
\* one that has selected Stripe.
MisdirectionNeedsCompany ==
  \A o \in orders :
     /\ o.provider # want[o.request] => \E r \in Requests \ {o.request} : want[r] = o.provider
     /\ o.currency # priced[o.request] => \E r \in Requests \ {o.request} : want[r] = "stripe"

\* A create that has begun ends: retries and time limits are finite.
EveryCreateEnds == \A r \in Requests : Active(r) ~> ~Active(r)
=============================================================================
