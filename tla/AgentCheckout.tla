--------------------------- MODULE AgentCheckout ---------------------------
(***************************************************************************)
(* POST /v1/agent/checkout: the payment firewall, the scope and velocity   *)
(* checks of AgentAuthService, the settlement on Stellar, the order and    *)
(* the item, for requests that run side by side in one process.            *)
(*                                                                         *)
(* A step runs from one await of the handler to the next.  The firewall is *)
(* composed in, as buildAgentRoutes does when it is given a token store.   *)
(* Amounts are in tenths of an atomic unit, so that they can have a digit  *)
(* more than decimalToAtomic keeps.  The amount of a request is what its   *)
(* body declares; what its envelope pays is Worth of the payment, which no *)
(* code looks at.                                                          *)
(***************************************************************************)
EXTENDS Integers, FiniteSets, Functions, ErrorCodes

CONSTANTS
    Request, Token, Item, Payment, Key,
    NoPayment, NoKey,   \* the header or the field is missing
    Body,       \* the requests that may arrive
    Registered, \* tokens of the service-token store
    Executing,  \* those of them with checkout:execute
    Scoped,     \* tokens with agent:checkout in Redis
    Stocked,    \* items of the item store
    MaxSpend,   \* [Token -> Nat]: the lifetime cap, in atomic units
    MaxDaily,   \* [Token -> Nat]: max_daily_spend, in tenths of an atomic unit
    Worth,      \* [Payment -> Nat]: what the signed envelope pays
    Days        \* bound on the days that pass

ASSUME BodyAssumption ==
    Body \subseteq [token : Token, amount : Nat, item : Item,
                    key : Key \cup {NoKey}, payment : Payment \cup {NoPayment}]
ASSUME SetsAssumption ==
    /\ Executing \subseteq Registered /\ Registered \subseteq Token
    /\ Scoped \subseteq Token /\ Stocked \subseteq Item
    /\ NoKey \notin Key /\ NoPayment \notin Payment
ASSUME BoundsAssumption ==
    /\ MaxSpend \in [Token -> Nat] /\ MaxDaily \in [Token -> Nat]
    /\ Worth \in [Payment -> Nat]
    /\ Days \in Nat \ {0}

VARIABLES
    pc,         \* what each request waits for, or how it was answered
    answer,     \* the error code a refused request was answered with
    body,       \* what it asked for
    day,        \* the day whose spend it holds
    seen,       \* the spend of that day it read
    reserved,   \* spentAtomic of the service-token store
    spend,      \* agent:spend:<token>:<day> in Redis
    orders,     \* the rows of orders, by the request that inserted them
    purchased,  \* items with status purchased
    posted,     \* requests whose payment Horizon was given
    ledger,     \* what became of each payment
    today

request == <<pc, answer, body, day, seen>>
counters == <<reserved, spend>>
goods == <<orders, purchased>>
network == <<posted, ledger>>
vars == <<request, counters, goods, network, today>>

Answered == {"done", "refused"}
NoCode == "NONE"
Atomic(amount) == amount \div 10

Init ==
    /\ pc = [r \in Request |-> "idle"]
    /\ answer = [r \in Request |-> NoCode]
    /\ body \in [Request -> Body]
    /\ day = [r \in Request |-> 0]
    /\ seen = [r \in Request |-> 0]
    /\ reserved = [t \in Token |-> 0]
    /\ spend = [t \in Token |-> [d \in 1..Days |-> 0]]
    /\ orders = {}
    /\ purchased = {}
    /\ posted = {}
    /\ ledger = [p \in Payment |-> "none"]
    /\ today = 1

Goto(r, next) == pc' = [pc EXCEPT ![r] = next] /\ UNCHANGED answer
Refuse(r, code) ==
    /\ pc' = [pc EXCEPT ![r] = "refused"]
    /\ answer' = [answer EXCEPT ![r] = code]

Start(r) ==
    /\ pc[r] = "idle"
    /\ Goto(r, "authorize")
    /\ UNCHANGED <<body, day, seen, counters, goods, network, today>>

\* authorize of the firewall.  reserveSpend compares and adds in one turn.
FaultyAuthorize(r) ==
    LET t == body[r].token
        spentNext == reserved[t] + Atomic(body[r].amount)
    IN
    /\ pc[r] = "authorize"
    /\ IF t \in Executing /\ reserved[t] < MaxSpend[t]
       THEN Goto(r, "scope") /\ reserved' = [reserved EXCEPT ![t] = spentNext]
       ELSE Refuse(r, Thrown("SpendCapExceededError")) /\ UNCHANGED reserved
    /\ UNCHANGED <<body, day, seen, spend, goods, network, today>>
Authorize(r) ==
    LET t == body[r].token
        spentNext == reserved[t] + Atomic(body[r].amount)
    IN
    /\ pc[r] = "authorize"
    /\ IF t \in Executing /\ spentNext <= MaxSpend[t]
       THEN Goto(r, "scope") /\ reserved' = [reserved EXCEPT ![t] = spentNext]
       ELSE /\ Refuse(r, CASE t \notin Registered -> Thrown("PaymentRequiredError")
                           [] t \in Registered \ Executing -> Thrown("InsufficientScopeError")
                           [] OTHER -> Thrown("SpendCapExceededError"))
            /\ UNCHANGED reserved
    /\ UNCHANGED <<body, day, seen, spend, goods, network, today>>

\* verifyAgentScope, then the challenge for a request that brings no payment.  The
\* reservation is not returned, here or in any later failure.
VerifyScope(r) ==
    /\ pc[r] = "scope"
    /\ IF body[r].token \notin Scoped THEN Refuse(r, Thrown("InsufficientScopeError"))
       ELSE IF body[r].payment = NoPayment THEN Refuse(r, Thrown("PaymentRequiredError"))
       ELSE Goto(r, "velocity")
    /\ UNCHANGED <<body, day, seen, counters, goods, network, today>>

\* checkVelocityAndAuthorize up to the increment: the cap is compared with the
\* spend as it was read.
ReadSpend(r) ==
    LET t == body[r].token IN
    /\ pc[r] = "velocity"
    /\ day' = [day EXCEPT ![r] = today]
    /\ seen' = [seen EXCEPT ![r] = spend[t][today]]
    /\ IF spend[t][today] + body[r].amount <= MaxDaily[t]
       THEN Goto(r, "count")
       ELSE Refuse(r, ThrownCode("RATE_LIMITED"))
    /\ UNCHANGED <<body, counters, goods, network, today>>

\* INCRBYFLOAT on the key of the day that was read.  Its answer may be lost.
FaultyCount(r) ==
    LET t == body[r].token IN
    /\ pc[r] = "count"
    /\ spend' = [spend EXCEPT ![t][day[r]] = seen[r] + body[r].amount]
    /\ \/ Goto(r, "pay")
       \/ Refuse(r, Unhandled)
    /\ UNCHANGED <<body, day, seen, reserved, goods, network, today>>
Count(r) ==
    LET t == body[r].token IN
    /\ pc[r] = "count"
    /\ spend' = [spend EXCEPT ![t][day[r]] = @ + body[r].amount]
    /\ \/ Goto(r, "pay")
       \/ Refuse(r, Unhandled)
    /\ UNCHANGED <<body, day, seen, reserved, goods, network, today>>

\* submitTransaction is called with the caller's envelope as it came: neither its amount
\* nor its destination is compared with what the body declares.
Post(r) ==
    /\ pc[r] = "pay"
    /\ Goto(r, "settling")
    /\ posted' = posted \cup {r}
    /\ UNCHANGED <<body, day, seen, counters, goods, ledger, today>>

\* Horizon answers that the transaction succeeded: also to a second submission.
FaultyPaymentSettles(r) ==
    /\ pc[r] = "settling"
    /\ ledger[body[r].payment] # "failed"
    /\ Goto(r, "order")
    /\ UNCHANGED <<body, day, seen, counters, goods, network, today>>
PaymentSettles(r) ==
    /\ pc[r] = "settling"
    /\ ledger[body[r].payment] = "success"
    /\ Goto(r, "order")
    /\ UNCHANGED <<body, day, seen, counters, goods, network, today>>

\* Horizon answers with an error, or thirty seconds pass without an answer: the
\* transaction may have succeeded, or may still do.  Each is a PaymentFailedError.
FaultyPaymentFailsAsUnpaid(r) ==
    /\ pc[r] = "settling"
    /\ Refuse(r, Thrown("PaymentRequiredError"))
    /\ UNCHANGED <<body, day, seen, counters, goods, network, today>>
FaultyPaymentFails(r) ==
    /\ pc[r] = "settling"
    /\ ledger[body[r].payment] = "failed"
    /\ Refuse(r, Thrown("PaymentFailedError"))
    /\ UNCHANGED <<body, day, seen, counters, goods, network, today>>
PaymentFails(r) ==
    /\ pc[r] = "settling"
    /\ Refuse(r, Thrown("PaymentFailedError"))
    /\ UNCHANGED <<body, day, seen, counters, goods, network, today>>

\* The INSERT into orders, whose answer may be lost too.
CreateOrder(r) ==
    /\ pc[r] = "order"
    /\ orders' = orders \cup {r}
    /\ \/ Goto(r, "mark")
       \/ Refuse(r, Unhandled)
    /\ UNCHANGED <<body, day, seen, counters, purchased, network, today>>

\* updateStatus throws for an item the store does not have.
FaultyMarkPurchased(r) ==
    /\ pc[r] = "mark"
    /\ Goto(r, "done")
    /\ purchased' = purchased \cup {body[r].item}
    /\ UNCHANGED <<body, day, seen, counters, orders, network, today>>
MarkPurchased(r) ==
    /\ pc[r] = "mark"
    /\ IF body[r].item \in Stocked
       THEN Goto(r, "done") /\ purchased' = purchased \cup {body[r].item}
       ELSE Refuse(r, Thrown("NotFoundError")) /\ UNCHANGED purchased
    /\ UNCHANGED <<body, day, seen, counters, orders, network, today>>

\* Redis or Postgres refuses the call.
Fail(r) ==
    /\ pc[r] \in {"scope", "velocity", "count", "order"}
    /\ Refuse(r, Unhandled)
    /\ UNCHANGED <<body, day, seen, counters, goods, network, today>>

Include(p, outcome) ==
    /\ ledger[p] = "none"
    /\ \E r \in posted : body[r].payment = p
    /\ ledger' = [ledger EXCEPT ![p] = outcome]
    /\ UNCHANGED <<request, counters, goods, posted, today>>

NextDay ==
    /\ today < Days
    /\ today' = today + 1
    /\ UNCHANGED <<request, counters, goods, network>>

Handle(r) ==
    \/ Authorize(r) \/ VerifyScope(r) \/ ReadSpend(r) \/ Count(r) \/ Post(r)
    \/ PaymentSettles(r) \/ PaymentFails(r) \/ CreateOrder(r) \/ MarkPurchased(r)
    \/ Fail(r)

Next ==
    \/ \E r \in Request : Start(r) \/ Handle(r)
    \/ \E p \in Payment, outcome \in {"success", "failed"} : Include(p, outcome)
    \/ NextDay

\* Redis and Postgres answer or fail, and the gateway's timer fires: a handler
\* that can go on does.  No transaction has to reach the ledger.
Spec == Init /\ [][Next]_vars /\ \A r \in Request : WF_vars(Handle(r))

----------------------------------------------------------------------------
(* Properties *)

TypeOK ==
    /\ pc \in [Request -> {"idle", "authorize", "scope", "velocity", "count", "pay",
                           "settling", "order", "mark"} \cup Answered]
    /\ answer \in [Request -> Emittable \cup {NoCode}]
    /\ body \in [Request -> Body]
    /\ day \in [Request -> 0..Days] /\ seen \in [Request -> Nat]
    /\ reserved \in [Token -> Nat] /\ spend \in [Token -> [1..Days -> Nat]]
    /\ orders \subseteq posted /\ posted \subseteq Request
    /\ purchased \subseteq Stocked
    /\ ledger \in [Payment -> {"none", "success", "failed"}]
    /\ today \in 1..Days

PostedBy(t) == {r \in posted : body[r].token = t}
Declared(S) == SumFunctionOnSet([r \in Request |-> body[r].amount], S)

\* Whatever fails, times out or is tried again, what the requests of a token declared
\* before they were posted is within its lifetime cap, but for what decimalToAtomic
\* cuts off: less than an atomic unit of each, which is not reserved.  This is about
\* the declared amounts; of the money that moves see LifetimeCap.
DeclaredWithinCap ==
    \A t \in Token :
        Declared(PostedBy(t)) <= 10 * MaxSpend[t] + 9 * Cardinality(PostedBy(t))

\* No payment leaves without its declared amount being counted in the spend of some
\* day, although requests read and add to the same key beside each other.
PaymentsCounted ==
    \A t \in Token :
        Declared(PostedBy(t)) <= SumFunctionOnSet(spend[t], 1..Days)

\* A paid order has its payment on the ledger, and an item is purchased only with
\* such an order: a lost answer or a timeout never fulfils one.
PurchasedWasPaid ==
    /\ \A r \in orders : ledger[body[r].payment] = "success"
    /\ \A i \in purchased : \E r \in orders : body[r].item = i

\* Every checkout is answered, also when its transaction never reaches the ledger: the
\* handlers all come to rest.
EveryCheckoutAnswered ==
    (\E r \in Request : pc[r] = "authorize")
        ~> (\A r \in Request : pc[r] \in {"idle"} \cup Answered)

\* A client whose answer invites another attempt has not paid: nothing of its request
\* was given to Horizon, so that the retry is not a second charge.
RetryIsFree ==
    \A r \in Request :
        /\ pc[r] = "refused"
        /\ AgentHintOf(answer[r]) \in {"RETRY_WITH_BACKOFF", "REQUEST_STEP_UP", "FIX_AND_RETRY"}
        => r \notin posted

\* "the absolute cap (in atomic units of the checkout currency) that the token may
\* spend across its lifetime": what moved on the ledger by envelopes that were posted
\* in the token's name.  The cap is held against declared amounts without their last
\* digits, so an envelope of another amount passes it, and so do the digits.
Moved(t) == {p \in Payment :
    ledger[p] = "success" /\ \E r \in PostedBy(t) : body[r].payment = p}
LifetimeCap == \A t \in Token : SumFunctionOnSet(Worth, Moved(t)) <= 10 * MaxSpend[t]

\* "controla la velocidad de gasto diaria (max_daily_spend) [...] al exceder el
\* limite": requests that read the spend before either adds to it pass the cap.
DailyCap == \A t \in Token, d \in 1..Days : spend[t][d] <= MaxDaily[t]

\* "idempotencyKey en el payload evita el doble cargo de un reintento": nothing
\* looks the key up, so a retry that brings another payment is charged again.
ChargedOncePerKey ==
    \A r, q \in posted :
        /\ body[r].token = body[q].token
        /\ body[r].key = body[q].key /\ body[r].key # NoKey
        /\ ledger[body[r].payment] = "success"
        /\ ledger[body[q].payment] = "success"
        => body[r].payment = body[q].payment

=============================================================================
