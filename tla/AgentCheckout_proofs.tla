------------------------ MODULE AgentCheckout_proofs ------------------------
(***************************************************************************)
(* Proofs about AgentCheckout, for any number of requests, tokens, items   *)
(* and payments.                                                           *)
(***************************************************************************)
EXTENDS AgentCheckout, ErrorCodes_proofs, Collections_proofs

----------------------------------------------------------------------------
(* The codes of the answers *)

\* The codes a checkout is refused with before its payment is posted.
CodesBefore == {"SPEND_CAP_EXCEEDED", "INSUFFICIENT_SCOPE", "PAYMENT_REQUIRED",
                "RATE_LIMITED", "UNHANDLED_INTERNAL_ERROR"}
\* And after.
CodesAfter == {"PAYMENT_FAILED", "UNHANDLED_INTERNAL_ERROR", "RESOURCE_STATE_CONFLICT"}

\* They can all be sent.
LEMMA CodesAreEmittable == CodesBefore \cup CodesAfter \subseteq Emittable
<1>1. errorCodes["SPEND_CAP_EXCEEDED"].status = 403
  BY Found DEF Authorization, Never, Code
<1>2. errorCodes["INSUFFICIENT_SCOPE"].status = 403
  BY Found DEF Authorization, Never, Code
<1>3. errorCodes["PAYMENT_REQUIRED"].status = 402
  BY Found DEF StateConflict, Code
<1>4. errorCodes["PAYMENT_FAILED"].status = 402
  BY Found DEF StateConflict, Code
<1>5. errorCodes["RESOURCE_STATE_CONFLICT"].status = 409
  BY Found DEF StateConflict, Code
<1>6. errorCodes["RATE_LIMITED"].status = 429
  BY Found DEF Dependency, Backoff, Code
<1>7. errorCodes["UNHANDLED_INTERNAL_ERROR"].status = 500
  BY Found DEF Internal, Code
<1> QED
  BY <1>1, <1>2, <1>3, <1>4, <1>5, <1>6, <1>7, Found
     DEF Emittable, NoStatus, CodesBefore, CodesAfter

\* No answer that follows a posted payment invites to try again.
LEMMA AfterInvitesNothing ==
    \A code \in CodesAfter :
        AgentHintOf(code) \notin {"RETRY_WITH_BACKOFF", "REQUEST_STEP_UP", "FIX_AND_RETRY"}
<1>1. AgentHintOf("PAYMENT_FAILED") = "ABORT_AND_REPORT"
  BY Found DEF AgentHintOf, StateConflict, Code
<1>2. AgentHintOf("RESOURCE_STATE_CONFLICT") = "NONE"
  BY Found DEF AgentHintOf, StateConflict, Code
<1>3. AgentHintOf("UNHANDLED_INTERNAL_ERROR") = "ABORT_AND_REPORT"
  BY Found DEF AgentHintOf, Internal, Code
<1> QED
  BY <1>1, <1>2, <1>3 DEF CodesAfter

----------------------------------------------------------------------------
(* The inductive invariant *)

BeforePost == {"idle", "authorize", "scope", "velocity", "count", "pay"}
AfterPost == {"settling", "order", "mark", "done"}

\* What was posted is what has gone on beyond Post, with a payment.
PostedInv ==
    \A r \in Request :
        /\ pc[r] \in BeforePost => r \notin posted
        /\ pc[r] \in AfterPost => r \in posted
        /\ r \in posted \/ pc[r] \in {"velocity", "count", "pay"} => body[r].payment \in Payment

\* A request holds the day whose spend it read.
DayInv == \A r \in Request : pc[r] = "count" => day[r] \in 1..Days

\* Beyond the settlement the payment is on the ledger, and beyond the INSERT the order
\* is there.
PaidInv ==
    \A r \in Request :
        /\ pc[r] \in {"order", "mark"} => ledger[body[r].payment] = "success"
        /\ pc[r] = "mark" => r \in orders

\* A request that was refused after its payment was posted has one of three answers.
AnswerInv ==
    \A r \in Request : pc[r] = "refused" /\ r \in posted => answer[r] \in CodesAfter

IInv == TypeOK /\ PostedInv /\ DayInv /\ PaidInv /\ AnswerInv /\ PurchasedWasPaid

\* How far the requests are, with their answers.
ProgressType ==
    /\ pc \in [Request -> {"idle", "authorize", "scope", "velocity", "count", "pay",
                           "settling", "order", "mark"} \cup Answered]
    /\ answer \in [Request -> Emittable \cup {NoCode}]

LEMMA BodyType ==
    ASSUME TypeOK, NEW r \in Request
    PROVE  /\ body[r].token \in Token /\ body[r].amount \in Nat /\ body[r].item \in Item
           /\ body[r].payment \in Payment \cup {NoPayment}
BY BodyAssumption DEF TypeOK

LEMMA AtomicType == ASSUME NEW amount \in Nat PROVE Atomic(amount) \in Nat
BY DEF Atomic

\* A refusal before the payment is posted, and after.
LEMMA RefusalType ==
    ASSUME TypeOK, NEW r \in Request, NEW code \in CodesBefore \cup CodesAfter,
           Refuse(r, code)
    PROVE  /\ pc' = [pc EXCEPT ![r] = "refused"]
           /\ answer' = [answer EXCEPT ![r] = code]
           /\ ProgressType'
BY CodesAreEmittable DEF Refuse, TypeOK, ProgressType, Answered

\* Every step keeps the types.
LEMMA TypeStep ==
    ASSUME TypeOK, PostedInv, DayInv, [Next]_vars PROVE TypeOK'
<1> USE SetsAssumption, BoundsAssumption, ThrownCodes DEF TypeOK, ProgressType, Answered
<1>1. ASSUME NEW r \in Request, Start(r) PROVE TypeOK'
  BY <1>1 DEF Start, Goto, counters, goods, network
<1>2. ASSUME NEW r \in Request, Authorize(r) PROVE TypeOK'
  <2>1. reserved' \in [Token -> Nat]
    <3>1. body[r].token \in Token /\ reserved[body[r].token] + Atomic(body[r].amount) \in Nat
      <4>1. body[r].token \in Token /\ body[r].amount \in Nat
        BY BodyType
      <4>2. reserved[body[r].token] \in Nat /\ Atomic(body[r].amount) \in Nat
        BY <4>1, AtomicType
      <4> QED
        BY <4>1, <4>2
    <3>2. \/ reserved' = reserved
          \/ reserved' = [reserved EXCEPT ![body[r].token] =
                            reserved[body[r].token] + Atomic(body[r].amount)]
      BY <1>2 DEF Authorize
    <3> QED
      BY <3>1, <3>2
  <2>2. ProgressType'
    <3>1. CASE Goto(r, "scope")
      BY <3>1 DEF Goto
    <3>2. ASSUME NEW code \in CodesBefore, Refuse(r, code)
          PROVE  ProgressType'
      BY <3>2, RefusalType
    <3> QED
      BY <1>2, <3>1, <3>2 DEF Authorize, CodesBefore
  <2> QED
    BY <1>2, <2>1, <2>2 DEF Authorize, goods, network
<1>3. ASSUME NEW r \in Request,
             VerifyScope(r) \/ Post(r) \/ PaymentSettles(r) \/ PaymentFails(r) \/ Fail(r)
      PROVE  TypeOK'
  <2>1. ASSUME NEW next \in {"velocity", "settling", "order"}, Goto(r, next)
        PROVE  ProgressType'
    BY <2>1 DEF Goto
  <2>2. ASSUME NEW code \in CodesBefore \cup CodesAfter, Refuse(r, code)
        PROVE  ProgressType'
    BY <2>2, RefusalType
  <2>3. ProgressType'
    BY <1>3, <2>1, <2>2 DEF VerifyScope, Post, PaymentSettles, PaymentFails, Fail,
                            CodesBefore, CodesAfter
  <2>4. posted' \in {posted, posted \cup {r}}
    BY <1>3 DEF VerifyScope, Post, PaymentSettles, PaymentFails, Fail, network
  <2>5. UNCHANGED <<body, day, seen, reserved, spend, orders, purchased, ledger, today>>
    BY <1>3 DEF VerifyScope, Post, PaymentSettles, PaymentFails, Fail, network, counters, goods
  <2> QED
    BY <2>3, <2>4, <2>5
<1>4. ASSUME NEW r \in Request, ReadSpend(r) PROVE TypeOK'
  <2>1. spend[body[r].token][today] \in Nat
    BY BodyType
  <2>2. ProgressType'
    <3>1. CASE Goto(r, "count")
      BY <3>1 DEF Goto
    <3>2. CASE Refuse(r, "RATE_LIMITED")
      BY <3>2, RefusalType DEF CodesBefore
    <3> QED
      BY <1>4, <3>1, <3>2 DEF ReadSpend
  <2>3. day' \in [Request -> 0..Days] /\ seen' \in [Request -> Nat]
    <3>1. /\ day' = [day EXCEPT ![r] = today]
          /\ seen' = [seen EXCEPT ![r] = spend[body[r].token][today]]
      BY <1>4 DEF ReadSpend
    <3> QED
      BY <2>1, <3>1
  <2>4. UNCHANGED <<body, reserved, spend, orders, purchased, posted, ledger, today>>
    BY <1>4 DEF ReadSpend, counters, goods, network
  <2> QED
    BY <2>2, <2>3, <2>4
<1>5. ASSUME NEW r \in Request, Count(r) PROVE TypeOK'
  <2>1. spend' \in [Token -> [1..Days -> Nat]]
    <3>1. day[r] \in 1..Days /\ body[r].token \in Token /\ body[r].amount \in Nat
      BY <1>5, BodyType DEF Count, DayInv
    <3>2. spend[body[r].token] \in [1..Days -> Nat]
      BY <3>1
    <3>3. spend[body[r].token][day[r]] + body[r].amount \in Nat
      BY <3>1, <3>2
    <3>4. spend' = [spend EXCEPT ![body[r].token] = [spend[body[r].token] EXCEPT
                ![day[r]] = spend[body[r].token][day[r]] + body[r].amount]]
      BY <1>5 DEF Count
    <3> QED
      BY <3>1, <3>2, <3>3, <3>4
  <2>2. ProgressType'
    <3>1. CASE Goto(r, "pay")
      BY <3>1 DEF Goto
    <3>2. CASE Refuse(r, "UNHANDLED_INTERNAL_ERROR")
      BY <3>2, RefusalType DEF CodesBefore
    <3> QED
      BY <1>5, <3>1, <3>2 DEF Count
  <2> QED
    BY <1>5, <2>1, <2>2 DEF Count, goods, network
<1>6. ASSUME NEW r \in Request, CreateOrder(r) \/ MarkPurchased(r) PROVE TypeOK'
  <2>1. ProgressType'
    <3>1. CASE Goto(r, "mark") \/ Goto(r, "done")
      BY <3>1 DEF Goto
    <3>2. ASSUME NEW code \in CodesAfter, Refuse(r, code)
          PROVE  ProgressType'
      BY <3>2, RefusalType
    <3> QED
      BY <1>6, <3>1, <3>2 DEF CreateOrder, MarkPurchased, CodesAfter
  <2>2. orders' \subseteq posted /\ purchased' \subseteq Stocked
    BY <1>6 DEF CreateOrder, MarkPurchased, PostedInv, AfterPost
  <2> QED
    BY <1>6, <2>1, <2>2 DEF CreateOrder, MarkPurchased, counters, network
<1>7. ASSUME NEW p \in Payment, NEW outcome \in {"success", "failed"}, Include(p, outcome)
      PROVE  TypeOK'
  BY <1>7 DEF Include, request, counters, goods
<1>8. CASE NextDay
  BY <1>8 DEF NextDay, request, counters, goods, network
<1>9. CASE UNCHANGED vars
  BY <1>9 DEF vars, request, counters, goods, network
<1> QED
  BY <1>1, <1>2, <1>3, <1>4, <1>5, <1>6, <1>7, <1>8, <1>9 DEF Next, Handle

\* A step of a handler leaves the other requests, and every payment, alone.
LEMMA HandlerStep ==
    ASSUME IInv, NEW r \in Request, Start(r) \/ Handle(r)
    PROVE  PostedInv' /\ DayInv' /\ PaidInv' /\ AnswerInv' /\ PurchasedWasPaid'
<1> USE ThrownCodes DEF IInv, TypeOK, PostedInv, DayInv, PaidInv, AnswerInv,
        PurchasedWasPaid, BeforePost, AfterPost, Answered
<1>1. CASE Start(r)
  BY <1>1 DEF Start, Goto, counters, goods, network
<1>2. CASE Authorize(r)
  BY <1>2 DEF Authorize, Goto, Refuse, goods, network
<1>3. CASE VerifyScope(r)
  <2>1. body[r].payment \in Payment \cup {NoPayment}
    BY BodyType
  <2>2. PICK next \in {"velocity", "refused"} :
            pc' = [pc EXCEPT ![r] = next] /\ (next = "velocity" => body[r].payment \in Payment)
    BY <1>3, <2>1 DEF VerifyScope, Goto, Refuse
  <2>3. \A q \in Request \ {r} : answer'[q] = answer[q]
    BY <1>3 DEF VerifyScope, Goto, Refuse
  <2>4. r \notin posted /\ r \notin orders
    BY <1>3 DEF VerifyScope
  <2>5. UNCHANGED <<body, day, orders, purchased, posted, ledger>>
    BY <1>3 DEF VerifyScope, goods, network
  <2> QED
    BY <2>2, <2>3, <2>4, <2>5
<1>4. CASE ReadSpend(r)
  <2>1. PICK next \in {"count", "refused"} : pc' = [pc EXCEPT ![r] = next]
    BY <1>4 DEF ReadSpend, Goto, Refuse
  <2>2. \A q \in Request \ {r} : answer'[q] = answer[q]
    BY <1>4 DEF ReadSpend, Goto, Refuse
  <2>3. r \notin posted /\ r \notin orders /\ body[r].payment \in Payment
    BY <1>4 DEF ReadSpend
  <2>4. day' = [day EXCEPT ![r] = today]
    BY <1>4 DEF ReadSpend
  <2>5. UNCHANGED <<body, orders, purchased, posted, ledger>>
    BY <1>4 DEF ReadSpend, goods, network
  <2> QED
    BY <2>1, <2>2, <2>3, <2>4, <2>5
<1>5. CASE Count(r)
  BY <1>5 DEF Count, Goto, Refuse, goods, network
<1>6. CASE Post(r)
  BY <1>6 DEF Post, Goto, counters, goods
<1>7. CASE PaymentSettles(r)
  BY <1>7 DEF PaymentSettles, Goto, counters, goods, network
<1>8. CASE PaymentFails(r)
  BY <1>8 DEF PaymentFails, Refuse, CodesAfter, counters, goods, network
<1>9. CASE CreateOrder(r)
  <2>1. PICK next \in {"mark", "refused"} : pc' = [pc EXCEPT ![r] = next]
    BY <1>9 DEF CreateOrder, Goto, Refuse
  <2>2. /\ \A q \in Request \ {r} : answer'[q] = answer[q]
        /\ pc'[r] = "refused" => answer'[r] \in CodesAfter
    BY <1>9 DEF CreateOrder, Goto, Refuse, CodesAfter
  <2>3. r \in posted /\ ledger[body[r].payment] = "success" /\ orders' = orders \cup {r}
    BY <1>9 DEF CreateOrder
  <2>4. UNCHANGED <<body, day, purchased, posted, ledger>>
    BY <1>9 DEF CreateOrder, network
  <2> QED
    BY <2>1, <2>2, <2>3, <2>4
<1>10. CASE MarkPurchased(r)
  <2>1. PICK next \in {"done", "refused"} : pc' = [pc EXCEPT ![r] = next]
    BY <1>10 DEF MarkPurchased, Goto, Refuse
  <2>2. /\ \A q \in Request \ {r} : answer'[q] = answer[q]
        /\ pc'[r] = "refused" => answer'[r] \in CodesAfter
    BY <1>10 DEF MarkPurchased, Goto, Refuse, CodesAfter
  <2>3. r \in posted /\ r \in orders /\ purchased' \subseteq purchased \cup {body[r].item}
    BY <1>10 DEF MarkPurchased
  <2>4. UNCHANGED <<body, day, orders, posted, ledger>>
    BY <1>10 DEF MarkPurchased, network
  <2>5. PostedInv'
    BY <2>1, <2>3, <2>4
  <2>6. DayInv' /\ PaidInv'
    BY <2>1, <2>3, <2>4
  <2>7. AnswerInv'
    BY <2>1, <2>2, <2>4
  <2>8. \A i \in purchased' : \E q \in orders' : body'[q].item = i
    BY <2>3, <2>4
  <2> QED
    BY <2>4, <2>5, <2>6, <2>7, <2>8
<1>11. CASE Fail(r)
  BY <1>11 DEF Fail, Refuse, CodesAfter, counters, goods, network
<1> QED
  BY <1>1, <1>2, <1>3, <1>4, <1>5, <1>6, <1>7, <1>8, <1>9, <1>10, <1>11 DEF Handle

LEMMA InitIInv == Init => IInv
<1> SUFFICES ASSUME Init PROVE IInv
  OBVIOUS
<1>1. TypeOK
  BY BoundsAssumption DEF Init, TypeOK, NoCode
<1> QED
  BY <1>1 DEF Init, IInv, PostedInv, DayInv, PaidInv, AnswerInv, PurchasedWasPaid,
              BeforePost, AfterPost

\* The ledger settles a payment once, and time changes nothing that is known.
LEMMA NextIInv == IInv /\ [Next]_vars => IInv'
<1> SUFFICES ASSUME IInv, [Next]_vars PROVE IInv'
  OBVIOUS
<1>1. TypeOK'
  BY TypeStep DEF IInv
<1>2. ASSUME NEW r \in Request, Start(r) \/ Handle(r) PROVE IInv'
  BY <1>1, <1>2, HandlerStep DEF IInv
<1>3. ASSUME NEW p \in Payment, NEW outcome \in {"success", "failed"}, Include(p, outcome)
      PROVE  IInv'
  <2>1. \A q \in Payment : ledger[q] = "success" => ledger'[q] = "success"
    BY <1>3 DEF Include, IInv, TypeOK
  <2>2. UNCHANGED <<pc, answer, body, day, orders, purchased, posted>>
    BY <1>3 DEF Include, request, goods
  <2>3. \A r \in Request : r \in posted => body[r].payment \in Payment
    BY DEF IInv, PostedInv
  <2>4. PaidInv'
    BY <2>1, <2>2, <2>3 DEF IInv, PaidInv, PostedInv, AfterPost
  <2>5. PurchasedWasPaid'
    BY <2>1, <2>2, <2>3 DEF IInv, PurchasedWasPaid, TypeOK
  <2> QED
    BY <1>1, <2>2, <2>4, <2>5 DEF IInv, PostedInv, DayInv, AnswerInv
<1>4. CASE NextDay \/ UNCHANGED vars
  <2>1. UNCHANGED <<pc, answer, body, day, orders, purchased, posted, ledger>>
    BY <1>4 DEF NextDay, vars, request, counters, goods, network
  <2> QED
    BY <1>1, <2>1 DEF IInv, PostedInv, DayInv, PaidInv, AnswerInv, PurchasedWasPaid
<1> QED
  BY <1>2, <1>3, <1>4 DEF Next

----------------------------------------------------------------------------
(* What was spent.  The counters are added to before a payment is posted   *)
(* and never subtracted from; the sums are those of the requests that are  *)
(* beyond the counter, of which the posted ones are a part.                *)

Amounts == [r \in Request |-> body[r].amount]
AtomicAmounts == [r \in Request |-> Atomic(body[r].amount)]

\* The requests of a token that are beyond its reservation, and those beyond its count,
\* and may still be posted.
Reserving(t) ==
    {r \in Request : /\ body[r].token = t
                     /\ r \in posted \/ pc[r] \in {"scope", "velocity", "count", "pay"}}
Counted(t) == {r \in Request : body[r].token = t /\ (r \in posted \/ pc[r] = "pay")}

ReservedInv ==
    \A t \in Token :
        /\ IsFiniteSet(Reserving(t))
        /\ SumFunctionOnSet(AtomicAmounts, Reserving(t)) <= reserved[t]
        /\ reserved[t] <= MaxSpend[t]
CountedInv ==
    \A t \in Token :
        SumFunctionOnSet(Amounts, Counted(t)) <= SumFunctionOnSet(spend[t], 1..Days)
SpendInv == ReservedInv /\ CountedInv

LEMMA AmountsType ==
    ASSUME TypeOK, NEW r \in Request
    PROVE  Amounts[r] \in Nat /\ AtomicAmounts[r] \in Nat
BY BodyType, AtomicType DEF Amounts, AtomicAmounts

\* What was counted was reserved, and there are finitely many of both.
LEMMA CountedIsReserved ==
    ASSUME ReservedInv, NEW t \in Token
    PROVE  Counted(t) \subseteq Reserving(t) /\ IsFiniteSet(Counted(t))
<1>1. Counted(t) \subseteq Reserving(t)
  BY DEF Counted, Reserving
<1> QED
  BY <1>1, FS_Subset DEF ReservedInv

LEMMA SpendType ==
    ASSUME TypeOK, NEW t \in Token
    PROVE  SumFunctionOnSet(spend[t], 1..Days) \in Nat
<1>1. IsFiniteSet(1..Days) /\ \A d \in 1..Days : spend[t][d] \in Nat
  BY BoundsAssumption, FS_Interval DEF TypeOK
<1> QED
  BY <1>1, SumType

\* What is cut off is less than an atomic unit of each amount.
LEMMA CutOff ==
    ASSUME NEW S, IsFiniteSet(S), NEW f, NEW g,
           \A z \in S : f[z] \in Nat /\ g[z] = Atomic(f[z])
    PROVE  SumFunctionOnSet(f, S) <= 10 * SumFunctionOnSet(g, S) + 9 * Cardinality(S)
<1> DEFINE Q == {U \in SUBSET S :
                    SumFunctionOnSet(f, U) <= 10 * SumFunctionOnSet(g, U) + 9 * Cardinality(U)}
<1>1. \A z \in S : f[z] \in Nat /\ g[z] \in Nat /\ f[z] <= 10 * g[z] + 9
  BY DEF Atomic
<1>2. \A U \in SUBSET S : /\ IsFiniteSet(U) /\ Cardinality(U) \in Nat
                          /\ SumFunctionOnSet(f, U) \in Nat /\ SumFunctionOnSet(g, U) \in Nat
  BY <1>1, FS_Subset, FS_CardinalityType, SumType
<1>3. {} \in Q
  BY SumEmpty, FS_EmptySet
<1>4. ASSUME NEW U \in SUBSET S, NEW x \in S, U \in Q PROVE U \cup {x} \in Q
  <2>1. CASE x \in U
    <3>1. U \cup {x} = U
      BY <2>1
    <3> QED
      BY <1>4, <3>1
  <2>2. CASE x \notin U
    <3>1. SumFunctionOnSet(f, U \cup {x}) = SumFunctionOnSet(f, U) + f[x]
      BY <1>1, <1>2, <2>2, SumMore
    <3>2. SumFunctionOnSet(g, U \cup {x}) = SumFunctionOnSet(g, U) + g[x]
      BY <1>1, <1>2, <2>2, SumMore
    <3>3. Cardinality(U \cup {x}) = Cardinality(U) + 1
      BY <1>2, <2>2, FS_AddElement
    <3>4. SumFunctionOnSet(f, U) <= 10 * SumFunctionOnSet(g, U) + 9 * Cardinality(U)
      BY <1>4
    <3>5. SumFunctionOnSet(f, U \cup {x})
            <= 10 * SumFunctionOnSet(g, U \cup {x}) + 9 * Cardinality(U \cup {x})
      BY <1>1, <1>2, <3>1, <3>2, <3>3, <3>4
    <3> QED
      BY <3>5
  <2> QED
    BY <2>1, <2>2
<1>5. \A U \in SUBSET S : U \in Q
  <2> HIDE DEF Q
  <2> QED
    BY <1>3, <1>4, FiniteInduction
<1> QED
  BY <1>5

\* Nothing is spent at first.
LEMMA InitSpend == Init => SpendInv
<1> SUFFICES ASSUME Init PROVE SpendInv
  OBVIOUS
<1>1. ASSUME NEW t \in Token
      PROVE  /\ Reserving(t) = {} /\ Counted(t) = {}
             /\ reserved[t] = 0 /\ MaxSpend[t] \in Nat
             /\ SumFunctionOnSet(spend[t], 1..Days) \in Nat
  <2>1. Reserving(t) = {} /\ Counted(t) = {} /\ reserved[t] = 0 /\ MaxSpend[t] \in Nat
    BY BoundsAssumption DEF Init, Reserving, Counted
  <2>2. IsFiniteSet(1..Days) /\ \A d \in 1..Days : spend[t][d] \in Nat
    BY BoundsAssumption, FS_Interval DEF Init
  <2> QED
    BY <2>1, <2>2, SumType
<1>2. /\ IsFiniteSet({}) /\ SumFunctionOnSet(AtomicAmounts, {}) = 0
      /\ SumFunctionOnSet(Amounts, {}) = 0
  BY FS_EmptySet, SumEmpty
<1> HIDE DEF Reserving, Counted, Amounts, AtomicAmounts
<1>3. ASSUME NEW t \in Token
      PROVE  /\ IsFiniteSet(Reserving(t))
             /\ SumFunctionOnSet(AtomicAmounts, Reserving(t)) = 0
             /\ SumFunctionOnSet(Amounts, Counted(t)) = 0
  BY <1>1, <1>2, Zenon
<1>4. ReservedInv
  BY <1>1, <1>3 DEF ReservedInv
<1>5. CountedInv
  BY <1>1, <1>3 DEF CountedInv
<1> QED
  BY <1>4, <1>5 DEF SpendInv

\* A step that adds to no reservation takes requests out of the sum at most.
LEMMA NoReservation ==
    ASSUME TypeOK, ReservedInv, UNCHANGED <<body, reserved>>,
           \A t \in Token : Reserving(t)' \subseteq Reserving(t)
    PROVE  ReservedInv'
<1>1. AtomicAmounts' = AtomicAmounts
  BY DEF AtomicAmounts
<1> SUFFICES ASSUME NEW t \in Token
             PROVE  /\ IsFiniteSet(Reserving(t)')
                    /\ SumFunctionOnSet(AtomicAmounts, Reserving(t)') <= reserved[t]
                    /\ reserved[t] <= MaxSpend[t]
  BY <1>1 DEF ReservedInv
<1>2. IsFiniteSet(Reserving(t)) /\ \A r \in Reserving(t) : AtomicAmounts[r] \in Nat
  BY AmountsType DEF ReservedInv, Reserving
<1>3. IsFiniteSet(Reserving(t)')
  BY <1>2, FS_Subset
<1> HIDE DEF Reserving
<1>4. /\ SumFunctionOnSet(AtomicAmounts, Reserving(t)')
            <= SumFunctionOnSet(AtomicAmounts, Reserving(t))
      /\ SumFunctionOnSet(AtomicAmounts, Reserving(t)') \in Nat
      /\ SumFunctionOnSet(AtomicAmounts, Reserving(t)) \in Nat
  BY <1>2, <1>3, SumOfPart, SumType
<1>5. reserved[t] \in Nat
  BY DEF TypeOK
<1> QED
  BY <1>3, <1>4, <1>5 DEF ReservedInv

\* The same of the count.
LEMMA NoCount ==
    ASSUME TypeOK, ReservedInv, CountedInv, UNCHANGED <<body, spend>>,
           \A t \in Token : Counted(t)' \subseteq Counted(t)
    PROVE  CountedInv'
<1>1. Amounts' = Amounts
  BY DEF Amounts
<1> SUFFICES ASSUME NEW t \in Token
             PROVE  SumFunctionOnSet(Amounts, Counted(t)')
                        <= SumFunctionOnSet(spend[t], 1..Days)
  BY <1>1 DEF CountedInv
<1>2. IsFiniteSet(Counted(t)) /\ \A r \in Counted(t) : Amounts[r] \in Nat
  BY CountedIsReserved, AmountsType DEF Counted
<1>3. IsFiniteSet(Counted(t)')
  BY <1>2, FS_Subset
<1>4. SumFunctionOnSet(spend[t], 1..Days) \in Nat
  BY SpendType
<1>5. /\ SumFunctionOnSet(Amounts, Counted(t)') <= SumFunctionOnSet(Amounts, Counted(t))
      /\ SumFunctionOnSet(Amounts, Counted(t)') \in Nat
      /\ SumFunctionOnSet(Amounts, Counted(t)) \in Nat
  BY <1>2, <1>3, SumOfPart, SumType
<1> QED
  BY <1>4, <1>5 DEF CountedInv

\* authorize reserves what it lets pass, and lets pass what is within the cap.
LEMMA AuthorizeSpend ==
    ASSUME IInv, SpendInv, NEW r \in Request, Authorize(r)
    PROVE  SpendInv'
<1>0. PICK a \in Token : a = body[r].token
  BY BodyType DEF IInv
<1>1. TypeOK /\ ReservedInv /\ CountedInv /\ r \notin posted
  BY DEF IInv, SpendInv, PostedInv, BeforePost, Authorize
<1>2. UNCHANGED <<body, spend, posted>> /\ pc \in [Request -> {"idle", "authorize", "scope",
        "velocity", "count", "pay", "settling", "order", "mark"} \cup Answered]
  BY <1>1 DEF Authorize, goods, network, TypeOK
<1>3. CASE pc' = [pc EXCEPT ![r] = "refused"] /\ reserved' = reserved
  <2>1. \A t \in Token : /\ Reserving(t)' \subseteq Reserving(t)
                         /\ Counted(t)' \subseteq Counted(t)
    BY <1>2, <1>3 DEF Reserving, Counted
  <2> QED
    BY <1>1, <1>2, <1>3, <2>1, NoReservation, NoCount DEF SpendInv
<1>4. CASE /\ pc' = [pc EXCEPT ![r] = "scope"]
           /\ reserved[a] + Atomic(body[r].amount) <= MaxSpend[a]
           /\ reserved' = [reserved EXCEPT ![a] = reserved[a] + Atomic(body[r].amount)]
  <2>1. \A t \in Token : Counted(t)' \subseteq Counted(t)
    BY <1>2, <1>4 DEF Counted
  <2>2. CountedInv'
    BY <1>1, <1>2, <2>1, NoCount
  <2>3. AtomicAmounts' = AtomicAmounts /\ a \in Token
    BY <1>1, <1>2, BodyType DEF AtomicAmounts
  <2>4. AtomicAmounts[r] = Atomic(body[r].amount) /\ AtomicAmounts[r] \in Nat
    BY <1>1, AmountsType DEF AtomicAmounts
  <2>5. r \notin Reserving(a) /\ Reserving(a)' = Reserving(a) \cup {r}
    BY <1>0, <1>1, <1>2, <1>4 DEF Reserving, Authorize
  <2>6. \A t \in Token \ {a} : Reserving(t)' = Reserving(t) /\ reserved'[t] = reserved[t]
    BY <1>0, <1>1, <1>2, <1>4 DEF Reserving, TypeOK
  <2>7. /\ IsFiniteSet(Reserving(a)) /\ \A q \in Reserving(a) : AtomicAmounts[q] \in Nat
        /\ SumFunctionOnSet(AtomicAmounts, Reserving(a)) <= reserved[a]
    BY <1>1, <2>3, AmountsType DEF ReservedInv, Reserving
  <2>8. IsFiniteSet(Reserving(a) \cup {r})
    BY <2>7, FS_AddElement
  <2>9. /\ SumFunctionOnSet(AtomicAmounts, Reserving(a) \cup {r})
                = SumFunctionOnSet(AtomicAmounts, Reserving(a)) + AtomicAmounts[r]
        /\ SumFunctionOnSet(AtomicAmounts, Reserving(a)) \in Nat
    BY <2>4, <2>5, <2>7, SumMore, SumType
  <2>10. reserved[a] \in Nat /\ reserved'[a] = reserved[a] + AtomicAmounts[r]
    BY <1>1, <1>4, <2>3, <2>4 DEF TypeOK
  <2>11. SumFunctionOnSet(AtomicAmounts, Reserving(a) \cup {r}) <= reserved'[a]
    BY <2>4, <2>7, <2>9, <2>10
  <2>12. reserved'[a] <= MaxSpend[a]
    BY <1>4, <2>4, <2>10
  <2>13. ASSUME NEW t \in Token
         PROVE  /\ IsFiniteSet(Reserving(t)')
                /\ SumFunctionOnSet(AtomicAmounts', Reserving(t)') <= reserved'[t]
                /\ reserved'[t] <= MaxSpend[t]
    <3>1. CASE t = a
      <4>1. Reserving(t)' = Reserving(a) \cup {r} /\ reserved'[t] = reserved'[a]
        BY <2>5, <3>1
      <4>2. SumFunctionOnSet(AtomicAmounts', Reserving(t)')
                = SumFunctionOnSet(AtomicAmounts, Reserving(a) \cup {r})
        BY <2>3, <4>1
      <4> QED
        BY <2>8, <2>11, <2>12, <3>1, <4>1, <4>2
    <3>2. CASE t # a
      BY <1>1, <2>3, <2>6, <3>2 DEF ReservedInv
    <3> QED
      BY <3>1, <3>2
  <2>14. ReservedInv'
    BY <2>13 DEF ReservedInv
  <2> QED
    BY <2>2, <2>14 DEF SpendInv
<1> QED
  BY <1>0, <1>3, <1>4 DEF Authorize, Goto, Refuse

\* INCRBYFLOAT adds the amount to one day, whatever the request has read.
LEMMA CountSpend ==
    ASSUME IInv, SpendInv, NEW r \in Request, Count(r)
    PROVE  SpendInv'
<1>0. PICK a \in Token : a = body[r].token
  BY BodyType DEF IInv
<1> DEFINE d == day[r]
           before == spend[a]
           after == spend'[a]
<1>1. TypeOK /\ ReservedInv /\ CountedInv /\ r \notin posted /\ pc[r] = "count"
  BY DEF IInv, SpendInv, PostedInv, BeforePost, Count
<1>2. /\ UNCHANGED <<body, reserved, posted>>
      /\ \E next \in {"pay", "refused"} : pc' = [pc EXCEPT ![r] = next]
      /\ pc \in [Request -> {"idle", "authorize", "scope",
            "velocity", "count", "pay", "settling", "order", "mark"} \cup Answered]
  BY <1>1 DEF Count, Goto, Refuse, goods, network, TypeOK
<1>3. \A t \in Token : Reserving(t)' \subseteq Reserving(t)
  BY <1>1, <1>2 DEF Reserving
<1>4. ReservedInv'
  BY <1>1, <1>2, <1>3, NoReservation
<1>5. a \in Token /\ body[r].amount \in Nat /\ d \in 1..Days
  BY <1>1, BodyType DEF IInv, DayInv
<1>6. before \in [1..Days -> Nat] /\ spend \in [Token -> [1..Days -> Nat]]
  BY <1>1, <1>5 DEF TypeOK
<1>7. /\ after = [before EXCEPT ![d] = before[d] + body[r].amount]
      /\ \A t \in Token \ {a} : spend'[t] = spend[t]
  BY <1>0, <1>5, <1>6 DEF Count
<1>8. Amounts' = Amounts /\ Amounts[r] = body[r].amount
  BY <1>2 DEF Amounts
<1>9. /\ Counted(a)' \subseteq Counted(a) \cup {r}
      /\ \A t \in Token \ {a} : Counted(t)' \subseteq Counted(t)
      /\ r \notin Counted(a)
  BY <1>0, <1>1, <1>2 DEF Counted
<1>10. ASSUME NEW t \in Token \ {a}
       PROVE  SumFunctionOnSet(Amounts, Counted(t)')
                    <= SumFunctionOnSet(spend'[t], 1..Days)
  <2>1. IsFiniteSet(Counted(t)) /\ \A q \in Counted(t) : Amounts[q] \in Nat
    BY <1>1, CountedIsReserved, AmountsType DEF Counted
  <2>2. IsFiniteSet(Counted(t)')
    BY <1>9, <2>1, FS_Subset
  <2>3. /\ SumFunctionOnSet(Amounts, Counted(t)') <= SumFunctionOnSet(Amounts, Counted(t))
        /\ SumFunctionOnSet(Amounts, Counted(t)') \in Nat
        /\ SumFunctionOnSet(Amounts, Counted(t)) \in Nat
    BY <1>9, <2>1, <2>2, SumOfPart, SumType
  <2>4. SumFunctionOnSet(spend[t], 1..Days) \in Nat
    BY <1>1, SpendType
  <2>5. SumFunctionOnSet(Amounts, Counted(t)) <= SumFunctionOnSet(spend[t], 1..Days)
    BY <1>1 DEF CountedInv
  <2> QED
    BY <1>7, <2>3, <2>4, <2>5
<1>11. SumFunctionOnSet(after, 1..Days)
            = SumFunctionOnSet(before, 1..Days) + body[r].amount
  <2> DEFINE rest == (1..Days) \ {d}
  <2> HIDE DEF before, after, d
  <2>1. IsFiniteSet(1..Days) /\ IsFiniteSet(rest)
    <3>1. IsFiniteSet(1..Days)
      BY BoundsAssumption, FS_Interval
    <3> QED
      BY <3>1, FS_Subset
  <2>2. /\ \A e \in 1..Days : before[e] \in Nat /\ after[e] \in Nat
        /\ \A e \in rest : before[e] \in Nat /\ before[e] = after[e]
        /\ after[d] = before[d] + body[r].amount
    BY <1>5, <1>6, <1>7
  <2>3. /\ SumFunctionOnSet(before, 1..Days) = before[d] + SumFunctionOnSet(before, rest)
        /\ SumFunctionOnSet(after, 1..Days) = after[d] + SumFunctionOnSet(after, rest)
    BY <1>5, <2>1, <2>2, SumLess
  <2>4. /\ SumFunctionOnSet(before, rest) = SumFunctionOnSet(after, rest)
        /\ SumFunctionOnSet(before, rest) \in Nat
    <3> HIDE DEF rest
    <3> QED
      BY <2>1, <2>2, SumAgrees, SumType
  <2> QED
    BY <1>5, <2>2, <2>3, <2>4
<1>12. SumFunctionOnSet(Amounts, Counted(a)') <= SumFunctionOnSet(after, 1..Days)
  <2>1. IsFiniteSet(Counted(a)) /\ \A q \in Counted(a) : Amounts[q] \in Nat
    BY <1>1, <1>5, CountedIsReserved, AmountsType DEF Counted
  <2>2. IsFiniteSet(Counted(a) \cup {r}) /\ \A q \in Counted(a) \cup {r} : Amounts[q] \in Nat
    BY <1>1, <2>1, FS_AddElement, AmountsType
  <2>3. IsFiniteSet(Counted(a)')
    BY <1>9, <2>2, FS_Subset
  <2>4. SumFunctionOnSet(Amounts, Counted(a) \cup {r})
            = SumFunctionOnSet(Amounts, Counted(a)) + body[r].amount
    BY <1>5, <1>8, <1>9, <2>1, SumMore
  <2>5. SumFunctionOnSet(Amounts, Counted(a)')
            <= SumFunctionOnSet(Amounts, Counted(a) \cup {r})
    BY <1>9, <2>2, SumOfPart
  <2>6. /\ SumFunctionOnSet(Amounts, Counted(a)') \in Nat
        /\ SumFunctionOnSet(Amounts, Counted(a)) \in Nat
    BY <1>9, <2>1, <2>2, <2>3, SumType
  <2>7. SumFunctionOnSet(before, 1..Days) \in Nat
    BY <1>1, <1>5, SpendType
  <2>8. SumFunctionOnSet(Amounts, Counted(a)) <= SumFunctionOnSet(before, 1..Days)
    BY <1>1, <1>5 DEF CountedInv
  <2> QED
    BY <1>5, <1>11, <2>4, <2>5, <2>6, <2>7, <2>8
<1>13. ASSUME NEW t \in Token
       PROVE  SumFunctionOnSet(Amounts', Counted(t)') <= SumFunctionOnSet(spend'[t], 1..Days)
  <2>1. CASE t = a
    <3>1. SumFunctionOnSet(Amounts', Counted(t)') = SumFunctionOnSet(Amounts, Counted(a)')
      BY <1>8, <2>1
    <3>2. SumFunctionOnSet(spend'[t], 1..Days) = SumFunctionOnSet(after, 1..Days)
      BY <2>1
    <3> QED
      BY <1>12, <3>1, <3>2
  <2>2. CASE t # a
    BY <1>8, <1>10, <2>2
  <2> QED
    BY <2>1, <2>2
<1>14. CountedInv'
  BY <1>13 DEF CountedInv
<1> QED
  BY <1>4, <1>14 DEF SpendInv

\* No other step adds to a counter or brings a request beyond one.
LEMMA NextSpend == IInv /\ SpendInv /\ [Next]_vars => SpendInv'
<1> SUFFICES ASSUME IInv, SpendInv, [Next]_vars PROVE SpendInv'
  OBVIOUS
<1>1. TypeOK /\ ReservedInv /\ CountedInv
  BY DEF IInv, SpendInv
<1>2. ASSUME UNCHANGED <<body, reserved, spend>>,
             \A t \in Token : /\ Reserving(t)' \subseteq Reserving(t)
                              /\ Counted(t)' \subseteq Counted(t)
      PROVE  SpendInv'
  BY <1>1, <1>2, NoReservation, NoCount DEF SpendInv
<1>3. ASSUME NEW r \in Request,
             \/ Start(r) \/ VerifyScope(r) \/ ReadSpend(r) \/ Post(r) \/ PaymentSettles(r)
             \/ PaymentFails(r) \/ CreateOrder(r) \/ MarkPurchased(r) \/ Fail(r)
      PROVE  SpendInv'
  <2>1. UNCHANGED <<body, reserved, spend>>
    BY <1>3 DEF Start, VerifyScope, ReadSpend, Post, PaymentSettles, PaymentFails,
                CreateOrder, MarkPurchased, Fail, counters
  <2>2. \E next : pc' = [pc EXCEPT ![r] = next]
    BY <1>3 DEF Start, VerifyScope, ReadSpend, Post, PaymentSettles, PaymentFails,
                CreateOrder, MarkPurchased, Fail, Goto, Refuse
  <2>3. \A q \in Request \ {r} : pc'[q] = pc[q] /\ (q \in posted' <=> q \in posted)
    BY <1>1, <1>3, <2>2 DEF TypeOK, Start, VerifyScope, ReadSpend, Post, PaymentSettles,
            PaymentFails, CreateOrder, MarkPurchased, Fail, network
  <2>4. \/ pc'[r] \notin {"scope", "velocity", "count", "pay"} /\ r \notin posted'
        \/ r \in posted' /\ (r \in posted \/ pc[r] = "pay")
        \/ /\ pc[r] \in {"scope", "velocity"} /\ pc'[r] \in {"velocity", "count"}
           /\ r \notin posted'
    <3> USE <1>1 DEF IInv, TypeOK, PostedInv, BeforePost, AfterPost
    <3>1. CASE Start(r)
      BY <3>1 DEF Start, Goto, network
    <3>2. CASE VerifyScope(r)
      BY <3>2 DEF VerifyScope, Goto, Refuse, network
    <3>3. CASE ReadSpend(r)
      BY <3>3 DEF ReadSpend, Goto, Refuse, network
    <3>4. CASE Post(r)
      BY <3>4 DEF Post
    <3>5. CASE PaymentSettles(r) \/ PaymentFails(r)
      BY <3>5 DEF PaymentSettles, PaymentFails, network
    <3>6. CASE CreateOrder(r) \/ MarkPurchased(r)
      BY <3>6 DEF CreateOrder, MarkPurchased, network
    <3>7. CASE Fail(r)
      BY <3>7 DEF Fail, Refuse, network
    <3> QED
      BY <1>3, <3>1, <3>2, <3>3, <3>4, <3>5, <3>6, <3>7
  <2>5. \A t \in Token : /\ Reserving(t)' \subseteq Reserving(t)
                         /\ Counted(t)' \subseteq Counted(t)
    BY <2>1, <2>3, <2>4 DEF Reserving, Counted
  <2> QED
    BY <1>2, <2>1, <2>5
<1>4. ASSUME NEW r \in Request, Authorize(r) PROVE SpendInv'
  BY <1>4, AuthorizeSpend
<1>5. ASSUME NEW r \in Request, Count(r) PROVE SpendInv'
  BY <1>5, CountSpend
<1>6. ASSUME \/ \E p \in Payment, outcome \in {"success", "failed"} : Include(p, outcome)
             \/ NextDay \/ UNCHANGED vars
      PROVE  SpendInv'
  <2>1. UNCHANGED <<pc, body, reserved, spend, posted>>
    BY <1>6 DEF Include, NextDay, vars, request, counters, network
  <2>2. \A t \in Token : Reserving(t)' = Reserving(t) /\ Counted(t)' = Counted(t)
    BY <2>1 DEF Reserving, Counted
  <2> QED
    BY <1>2, <2>1, <2>2
<1> QED
  BY <1>3, <1>4, <1>5, <1>6 DEF Next, Handle

----------------------------------------------------------------------------
(* The theorems *)

\* The inductive invariant of the checkout.
THEOREM Invariance == Spec => []IInv
BY InitIInv, NextIInv, PTL DEF Spec

\* Every state of the requests, the counters and the goods is well typed, and every
\* refusal has a code of the registry that can be sent.
THEOREM TypeCorrect == Spec => []TypeOK
<1>1. IInv => TypeOK
  BY DEF IInv
<1> QED
  BY <1>1, Invariance, PTL

\* Nothing is ordered or handed over without its payment, whatever is lost or late.
THEOREM PurchasesArePaid == Spec => []PurchasedWasPaid
<1>1. IInv => PurchasedWasPaid
  BY DEF IInv
<1> QED
  BY <1>1, Invariance, PTL

\* A code that invites to retry is only given when nothing was posted.
THEOREM RetriesAreFree == Spec => []RetryIsFree
<1>1. IInv => RetryIsFree
  BY AfterInvitesNothing DEF IInv, AnswerInv, RetryIsFree
<1> QED
  BY <1>1, Invariance, PTL

\* The inductive invariant of the two counters.
THEOREM SpendInvariance == Spec => []SpendInv
BY InitSpend, NextSpend, Invariance, PTL DEF Spec

\* However many checkouts run side by side, fail or time out: what those that were posted
\* declared is within the lifetime cap of their token, up to the digits that are cut off.
THEOREM DeclaredAmountsCapped == Spec => []DeclaredWithinCap
<1>1. IInv /\ SpendInv => DeclaredWithinCap
  <2> SUFFICES ASSUME IInv, SpendInv, NEW t \in Token
               PROVE  Declared(PostedBy(t)) <= 10 * MaxSpend[t] + 9 * Cardinality(PostedBy(t))
    BY DEF DeclaredWithinCap
  <2>1. PostedBy(t) \subseteq Reserving(t) /\ PostedBy(t) \subseteq Request
    BY DEF PostedBy, Reserving, IInv, TypeOK
  <2>2. IsFiniteSet(Reserving(t)) /\ IsFiniteSet(PostedBy(t))
    BY <2>1, FS_Subset DEF SpendInv, ReservedInv
  <2>3. \A r \in Reserving(t) : /\ Amounts[r] \in Nat /\ AtomicAmounts[r] \in Nat
                                /\ AtomicAmounts[r] = Atomic(Amounts[r])
    BY AmountsType DEF Reserving, Amounts, AtomicAmounts, IInv
  <2>4. SumFunctionOnSet(Amounts, PostedBy(t))
            <= 10 * SumFunctionOnSet(AtomicAmounts, PostedBy(t)) + 9 * Cardinality(PostedBy(t))
    BY <2>1, <2>2, <2>3, CutOff
  <2>5. SumFunctionOnSet(AtomicAmounts, PostedBy(t))
            <= SumFunctionOnSet(AtomicAmounts, Reserving(t))
    BY <2>1, <2>2, <2>3, SumOfPart
  <2>6. /\ SumFunctionOnSet(Amounts, PostedBy(t)) \in Nat
        /\ SumFunctionOnSet(AtomicAmounts, PostedBy(t)) \in Nat
        /\ SumFunctionOnSet(AtomicAmounts, Reserving(t)) \in Nat
        /\ Cardinality(PostedBy(t)) \in Nat
    BY <2>1, <2>2, <2>3, SumType, FS_CardinalityType
  <2>7. /\ SumFunctionOnSet(AtomicAmounts, Reserving(t)) <= reserved[t]
        /\ reserved[t] <= MaxSpend[t] /\ reserved[t] \in Nat /\ MaxSpend[t] \in Nat
    BY BoundsAssumption DEF SpendInv, ReservedInv, IInv, TypeOK
  <2>8. Declared(PostedBy(t)) = SumFunctionOnSet(Amounts, PostedBy(t))
    BY DEF Declared, Amounts
  <2> QED
    BY <2>4, <2>5, <2>6, <2>7, <2>8
<1> QED
  BY <1>1, Invariance, SpendInvariance, PTL

\* What a posted request declared was counted on some day, also when two requests read the same spend.
THEOREM PaymentsAreCounted == Spec => []PaymentsCounted
<1>1. IInv /\ SpendInv => PaymentsCounted
  <2> SUFFICES ASSUME IInv, SpendInv, NEW t \in Token
               PROVE  Declared(PostedBy(t)) <= SumFunctionOnSet(spend[t], 1..Days)
    BY DEF PaymentsCounted
  <2>1. PostedBy(t) \subseteq Counted(t) /\ IsFiniteSet(Counted(t))
    BY CountedIsReserved DEF PostedBy, Counted, SpendInv, IInv, TypeOK
  <2>2. IsFiniteSet(PostedBy(t)) /\ \A r \in Counted(t) : Amounts[r] \in Nat
    BY <2>1, FS_Subset, AmountsType DEF Counted, IInv
  <2>3. /\ SumFunctionOnSet(Amounts, PostedBy(t)) <= SumFunctionOnSet(Amounts, Counted(t))
        /\ SumFunctionOnSet(Amounts, PostedBy(t)) \in Nat
        /\ SumFunctionOnSet(Amounts, Counted(t)) \in Nat
    BY <2>1, <2>2, SumOfPart, SumType
  <2>4. SumFunctionOnSet(spend[t], 1..Days) \in Nat
    BY SpendType DEF IInv
  <2>5. SumFunctionOnSet(Amounts, Counted(t)) <= SumFunctionOnSet(spend[t], 1..Days)
    BY DEF SpendInv, CountedInv
  <2>6. Declared(PostedBy(t)) = SumFunctionOnSet(Amounts, PostedBy(t))
    BY DEF Declared, Amounts
  <2> QED
    BY <2>3, <2>4, <2>5, <2>6
<1> QED
  BY <1>1, Invariance, SpendInvariance, PTL

=============================================================================
