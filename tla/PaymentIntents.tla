--------------------------- MODULE PaymentIntents ---------------------------
(***************************************************************************)
(* Payment intents: PaymentIntentService, the settlement reconciliation    *)
(* service, their PostgreSQL repository and the Stellar gateway.           *)
(*                                                                         *)
(* Every HTTP request runs in a handler p \in Handler.  A handler is split *)
(* at each await: an action is the code from one answer of the database or *)
(* of Horizon to the next call, and held[p] is what the code keeps in its  *)
(* local variables meanwhile (so it may be stale when it is used).  One    *)
(* SQL statement, or one BEGIN..COMMIT, is atomic.  A request that is      *)
(* refused before it wrote anything leaves no trace and has no action.     *)
(*                                                                         *)
(* The Stellar ledger is external: it may lose a transaction, apply it     *)
(* late (never after its time bound) and let it fail.                      *)
(*                                                                         *)
(* An operator named Faulty... is the one after it with a plausible bug.   *)
(* No action uses it: it is there to show that a property can be broken.   *)
(***************************************************************************)
EXTENDS Integers, FiniteSets

CONSTANTS
    Intent,         \* intent ids (randomUUID); also the transaction hashes
    Quote,          \* approved quotes, each with one order
    Principal, Payer, Key,
    Handler,        \* concurrent requests the server is running
    QuotePrincipal, \* [Quote -> Principal]
    QuotePayer,     \* [Quote -> Payer]
    QuoteExpiry,    \* [Quote -> Nat]
    MaxTtl,         \* longest time bound of a transaction, in clock units
    MaxTime,        \* bound of the clock
    NoIntent, NoQuote, NoRow, NoAsk

ASSUME QuoteAssumption ==
    /\ QuotePrincipal \in [Quote -> Principal]
    /\ QuotePayer \in [Quote -> Payer]
    /\ QuoteExpiry \in [Quote -> Nat]
ASSUME ClockAssumption == MaxTtl \in Nat \ {0} /\ MaxTime \in Nat
ASSUME NullAssumption ==
    /\ NoIntent \notin Intent
    /\ NoQuote \notin Quote
    /\ NoRow \notin [quote : Quote, key : Key, expiresAt : Nat]
    /\ NoAsk \notin [principal : Principal, quote : Quote, key : Key]

VARIABLES
    now,        \* the clock of the server
    quotes,     \* commerce_quotes: the rows saved
    order,      \* commerce_orders.status, by quote
    paidBy,     \* commerce_orders.stellar_transaction_hash, by quote
    row,        \* payment_intents: the columns no statement updates
    status,     \* payment_intents.status
    attempts,   \* payment_attempts: rows per intent and outcome
    ledger,     \* Horizon's view of the intent's transaction
    posts,      \* how often the transaction was posted to Horizon
    pc, held,   \* where each handler is, and its local variables
    granted     \* history: which intent each createIntent request was given

rows == <<quotes, order, paidBy, row, status, attempts>>
vars == <<now, rows, ledger, posts, pc, held, granted>>

----------------------------------------------------------------------------
Indeterminate == {"submitting", "submitted"}
Active == {"awaiting_signature"} \cup Indeterminate
Settled == {"confirmed", "failed"}
Status == {"absent", "expired"} \cup Active \cup Settled
OrderStatus == {"absent", "pending_payment", "paid", "payment_failed"}
LedgerView == {"none", "queued", "success", "failed"}

Row == [quote : Quote, key : Key, expiresAt : Nat]
Ask == [principal : Principal, quote : Quote, key : Key]

\* Before which call a handler is waiting.
Label ==
    {"idle", "quote", "expire", "build", "insert", "raced", "get", "expiring",
     "claim", "post", "horizon", "mark", "lookup", "settleConfirmed",
     "settleFailed"}
Local == [intent : Intent \cup {NoIntent}, status : Status,
          ask : Ask \cup {NoAsk}, time : Nat]
Nothing == [intent |-> NoIntent, status |-> "absent", ask |-> NoAsk, time |-> 0]

Exists(i) == status[i] # "absent"
PayerOf(i) == QuotePayer[row[i].quote]

\* The row a SELECT by (principal_id, idempotency_key) returns.
HasKey(i, a) ==
    /\ Exists(i)
    /\ QuotePrincipal[row[i].quote] = a.principal
    /\ row[i].key = a.key
\* Same request fingerprint, a hash of the principal and the quote.
SamePayload(i, a) == row[i].quote = a.quote

Init ==
    /\ now = 0
    /\ quotes = {}
    /\ order = [q \in Quote |-> "absent"]
    /\ paidBy = [q \in Quote |-> NoIntent]
    /\ row = [i \in Intent |-> NoRow]
    /\ status = [i \in Intent |-> "absent"]
    /\ attempts = [i \in Intent |-> [s \in Settled |-> 0]]
    /\ ledger = [i \in Intent |-> "none"]
    /\ posts = [i \in Intent |-> 0]
    /\ pc = [p \in Handler |-> "idle"]
    /\ held = [p \in Handler |-> Nothing]
    /\ granted = {}

----------------------------------------------------------------------------
(* Steps of a handler. *)

Goto(p, label, local) ==
    /\ pc' = [pc EXCEPT ![p] = label]
    /\ held' = [held EXCEPT ![p] = local]

\* The handler answers its caller, with a result or an error.
Return(p) == Goto(p, "idle", Nothing)

Holding(p, i, s) == [held[p] EXCEPT !.intent = i, !.status = s]

\* PaymentIntentService.reconcile and SettlementReconciliationService's resolve
\* first look at the snapshot they were given: only an indeterminate one is
\* looked up on the ledger.
FaultyReconcile(p, i, s) == Goto(p, "lookup", Holding(p, i, s))
FaultyReconcileSubmitted(p, i, s) ==
    IF s = "submitted" THEN Goto(p, "lookup", Holding(p, i, s))
                       ELSE Return(p)
Reconcile(p, i, s) ==
    IF s \in Indeterminate THEN Goto(p, "lookup", Holding(p, i, s))
                           ELSE Return(p)

Tick ==
    /\ now < MaxTime
    /\ now' = now + 1
    /\ UNCHANGED <<rows, ledger, posts, pc, held, granted>>

\* A dependency throws, or the server dies: the request is gone, what it
\* wrote stays.  Nothing in the code undoes or resumes it.
Abort(p) ==
    /\ pc[p] # "idle"
    /\ Return(p)
    /\ UNCHANGED <<now, rows, ledger, posts, granted>>

----------------------------------------------------------------------------
(* saveApprovedQuote: two statements, no transaction around them. *)

SaveQuote(q) ==
    /\ quotes' = quotes \cup {q}
    /\ UNCHANGED <<now, order, paidBy, row, status, attempts, ledger, posts,
                   pc, held, granted>>

SaveOrder(q) ==
    /\ q \in quotes
    /\ order[q] = "absent"
    /\ order' = [order EXCEPT ![q] = "pending_payment"]
    /\ UNCHANGED <<now, quotes, paidBy, row, status, attempts, ledger, posts,
                   pc, held, granted>>

----------------------------------------------------------------------------
(* createIntent *)

Grant(p, a, i) ==
    /\ granted' = granted \cup {[ask |-> a, intent |-> i]}
    /\ Return(p)

\* A row found under the caller's key is returned if it was made for the same
\* request, and refused otherwise.
Replay(p, a) ==
    \E i \in Intent :
        /\ HasKey(i, a)
        /\ SamePayload(i, a)
        /\ Grant(p, a, i)

CreateIntent(p, a) ==
    /\ pc[p] = "idle"
    /\ \/ Replay(p, a)
       \/ /\ \A i \in Intent : ~HasKey(i, a)
          /\ Goto(p, "quote", [Nothing EXCEPT !.ask = a])
          /\ UNCHANGED granted
    /\ UNCHANGED <<now, rows, ledger, posts>>

\* findApprovedQuote and the checks on it; `now` is read once, here.
FindQuote(p) ==
    LET q == held[p].ask.quote IN
    /\ pc[p] = "quote"
    /\ IF /\ q \in quotes
          /\ QuotePrincipal[q] = held[p].ask.principal
          /\ now < QuoteExpiry[q]
       THEN Goto(p, "expire", [held[p] EXCEPT !.time = now])
       ELSE Return(p)
    /\ UNCHANGED <<now, rows, ledger, posts, granted>>

\* expireUnsignedForPayer: one UPDATE, as of the time read with the quote.
LapsedOf(payer, asOf) ==
    {i \in Intent : /\ status[i] = "awaiting_signature"
                    /\ PayerOf(i) = payer
                    /\ row[i].expiresAt <= asOf}

ExpireUnsigned(p) ==
    LET lapsed == LapsedOf(QuotePayer[held[p].ask.quote], held[p].time) IN
    /\ pc[p] = "expire"
    /\ status' = [i \in Intent |-> IF i \in lapsed THEN "expired" ELSE status[i]]
    /\ Goto(p, "build", held[p])
    /\ UNCHANGED <<now, quotes, order, paidBy, row, attempts, ledger, posts,
                   granted>>

\* buildUnsignedTransaction reads the clock again: the time bound never passes
\* the quote's own expiry, and a quote that has run out meanwhile is refused.
FaultyBuild(p) ==
    /\ pc[p] = "build"
    /\ Goto(p, "insert", [held[p] EXCEPT !.time = now + MaxTtl])
    /\ UNCHANGED <<now, rows, ledger, posts, granted>>
Build(p) ==
    LET remaining == QuoteExpiry[held[p].ask.quote] - now
        ttl == IF remaining < MaxTtl THEN remaining ELSE MaxTtl
    IN
    /\ pc[p] = "build"
    /\ IF ttl >= 1 THEN Goto(p, "insert", [held[p] EXCEPT !.time = now + ttl])
                   ELSE Return(p)
    /\ UNCHANGED <<now, rows, ledger, posts, granted>>

\* The unique constraints of payment_intents.
FaultyUniquePayer(a) == \A i \in Intent : ~HasKey(i, a)
FaultyUniqueKey(a) ==
    ~\E i \in Intent : /\ status[i] \in Active
                       /\ PayerOf(i) = QuotePayer[a.quote]
Unique(a) ==
    \A i \in Intent :
        /\ ~HasKey(i, a)
        /\ status[i] \in Active => PayerOf(i) # QuotePayer[a.quote]

\* insertIntent.  The row's order must exist (foreign key); any violation but
\* a unique one ends the request.
Insert(p) ==
    LET a == held[p].ask IN
    /\ pc[p] = "insert"
    /\ \/ /\ order[a.quote] # "absent"
          /\ Unique(a)
          /\ \E i \in Intent :
              /\ ~Exists(i)
              /\ row' = [row EXCEPT ![i] = [quote |-> a.quote, key |-> a.key,
                                            expiresAt |-> held[p].time]]
              /\ status' = [status EXCEPT ![i] = "awaiting_signature"]
              /\ Grant(p, a, i)
       \/ /\ ~Unique(a)
          /\ Goto(p, "raced", held[p])
          /\ UNCHANGED <<row, status, granted>>
    /\ UNCHANGED <<now, quotes, order, paidBy, attempts, ledger, posts>>

\* The insert lost a race: answer with the row that won if it is under our key
\* and for our request, else refuse.
Raced(p) ==
    LET a == held[p].ask IN
    /\ pc[p] = "raced"
    /\ \/ Replay(p, a)
       \/ /\ \A i \in Intent : ~(HasKey(i, a) /\ SamePayload(i, a))
          /\ Return(p)
          /\ UNCHANGED granted
    /\ UNCHANGED <<now, rows, ledger, posts>>

----------------------------------------------------------------------------
(* getIntent *)

Read(p, i) ==
    IF status[i] = "awaiting_signature" /\ row[i].expiresAt <= now
    THEN Goto(p, "expiring", Holding(p, i, status[i]))
    ELSE Reconcile(p, i, status[i])

GetIntent(p, i) ==
    /\ pc[p] = "idle"
    /\ Exists(i)
    /\ Read(p, i)
    /\ UNCHANGED <<now, rows, ledger, posts, granted>>

\* compareAndSet: UPDATE ... WHERE intent_id = i AND status = expected.
FaultyCompareAndSet(i, expected, next) ==
    status' = [status EXCEPT ![i] = next]
CompareAndSet(i, expected, next) ==
    status' = IF status[i] = expected THEN [status EXCEPT ![i] = next]
                                      ELSE status

\* The snapshot is used whether or not the update took place, and it is not
\* indeterminate in either case.
ExpireOnRead(p) ==
    /\ pc[p] = "expiring"
    /\ CompareAndSet(held[p].intent, "awaiting_signature", "expired")
    /\ Return(p)
    /\ UNCHANGED <<now, quotes, order, paidBy, row, attempts, ledger, posts,
                   granted>>

----------------------------------------------------------------------------
(* submitSignedTransaction *)

\* The body carries a transaction signed by the payer with the intent's hash;
\* any other is refused.  A settled intent is returned as it is.
SubmitSigned(p, i) ==
    /\ pc[p] = "idle"
    /\ \/ /\ status[i] = "awaiting_signature"
          /\ now < row[i].expiresAt
          /\ Goto(p, "claim", Holding(p, i, status[i]))
       \/ /\ status[i] \in Indeterminate
          /\ Reconcile(p, i, status[i])
    /\ UNCHANGED <<now, rows, ledger, posts, granted>>

\* Only the handler that moves the intent to submitting may post it; the
\* others start over as getIntent.
FaultyClaim(p) ==
    LET i == held[p].intent IN
    /\ pc[p] = "claim"
    /\ CompareAndSet(i, "awaiting_signature", "submitting")
    /\ Goto(p, "post", Holding(p, i, "submitting"))
    /\ UNCHANGED <<now, quotes, order, paidBy, row, attempts, ledger, posts,
                   granted>>
Claim(p) ==
    LET i == held[p].intent IN
    /\ pc[p] = "claim"
    /\ CompareAndSet(i, "awaiting_signature", "submitting")
    /\ IF status[i] = "awaiting_signature"
       THEN Goto(p, "post", Holding(p, i, "submitting"))
       ELSE Goto(p, "get", held[p])
    /\ UNCHANGED <<now, quotes, order, paidBy, row, attempts, ledger, posts,
                   granted>>

GetAgain(p) ==
    /\ pc[p] = "get"
    /\ Read(p, held[p].intent)
    /\ UNCHANGED <<now, rows, ledger, posts, granted>>

\* The POST leaves the server.  Horizon may queue the transaction or not, and
\* what it answers may never arrive.
PostTransaction(p) ==
    LET i == held[p].intent IN
    /\ pc[p] = "post"
    /\ posts' = [posts EXCEPT ![i] = @ + 1]
    /\ \/ ledger' = [ledger EXCEPT ![i] = IF @ = "none" THEN "queued" ELSE @]
       \/ UNCHANGED ledger
    /\ Goto(p, "horizon", held[p])
    /\ UNCHANGED <<now, rows, granted>>

\* Horizon answers a POST with success once the transaction is in a ledger.
HorizonAccepts(p) ==
    /\ pc[p] = "horizon"
    /\ ledger[held[p].intent] = "success"
    /\ Goto(p, "mark", held[p])
    /\ UNCHANGED <<now, rows, ledger, posts, granted>>

\* Any other answer, or none in time, throws OUTCOME_INDETERMINATE: the intent
\* stays submitting and no handler posts it again.
HorizonFails(p) ==
    /\ pc[p] = "horizon"
    /\ Return(p)
    /\ UNCHANGED <<now, rows, ledger, posts, granted>>

\* The result of this update is ignored.
MarkSubmitted(p) ==
    LET i == held[p].intent IN
    /\ pc[p] = "mark"
    /\ CompareAndSet(i, "submitting", "submitted")
    /\ Reconcile(p, i, "submitted")
    /\ UNCHANGED <<now, quotes, order, paidBy, row, attempts, ledger, posts,
                   granted>>

----------------------------------------------------------------------------
(* Reconciliation: by getIntent, by a submission, by the manual route and by *)
(* each round of a batch sweep.                                              *)

\* findIntentById, or one row of findIndeterminate.
ReconcileIntent(p, i) ==
    /\ pc[p] = "idle"
    /\ status[i] \in Indeterminate
    /\ Reconcile(p, i, status[i])
    /\ UNCHANGED <<now, rows, ledger, posts, granted>>

\* lookupTransaction: not_found changes nothing.
FaultyLookup(p) ==
    /\ pc[p] = "lookup"
    /\ CASE ledger[held[p].intent] \in {"success", "queued"} ->
                Goto(p, "settleConfirmed", held[p])
         [] ledger[held[p].intent] = "failed" ->
                Goto(p, "settleFailed", held[p])
         [] OTHER -> Return(p)
    /\ UNCHANGED <<now, rows, ledger, posts, granted>>
Lookup(p) ==
    /\ pc[p] = "lookup"
    /\ CASE ledger[held[p].intent] = "success" ->
                Goto(p, "settleConfirmed", held[p])
         [] ledger[held[p].intent] = "failed" ->
                Goto(p, "settleFailed", held[p])
         [] OTHER -> Return(p)
    /\ UNCHANGED <<now, rows, ledger, posts, granted>>

(* settleConfirmed and settleFailed: one transaction that updates the intent *)
(* if it is still as the handler saw it, then its order, then inserts a      *)
(* payment attempt.  An order in another state rolls all of it back.         *)

AsSeen(p) == status[held[p].intent] = held[p].status
PayableOrder(i) ==
    LET q == row[i].quote IN
    \/ order[q] = "pending_payment"
    \/ order[q] = "paid" /\ paidBy[q] = i
FaultyFailableOrder(i) == order[row[i].quote] # "absent"
FailableOrder(i) == order[row[i].quote] \in {"pending_payment", "payment_failed"}

Settle(i, outcome, orderAfter) ==
    /\ status' = [status EXCEPT ![i] = outcome]
    /\ order' = [order EXCEPT ![row[i].quote] = orderAfter]
    /\ attempts' = [attempts EXCEPT ![i][outcome] = @ + 1]

SettleConfirmed(p) ==
    LET i == held[p].intent IN
    /\ pc[p] = "settleConfirmed"
    /\ \/ /\ AsSeen(p) /\ PayableOrder(i)
          /\ Settle(i, "confirmed", "paid")
          /\ paidBy' = [paidBy EXCEPT ![row[i].quote] = i]
       \/ /\ ~(AsSeen(p) /\ PayableOrder(i))
          /\ UNCHANGED <<status, order, attempts, paidBy>>
    /\ Return(p)
    /\ UNCHANGED <<now, quotes, row, ledger, posts, granted>>

SettleFailed(p) ==
    LET i == held[p].intent IN
    /\ pc[p] = "settleFailed"
    /\ \/ /\ AsSeen(p) /\ FailableOrder(i)
          /\ Settle(i, "failed", "payment_failed")
       \/ /\ ~(AsSeen(p) /\ FailableOrder(i))
          /\ UNCHANGED <<status, order, attempts>>
    /\ Return(p)
    /\ UNCHANGED <<now, quotes, paidBy, row, ledger, posts, granted>>

----------------------------------------------------------------------------
(* External: the Stellar network. *)

\* A queued transaction is applied, with either result, no later than its time
\* bound; or it is dropped.
Include(i, outcome) ==
    /\ ledger[i] = "queued"
    /\ now <= row[i].expiresAt
    /\ ledger' = [ledger EXCEPT ![i] = outcome]
    /\ UNCHANGED <<now, rows, posts, pc, held, granted>>

Drop(i) ==
    /\ ledger[i] = "queued"
    /\ ledger' = [ledger EXCEPT ![i] = "none"]
    /\ UNCHANGED <<now, rows, posts, pc, held, granted>>

----------------------------------------------------------------------------
Resume(p) ==
    \/ FindQuote(p) \/ ExpireUnsigned(p) \/ Build(p) \/ Insert(p) \/ Raced(p)
    \/ GetAgain(p) \/ ExpireOnRead(p)
    \/ Claim(p) \/ PostTransaction(p) \/ HorizonAccepts(p) \/ HorizonFails(p)
    \/ MarkSubmitted(p)
    \/ Lookup(p) \/ SettleConfirmed(p) \/ SettleFailed(p)

Next ==
    \/ Tick
    \/ \E q \in Quote : SaveQuote(q) \/ SaveOrder(q)
    \/ \E i \in Intent :
        \/ Drop(i)
        \/ \E outcome \in {"success", "failed"} : Include(i, outcome)
    \/ \E p \in Handler :
        \/ \E a \in Ask : CreateIntent(p, a)
        \/ \E i \in Intent :
            GetIntent(p, i) \/ SubmitSigned(p, i) \/ ReconcileIntent(p, i)
        \/ Resume(p)
        \/ Abort(p)

Spec == Init /\ [][Next]_vars

\* A handler that was not aborted goes on.  An intent whose outcome is not
\* recorded keeps being reconciled (the receipt page polls, the operator
\* sweeps), and lookups and settlements of it do not fail forever.
Fairness ==
    /\ \A p \in Handler : WF_vars(Resume(p))
    /\ \A i \in Intent :
        /\ SF_vars(\E p \in Handler : ReconcileIntent(p, i))
        /\ SF_vars(\E p \in Handler : held[p].intent = i /\ Lookup(p))
        /\ SF_vars(\E p \in Handler :
                    /\ held[p].intent = i
                    /\ SettleConfirmed(p) \/ SettleFailed(p))
FairSpec == Spec /\ Fairness
----------------------------------------------------------------------------
(* Properties *)

TablesOK ==
    /\ quotes \in SUBSET Quote
    /\ order \in [Quote -> OrderStatus]
    /\ paidBy \in [Quote -> Intent \cup {NoIntent}]
    /\ row \in [Intent -> Row \cup {NoRow}]
    /\ status \in [Intent -> Status]
    /\ attempts \in [Intent -> [Settled -> Nat]]
    /\ \A i \in Intent : Exists(i) <=> row[i] # NoRow

HandlersOK ==
    /\ pc \in [Handler -> Label]
    /\ held \in [Handler -> Local]
    /\ granted \in SUBSET [ask : Ask, intent : Intent]

\* What a handler holds where it waits.
Creating == {"quote", "expire", "build", "insert", "raced"}
Settling == {"lookup", "settleConfirmed", "settleFailed"}
Using == {"get", "expiring", "claim", "post", "horizon", "mark"} \cup Settling
HoldingOK ==
    \A p \in Handler :
        /\ pc[p] \in Creating => held[p].ask \in Ask
        /\ pc[p] \in Using => held[p].intent \in Intent /\ Exists(held[p].intent)
        /\ pc[p] \in Settling => held[p].status \in Indeterminate

\* Types, and what a handler must hold at each label: a row is only looked up
\* or settled with an indeterminate snapshot of it, whatever it was read by.
TypeOK ==
    /\ now \in Nat
    /\ ledger \in [Intent -> LedgerView]
    /\ posts \in [Intent -> Nat]
    /\ TablesOK
    /\ HandlersOK
    /\ HoldingOK

\* A payer never has two intents a wallet could still be asked to sign, or that
\* may still move money, however many createIntent requests interleave with
\* expiries (payment_intents_one_active_payer).
OneActivePayer ==
    \A i, j \in Intent :
        /\ status[i] \in Active /\ status[j] \in Active
        /\ PayerOf(i) = PayerOf(j)
        => i = j

\* An intent that lapsed was never sent and has no trace on the ledger: the
\* expiry, by a read or by the payer's next intent, and the claim of a late
\* submission cannot both succeed.
ExpiredNeverPosted ==
    \A i \in Intent :
        status[i] \in {"awaiting_signature", "expired"}
            => posts[i] = 0 /\ ledger[i] = "none"

\* No interleaving of submissions, retries, reads and crashes posts one signed
\* transaction twice: an indeterminate outcome is reconciled, never resent.
PostedAtMostOnce == \A i \in Intent : posts[i] <= 1

\* The recorded outcome is the ledger's, and money that moved is never
\* forgotten: its intent is confirmed or still waits to be reconciled.
RecordsAgreeWithLedger ==
    \A i \in Intent :
        /\ status[i] = "confirmed" => ledger[i] = "success"
        /\ status[i] = "failed" => ledger[i] = "failed"
        /\ ledger[i] # "none" => status[i] \in Indeterminate \cup Settled

\* Intent, order and attempt are settled together: an order is paid exactly by
\* the one confirmed intent whose hash it carries, a failed intent leaves a
\* failed order, and a settled intent has one attempt, of its own outcome, no
\* matter how many handlers looked the transaction up.
SettledTogether ==
    /\ \A i \in Intent :
        /\ status[i] = "confirmed" =>
            order[row[i].quote] = "paid" /\ paidBy[row[i].quote] = i
        /\ status[i] = "failed" => order[row[i].quote] = "payment_failed"
        /\ \A s \in Settled : attempts[i][s] = IF status[i] = s THEN 1 ELSE 0
    /\ \A q \in Quote :
        /\ (order[q] = "paid") <=> (paidBy[q] # NoIntent)
        /\ order[q] = "paid" =>
            status[paidBy[q]] = "confirmed" /\ row[paidBy[q]].quote = q

\* A principal's idempotency key names one intent for ever, made for the very
\* quote it was used with: retries and races of createIntent are answered with
\* that intent or refused.
KeyNamesOneIntent ==
    \A g, h \in granted :
        /\ row[g.intent].quote = g.ask.quote
        /\ g.ask.principal = h.ask.principal /\ g.ask.key = h.ask.key
            => g.intent = h.intent

\* The refinement: a handler's many steps are the atomic steps of
\* OrderSettlement; submitting and submitted are one phase to it, and a queued
\* transaction is not on the ledger yet.
Phase(s) ==
    CASE s = "awaiting_signature" -> "open"
      [] s \in Indeterminate -> "inflight"
      [] OTHER -> s
Settlement == INSTANCE OrderSettlement WITH
    phase <- [i \in Intent |-> Phase(status[i])],
    opened <- [i \in Intent |-> IF row[i] = NoRow THEN NoQuote ELSE row[i].quote],
    chain <- [i \in Intent |-> IF ledger[i] = "queued" THEN "none" ELSE ledger[i]]
ImplementsSettlement == Settlement!Spec

\* Money only moves while the approval of its quote stands, although the quote
\* is checked, and its time bound computed, long before the transaction is
\* signed, posted and applied.
PaidWithinApproval ==
    [][\A i \in Intent :
        ledger'[i] = "success" /\ ledger[i] # "success"
            => now <= QuoteExpiry[row[i].quote]]_vars

\* Every outcome on the ledger is recorded in the end, unless the order it is
\* for was closed by another intent of the same quote.
ClosedByAnother(i) ==
    \E q \in Quote :
        /\ Exists(i) /\ row[i].quote = q
        /\ \/ ledger[i] = "success" /\ order[q] = "payment_failed"
           \/ order[q] = "paid" /\ paidBy[q] # i
OutcomeRecorded ==
    \A i \in Intent :
        ledger[i] \in {"success", "failed"}
            ~> status[i] \in Settled \/ ClosedByAnother(i)

\* "indeterminate outcomes must reach a terminal state": the comment of
\* SettlementReconciliationService.  The code does not: an intent that was
\* claimed and whose transaction never reaches the ledger stays indeterminate.
IndeterminateEnds ==
    \A i \in Intent : status[i] \in Indeterminate ~> status[i] \in Settled

\* "No additional charge": one approved quote is paid at most once on the
\* ledger.  createIntent does not look at the order, so a second key opens a
\* second payable intent once the first is settled.
ChargedOnce ==
    \A i, j \in Intent :
        /\ ledger[i] = "success" /\ ledger[j] = "success"
        /\ row[i].quote = row[j].quote
        => i = j

=============================================================================
