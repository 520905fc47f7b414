--------------------------- MODULE SettlementSweep ---------------------------
(***************************************************************************)
(* The batch sweep of SettlementReconciliationService: which indeterminate *)
(* intents a sweep picks, what it does with each and what it reports,      *)
(* while requests claim, mark and settle intents beside it.                *)
(*                                                                         *)
(* queue holds the intents in the order of their updated_at, stale those   *)
(* not touched for minAgeSeconds.  A worker is one run of reconcileBatch   *)
(* (POST /v1/payment-intents/reconcile); workers may overlap.  Requests    *)
(* settle an intent in one step here: PaymentIntents models their steps.   *)
(***************************************************************************)
EXTENDS Integers, Sequences, SequencesExt, FiniteSets, Sorting

CONSTANTS
    Intent, Order, Worker,
    OrderOf,    \* [Intent -> Order]: the order an intent was opened for
    Limit       \* intents per sweep

ASSUME OrderAssumption == OrderOf \in [Intent -> Order]
ASSUME LimitAssumption == Limit \in Nat \ {0}

VARIABLES
    status,     \* payment_intents.status, once claimed
    order,      \* commerce_orders.status
    ledger,     \* what a lookup of the intent's transaction finds
    queue,      \* claimed intents, least recently updated first
    stale,      \* those updated no later than the cutoff of a sweep
    pc,         \* what each worker waits for
    batch,      \* the rows it still has to resolve, as it read them
    outcomes    \* what it has so far

table == <<status, order, queue, stale>>
worker == <<pc, batch, outcomes>>
vars == <<table, ledger, worker>>

Indeterminate == {"submitting", "submitted"}
Settled == {"confirmed", "failed"}
Row == [intent : Intent, status : Indeterminate]
Outcome == [intent : Intent, status : Indeterminate \cup Settled, resolved : BOOLEAN]

Init ==
    /\ status = [i \in Intent |-> "awaiting_signature"]
    /\ order = [o \in Order |-> "pending_payment"]
    /\ ledger = [i \in Intent |-> "none"]
    /\ queue = <<>>
    /\ stale = {}
    /\ pc = [w \in Worker |-> "idle"]
    /\ batch = [w \in Worker |-> <<>>]
    /\ outcomes = [w \in Worker |-> <<>>]

----------------------------------------------------------------------------
(* Requests and the ledger, beside the sweep. *)

\* compareAndSet to submitting.  A payer has one active intent, and all the
\* intents of an order have its payer.
Claim(i) ==
    /\ status[i] = "awaiting_signature"
    /\ \A j \in Intent : OrderOf[j] = OrderOf[i] => status[j] \notin Indeterminate
    /\ status' = [status EXCEPT ![i] = "submitting"]
    /\ queue' = Append(queue, i)
    /\ UNCHANGED <<order, stale, ledger, worker>>

MarkSubmitted(i) ==
    /\ status[i] = "submitting"
    /\ status' = [status EXCEPT ![i] = "submitted"]
    /\ \E k \in DOMAIN queue :
        queue[k] = i /\ queue' = Append(RemoveAt(queue, k), i)
    /\ stale' = stale \ {i}
    /\ UNCHANGED <<order, ledger, worker>>

\* minAgeSeconds pass since the oldest update that is not stale yet.
Age(i) ==
    /\ i \in Range(queue) \ stale
    /\ \A k \in 1..Len(queue) :
        queue[k] # i => queue[k] \in stale \/ \E m \in 1..(k - 1) : queue[m] = i
    /\ stale' = stale \cup {i}
    /\ UNCHANGED <<status, order, queue, ledger, worker>>

Include(i, outcome) ==
    /\ status[i] \in Indeterminate
    /\ ledger[i] = "none"
    /\ ledger' = [ledger EXCEPT ![i] = outcome]
    /\ UNCHANGED <<table, worker>>

Recorded(i) == IF ledger[i] = "success" THEN "confirmed" ELSE "failed"
\* The order's UPDATE in settleConfirmed and settleFailed finds a row.  An intent
\* settled with its order is no longer as the caller saw it, so the one that
\* paid an order is never settled again.
FaultyOrderAccepts(i) == order[OrderOf[i]] \in {"pending_payment", "payment_failed"}
OrderAccepts(i) ==
    \/ order[OrderOf[i]] = "pending_payment"
    \/ ledger[i] = "failed" /\ order[OrderOf[i]] = "payment_failed"
Settle(i) ==
    /\ status' = [status EXCEPT ![i] = Recorded(i)]
    /\ order' = [order EXCEPT ![OrderOf[i]] =
                    IF ledger[i] = "success" THEN "paid" ELSE "payment_failed"]
    /\ UNCHANGED <<queue, stale>>

SettleElsewhere(i) ==
    /\ status[i] \in Indeterminate
    /\ ledger[i] # "none"
    /\ OrderAccepts(i)
    /\ Settle(i)
    /\ UNCHANGED <<ledger, worker>>

----------------------------------------------------------------------------
(* reconcileBatch *)

\* findIndeterminate: the stale indeterminate rows, oldest first, at most Limit.
FaultySelectedFresh ==
    LET found == {k \in DOMAIN queue : status[queue[k]] \in Indeterminate} IN
    FirstOf(Kept(queue, found), Limit)
FaultySelectedNewest ==
    LET found == {k \in DOMAIN queue :
                    queue[k] \in stale /\ status[queue[k]] \in Indeterminate}
    IN FirstOf(Reverse(Kept(queue, found)), Limit)
Found ==
    {k \in DOMAIN queue : queue[k] \in stale /\ status[queue[k]] \in Indeterminate}
Selected == FirstOf(Kept(queue, Found), Limit)

StartSweep(w) ==
    /\ pc[w] = "idle"
    /\ Selected # <<>>
    /\ pc' = [pc EXCEPT ![w] = "lookup"]
    /\ batch' = [batch EXCEPT ![w] =
                    [k \in DOMAIN Selected |->
                        [intent |-> Selected[k], status |-> status[Selected[k]]]]]
    /\ outcomes' = [outcomes EXCEPT ![w] = <<>>]
    /\ UNCHANGED <<table, ledger>>

\* The outcome of the row at hand is known: on to the next one, or to the report.
FaultyConclude(w, s, resolved) ==
    /\ outcomes' = [outcomes EXCEPT ![w] =
            Append(@, [intent |-> Head(batch[w]).intent, status |-> s,
                       resolved |-> resolved])]
    /\ batch' = [batch EXCEPT ![w] = Tail(@)]
    /\ pc' = [pc EXCEPT ![w] = IF Len(batch[w]) = 0 THEN "report" ELSE "lookup"]
Conclude(w, s, resolved) ==
    /\ outcomes' = [outcomes EXCEPT ![w] =
            Append(@, [intent |-> Head(batch[w]).intent, status |-> s,
                       resolved |-> resolved])]
    /\ batch' = [batch EXCEPT ![w] = Tail(@)]
    /\ pc' = [pc EXCEPT ![w] = IF Len(batch[w]) = 1 THEN "report" ELSE "lookup"]

\* lookupTransaction found nothing, or it threw.
Unknown(w) ==
    /\ pc[w] = "lookup"
    /\ Conclude(w, Head(batch[w]).status, FALSE)
    /\ UNCHANGED <<table, ledger>>

Known(w) ==
    /\ pc[w] = "lookup"
    /\ ledger[Head(batch[w]).intent] # "none"
    /\ pc' = [pc EXCEPT ![w] = "settle"]
    /\ UNCHANGED <<table, ledger, batch, outcomes>>

\* The settlement took place, or the intent was not as the worker had read it and
\* is read again.
SettleRow(w) ==
    LET i == Head(batch[w]).intent
        asSeen == status[i] = Head(batch[w]).status
    IN
    /\ pc[w] = "settle"
    /\ \/ /\ asSeen /\ OrderAccepts(i)
          /\ Settle(i)
          /\ Conclude(w, Recorded(i), TRUE)
       \/ /\ ~asSeen
          /\ pc' = [pc EXCEPT ![w] = "reread"]
          /\ UNCHANGED <<table, batch, outcomes>>
    /\ UNCHANGED ledger

\* findIntentById after a settlement that did not take place.
FaultyRereadAsKnown(w) ==
    /\ pc[w] = "reread"
    /\ Conclude(w, Recorded(Head(batch[w]).intent), TRUE)
    /\ UNCHANGED <<table, ledger>>
Reread(w) ==
    LET s == status[Head(batch[w]).intent] IN
    /\ pc[w] = "reread"
    /\ Conclude(w, s, s \in Settled)
    /\ UNCHANGED <<table, ledger>>

\* The order refuses the outcome: the transaction is rolled back and the error
\* leaves reconcileBatch.  The outcomes so far and the other rows are dropped.
Throw(w) ==
    LET i == Head(batch[w]).intent IN
    /\ pc[w] = "settle"
    /\ status[i] = Head(batch[w]).status
    /\ ~OrderAccepts(i)
    /\ pc' = [pc EXCEPT ![w] = "idle"]
    /\ batch' = [batch EXCEPT ![w] = <<>>]
    /\ outcomes' = [outcomes EXCEPT ![w] = <<>>]
    /\ UNCHANGED <<table, ledger>>

Report(w) ==
    /\ pc[w] = "report"
    /\ pc' = [pc EXCEPT ![w] = "idle"]
    /\ outcomes' = [outcomes EXCEPT ![w] = <<>>]
    /\ UNCHANGED <<table, ledger, batch>>

Sweep(w) ==
    \/ StartSweep(w) \/ Unknown(w) \/ Known(w) \/ SettleRow(w) \/ Reread(w)
    \/ Throw(w) \/ Report(w)

Next ==
    \/ \E i \in Intent :
        \/ Claim(i) \/ MarkSubmitted(i) \/ Age(i) \/ SettleElsewhere(i)
        \/ \E outcome \in {"success", "failed"} : Include(i, outcome)
    \/ \E w \in Worker : Sweep(w)

Spec == Init /\ [][Next]_vars

\* The operator keeps sweeping and the clock keeps running; a transaction that is
\* on the ledger is found by one lookup in the end.  Nobody has to poll the
\* intent, and no transaction has to reach the ledger.
Fairness ==
    /\ \A i \in Intent : WF_vars(Age(i))
    /\ \A w \in Worker : WF_vars(Sweep(w))
    /\ \A w \in Worker, i \in Intent :
        SF_vars(batch[w] # <<>> /\ Head(batch[w]).intent = i /\ Known(w))
FairSpec == Spec /\ Fairness

----------------------------------------------------------------------------
(* Properties *)

TypeOK ==
    /\ status \in [Intent -> {"awaiting_signature"} \cup Indeterminate \cup Settled]
    /\ order \in [Order -> {"pending_payment", "paid", "payment_failed"}]
    /\ ledger \in [Intent -> {"none", "success", "failed"}]
    /\ queue \in Seq(Intent) /\ stale \subseteq Range(queue)
    /\ IsInjective(queue)
    /\ pc \in [Worker -> {"idle", "lookup", "settle", "reread", "report"}]
    /\ batch \in [Worker -> Seq(Row)]
    /\ outcomes \in [Worker -> Seq(Outcome)]
    /\ \A w \in Worker : pc[w] \in {"lookup", "settle", "reread"} <=> batch[w] # <<>>

Reported(w, Test(_)) == Cardinality({k \in DOMAIN outcomes[w] : Test(outcomes[w][k])})
CountsAddUp ==
    \A w \in Worker : pc[w] = "report" =>
        Len(outcomes[w]) =
            Reported(w, LAMBDA o : o.status = "confirmed")
          + Reported(w, LAMBDA o : o.status = "failed")
          + Reported(w, LAMBDA o : ~o.resolved)

ResolvedIsSettled ==
    \A w \in Worker : \A k \in DOMAIN outcomes[w] :
        LET o == outcomes[w][k] IN
        o.resolved => status[o.intent] = o.status /\ o.status \in Settled

\* The report adds up, whatever was settled under the worker's feet: every row it
\* scanned is counted as confirmed, as failed or as unresolved, and once.  And what it
\* reports as settled is settled, with that outcome, and nothing undoes it before the
\* report is sent.
ReportIsTrue == CountsAddUp /\ ResolvedIsSettled

\* A sweep settles an intent only if no request touched it in the last
\* minAgeSeconds, although it selected the row two answers earlier: a submission
\* that was still in flight then is left to itself.
SettlesUntouched ==
    [][\A w \in Worker, i \in Intent :
        /\ pc[w] = "settle" /\ pc'[w] # "settle"
        /\ status[i] \notin Settled /\ status'[i] \in Settled
        => i \in stale]_vars

\* Workers and requests together keep what OrderSettlement promises of an intent and
\* its order, from the approved orders and opened intents on that they start with: an
\* intent is settled once, together with its order, as the ledger says, and an order is
\* paid by one intent at most, although a worker settles with the row and the outcome
\* that it read answers ago.
Phase(s) ==
    CASE s = "awaiting_signature" -> "open"
      [] s \in Indeterminate -> "inflight"
      [] OTHER -> s
Phases == [i \in Intent |-> Phase(status[i])]
Payers(o) == {i \in Intent : OrderOf[i] = o /\ status[i] = "confirmed"}
OneOf(S) == IF S = {} THEN "none" ELSE CHOOSE i \in S : TRUE
PaidBy == [o \in Order |-> OneOf(Payers(o))]
Settlement == INSTANCE OrderSettlement WITH
    Quote <- Order, NoIntent <- "none", NoQuote <- "none",
    phase <- Phases, opened <- OrderOf, chain <- ledger, paidBy <- PaidBy
SettlesAsPromised == [][Settlement!Next]_(Settlement!vars)

\* Repeated sweeps settle every intent whose outcome is on the ledger, unless
\* older intents are in its way: one whose order refuses the outcome (each sweep
\* ends there), or Limit of them that are still indeterminate.
Refused(j) == status[j] \in Indeterminate /\ ledger[j] # "none" /\ ~OrderAccepts(j)
Older(j, i) == \E k, m \in DOMAIN queue : k < m /\ queue[k] = j /\ queue[m] = i
Blocked(i) ==
    \/ Refused(i)
    \/ \E j \in Intent : Older(j, i) /\ Refused(j)
    \/ Cardinality({j \in Intent : Older(j, i) /\ status[j] \in Indeterminate})
            >= Limit
SweepSettles ==
    \A i \in Intent :
        ledger[i] # "none" ~> status[i] \in Settled \/ Blocked(i)

\* "The worker never throws on a single intent": the comment of the service.  A
\* settlement its order refuses does throw, and the rest of the batch is skipped.
NeverThrows == [][\A w \in Worker : ~Throw(w)]_vars

=============================================================================
