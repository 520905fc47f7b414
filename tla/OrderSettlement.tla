--------------------------- MODULE OrderSettlement ---------------------------
(***************************************************************************)
(* What the payment subsystem promises about one order and the payment     *)
(* intents opened for it, with no handler, clock, key or network in sight. *)
(*                                                                         *)
(* An intent is opened for an approved order.  It either lapses unsigned   *)
(* or is claimed, once, for submission.  Only a claimed intent can have an *)
(* outcome on the Stellar ledger, an outcome never changes, and it is      *)
(* recorded on the intent and on its order in one step.                    *)
(*                                                                         *)
(* PaymentIntents implements this specification, and SettlementSweep takes *)
(* its steps: see Settlement there.                                        *)
(***************************************************************************)
CONSTANTS
    Intent,     \* identities a payment intent may get
    Quote,      \* approved quotes; each has exactly one order
    NoIntent,   \* "no transaction hash" on an order
    NoQuote     \* "not opened yet"

VARIABLES
    phase,      \* where each intent is in its life
    opened,     \* the quote each intent was opened for
    chain,      \* what the Stellar ledger says of the intent's transaction
    order,      \* status of the order of each quote
    paidBy      \* the intent whose transaction paid the order

vars == <<phase, opened, chain, order, paidBy>>

Init ==
    /\ phase = [i \in Intent |-> "absent"]
    /\ opened = [i \in Intent |-> NoQuote]
    /\ chain = [i \in Intent |-> "none"]
    /\ order = [q \in Quote |-> "absent"]
    /\ paidBy = [q \in Quote |-> NoIntent]

\* The person approved the quote: its order waits for payment.
Approve(q) ==
    /\ order[q] = "absent"
    /\ order' = [order EXCEPT ![q] = "pending_payment"]
    /\ UNCHANGED <<phase, opened, chain, paidBy>>

Open(i, q) ==
    /\ phase[i] = "absent"
    /\ order[q] # "absent"
    /\ phase' = [phase EXCEPT ![i] = "open"]
    /\ opened' = [opened EXCEPT ![i] = q]
    /\ UNCHANGED <<chain, order, paidBy>>

\* Any set of open intents may lapse together: none of them is ever sent.
Lapse(S) ==
    /\ \A i \in S : phase[i] = "open"
    /\ phase' = [i \in Intent |-> IF i \in S THEN "expired" ELSE phase[i]]
    /\ UNCHANGED <<opened, chain, order, paidBy>>

Claim(i) ==
    /\ phase[i] = "open"
    /\ phase' = [phase EXCEPT ![i] = "inflight"]
    /\ UNCHANGED <<opened, chain, order, paidBy>>

\* The ledger includes the transaction of an intent in flight, for good.
Include(i, outcome) ==
    /\ phase[i] = "inflight"
    /\ chain[i] = "none"
    /\ chain' = [chain EXCEPT ![i] = outcome]
    /\ UNCHANGED <<phase, opened, order, paidBy>>

Pay(i, q) ==
    /\ phase[i] = "inflight"
    /\ chain[i] = "success"
    /\ opened[i] = q
    /\ order[q] = "pending_payment"
    /\ phase' = [phase EXCEPT ![i] = "confirmed"]
    /\ order' = [order EXCEPT ![q] = "paid"]
    /\ paidBy' = [paidBy EXCEPT ![q] = i]
    /\ UNCHANGED <<opened, chain>>

Fail(i, q) ==
    /\ phase[i] = "inflight"
    /\ chain[i] = "failed"
    /\ opened[i] = q
    /\ order[q] \in {"pending_payment", "payment_failed"}
    /\ phase' = [phase EXCEPT ![i] = "failed"]
    /\ order' = [order EXCEPT ![q] = "payment_failed"]
    /\ UNCHANGED <<opened, chain, paidBy>>

Next ==
    \/ \E q \in Quote : Approve(q)
    \/ \E S \in SUBSET Intent : Lapse(S)
    \/ \E i \in Intent :
        \/ Claim(i)
        \/ \E outcome \in {"success", "failed"} : Include(i, outcome)
        \/ \E q \in Quote : Open(i, q) \/ Pay(i, q) \/ Fail(i, q)

Spec == Init /\ [][Next]_vars

=============================================================================
