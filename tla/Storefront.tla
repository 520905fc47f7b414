----------------------------- MODULE Storefront -----------------------------
(***************************************************************************)
(* The checkout of the React app against the payment service: the hook's   *)
(* calls and the reducer's phases, with the wallet of WalletSession, while *)
(* answers get lost and the user tries again or reloads the page.          *)
(*                                                                         *)
(* The hook is given an approved quote, of the payer Payer; every intent   *)
(* here is of that quote.  The service is reduced to the steps of          *)
(* OrderSettlement (PaymentIntents has its handlers); a submission may be  *)
(* served after the page gave up on it.                                    *)
(***************************************************************************)
EXTENDS WalletSession, FiniteSets

CONSTANTS
    Intent, NoIntent,
    Payer       \* the account the quote was approved for

ASSUME IntentAssumption == NoIntent \notin Intent
ASSUME PayerAssumption == Payer \in Account

VARIABLES
    phase,      \* phase of the checkout state
    intent,     \* its intent
    receipt,    \* its receipt
    await,      \* the call start waits for
    signer,     \* the account the wallet is asked to sign with
    status,     \* payment_intents.status
    lapsed,     \* intents whose time bound is over
    ledger,     \* the ledger's view of their transactions
    sent,       \* intents whose envelope left the page with the payer's signature
    opened      \* the intent the pending createIntent opened

display == <<phase, intent, receipt, await, signer>>
service == <<status, lapsed, ledger, sent, opened>>
vars == <<wallet, display, service>>

Indeterminate == {"submitting", "submitted"}
Active == {"awaiting_signature"} \cup Indeterminate
NoReceipt == [intent |-> NoIntent, status |-> "none"]

Init ==
    /\ WalletInit
    /\ phase = "idle" /\ intent = NoIntent /\ receipt = NoReceipt
    /\ await = "none" /\ signer = NoAccount
    /\ status = [i \in Intent |-> "absent"]
    /\ lapsed = {} /\ sent = {}
    /\ ledger = [i \in Intent |-> "none"]
    /\ opened = NoIntent

\* catch of start: the fail action.
FaultyFailed == phase' = "failed" /\ UNCHANGED await
Failed == phase' = "failed" /\ await' = "none"

----------------------------------------------------------------------------
(* The page *)

Busy == phase \notin {"idle", "paid", "failed"}

\* Confirm & Pay
Confirm ==
    /\ ~Busy
    /\ phase' = "intent" /\ await' = "createIntent"
    /\ opened' = NoIntent
    /\ UNCHANGED <<intent, receipt, signer, wallet, status, lapsed, ledger, sent>>

\* signTransaction captures the session, or throws without one.
Created ==
    /\ await = "createIntent"
    /\ opened # NoIntent
    /\ intent' = opened
    /\ IF CanSign
       THEN phase' = "signing" /\ await' = "sign" /\ signer' = session
       ELSE Failed /\ UNCHANGED signer
    /\ UNCHANGED <<receipt, wallet, service>>

CreateFails ==
    /\ await = "createIntent"
    /\ Failed
    /\ UNCHANGED <<intent, receipt, signer, wallet, service>>

\* The provider signs with the account it was asked for, or with the selected one:
\* nobody compares.
Signed ==
    /\ await = "sign"
    /\ phase' = "submitting" /\ await' = "submitIntent"
    /\ \E a \in {signer, selected} :
        sent' = IF a = Payer THEN sent \cup {intent} ELSE sent
    /\ UNCHANGED <<intent, receipt, signer, wallet, status, lapsed, ledger, opened>>

\* The controller returns null, for which the bridge throws.
FaultySignFails ==
    /\ await = "sign"
    /\ await' = "none"
    /\ UNCHANGED <<phase, intent, receipt, signer, wallet, service>>
SignFails ==
    /\ await = "sign"
    /\ Failed
    /\ UNCHANGED <<intent, receipt, signer, wallet, service>>

Submitted ==
    /\ await = "submitIntent"
    /\ status[intent] \in Indeterminate \cup {"confirmed", "failed"}
    /\ phase' = "reconciling" /\ await' = "reconcile"
    /\ UNCHANGED <<intent, receipt, signer, wallet, service>>

SubmitFails ==
    /\ await = "submitIntent"
    /\ Failed
    /\ UNCHANGED <<intent, receipt, signer, wallet, service>>

\* toSettlementStatus
FaultySettlementStatus(s) ==
    CASE s = "awaiting_signature" -> "pending_confirmation"
      [] s = "submitting" -> "submitted"
      [] s \in {"submitted", "confirmed"} -> "paid"
      [] OTHER -> "failed"
SettlementStatus(s) ==
    CASE s = "awaiting_signature" -> "pending_confirmation"
      [] s \in Indeterminate -> "submitted"
      [] s = "confirmed" -> "paid"
      [] OTHER -> "failed"

\* The receipt action: any receipt but a paid one leaves the page reconciling.
Reconciled ==
    LET s == SettlementStatus(status[intent]) IN
    /\ await = "reconcile"
    /\ receipt' = [intent |-> intent, status |-> s]
    /\ phase' = IF s = "paid" THEN "paid" ELSE "reconciling"
    /\ await' = "none"
    /\ UNCHANGED <<intent, signer, wallet, service>>

ReconcileFails ==
    /\ await = "reconcile"
    /\ Failed
    /\ UNCHANGED <<intent, receipt, signer, wallet, service>>

\* CheckoutProgress: the box below the steps says "Paid" and the receipt's status for
\* every receipt there is.  The steps are done with the phase paid.
PrintsPaid == receipt # NoReceipt

Reload ==
    /\ ReloadWallet
    /\ phase' = "idle" /\ intent' = NoIntent /\ receipt' = NoReceipt
    /\ await' = "none" /\ signer' = NoAccount
    /\ UNCHANGED service

----------------------------------------------------------------------------
(* The payment service and the ledger *)

\* createIntent under a new key: the payer's unsigned intents that lapsed expire,
\* and the insert needs that the payer has no other active one.
Expired == [i \in Intent |->
    IF status[i] = "awaiting_signature" /\ i \in lapsed THEN "expired" ELSE status[i]]
FaultyFree == \A i \in Intent : Expired[i] # "awaiting_signature"
Free == \A i \in Intent : Expired[i] \notin Active
CreateIntent(i) ==
    /\ await = "createIntent" /\ opened = NoIntent
    /\ Free
    /\ status[i] = "absent"
    /\ status' = [Expired EXCEPT ![i] = "awaiting_signature"]
    /\ opened' = i
    /\ UNCHANGED <<lapsed, ledger, sent, display, wallet>>

\* An envelope without the payer's signature is refused, another claims the intent.
Claim(i) ==
    /\ i \in sent
    /\ status[i] = "awaiting_signature" /\ i \notin lapsed
    /\ status' = [status EXCEPT ![i] = "submitting"]
    /\ UNCHANGED <<lapsed, ledger, sent, opened, display, wallet>>

MarkSubmitted(i) ==
    /\ status[i] = "submitting"
    /\ ledger[i] = "success"
    /\ status' = [status EXCEPT ![i] = "submitted"]
    /\ UNCHANGED <<lapsed, ledger, sent, opened, display, wallet>>

Settle(i) ==
    /\ status[i] \in Indeterminate
    /\ ledger[i] # "none"
    /\ status' = [status EXCEPT ![i] =
                    IF ledger[i] = "success" THEN "confirmed" ELSE "failed"]
    /\ UNCHANGED <<lapsed, ledger, sent, opened, display, wallet>>

Include(i, outcome) ==
    /\ status[i] \in Indeterminate /\ ledger[i] = "none"
    /\ i \notin lapsed
    /\ ledger' = [ledger EXCEPT ![i] = outcome]
    /\ UNCHANGED <<status, lapsed, sent, opened, display, wallet>>

Lapse(i) ==
    /\ status[i] # "absent" /\ i \notin lapsed
    /\ lapsed' = lapsed \cup {i}
    /\ UNCHANGED <<status, ledger, sent, opened, display, wallet>>

----------------------------------------------------------------------------
Answer ==
    \/ Created \/ CreateFails \/ Signed \/ SignFails \/ Submitted \/ SubmitFails
    \/ Reconciled \/ ReconcileFails

Serve(i) ==
    \/ CreateIntent(i) \/ Claim(i) \/ MarkSubmitted(i) \/ Settle(i)
    \/ Lapse(i)
    \/ \E outcome \in {"success", "failed"} : Include(i, outcome)

Next ==
    \/ Confirm \/ Answer \/ Reload
    \/ WalletNext /\ UNCHANGED <<display, service>>
    \/ \E i \in Intent : Serve(i)

\* A call of the page is answered or fails, and the service settles what is on the
\* ledger.  The user does nothing in particular.
Spec ==
    /\ Init /\ [][Next]_vars
    /\ WF_vars(Answer)
    /\ \A i \in Intent : WF_vars(Settle(i))

----------------------------------------------------------------------------
(* Properties *)

TypeOK ==
    /\ WalletTypeOK
    /\ phase \in {"idle", "intent", "signing", "submitting", "reconciling", "paid",
                  "failed"}
    /\ intent \in Intent \cup {NoIntent}
    /\ receipt \in {NoReceipt} \cup
        [intent : Intent, status : {"pending_confirmation", "submitted", "paid", "failed"}]
    /\ await \in {"none", "createIntent", "sign", "submitIntent", "reconcile"}
    /\ signer \in Account \cup {NoAccount}
    /\ status \in [Intent -> {"absent", "expired", "confirmed", "failed"} \cup Active]
    /\ ledger \in [Intent -> {"none", "success", "failed"}]
    /\ lapsed \subseteq Intent /\ sent \subseteq Intent
    /\ opened \in Intent \cup {NoIntent}
    /\ await = "createIntent" => phase = "intent"
    /\ await = "sign" => phase = "signing"
    /\ await = "submitIntent" => phase = "submitting"
    /\ await = "reconcile" => phase = "reconciling"

\* The page's phase, with which its last step is done, is paid only for the intent it
\* shows and when that is confirmed and its money has moved; so is the status of a
\* receipt, which outlives its intent on the page.  What the box around the receipt
\* prints is another matter: see PrintedIsPaid.
PaidIsPaid ==
    /\ phase = "paid" => receipt.intent = intent /\ receipt.status = "paid"
    /\ receipt.status = "paid" =>
        status[receipt.intent] = "confirmed" /\ ledger[receipt.intent] = "success"

\* "Five-stage checkout stepper mirroring the backend payment lifecycle": the box that
\* says "Paid" is shown for a receipt of any status, and for that of an earlier intent.
PrintedIsPaid ==
    PrintsPaid => intent \in Intent /\ receipt.intent = intent /\ status[intent] = "confirmed"

\* However often the user tries again after an error or a reload, at most one of
\* the transactions that left the page can still move money: lost answers and late
\* submissions included.
OnePending ==
    Cardinality({i \in sent : i \notin lapsed /\ ledger[i] = "none"
                                /\ status[i] \in Active}) <= 1

\* A checkout that was started ends with an outcome on the page: paid, an error,
\* or a receipt that is not paid.
CheckoutAnswered ==
    phase = "intent" ~>
        \/ phase \in {"idle", "paid", "failed"}
        \/ phase = "reconciling" /\ receipt.intent = intent

=============================================================================
