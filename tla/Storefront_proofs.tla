-------------------------- MODULE Storefront_proofs --------------------------
(***************************************************************************)
(* Proofs about Storefront and the WalletSession in it, for any number of  *)
(* accounts, intents and calls under way, and about the pages of search    *)
(* results, for any number of searches.                                    *)
(***************************************************************************)
EXTENDS Storefront, CatalogPage, LegacyHeader, FiniteSetTheorems, TLAPS

\* A call about an intent is made for one that was created.
HeldIntent == await \in {"sign", "submitIntent", "reconcile"} => intent \in Intent

\* What the service calls confirmed is a success on the ledger.
ConfirmedOnLedger == \A i \in Intent : status[i] = "confirmed" => ledger[i] = "success"

\* The payer has one active intent.
OneActive ==
    \A i, j \in Intent : status[i] \in Active /\ status[j] \in Active => i = j

IInv ==
    /\ TypeOK /\ HeldIntent
    /\ ShownIsSession /\ PaidIsPaid
    /\ ConfirmedOnLedger /\ OneActive

----------------------------------------------------------------------------
(* The wallet *)

\* The types of the wallet, in two parts.
WalletFlags == sdk \in BOOLEAN /\ connecting \in BOOLEAN
WalletTypes ==
    /\ selected \in Account
    /\ stored \in Account \cup {NoAccount} /\ session \in Account \cup {NoAccount}
    /\ controlled \in Account \cup {NoAccount} /\ shown \in Account \cup {NoAccount}
    /\ loading \in Nat /\ asking \in Nat /\ leaving \in Nat
    /\ loading + asking + leaving <= MaxCalls

LEMMA WalletTypesOK == WalletTypeOK <=> WalletFlags /\ WalletTypes
BY DEF WalletTypeOK, WalletFlags, WalletTypes

LEMMA WalletTypesOKNext == WalletTypeOK' <=> WalletFlags' /\ WalletTypes'
BY DEF WalletTypeOK, WalletFlags, WalletTypes

\* A step of the wallet, or none, keeps its flags.
LEMMA WalletFlagsStep ==
    ASSUME WalletFlags, WalletNext \/ ReloadWallet \/ UNCHANGED wallet
    PROVE  WalletFlags'
<1> USE DEF WalletFlags
<1>1. CASE Connect
  BY <1>1 DEF Connect
<1>2. CASE LoadSdk
  BY <1>2 DEF LoadSdk
<1>3. CASE Connected
  BY <1>3 DEF Connected, Show
<1>4. CASE ConnectFails
  BY <1>4 DEF ConnectFails, Show
<1>5. CASE Disconnect
  BY <1>5 DEF Disconnect
<1>6. CASE Disconnected
  BY <1>6 DEF Disconnected, Show
<1>7. CASE DisconnectFails
  BY <1>7 DEF DisconnectFails, Show
<1>8. ASSUME NEW a \in Account, SelectAccount(a) PROVE WalletFlags'
  BY <1>8 DEF SelectAccount, calls
<1>9. CASE ReloadWallet
  BY <1>9 DEF ReloadWallet, Show
<1>10. CASE UNCHANGED wallet
  BY <1>10 DEF wallet, calls
<1> QED
  BY <1>1, <1>2, <1>3, <1>4, <1>5, <1>6, <1>7, <1>8, <1>9, <1>10 DEF WalletNext

\* It keeps the other types and what the header shows: a disconnect empties the session
\* before the provider is asked, and no answer to it leaves an address in the header.
LEMMA WalletTypesStep ==
    ASSUME WalletTypes, ShownIsSession, WalletNext \/ ReloadWallet \/ UNCHANGED wallet
    PROVE  WalletTypes' /\ ShownIsSession'
<1> USE AccountAssumption, CallsAssumption DEF WalletTypes, ShownIsSession
<1>1. CASE Connect
  BY <1>1 DEF Connect
<1>2. CASE LoadSdk
  BY <1>2 DEF LoadSdk
<1>3. CASE Connected
  BY <1>3 DEF Connected, Show
<1>4. CASE ConnectFails
  BY <1>4 DEF ConnectFails, Show
<1>5. CASE Disconnect
  BY <1>5 DEF Disconnect
<1>6. CASE Disconnected
  BY <1>6 DEF Disconnected, Show
<1>7. CASE DisconnectFails
  BY <1>7 DEF DisconnectFails, Show
<1>8. ASSUME NEW a \in Account, SelectAccount(a) PROVE WalletTypes' /\ ShownIsSession'
  BY <1>8 DEF SelectAccount, calls
<1>9. CASE ReloadWallet
  BY <1>9 DEF ReloadWallet, Show
<1>10. CASE UNCHANGED wallet
  BY <1>10 DEF wallet, calls
<1> QED
  BY <1>1, <1>2, <1>3, <1>4, <1>5, <1>6, <1>7, <1>8, <1>9, <1>10 DEF WalletNext

LEMMA WalletStep ==
    ASSUME WalletTypeOK, ShownIsSession, WalletNext \/ ReloadWallet \/ UNCHANGED wallet
    PROVE  WalletTypeOK' /\ ShownIsSession'
BY WalletTypesOK, WalletTypesOKNext, WalletFlagsStep, WalletTypesStep

\* Each step of the page or the service has such a step of the wallet in it.
LEMMA WalletOfNext ==
    ASSUME [Next]_vars PROVE WalletNext \/ ReloadWallet \/ UNCHANGED wallet
BY DEF Next, vars, Confirm, Answer, Created, CreateFails, Signed, SignFails, Submitted,
       SubmitFails, Reconciled, ReconcileFails, Reload, Failed, Serve, CreateIntent, Claim,
       MarkSubmitted, Settle, Include, Lapse

----------------------------------------------------------------------------
(* The page and the service *)

\* Every step keeps the types, and what a call holds.
LEMMA TypeStep ==
    ASSUME TypeOK, HeldIntent, ShownIsSession, [Next]_vars
    PROVE  TypeOK' /\ HeldIntent'
<1> USE IntentAssumption DEF TypeOK, HeldIntent
<1>0. WalletTypeOK'
  BY WalletStep, WalletOfNext
<1>1. CASE Confirm
  BY <1>0, <1>1 DEF Confirm
<1>2. CASE Created
  BY <1>0, <1>2 DEF Created, CanSign, Failed, service, WalletTypeOK
<1>3. CASE CreateFails \/ SignFails \/ SubmitFails \/ ReconcileFails
  BY <1>0, <1>3 DEF CreateFails, SignFails, SubmitFails, ReconcileFails, Failed, service
<1>4. CASE Signed
  BY <1>0, <1>4 DEF Signed
<1>5. CASE Submitted
  BY <1>0, <1>5 DEF Submitted, service
<1>6. CASE Reconciled
  <2>1. SettlementStatus(status[intent])
            \in {"pending_confirmation", "submitted", "paid", "failed"}
    BY DEF SettlementStatus
  <2> QED
    BY <1>0, <1>6, <2>1 DEF Reconciled, service
<1>7. CASE Reload
  BY <1>0, <1>7 DEF Reload, service
<1>8. CASE WalletNext /\ UNCHANGED <<display, service>>
  BY <1>0, <1>8 DEF display, service
<1>9. ASSUME NEW i \in Intent, Serve(i)
      PROVE  TypeOK' /\ HeldIntent'
  <2>1. CASE CreateIntent(i)
    BY <1>0, <2>1 DEF CreateIntent, Expired, Active, display
  <2>2. CASE Claim(i) \/ MarkSubmitted(i) \/ Settle(i) \/ Lapse(i)
    BY <1>0, <2>2 DEF Claim, MarkSubmitted, Settle, Lapse, display, Active, Indeterminate
  <2>3. ASSUME NEW outcome \in {"success", "failed"}, Include(i, outcome)
        PROVE  TypeOK' /\ HeldIntent'
    BY <1>0, <2>3 DEF Include, display
  <2> QED
    BY <1>9, <2>1, <2>2, <2>3 DEF Serve
<1>10. CASE UNCHANGED vars
  BY <1>0, <1>10 DEF vars, display, service
<1> QED
  BY <1>1, <1>2, <1>3, <1>4, <1>5, <1>6, <1>7, <1>8, <1>9, <1>10 DEF Next, Answer

\* A step of the service keeps what is confirmed and that one intent is active: an
\* intent is created only when no other is, and leaves Active for good.
LEMMA ServiceStep ==
    ASSUME TypeOK, ConfirmedOnLedger, OneActive, [Next]_vars
    PROVE  /\ ConfirmedOnLedger' /\ OneActive'
           /\ \A i \in Intent : status[i] = "confirmed" => status'[i] = "confirmed"
           /\ \A i \in Intent : ledger[i] = "success" => ledger'[i] = "success"
<1> USE DEF TypeOK, ConfirmedOnLedger, OneActive, Active, Indeterminate
<1>1. ASSUME NEW i \in Intent, CreateIntent(i)
      PROVE  /\ ConfirmedOnLedger' /\ OneActive'
             /\ \A j \in Intent : status[j] = "confirmed" => status'[j] = "confirmed"
             /\ ledger' = ledger
  <2>1. \A j \in Intent \ {i} : status'[j] = Expired[j] /\ status'[j] \notin Active
    BY <1>1 DEF CreateIntent, Free, Expired
  <2>2. status'[i] = "awaiting_signature" /\ status[i] = "absent"
    BY <1>1 DEF CreateIntent, Expired
  <2>3. \A j \in Intent \ {i} :
            (status'[j] = "confirmed") <=> (status[j] = "confirmed")
    BY <2>1 DEF Expired
  <2> QED
    BY <1>1, <2>1, <2>2, <2>3 DEF CreateIntent
<1>2. ASSUME NEW i \in Intent, Claim(i) \/ MarkSubmitted(i) \/ Settle(i) \/ Lapse(i)
      PROVE  /\ ConfirmedOnLedger' /\ OneActive'
             /\ \A j \in Intent : status[j] = "confirmed" => status'[j] = "confirmed"
             /\ ledger' = ledger
  BY <1>2 DEF Claim, MarkSubmitted, Settle, Lapse
<1>3. ASSUME NEW i \in Intent, NEW outcome \in {"success", "failed"}, Include(i, outcome)
      PROVE  /\ ConfirmedOnLedger' /\ OneActive' /\ status' = status
             /\ \A j \in Intent : ledger[j] = "success" => ledger'[j] = "success"
  BY <1>3 DEF Include
<1>4. CASE UNCHANGED <<status, ledger>>
  BY <1>4
<1>5. ASSUME Confirm \/ Answer \/ Reload \/ (WalletNext /\ UNCHANGED <<display, service>>)
              \/ UNCHANGED vars
      PROVE  UNCHANGED <<status, ledger>>
  BY <1>5 DEF Confirm, Answer, Created, CreateFails, Signed, SignFails, Submitted,
              SubmitFails, Reconciled, ReconcileFails, Reload, Failed, service, vars
<1> QED
  BY <1>1, <1>2, <1>3, <1>4, <1>5 DEF Next, Serve

\* The page turns to paid with a receipt that the service gave as confirmed.
LEMMA PaidStep ==
    ASSUME TypeOK, HeldIntent, PaidIsPaid, ConfirmedOnLedger, OneActive, [Next]_vars
    PROVE  PaidIsPaid'
<1>1. /\ \A i \in Intent : status[i] = "confirmed" => status'[i] = "confirmed"
      /\ \A i \in Intent : ledger[i] = "success" => ledger'[i] = "success"
  BY ServiceStep
<1>2. receipt.status = "paid" => receipt.intent \in Intent
  BY DEF TypeOK, NoReceipt
<1>3. CASE Reconciled
  <2>1. /\ receipt' = [intent |-> intent, status |-> SettlementStatus(status[intent])]
        /\ phase' = "paid" <=> SettlementStatus(status[intent]) = "paid"
        /\ UNCHANGED <<intent, status, ledger>> /\ intent \in Intent
    BY <1>3 DEF Reconciled, service, HeldIntent
  <2>2. SettlementStatus(status[intent]) = "paid" => status[intent] = "confirmed"
    BY DEF SettlementStatus
  <2> QED
    BY <2>1, <2>2 DEF PaidIsPaid, ConfirmedOnLedger
<1>4. CASE Reload
  BY <1>4 DEF Reload, PaidIsPaid, NoReceipt
<1>5. ASSUME UNCHANGED receipt, phase' = "paid" => phase = "paid" /\ UNCHANGED intent
      PROVE  PaidIsPaid'
  BY <1>1, <1>2, <1>5 DEF PaidIsPaid
<1>6. ASSUME Confirm \/ Created \/ CreateFails \/ Signed \/ SignFails \/ Submitted
              \/ SubmitFails \/ ReconcileFails
      PROVE  UNCHANGED receipt /\ phase' # "paid"
  BY <1>6 DEF Confirm, Created, CreateFails, Signed, SignFails, Submitted, SubmitFails,
              ReconcileFails, Failed
<1>7. ASSUME (\E i \in Intent : Serve(i)) \/ (WalletNext /\ UNCHANGED <<display, service>>)
              \/ UNCHANGED vars
      PROVE  UNCHANGED display
  BY <1>7 DEF Serve, CreateIntent, Claim, MarkSubmitted, Settle, Include, Lapse, vars
<1> QED
  BY <1>3, <1>4, <1>5, <1>6, <1>7 DEF Next, Answer, display

\* One active intent is one that can still move money, at most.
LEMMA ActiveIsPending ==
    ASSUME OneActive, sent \subseteq Intent PROVE OnePending
<1> DEFINE P == {i \in sent : i \notin lapsed /\ ledger[i] = "none" /\ status[i] \in Active}
<1>1. \A i, j \in P : i = j
  BY DEF OneActive
<1>2. CASE P = {}
  BY <1>2, FS_EmptySet DEF OnePending
<1>3. CASE P # {}
  <2>1. PICK i \in P : TRUE
    BY <1>3
  <2>2. P = {i}
    BY <1>1, <2>1
  <2>3. Cardinality(P) = 1
    BY <2>2, FS_Singleton
  <2> QED
    BY <2>3 DEF OnePending
<1> QED
  BY <1>2, <1>3

----------------------------------------------------------------------------
(* The theorems *)

\* The page before anything was clicked.
LEMMA InitIInv == Init => IInv
<1> SUFFICES ASSUME Init PROVE IInv
  OBVIOUS
<1>0. WalletFlags
  BY DEF Init, WalletInit, WalletFlags
<1>1. WalletTypeOK /\ ShownIsSession
  BY <1>0, WalletTypesOK, CallsAssumption DEF Init, WalletInit, WalletTypes, ShownIsSession
<1> QED
  BY <1>1 DEF Init, IInv, TypeOK, HeldIntent, PaidIsPaid, ConfirmedOnLedger, OneActive,
              NoReceipt, Active, Indeterminate

LEMMA NextIInv == IInv /\ [Next]_vars => IInv'
<1> SUFFICES ASSUME IInv, [Next]_vars PROVE IInv'
  OBVIOUS
<1>1. TypeOK' /\ HeldIntent'
  BY TypeStep DEF IInv
<1>2. ShownIsSession'
  BY WalletStep, WalletOfNext DEF IInv, TypeOK
<1>3. PaidIsPaid'
  BY PaidStep DEF IInv
<1>4. ConfirmedOnLedger' /\ OneActive'
  BY ServiceStep DEF IInv
<1> QED
  BY <1>1, <1>2, <1>3, <1>4 DEF IInv

\* The inductive invariant of the page, the wallet and the service together.
THEOREM Invariance == Spec => []IInv
BY InitIInv, NextIInv, PTL DEF Spec

\* Every state of the page, its calls, the wallet and the service is well typed.
THEOREM TypeCorrect == Spec => []TypeOK
<1>1. IInv => TypeOK
  BY DEF IInv
<1> QED
  BY <1>1, Invariance, PTL

\* What the header shows signs, however connects, disconnects and refusals overlap.
THEOREM HeaderShowsSession == Spec => []ShownIsSession
<1>1. IInv => ShownIsSession
  BY DEF IInv
<1> QED
  BY <1>1, Invariance, PTL

\* The phase of the page and the status of a receipt are paid only for an intent whose
\* money has moved.  What the box around a receipt prints is not in it.
THEOREM PaidPhaseMeansPaid == Spec => []PaidIsPaid
<1>1. IInv => PaidIsPaid
  BY DEF IInv
<1> QED
  BY <1>1, Invariance, PTL

\* Of all transactions that left the page one can still move money, after any number
\* of errors, retries and reloads.
THEOREM OnePayable == Spec => []OnePending
<1>1. IInv => OnePending
  BY ActiveIsPending DEF IInv, TypeOK
<1> QED
  BY <1>1, Invariance, PTL

----------------------------------------------------------------------------
(* The catalog page *)

Last == Len(searches)

PageFlags == busy \in BOOLEAN /\ problem \in BOOLEAN /\ searched \in BOOLEAN
PageTypes ==
    /\ searches \in Seq(Query)
    /\ price \in [Product -> Nat] /\ listed \in [Product -> Nat]
    /\ quantity \in [Product -> Nat] /\ snapshot \in [Product -> Nat]

\* While the page is busy one search is under way, the last.
OneSearch ==
    /\ busy = TRUE => pending = {Last} /\ Last > 0 /\ problem = FALSE
    /\ busy = FALSE => pending = {}

\* What is listed is of the search that was answered.
ListIsOfAnswer ==
    busy = FALSE =>
        /\ answered = Last
        /\ searched = TRUE <=> Last > 0
        /\ problem = TRUE => listed = Nothing
        /\ \A p \in Product : listed[p] # NoOffer => p \in Matching[searches[Last]]

PageInv == PageFlags /\ PageTypes /\ OneSearch /\ ListIsOfAnswer /\ CartIsBuyable

LEMMA SubmitStep ==
    ASSUME PageInv, NEW q \in Query, Submit(q) PROVE PageInv'
<1>1. busy = FALSE
  BY DEF Submit, PageInv, PageFlags
<1>2. /\ searches' = Append(searches, q) /\ pending' = pending \cup {Last + 1}
      /\ busy' = TRUE /\ problem' = FALSE
      /\ UNCHANGED <<price, searched, listed, quantity, snapshot>>
  BY DEF Submit, Ask, cart, Last
<1>3. searches' \in Seq(Query) /\ Last' = Last + 1 /\ Last \in Nat
  BY <1>2 DEF PageInv, PageTypes, Last
<1>4. pending = {}
  BY <1>1 DEF PageInv, OneSearch
<1>5. OneSearch' /\ ListIsOfAnswer'
  BY <1>2, <1>3, <1>4 DEF OneSearch, ListIsOfAnswer
<1>6. PageFlags' /\ PageTypes' /\ CartIsBuyable'
  BY <1>2, <1>3 DEF PageInv, PageFlags, PageTypes, CartIsBuyable
<1> QED
  BY <1>5, <1>6 DEF PageInv

LEMMA AnswerStep ==
    ASSUME PageInv, NEW n \in pending, Results(n) \/ SearchRefused(n) PROVE PageInv'
<1>1. busy = TRUE /\ pending = {Last} /\ n = Last /\ Last > 0 /\ problem = FALSE
  BY DEF PageInv, PageFlags, OneSearch
<1>2. /\ pending' = {} /\ answered' = n /\ busy' = FALSE /\ searched' = TRUE
      /\ UNCHANGED <<price, searches, quantity, snapshot>>
  BY <1>1 DEF Results, SearchRefused, cart
<1>3. Last' = Last
  BY <1>2 DEF Last
<1>4. \/ listed' = Found(Last) /\ UNCHANGED problem
      \/ listed' = Nothing /\ problem' = TRUE
  BY <1>1 DEF Results, SearchRefused
<1>5. /\ listed' \in [Product -> Nat]
      /\ \A p \in Product : listed'[p] # NoOffer => p \in Matching[searches[Last]]
  BY <1>4 DEF Found, Nothing, NoOffer, PageInv, PageTypes
<1>6. OneSearch' /\ ListIsOfAnswer'
  BY <1>1, <1>2, <1>3, <1>4, <1>5 DEF OneSearch, ListIsOfAnswer
<1>7. PageFlags' /\ PageTypes' /\ CartIsBuyable'
  BY <1>1, <1>2, <1>4, <1>5 DEF PageInv, PageFlags, PageTypes, CartIsBuyable
<1> QED
  BY <1>6, <1>7 DEF PageInv

\* Every other step leaves the searches and their answers alone.
LEMMA CartStep ==
    ASSUME PageInv, NEW p \in Product, Reprice(p) \/ Add(p) \/ Remove(p)
    PROVE  PageInv'
<1>1. UNCHANGED <<searches, pending, busy, problem, searched, listed, answered>>
  BY DEF Reprice, Add, Remove, view
<1>2. PageFlags' /\ OneSearch' /\ ListIsOfAnswer'
  BY <1>1 DEF PageInv, PageFlags, OneSearch, ListIsOfAnswer, Last
<1>3. PageTypes' /\ CartIsBuyable'
  <2> USE DEF PageInv, PageTypes, CartIsBuyable
  <2>1. CASE Reprice(p)
    BY <1>1, <2>1 DEF Reprice, cart
  <2>2. CASE Add(p)
    BY <1>1, <2>2 DEF Add, OnPage
  <2>3. CASE Remove(p)
    BY <1>1, <2>3 DEF Remove
  <2> QED
    BY <2>1, <2>2, <2>3
<1> QED
  BY <1>2, <1>3 DEF PageInv

\* While the page is not busy it shows the answer to the latest search, and the
\* cart holds only what was offered and could be bought, however searches, answers and changes of
\* price follow each other.
THEOREM PageShowsLatest == PageInit /\ [][PageNext]_pageVars => []PageIsTrue
<1>1. PageInit => PageInv
  <2>1. PageInit => PageFlags
    BY DEF PageInit, PageFlags
  <2>2. PageInit => PageTypes /\ CartIsBuyable
    BY DEF PageInit, PageTypes, CartIsBuyable, Nothing, NoOffer
  <2>3. PageInit => OneSearch /\ ListIsOfAnswer
    BY DEF PageInit, OneSearch, ListIsOfAnswer, Last, Nothing, NoOffer
  <2> QED
    BY <2>1, <2>2, <2>3 DEF PageInv
<1>2. PageInv /\ [PageNext]_pageVars => PageInv'
  <2>1. ASSUME PageInv, Toggle PROVE PageInv'
    <3>1. UNCHANGED <<searches, pending, view, price, quantity, snapshot>>
      BY <2>1 DEF Toggle
    <3> QED
      BY <2>1, <3>1 DEF view, PageInv, PageFlags, PageTypes, OneSearch, ListIsOfAnswer, Last,
                        CartIsBuyable
  <2>2. ASSUME PageInv, UNCHANGED pageVars PROVE PageInv'
    BY <2>2 DEF pageVars, view, cart, PageInv, PageFlags, PageTypes, OneSearch, ListIsOfAnswer,
                Last, CartIsBuyable
  <2> QED
    BY <2>1, <2>2, SubmitStep, AnswerStep, CartStep DEF PageNext
<1>3. PageInv => PageIsTrue
  <2>1. PageInv => ListIsOfLatest
    BY DEF PageInv, PageFlags, OneSearch, ListIsOfAnswer, ListIsOfLatest, Last
  <2> QED
    BY <2>1 DEF PageInv, PageIsTrue
<1> QED
  BY <1>1, <1>2, <1>3, PTL

----------------------------------------------------------------------------
(* The legacy page *)

\* Of the streams that run, only the last can still write: it alone is not aborted.
StreamTypes ==
    /\ streams \in 0..MaxStreams /\ controller \in {0, streams}
    /\ running \subseteq 1..streams /\ received \subseteq 1..streams
    /\ aborted \subseteq 1..streams
    /\ grid \in [Stream -> Nat]
    /\ results.stream \in 0..streams
OneWrites ==
    /\ running \subseteq aborted \cup {controller}
    /\ controller # 0 => controller \notin aborted
    /\ \A k \in received : grid[k] > 0

\* What the pane shows is of that stream, or came from one that ended without a batch.
PaneInv ==
    /\ results.kind \in {"skeleton", "grid", "problem"} =>
        results.stream = streams /\ streams > 0 /\ streams \notin aborted
    /\ results.kind = "skeleton" => streams \in running \ received
    /\ results.kind = "grid" => streams \in received
    /\ results.kind = "empty" => results.stream \notin received \cup running

StreamInv == StreamTypes /\ OneWrites /\ PaneInv

LEMMA RunningStream ==
    ASSUME StreamInv, NEW k \in Stream, k \in running, k \notin aborted
    PROVE  k = streams /\ k = controller
BY DEF StreamInv, StreamTypes, OneWrites, Stream

LEMMA SearchStep ==
    ASSUME StreamInv, SearchText \/ SearchBlank \/ ResetStream PROVE StreamInv'
<1> USE StreamsAssumption DEF StreamInv, StreamTypes, OneWrites, PaneInv, Stream
<1>1. CASE SearchText
  <2>1. /\ streams < MaxStreams /\ streams' = streams + 1 /\ controller' = streams'
        /\ aborted' = aborted \cup ({controller} \ {0})
        /\ running' = running \cup {streams'}
        /\ results' = [kind |-> "skeleton", stream |-> streams']
        /\ UNCHANGED <<received, grid>>
    BY <1>1 DEF SearchText, Abort, Replace
  <2>2. streams' \notin aborted' /\ streams' \notin received
    BY <2>1
  <2> QED
    BY <2>1, <2>2
<1>2. CASE SearchBlank
  BY <1>2 DEF SearchBlank, Cleared
<1>3. CASE ResetStream
  BY <1>3 DEF ResetStream, Cleared, Abort
<1> QED
  BY <1>1, <1>2, <1>3

LEMMA BatchStep ==
    ASSUME StreamInv, NEW k \in Stream, Batch(k) PROVE StreamInv'
<1> USE DEF StreamInv, StreamTypes, OneWrites, PaneInv, Stream
<1>1. k \in running /\ UNCHANGED <<streams, controller, aborted>>
  BY DEF Batch
<1>2. CASE k \in aborted
  <2>1. running' = running \ {k} /\ UNCHANGED <<received, grid, results>>
    BY <1>2 DEF Batch
  <2>2. results.kind = "skeleton" => streams \in running'
    BY <1>2, <2>1
  <2> QED
    BY <1>1, <2>1, <2>2
<1>3. CASE k \notin aborted
  <2>1. k = streams
    BY <1>1, <1>3, RunningStream
  <2>2. /\ grid' = [grid EXCEPT ![k] = grid[k] + 1] /\ received' = received \cup {k}
        /\ UNCHANGED running
    BY <1>3 DEF Batch
  <2>3. grid' \in [Stream -> Nat] /\ \A j \in received' : grid'[j] > 0
    BY <2>2
  <2>4. CASE k \in received /\ UNCHANGED results
    BY <1>1, <2>1, <2>2, <2>3, <2>4
  <2>5. CASE results' = [kind |-> "grid", stream |-> k]
    BY <1>1, <1>3, <2>1, <2>2, <2>3, <2>5
  <2> QED
    BY <1>3, <2>4, <2>5 DEF Batch, Replace
<1> QED
  BY <1>2, <1>3

LEMMA EndStep ==
    ASSUME StreamInv, NEW k \in Stream, EndStream(k) \/ StreamFails(k) PROVE StreamInv'
<1> USE DEF StreamInv, StreamTypes, OneWrites, PaneInv, Stream
<1>1. /\ k \in running /\ running' = running \ {k}
      /\ UNCHANGED <<streams, controller, aborted, received, grid>>
  BY DEF EndStream, StreamFails
<1>2. CASE EndStream(k)
  <2>1. CASE k \in received /\ UNCHANGED results
    BY <1>1, <2>1
  <2>2. CASE k \notin received /\ results' = [kind |-> "empty", stream |-> k]
    BY <1>1, <2>2
  <2> QED
    BY <1>2, <2>1, <2>2 DEF EndStream, Replace
<1>3. CASE StreamFails(k)
  <2>1. CASE k \in aborted /\ UNCHANGED results
    BY <1>1, <2>1
  <2>2. CASE k \notin aborted /\ results' = [kind |-> "problem", stream |-> k]
    <3>1. k = streams
      BY <1>1, <2>2, RunningStream
    <3> QED
      BY <1>1, <2>2, <3>1
  <2> QED
    BY <1>3, <2>1, <2>2 DEF StreamFails, Replace
<1> QED
  BY <1>2, <1>3

LEMMA StreamStep ==
    ASSUME StreamInv, [StreamNext]_streamVars PROVE StreamInv'
<1>1. ASSUME UNCHANGED search PROVE StreamInv'
  BY <1>1 DEF search, StreamInv, StreamTypes, OneWrites, PaneInv
<1>2. ASSUME NEW o \in Item, AddItem(o) \/ RemoveItem(o) PROVE UNCHANGED search
  BY <1>2 DEF AddItem, RemoveItem, Notify
<1>3. ASSUME ToggleCart \/ UNCHANGED streamVars PROVE UNCHANGED search
  BY <1>3 DEF ToggleCart, Notify, streamVars
<1> QED
  BY <1>1, <1>2, <1>3, SearchStep, BatchStep, EndStep DEF StreamNext

\* What the slot shows, in two parts: the calls under way, and the rest.
OneConnect ==
    /\ isConnecting = TRUE \/ isConnecting = FALSE
    /\ isConnecting = TRUE => connects = 1
    /\ isConnecting = FALSE => connects = 0
SlotShows ==
    /\ slot.address = current
    /\ current = NoAddress => slot.error = lastError
    /\ isConnecting = TRUE => current = NoAddress /\ slot.disabled = TRUE
    /\ slot.disabled = TRUE /\ isConnecting = FALSE => lastError = TRUE
SlotTypes ==
    /\ lastError \in BOOLEAN
    /\ slot \in [address : Address \cup {NoAddress}, disabled : BOOLEAN, error : BOOLEAN]

HeaderInv == OneConnect /\ SlotShows /\ SlotTypes

\* The slot is the address, or the button and the error.
LEMMA RenderedAddress ==
    ASSUME NEW a \in Address, NEW waiting, NEW error
    PROVE  Rendered(a, waiting, error) = [address |-> a, disabled |-> FALSE, error |-> FALSE]
BY AddressAssumption DEF Rendered

LEMMA RenderedButton ==
    ASSUME NEW waiting, NEW error
    PROVE  Rendered(NoAddress, waiting, error) =
            [address |-> NoAddress, disabled |-> waiting, error |-> error]
BY DEF Rendered

LEMMA HeaderStep ==
    ASSUME HeaderInv, [HeaderNext]_headerVars PROVE HeaderInv'
<1> USE AddressAssumption DEF HeaderInv, OneConnect, SlotShows, SlotTypes
<1>0. current \in Address \cup {NoAddress}
  OBVIOUS
<1>1. CASE ClickConnect
  <2>1. /\ slot.address = NoAddress /\ slot.disabled # TRUE
        /\ isConnecting' = TRUE /\ lastError' = FALSE
        /\ slot' = [address |-> NoAddress, disabled |-> TRUE, error |-> FALSE]
        /\ connects' = connects + 1 /\ UNCHANGED current
    BY <1>1, RenderedButton DEF ClickConnect
  <2>2. isConnecting = FALSE
    BY <2>1
  <2>3. OneConnect'
    BY <2>1, <2>2
  <2>4. SlotShows' /\ SlotTypes'
    BY <2>1
  <2> QED
    BY <2>3, <2>4
<1>2. ASSUME NEW a \in Address, ConnectSucceeds(a) PROVE HeaderInv'
  <2>1. connects > 0 /\ connects' = connects - 1 /\ isConnecting' = FALSE
    BY <1>2 DEF ConnectSucceeds
  <2>2. current' = a /\ slot' = Rendered(a, TRUE, lastError) /\ lastError' = lastError
    BY <1>2 DEF ConnectSucceeds
  <2>3. slot' = [address |-> a, disabled |-> FALSE, error |-> FALSE]
    BY <2>2, RenderedAddress
  <2>4. OneConnect'
    BY <2>1
  <2> HIDE DEF HeaderInv, OneConnect, SlotShows, SlotTypes
  <2>5. a # NoAddress
    OBVIOUS
  <2>6. /\ slot'.address = a /\ slot'.disabled # TRUE
        /\ slot' \in [address : Address \cup {NoAddress}, disabled : BOOLEAN, error : BOOLEAN]
    BY <2>3
  <2>7. isConnecting' # TRUE
    BY <2>1
  <2>8. SlotShows'
    BY <2>2, <2>5, <2>6, <2>7, Zenon DEF SlotShows
  <2>9. lastError \in BOOLEAN
    BY DEF HeaderInv, SlotTypes
  <2>10. SlotTypes'
    BY <2>2, <2>6, <2>9, Zenon DEF SlotTypes
  <2> QED
    BY <2>4, <2>8, <2>10 DEF HeaderInv
<1>3. CASE ConnectRejected
  <2>1. /\ connects > 0 /\ connects' = connects - 1 /\ isConnecting' = FALSE
        /\ current' = NoAddress /\ lastError' = TRUE
        /\ slot' = [address |-> NoAddress, disabled |-> TRUE, error |-> TRUE]
    BY <1>3, RenderedButton DEF ConnectRejected
  <2>2. OneConnect'
    BY <2>1
  <2>3. SlotShows' /\ SlotTypes'
    BY <2>1
  <2> QED
    BY <2>2, <2>3
<1>4. CASE Disconnects
  <2>1. /\ current' = NoAddress /\ lastError' = FALSE
        /\ slot' = [address |-> NoAddress, disabled |-> isConnecting, error |-> FALSE]
        /\ UNCHANGED <<isConnecting, connects>>
    BY <1>4, RenderedButton DEF Disconnects
  <2>2. OneConnect'
    BY <2>1
  <2>3. isConnecting \in BOOLEAN
    OBVIOUS
  <2>4. SlotShows' /\ SlotTypes'
    BY <2>1, <2>3
  <2> QED
    BY <2>2, <2>4
<1>5. CASE UNCHANGED <<current, isConnecting, lastError, slot, connects>>
  BY <1>5
<1>6. ClickDisconnect \/ DisconnectRejected \/ UNCHANGED headerVars
        => UNCHANGED <<current, isConnecting, lastError, slot, connects>>
  BY DEF ClickDisconnect, DisconnectRejected, headerVars
<1> QED
  BY <1>1, <1>2, <1>3, <1>4, <1>5, <1>6 DEF HeaderNext

LEMMA SlotInStepFollows == HeaderInv => SlotInStep
<1>1. HeaderInv => connects = IF isConnecting THEN 1 ELSE 0
  BY DEF HeaderInv, OneConnect
<1>2. HeaderInv => (isConnecting => current = NoAddress /\ slot.disabled)
  BY DEF HeaderInv, OneConnect, SlotShows
<1>3. HeaderInv => (slot.disabled /\ ~isConnecting => lastError)
  BY DEF HeaderInv, OneConnect, SlotShows, SlotTypes
<1> QED
  BY <1>1, <1>2, <1>3 DEF HeaderInv, SlotShows, SlotInStep

\* The legacy page shows the latest search and the wallet as its controller has it,
\* whatever aborted streams still bring and in whatever order the provider answers.
THEOREM LegacyPageKeepsStep ==
    /\ StreamInit /\ [][StreamNext]_streamVars
    /\ HeaderInit /\ [][HeaderNext]_headerVars
    => []LegacyPageInStep
<1>1. StreamInit /\ HeaderInit => StreamInv /\ HeaderInv
  <2>1. StreamInit => StreamInv
    BY StreamsAssumption
       DEF StreamInit, StreamInv, StreamTypes, OneWrites, PaneInv, Stream, Cleared
  <2>2. HeaderInit => OneConnect
    BY DEF HeaderInit, OneConnect
  <2>3. HeaderInit => SlotShows /\ SlotTypes
    <3> SUFFICES ASSUME HeaderInit PROVE SlotShows /\ SlotTypes
      OBVIOUS
    <3>1. /\ current = NoAddress /\ isConnecting = FALSE /\ lastError \in BOOLEAN
          /\ slot = [address |-> NoAddress, disabled |-> FALSE, error |-> lastError]
      BY RenderedButton DEF HeaderInit
    <3>2. slot.address = NoAddress /\ slot.disabled = FALSE /\ slot.error = lastError
      BY <3>1
    <3>3. SlotTypes
      BY <3>1, <3>2 DEF SlotTypes
    <3>4. isConnecting # TRUE /\ slot.disabled # TRUE
      BY <3>1, <3>2
    <3>5. SlotShows
      BY <3>1, <3>2, <3>4, Zenon DEF SlotShows
    <3> QED
      BY <3>3, <3>5
  <2> QED
    BY <2>1, <2>2, <2>3 DEF HeaderInv
<1>2. /\ StreamInv /\ [StreamNext]_streamVars => StreamInv'
      /\ HeaderInv /\ [HeaderNext]_headerVars => HeaderInv'
  BY StreamStep, HeaderStep
<1>3. StreamInv /\ HeaderInv => LegacyPageInStep
  BY SlotInStepFollows
     DEF StreamInv, StreamTypes, OneWrites, PaneInv, LegacyPageInStep, ResultsOfLatest
<1> QED
  BY <1>1, <1>2, <1>3, PTL

=============================================================================
