------------------------ MODULE PaymentIntents_proofs ------------------------
(***************************************************************************)
(* What TLAPS proves of PaymentIntents, for any number of handlers,        *)
(* intents, quotes, principals, payers and keys, and any clock: its types, *)
(* the inductive invariant and the safety properties that follow from it,  *)
(* and that it implements OrderSettlement.                                 *)
(***************************************************************************)
EXTENDS PaymentIntents, TLAPS

USE DEF Indeterminate, Active, Settled

----------------------------------------------------------------------------
(* The typing invariant *)

\* A step of a handler changes only that handler's place and locals.
LEMMA GotoMovesOne ==
    ASSUME HandlersOK, NEW p \in Handler, NEW label \in Label, NEW local \in Local,
           Goto(p, label, local)
    PROVE  /\ pc' \in [Handler -> Label]
           /\ held' \in [Handler -> Local]
           /\ pc'[p] = label /\ held'[p] = local
           /\ \A q \in Handler \ {p} : pc'[q] = pc[q] /\ held'[q] = held[q]
BY DEF Goto, HandlersOK

\* What a handler may be sent to, and with what.
Sendable(label, local) ==
    /\ label \in Creating => local.ask \in Ask
    /\ label \in Using => local.intent \in Intent /\ Exists(local.intent)
    /\ label \in Settling => local.status \in Indeterminate

\* A handler that moves to a waiting point it has the values for still holds them.
LEMMA GotoHolding ==
    ASSUME TypeOK, NEW p \in Handler, NEW label \in Label, NEW local \in Local,
           Goto(p, label, local), Sendable(label, local),
           \A i \in Intent : Exists(i) => Exists(i)'
    PROVE  pc' \in [Handler -> Label] /\ held' \in [Handler -> Local] /\ HoldingOK'
<1>1. HandlersOK
  BY DEF TypeOK
<1>2. /\ pc' \in [Handler -> Label]
      /\ held' \in [Handler -> Local]
      /\ pc'[p] = label /\ held'[p] = local
      /\ \A q \in Handler \ {p} : pc'[q] = pc[q] /\ held'[q] = held[q]
  BY <1>1, GotoMovesOne
<1>3. HoldingOK'
  <2> SUFFICES ASSUME NEW q \in Handler
               PROVE  /\ pc'[q] \in Creating => held'[q].ask \in Ask
                      /\ pc'[q] \in Using => /\ held'[q].intent \in Intent
                                            /\ status'[held'[q].intent] # "absent"
                      /\ pc'[q] \in Settling => held'[q].status \in Indeterminate
    BY DEF HoldingOK, Exists
  <2>1. CASE q = p
    BY <2>1, <1>2 DEF Sendable, Exists
  <2>2. CASE q # p
    BY <2>2, <1>2 DEF TypeOK, HoldingOK, Exists
  <2> QED
    BY <2>1, <2>2
<1> QED
  BY <1>2, <1>3

\* The locals of an idle handler are well typed.
LEMMA NothingIsLocal == Nothing \in Local
BY DEF Nothing, Local, Status

\* A handler that returns holds nothing.
LEMMA ReturnHolding ==
    ASSUME TypeOK, NEW p \in Handler, Return(p),
           \A i \in Intent : Exists(i) => Exists(i)'
    PROVE  pc' \in [Handler -> Label] /\ held' \in [Handler -> Local] /\ HoldingOK'
<1>1. Sendable("idle", Nothing) /\ "idle" \in Label
  BY DEF Sendable, Creating, Using, Settling, Label
<1> QED
  BY <1>1, NothingIsLocal, GotoHolding DEF Return

\* What a handler must hold at a waiting point is well typed.
LEMMA HoldingIsLocal ==
    ASSUME TypeOK, NEW p \in Handler, NEW i \in Intent, NEW s \in Status
    PROVE  /\ Holding(p, i, s) \in Local
           /\ Holding(p, i, s).intent = i /\ Holding(p, i, s).status = s
           /\ Holding(p, i, s).ask = held[p].ask
BY DEF TypeOK, HandlersOK, Holding, Local

\* The entry of reconcile, from any row, leaves the handler with what it needs next.
LEMMA ReconcileHolding ==
    ASSUME TypeOK, NEW p \in Handler, NEW i \in Intent, NEW s \in Status,
           Exists(i), Reconcile(p, i, s),
           \A j \in Intent : Exists(j) => Exists(j)'
    PROVE  pc' \in [Handler -> Label] /\ held' \in [Handler -> Local] /\ HoldingOK'
<1>1. CASE s \in Indeterminate
  <2>1. Goto(p, "lookup", Holding(p, i, s))
    BY <1>1 DEF Reconcile
  <2>2. "lookup" \in Label /\ Sendable("lookup", Holding(p, i, s))
    BY <1>1, HoldingIsLocal DEF Sendable, Creating, Using, Settling, Label
  <2> QED
    BY <2>1, <2>2, HoldingIsLocal, GotoHolding
<1>2. CASE s \notin Indeterminate
  BY <1>2, ReturnHolding DEF Reconcile
<1> QED
  BY <1>1, <1>2

\* The read of getIntent leaves the handler with what it needs next.
LEMMA ReadHolding ==
    ASSUME TypeOK, NEW p \in Handler, NEW i \in Intent, Exists(i), Read(p, i),
           UNCHANGED <<row, status>>
    PROVE  pc' \in [Handler -> Label] /\ held' \in [Handler -> Local] /\ HoldingOK'
<1>1. status[i] \in Status
  BY DEF TypeOK, TablesOK
<1>2. \A j \in Intent : Exists(j) => Exists(j)'
  BY DEF Exists
<1>3. CASE status[i] = "awaiting_signature" /\ row[i].expiresAt <= now
  <2>1. Goto(p, "expiring", Holding(p, i, status[i]))
    BY <1>3 DEF Read
  <2>2. "expiring" \in Label /\ Sendable("expiring", Holding(p, i, status[i]))
    BY <1>1, HoldingIsLocal DEF Sendable, Creating, Using, Settling, Label
  <2> QED
    BY <1>1, <1>2, <2>1, <2>2, HoldingIsLocal, GotoHolding
<1>4. CASE ~(status[i] = "awaiting_signature" /\ row[i].expiresAt <= now)
  BY <1>1, <1>2, <1>4, ReconcileHolding DEF Read
<1> QED
  BY <1>3, <1>4

----------------------------------------------------------------------------

\* The empty tables have their types.
LEMMA InitTypeOK == Init => TypeOK
<1> SUFFICES ASSUME Init PROVE TypeOK
  OBVIOUS
<1>1. TablesOK
  BY NullAssumption DEF Init, TablesOK, OrderStatus, Status, Exists
<1>2. HandlersOK /\ HoldingOK
  BY NothingIsLocal
     DEF Init, HandlersOK, HoldingOK, Label, Creating, Using, Settling
<1> QED
  BY <1>1, <1>2 DEF Init, TypeOK, LedgerView

\* Steps that leave the tables, or all but a handler's place, alone.
LEMMA SameTablesTypeOK ==
    ASSUME TypeOK, UNCHANGED <<now, rows, ledger, posts, granted>>,
           pc' \in [Handler -> Label], held' \in [Handler -> Local], HoldingOK'
    PROVE  TypeOK'
BY DEF TypeOK, TablesOK, HandlersOK, rows, Exists

\* Rows are never dropped, so the row a handler refers to stays there.
LEMMA SameRowsMonotone ==
    ASSUME UNCHANGED rows
    PROVE  \A i \in Intent : Exists(i) => Exists(i)'
BY DEF rows, Exists

\* Moving an existing intent to another status keeps the tables well formed.
LEMMA StatusTables ==
    ASSUME TypeOK, NEW i \in Intent, Exists(i), NEW s \in Status \ {"absent"},
           status' \in {status, [status EXCEPT ![i] = s]}, row' = row
    PROVE  /\ status' \in [Intent -> Status]
           /\ \A j \in Intent : Exists(j)' <=> Exists(j)
           /\ \A j \in Intent : Exists(j)' <=> row'[j] # NoRow
BY DEF TypeOK, TablesOK, Exists

\* The compare-and-set writes only the status.
LEMMA CompareAndSetStatus ==
    ASSUME NEW i \in Intent, NEW e, NEW s, CompareAndSet(i, e, s)
    PROVE  status' \in {status, [status EXCEPT ![i] = s]}
BY DEF CompareAndSet

\* The entry of createIntent keeps the types.
LEMMA CreateTypeOK ==
    ASSUME TypeOK, NEW p \in Handler, NEW a \in Ask, CreateIntent(p, a)
    PROVE  TypeOK'
<1>1. \A i \in Intent : Exists(i) => Exists(i)'
  BY SameRowsMonotone DEF CreateIntent
<1>2. CASE Replay(p, a)
  <2>1. PICK i \in Intent : Grant(p, a, i)
    BY <1>2 DEF Replay
  <2>2. pc' \in [Handler -> Label] /\ held' \in [Handler -> Local] /\ HoldingOK'
    BY <1>1, <2>1, ReturnHolding DEF Grant
  <2>3. granted' \in SUBSET [ask : Ask, intent : Intent]
    BY <2>1 DEF Grant, TypeOK, HandlersOK
  <2> QED
    BY <2>2, <2>3 DEF CreateIntent, TypeOK, TablesOK, HandlersOK, rows, Exists
<1>3. CASE Goto(p, "quote", [Nothing EXCEPT !.ask = a]) /\ UNCHANGED granted
  <2>1. [Nothing EXCEPT !.ask = a] \in Local /\ [Nothing EXCEPT !.ask = a].ask = a
    BY DEF Nothing, Local, Status
  <2>2. "quote" \in Label /\ Sendable("quote", [Nothing EXCEPT !.ask = a])
    BY <2>1 DEF Label, Sendable, Creating, Using, Settling
  <2>3. pc' \in [Handler -> Label] /\ held' \in [Handler -> Local] /\ HoldingOK'
    BY <1>1, <1>3, <2>1, <2>2, GotoHolding
  <2> QED
    BY <1>3, <2>3, SameTablesTypeOK DEF CreateIntent
<1> QED
  BY <1>2, <1>3 DEF CreateIntent

\* The quote's read keeps the types.
LEMMA FindQuoteTypeOK ==
    ASSUME TypeOK, NEW p \in Handler, FindQuote(p)
    PROVE  TypeOK'
<1> DEFINE local == [held[p] EXCEPT !.time = now]
<1>1. \A i \in Intent : Exists(i) => Exists(i)'
  BY SameRowsMonotone DEF FindQuote
<1>2. held[p].ask \in Ask
  BY DEF TypeOK, HoldingOK, FindQuote, Creating
<1>3. local \in Local /\ local.ask = held[p].ask
  BY DEF TypeOK, HandlersOK, Local
<1>4. "expire" \in Label /\ Sendable("expire", local)
  BY <1>2, <1>3 DEF Label, Sendable, Creating, Using, Settling
<1>5. Goto(p, "expire", local) \/ Return(p)
  BY DEF FindQuote
<1>6. pc' \in [Handler -> Label] /\ held' \in [Handler -> Local] /\ HoldingOK'
  <2>1. CASE Goto(p, "expire", local)
    BY <2>1, <1>1, <1>3, <1>4, GotoHolding
  <2>2. CASE Return(p)
    BY <2>2, <1>1, ReturnHolding
  <2> QED
    BY <1>5, <2>1, <2>2
<1> QED
  BY <1>6, SameTablesTypeOK DEF FindQuote

\* The lapse of a payer's unsigned intents keeps the types.
LEMMA ExpireUnsignedTypeOK ==
    ASSUME TypeOK, NEW p \in Handler, ExpireUnsigned(p)
    PROVE  TypeOK'
<1>1. /\ status' \in [Intent -> Status]
      /\ \A i \in Intent : Exists(i)' <=> Exists(i)
  BY DEF TypeOK, TablesOK, ExpireUnsigned, LapsedOf, Exists, Status
<1>2. held[p].ask \in Ask /\ held[p] \in Local
  BY DEF TypeOK, HandlersOK, HoldingOK, ExpireUnsigned, Creating
<1>3. "build" \in Label /\ Sendable("build", held[p])
  BY <1>2 DEF Label, Sendable, Creating, Using, Settling
<1>4. Goto(p, "build", held[p])
  BY DEF ExpireUnsigned
<1>5. pc' \in [Handler -> Label] /\ held' \in [Handler -> Local] /\ HoldingOK'
  BY <1>1, <1>2, <1>3, <1>4, GotoHolding
<1> QED
  BY <1>1, <1>5 DEF TypeOK, TablesOK, HandlersOK, ExpireUnsigned

\* The build of the unsigned transaction keeps the types.
LEMMA BuildTypeOK ==
    ASSUME TypeOK, NEW p \in Handler, Build(p)
    PROVE  TypeOK'
<1> DEFINE remaining == QuoteExpiry[held[p].ask.quote] - now
<1> DEFINE ttl == IF remaining < MaxTtl THEN remaining ELSE MaxTtl
<1> DEFINE local == [held[p] EXCEPT !.time = now + ttl]
<1>1. \A i \in Intent : Exists(i) => Exists(i)'
  BY SameRowsMonotone DEF Build
<1>2. held[p].ask \in Ask /\ held[p] \in Local
  BY DEF TypeOK, HandlersOK, HoldingOK, Build, Creating
<1>3. \/ ttl >= 1 /\ Goto(p, "insert", local)
      \/ Return(p)
  BY DEF Build
<1>4. CASE ttl >= 1 /\ Goto(p, "insert", local)
  <2>1. now \in Nat /\ QuoteExpiry[held[p].ask.quote] \in Nat /\ MaxTtl \in Nat
    BY <1>2, QuoteAssumption, ClockAssumption DEF TypeOK, Ask
  <2>2. now + ttl \in Nat
    BY <1>4, <2>1
  <2>3. local \in Local /\ local.ask = held[p].ask
    BY <1>2, <2>2 DEF Local
  <2>4. "insert" \in Label /\ Sendable("insert", local)
    BY <1>2, <2>3 DEF Label, Sendable, Creating, Using, Settling
  <2>5. pc' \in [Handler -> Label] /\ held' \in [Handler -> Local] /\ HoldingOK'
    BY <1>1, <1>4, <2>3, <2>4, GotoHolding
  <2> QED
    BY <2>5, SameTablesTypeOK DEF Build
<1>5. CASE Return(p)
  BY <1>1, <1>5, ReturnHolding, SameTablesTypeOK DEF Build
<1> QED
  BY <1>3, <1>4, <1>5

\* The insert, taken or refused, keeps the types.
LEMMA InsertTypeOK ==
    ASSUME TypeOK, NEW p \in Handler, Insert(p)
    PROVE  TypeOK'
<1> DEFINE a == held[p].ask
<1>1. a \in Ask /\ held[p] \in Local
  BY DEF TypeOK, HandlersOK, HoldingOK, Insert, Creating
<1>2. CASE Goto(p, "raced", held[p]) /\ UNCHANGED <<row, status, granted>>
  <2>1. "raced" \in Label /\ Sendable("raced", held[p])
    BY <1>1 DEF Label, Sendable, Creating, Using, Settling
  <2>2. \A i \in Intent : Exists(i) => Exists(i)'
    BY <1>2 DEF Exists
  <2>3. pc' \in [Handler -> Label] /\ held' \in [Handler -> Local] /\ HoldingOK'
    BY <1>1, <1>2, <2>1, <2>2, GotoHolding
  <2> QED
    BY <1>2, <2>3, SameTablesTypeOK DEF Insert, rows
<1>3. CASE \E i \in Intent :
              /\ ~Exists(i)
              /\ row' = [row EXCEPT ![i] = [quote |-> a.quote, key |-> a.key,
                                            expiresAt |-> held[p].time]]
              /\ status' = [status EXCEPT ![i] = "awaiting_signature"]
              /\ Grant(p, a, i)
  <2>1. PICK i \in Intent :
              /\ ~Exists(i)
              /\ row' = [row EXCEPT ![i] = [quote |-> a.quote, key |-> a.key,
                                            expiresAt |-> held[p].time]]
              /\ status' = [status EXCEPT ![i] = "awaiting_signature"]
              /\ Grant(p, a, i)
    BY <1>3
  <2> DEFINE new == [quote |-> a.quote, key |-> a.key, expiresAt |-> held[p].time]
  <2>2. new \in Row /\ new # NoRow
    BY <1>1, NullAssumption DEF Row, Local, Ask
  <2> HIDE DEF new
  <2>3. /\ row' \in [Intent -> Row \cup {NoRow}]
        /\ status' \in [Intent -> Status]
        /\ \A j \in Intent : Exists(j)' <=> row'[j] # NoRow
        /\ \A j \in Intent : Exists(j) => Exists(j)'
    BY <2>1, <2>2 DEF TypeOK, TablesOK, Exists, Status, new
  <2>4. pc' \in [Handler -> Label] /\ held' \in [Handler -> Local] /\ HoldingOK'
    BY <2>1, <2>3, ReturnHolding DEF Grant
  <2>5. granted' \in SUBSET [ask : Ask, intent : Intent]
    BY <1>1, <2>1 DEF Grant, TypeOK, HandlersOK
  <2> QED
    BY <2>3, <2>4, <2>5 DEF Insert, TypeOK, TablesOK, HandlersOK
<1> QED
  BY <1>2, <1>3 DEF Insert

\* The read after a refused insert keeps the types.
LEMMA RacedTypeOK ==
    ASSUME TypeOK, NEW p \in Handler, Raced(p)
    PROVE  TypeOK'
<1> DEFINE a == held[p].ask
<1>1. a \in Ask /\ UNCHANGED rows
  BY DEF TypeOK, HoldingOK, Raced, Creating
<1>2. Return(p) /\ granted' \in SUBSET [ask : Ask, intent : Intent]
  BY <1>1 DEF Raced, Replay, Grant, TypeOK, HandlersOK
<1>3. pc' \in [Handler -> Label] /\ held' \in [Handler -> Local] /\ HoldingOK'
  BY <1>1, <1>2, SameRowsMonotone, ReturnHolding
<1> QED
  BY <1>2, <1>3 DEF Raced, TypeOK, TablesOK, HandlersOK, rows, Exists

\* A step from one place to another that touches nothing else.
LEMMA MoveTypeOK ==
    ASSUME TypeOK, NEW p \in Handler, NEW label \in Label, NEW local \in Local,
           Goto(p, label, local), Sendable(label, local),
           UNCHANGED <<now, rows, ledger, posts, granted>>
    PROVE  TypeOK'
BY SameRowsMonotone, GotoHolding, SameTablesTypeOK

\* A handler's return keeps the types.
LEMMA ReturnTypeOK ==
    ASSUME TypeOK, NEW p \in Handler, Return(p),
           UNCHANGED <<now, rows, ledger, posts, granted>>
    PROVE  TypeOK'
BY SameRowsMonotone, ReturnHolding, SameTablesTypeOK

\* The read of getIntent, also by a submission that lost the claim, keeps the types.
LEMMA ReadTypeOK ==
    ASSUME TypeOK, NEW p \in Handler, NEW i \in Intent, Exists(i), Read(p, i),
           UNCHANGED <<now, rows, ledger, posts, granted>>
    PROVE  TypeOK'
<1>1. UNCHANGED <<row, status>>
  BY DEF rows
<1> QED
  BY <1>1, ReadHolding, SameTablesTypeOK

\* A reconciliation that starts from a row as it is now keeps the types.
LEMMA ReconcileTypeOK ==
    ASSUME TypeOK, NEW p \in Handler, NEW i \in Intent, Exists(i),
           Reconcile(p, i, status[i]),
           UNCHANGED <<now, rows, ledger, posts, granted>>
    PROVE  TypeOK'
<1>1. status[i] \in Status
  BY DEF TypeOK, TablesOK
<1> QED
  BY <1>1, SameRowsMonotone, ReconcileHolding, SameTablesTypeOK

\* The read of the intent a signed transaction is for keeps the types.
LEMMA SubmitSignedTypeOK ==
    ASSUME TypeOK, NEW p \in Handler, NEW i \in Intent, SubmitSigned(p, i)
    PROVE  TypeOK'
<1>1. Exists(i) /\ status[i] \in Status
  BY DEF SubmitSigned, Exists, TypeOK, TablesOK
<1>2. CASE Goto(p, "claim", Holding(p, i, status[i]))
  <2>1. "claim" \in Label /\ Sendable("claim", Holding(p, i, status[i]))
    BY <1>1, HoldingIsLocal DEF Sendable, Creating, Using, Settling, Label
  <2> QED
    BY <1>1, <1>2, <2>1, HoldingIsLocal, MoveTypeOK DEF SubmitSigned
<1>3. CASE Reconcile(p, i, status[i])
  BY <1>1, <1>3, ReconcileTypeOK DEF SubmitSigned
<1> QED
  BY <1>2, <1>3 DEF SubmitSigned

\* What a handler at work on an intent holds.
LEMMA UsingHolds ==
    ASSUME TypeOK, NEW p \in Handler, pc[p] \in Using
    PROVE  held[p] \in Local /\ held[p].intent \in Intent /\ Exists(held[p].intent)
BY DEF TypeOK, HandlersOK, HoldingOK

\* Steps that write at most the status of an existing intent.
LEMMA StatusStepTypeOK ==
    ASSUME TypeOK, NEW i \in Intent, Exists(i), NEW s \in Status \ {"absent"},
           status' \in {status, [status EXCEPT ![i] = s]},
           pc' \in [Handler -> Label], held' \in [Handler -> Local], HoldingOK',
           UNCHANGED <<now, quotes, order, paidBy, row, attempts, ledger, posts,
                       granted>>
    PROVE  TypeOK'
<1>1. /\ status' \in [Intent -> Status]
      /\ \A j \in Intent : Exists(j)' <=> row'[j] # NoRow
  BY StatusTables
<1> QED
  BY <1>1 DEF TypeOK, TablesOK, HandlersOK

\* The lapse of a late intent keeps the types.
LEMMA ExpireOnReadTypeOK ==
    ASSUME TypeOK, NEW p \in Handler, ExpireOnRead(p)
    PROVE  TypeOK'
<1> DEFINE i == held[p].intent
<1>1. i \in Intent /\ Exists(i)
  BY UsingHolds DEF ExpireOnRead, Using
<1>2. status' \in {status, [status EXCEPT ![i] = "expired"]}
  BY CompareAndSetStatus, <1>1 DEF ExpireOnRead
<1>3. "expired" \in Status \ {"absent"}
  BY DEF Status
<1>4. \A j \in Intent : Exists(j) => Exists(j)'
  BY <1>1, <1>2, <1>3, StatusTables DEF ExpireOnRead
<1>5. pc' \in [Handler -> Label] /\ held' \in [Handler -> Local] /\ HoldingOK'
  BY <1>4, ReturnHolding DEF ExpireOnRead
<1> QED
  BY <1>1, <1>2, <1>3, <1>5, StatusStepTypeOK DEF ExpireOnRead

\* The claim keeps the types.
LEMMA ClaimTypeOK ==
    ASSUME TypeOK, NEW p \in Handler, Claim(p)
    PROVE  TypeOK'
<1> DEFINE i == held[p].intent
<1>1. held[p] \in Local /\ i \in Intent /\ Exists(i)
  BY UsingHolds DEF Claim, Using
<1>2. status' \in {status, [status EXCEPT ![i] = "submitting"]}
  BY CompareAndSetStatus, <1>1 DEF Claim
<1>3. "submitting" \in Status \ {"absent"}
  BY DEF Status
<1>4. \A j \in Intent : Exists(j) => Exists(j)'
  BY <1>1, <1>2, <1>3, StatusTables DEF Claim
<1>5. CASE Goto(p, "post", Holding(p, i, "submitting"))
  <2>1. "post" \in Label /\ Sendable("post", Holding(p, i, "submitting"))
    BY <1>1, <1>3, HoldingIsLocal DEF Sendable, Creating, Using, Settling, Label
  <2>2. pc' \in [Handler -> Label] /\ held' \in [Handler -> Local] /\ HoldingOK'
    BY <1>1, <1>3, <1>4, <1>5, <2>1, HoldingIsLocal, GotoHolding
  <2> QED
    BY <1>1, <1>2, <1>3, <2>2, StatusStepTypeOK DEF Claim
<1>6. CASE Goto(p, "get", held[p])
  <2>1. "get" \in Label /\ Sendable("get", held[p])
    BY <1>1 DEF Sendable, Creating, Using, Settling, Label
  <2>2. pc' \in [Handler -> Label] /\ held' \in [Handler -> Local] /\ HoldingOK'
    BY <1>1, <1>4, <1>6, <2>1, GotoHolding
  <2> QED
    BY <1>1, <1>2, <1>3, <2>2, StatusStepTypeOK DEF Claim
<1> QED
  BY <1>5, <1>6 DEF Claim

\* The post to Horizon keeps the types.
LEMMA PostTypeOK ==
    ASSUME TypeOK, NEW p \in Handler, PostTransaction(p)
    PROVE  TypeOK'
<1> DEFINE i == held[p].intent
<1>1. held[p] \in Local /\ i \in Intent /\ Exists(i)
  BY UsingHolds DEF PostTransaction, Using
<1>2. posts' \in [Intent -> Nat] /\ ledger' \in [Intent -> LedgerView]
  BY <1>1 DEF PostTransaction, TypeOK, LedgerView
<1>3. "horizon" \in Label /\ Sendable("horizon", held[p])
  BY <1>1 DEF Sendable, Creating, Using, Settling, Label
<1>4. Goto(p, "horizon", held[p]) /\ UNCHANGED <<now, rows, granted>>
  BY DEF PostTransaction
<1>5. pc' \in [Handler -> Label] /\ held' \in [Handler -> Local] /\ HoldingOK'
  BY <1>1, <1>3, <1>4, SameRowsMonotone, GotoHolding
<1> QED
  BY <1>2, <1>4, <1>5 DEF TypeOK, TablesOK, HandlersOK, rows, Exists

\* What the ledger does with a posted transaction keeps the types.
LEMMA HorizonTypeOK ==
    ASSUME TypeOK, NEW p \in Handler, HorizonAccepts(p) \/ HorizonFails(p)
    PROVE  TypeOK'
<1>1. CASE HorizonAccepts(p)
  <2>1. held[p] \in Local /\ held[p].intent \in Intent /\ Exists(held[p].intent)
    BY <1>1, UsingHolds DEF HorizonAccepts, Using
  <2>2. "mark" \in Label /\ Sendable("mark", held[p])
    BY <2>1 DEF Sendable, Creating, Using, Settling, Label
  <2> QED
    BY <1>1, <2>1, <2>2, MoveTypeOK DEF HorizonAccepts
<1>2. CASE HorizonFails(p)
  BY <1>2, ReturnTypeOK DEF HorizonFails
<1> QED
  BY <1>1, <1>2

\* markSubmitted keeps the types.
LEMMA MarkSubmittedTypeOK ==
    ASSUME TypeOK, NEW p \in Handler, MarkSubmitted(p)
    PROVE  TypeOK'
<1> DEFINE i == held[p].intent
<1>1. i \in Intent /\ Exists(i)
  BY UsingHolds DEF MarkSubmitted, Using
<1>2. status' \in {status, [status EXCEPT ![i] = "submitted"]}
  BY CompareAndSetStatus, <1>1 DEF MarkSubmitted
<1>3. "submitted" \in Status \ {"absent"}
  BY DEF Status
<1>4. \A j \in Intent : Exists(j) => Exists(j)'
  BY <1>1, <1>2, <1>3, StatusTables DEF MarkSubmitted
<1>5. pc' \in [Handler -> Label] /\ held' \in [Handler -> Local] /\ HoldingOK'
  BY <1>1, <1>3, <1>4, ReconcileHolding DEF MarkSubmitted
<1> QED
  BY <1>1, <1>2, <1>3, <1>5, StatusStepTypeOK DEF MarkSubmitted

\* A lookup's answer keeps the types.
LEMMA LookupTypeOK ==
    ASSUME TypeOK, NEW p \in Handler, Lookup(p)
    PROVE  TypeOK'
<1>1. held[p] \in Local /\ held[p].intent \in Intent /\ Exists(held[p].intent)
  BY UsingHolds DEF Lookup, Using, Settling
<1>2. held[p].status \in Indeterminate
  BY DEF Lookup, TypeOK, HoldingOK, Settling
<1>3. \/ Goto(p, "settleConfirmed", held[p])
      \/ Goto(p, "settleFailed", held[p])
      \/ Return(p)
  BY DEF Lookup
<1>4. /\ "settleConfirmed" \in Label /\ Sendable("settleConfirmed", held[p])
      /\ "settleFailed" \in Label /\ Sendable("settleFailed", held[p])
  BY <1>1, <1>2 DEF Sendable, Creating, Using, Settling, Label
<1>5. UNCHANGED <<now, rows, ledger, posts, granted>>
  BY DEF Lookup
<1> QED
  BY <1>1, <1>3, <1>4, <1>5, MoveTypeOK, ReturnTypeOK

\* A settlement keeps the types.
LEMMA SettleTypeOK ==
    ASSUME TypeOK, NEW p \in Handler, SettleConfirmed(p) \/ SettleFailed(p)
    PROVE  TypeOK'
<1> DEFINE i == held[p].intent
<1>1. i \in Intent /\ Exists(i) /\ row[i] \in Row
  <2>1. i \in Intent /\ Exists(i)
    BY UsingHolds DEF SettleConfirmed, SettleFailed, Using, Settling
  <2> QED
    BY <2>1 DEF TypeOK, TablesOK
<1>2. row[i].quote \in Quote
  BY <1>1 DEF Row
<1>3. PICK s \in Settled : status' \in {status, [status EXCEPT ![i] = s]}
  BY DEF SettleConfirmed, SettleFailed, Settle
<1>4. /\ order' \in [Quote -> OrderStatus]
      /\ paidBy' \in [Quote -> Intent \cup {NoIntent}]
  BY <1>1, <1>2 DEF SettleConfirmed, SettleFailed, Settle, TypeOK, TablesOK,
     OrderStatus
<1>5. attempts' \in [Intent -> [Settled -> Nat]]
  <2> SUFFICES ASSUME NEW t \in Settled,
                      attempts' = [attempts EXCEPT ![i][t] = @ + 1]
               PROVE  attempts' \in [Intent -> [Settled -> Nat]]
    BY DEF SettleConfirmed, SettleFailed, Settle, TypeOK, TablesOK
  <2>1. attempts[i] \in [Settled -> Nat]
    BY <1>1 DEF TypeOK, TablesOK
  <2>2. [attempts[i] EXCEPT ![t] = @ + 1] \in [Settled -> Nat]
    BY <2>1
  <2> QED
    BY <2>2, <1>1 DEF TypeOK, TablesOK
<1>6. s \in Status \ {"absent"} /\ UNCHANGED <<now, quotes, row, ledger, posts, granted>>
  BY DEF Status, SettleConfirmed, SettleFailed
<1>7. /\ status' \in [Intent -> Status]
      /\ \A j \in Intent : Exists(j)' <=> Exists(j)
      /\ \A j \in Intent : Exists(j)' <=> row'[j] # NoRow
  BY <1>1, <1>3, <1>6, StatusTables
<1>8. pc' \in [Handler -> Label] /\ held' \in [Handler -> Local] /\ HoldingOK'
  BY <1>7, ReturnHolding DEF SettleConfirmed, SettleFailed
<1> QED
  BY <1>4, <1>5, <1>6, <1>7, <1>8 DEF TypeOK, TablesOK, HandlersOK

\* Steps of the clock, of the approval of a quote and of the ledger.
LEMMA EnvironmentTypeOK ==
    ASSUME TypeOK,
           \/ Tick
           \/ \E q \in Quote : SaveQuote(q) \/ SaveOrder(q)
           \/ \E i \in Intent :
                \/ Drop(i)
                \/ \E outcome \in {"success", "failed"} : Include(i, outcome)
    PROVE  TypeOK'
<1>1. CASE Tick
  BY <1>1 DEF Tick, TypeOK, TablesOK, HandlersOK, HoldingOK, rows, Exists
<1>2. ASSUME NEW q \in Quote, SaveQuote(q) \/ SaveOrder(q) PROVE TypeOK'
  <2>1. quotes' \in SUBSET Quote /\ order' \in [Quote -> OrderStatus]
    BY <1>2 DEF SaveQuote, SaveOrder, TypeOK, TablesOK, OrderStatus
  <2> QED
    BY <1>2, <2>1 DEF SaveQuote, SaveOrder, TypeOK, TablesOK, HandlersOK,
       HoldingOK, Exists
<1>3. ASSUME NEW i \in Intent,
             Drop(i) \/ \E outcome \in {"success", "failed"} : Include(i, outcome)
      PROVE  TypeOK'
  <2>1. ledger' \in [Intent -> LedgerView]
    BY <1>3 DEF Drop, Include, TypeOK, LedgerView
  <2> QED
    BY <1>3, <2>1 DEF Drop, Include, TypeOK, TablesOK, HandlersOK, HoldingOK,
       rows, Exists
<1> QED
  BY <1>1, <1>2, <1>3

\* Every step of a waiting handler keeps the types.
LEMMA ResumeTypeOK ==
    ASSUME TypeOK, NEW p \in Handler, Resume(p)
    PROVE  TypeOK'
<1>1. CASE GetAgain(p)
  <2>1. held[p].intent \in Intent /\ Exists(held[p].intent)
    BY <1>1, UsingHolds DEF GetAgain, Using
  <2> QED
    BY <1>1, <2>1, ReadTypeOK DEF GetAgain
<1> QED
  BY <1>1, FindQuoteTypeOK, ExpireUnsignedTypeOK, BuildTypeOK, InsertTypeOK,
     RacedTypeOK, ExpireOnReadTypeOK, ClaimTypeOK, PostTypeOK, HorizonTypeOK,
     MarkSubmittedTypeOK, LookupTypeOK, SettleTypeOK
     DEF Resume

\* Every step keeps the types.
LEMMA NextTypeOK == TypeOK /\ [Next]_vars => TypeOK'
<1> SUFFICES ASSUME TypeOK, [Next]_vars PROVE TypeOK'
  OBVIOUS
<1>1. CASE UNCHANGED vars
  BY <1>1 DEF vars, rows, TypeOK, TablesOK, HandlersOK, HoldingOK, Exists
<1>2. ASSUME NEW p \in Handler,
             \/ \E a \in Ask : CreateIntent(p, a)
             \/ \E i \in Intent :
                 GetIntent(p, i) \/ SubmitSigned(p, i) \/ ReconcileIntent(p, i)
             \/ Resume(p)
             \/ Abort(p)
      PROVE  TypeOK'
  <2>1. ASSUME NEW i \in Intent, GetIntent(p, i) PROVE TypeOK'
    BY <2>1, ReadTypeOK DEF GetIntent
  <2>2. ASSUME NEW i \in Intent, ReconcileIntent(p, i) PROVE TypeOK'
    <3>1. Exists(i)
      BY <2>2 DEF ReconcileIntent, Exists
    <3> QED
      BY <2>2, <3>1, ReconcileTypeOK DEF ReconcileIntent
  <2>3. CASE Abort(p)
    BY <2>3, ReturnTypeOK DEF Abort
  <2> QED
    BY <1>2, <2>1, <2>2, <2>3, CreateTypeOK, SubmitSignedTypeOK, ResumeTypeOK
<1> QED
  BY <1>1, <1>2, EnvironmentTypeOK DEF Next

\* Every variable keeps its type, and every handler that waits to use an intent
\* holds one that exists, with the snapshot the next call relies on.
THEOREM TypeCorrect == Spec => []TypeOK
<1>1. Init => TypeOK
  BY InitTypeOK
<1>2. TypeOK /\ [Next]_vars => TypeOK'
  BY NextTypeOK
<1> QED
  BY <1>1, <1>2, PTL DEF Spec

----------------------------------------------------------------------------
(* The inductive invariant.  What the runs check is not inductive: that no  *)
(* transaction is posted twice rests on who may be about to post it, that   *)
(* the records agree with the ledger on what a handler learnt before it     *)
(* settles, and that a payment is within its approval on the time bound a   *)
(* handler computed before it inserted the row.                             *)

\* Only the handler that claimed an intent is about to post it, nothing was
\* posted before it was claimed, and only what was posted reaches the ledger.
SubmissionInv ==
    /\ \A p \in Handler : pc[p] = "post" =>
        /\ status[held[p].intent] = "submitting"
        /\ posts[held[p].intent] = 0
    /\ \A p \in Handler :
        pc[p] \in {"horizon", "mark"} => posts[held[p].intent] = 1
    /\ \A p, q \in Handler :
        /\ pc[p] = "post" /\ pc[q] = "post" /\ held[p].intent = held[q].intent
        => p = q
    /\ \A i \in Intent :
        status[i] \in {"absent", "awaiting_signature", "expired"} => posts[i] = 0
    /\ \A i \in Intent : posts[i] = 0 => ledger[i] = "none"
    /\ \A i \in Intent : posts[i] <= 1

\* A handler about to settle an intent knows its final outcome, and so does a
\* settled intent.
OutcomeInv ==
    /\ \A p \in Handler :
        /\ pc[p] = "settleConfirmed" => ledger[held[p].intent] = "success"
        /\ pc[p] = "settleFailed" => ledger[held[p].intent] = "failed"
    /\ \A i \in Intent :
        /\ status[i] = "confirmed" => ledger[i] = "success"
        /\ status[i] = "failed" => ledger[i] = "failed"

\* A row, and a handler that is about to insert or look for one, belongs to the
\* principal that owns the quote; a key is used by one row of a principal; and
\* what was granted for a key is that row.
KeyInv ==
    /\ \A p \in Handler :
        pc[p] \in {"expire", "build", "insert", "raced"} =>
            QuotePrincipal[held[p].ask.quote] = held[p].ask.principal
    /\ \A i, j \in Intent :
        /\ Exists(i) /\ Exists(j) /\ row[i].key = row[j].key
        /\ QuotePrincipal[row[i].quote] = QuotePrincipal[row[j].quote]
        => i = j
    /\ \A g \in granted : HasKey(g.intent, g.ask) /\ SamePayload(g.intent, g.ask)

\* A time bound, in a row or on its way to one, is within its quote's.
TimeInv ==
    /\ \A p \in Handler :
        pc[p] = "insert" => held[p].time <= QuoteExpiry[held[p].ask.quote]
    /\ \A i \in Intent :
        Exists(i) => row[i].expiresAt <= QuoteExpiry[row[i].quote]

IInv ==
    /\ TypeOK
    /\ SubmissionInv
    /\ OutcomeInv
    /\ OneActivePayer
    /\ SettledTogether
    /\ KeyInv
    /\ TimeInv


----------------------------------------------------------------------------
(* Which steps matter to what *)

\* Every handler but p stays where it is.
OthersWait(p) ==
    \A q \in Handler \ {p} : pc'[q] = pc[q] /\ held'[q] = held[q]

\* Steps that move one handler, write no status and post nothing.
LEMMA QuietStep ==
    ASSUME TypeOK, NEW p \in Handler,
           \/ \E a \in Ask : CreateIntent(p, a)
           \/ FindQuote(p) \/ Build(p) \/ Raced(p)
           \/ \E i \in Intent :
               GetIntent(p, i) \/ SubmitSigned(p, i) \/ ReconcileIntent(p, i)
           \/ GetAgain(p) \/ HorizonFails(p) \/ Abort(p)
    PROVE  /\ UNCHANGED <<rows, ledger, posts>>
           /\ OthersWait(p)
           /\ pc'[p] \in {"idle", "quote", "expire", "insert", "claim", "expiring",
                          "lookup"}
BY DEF TypeOK, HandlersOK, OthersWait, CreateIntent, Replay, Grant, FindQuote, Build,
       Raced, GetIntent, SubmitSigned, ReconcileIntent, GetAgain, HorizonFails,
       Abort, Read, Reconcile, Goto, Return

\* The submission part and the outcome part of the invariant.
Submitted == SubmissionInv /\ OutcomeInv

\* A step that leaves rows, ledger, transactions and answers alone keeps Submitted.
LEMMA QuietSubmitted ==
    ASSUME TypeOK, Submitted, NEW p \in Handler,
           UNCHANGED <<rows, ledger, posts>>, OthersWait(p),
           pc'[p] \notin {"post", "horizon", "mark", "settleConfirmed", "settleFailed"}
    PROVE  Submitted'
BY DEF rows, OthersWait, Submitted, SubmissionInv, OutcomeInv

\* Lapsing a payer's unsigned rows (repository 232-240) keeps Submitted.
LEMMA ExpireUnsignedSubmitted ==
    ASSUME TypeOK, Submitted, NEW p \in Handler, ExpireUnsigned(p)
    PROVE  Submitted'
<1>1. OthersWait(p) /\ pc'[p] = "build"
  BY DEF OthersWait, ExpireUnsigned, Goto, TypeOK, HandlersOK
<1>2. \A i \in Intent : \/ status'[i] = status[i]
                        \/ status[i] = "awaiting_signature" /\ status'[i] = "expired"
  BY DEF ExpireUnsigned, LapsedOf
<1>3. \A q \in Handler : pc[q] \in Using => held[q].intent \in Intent
  BY UsingHolds
<1> QED
  BY <1>1, <1>2, <1>3
     DEF ExpireUnsigned, OthersWait, Submitted, SubmissionInv, OutcomeInv, Using

\* The insert of an unsigned row (repository 69-93) keeps Submitted.
LEMMA InsertSubmitted ==
    ASSUME TypeOK, Submitted, NEW p \in Handler, Insert(p)
    PROVE  Submitted'
<1>1. OthersWait(p) /\ pc'[p] \in {"idle", "raced"} /\ UNCHANGED <<ledger, posts>>
  BY DEF OthersWait, Insert, Grant, Return, Goto, TypeOK, HandlersOK
<1>2. \A i \in Intent : \/ status'[i] = status[i]
                        \/ status[i] = "absent" /\ status'[i] = "awaiting_signature"
  BY DEF Insert, Exists, TypeOK, TablesOK
<1>3. \A q \in Handler : pc[q] \in Using => held[q].intent \in Intent
  BY UsingHolds
<1> QED
  BY <1>1, <1>2, <1>3 DEF OthersWait, Submitted, SubmissionInv, OutcomeInv, Using

\* The lapse of one row by submitSigned (service 183-192) keeps Submitted.
LEMMA ExpireOnReadSubmitted ==
    ASSUME TypeOK, Submitted, NEW p \in Handler, ExpireOnRead(p)
    PROVE  Submitted'
<1>1. OthersWait(p) /\ pc'[p] = "idle" /\ UNCHANGED <<ledger, posts>>
  BY DEF OthersWait, ExpireOnRead, Return, Goto, TypeOK, HandlersOK
<1>2. \A i \in Intent : \/ status'[i] = status[i]
                        \/ status[i] = "awaiting_signature" /\ status'[i] = "expired"
  BY DEF ExpireOnRead, CompareAndSet, TypeOK, TablesOK
<1>3. \A q \in Handler : pc[q] \in Using => held[q].intent \in Intent
  BY UsingHolds
<1> QED
  BY <1>1, <1>2, <1>3 DEF OthersWait, Submitted, SubmissionInv, OutcomeInv, Using

\* The claim: at most one handler finds the intent awaiting its signature.
LEMMA ClaimSubmitted ==
    ASSUME TypeOK, Submitted, NEW p \in Handler, Claim(p)
    PROVE  Submitted'
<1> DEFINE i == held[p].intent
<1>1. i \in Intent /\ \A q \in Handler : pc[q] \in Using => held[q].intent \in Intent
  BY UsingHolds DEF Claim, Using
<1>2. OthersWait(p) /\ UNCHANGED <<ledger, posts>>
  BY DEF OthersWait, Claim, Goto, TypeOK, HandlersOK
<1>3. CASE status[i] = "awaiting_signature"
  <2>1. status' = [status EXCEPT ![i] = "submitting"]
    BY <1>3 DEF Claim, CompareAndSet
  <2>2. pc'[p] = "post" /\ held'[p].intent = i
    BY <1>1, <1>3 DEF Claim, Goto, Holding, TypeOK, HandlersOK, Local
  <2>3. posts[i] = 0 /\ \A q \in Handler : pc[q] = "post" => held[q].intent # i
    BY <1>1, <1>3 DEF Submitted, SubmissionInv
  <2>4. \A j \in Intent : IF j = i THEN status'[j] = "submitting"
                                   ELSE status'[j] = status[j]
    BY <2>1 DEF TypeOK, TablesOK
  <2>5. SubmissionInv'
    BY <1>1, <1>2, <1>3, <2>2, <2>3, <2>4
       DEF OthersWait, Submitted, SubmissionInv, Using
  <2>6. OutcomeInv'
    BY <1>1, <1>2, <1>3, <2>2, <2>4
       DEF OthersWait, Submitted, OutcomeInv, Using, Settling
  <2> QED
    BY <2>5, <2>6 DEF Submitted
<1>4. CASE status[i] # "awaiting_signature"
  <2>1. status' = status /\ pc'[p] = "get"
    BY <1>4 DEF Claim, CompareAndSet, Goto, TypeOK, HandlersOK
  <2> QED
    BY <1>2, <2>1 DEF OthersWait, Submitted, SubmissionInv, OutcomeInv
<1> QED
  BY <1>3, <1>4

\* Posting a claimed transaction (gateway submit) keeps Submitted: it was never posted before.
LEMMA PostSubmitted ==
    ASSUME TypeOK, Submitted, NEW p \in Handler, PostTransaction(p)
    PROVE  Submitted'
<1> DEFINE i == held[p].intent
<1>1. i \in Intent /\ \A q \in Handler : pc[q] \in Using => held[q].intent \in Intent
  BY UsingHolds DEF PostTransaction, Using
<1>2. OthersWait(p) /\ pc'[p] = "horizon" /\ held'[p] = held[p] /\ status' = status
  BY DEF OthersWait, PostTransaction, Goto, TypeOK, HandlersOK, rows
<1>3. status[i] = "submitting" /\ posts[i] = 0 /\ ledger[i] = "none"
  BY <1>1 DEF PostTransaction, Submitted, SubmissionInv
<1>4. posts' = [posts EXCEPT ![i] = 1]
  BY <1>3 DEF PostTransaction
<1>5. \A j \in Intent : j # i => ledger'[j] = ledger[j]
  BY DEF PostTransaction, TypeOK
<1>6. \A q \in Handler : q # p /\ pc[q] \in {"post", "horizon", "mark"}
                            => held[q].intent # i
  BY <1>3 DEF PostTransaction, Submitted, SubmissionInv
<1>7. \A q \in Handler : pc[q] \in {"settleConfirmed", "settleFailed"}
                            => held[q].intent # i
  BY <1>3 DEF Submitted, OutcomeInv
<1> QED
  BY <1>1, <1>2, <1>3, <1>4, <1>5, <1>6, <1>7
     DEF TypeOK, OthersWait, Submitted, SubmissionInv, OutcomeInv, Using, Settling

\* A ledger that includes or refuses a posted transaction keeps Submitted.
LEMMA HorizonAcceptsSubmitted ==
    ASSUME TypeOK, Submitted, NEW p \in Handler, HorizonAccepts(p)
    PROVE  Submitted'
<1>1. OthersWait(p) /\ pc'[p] = "mark" /\ held'[p] = held[p] /\ pc[p] = "horizon"
  BY DEF OthersWait, HorizonAccepts, Goto, TypeOK, HandlersOK
<1> QED
  BY <1>1 DEF HorizonAccepts, rows, OthersWait, Submitted, SubmissionInv, OutcomeInv

\* markSubmitted, whether its row still waits for it or not, keeps Submitted.
LEMMA MarkSubmitted_Submitted ==
    ASSUME TypeOK, Submitted, NEW p \in Handler, MarkSubmitted(p)
    PROVE  Submitted'
<1> DEFINE i == held[p].intent
<1>1. i \in Intent /\ \A q \in Handler : pc[q] \in Using => held[q].intent \in Intent
  BY UsingHolds DEF MarkSubmitted, Using
<1>2. OthersWait(p) /\ pc'[p] = "lookup" /\ UNCHANGED <<ledger, posts>>
  BY DEF OthersWait, MarkSubmitted, Reconcile, Goto, TypeOK, HandlersOK
<1>3. posts[i] = 1
  BY DEF MarkSubmitted, Submitted, SubmissionInv
<1>4. \A j \in Intent : \/ status'[j] = status[j]
                        \/ j = i /\ status[j] = "submitting" /\ status'[j] = "submitted"
  BY DEF MarkSubmitted, CompareAndSet, TypeOK, TablesOK
<1> QED
  BY <1>1, <1>2, <1>3, <1>4
     DEF OthersWait, Submitted, SubmissionInv, OutcomeInv, Using

\* A lookup's answer, taken from the ledger and held across an await, keeps Submitted.
LEMMA LookupSubmitted ==
    ASSUME TypeOK, Submitted, NEW p \in Handler, Lookup(p)
    PROVE  Submitted'
<1>1. /\ OthersWait(p)
      /\ \/ pc'[p] = "idle"
         \/ /\ pc'[p] = "settleConfirmed" /\ held'[p] = held[p]
            /\ ledger[held[p].intent] = "success"
         \/ /\ pc'[p] = "settleFailed" /\ held'[p] = held[p]
            /\ ledger[held[p].intent] = "failed"
  BY DEF OthersWait, Lookup, Return, Goto, TypeOK, HandlersOK
<1> QED
  BY <1>1 DEF Lookup, rows, OthersWait, Submitted, SubmissionInv, OutcomeInv

\* What the two settlements do when they do something.
LEMMA SettleEffect ==
    ASSUME TypeOK, Submitted, NEW p \in Handler, SettleConfirmed(p) \/ SettleFailed(p)
    PROVE  /\ OthersWait(p) /\ pc'[p] = "idle"
           /\ UNCHANGED <<now, quotes, row, ledger, posts, granted>>
           /\ held[p].intent \in Intent /\ Exists(held[p].intent)
           /\ \/ UNCHANGED <<status, order, attempts, paidBy>>
              \/ /\ SettleConfirmed(p) /\ AsSeen(p) /\ PayableOrder(held[p].intent)
                 /\ status[held[p].intent] \in Indeterminate
                 /\ ledger[held[p].intent] = "success"
                 /\ Settle(held[p].intent, "confirmed", "paid")
                 /\ paidBy' = [paidBy EXCEPT ![row[held[p].intent].quote]
                                                = held[p].intent]
              \/ /\ SettleFailed(p) /\ AsSeen(p) /\ FailableOrder(held[p].intent)
                 /\ status[held[p].intent] \in Indeterminate
                 /\ ledger[held[p].intent] = "failed"
                 /\ Settle(held[p].intent, "failed", "payment_failed")
                 /\ paidBy' = paidBy
<1>1. held[p].intent \in Intent /\ Exists(held[p].intent)
  BY UsingHolds DEF SettleConfirmed, SettleFailed, Using, Settling
<1>2. held[p].status \in Indeterminate
  BY DEF TypeOK, HoldingOK, SettleConfirmed, SettleFailed, Settling
<1>3. OthersWait(p) /\ pc'[p] = "idle"
  BY DEF SettleConfirmed, SettleFailed, OthersWait, Return, Goto, TypeOK, HandlersOK
<1>4. CASE SettleConfirmed(p)
  BY <1>1, <1>2, <1>3, <1>4 DEF SettleConfirmed, AsSeen, Submitted, OutcomeInv
<1>5. CASE SettleFailed(p)
  BY <1>1, <1>2, <1>3, <1>5 DEF SettleFailed, AsSeen, Submitted, OutcomeInv
<1> QED
  BY <1>4, <1>5

\* Settling with an answer that may be stale by now keeps Submitted.
LEMMA SettleSubmitted ==
    ASSUME TypeOK, Submitted, NEW p \in Handler, SettleConfirmed(p) \/ SettleFailed(p)
    PROVE  Submitted'
<1> DEFINE i == held[p].intent
<1>1. /\ OthersWait(p) /\ pc'[p] = "idle" /\ UNCHANGED <<ledger, posts>>
      /\ i \in Intent
      /\ \/ status' = status
         \/ /\ ledger[i] = "success"
            /\ status' = [status EXCEPT ![i] = "confirmed"]
         \/ /\ ledger[i] = "failed"
            /\ status' = [status EXCEPT ![i] = "failed"]
  BY SettleEffect DEF Settle
<1>2. \A q \in Handler : pc[q] \in Using => held[q].intent \in Intent
  BY UsingHolds
<1>3. ledger[i] # "none" => posts[i] = 1 /\ posts[i] # 0
  BY <1>1 DEF Submitted, SubmissionInv, TypeOK
<1>4. \A j \in Intent : \/ status'[j] = status[j]
                        \/ /\ j = i /\ posts[i] = 1
                           /\ \/ ledger[i] = "success" /\ status'[i] = "confirmed"
                              \/ ledger[i] = "failed" /\ status'[i] = "failed"
  BY <1>1, <1>3 DEF TypeOK, TablesOK
<1>5. SubmissionInv'
  BY <1>1, <1>2, <1>4 DEF OthersWait, Submitted, SubmissionInv, Using
<1>6. OutcomeInv'
  BY <1>1, <1>2, <1>4 DEF OthersWait, Submitted, OutcomeInv, Using, Settling
<1> QED
  BY <1>5, <1>6 DEF Submitted

\* Time, the ledger and crashes keep Submitted.
LEMMA EnvironmentSubmitted ==
    ASSUME TypeOK, Submitted,
           \/ Tick
           \/ \E q \in Quote : SaveQuote(q) \/ SaveOrder(q)
           \/ \E i \in Intent :
                \/ Drop(i)
                \/ \E outcome \in {"success", "failed"} : Include(i, outcome)
    PROVE  Submitted'
<1>1. UNCHANGED <<status, posts, pc, held>>
  BY DEF Tick, SaveQuote, SaveOrder, Drop, Include, rows
<1>2. \A i \in Intent : \/ ledger'[i] = ledger[i]
                        \/ ledger[i] = "queued"
  BY DEF Tick, SaveQuote, SaveOrder, Drop, Include, TypeOK
<1>3. \A q \in Handler : pc[q] \in Using => held[q].intent \in Intent
  BY UsingHolds
<1> QED
  BY <1>1, <1>2, <1>3 DEF Submitted, SubmissionInv, OutcomeInv, Using, Settling

\* Every step of the specification keeps Submitted.
LEMMA NextSubmitted == TypeOK /\ Submitted /\ [Next]_vars => Submitted'
<1> SUFFICES ASSUME TypeOK, Submitted, [Next]_vars PROVE Submitted'
  OBVIOUS
<1>1. CASE UNCHANGED vars
  BY <1>1 DEF vars, rows, Submitted, SubmissionInv, OutcomeInv
<1>2. ASSUME NEW p \in Handler,
             \/ \E a \in Ask : CreateIntent(p, a)
             \/ FindQuote(p) \/ Build(p) \/ Raced(p)
             \/ \E i \in Intent :
                 GetIntent(p, i) \/ SubmitSigned(p, i) \/ ReconcileIntent(p, i)
             \/ GetAgain(p) \/ HorizonFails(p) \/ Abort(p)
      PROVE  Submitted'
  BY <1>2, QuietStep, QuietSubmitted
<1> QED
  BY <1>1, <1>2, ExpireUnsignedSubmitted, InsertSubmitted, ExpireOnReadSubmitted,
     ClaimSubmitted, PostSubmitted, HorizonAcceptsSubmitted,
     MarkSubmitted_Submitted, LookupSubmitted, SettleSubmitted,
     EnvironmentSubmitted
     DEF Next, Resume

----------------------------------------------------------------------------
(* Rows: who gets one, and with what *)

\* Only an insert writes a row; every other step leaves the rows alone, makes no
\* intent active and settles none but in SettleConfirmed and SettleFailed.
OldRows ==
    /\ row' = row
    /\ \A i \in Intent : status'[i] = "absent" <=> status[i] = "absent"
    /\ \A i \in Intent : status'[i] \in Active => status[i] \in Active

\* One insert, and the request it answers.
NewRow(p, i) ==
    LET a == held[p].ask IN
    /\ a \in Ask
    /\ Unique(a)
    /\ status[i] = "absent"
    /\ row' = [row EXCEPT ![i] = [quote |-> a.quote, key |-> a.key,
                                  expiresAt |-> held[p].time]]
    /\ status' = [status EXCEPT ![i] = "awaiting_signature"]
    /\ granted' = granted \cup {[ask |-> a, intent |-> i]}

\* An insert adds exactly one new row, or, refused by a unique index, none.
LEMMA InsertRows ==
    ASSUME TypeOK, NEW p \in Handler, Insert(p)
    PROVE  \/ row' = row /\ status' = status /\ granted' = granted
           \/ \E i \in Intent : NewRow(p, i)
<1>1. held[p].ask \in Ask
  BY DEF TypeOK, HoldingOK, Insert, Creating
<1> QED
  BY <1>1 DEF Insert, NewRow, Grant, Exists

\* Every step but an insert only rewrites statuses of the rows there are.
LEMMA OtherRows ==
    ASSUME TypeOK, Submitted, [Next]_vars, ~\E p \in Handler : Insert(p)
    PROVE  OldRows
<1>1. CASE UNCHANGED <<row, status>>
  BY <1>1 DEF OldRows
<1>2. ASSUME NEW p \in Handler, ExpireUnsigned(p) PROVE OldRows
  BY <1>2 DEF ExpireUnsigned, LapsedOf, OldRows, TypeOK, TablesOK
<1>3. ASSUME NEW p \in Handler, ExpireOnRead(p) \/ Claim(p) \/ MarkSubmitted(p)
      PROVE  OldRows
  BY <1>3 DEF ExpireOnRead, Claim, MarkSubmitted, CompareAndSet, OldRows, TypeOK,
              TablesOK
<1>4. ASSUME NEW p \in Handler, SettleConfirmed(p) \/ SettleFailed(p)
      PROVE  OldRows
  <2>1. held[p].intent \in Intent /\ status[held[p].intent] # "absent"
    BY <1>4, SettleEffect DEF Exists
  <2> QED
    BY <1>4, <2>1 DEF SettleConfirmed, SettleFailed, Settle, OldRows, TypeOK,
                      TablesOK
<1>5. ASSUME NEW p \in Handler,
             \/ \E a \in Ask : CreateIntent(p, a)
             \/ FindQuote(p) \/ Build(p) \/ Raced(p)
             \/ \E i \in Intent :
                 GetIntent(p, i) \/ SubmitSigned(p, i) \/ ReconcileIntent(p, i)
             \/ GetAgain(p) \/ HorizonFails(p) \/ Abort(p)
      PROVE  UNCHANGED <<row, status>>
  BY <1>5, QuietStep DEF rows
<1>6. ASSUME NEW p \in Handler, PostTransaction(p) \/ HorizonAccepts(p) \/ Lookup(p)
      PROVE  UNCHANGED <<row, status>>
  BY <1>6 DEF PostTransaction, HorizonAccepts, Lookup, rows
<1>7. CASE \/ Tick
           \/ \E q \in Quote : SaveQuote(q) \/ SaveOrder(q)
           \/ \E i \in Intent :
                \/ Drop(i)
                \/ \E outcome \in {"success", "failed"} : Include(i, outcome)
  BY <1>1, <1>7 DEF Tick, SaveQuote, SaveOrder, Drop, Include, rows
<1>8. CASE UNCHANGED vars
  BY <1>1, <1>8 DEF vars, rows
<1> QED
  BY <1>1, <1>2, <1>3, <1>4, <1>5, <1>6, <1>7, <1>8 DEF Next, Resume

\* Every step keeps one active intent per payer: an insert is refused by the partial
\* unique index, and no step makes an ended row active again.
LEMMA NextOneActivePayer ==
    TypeOK /\ Submitted /\ OneActivePayer /\ [Next]_vars => OneActivePayer'
<1> SUFFICES ASSUME TypeOK, Submitted, OneActivePayer, [Next]_vars
             PROVE  OneActivePayer'
  OBVIOUS
<1>1. CASE OldRows
  BY <1>1 DEF OldRows, OneActivePayer, PayerOf
<1>2. ASSUME NEW p \in Handler, NEW n \in Intent, NewRow(p, n)
      PROVE  OneActivePayer'
  <2> DEFINE a == held[p].ask
  <2> DEFINE Payer1(i) == QuotePayer[row'[i].quote]
  <2>1. Payer1(n) = QuotePayer[a.quote]
    BY <1>2 DEF NewRow, TypeOK, TablesOK
  <2>2. \A i \in Intent \ {n} : status'[i] = status[i] /\ Payer1(i) = PayerOf(i)
    BY <1>2 DEF NewRow, TypeOK, TablesOK, PayerOf
  <2>3. \A i \in Intent \ {n} : status[i] \in Active => PayerOf(i) # QuotePayer[a.quote]
    BY <1>2 DEF NewRow, Unique
  <2>4. \A i, j \in Intent \ {n} :
            status[i] \in Active /\ status[j] \in Active /\ PayerOf(i) = PayerOf(j)
                => i = j
    BY DEF OneActivePayer
  <2> HIDE DEF Payer1
  <2>5. \A i, j \in Intent :
            status'[i] \in Active /\ status'[j] \in Active /\ Payer1(i) = Payer1(j)
                => i = j
    BY <2>1, <2>2, <2>3, <2>4
  <2> QED
    BY <2>5 DEF OneActivePayer, PayerOf, Payer1
<1>3. CASE \E p \in Handler : Insert(p)
  <2>1. PICK p \in Handler : Insert(p)
    BY <1>3
  <2>2. CASE row' = row /\ status' = status
    BY <2>2, <1>1 DEF OldRows
  <2> QED
    BY <2>1, <2>2, <1>2, InsertRows
<1> QED
  BY <1>1, <1>3, OtherRows

----------------------------------------------------------------------------
(* What a createIntent request carries from call to call *)

\* A request past its quote belongs to the quote's owner, and a time bound it is
\* about to insert is within the quote's approval.
AskOK(q) ==
    /\ pc[q] \in {"expire", "build", "insert", "raced"} =>
            QuotePrincipal[held[q].ask.quote] = held[q].ask.principal
    /\ pc[q] = "insert" => held[q].time <= QuoteExpiry[held[q].ask.quote]

\* A build signs a time bound within the approval of the quote it was given.
LEMMA BuildAskOK ==
    ASSUME TypeOK, NEW p \in Handler, AskOK(p), Build(p)
    PROVE  OthersWait(p) /\ AskOK(p)'
<1> DEFINE remaining == QuoteExpiry[held[p].ask.quote] - now
<1> DEFINE ttl == IF remaining < MaxTtl THEN remaining ELSE MaxTtl
<1> DEFINE local == [held[p] EXCEPT !.time = now + ttl]
<1>1. held[p] \in Local /\ held[p].ask \in Ask /\ pc[p] = "build"
  BY DEF TypeOK, HandlersOK, HoldingOK, Build, Creating
<1>2. now \in Nat /\ QuoteExpiry[held[p].ask.quote] \in Nat /\ MaxTtl \in Nat
  BY <1>1, QuoteAssumption, ClockAssumption DEF TypeOK, Ask
<1>3. local.ask = held[p].ask /\ local.time = now + ttl
  BY <1>1 DEF Local
<1>4. now + ttl <= QuoteExpiry[held[p].ask.quote]
  BY <1>2
<1>5. OthersWait(p)
  BY DEF Build, OthersWait, Goto, Return, TypeOK, HandlersOK
<1>6. \/ pc'[p] = "insert" /\ held'[p] = local
      \/ pc'[p] = "idle"
  BY DEF Build, Goto, Return, TypeOK, HandlersOK
<1> QED
  BY <1>1, <1>3, <1>4, <1>5, <1>6 DEF AskOK

\* The other awaits of createIntent keep what the handler asked for.
LEMMA CreatingAskOK ==
    ASSUME TypeOK, NEW p \in Handler, AskOK(p),
           FindQuote(p) \/ ExpireUnsigned(p) \/ Insert(p)
    PROVE  OthersWait(p) /\ AskOK(p)'
<1>1. held[p] \in Local
  BY DEF TypeOK, HandlersOK
<1>2. CASE FindQuote(p)
  <2>1. [held[p] EXCEPT !.time = now].ask = held[p].ask
    BY <1>1 DEF Local
  <2> QED
    BY <1>2, <2>1 DEF FindQuote, OthersWait, AskOK, Goto, Return, TypeOK, HandlersOK
<1>3. CASE ExpireUnsigned(p)
  BY <1>3 DEF ExpireUnsigned, OthersWait, AskOK, Goto, TypeOK, HandlersOK
<1>4. CASE Insert(p)
  BY <1>4 DEF Insert, Grant, OthersWait, AskOK, Goto, Return, TypeOK, HandlersOK
<1> QED
  BY <1>2, <1>3, <1>4

\* In every step, a creating handler holds a quote of its own principal and a time bound
\* within its approval.
LEMMA NextAskOK ==
    TypeOK /\ (\A q \in Handler : AskOK(q)) /\ [Next]_vars
        => \A q \in Handler : AskOK(q)'
<1> SUFFICES ASSUME TypeOK, \A q \in Handler : AskOK(q), [Next]_vars
             PROVE  \A q \in Handler : AskOK(q)'
  OBVIOUS
<1>1. CASE UNCHANGED <<pc, held>>
  BY <1>1 DEF AskOK
<1>2. ASSUME NEW p \in Handler, OthersWait(p), AskOK(p)'
      PROVE  \A q \in Handler : AskOK(q)'
  BY <1>2 DEF OthersWait, AskOK
<1>3. ASSUME NEW p \in Handler,
             \/ \E a \in Ask : CreateIntent(p, a)
             \/ Raced(p)
             \/ \E i \in Intent :
                 GetIntent(p, i) \/ SubmitSigned(p, i) \/ ReconcileIntent(p, i)
             \/ GetAgain(p) \/ HorizonFails(p) \/ Abort(p)
      PROVE  OthersWait(p) /\ AskOK(p)'
  <2>1. /\ OthersWait(p)
        /\ pc'[p] \in {"idle", "quote", "claim", "expiring", "lookup"}
    BY <1>3 DEF TypeOK, HandlersOK, OthersWait, CreateIntent, Replay, Grant,
       Raced, GetIntent, SubmitSigned, ReconcileIntent, GetAgain, HorizonFails,
       Abort, Read, Reconcile, Goto, Return
  <2> QED
    BY <2>1 DEF AskOK
<1>4. ASSUME NEW p \in Handler,
             \/ ExpireOnRead(p) \/ Claim(p) \/ PostTransaction(p)
             \/ HorizonAccepts(p) \/ MarkSubmitted(p) \/ Lookup(p)
             \/ SettleConfirmed(p) \/ SettleFailed(p)
      PROVE  OthersWait(p) /\ AskOK(p)'
  <2>1. CASE Lookup(p)
    <3>1. Goto(p, "settleConfirmed", held[p]) \/ Goto(p, "settleFailed", held[p])
            \/ Return(p)
      BY <2>1 DEF Lookup
    <3> QED
      BY <3>1 DEF OthersWait, AskOK, Goto, Return, TypeOK, HandlersOK
  <2>2. CASE \/ ExpireOnRead(p) \/ Claim(p) \/ PostTransaction(p)
             \/ HorizonAccepts(p) \/ MarkSubmitted(p)
             \/ SettleConfirmed(p) \/ SettleFailed(p)
    <3>1. /\ OthersWait(p)
          /\ pc'[p] \in {"idle", "get", "post", "horizon", "mark", "lookup"}
      BY <2>2 DEF TypeOK, HandlersOK, OthersWait, ExpireOnRead, Claim,
         PostTransaction, HorizonAccepts, MarkSubmitted, SettleConfirmed,
         SettleFailed, Reconcile, Goto, Return
    <3> QED
      BY <3>1 DEF AskOK
  <2> QED
    BY <1>4, <2>1, <2>2
<1>5. CASE \/ Tick
           \/ \E q \in Quote : SaveQuote(q) \/ SaveOrder(q)
           \/ \E i \in Intent :
                \/ Drop(i)
                \/ \E outcome \in {"success", "failed"} : Include(i, outcome)
           \/ UNCHANGED vars
  BY <1>1, <1>5 DEF Tick, SaveQuote, SaveOrder, Drop, Include, vars
<1> QED
  BY <1>2, <1>3, <1>4, <1>5, BuildAskOK, CreatingAskOK DEF Next, Resume

----------------------------------------------------------------------------
(* Keys and time bounds *)

\* What a request is granted: what it inserts, or a row under its key.
LEMMA NextGranted ==
    ASSUME TypeOK, Submitted, [Next]_vars
    PROVE  \/ \E p \in Handler, i \in Intent : Insert(p) /\ NewRow(p, i)
           \/ /\ OldRows
              /\ \A g \in granted' \ granted :
                    HasKey(g.intent, g.ask) /\ SamePayload(g.intent, g.ask)
<1>1. ASSUME NEW p \in Handler, NEW a, Replay(p, a)
      PROVE  \A g \in granted' \ granted :
                HasKey(g.intent, g.ask) /\ SamePayload(g.intent, g.ask)
  BY <1>1 DEF Replay, Grant
<1>2. ASSUME NEW p \in Handler, Insert(p), ~\E i \in Intent : NewRow(p, i)
      PROVE  OldRows /\ granted' = granted
  BY <1>2, InsertRows DEF OldRows
<1>3. ASSUME NEW p \in Handler, Raced(p) \/ \E a \in Ask : CreateIntent(p, a)
      PROVE  \/ granted' = granted
             \/ \E a : Replay(p, a)
  BY <1>3 DEF Raced, CreateIntent
<1>4. ASSUME NEW p \in Handler,
             \/ FindQuote(p) \/ ExpireUnsigned(p) \/ Build(p)
             \/ \E i \in Intent :
                 GetIntent(p, i) \/ SubmitSigned(p, i) \/ ReconcileIntent(p, i)
             \/ GetAgain(p) \/ ExpireOnRead(p) \/ Claim(p) \/ PostTransaction(p)
             \/ HorizonAccepts(p) \/ HorizonFails(p) \/ MarkSubmitted(p)
             \/ Lookup(p) \/ SettleConfirmed(p) \/ SettleFailed(p) \/ Abort(p)
      PROVE  granted' = granted
  BY <1>4 DEF FindQuote, ExpireUnsigned, Build, GetIntent, SubmitSigned,
     ReconcileIntent, GetAgain, ExpireOnRead, Claim, PostTransaction,
     HorizonAccepts, HorizonFails, MarkSubmitted, Lookup, SettleConfirmed,
     SettleFailed, Abort
<1>5. ASSUME \/ Tick
             \/ \E q \in Quote : SaveQuote(q) \/ SaveOrder(q)
             \/ \E i \in Intent :
                  \/ Drop(i)
                  \/ \E outcome \in {"success", "failed"} : Include(i, outcome)
             \/ UNCHANGED vars
      PROVE  granted' = granted
  BY <1>5 DEF Tick, SaveQuote, SaveOrder, Drop, Include, vars
<1>6. CASE \E p \in Handler : Insert(p)
  <2>1. PICK p \in Handler : Insert(p)
    BY <1>6
  <2> QED
    BY <1>2, <2>1
<1>7. CASE ~\E p \in Handler : Insert(p)
  <2>1. OldRows
    BY <1>7, OtherRows
  <2> QED
    BY <1>1, <1>3, <1>4, <1>5, <1>7, <2>1 DEF Next, Resume
<1> QED
  BY <1>6, <1>7

\* Every step keeps what a key names and the time bound of each row.
LEMMA NextKeyInv ==
    TypeOK /\ Submitted /\ KeyInv /\ TimeInv /\ [Next]_vars => KeyInv' /\ TimeInv'
<1> SUFFICES ASSUME TypeOK, Submitted, KeyInv, TimeInv, [Next]_vars
             PROVE  KeyInv' /\ TimeInv'
  OBVIOUS
<1>1. \A q \in Handler : AskOK(q)'
  BY NextAskOK DEF AskOK, KeyInv, TimeInv
<1>2. \A g \in granted : g.intent \in Intent /\ g.ask \in Ask
  BY DEF TypeOK, HandlersOK
<1>3. \A g \in granted' : g.intent \in Intent /\ g.ask \in Ask
  BY NextTypeOK DEF TypeOK, HandlersOK
<1>4. CASE /\ OldRows
           /\ \A g \in granted' \ granted :
                    HasKey(g.intent, g.ask) /\ SamePayload(g.intent, g.ask)
  <2>1. \A i \in Intent, a \in Ask :
            HasKey(i, a) /\ SamePayload(i, a) => HasKey(i, a)' /\ SamePayload(i, a)'
    BY <1>4 DEF OldRows, HasKey, SamePayload, Exists
  <2>2. \A g \in granted' : HasKey(g.intent, g.ask) /\ SamePayload(g.intent, g.ask)
    BY <1>4 DEF KeyInv
  <2>3. \A g \in granted' : HasKey(g.intent, g.ask)' /\ SamePayload(g.intent, g.ask)'
    <3> SUFFICES ASSUME NEW g \in granted'
                 PROVE  HasKey(g.intent, g.ask)' /\ SamePayload(g.intent, g.ask)'
      OBVIOUS
    <3> QED
      BY <1>3, <1>4, <2>2 DEF OldRows, HasKey, SamePayload, Exists
  <2> QED
    BY <1>1, <1>4, <2>3 DEF KeyInv, TimeInv, OldRows, AskOK, Exists
<1>5. ASSUME NEW p \in Handler, NEW n \in Intent, Insert(p), NewRow(p, n)
      PROVE  KeyInv' /\ TimeInv'
  <2> DEFINE a == held[p].ask
  <2>1. /\ row'[n].quote = a.quote /\ row'[n].key = a.key
        /\ row'[n].expiresAt = held[p].time
        /\ \A i \in Intent \ {n} : row'[i] = row[i] /\ status'[i] = status[i]
        /\ status'[n] # "absent" /\ status[n] = "absent"
    BY <1>5 DEF NewRow, TypeOK, TablesOK
  <2>2. QuotePrincipal[a.quote] = a.principal /\ held[p].time <= QuoteExpiry[a.quote]
    BY <1>5 DEF Insert, KeyInv, TimeInv
  <2>3. \A i \in Intent : ~HasKey(i, a)
    BY <1>5 DEF NewRow, Unique
  <2>4. \A i, j \in Intent :
            /\ Exists(i)' /\ Exists(j)' /\ row'[i].key = row'[j].key
            /\ QuotePrincipal[row'[i].quote] = QuotePrincipal[row'[j].quote]
            => i = j
    BY <2>1, <2>2, <2>3 DEF KeyInv, HasKey, Exists
  <2>5. \A i \in Intent : Exists(i)' => row'[i].expiresAt <= QuoteExpiry[row'[i].quote]
    BY <2>1, <2>2 DEF TimeInv, Exists
  <2>6. \A g \in granted' :
            \/ g \in granted /\ g.intent # n
            \/ g.ask = a /\ g.intent = n
    BY <1>2, <1>5, <2>1 DEF NewRow, KeyInv, HasKey, Exists
  <2>7. \A g \in granted' : HasKey(g.intent, g.ask)' /\ SamePayload(g.intent, g.ask)'
    BY <1>2, <2>1, <2>2, <2>6 DEF KeyInv, HasKey, SamePayload, Exists
  <2> QED
    BY <1>1, <2>4, <2>5, <2>7 DEF KeyInv, TimeInv, AskOK
<1> QED
  BY <1>4, <1>5, NextGranted

----------------------------------------------------------------------------
(* Intent, order and attempts settled together *)

\* A step that settles nothing keeps intent, order and attempts settled together.
LEMMA UnsettledSteps ==
    ASSUME TypeOK, SettledTogether,
           UNCHANGED <<order, paidBy, attempts>>,
           \A i \in Intent :
                status[i] \in Settled \/ status'[i] \in Settled
                    => status'[i] = status[i] /\ row'[i] = row[i]
    PROVE  SettledTogether'
<1>1. \A q \in Quote : order[q] = "paid" => paidBy[q] \in Intent
  BY DEF TypeOK, TablesOK, SettledTogether
<1> QED
  BY <1>1 DEF SettledTogether

\* Saving an approved quote opens an order that no intent has settled.
LEMMA SaveOrderSettled ==
    ASSUME TypeOK, SettledTogether, NEW q \in Quote, SaveOrder(q)
    PROVE  SettledTogether'
<1>1. /\ order[q] = "absent" /\ order' = [order EXCEPT ![q] = "pending_payment"]
      /\ UNCHANGED <<paidBy, attempts, status, row>>
  BY DEF SaveOrder
<1>2. \A i \in Intent : status[i] \in Settled => row[i].quote # q
  BY <1>1 DEF SettledTogether
<1>3. \A i \in Intent : status[i] \in Settled => row[i].quote \in Quote
  BY DEF TypeOK, TablesOK, Exists, Row
<1> QED
  BY <1>1, <1>2, <1>3 DEF SettledTogether, TypeOK, TablesOK

\* settleConfirmed and settleFailed write intent, order and attempts in one transaction.
LEMMA SettleSettled ==
    ASSUME TypeOK, Submitted, SettledTogether, NEW p \in Handler,
           SettleConfirmed(p) \/ SettleFailed(p)
    PROVE  SettledTogether'
<1> DEFINE i == held[p].intent
<1> DEFINE o == row[i].quote
<1>1. i \in Intent /\ row[i] \in Row /\ o \in Quote
  <2>1. i \in Intent /\ Exists(i)
    BY SettleEffect
  <2> QED
    BY <2>1 DEF TypeOK, TablesOK, Row
<1>2. CASE UNCHANGED <<status, order, attempts, paidBy>>
  BY <1>2, SettleEffect, UnsettledSteps
<1>3. ASSUME AsSeen(p), PayableOrder(i), status[i] \in Indeterminate,
             Settle(i, "confirmed", "paid"), row' = row,
             paidBy' = [paidBy EXCEPT ![o] = i]
      PROVE  SettledTogether'
  <2>1. order[o] = "pending_payment"
    BY <1>1, <1>3 DEF PayableOrder, SettledTogether
  <2>2. /\ status'[i] = "confirmed" /\ order'[o] = "paid" /\ paidBy'[o] = i
        /\ attempts'[i] = [attempts[i] EXCEPT !["confirmed"] = @ + 1]
        /\ \A j \in Intent \ {i} : status'[j] = status[j] /\ attempts'[j] = attempts[j]
        /\ \A q \in Quote \ {o} : order'[q] = order[q] /\ paidBy'[q] = paidBy[q]
    BY <1>1, <1>3 DEF Settle, TypeOK, TablesOK
  <2>3. attempts[i] \in [Settled -> Nat] /\ \A s \in Settled : attempts[i][s] = 0
    <3>1. attempts[i] \in [Settled -> Nat]
      BY <1>1 DEF TypeOK, TablesOK
    <3>2. \A s \in Settled : status[i] # s /\ attempts[i][s] = IF status[i] = s THEN 1 ELSE 0
      BY <1>1, <1>3 DEF SettledTogether
    <3> QED
      BY <3>1, <3>2
  <2>4. \A s \in Settled : attempts'[i][s] = IF status'[i] = s THEN 1 ELSE 0
    BY <2>2, <2>3
  <2>5. \A j \in Intent \ {i} : status[j] \in Settled =>
            row[j].quote \in Quote \ {o}
    BY <2>1 DEF SettledTogether, TypeOK, TablesOK, Exists, Row
  <2>6. \A j \in Intent :
          /\ status'[j] = "confirmed" =>
              order'[row'[j].quote] = "paid" /\ paidBy'[row'[j].quote] = j
          /\ status'[j] = "failed" => order'[row'[j].quote] = "payment_failed"
          /\ \A s \in Settled : attempts'[j][s] = IF status'[j] = s THEN 1 ELSE 0
    <3> SUFFICES ASSUME NEW j \in Intent
                 PROVE  /\ status'[j] = "confirmed" =>
                            order'[row[j].quote] = "paid" /\ paidBy'[row[j].quote] = j
                        /\ status'[j] = "failed" => order'[row[j].quote] = "payment_failed"
                        /\ \A s \in Settled :
                              attempts'[j][s] = IF status'[j] = s THEN 1 ELSE 0
      BY <1>3
    <3>1. CASE j = i
      BY <3>1, <1>3, <2>2, <2>4
    <3>2. CASE j # i
      <4>1. status'[j] = status[j] /\ attempts'[j] = attempts[j]
        BY <3>2, <2>2
      <4>2. \A s \in Settled : attempts[j][s] = IF status[j] = s THEN 1 ELSE 0
        BY DEF SettledTogether
      <4> QED
        BY <3>2, <4>1, <4>2, <2>2, <2>5 DEF SettledTogether
    <3> QED
      BY <3>1, <3>2
  <2>7. \A q \in Quote \ {o} : order[q] = "paid" => paidBy[q] \in Intent \ {i}
    BY <1>3 DEF SettledTogether, TypeOK, TablesOK
  <2>8. \A q \in Quote :
          /\ (order'[q] = "paid") <=> (paidBy'[q] # NoIntent)
          /\ order'[q] = "paid" =>
              status'[paidBy'[q]] = "confirmed" /\ row'[paidBy'[q]].quote = q
    BY <1>1, <1>3, <2>2, <2>7, NullAssumption DEF SettledTogether
  <2> QED
    BY <2>6, <2>8 DEF SettledTogether
<1>4. ASSUME AsSeen(p), FailableOrder(i), status[i] \in Indeterminate,
             Settle(i, "failed", "payment_failed"), row' = row, paidBy' = paidBy
      PROVE  SettledTogether'
  <2>1. order[o] \in {"pending_payment", "payment_failed"}
    BY <1>4 DEF FailableOrder
  <2>2. /\ status'[i] = "failed" /\ order'[o] = "payment_failed"
        /\ attempts'[i] = [attempts[i] EXCEPT !["failed"] = @ + 1]
        /\ \A j \in Intent \ {i} : status'[j] = status[j] /\ attempts'[j] = attempts[j]
        /\ \A q \in Quote \ {o} : order'[q] = order[q]
    BY <1>1, <1>4 DEF Settle, TypeOK, TablesOK
  <2>3. attempts[i] \in [Settled -> Nat] /\ \A s \in Settled : attempts[i][s] = 0
    <3>1. attempts[i] \in [Settled -> Nat]
      BY <1>1 DEF TypeOK, TablesOK
    <3>2. \A s \in Settled : status[i] # s /\ attempts[i][s] = IF status[i] = s THEN 1 ELSE 0
      BY <1>1, <1>4 DEF SettledTogether
    <3> QED
      BY <3>1, <3>2
  <2>4. \A s \in Settled : attempts'[i][s] = IF status'[i] = s THEN 1 ELSE 0
    BY <2>2, <2>3
  <2>5. \A j \in Intent \ {i} :
          /\ status[j] \in Settled => row[j].quote \in Quote
          /\ status[j] = "confirmed" => row[j].quote # o
    BY <2>1 DEF SettledTogether, TypeOK, TablesOK, Exists, Row
  <2>6. \A j \in Intent :
          /\ status'[j] = "confirmed" =>
              order'[row'[j].quote] = "paid" /\ paidBy'[row'[j].quote] = j
          /\ status'[j] = "failed" => order'[row'[j].quote] = "payment_failed"
          /\ \A s \in Settled : attempts'[j][s] = IF status'[j] = s THEN 1 ELSE 0
    <3> SUFFICES ASSUME NEW j \in Intent
                 PROVE  /\ status'[j] = "confirmed" =>
                            order'[row[j].quote] = "paid" /\ paidBy'[row[j].quote] = j
                        /\ status'[j] = "failed" => order'[row[j].quote] = "payment_failed"
                        /\ \A s \in Settled :
                              attempts'[j][s] = IF status'[j] = s THEN 1 ELSE 0
      BY <1>4
    <3>1. CASE j = i
      BY <3>1, <1>4, <2>2, <2>4
    <3>2. CASE j # i
      <4>1. status'[j] = status[j] /\ attempts'[j] = attempts[j]
        BY <3>2, <2>2
      <4>2. \A s \in Settled : attempts[j][s] = IF status[j] = s THEN 1 ELSE 0
        BY DEF SettledTogether
      <4> QED
        BY <1>4, <3>2, <4>1, <4>2, <2>2, <2>5 DEF SettledTogether
    <3> QED
      BY <3>1, <3>2
  <2>7. \A q \in Quote \ {o} : order[q] = "paid" => paidBy[q] \in Intent \ {i}
    BY <1>4 DEF SettledTogether, TypeOK, TablesOK
  <2>8. paidBy[o] = NoIntent
    BY <1>1, <2>1 DEF SettledTogether
  <2>9. \A q \in Quote :
          /\ (order'[q] = "paid") <=> (paidBy'[q] # NoIntent)
          /\ order'[q] = "paid" =>
              status'[paidBy'[q]] = "confirmed" /\ row'[paidBy'[q]].quote = q
    BY <1>1, <1>4, <2>2, <2>7, <2>8 DEF SettledTogether
  <2> QED
    BY <2>6, <2>9 DEF SettledTogether
<1> QED
  BY <1>2, <1>3, <1>4, SettleEffect

\* Every step keeps intent, order and attempts settled together.
LEMMA NextSettledTogether ==
    TypeOK /\ Submitted /\ SettledTogether /\ [Next]_vars => SettledTogether'
<1> SUFFICES ASSUME TypeOK, Submitted, SettledTogether, [Next]_vars
             PROVE  SettledTogether'
  OBVIOUS
<1>1. ASSUME NEW p \in Handler,
             ExpireUnsigned(p) \/ ExpireOnRead(p) \/ Claim(p) \/ MarkSubmitted(p)
      PROVE  SettledTogether'
  <2>1. /\ UNCHANGED <<order, paidBy, attempts, row>>
        /\ \A i \in Intent : status[i] \in Settled \/ status'[i] \in Settled
                                => status'[i] = status[i]
    BY <1>1 DEF ExpireUnsigned, LapsedOf, ExpireOnRead, Claim, MarkSubmitted,
                CompareAndSet, TypeOK, TablesOK
  <2> QED
    BY <2>1, UnsettledSteps
<1>2. ASSUME NEW p \in Handler, Insert(p)
      PROVE  SettledTogether'
  <2>1. UNCHANGED <<order, paidBy, attempts>>
    BY <1>2 DEF Insert
  <2>2. \A i \in Intent : status[i] \in Settled \/ status'[i] \in Settled
                                => status'[i] = status[i] /\ row'[i] = row[i]
    BY <1>2, InsertRows DEF NewRow, TypeOK, TablesOK
  <2> QED
    BY <2>1, <2>2, UnsettledSteps
<1>3. CASE UNCHANGED rows
  BY <1>3, UnsettledSteps DEF rows
<1>4. ASSUME NEW p \in Handler,
             PostTransaction(p) \/ HorizonAccepts(p) \/ Lookup(p)
      PROVE  UNCHANGED rows
  BY <1>4 DEF PostTransaction, HorizonAccepts, Lookup
<1>5. ASSUME NEW p \in Handler,
             \/ \E a \in Ask : CreateIntent(p, a)
             \/ FindQuote(p) \/ Build(p) \/ Raced(p)
             \/ \E i \in Intent :
                 GetIntent(p, i) \/ SubmitSigned(p, i) \/ ReconcileIntent(p, i)
             \/ GetAgain(p) \/ HorizonFails(p) \/ Abort(p)
      PROVE  UNCHANGED rows
  BY <1>5, QuietStep
<1>6. CASE \E q \in Quote : SaveQuote(q) \/ SaveOrder(q)
  <2>1. ASSUME NEW q \in Quote, SaveQuote(q) PROVE SettledTogether'
    BY <2>1, UnsettledSteps DEF SaveQuote
  <2> QED
    BY <1>6, <2>1, SaveOrderSettled
<1>7. ASSUME \/ Tick
             \/ \E i \in Intent :
                  \/ Drop(i)
                  \/ \E outcome \in {"success", "failed"} : Include(i, outcome)
             \/ UNCHANGED vars
      PROVE  UNCHANGED rows
  BY <1>7 DEF Tick, Drop, Include, vars
<1> QED
  BY <1>1, <1>2, <1>3, <1>4, <1>5, <1>6, <1>7, SettleSettled DEF Next, Resume

----------------------------------------------------------------------------
(* The invariant and what follows from it *)

\* The inductive invariant holds in the empty tables.
LEMMA InitIInv == Init => IInv
<1> SUFFICES ASSUME Init PROVE IInv
  OBVIOUS
<1>1. TypeOK
  BY InitTypeOK
<1>2. SubmissionInv /\ OutcomeInv
  BY DEF Init, SubmissionInv, OutcomeInv
<1>3. OneActivePayer /\ SettledTogether
  BY DEF Init, OneActivePayer, SettledTogether
<1>4. KeyInv /\ TimeInv
  BY DEF Init, KeyInv, TimeInv, Exists
<1> QED
  BY <1>1, <1>2, <1>3, <1>4 DEF IInv

\* Every step keeps the inductive invariant.
LEMMA NextIInv == IInv /\ [Next]_vars => IInv'
BY NextTypeOK, NextSubmitted, NextOneActivePayer, NextSettledTogether, NextKeyInv
   DEF IInv, Submitted

\* The invariant holds of every reachable state.
THEOREM Invariance == Spec => []IInv
BY InitIInv, NextIInv, PTL DEF Spec

\* At most one intent of a payer can still be signed or move money.
THEOREM OnePayerSlot == Spec => []OneActivePayer
<1>1. IInv => OneActivePayer
  BY DEF IInv
<1> QED
  BY <1>1, Invariance, PTL

\* An intent and its order and attempts are settled together, once.
THEOREM SettlementIsAtomic == Spec => []SettledTogether
<1>1. IInv => SettledTogether
  BY DEF IInv
<1> QED
  BY <1>1, Invariance, PTL

\* No signed transaction is posted twice, by any number of handlers, retries
\* and crashes.
THEOREM NeverPostedTwice == Spec => []PostedAtMostOnce
<1>1. IInv => PostedAtMostOnce
  BY DEF IInv, SubmissionInv, PostedAtMostOnce
<1> QED
  BY <1>1, Invariance, PTL

\* A lapsed intent was never sent.
THEOREM LapsedNeverPosted == Spec => []ExpiredNeverPosted
<1>1. IInv => ExpiredNeverPosted
  BY DEF IInv, SubmissionInv, ExpiredNeverPosted
<1> QED
  BY <1>1, Invariance, PTL

\* What is recorded is what the ledger says, and no money is forgotten.
THEOREM RecordsAgree == Spec => []RecordsAgreeWithLedger
<1>1. IInv => RecordsAgreeWithLedger
  <2> SUFFICES ASSUME IInv, NEW i \in Intent
               PROVE  /\ status[i] = "confirmed" => ledger[i] = "success"
                      /\ status[i] = "failed" => ledger[i] = "failed"
                      /\ ledger[i] # "none" => status[i] \in Indeterminate \cup Settled
    BY DEF RecordsAgreeWithLedger
  <2>1. status[i] \in Status
    BY DEF IInv, TypeOK, TablesOK
  <2> QED
    BY <2>1 DEF IInv, SubmissionInv, OutcomeInv, Status
<1> QED
  BY <1>1, Invariance, PTL

\* An idempotency key names one intent, of the quote it was used with.
THEOREM KeysNameIntents == Spec => []KeyNamesOneIntent
<1>1. IInv => KeyNamesOneIntent
  <2> SUFFICES ASSUME IInv, NEW g \in granted, NEW h \in granted
               PROVE  /\ row[g.intent].quote = g.ask.quote
                      /\ g.ask.principal = h.ask.principal /\ g.ask.key = h.ask.key
                            => g.intent = h.intent
    BY DEF KeyNamesOneIntent
  <2>1. g.intent \in Intent /\ h.intent \in Intent
    BY DEF IInv, TypeOK, HandlersOK
  <2> QED
    BY <2>1 DEF IInv, KeyInv, HasKey, SamePayload
<1> QED
  BY <1>1, Invariance, PTL

\* No payment is applied after its quote has expired.
THEOREM PaymentsWithinApproval == Spec => PaidWithinApproval
<1>1. IInv /\ [Next]_vars =>
        [\A i \in Intent :
            ledger'[i] = "success" /\ ledger[i] # "success"
                => now <= QuoteExpiry[row[i].quote]]_vars
  <2> SUFFICES ASSUME IInv, Next, NEW i \in Intent,
                      ledger'[i] = "success", ledger[i] # "success"
               PROVE  now <= QuoteExpiry[row[i].quote]
    OBVIOUS
  <2>1. \E outcome \in {"success", "failed"} : Include(i, outcome)
    <3>1. ASSUME NEW p \in Handler,
                 \/ \E a \in Ask : CreateIntent(p, a)
                 \/ FindQuote(p) \/ Build(p) \/ Raced(p)
                 \/ \E j \in Intent :
                     GetIntent(p, j) \/ SubmitSigned(p, j) \/ ReconcileIntent(p, j)
                 \/ GetAgain(p) \/ HorizonFails(p) \/ Abort(p)
          PROVE  FALSE
      BY <3>1, QuietStep DEF IInv
    <3>2. ASSUME NEW p \in Handler,
                 \/ ExpireUnsigned(p) \/ Insert(p) \/ ExpireOnRead(p) \/ Claim(p)
                 \/ PostTransaction(p) \/ HorizonAccepts(p) \/ MarkSubmitted(p)
                 \/ Lookup(p) \/ SettleConfirmed(p) \/ SettleFailed(p)
          PROVE  FALSE
      BY <3>2 DEF ExpireUnsigned, Insert, ExpireOnRead, Claim, PostTransaction,
         HorizonAccepts, MarkSubmitted, Lookup, SettleConfirmed, SettleFailed,
         IInv, TypeOK
    <3>3. ASSUME Tick \/ \E q \in Quote : SaveQuote(q) \/ SaveOrder(q)
          PROVE  FALSE
      BY <3>3 DEF Tick, SaveQuote, SaveOrder
    <3>4. ASSUME NEW j \in Intent,
                 Drop(j) \/ \E outcome \in {"success", "failed"} : Include(j, outcome)
          PROVE  \E outcome \in {"success", "failed"} : Include(i, outcome)
      BY <3>4 DEF Drop, Include, IInv, TypeOK
    <3> QED
      BY <3>1, <3>2, <3>3, <3>4 DEF Next, Resume
  <2>2. ledger[i] = "queued" /\ now <= row[i].expiresAt
    BY <2>1 DEF Include
  <2>3. Exists(i) /\ row[i] \in Row
    BY <2>2 DEF IInv, SubmissionInv, TypeOK, TablesOK, Exists
  <2>4. row[i].expiresAt <= QuoteExpiry[row[i].quote]
    BY <2>3 DEF IInv, TimeInv
  <2>5. /\ now \in Nat /\ row[i].expiresAt \in Nat
        /\ QuoteExpiry[row[i].quote] \in Nat
    BY <2>3, QuoteAssumption DEF IInv, TypeOK, Row
  <2> QED
    BY <2>2, <2>4, <2>5
<1> QED
  BY <1>1, Invariance, PTL DEF Spec, PaidWithinApproval

----------------------------------------------------------------------------
(* The refinement: each step of a handler, of the clock or of the ledger   *)
(* is one atomic step of the settlement of an order, or invisible to it.   *)

\* The variables of OrderSettlement under the refinement mapping.
Phases == [i \in Intent |-> Phase(status[i])]
OpenedFor == [i \in Intent |-> IF row[i] = NoRow THEN NoQuote ELSE row[i].quote]
OnChain == [i \in Intent |-> IF ledger[i] = "queued" THEN "none" ELSE ledger[i]]

\* The empty tables are an initial state of OrderSettlement.
LEMMA InitImplements == Init => Settlement!Init
BY DEF Init, Settlement!Init, Phase

\* Steps that change nothing OrderSettlement sees.
LEMMA Stutter ==
    ASSUME Phases' = Phases, row' = row, OnChain' = OnChain,
           UNCHANGED <<order, paidBy>>
    PROVE  UNCHANGED Settlement!vars
BY DEF Settlement!vars, Phases, OpenedFor, OnChain

\* A step that leaves the tables and the ledger alone is a stutter of OrderSettlement.
LEMMA QuietImplements ==
    ASSUME UNCHANGED <<rows, ledger>>
    PROVE  UNCHANGED Settlement!vars
BY DEF rows, Settlement!vars

\* saveApprovedQuote approves a quote.
LEMMA SaveImplements ==
    ASSUME NEW q \in Quote, SaveQuote(q) \/ SaveOrder(q)
    PROVE  [Settlement!Next]_Settlement!vars
<1>1. CASE SaveQuote(q)
  BY <1>1 DEF SaveQuote, Settlement!vars
<1>2. CASE SaveOrder(q)
  <2>1. Settlement!Approve(q)
    BY <1>2 DEF SaveOrder, Settlement!Approve
  <2> QED
    BY <2>1 DEF Settlement!Next
<1> QED
  BY <1>1, <1>2

\* An insert that no unique index refuses opens an intent; a refused one is a stutter.
LEMMA InsertImplements ==
    ASSUME TypeOK, NEW p \in Handler, Insert(p)
    PROVE  [Settlement!Next]_Settlement!vars
<1> DEFINE a == held[p].ask
<1>1. a \in Ask /\ held[p].time \in Nat
  BY DEF TypeOK, HandlersOK, HoldingOK, Insert, Creating, Local
<1>2. PICK q \in Quote : q = a.quote
  BY <1>1 DEF Ask
<1>3. UNCHANGED <<order, paidBy, ledger>>
  BY DEF Insert
<1>4. CASE row' = row /\ status' = status
  BY <1>3, <1>4 DEF Settlement!vars
<1>5. ASSUME NEW i \in Intent, ~Exists(i), order[a.quote] # "absent",
             row' = [row EXCEPT ![i] = [quote |-> a.quote, key |-> a.key,
                                        expiresAt |-> held[p].time]],
             status' = [status EXCEPT ![i] = "awaiting_signature"]
      PROVE  Settlement!Open(i, q)
  <2> DEFINE new == [quote |-> a.quote, key |-> a.key, expiresAt |-> held[p].time]
  <2>1. new # NoRow /\ new.quote = q
    BY <1>1, <1>2, NullAssumption DEF Ask
  <2> HIDE DEF new
  <2>2. Phases' = [Phases EXCEPT ![i] = "open"]
    BY <1>5 DEF Phases, Phase, TypeOK, TablesOK
  <2>3. OpenedFor' = [OpenedFor EXCEPT ![i] = q]
    BY <1>5, <2>1 DEF OpenedFor, TypeOK, TablesOK, new
  <2>4. Phases[i] = "absent"
    BY <1>5 DEF Phases, Phase, Exists
  <2> QED
    BY <1>2, <1>3, <1>5, <2>2, <2>3, <2>4
       DEF Settlement!Open, Phases, OpenedFor
<1>6. \/ row' = row /\ status' = status
      \/ \E i \in Intent : Settlement!Open(i, q)
  BY <1>5 DEF Insert
<1> QED
  BY <1>4, <1>6 DEF Settlement!Next

\* Expiring a payer's unsigned intents lapses exactly those.
LEMMA ExpireUnsignedImplements ==
    ASSUME TypeOK, NEW p \in Handler, ExpireUnsigned(p)
    PROVE  [Settlement!Next]_Settlement!vars
<1> DEFINE S == LapsedOf(QuotePayer[held[p].ask.quote], held[p].time)
<1>1. /\ S \in SUBSET Intent
      /\ \A i \in S : status[i] = "awaiting_signature"
      /\ status' = [i \in Intent |-> IF i \in S THEN "expired" ELSE status[i]]
      /\ UNCHANGED <<order, paidBy, row, ledger>>
  BY DEF ExpireUnsigned, LapsedOf
<1> HIDE DEF S
<1>2. Phases' = [i \in Intent |-> IF i \in S THEN "expired" ELSE Phases[i]]
  BY <1>1 DEF Phases, Phase
<1>3. Settlement!Lapse(S)
  BY <1>1, <1>2 DEF Settlement!Lapse, Phases, Phase
<1> QED
  BY <1>1, <1>3 DEF Settlement!Next

\* A submitSigned that comes too late lapses its intent, or changes nothing.
LEMMA ExpireOnReadImplements ==
    ASSUME TypeOK, NEW p \in Handler, ExpireOnRead(p)
    PROVE  [Settlement!Next]_Settlement!vars
<1> DEFINE i == held[p].intent
<1>1. i \in Intent /\ UNCHANGED <<order, paidBy, row, ledger>>
  BY UsingHolds DEF ExpireOnRead, Using
<1>2. CASE status[i] = "awaiting_signature"
  <2>1. status' = [status EXCEPT ![i] = "expired"]
    BY <1>2 DEF ExpireOnRead, CompareAndSet
  <2>2. Phases' = [j \in Intent |-> IF j \in {i} THEN "expired" ELSE Phases[j]]
    BY <2>1 DEF Phases, Phase, TypeOK, TablesOK
  <2>3. Settlement!Lapse({i})
    BY <1>1, <1>2, <2>2 DEF Settlement!Lapse, Phases, Phase
  <2> QED
    BY <1>1, <2>3 DEF Settlement!Next
<1>3. CASE status[i] # "awaiting_signature"
  BY <1>1, <1>3 DEF ExpireOnRead, CompareAndSet, Settlement!vars
<1> QED
  BY <1>2, <1>3

\* The compare-and-set to submitting claims the intent, or changes nothing.
LEMMA ClaimImplements ==
    ASSUME TypeOK, NEW p \in Handler, Claim(p)
    PROVE  [Settlement!Next]_Settlement!vars
<1> DEFINE i == held[p].intent
<1>1. i \in Intent /\ UNCHANGED <<order, paidBy, row, ledger>>
  BY UsingHolds DEF Claim, Using
<1>2. CASE status[i] = "awaiting_signature"
  <2>1. status' = [status EXCEPT ![i] = "submitting"]
    BY <1>2 DEF Claim, CompareAndSet
  <2>2. Phases' = [Phases EXCEPT ![i] = "inflight"]
    BY <2>1 DEF Phases, Phase, TypeOK, TablesOK
  <2>3. Settlement!Claim(i)
    BY <1>1, <1>2, <2>2 DEF Settlement!Claim, Phases, Phase
  <2> QED
    BY <1>1, <2>3 DEF Settlement!Next
<1>3. CASE status[i] # "awaiting_signature"
  BY <1>1, <1>3 DEF Claim, CompareAndSet, Settlement!vars
<1> QED
  BY <1>2, <1>3

\* submitting and submitted are one phase.
LEMMA MarkImplements ==
    ASSUME TypeOK, NEW p \in Handler, MarkSubmitted(p)
    PROVE  UNCHANGED Settlement!vars
<1>1. UNCHANGED <<order, paidBy, row, ledger>>
  BY DEF MarkSubmitted
<1>2. \A i \in Intent : \/ status'[i] = status[i]
                        \/ status[i] = "submitting" /\ status'[i] = "submitted"
  BY DEF MarkSubmitted, CompareAndSet, TypeOK, TablesOK
<1>3. Phases' = Phases
  BY <1>2 DEF Phases, Phase
<1> QED
  BY <1>1, <1>3, Stutter DEF OnChain

\* A post to Horizon is a stutter: the intent was claimed before.
LEMMA PostImplements ==
    ASSUME TypeOK, NEW p \in Handler, PostTransaction(p)
    PROVE  UNCHANGED Settlement!vars
<1>1. UNCHANGED <<status, row, order, paidBy>>
  BY DEF PostTransaction, rows
<1>2. OnChain' = OnChain
  BY DEF PostTransaction, OnChain, TypeOK
<1> QED
  BY <1>1, <1>2, Stutter DEF Phases

\* A transaction Horizon drops is a stutter.
LEMMA DropImplements ==
    ASSUME TypeOK, NEW i \in Intent, Drop(i)
    PROVE  UNCHANGED Settlement!vars
<1>1. UNCHANGED <<status, row, order, paidBy>>
  BY DEF Drop, rows
<1>2. OnChain' = OnChain
  BY DEF Drop, OnChain, TypeOK
<1> QED
  BY <1>1, <1>2, Stutter DEF Phases

\* A queued transaction is one a handler posted, and it has no outcome yet.
LEMMA IncludeImplements ==
    ASSUME IInv, NEW i \in Intent, NEW outcome \in {"success", "failed"},
           Include(i, outcome)
    PROVE  [Settlement!Next]_Settlement!vars
<1>1. ledger[i] = "queued" /\ status[i] \in Status
  BY DEF Include, IInv, TypeOK, TablesOK
<1>2. status[i] \in Indeterminate
  BY <1>1 DEF IInv, SubmissionInv, OutcomeInv, Status
<1>3. UNCHANGED <<status, row, order, paidBy>>
  BY DEF Include, rows
<1>4. OnChain' = [OnChain EXCEPT ![i] = outcome]
  BY DEF Include, OnChain, IInv, TypeOK
<1>5. Settlement!Include(i, outcome)
  BY <1>1, <1>2, <1>3, <1>4 DEF Settlement!Include, OnChain, Phase
<1> QED
  BY <1>5 DEF Settlement!Next

\* A settlement pays or fails intent and order together, or changes nothing.
LEMMA SettleImplements ==
    ASSUME IInv, NEW p \in Handler, SettleConfirmed(p) \/ SettleFailed(p)
    PROVE  [Settlement!Next]_Settlement!vars
<1> DEFINE i == held[p].intent
<1> DEFINE q == row[i].quote
<1>1. TypeOK /\ Submitted /\ SettledTogether
  BY DEF IInv, Submitted
<1>2. i \in Intent /\ Exists(i) /\ UNCHANGED <<row, ledger>>
  BY <1>1, SettleEffect
<1>3. q \in Quote /\ OpenedFor[i] = q /\ OpenedFor' = OpenedFor /\ OnChain' = OnChain
  BY <1>1, <1>2 DEF TypeOK, TablesOK, Row, OpenedFor, OnChain
<1>4. CASE UNCHANGED <<status, order, attempts, paidBy>>
  BY <1>2, <1>4 DEF Settlement!vars
<1>5. ASSUME PayableOrder(i), status[i] \in Indeterminate, ledger[i] = "success",
             Settle(i, "confirmed", "paid"),
             paidBy' = [paidBy EXCEPT ![q] = i]
      PROVE  Settlement!Pay(i, q)
  <2>1. order[q] = "pending_payment"
    BY <1>1, <1>2, <1>3, <1>5 DEF PayableOrder, SettledTogether
  <2>2. Phases' = [Phases EXCEPT ![i] = "confirmed"]
    BY <1>1, <1>5 DEF Settle, Phases, Phase, TypeOK, TablesOK
  <2>3. Phases[i] = "inflight" /\ OnChain[i] = "success"
    BY <1>2, <1>5 DEF Phases, Phase, OnChain
  <2> QED
    BY <1>3, <1>5, <2>1, <2>2, <2>3
       DEF Settlement!Pay, Settle, Phases, OpenedFor, OnChain
<1>6. ASSUME FailableOrder(i), status[i] \in Indeterminate, ledger[i] = "failed",
             Settle(i, "failed", "payment_failed"), paidBy' = paidBy
      PROVE  Settlement!Fail(i, q)
  <2>1. Phases' = [Phases EXCEPT ![i] = "failed"]
    BY <1>1, <1>6 DEF Settle, Phases, Phase, TypeOK, TablesOK
  <2>2. Phases[i] = "inflight" /\ OnChain[i] = "failed"
    BY <1>2, <1>6 DEF Phases, Phase, OnChain
  <2> QED
    BY <1>3, <1>6, <2>1, <2>2
       DEF Settlement!Fail, FailableOrder, Settle, Phases, OpenedFor, OnChain
<1> QED
  BY <1>1, <1>2, <1>3, <1>4, <1>5, <1>6, SettleEffect DEF Settlement!Next

\* Every step is a step of OrderSettlement or a stutter of it.
LEMMA NextImplements ==
    IInv /\ [Next]_vars => [Settlement!Next]_Settlement!vars
<1> SUFFICES ASSUME IInv, [Next]_vars PROVE [Settlement!Next]_Settlement!vars
  OBVIOUS
<1>1. TypeOK
  BY DEF IInv
<1>2. ASSUME \/ Tick
             \/ UNCHANGED vars
             \/ \E p \in Handler : HorizonAccepts(p) \/ Lookup(p)
      PROVE  UNCHANGED <<rows, ledger>>
  BY <1>2 DEF Tick, vars, HorizonAccepts, Lookup
<1>3. ASSUME NEW p \in Handler,
             \/ \E a \in Ask : CreateIntent(p, a)
             \/ FindQuote(p) \/ Build(p) \/ Raced(p)
             \/ \E i \in Intent :
                 GetIntent(p, i) \/ SubmitSigned(p, i) \/ ReconcileIntent(p, i)
             \/ GetAgain(p) \/ HorizonFails(p) \/ Abort(p)
      PROVE  UNCHANGED <<rows, ledger>>
  BY <1>1, <1>3, QuietStep
<1>4. CASE UNCHANGED <<rows, ledger>>
  BY <1>4, QuietImplements
<1>5. ASSUME NEW p \in Handler, Resume(p) PROVE [Settlement!Next]_Settlement!vars
  BY <1>1, <1>2, <1>3, <1>4, <1>5, ExpireUnsignedImplements, InsertImplements,
     ExpireOnReadImplements, ClaimImplements, PostImplements, MarkImplements,
     SettleImplements
     DEF Resume
<1> QED
  BY <1>1, <1>2, <1>3, <1>4, <1>5, SaveImplements, DropImplements,
     IncludeImplements
     DEF Next

\* The handlers, whatever their number and interleaving, settle each order as
\* the atomic specification says.
THEOREM Refinement == Spec => ImplementsSettlement
<1>1. Init => Settlement!Init
  BY InitImplements
<1>2. IInv /\ [Next]_vars => [Settlement!Next]_Settlement!vars
  BY NextImplements
<1> QED
  BY <1>1, <1>2, Invariance, PTL DEF Spec, ImplementsSettlement, Settlement!Spec

==============================================================================
