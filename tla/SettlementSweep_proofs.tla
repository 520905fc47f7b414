----------------------- MODULE SettlementSweep_proofs -----------------------
(***************************************************************************)
(* Proofs about SettlementSweep, for any number of intents, orders and     *)
(* workers and any limit.                                                  *)
(***************************************************************************)
EXTENDS SettlementSweep, Collections_proofs

USE DEF Indeterminate, Settled

----------------------------------------------------------------------------
(* The inductive invariant *)

\* The rows with an updated_at are those that were claimed.
QueueInv == \A i \in Intent : i \in Range(queue) <=> status[i] # "awaiting_signature"

\* A row of a batch is behind the table, never ahead of it; while it is as the
\* worker read it, no request has touched its intent since it was selected.
RowOK(row) ==
    /\ status[row.intent] # "awaiting_signature"
    /\ status[row.intent] = "submitting" => row.status = "submitting"
    /\ status[row.intent] = row.status => row.intent \in stale
BatchInv == \A w \in Worker : \A k \in 1..Len(batch[w]) : RowOK(batch[w][k])

\* What is resolved is settled, in the report and in the table.
OutcomeOK(o) ==
    /\ o.resolved <=> o.status \in Settled
    /\ o.resolved => status[o.intent] = o.status
OutcomesInv == \A w \in Worker : \A k \in 1..Len(outcomes[w]) : OutcomeOK(outcomes[w][k])

IInv == TypeOK /\ QueueInv /\ BatchInv /\ OutcomesInv

\* What a step may do to an intent.
Moves ==
    \A i \in Intent :
        \/ status'[i] = status[i] /\ (i \in stale => i \in stale')
        \/ status[i] = "awaiting_signature" /\ status'[i] = "submitting"
        \/ status[i] = "submitting" /\ status'[i] = "submitted"
        \/ status[i] \in Indeterminate /\ status'[i] \in Settled

\* Rows and outcomes stay right under the feet of a worker.
LEMMA RowStays ==
    ASSUME TypeOK, Moves, NEW row \in Row, RowOK(row) PROVE RowOK(row)'
BY DEF TypeOK, Moves, Row, RowOK

LEMMA OutcomeStays ==
    ASSUME TypeOK, Moves, NEW o \in Outcome, OutcomeOK(o) PROVE OutcomeOK(o)'
BY DEF TypeOK, Moves, Outcome, OutcomeOK

\* The workers' part of the types.
WorkerType ==
    /\ pc \in [Worker -> {"idle", "lookup", "settle", "reread", "report"}]
    /\ batch \in [Worker -> Seq(Row)]
    /\ outcomes \in [Worker -> Seq(Outcome)]
    /\ \A w \in Worker : pc[w] \in {"lookup", "settle", "reread"} <=> batch[w] # <<>>
TableType ==
    /\ status \in [Intent -> {"awaiting_signature"} \cup Indeterminate \cup Settled]
    /\ order \in [Order -> {"pending_payment", "paid", "payment_failed"}]
    /\ ledger \in [Intent -> {"none", "success", "failed"}]
    /\ queue \in Seq(Intent) /\ stale \subseteq Range(queue)
    /\ IsInjective(queue)

LEMMA TypeParts == TypeOK <=> TableType /\ WorkerType
BY DEF TypeOK, TableType, WorkerType

\* A step of a request or of the ledger: the workers' variables stay.
LEMMA RequestKeeps ==
    ASSUME IInv, Moves, UNCHANGED worker
    PROVE  WorkerType' /\ BatchInv' /\ OutcomesInv'
<1>1. WorkerType /\ WorkerType'
  BY TypeParts DEF IInv, WorkerType, worker
<1>2. UNCHANGED <<pc, batch, outcomes>>
  BY DEF worker
<1>3. \A w \in Worker : \A k \in 1..Len(batch[w]) : batch[w][k] \in Row
  BY <1>1, ElementOfSeq DEF WorkerType
<1>4. \A w \in Worker : \A k \in 1..Len(outcomes[w]) : outcomes[w][k] \in Outcome
  BY <1>1, ElementOfSeq DEF WorkerType
<1>5. BatchInv'
  BY <1>2, <1>3, RowStays DEF IInv, BatchInv
<1>6. OutcomesInv'
  BY <1>2, <1>4, OutcomeStays DEF IInv, OutcomesInv
<1> QED
  BY <1>1, <1>5, <1>6

----------------------------------------------------------------------------
(* The queue *)

\* A claimed intent joins the end of the queue.
LEMMA JoinQueue ==
    ASSUME NEW q \in Seq(Intent), IsInjective(q), NEW i \in Intent, i \notin Range(q)
    PROVE  /\ Append(q, i) \in Seq(Intent) /\ IsInjective(Append(q, i))
           /\ Range(Append(q, i)) = Range(q) \cup {i}
<1> DEFINE a == Append(q, i)
           N == Len(q)
<1>1. /\ a \in Seq(Intent) /\ N \in Nat /\ DOMAIN a = 1..(N + 1) /\ DOMAIN q = 1..N
      /\ \A k \in 1..N : a[k] = q[k]
      /\ a[N + 1] = i
  BY AppendProperties, LenProperties
<1> HIDE DEF a, N
<1>2. \A k \in 1..(N + 1) : k \in 1..N \/ k = N + 1
  BY <1>1
<1>3. \A k \in 1..N : k \in 1..(N + 1) /\ a[k] \in Range(q)
  BY <1>1 DEF Range
<1>4. IsInjective(a)
  BY <1>1, <1>2, <1>3 DEF IsInjective
<1>5. N + 1 \in 1..(N + 1)
  BY <1>1
<1>6. Range(a) = Range(q) \cup {i}
  BY <1>1, <1>2, <1>3, <1>5 DEF Range
<1> QED
  BY <1>1, <1>4, <1>6 DEF a

\* An intent leaves its place.
LEMMA LeaveQueue ==
    ASSUME NEW q \in Seq(Intent), IsInjective(q), NEW k \in 1..Len(q)
    PROVE  /\ RemoveAt(q, k) \in Seq(Intent) /\ IsInjective(RemoveAt(q, k))
           /\ Range(RemoveAt(q, k)) = Range(q) \ {q[k]}
<1> DEFINE rest == RemoveAt(q, k)
           N == Len(q)
           from(n) == IF n < k THEN n ELSE n + 1
<1>1. /\ rest \in Seq(Intent) /\ N \in Nat /\ DOMAIN rest = 1..(N - 1) /\ DOMAIN q = 1..N
      /\ k \in 1..N
      /\ \A n \in 1..(N - 1) : rest[n] = q[from(n)]
  BY RemoveAtIsRest, LenProperties
<1> HIDE DEF rest, N
<1>2. \A n \in 1..(N - 1) : from(n) \in 1..N /\ from(n) # k
  BY <1>1
<1>3. \A n, m \in 1..(N - 1) : from(n) = from(m) => n = m
  BY <1>1
<1>4. \A j \in 1..N : j # k => \E n \in 1..(N - 1) : from(n) = j
  <2> SUFFICES ASSUME NEW j \in 1..N, j # k PROVE \E n \in 1..(N - 1) : from(n) = j
    OBVIOUS
  <2>1. CASE j < k
    <3>1. j \in 1..(N - 1) /\ from(j) = j
      BY <1>1, <2>1
    <3> QED
      BY <3>1
  <2>2. CASE j > k
    <3>1. j - 1 \in 1..(N - 1) /\ from(j - 1) = j
      BY <1>1, <2>2
    <3> QED
      BY <3>1
  <2> QED
    BY <1>1, <2>1, <2>2
<1> HIDE DEF from
<1>5. IsInjective(rest)
  BY <1>1, <1>2, <1>3 DEF IsInjective
<1>6. Range(rest) \subseteq Range(q) \ {q[k]}
  BY <1>1, <1>2 DEF Range, IsInjective
<1>7. ASSUME NEW i \in Range(q) \ {q[k]} PROVE i \in Range(rest)
  <2>1. PICK j \in 1..N : q[j] = i
    BY <1>1 DEF Range
  <2>2. PICK n \in 1..(N - 1) : from(n) = j
    BY <1>4, <2>1
  <2> QED
    BY <1>1, <2>1, <2>2 DEF Range
<1> QED
  BY <1>1, <1>5, <1>6, <1>7 DEF rest

\* A request that touches an intent moves it to the end.
LEMMA MoveToEnd ==
    ASSUME NEW q \in Seq(Intent), IsInjective(q), NEW k \in 1..Len(q)
    PROVE  LET r == Append(RemoveAt(q, k), q[k])
           IN  r \in Seq(Intent) /\ IsInjective(r) /\ Range(r) = Range(q)
<1> DEFINE rest == RemoveAt(q, k)
           i == q[k]
<1>1. i \in Intent /\ i \in Range(q)
  BY ElementOfSeq DEF Range
<1>2. rest \in Seq(Intent) /\ IsInjective(rest) /\ Range(rest) = Range(q) \ {i}
  BY LeaveQueue
<1>3. i \notin Range(rest)
  BY <1>2
<1> HIDE DEF rest, i
<1>4. /\ Append(rest, i) \in Seq(Intent) /\ IsInjective(Append(rest, i))
      /\ Range(Append(rest, i)) = Range(rest) \cup {i}
  BY <1>1, <1>2, <1>3, JoinQueue
<1>5. Range(Append(rest, i)) = Range(q)
  BY <1>1, <1>2, <1>4
<1> QED
  BY <1>4, <1>5 DEF rest, i

----------------------------------------------------------------------------
(* The steps of the requests and of the ledger *)

LEMMA RequestIInv ==
    ASSUME IInv, NEW i \in Intent,
           \/ Claim(i) \/ MarkSubmitted(i) \/ Age(i) \/ SettleElsewhere(i)
           \/ \E outcome \in {"success", "failed"} : Include(i, outcome)
    PROVE  IInv'
<1>1. TypeOK /\ QueueInv /\ TableType
  BY TypeParts DEF IInv
<1>2. TableType' /\ QueueInv' /\ Moves /\ UNCHANGED worker
  <2>1. CASE Claim(i)
    <3>1. i \notin Range(queue)
      BY <1>1, <2>1 DEF Claim, QueueInv
    <3>2. queue' \in Seq(Intent) /\ IsInjective(queue') /\ Range(queue') = Range(queue) \cup {i}
      BY <1>1, <2>1, <3>1, JoinQueue DEF Claim, TableType
    <3>3. /\ status' = [status EXCEPT ![i] = "submitting"]
          /\ status[i] = "awaiting_signature"
          /\ UNCHANGED <<order, stale, ledger, worker>>
      BY <2>1 DEF Claim
    <3> QED
      BY <1>1, <3>2, <3>3 DEF TableType, QueueInv, Moves
  <2>2. CASE MarkSubmitted(i)
    <3>1. PICK k \in 1..Len(queue) : queue[k] = i /\ queue' = Append(RemoveAt(queue, k), i)
      <4>1. DOMAIN queue = 1..Len(queue)
        BY <1>1, LenProperties DEF TableType
      <4> QED
        BY <2>2, <4>1 DEF MarkSubmitted
    <3>2. queue' \in Seq(Intent) /\ IsInjective(queue') /\ Range(queue') = Range(queue)
      BY <1>1, <3>1, MoveToEnd DEF TableType
    <3>3. /\ status' = [status EXCEPT ![i] = "submitted"]
          /\ status[i] = "submitting"
          /\ stale' = stale \ {i}
          /\ UNCHANGED <<order, ledger, worker>>
      BY <2>2 DEF MarkSubmitted
    <3> QED
      BY <1>1, <3>2, <3>3 DEF TableType, QueueInv, Moves
  <2>3. CASE Age(i)
    BY <1>1, <2>3 DEF Age, TableType, QueueInv, Moves
  <2>4. CASE SettleElsewhere(i)
    <3>1. Recorded(i) \in Settled
      BY DEF Recorded
    <3>2. /\ status' = [status EXCEPT ![i] = Recorded(i)]
          /\ status[i] \in Indeterminate
          /\ order' = [order EXCEPT ![OrderOf[i]] =
                            IF ledger[i] = "success" THEN "paid" ELSE "payment_failed"]
          /\ UNCHANGED <<queue, stale, ledger, worker>>
      BY <2>4 DEF SettleElsewhere, Settle
    <3>3. order' \in [Order -> {"pending_payment", "paid", "payment_failed"}]
      BY <1>1, <3>2, OrderAssumption DEF TableType
    <3>4. status' \in [Intent -> {"awaiting_signature"} \cup Indeterminate \cup Settled]
      BY <1>1, <3>1, <3>2 DEF TableType
    <3>5. Moves /\ QueueInv'
      BY <1>1, <3>1, <3>2 DEF TableType, QueueInv, Moves
    <3> QED
      BY <1>1, <3>2, <3>3, <3>4, <3>5 DEF TableType
  <2>5. CASE \E outcome \in {"success", "failed"} : Include(i, outcome)
    BY <1>1, <2>5 DEF Include, table, TableType, QueueInv, Moves
  <2> QED
    BY <2>1, <2>2, <2>3, <2>4, <2>5
<1>3. WorkerType' /\ BatchInv' /\ OutcomesInv'
  BY <1>2, RequestKeeps
<1>4. TypeOK'
  BY <1>2, <1>3, TypeParts DEF TypeOK, TableType, WorkerType
<1> QED
  BY <1>2, <1>3, <1>4 DEF IInv

----------------------------------------------------------------------------
(* The steps of a worker *)

\* The row at hand is the first of the batch.
LEMMA RowAtHand ==
    ASSUME IInv, NEW w \in Worker, pc[w] \in {"lookup", "settle", "reread"}
    PROVE  /\ Head(batch[w]) \in Row /\ RowOK(Head(batch[w]))
           /\ Tail(batch[w]) \in Seq(Row) /\ Len(batch[w]) \in Nat \ {0}
           /\ Len(Tail(batch[w])) = Len(batch[w]) - 1
           /\ \A k \in 1..Len(Tail(batch[w])) :
                Tail(batch[w])[k] \in Row /\ RowOK(Tail(batch[w])[k])
<1> DEFINE b == batch[w]
<1>1. b \in Seq(Row) /\ b # <<>>
  BY TypeParts DEF IInv, WorkerType
<1>2. /\ Head(b) = b[1] /\ Tail(b) \in Seq(Row) /\ Len(b) \in Nat /\ Len(b) # 0
      /\ Len(Tail(b)) = Len(b) - 1
      /\ \A k \in 1..Len(Tail(b)) : Tail(b)[k] = b[k + 1]
  BY <1>1, HeadTailProperties, EmptySeq, LenProperties
<1>3. \A k \in 1..Len(b) : b[k] \in Row /\ RowOK(b[k])
  BY <1>1, ElementOfSeq DEF IInv, BatchInv
<1> HIDE DEF b
<1>4. 1 \in 1..Len(b) /\ \A k \in 1..Len(Tail(b)) : k + 1 \in 1..Len(b)
  BY <1>2
<1> QED
  BY <1>1, <1>2, <1>3, <1>4 DEF b

\* A row is concluded with an outcome that is right after the step.
LEMMA ConcludeKeeps ==
    ASSUME IInv, Moves, NEW w \in Worker, pc[w] \in {"lookup", "settle", "reread"},
           NEW s \in Indeterminate \cup Settled, NEW resolved \in BOOLEAN,
           resolved <=> s \in Settled,
           resolved => status'[Head(batch[w]).intent] = s,
           Conclude(w, s, resolved)
    PROVE  WorkerType' /\ BatchInv' /\ OutcomesInv'
<1> DEFINE rest == Tail(batch[w])
           next == IF Len(batch[w]) = 1 THEN "report" ELSE "lookup"
<1>1. TypeOK /\ WorkerType
  BY TypeParts DEF IInv
<1>2. /\ Head(batch[w]) \in Row
      /\ rest \in Seq(Row) /\ Len(batch[w]) \in Nat \ {0}
      /\ Len(rest) = Len(batch[w]) - 1
      /\ \A k \in 1..Len(rest) : rest[k] \in Row /\ RowOK(rest[k])
  BY RowAtHand
<1>3. PICK o \in Outcome :
            o = [intent |-> Head(batch[w]).intent, status |-> s, resolved |-> resolved]
  BY <1>2 DEF Outcome, Row
<1>4. /\ outcomes' = [outcomes EXCEPT ![w] = Append(outcomes[w], o)]
      /\ batch' = [batch EXCEPT ![w] = rest]
      /\ pc' = [pc EXCEPT ![w] = next]
  BY <1>3 DEF Conclude
<1> HIDE DEF rest
<1>5. /\ outcomes'[w] = Append(outcomes[w], o) /\ batch'[w] = rest /\ pc'[w] = next
      /\ \A v \in Worker \ {w} : /\ outcomes'[v] = outcomes[v] /\ batch'[v] = batch[v]
                                 /\ pc'[v] = pc[v]
  BY <1>1, <1>4 DEF WorkerType
<1>6. /\ outcomes[w] \in Seq(Outcome) /\ Append(outcomes[w], o) \in Seq(Outcome)
      /\ Len(outcomes[w]) \in Nat /\ Len(Append(outcomes[w], o)) = Len(outcomes[w]) + 1
      /\ \A k \in 1..Len(outcomes[w]) : Append(outcomes[w], o)[k] = outcomes[w][k]
      /\ Append(outcomes[w], o)[Len(outcomes[w]) + 1] = o
  BY <1>1, <1>3, AppendProperties, LenProperties DEF WorkerType
<1>7. rest = <<>> <=> Len(batch[w]) = 1
  <2>1. rest = <<>> <=> Len(rest) = 0
    BY <1>2, EmptySeq
  <2> QED
    BY <1>2, <2>1
<1>8. WorkerType'
  <2>1. outcomes' \in [Worker -> Seq(Outcome)] /\ batch' \in [Worker -> Seq(Row)]
    BY <1>1, <1>2, <1>4, <1>6 DEF WorkerType
  <2>2. pc' \in [Worker -> {"idle", "lookup", "settle", "reread", "report"}]
    BY <1>1, <1>4 DEF WorkerType
  <2>3. \A v \in Worker : pc'[v] \in {"lookup", "settle", "reread"} <=> batch'[v] # <<>>
    BY <1>1, <1>5, <1>7 DEF WorkerType
  <2> QED
    BY <2>1, <2>2, <2>3 DEF WorkerType
<1>9. \A v \in Worker : \A k \in 1..Len(batch[v]) : batch[v][k] \in Row /\ RowOK(batch[v][k])
  BY <1>1, ElementOfSeq DEF IInv, BatchInv, WorkerType
<1>10. \A v \in Worker : \A k \in 1..Len(outcomes[v]) :
            outcomes[v][k] \in Outcome /\ OutcomeOK(outcomes[v][k])
  BY <1>1, ElementOfSeq DEF IInv, OutcomesInv, WorkerType
<1>11. /\ \A row \in Row : RowOK(row) => RowOK(row)'
       /\ \A e \in Outcome : OutcomeOK(e) => OutcomeOK(e)'
       /\ OutcomeOK(o)'
  BY <1>1, <1>3, RowStays, OutcomeStays DEF OutcomeOK
<1>12. ASSUME NEW v \in Worker, NEW k \in 1..Len(batch'[v])
       PROVE  \E row \in Row : row = batch'[v][k] /\ RowOK(row)'
  BY <1>2, <1>5, <1>9, <1>11
<1>13. ASSUME NEW v \in Worker, NEW k \in 1..Len(outcomes'[v])
       PROVE  \E e \in Outcome : e = outcomes'[v][k] /\ OutcomeOK(e)'
  <2>1. CASE v = w
    <3>1. k \in 1..Len(outcomes[w]) \/ k = Len(outcomes[w]) + 1
      BY <1>5, <1>6, <2>1
    <3> QED
      BY <1>5, <1>6, <1>10, <1>11, <2>1, <3>1
  <2>2. CASE v # w
    BY <1>5, <1>10, <1>11, <2>2
  <2> QED
    BY <2>1, <2>2
<1>14. BatchInv'
  BY <1>12 DEF BatchInv, RowOK
<1>15. OutcomesInv'
  BY <1>13 DEF OutcomesInv, OutcomeOK
<1> QED
  BY <1>8, <1>14, <1>15

\* A step that leaves the tables alone moves nothing.
LEMMA TablesKept ==
    ASSUME IInv, UNCHANGED <<table, ledger>>
    PROVE  Moves /\ TableType' /\ QueueInv'
BY TypeParts DEF IInv, Moves, TableType, QueueInv, table

\* findIndeterminate returns stale rows that are indeterminate.
LEMMA SelectedRows ==
    ASSUME TypeOK
    PROVE  /\ Selected \in Seq(Intent) /\ Len(Selected) \in 0..Limit
           /\ \A k \in 1..Len(Selected) :
                Selected[k] \in stale /\ status[Selected[k]] \in Indeterminate
<1> DEFINE rows == Kept(queue, Found)
<1>1. queue \in Seq(Intent) /\ DOMAIN queue = 1..Len(queue)
  BY LenProperties DEF TypeOK
<1>2. Found \in SUBSET (1..Len(queue))
  BY <1>1 DEF Found
<1>3. rows \in Seq(Intent) /\ Len(rows) = Cardinality(Found)
  BY <1>1, <1>2, KeptIsPart
<1>4. PICK places \in [1..Cardinality(Found) -> Found] :
            \A n \in 1..Cardinality(Found) : rows[n] = queue[places[n]]
  BY <1>1, <1>2, KeptIsPart
<1>5. \A n \in 1..Len(rows) : rows[n] \in stale /\ status[rows[n]] \in Indeterminate
  BY <1>3, <1>4 DEF Found
<1> HIDE DEF rows
<1>6. /\ FirstOf(rows, Limit) \in Seq(Intent)
      /\ Len(FirstOf(rows, Limit)) \in 0..Limit /\ Len(FirstOf(rows, Limit)) <= Len(rows)
      /\ \A k \in 1..Len(FirstOf(rows, Limit)) : FirstOf(rows, Limit)[k] = rows[k]
  BY <1>3, LimitAssumption, FirstOfIsPrefix
<1>7. \A k \in 1..Len(FirstOf(rows, Limit)) : k \in 1..Len(rows)
  BY <1>3, <1>6, LenProperties
<1>8. Selected = FirstOf(rows, Limit)
  BY DEF Selected, rows
<1> QED
  BY <1>5, <1>6, <1>7, <1>8

LEMMA StartIInv ==
    ASSUME IInv, NEW w \in Worker, StartSweep(w) PROVE IInv'
<1> DEFINE rows == [k \in DOMAIN Selected |->
                        [intent |-> Selected[k], status |-> status[Selected[k]]]]
<1>1. TypeOK /\ WorkerType
  BY TypeParts DEF IInv
<1>2. UNCHANGED <<table, ledger>> /\ Selected # <<>>
  BY DEF StartSweep
<1>3. Moves /\ TableType' /\ QueueInv'
  BY <1>2, TablesKept
<1>4. /\ Selected \in Seq(Intent) /\ Len(Selected) \in Nat
      /\ DOMAIN Selected = 1..Len(Selected)
      /\ \A k \in 1..Len(Selected) :
            Selected[k] \in stale /\ status[Selected[k]] \in Indeterminate
  BY <1>1, SelectedRows, LenProperties
<1>5. \A k \in 1..Len(Selected) : Selected[k] \in Intent
  BY <1>4, ElementOfSeq
<1>6. \A k \in 1..Len(Selected) : rows[k] \in Row /\ RowOK(rows[k])
  BY <1>4, <1>5 DEF Row, RowOK
<1>7. rows \in Seq(Row) /\ Len(rows) = Len(Selected)
  <2> HIDE DEF Row
  <2>1. rows = [k \in 1..Len(Selected) |-> rows[k]]
    BY <1>4
  <2> HIDE DEF rows
  <2> QED
    BY <1>4, <1>6, <2>1, IsASeq
<1>8. rows # <<>>
  <2>1. Len(Selected) # 0
    BY <1>2, <1>4, EmptySeq
  <2> QED
    BY <1>7, <2>1, EmptySeq
<1>9. /\ pc' = [pc EXCEPT ![w] = "lookup"]
      /\ batch' = [batch EXCEPT ![w] = rows]
      /\ outcomes' = [outcomes EXCEPT ![w] = <<>>]
  BY DEF StartSweep
<1>10. <<>> \in Seq(Outcome) /\ Len(<<>>) = 0
  BY EmptySeq
<1> HIDE DEF rows
<1>11. WorkerType'
  <2>1. outcomes' \in [Worker -> Seq(Outcome)] /\ batch' \in [Worker -> Seq(Row)]
    BY <1>1, <1>7, <1>9, <1>10 DEF WorkerType
  <2>2. pc' \in [Worker -> {"idle", "lookup", "settle", "reread", "report"}]
    BY <1>1, <1>9 DEF WorkerType
  <2>3. \A v \in Worker : pc'[v] \in {"lookup", "settle", "reread"} <=> batch'[v] # <<>>
    BY <1>1, <1>8, <1>9 DEF WorkerType
  <2> QED
    BY <2>1, <2>2, <2>3 DEF WorkerType
<1>12. UNCHANGED <<status, stale>>
  BY <1>2 DEF table
<1>13. \A v \in Worker : \A k \in 1..Len(batch'[v]) : RowOK(batch'[v][k])
  <2>1. /\ batch'[w] = rows
        /\ \A v \in Worker \ {w} : batch'[v] = batch[v]
    BY <1>1, <1>9 DEF WorkerType
  <2> QED
    BY <1>4, <1>6, <1>7, <2>1 DEF IInv, BatchInv
<1>14. \A v \in Worker : \A k \in 1..Len(outcomes'[v]) : OutcomeOK(outcomes'[v][k])
  <2>1. /\ outcomes'[w] = <<>>
        /\ \A v \in Worker \ {w} : outcomes'[v] = outcomes[v]
    BY <1>1, <1>9 DEF WorkerType
  <2> QED
    BY <1>10, <2>1 DEF IInv, OutcomesInv
<1>15. BatchInv' /\ OutcomesInv'
  BY <1>12, <1>13, <1>14 DEF BatchInv, OutcomesInv, RowOK, OutcomeOK
<1>16. TypeOK'
  BY <1>3, <1>11 DEF TypeOK, TableType, WorkerType
<1> QED
  BY <1>3, <1>15, <1>16 DEF IInv

\* A worker that only waits for something else, or is done.
LEMMA PlaceIInv ==
    ASSUME IInv, NEW w \in Worker, UNCHANGED <<table, ledger>>,
           \/ /\ pc[w] \in {"lookup", "settle"} /\ UNCHANGED <<batch, outcomes>>
              /\ pc' = [pc EXCEPT ![w] = "settle"] \/ pc' = [pc EXCEPT ![w] = "reread"]
           \/ /\ pc' = [pc EXCEPT ![w] = "idle"]
              /\ outcomes' = [outcomes EXCEPT ![w] = <<>>]
              /\ \/ batch' = [batch EXCEPT ![w] = <<>>]
                 \/ batch' = batch /\ pc[w] = "report"
    PROVE  IInv'
<1>1. TypeOK /\ WorkerType
  BY TypeParts DEF IInv
<1>2. TableType' /\ QueueInv' /\ UNCHANGED <<status, stale>>
  BY TablesKept DEF table
<1>3. <<>> \in Seq(Outcome) /\ <<>> \in Seq(Row) /\ Len(<<>>) = 0
  BY EmptySeq
<1>4. outcomes' \in [Worker -> Seq(Outcome)] /\ batch' \in [Worker -> Seq(Row)]
  BY <1>1, <1>3 DEF WorkerType
<1>5. pc' \in [Worker -> {"idle", "lookup", "settle", "reread", "report"}]
  BY <1>1 DEF WorkerType
<1>6. \A v \in Worker : pc'[v] \in {"lookup", "settle", "reread"} <=> batch'[v] # <<>>
  BY <1>1 DEF WorkerType
<1>7. \A v \in Worker : /\ batch'[v] \in {batch[v], <<>>}
                        /\ outcomes'[v] \in {outcomes[v], <<>>}
  BY <1>1 DEF WorkerType
<1>8. /\ \A v \in Worker : \A k \in 1..Len(batch'[v]) : RowOK(batch'[v][k])
      /\ \A v \in Worker : \A k \in 1..Len(outcomes'[v]) : OutcomeOK(outcomes'[v][k])
  BY <1>3, <1>7 DEF IInv, BatchInv, OutcomesInv
<1>9. BatchInv' /\ OutcomesInv'
  BY <1>2, <1>8 DEF BatchInv, OutcomesInv, RowOK, OutcomeOK
<1>10. TypeOK'
  BY <1>2, <1>4, <1>5, <1>6 DEF TypeOK, TableType
<1> QED
  BY <1>2, <1>9, <1>10 DEF IInv

LEMMA SweepIInv ==
    ASSUME IInv, NEW w \in Worker, Sweep(w) PROVE IInv'
<1> DEFINE row == Head(batch[w])
           i == row.intent
<1>1. TypeOK
  BY DEF IInv
<1>2. ASSUME pc[w] \in {"lookup", "settle", "reread"}
      PROVE  /\ row \in Row /\ RowOK(row) /\ i \in Intent /\ row.status \in Indeterminate
             /\ status[i] \in Indeterminate \cup Settled
  <2>1. row \in Row /\ RowOK(row)
    BY <1>2, RowAtHand
  <2> HIDE DEF row
  <2>2. i \in Intent /\ row.status \in Indeterminate
    BY <2>1 DEF Row
  <2> QED
    BY <1>1, <2>1, <2>2 DEF RowOK, TypeOK
<1>3. CASE StartSweep(w)
  BY <1>3, StartIInv
<1>4. ASSUME UNCHANGED <<table, ledger>>, pc[w] \in {"lookup", "reread"},
             \E s \in Indeterminate \cup Settled, resolved \in BOOLEAN :
                /\ Conclude(w, s, resolved)
                /\ resolved <=> s \in Settled
                /\ resolved => status[i] = s
      PROVE  IInv'
  <2>1. Moves /\ TableType' /\ QueueInv' /\ status' = status
    BY <1>4, TablesKept DEF table
  <2>2. WorkerType' /\ BatchInv' /\ OutcomesInv'
    BY <1>4, <2>1, ConcludeKeeps
  <2>3. TypeOK'
    BY <2>1, <2>2 DEF TypeOK, TableType, WorkerType
  <2> QED
    BY <2>1, <2>2, <2>3 DEF IInv
<1>5. CASE Unknown(w)
  <2>1. /\ UNCHANGED <<table, ledger>> /\ pc[w] = "lookup"
        /\ Conclude(w, row.status, FALSE)
    BY <1>5 DEF Unknown
  <2>2. row.status \in Indeterminate
    BY <1>2, <2>1
  <2> HIDE DEF row
  <2> QED
    BY <1>4, <2>1, <2>2
<1>6. CASE Known(w)
  BY <1>6, PlaceIInv DEF Known
<1>7. CASE SettleRow(w)
  <2>1. pc[w] = "settle" /\ UNCHANGED ledger
    BY <1>7 DEF SettleRow
  <2>2. CASE Settle(i) /\ Conclude(w, Recorded(i), TRUE) /\ status[i] = row.status
    <3>1. Recorded(i) \in Settled
      BY DEF Recorded
    <3>2. i \in Intent /\ status[i] \in Indeterminate
      BY <1>2, <2>1, <2>2
    <3>3. /\ status' = [status EXCEPT ![i] = Recorded(i)]
          /\ order' = [order EXCEPT ![OrderOf[i]] =
                            IF ledger[i] = "success" THEN "paid" ELSE "payment_failed"]
          /\ UNCHANGED <<queue, stale>>
      BY <2>2 DEF Settle
    <3>4. order' \in [Order -> {"pending_payment", "paid", "payment_failed"}]
      BY <1>1, <3>2, <3>3, OrderAssumption DEF TypeOK
    <3> HIDE DEF row, i
    <3>5. status' \in [Intent -> {"awaiting_signature"} \cup Indeterminate \cup Settled]
      BY <1>1, <3>1, <3>3 DEF TypeOK
    <3>6. Moves /\ QueueInv' /\ status'[i] = Recorded(i)
      BY <1>1, <3>1, <3>2, <3>3 DEF TypeOK, IInv, QueueInv, Moves
    <3>7. TableType'
      BY <1>1, <2>1, <3>3, <3>4, <3>5 DEF TypeOK, TableType
    <3>8. WorkerType' /\ BatchInv' /\ OutcomesInv'
      BY <2>1, <2>2, <3>1, <3>6, ConcludeKeeps DEF row, i
    <3>9. TypeOK'
      BY <3>7, <3>8 DEF TypeOK, TableType, WorkerType
    <3> QED
      BY <3>6, <3>8, <3>9 DEF IInv
  <2>3. CASE pc' = [pc EXCEPT ![w] = "reread"] /\ UNCHANGED <<table, batch, outcomes>>
    BY <2>1, <2>3, PlaceIInv
  <2> QED
    BY <1>7, <2>2, <2>3 DEF SettleRow
<1>8. CASE Reread(w)
  <2>1. /\ UNCHANGED <<table, ledger>> /\ pc[w] = "reread"
        /\ Conclude(w, status[i], status[i] \in Settled)
    BY <1>8 DEF Reread
  <2>2. status[i] \in Indeterminate \cup Settled
    BY <1>2, <2>1
  <2> HIDE DEF row, i
  <2>3. (status[i] \in Settled) \in BOOLEAN
    OBVIOUS
  <2> QED
    BY <1>4, <2>1, <2>2, <2>3
<1>9. CASE Throw(w) \/ Report(w)
  BY <1>9, PlaceIInv DEF Throw, Report
<1> QED
  BY <1>3, <1>5, <1>6, <1>7, <1>8, <1>9 DEF Sweep

LEMMA InitIInv == Init => IInv
<1> SUFFICES ASSUME Init PROVE IInv
  OBVIOUS
<1>1. /\ <<>> \in Seq(Intent) /\ <<>> \in Seq(Row) /\ <<>> \in Seq(Outcome)
      /\ Len(<<>>) = 0 /\ DOMAIN <<>> = {}
  BY EmptySeq
<1>2. IsInjective(queue) /\ Range(queue) = {}
  BY <1>1 DEF Init, IsInjective, Range
<1>3. TypeOK
  BY <1>1, <1>2 DEF Init, TypeOK
<1>4. QueueInv
  BY <1>2 DEF Init, QueueInv
<1>5. BatchInv /\ OutcomesInv
  BY <1>1 DEF Init, BatchInv, OutcomesInv
<1> QED
  BY <1>3, <1>4, <1>5 DEF IInv

LEMMA NextIInv == IInv /\ [Next]_vars => IInv'
<1> SUFFICES ASSUME IInv, [Next]_vars PROVE IInv'
  OBVIOUS
<1>1. CASE UNCHANGED vars
  BY <1>1 DEF vars, table, worker, IInv, TypeOK, QueueInv, BatchInv, OutcomesInv,
              RowOK, OutcomeOK
<1> QED
  BY <1>1, RequestIInv, SweepIInv DEF Next

----------------------------------------------------------------------------
(* The theorems *)

\* The inductive invariant of the sweep.
THEOREM Invariance == Spec => []IInv
BY InitIInv, NextIInv, PTL DEF Spec

\* Every row, batch and report is well typed, and a worker waits for an answer exactly
\* while it has rows left.
THEOREM TypeCorrect == Spec => []TypeOK
<1>1. IInv => TypeOK
  BY DEF IInv
<1> QED
  BY <1>1, Invariance, PTL

\* Every row that was scanned is counted once.
LEMMA EachCountedOnce == IInv => CountsAddUp
<1> SUFFICES ASSUME IInv, NEW w \in Worker
             PROVE  Len(outcomes[w]) =
                        Reported(w, LAMBDA o : o.status = "confirmed")
                      + Reported(w, LAMBDA o : o.status = "failed")
                      + Reported(w, LAMBDA o : ~o.resolved)
  BY DEF CountsAddUp
<1> DEFINE C == {k \in DOMAIN outcomes[w] : outcomes[w][k].status = "confirmed"}
           F == {k \in DOMAIN outcomes[w] : outcomes[w][k].status = "failed"}
           U == {k \in DOMAIN outcomes[w] : ~outcomes[w][k].resolved}
           N == Len(outcomes[w])
<1>1. outcomes[w] \in Seq(Outcome)
  BY DEF IInv, TypeOK
<1>2. DOMAIN outcomes[w] = 1..N /\ N \in Nat
  BY <1>1, LenProperties
<1>3. \A k \in 1..N : outcomes[w][k] \in Outcome /\ OutcomeOK(outcomes[w][k])
  BY <1>1, ElementOfSeq DEF IInv, OutcomesInv
<1>4. \A k \in 1..N : /\ outcomes[w][k].status \in Indeterminate \cup Settled
                      /\ outcomes[w][k].resolved \in BOOLEAN
                      /\ outcomes[w][k].resolved <=> outcomes[w][k].status \in Settled
  BY <1>3 DEF Outcome, OutcomeOK
<1>5. /\ C \cup F \cup U = 1..N
      /\ C \cap F = {} /\ (C \cup F) \cap U = {}
  BY <1>2, <1>4
<1>6. C \subseteq 1..N /\ F \subseteq 1..N /\ U \subseteq 1..N /\ C \cup F \subseteq 1..N
  BY <1>2
<1>7. IsFiniteSet(1..N) /\ Cardinality(1..N) = N
  <2> HIDE DEF N
  <2> QED
    BY <1>2, FS_Interval
<1> HIDE DEF C, F, U, N
<1>8. IsFiniteSet(C) /\ IsFiniteSet(F) /\ IsFiniteSet(U) /\ IsFiniteSet(C \cup F)
  BY <1>6, <1>7, FS_Subset
<1>9. Cardinality(C \cup F) = Cardinality(C) + Cardinality(F)
  BY <1>5, <1>8, DisjointUnion
<1>10. Cardinality((C \cup F) \cup U) = Cardinality(C \cup F) + Cardinality(U)
  BY <1>5, <1>8, DisjointUnion
<1>11. N = Cardinality(C) + Cardinality(F) + Cardinality(U)
  BY <1>5, <1>7, <1>9, <1>10
<1> QED
  BY <1>11 DEF Reported, C, F, U, N

\* A report counts every row once and says settled of what is settled, so, and for good.
THEOREM ReportsAreTrue == Spec => []ReportIsTrue
<1>1. IInv => ResolvedIsSettled
  <2> SUFFICES ASSUME IInv, NEW w \in Worker, NEW k \in DOMAIN outcomes[w],
                      outcomes[w][k].resolved
               PROVE  /\ status[outcomes[w][k].intent] = outcomes[w][k].status
                      /\ outcomes[w][k].status \in Settled
    BY DEF ResolvedIsSettled
  <2>1. k \in 1..Len(outcomes[w])
    BY LenProperties DEF IInv, TypeOK
  <2> QED
    BY <2>1 DEF IInv, OutcomesInv, OutcomeOK
<1>2. IInv => ReportIsTrue
  BY <1>1, EachCountedOnce DEF ReportIsTrue
<1> QED
  BY <1>2, Invariance, PTL

\* No step of a worker settles an intent that a request touched after the cutoff,
\* although the row was selected two answers earlier.
THEOREM SettlesOnlyStale == Spec => SettlesUntouched
<1> DEFINE A == \A w \in Worker, i \in Intent :
                    /\ pc[w] = "settle" /\ pc'[w] # "settle"
                    /\ status[i] \notin Settled /\ status'[i] \in Settled
                    => i \in stale
<1>1. IInv /\ [Next]_vars => [A]_vars
  <2> SUFFICES ASSUME IInv, Next, NEW w \in Worker, NEW i \in Intent,
                      pc[w] = "settle", pc'[w] # "settle",
                      status[i] \notin Settled, status'[i] \in Settled
               PROVE  i \in stale
    OBVIOUS
  <2>1. TypeOK
    BY DEF IInv
  <2>2. PICK v \in Worker : Sweep(v)
    BY DEF Next, Claim, MarkSubmitted, Age, SettleElsewhere, Include, worker
  <2>3. v = w
    BY <2>1, <2>2 DEF TypeOK, Sweep, StartSweep, Unknown, Known, SettleRow, Reread, Throw,
            Report, Conclude
  <2>4. SettleRow(w)
    BY <2>2, <2>3 DEF Sweep, StartSweep, Unknown, Known, Reread, Throw, Report, table
  <2>5. /\ status[Head(batch[w]).intent] = Head(batch[w]).status
        /\ Settle(Head(batch[w]).intent)
    BY <2>4 DEF SettleRow, table
  <2>6. i = Head(batch[w]).intent
    BY <2>1, <2>5 DEF Settle, TypeOK
  <2>7. RowOK(Head(batch[w]))
    BY RowAtHand
  <2> QED
    BY <2>5, <2>6, <2>7 DEF RowOK
<1> QED
  BY <1>1, Invariance, PTL DEF Spec, SettlesUntouched

\* The eligible intents, in the order of the queue.
LEMMA EligibleInOrder ==
    ASSUME TypeOK
    PROVE  /\ Cardinality(Found) \in Nat /\ Kept(queue, Found) \in Seq(Intent)
           /\ Len(Kept(queue, Found)) = Cardinality(Found)
           /\ \E places \in [1..Cardinality(Found) -> Found] :
                /\ \A n \in 1..Cardinality(Found) : Kept(queue, Found)[n] = queue[places[n]]
                /\ \A n, m \in 1..Cardinality(Found) : n < m <=> places[n] < places[m]
                /\ \A k \in Found : \E n \in 1..Cardinality(Found) : places[n] = k
<1>1. queue \in Seq(Intent) /\ Found \in SUBSET (1..Len(queue))
  BY LenProperties DEF TypeOK, Found
<1>2. \A s \in Seq(Intent) : \A K \in SUBSET (1..Len(s)) :
        /\ Cardinality(K) \in Nat /\ Kept(s, K) \in Seq(Intent)
        /\ Len(Kept(s, K)) = Cardinality(K)
        /\ \E places \in [1..Cardinality(K) -> K] :
             /\ \A n \in 1..Cardinality(K) : Kept(s, K)[n] = s[places[n]]
             /\ \A n, m \in 1..Cardinality(K) : n < m <=> places[n] < places[m]
             /\ \A k \in K : \E n \in 1..Cardinality(K) : places[n] = k
  BY KeptIsPart
<1> QED
  BY <1>1, <1>2, Zenon

\* A sweep passes over an intent that it could resolve only for Limit older ones: what
\* SweepSettles names as the one thing that keeps an intent waiting, besides a refusal.
THEOREM PassesOverForOlder ==
    ASSUME TypeOK, NEW i \in stale, status[i] \in Indeterminate, i \notin Range(Selected)
    PROVE  Len(Selected) = Limit /\ \A k \in 1..Limit : Older(Selected[k], i)
<1> DEFINE kept == Kept(queue, Found)
           N == Cardinality(Found)
<1>1. /\ queue \in Seq(Intent) /\ Len(queue) \in Nat /\ DOMAIN queue = 1..Len(queue)
      /\ i \in Range(queue) /\ Found \in SUBSET (1..Len(queue))
  BY LenProperties DEF TypeOK, Found
<1>2. PICK m \in 1..Len(queue) : queue[m] = i
  BY <1>1 DEF Range
<1>3. m \in Found
  BY <1>1, <1>2 DEF Found
<1>4. N \in Nat /\ kept \in Seq(Intent) /\ Len(kept) = N
  BY EligibleInOrder
<1>5. PICK places \in [1..N -> Found] :
        /\ \A l \in 1..N : kept[l] = queue[places[l]]
        /\ \A l, j \in 1..N : l < j <=> places[l] < places[j]
        /\ \A k \in Found : \E l \in 1..N : places[l] = k
  BY EligibleInOrder
<1>6. PICK n \in 1..N : places[n] = m
  BY <1>3, <1>5
<1> HIDE DEF kept, N
<1>7. /\ Selected \in Seq(Intent) /\ Len(Selected) <= N
      /\ \A k \in 1..Len(Selected) : Selected[k] = kept[k]
      /\ Len(Selected) = N \/ Len(Selected) = Limit
      /\ Len(Selected) \in Nat /\ DOMAIN Selected = 1..Len(Selected)
  <2>1. Selected = FirstOf(kept, Limit) /\ Limit \in Nat
    BY LimitAssumption DEF Selected, kept
  <2>2. /\ FirstOf(kept, Limit) \in Seq(Intent) /\ Len(FirstOf(kept, Limit)) <= Len(kept)
        /\ \A k \in 1..Len(FirstOf(kept, Limit)) : FirstOf(kept, Limit)[k] = kept[k]
        /\ Len(FirstOf(kept, Limit)) = Len(kept) \/ Len(FirstOf(kept, Limit)) = Limit
    BY <1>4, <2>1, FirstOfIsPrefix
  <2>3. \A s \in Seq(Intent) : Len(s) \in Nat /\ DOMAIN s = 1..Len(s)
    BY LenProperties
  <2> QED
    BY <1>4, <2>1, <2>2, <2>3
<1>8. Len(Selected) < n
  <2> SUFFICES ASSUME ~(Len(Selected) < n) PROVE FALSE
    OBVIOUS
  <2>1. n \in Nat /\ 1 <= n /\ Len(Selected) \in Nat
    <3>1. N \in Nat /\ Len(Selected) \in Nat
      BY <1>4, <1>7
    <3> QED
      BY <1>6, <3>1
  <2>2. n \in 1..Len(Selected)
    BY <2>1
  <2>3. Selected[n] = i
    BY <1>2, <1>5, <1>6, <1>7, <2>2
  <2>4. n \in DOMAIN Selected
    BY <1>7, <2>2
  <2> QED
    BY <2>3, <2>4 DEF Range
<1>9. Len(Selected) = Limit
  <2>1. N \in Nat /\ Len(Selected) \in Nat /\ Len(Selected) \in {N, Limit}
    BY <1>4, <1>7
  <2> QED
    BY <1>6, <1>8, <2>1
<1>10. ASSUME NEW k \in 1..Limit PROVE Older(Selected[k], i)
  <2>1. k \in 1..N /\ k < n /\ Selected[k] = kept[k]
    BY <1>4, <1>6, <1>7, <1>8, <1>9
  <2>2. places[k] < m /\ queue[places[k]] = Selected[k]
    BY <1>5, <1>6, <2>1
  <2>3. places[k] \in DOMAIN queue /\ m \in DOMAIN queue
    BY <1>1, <1>5, <2>1
  <2> QED
    BY <1>2, <2>2, <2>3 DEF Older
<1> QED
  BY <1>9, <1>10

----------------------------------------------------------------------------
(* The steps of OrderSettlement *)

\* A confirmed intent has paid its order, and a worker that is about to settle has found
\* an outcome, which stays.
SettlementInv ==
    /\ \A i \in Intent : status[i] = "confirmed" => order[OrderOf[i]] = "paid"
    /\ \A w \in Worker : pc[w] = "settle" => ledger[Head(batch[w]).intent] # "none"

LEMMA SettlementVars ==
    ASSUME UNCHANGED <<Phases, ledger, order, PaidBy>>
    PROVE  UNCHANGED Settlement!vars
BY DEF Settlement!vars

\* Who paid depends on what is confirmed alone.
LEMMA SamePayers ==
    ASSUME \A i \in Intent : (status[i] = "confirmed") <=> (status'[i] = "confirmed")
    PROVE  PaidBy' = PaidBy
<1>1. \A o : Payers(o)' = Payers(o)
  BY DEF Payers
<1> QED
  BY <1>1 DEF PaidBy

\* A settlement is one of the two that OrderSettlement knows, whoever asks for it.
LEMMA SettleSteps ==
    ASSUME IInv, SettlementInv, NEW i \in Intent, status[i] \in Indeterminate,
           ledger[i] # "none", OrderAccepts(i), Settle(i), UNCHANGED ledger
    PROVE  /\ Settlement!Next
           /\ \A j \in Intent : status'[j] = "confirmed" => order'[OrderOf[j]] = "paid"
<1> DEFINE o == OrderOf[i]
<1>1. /\ status \in [Intent -> {"awaiting_signature"} \cup Indeterminate \cup Settled]
      /\ order \in [Order -> {"pending_payment", "paid", "payment_failed"}]
      /\ ledger[i] \in {"success", "failed"} /\ o \in Order
  BY OrderAssumption DEF IInv, TypeOK
<1>2. /\ status' = [status EXCEPT ![i] = Recorded(i)]
      /\ order' = [order EXCEPT ![o] = IF ledger[i] = "success" THEN "paid" ELSE "payment_failed"]
  BY DEF Settle
<1>3. Phases' = [Phases EXCEPT ![i] = Recorded(i)] /\ Phases[i] = "inflight"
  <2>1. Phase(Recorded(i)) = Recorded(i)
    BY DEF Phase, Recorded
  <2> QED
    BY <1>1, <1>2, <2>1 DEF Phases, Phase
<1>4. order[o] # "paid"
  BY <1>1 DEF OrderAccepts
<1>5. \A j \in Intent : OrderOf[j] = o => status[j] # "confirmed"
  BY <1>4 DEF SettlementInv
<1>6. \A j \in Intent : status'[j] = "confirmed" => order'[OrderOf[j]] = "paid"
  <2> SUFFICES ASSUME NEW j \in Intent, status'[j] = "confirmed"
               PROVE  order'[OrderOf[j]] = "paid"
    OBVIOUS
  <2>1. CASE j = i
    BY <1>1, <1>2, <2>1 DEF Recorded
  <2>2. CASE j # i
    <3>1. status[j] = "confirmed"
      BY <1>1, <1>2, <2>2
    <3>2. OrderOf[j] # o /\ order[OrderOf[j]] = "paid"
      BY <1>5, <3>1 DEF SettlementInv
    <3> QED
      BY <1>1, <1>2, <3>2
  <2> QED
    BY <2>1, <2>2
<1>7. CASE ledger[i] = "success"
  <2>1. status'[i] = "confirmed" /\ order[o] = "pending_payment"
    BY <1>1, <1>2, <1>7 DEF Recorded, OrderAccepts
  <2>2. Payers(o)' = {i}
    BY <1>1, <1>2, <1>5, <2>1 DEF Payers
  <2>3. \A q \in Order \ {o} : Payers(q)' = Payers(q)
    BY <1>1, <1>2 DEF Payers
  <2>4. PaidBy' = [PaidBy EXCEPT ![o] = i]
    <3>1. PaidBy' = [q \in Order |-> OneOf(Payers(q)')]
      BY DEF PaidBy
    <3>2. OneOf({i}) = i
      BY DEF OneOf
    <3> QED
      BY <1>1, <2>2, <2>3, <3>1, <3>2 DEF PaidBy
  <2>5. Settlement!Pay(i, o)
    BY <1>2, <1>3, <1>7, <2>1, <2>4 DEF Settlement!Pay, Recorded
  <2> QED
    BY <1>1, <1>6, <2>5 DEF Settlement!Next
<1>8. CASE ledger[i] = "failed"
  <2>1. Recorded(i) = "failed" /\ order[o] \in {"pending_payment", "payment_failed"}
    BY <1>1, <1>4, <1>8 DEF Recorded
  <2>2. PaidBy' = PaidBy
    BY <1>1, <1>2, <2>1, SamePayers
  <2>3. Settlement!Fail(i, o)
    BY <1>2, <1>3, <1>8, <2>1, <2>2 DEF Settlement!Fail
  <2> QED
    BY <1>1, <1>6, <2>3 DEF Settlement!Next
<1> QED
  BY <1>1, <1>7, <1>8

\* A step that settles nothing keeps the invariant and what OrderSettlement sees.
LEMMA NothingSettled ==
    ASSUME IInv, SettlementInv, UNCHANGED <<status, order, ledger>>,
           \A w \in Worker : pc'[w] = "settle" => ledger'[Head(batch'[w]).intent] # "none"
    PROVE  UNCHANGED Settlement!vars /\ SettlementInv'
<1>1. PaidBy' = PaidBy
  BY SamePayers
<1> QED
  BY <1>1, SettlementVars DEF Phases, SettlementInv

LEMMA RequestSteps ==
    ASSUME IInv, SettlementInv, NEW i \in Intent,
           \/ Claim(i) \/ MarkSubmitted(i) \/ Age(i) \/ SettleElsewhere(i)
           \/ \E outcome \in {"success", "failed"} : Include(i, outcome)
    PROVE  [Settlement!Next]_(Settlement!vars) /\ SettlementInv'
<1>1. status \in [Intent -> {"awaiting_signature"} \cup Indeterminate \cup Settled]
  BY DEF IInv, TypeOK
<1>2. CASE Claim(i)
  <2>1. /\ status' = [status EXCEPT ![i] = "submitting"] /\ status[i] = "awaiting_signature"
        /\ UNCHANGED <<order, ledger, pc, batch>>
    BY <1>2 DEF Claim, worker
  <2>2. PaidBy' = PaidBy
    BY <1>1, <2>1, SamePayers
  <2>3. Phases[i] = "open" /\ Phases' = [Phases EXCEPT ![i] = "inflight"]
    BY <1>1, <2>1 DEF Phases, Phase
  <2>4. Settlement!Claim(i)
    BY <2>1, <2>2, <2>3 DEF Settlement!Claim
  <2> QED
    BY <1>1, <2>1, <2>4 DEF Settlement!Next, SettlementInv
<1>3. CASE MarkSubmitted(i)
  <2>1. /\ status' = [status EXCEPT ![i] = "submitted"] /\ status[i] = "submitting"
        /\ UNCHANGED <<order, ledger, pc, batch>>
    BY <1>3 DEF MarkSubmitted, worker
  <2>2. PaidBy' = PaidBy
    BY <1>1, <2>1, SamePayers
  <2>3. Phases' = Phases
    BY <1>1, <2>1 DEF Phases, Phase
  <2> QED
    BY <1>1, <2>1, <2>2, <2>3, SettlementVars DEF SettlementInv
<1>4. CASE Age(i)
  BY <1>4, NothingSettled DEF Age, worker, SettlementInv
<1>5. CASE SettleElsewhere(i)
  <2>1. /\ status[i] \in Indeterminate /\ ledger[i] # "none" /\ OrderAccepts(i) /\ Settle(i)
        /\ UNCHANGED <<ledger, pc, batch>>
    BY <1>5 DEF SettleElsewhere, worker
  <2> QED
    BY <2>1, SettleSteps DEF SettlementInv
<1>6. CASE \E outcome \in {"success", "failed"} : Include(i, outcome)
  <2>1. PICK outcome \in {"success", "failed"} : Include(i, outcome)
    BY <1>6
  <2>2. /\ status[i] \in Indeterminate /\ ledger[i] = "none"
        /\ ledger' = [ledger EXCEPT ![i] = outcome]
        /\ UNCHANGED <<status, order, pc, batch>>
    BY <2>1 DEF Include, table, worker
  <2>3. PaidBy' = PaidBy /\ Phases' = Phases /\ Phases[i] = "inflight"
    BY <2>2, SamePayers DEF Phases, Phase
  <2>4. Settlement!Include(i, outcome)
    BY <2>2, <2>3 DEF Settlement!Include
  <2>5. ledger \in [Intent -> {"none", "success", "failed"}]
    BY DEF IInv, TypeOK
  <2>6. \A j : ledger[j] # "none" => ledger'[j] # "none"
    BY <2>2, <2>5
  <2> QED
    BY <2>2, <2>4, <2>6 DEF Settlement!Next, SettlementInv
<1> QED
  BY <1>2, <1>3, <1>4, <1>5, <1>6

LEMMA SweepSteps ==
    ASSUME IInv, SettlementInv, NEW w \in Worker, Sweep(w)
    PROVE  [Settlement!Next]_(Settlement!vars) /\ SettlementInv'
<1> DEFINE row == Head(batch[w])
           i == row.intent
<1>1. pc \in [Worker -> {"idle", "lookup", "settle", "reread", "report"}]
  BY DEF IInv, TypeOK
<1>2. \A v \in Worker \ {w} : pc'[v] = pc[v] /\ batch'[v] = batch[v]
  BY DEF IInv, TypeOK, Sweep, StartSweep, Unknown, Known, SettleRow, Reread, Throw, Report,
         Conclude
<1>3. CASE \/ StartSweep(w) \/ Unknown(w) \/ Reread(w) \/ Throw(w) \/ Report(w)
           \/ SettleRow(w) /\ pc' = [pc EXCEPT ![w] = "reread"]
  <2>1. UNCHANGED <<status, order, ledger>> /\ pc'[w] # "settle"
    BY <1>1, <1>3 DEF StartSweep, Unknown, Reread, Throw, Report, SettleRow, Conclude, table
  <2> QED
    BY <1>2, <2>1, NothingSettled DEF SettlementInv
<1>4. CASE Known(w)
  <2>1. /\ UNCHANGED <<status, order, ledger, batch>> /\ ledger[i] # "none"
    BY <1>4 DEF Known, table
  <2> QED
    BY <1>2, <2>1, NothingSettled DEF SettlementInv
<1>5. CASE SettleRow(w) /\ pc' # [pc EXCEPT ![w] = "reread"]
  <2>1. /\ pc[w] = "settle" /\ OrderAccepts(i) /\ Settle(i) /\ UNCHANGED ledger
        /\ status[i] = row.status /\ pc'[w] # "settle"
    BY <1>1, <1>5 DEF SettleRow, Conclude
  <2>2. row \in Row
    BY <2>1, RowAtHand
  <2>3. i \in Intent /\ status[i] \in Indeterminate /\ ledger[i] # "none"
    <3> HIDE DEF row
    <3>1. i \in Intent /\ row.status \in Indeterminate
      BY <2>2 DEF Row
    <3> QED
      BY <2>1, <3>1 DEF SettlementInv, row
  <2> HIDE DEF row, i
  <2>4. /\ Settlement!Next
        /\ \A j \in Intent : status'[j] = "confirmed" => order'[OrderOf[j]] = "paid"
    BY <2>1, <2>3, SettleSteps
  <2> QED
    BY <1>2, <2>1, <2>4 DEF SettlementInv
<1> QED
  BY <1>3, <1>4, <1>5 DEF Sweep

\* Every step of a worker or of a request is one that OrderSettlement allows, or none at
\* all to it: a settlement that comes late, twice or from two sides records the outcome of
\* the ledger once, on the intent and its order together.
THEOREM SweepKeepsPromise == Spec => SettlesAsPromised
<1>1. Init => SettlementInv
  BY DEF Init, SettlementInv
<1>2. IInv /\ SettlementInv /\ [Next]_vars => [Settlement!Next]_(Settlement!vars) /\ SettlementInv'
  <2> SUFFICES ASSUME IInv, SettlementInv, [Next]_vars
               PROVE  [Settlement!Next]_(Settlement!vars) /\ SettlementInv'
    OBVIOUS
  <2>1. CASE UNCHANGED vars
    BY <2>1, NothingSettled DEF vars, table, worker, SettlementInv
  <2> QED
    BY <2>1, RequestSteps, SweepSteps DEF Next
<1> QED
  BY <1>1, <1>2, Invariance, PTL DEF Spec, SettlesAsPromised

=============================================================================
