--------------------- MODULE ShoppingConversation_proofs ---------------------
(***************************************************************************)
(* Proofs about ShoppingConversation, for any number of requests, starts   *)
(* and quotes: type correctness, the inductive invariant and the safety    *)
(* properties that follow from it.                                         *)
(***************************************************************************)
EXTENDS ShoppingConversation, TLAPS

Labels == {"idle", "gate", "react", "answer", "selection", "approval", "saved"}

\* What ThreadTypeOK says of one run.
RunTypeOK(r) ==
    node[r] # "idle" =>
        /\ carried[r] \in States
        /\ carried[r].next = IF node[r] = "saved" THEN "approval" ELSE node[r]
        /\ node[r] \in {"selection", "approval", "saved"} => event[r] \in Events

\* The part of ThreadTypeOK that a node's Continue decides.
FlowTypeOK ==
    /\ checkpoint \in States \cup {NoState}
    /\ node \in [Run -> Labels]
    /\ carried \in [Run -> States \cup {NoState}]
    /\ event \in [Run -> Events \cup {NoEvent}]
    /\ \A r \in Run : RunTypeOK(r)

\* The rest of it.
StoreTypeOK ==
    /\ issued \in [QuoteId -> Issue \cup {NotIssued}]
    /\ saved \in [QuoteId -> Wallet \cup {NoPayer}]
    /\ approvals \subseteq QuoteId
    /\ turns \in Nat

\* ThreadTypeOK in two parts.
LEMMA TypeParts == ThreadTypeOK <=> FlowTypeOK /\ StoreTypeOK
  BY DEF ThreadTypeOK, FlowTypeOK, StoreTypeOK, RunTypeOK, Labels

\* A node that ends in a well-typed state leaves a well-typed flow.
LEMMA ContinueTypes ==
  ASSUME FlowTypeOK, NEW r \in Run, NEW s \in States, Continue(r, s)
  PROVE  FlowTypeOK'
  <1>1. s.next \in {"gate", "react", "answer", "selection", "approval", "end"}
    BY DEF States
  <1>2. checkpoint' \in States \cup {NoState} /\ node' \in [Run -> Labels]
    BY <1>1 DEF FlowTypeOK, Continue, Stops, Labels
  <1>3. carried' \in [Run -> States \cup {NoState}] /\ event' \in [Run -> Events \cup {NoEvent}]
    BY DEF FlowTypeOK, Continue
  <1>4. ASSUME NEW p \in Run PROVE RunTypeOK(p)'
    <2>1. CASE p # r
      BY <2>1 DEF FlowTypeOK, Continue, RunTypeOK
    <2>2. CASE p = r
      BY <2>2, <1>1 DEF FlowTypeOK, Continue, RunTypeOK, Stops, Labels
    <2> QED BY <2>1, <2>2
  <1> QED BY <1>2, <1>3, <1>4 DEF FlowTypeOK

\* The states that the nodes end in.
LEMMA NodeStates ==
  ASSUME NEW s \in States
  PROVE  /\ \A g \in Signal \cup {NoSignal}, st \in {"understanding", "searching", "completed"} :
                Gated(s, g, st) \in States
         /\ \A st \in {"understanding", "completed", "failed"} :
                [s EXCEPT !.status = st, !.next = "end"] \in States
         /\ \A offers \in SUBSET Offer : Found(s, offers) \in States
         /\ [s EXCEPT !.status = "failed", !.next = "answer"] \in States
         /\ \A q \in QuoteId : [s EXCEPT !.quote = q, !.status = "awaiting_approval",
                                       !.next = "approval"] \in States
         /\ [s EXCEPT !.status = "authorized", !.next = "end"] \in States
         /\ [s EXCEPT !.status = "cancelled", !.next = "end"] \in States
         /\ Turn(s) \in [message : Message, payer : Wallet \cup {NoPayer},
                signal : Signal \cup {NoSignal}, candidates : SUBSET Offer]
  <1>1. \A g \in Signal \cup {NoSignal}, st \in {"understanding", "searching", "completed"} :
            Gated(s, g, st) \in States
    <2> TAKE g \in Signal \cup {NoSignal}, st \in {"understanding", "searching", "completed"}
    <2> DEFINE n == IF st = "searching" THEN "react" ELSE "answer"
    <2>1. n \in {"react", "answer"}
      OBVIOUS
    <2>2. Gated(s, g, st) = [s EXCEPT !.signal = g, !.status = st, !.next = n]
      BY DEF Gated
    <2> HIDE DEF n
    <2>3. [s EXCEPT !.signal = g, !.status = st, !.next = n] \in States
      BY <2>1 DEF States
    <2> QED BY <2>2, <2>3
  <1>2. \A st \in {"understanding", "completed", "failed"} :
            [s EXCEPT !.status = st, !.next = "end"] \in States
    BY DEF States
  <1>3. \A offers \in SUBSET Offer : Found(s, offers) \in States
    <2> TAKE offers \in SUBSET Offer
    <2> DEFINE st == IF offers = {} THEN "completed" ELSE "awaiting_selection"
               n == IF offers = {} THEN "answer" ELSE "selection"
    <2>1. st \in {"completed", "awaiting_selection"} /\ n \in {"answer", "selection"}
      OBVIOUS
    <2>2. Found(s, offers) = [s EXCEPT !.alreadySearched = TRUE, !.lastOffers = offers,
                                !.candidates = offers, !.status = st, !.next = n]
      BY DEF Found
    <2> HIDE DEF st, n
    <2>3. [s EXCEPT !.alreadySearched = TRUE, !.lastOffers = offers,
                    !.candidates = offers, !.status = st, !.next = n] \in States
      BY <2>1 DEF States
    <2> QED BY <2>2, <2>3
  <1>4. [s EXCEPT !.status = "failed", !.next = "answer"] \in States
    BY DEF States
  <1>5. \A q \in QuoteId : [s EXCEPT !.quote = q, !.status = "awaiting_approval",
                                   !.next = "approval"] \in States
    BY DEF States
  <1>6. /\ [s EXCEPT !.status = "authorized", !.next = "end"] \in States
        /\ [s EXCEPT !.status = "cancelled", !.next = "end"] \in States
    BY DEF States
  <1>7. Turn(s) \in [message : Message, payer : Wallet \cup {NoPayer},
                     signal : Signal \cup {NoSignal}, candidates : SUBSET Offer]
    BY DEF Turn, States
  <1> QED BY <1>1, <1>2, <1>3, <1>4, <1>5, <1>6, <1>7

\* What a run holds while it is in a node.
LEMMA HeldInNode ==
  ASSUME ThreadTypeOK, NEW r \in Run, node[r] # "idle"
  PROVE  carried[r] \in States
  BY DEF ThreadTypeOK

\* The empty thread is well typed.
LEMMA InitTypeOK == ThreadInit => ThreadTypeOK
  BY DEF ThreadInit, ThreadTypeOK

\* Each node and each request keeps the types.
LEMMA NextTypeOK == ThreadTypeOK /\ [ThreadNext]_threadVars => ThreadTypeOK'
  <1> SUFFICES ASSUME ThreadTypeOK, [ThreadNext]_threadVars PROVE FlowTypeOK' /\ StoreTypeOK'
    BY PTL, TypeParts
  <1>0. FlowTypeOK /\ StoreTypeOK
    BY TypeParts
  <1>a. ASSUME NEW r \in Run, NEW s \in States, Continue(r, s),
               UNCHANGED <<issued, saved, approvals, turns>>
        PROVE  FlowTypeOK' /\ StoreTypeOK'
    BY <1>0, <1>a, ContinueTypes DEF StoreTypeOK
  <1>1. ASSUME NEW r \in Run, NEW m \in Message, NEW w \in Wallet \cup {NoPayer}, Start(r, m, w)
        PROVE  FlowTypeOK' /\ StoreTypeOK'
    <2> DEFINE fresh == [message |-> m, payer |-> w, status |-> "understanding",
           signal |-> NoSignal, candidates |-> {}, quote |-> NoQuoteId, next |-> "gate",
           alreadySearched |-> checkpoint # NoState /\ checkpoint.alreadySearched,
           lastOffers |-> IF checkpoint = NoState THEN {} ELSE checkpoint.lastOffers]
    <2>1. fresh.lastOffers \in SUBSET Offer /\ fresh.alreadySearched \in BOOLEAN
      BY <1>0 DEF FlowTypeOK, States
    <2>2. fresh \in States
      BY <2>1 DEF States
    <2>3. Continue(r, fresh)
      BY <1>1 DEF Start
    <2>4. UNCHANGED <<issued, saved, approvals>> /\ turns' = turns + 1
      BY <1>1 DEF Start
    <2> HIDE DEF fresh
    <2>5. FlowTypeOK'
      BY <1>0, <2>2, <2>3, ContinueTypes
    <2> QED BY <1>0, <2>4, <2>5 DEF StoreTypeOK
  <1>2. ASSUME NEW r \in Run, NEW e \in Events, ResumeThread(r, e)
        PROVE  FlowTypeOK' /\ StoreTypeOK'
    <2>1. checkpoint \in States /\ checkpoint.next \in Labels \ {"idle", "saved"}
      BY <1>0, <1>2 DEF FlowTypeOK, ResumeThread, States, Labels
    <2>2. node' \in [Run -> Labels] /\ carried' \in [Run -> States \cup {NoState}]
          /\ event' \in [Run -> Events \cup {NoEvent}]
      BY <1>0, <1>2, <2>1 DEF FlowTypeOK, ResumeThread, Labels
    <2>3. ASSUME NEW p \in Run PROVE RunTypeOK(p)'
      <3>1. CASE p # r
        BY <3>1, <1>0, <1>2 DEF FlowTypeOK, ResumeThread, RunTypeOK
      <3>2. CASE p = r
        BY <3>2, <1>0, <1>2, <2>1 DEF FlowTypeOK, ResumeThread, RunTypeOK, Stops, Labels
      <3> QED BY <3>1, <3>2
    <2>4. FlowTypeOK'
      BY <1>0, <1>2, <2>2, <2>3 DEF FlowTypeOK, ResumeThread
    <2>5. e.type = "approve_quote" => e.quote \in QuoteId
      BY DEF Events
    <2> QED BY <1>0, <1>2, <2>4, <2>5 DEF StoreTypeOK, ResumeThread
  <1>3. ASSUME NEW r \in Run, FailRun(r) PROVE FlowTypeOK' /\ StoreTypeOK'
    BY <1>0, <1>3 DEF FailRun, FlowTypeOK, RunTypeOK, StoreTypeOK, Labels
  <1>4. ASSUME NEW r \in Run, GateUnassessed(r) PROVE FlowTypeOK' /\ StoreTypeOK'
    <2>1. carried[r] \in States /\ carried[r].signal \in Signal \cup {NoSignal}
      BY <1>4, HeldInNode DEF GateUnassessed, States
    <2>2. Gated(carried[r], carried[r].signal, "understanding") \in States
      BY <2>1, NodeStates
    <2> QED BY <1>a, <1>4, <2>2 DEF GateUnassessed
  <1>5. ASSUME NEW r \in Run, NEW g \in Signal, Gate(r, g) PROVE FlowTypeOK' /\ StoreTypeOK'
    <2>1. carried[r] \in States
      BY <1>5, HeldInNode DEF Gate
    <2>2. Decision(g) \in {"understanding", "searching", "completed"}
      BY DEF Decision
    <2>3. Gated(carried[r], g, Decision(g)) \in States
      BY <2>1, <2>2, NodeStates
    <2> QED BY <1>a, <1>5, <2>3 DEF Gate
  <1>6. ASSUME NEW r \in Run, NEW st \in {"understanding", "completed", "failed"}, Answer(r, st)
        PROVE  FlowTypeOK' /\ StoreTypeOK'
    <2>1. carried[r] \in States
      BY <1>6, HeldInNode DEF Answer
    <2> QED BY <1>a, <1>6, <2>1, NodeStates DEF Answer
  <1>7. ASSUME NEW r \in Run, NEW offers \in SUBSET Offer, node[r] = "react",
               Continue(r, Found(carried[r], offers)), UNCHANGED <<issued, saved, approvals, turns>>
        PROVE  FlowTypeOK' /\ StoreTypeOK'
    <2>1. carried[r] \in States
      BY <1>7, HeldInNode
    <2> QED BY <1>a, <1>7, <2>1, NodeStates
  <1>8. ASSUME NEW r \in Run, NEW offers \in Results, Search(r, offers)
        PROVE  FlowTypeOK' /\ StoreTypeOK'
    BY <1>7, <1>8, ResultsAssumption DEF Search
  <1>9. ASSUME NEW r \in Run, SkipSearch(r) PROVE FlowTypeOK' /\ StoreTypeOK'
    <2>1. carried[r].lastOffers \in SUBSET Offer
      BY <1>9, HeldInNode DEF SkipSearch, States
    <2> QED BY <1>7, <1>9, <2>1 DEF SkipSearch
  <1>10. ASSUME NEW r \in Run, SearchFails(r) PROVE FlowTypeOK' /\ StoreTypeOK'
    <2>1. carried[r] \in States
      BY <1>10, HeldInNode DEF SearchFails
    <2> QED BY <1>a, <1>10, <2>1, NodeStates DEF SearchFails
  <1>11. ASSUME NEW r \in Run, NEW q \in QuoteId, NEW o \in Offer, NEW w \in Wallet \cup {NoPayer},
                NEW fits \in BOOLEAN, Select(r, q, o, w, fits)
         PROVE  FlowTypeOK' /\ StoreTypeOK'
    <2>1. carried[r] \in States
      BY <1>11, HeldInNode DEF Select
    <2>2. FlowTypeOK'
      BY <1>0, <1>11, <2>1, NodeStates, ContinueTypes DEF Select
    <2>3. [offer |-> o, payer |-> w, turn |-> Turn(carried[r])] \in Issue
      BY <2>1, NodeStates DEF Issue
    <2> QED BY <1>0, <1>11, <2>2, <2>3 DEF StoreTypeOK, Select
  <1>12. ASSUME NEW r \in Run, SaveApproved(r) PROVE FlowTypeOK' /\ StoreTypeOK'
    <2>1. carried[r] \in States /\ carried[r].payer \in Wallet
      BY <1>12, HeldInNode DEF SaveApproved, States
    <2>2. saved' \in [QuoteId -> Wallet \cup {NoPayer}]
      BY <1>0, <1>12, <2>1 DEF StoreTypeOK, SaveApproved
    <2>3. FlowTypeOK'
      BY <1>0, <1>12 DEF SaveApproved, FlowTypeOK, RunTypeOK, Labels
    <2> QED BY <1>0, <1>12, <2>2, <2>3 DEF StoreTypeOK, SaveApproved
  <1>13. ASSUME NEW r \in Run, Authorize(r) PROVE FlowTypeOK' /\ StoreTypeOK'
    <2>1. carried[r] \in States
      BY <1>13, HeldInNode DEF Authorize
    <2> QED BY <1>a, <1>13, <2>1, NodeStates DEF Authorize
  <1>14. ASSUME NEW r \in Run, Reject(r) PROVE FlowTypeOK' /\ StoreTypeOK'
    <2>1. carried[r] \in States
      BY <1>14, HeldInNode DEF Reject
    <2> QED BY <1>a, <1>14, <2>1, NodeStates DEF Reject
  <1>15. CASE UNCHANGED threadVars
    BY <1>0, <1>15 DEF threadVars, FlowTypeOK, RunTypeOK, StoreTypeOK
  <1> QED
    BY <1>1, <1>2, <1>3, <1>4, <1>5, <1>6, <1>8, <1>9, <1>10, <1>11, <1>12, <1>13, <1>14,
       <1>15 DEF ThreadNext

\* Every state has the types of the thread, and a run what its node needs.
THEOREM TypeCorrect == ThreadSpec => []ThreadTypeOK
  BY InitTypeOK, NextTypeOK, PTL DEF ThreadSpec

----------------------------------------------------------------------------
(* The inductive invariant *)

\* A signal that the tool loop may act on.
MaySearch(g) ==
    /\ ~NeedsClarification(g)
    /\ g.domain = "in_domain"
    /\ g.routeHint = "rag"

\* A state, wherever it is kept, belongs to one turn: it waits for a search or a
\* selection after a signal for it, and for an approval of a quote of its own.
StateOK(s) ==
    /\ s.next \in {"react", "selection"} => MaySearch(s.signal)
    /\ s.status = "authorized" => s.next = "end"
    /\ s.next = "approval" =>
        /\ s.quote \in QuoteId
        /\ issued[s.quote] # NotIssued
        /\ issued[s.quote].turn = Turn(s)

CheckpointOK == checkpoint # NoState => StateOK(checkpoint)
HeldOK == \A r \in Run : node[r] # "idle" => StateOK(carried[r])

\* A quote was made of what its turn had found.
QuotesOK ==
    \A q \in QuoteId : issued[q] # NotIssued =>
        /\ issued[q].offer \in issued[q].turn.candidates
        /\ MaySearch(issued[q].turn.signal)

\* A run that can approve its quote was asked to by the client.
EventsOK ==
    \A r \in Run : node[r] \in {"approval", "saved"} =>
        (IsAnswerTo(event[r], carried[r]) /\ event[r].approved => carried[r].quote \in approvals)

SavedOK ==
    \A q \in QuoteId : saved[q] # NoPayer =>
        /\ q \in approvals
        /\ issued[q] # NotIssued
        /\ saved[q] = issued[q].payer
        /\ saved[q] = issued[q].turn.payer

\* Between the save and the checkpoint the quote is there.
SavingOK ==
    \A r \in Run : node[r] = "saved" =>
        carried[r].payer # NoPayer /\ saved[carried[r].quote] = carried[r].payer

IInv ==
    /\ ThreadTypeOK
    /\ CheckpointOK /\ HeldOK /\ QuotesOK /\ EventsOK /\ SavedOK /\ SavingOK
    /\ AuthorizedIsSaved

\* The empty thread satisfies it.
LEMMA InitIInv == ThreadInit => IInv
  BY InitTypeOK DEF ThreadInit, IInv, CheckpointOK, HeldOK, QuotesOK, EventsOK, SavedOK, SavingOK,
     AuthorizedIsSaved

\* A node that ends in a good state which is not authorized, and changes no table,
\* keeps the invariant.
LEMMA ContinueIInv ==
  ASSUME IInv, ThreadTypeOK', NEW r \in Run, NEW s \in States, Continue(r, s), StateOK(s),
         s.status # "authorized", UNCHANGED <<issued, saved, approvals>>
  PROVE  IInv'
  <1>1. StateOK(s)'
    BY DEF StateOK
  <1>2. CheckpointOK'
    BY <1>1 DEF CheckpointOK, Continue, StateOK
  <1>3. HeldOK'
    <2> SUFFICES ASSUME NEW p \in Run, node'[p] # "idle" PROVE StateOK(carried[p])'
      BY DEF HeldOK
    <2>1. CASE p = r
      BY <2>1, <1>1 DEF Continue, IInv, ThreadTypeOK, StateOK
    <2>2. CASE p # r
      BY <2>2 DEF Continue, IInv, ThreadTypeOK, HeldOK, StateOK
    <2> QED BY <2>1, <2>2
  <1>4. QuotesOK' /\ SavedOK'
    BY DEF IInv, QuotesOK, SavedOK
  <1>5. EventsOK' /\ SavingOK'
    BY DEF IInv, ThreadTypeOK, EventsOK, SavingOK, Continue, Stops, States, IsAnswerTo
  <1>6. AuthorizedIsSaved'
    BY DEF AuthorizedIsSaved, Continue
  <1> QED BY <1>2, <1>3, <1>4, <1>5, <1>6 DEF IInv

\* A node that ends in a state with a new quote for its turn keeps the invariant.
LEMMA SelectIInv ==
  ASSUME IInv, ThreadTypeOK', NEW r \in Run, NEW s \in States, NEW q \in QuoteId, NEW i \in Issue,
         s.quote = q, s.next = "approval", s.status = "awaiting_approval",
         i # NotIssued, i.turn = Turn(s),
         i.offer \in i.turn.candidates, MaySearch(i.turn.signal),
         Continue(r, s), issued[q] = NotIssued, issued' = [issued EXCEPT ![q] = i],
         UNCHANGED <<saved, approvals>>
  PROVE  IInv'
  <1>1. ThreadTypeOK
    BY DEF IInv
  <1>2. issued'[q] = i /\ \A p \in QuoteId : issued[p] # NotIssued => issued'[p] = issued[p]
    BY <1>1 DEF ThreadTypeOK
  <1>3. StateOK(s)'
    BY <1>2 DEF StateOK
  <1>4. CheckpointOK' /\ AuthorizedIsSaved'
    BY <1>3 DEF CheckpointOK, Continue, StateOK, AuthorizedIsSaved
  <1>5. HeldOK'
    <2> SUFFICES ASSUME NEW p \in Run, node'[p] # "idle" PROVE StateOK(carried[p])'
      BY DEF HeldOK
    <2>1. p # r
      BY <1>1 DEF Continue, ThreadTypeOK, Stops
    <2>2. node'[p] = node[p] /\ carried'[p] = carried[p]
      BY <2>1, <1>1 DEF Continue, ThreadTypeOK
    <2> QED BY <2>2, <1>2 DEF IInv, HeldOK, StateOK
  <1>6. QuotesOK' /\ SavedOK'
    BY <1>1, <1>2 DEF IInv, QuotesOK, SavedOK, ThreadTypeOK
  <1>7. EventsOK' /\ SavingOK'
    BY <1>1 DEF IInv, ThreadTypeOK, EventsOK, SavingOK, Continue, Stops, IsAnswerTo
  <1> QED BY <1>4, <1>5, <1>6, <1>7 DEF IInv

\* Each node and each request keeps the invariant.
LEMMA NextIInv == IInv /\ [ThreadNext]_threadVars => IInv'
  <1> SUFFICES ASSUME IInv, [ThreadNext]_threadVars PROVE IInv'
    OBVIOUS
  <1>0. ThreadTypeOK /\ ThreadTypeOK'
    BY NextTypeOK DEF IInv
  <1>1. ASSUME NEW r \in Run, NEW m \in Message, NEW w \in Wallet \cup {NoPayer}, Start(r, m, w)
        PROVE  IInv'
    <2> DEFINE fresh == [message |-> m, payer |-> w, status |-> "understanding",
           signal |-> NoSignal, candidates |-> {}, quote |-> NoQuoteId, next |-> "gate",
           alreadySearched |-> checkpoint # NoState /\ checkpoint.alreadySearched,
           lastOffers |-> IF checkpoint = NoState THEN {} ELSE checkpoint.lastOffers]
    <2>1. fresh.lastOffers \in SUBSET Offer /\ fresh.alreadySearched \in BOOLEAN
      BY <1>0 DEF ThreadTypeOK, States
    <2>2. fresh \in States /\ StateOK(fresh) /\ fresh.status # "authorized"
      BY <2>1 DEF States, StateOK
    <2>3. Continue(r, fresh) /\ UNCHANGED <<issued, saved, approvals>>
      BY <1>1 DEF Start
    <2> HIDE DEF fresh
    <2> QED BY <1>0, <2>2, <2>3, ContinueIInv
  <1>2. ASSUME NEW r \in Run, NEW e \in Events, ResumeThread(r, e) PROVE IInv'
    <2>1. checkpoint \in States /\ StateOK(checkpoint) /\ checkpoint.next # "saved"
      BY <1>0, <1>2 DEF ThreadTypeOK, ResumeThread, IInv, CheckpointOK, States
    <2>2. CheckpointOK' /\ QuotesOK' /\ SavedOK' /\ AuthorizedIsSaved'
      BY <1>2 DEF IInv, ResumeThread, CheckpointOK, StateOK, QuotesOK, SavedOK, AuthorizedIsSaved
    <2>3. HeldOK'
      <3> SUFFICES ASSUME NEW p \in Run, node'[p] # "idle" PROVE StateOK(carried[p])'
        BY DEF HeldOK
      <3>1. CASE p = r
        BY <3>1, <2>1, <1>0, <1>2 DEF ResumeThread, ThreadTypeOK, StateOK
      <3>2. CASE p # r
        BY <3>2, <1>2 DEF ResumeThread, IInv, ThreadTypeOK, HeldOK, StateOK
      <3> QED BY <3>1, <3>2
    <2>4. EventsOK'
      <3> SUFFICES ASSUME NEW p \in Run, node'[p] \in {"approval", "saved"},
                          IsAnswerTo(event'[p], carried'[p]), event'[p].approved
                   PROVE  carried'[p].quote \in approvals'
        BY DEF EventsOK, IsAnswerTo
      <3>1. CASE p = r
        <4>1. event'[p] = e /\ carried'[p] = checkpoint
          BY <3>1, <2>1, <1>0, <1>2 DEF ResumeThread, ThreadTypeOK, Stops
        <4> QED BY <4>1, <1>2 DEF ResumeThread, IsAnswerTo
      <3>2. CASE p # r
        BY <3>2, <1>2 DEF ResumeThread, IInv, ThreadTypeOK, EventsOK
      <3> QED BY <3>1, <3>2
    <2>5. SavingOK'
      BY <1>2, <2>1 DEF ResumeThread, IInv, ThreadTypeOK, SavingOK
    <2> QED BY <1>0, <2>2, <2>3, <2>4, <2>5 DEF IInv
  <1>3. ASSUME NEW r \in Run, FailRun(r) PROVE IInv'
    BY <1>0, <1>3 DEF FailRun, IInv, ThreadTypeOK, CheckpointOK, HeldOK, StateOK, QuotesOK, EventsOK,
       SavedOK, SavingOK, AuthorizedIsSaved, IsAnswerTo
  <1>4. ASSUME NEW r \in Run, GateUnassessed(r) PROVE IInv'
    <2>1. carried[r] \in States /\ carried[r].signal \in Signal \cup {NoSignal}
      BY <1>0, <1>4, HeldInNode DEF GateUnassessed, States
    <2> DEFINE s == Gated(carried[r], carried[r].signal, "understanding")
    <2>2. s \in States
      BY <2>1, NodeStates
    <2>3. s.next = "answer" /\ s.status = "understanding"
      BY <2>1 DEF Gated, States
    <2>4. Continue(r, s) /\ UNCHANGED <<issued, saved, approvals>>
      BY <1>4 DEF GateUnassessed
    <2>5. StateOK(s)
      BY <2>3 DEF StateOK
    <2> HIDE DEF s
    <2> QED BY <1>0, <2>2, <2>3, <2>4, <2>5, ContinueIInv
  <1>5. ASSUME NEW r \in Run, NEW g \in Signal, Gate(r, g) PROVE IInv'
    <2>1. carried[r] \in States
      BY <1>0, <1>5, HeldInNode DEF Gate
    <2>2. Decision(g) \in {"understanding", "searching", "completed"}
      BY DEF Decision
    <2> DEFINE s == Gated(carried[r], g, Decision(g))
    <2>3. s \in States
      BY <2>1, <2>2, NodeStates
    <2>4. /\ s.signal = g /\ s.status = Decision(g)
          /\ s.next = IF Decision(g) = "searching" THEN "react" ELSE "answer"
      BY <2>1 DEF Gated, States
    <2>5. Decision(g) = "searching" => MaySearch(g)
      <3>1. g # NoSignal /\ g \in [domain : Domain, domainConfident : BOOLEAN,
                routeHint : Route, routeConfident : BOOLEAN, routeAllowed : BOOLEAN,
                evidenceSufficient : BOOLEAN, requiresEscalation : BOOLEAN]
        BY SignalAssumption, NothingAssumption
      <3>2. Decision(g) = "searching" => Confident(g) /\ g.routeHint = "rag"
        BY DEF Decision
      <3> QED BY <3>1, <3>2 DEF Confident, MaySearch, NeedsClarification
    <2>6. Continue(r, s) /\ UNCHANGED <<issued, saved, approvals>>
      BY <1>5 DEF Gate
    <2>7. StateOK(s) /\ s.status # "authorized"
      BY <2>2, <2>4, <2>5 DEF StateOK
    <2> HIDE DEF s
    <2> QED BY <1>0, <2>3, <2>6, <2>7, ContinueIInv
  <1>6. ASSUME NEW r \in Run, NEW st \in {"understanding", "completed", "failed"}, Answer(r, st)
        PROVE  IInv'
    <2>1. carried[r] \in States
      BY <1>0, <1>6, HeldInNode DEF Answer
    <2> DEFINE s == [carried[r] EXCEPT !.status = st, !.next = "end"]
    <2>2. s \in States
      BY <2>1, NodeStates
    <2>3. s.next = "end" /\ s.status = st
      BY <2>1 DEF States
    <2>4. Continue(r, s) /\ UNCHANGED <<issued, saved, approvals>>
      BY <1>6 DEF Answer
    <2>5. StateOK(s)
      BY <2>3 DEF StateOK
    <2> HIDE DEF s
    <2> QED BY <1>0, <2>2, <2>3, <2>4, <2>5, ContinueIInv
  <1>7. ASSUME NEW r \in Run, NEW offers \in SUBSET Offer, node[r] = "react",
               Continue(r, Found(carried[r], offers)), UNCHANGED <<issued, saved, approvals>>
        PROVE  IInv'
    <2>1. carried[r] \in States /\ MaySearch(carried[r].signal)
      BY <1>0, <1>7, HeldInNode DEF IInv, HeldOK, StateOK, ThreadTypeOK
    <2> DEFINE s == Found(carried[r], offers)
    <2>2. s \in States
      BY <2>1, NodeStates
    <2>3. /\ s.signal = carried[r].signal /\ s.next \in {"answer", "selection"}
          /\ s.status # "authorized"
      BY <2>1 DEF Found, States
    <2>4. StateOK(s)
      BY <2>1, <2>3 DEF StateOK
    <2>5. Continue(r, s)
      BY <1>7
    <2> HIDE DEF s
    <2> QED BY <1>0, <1>7, <2>2, <2>3, <2>4, <2>5, ContinueIInv
  <1>8. ASSUME NEW r \in Run, NEW offers \in Results, Search(r, offers) PROVE IInv'
    BY <1>7, <1>8, ResultsAssumption DEF Search
  <1>9. ASSUME NEW r \in Run, SkipSearch(r) PROVE IInv'
    <2>1. carried[r].lastOffers \in SUBSET Offer
      BY <1>0, <1>9, HeldInNode DEF SkipSearch, States
    <2> QED BY <1>7, <1>9, <2>1 DEF SkipSearch
  <1>10. ASSUME NEW r \in Run, SearchFails(r) PROVE IInv'
    <2>1. carried[r] \in States
      BY <1>0, <1>10, HeldInNode DEF SearchFails
    <2> DEFINE s == [carried[r] EXCEPT !.status = "failed", !.next = "answer"]
    <2>2. s \in States
      BY <2>1, NodeStates
    <2>3. s.next = "answer" /\ s.status = "failed"
      BY <2>1 DEF States
    <2>4. Continue(r, s) /\ UNCHANGED <<issued, saved, approvals>>
      BY <1>10 DEF SearchFails
    <2>5. StateOK(s)
      BY <2>3 DEF StateOK
    <2> HIDE DEF s
    <2> QED BY <1>0, <2>2, <2>3, <2>4, <2>5, ContinueIInv
  <1>11. ASSUME NEW r \in Run, NEW q \in QuoteId, NEW o \in Offer, NEW w \in Wallet \cup {NoPayer},
                NEW fits \in BOOLEAN, Select(r, q, o, w, fits)
         PROVE  IInv'
    <2> DEFINE s == [carried[r] EXCEPT !.quote = q, !.status = "awaiting_approval",
                                    !.next = "approval"]
               i == [offer |-> o, payer |-> w, turn |-> Turn(carried[r])]
    <2>1. carried[r] \in States /\ carried[r].next = "selection" /\ MaySearch(carried[r].signal)
      BY <1>0, <1>11, HeldInNode DEF Select, ThreadTypeOK, IInv, HeldOK, StateOK
    <2>2. s \in States /\ i \in Issue
      BY <2>1, NodeStates DEF Issue
    <2>3. s.quote = q /\ s.next = "approval" /\ s.status = "awaiting_approval" /\ Turn(s) = Turn(carried[r])
      BY <2>1 DEF States, Turn
    <2>4. i # NotIssued /\ i.turn = Turn(carried[r])
      <3>1. i.turn = Turn(carried[r]) /\ DOMAIN i = {"offer", "payer", "turn"}
        OBVIOUS
      <3>2. DOMAIN NotIssued = {"offer"}
        BY DEF NotIssued
      <3> QED BY <3>1, <3>2
    <2>5. i.offer \in i.turn.candidates /\ MaySearch(i.turn.signal)
      BY <2>1, <1>11 DEF Select, Quotable, Turn
    <2>6. Continue(r, s)
      BY <1>11 DEF Select
    <2>7. /\ issued[q] = NotIssued /\ issued' = [issued EXCEPT ![q] = i]
          /\ UNCHANGED <<saved, approvals>>
      BY <1>11 DEF Select
    <2> HIDE DEF s, i
    <2> QED BY <1>0, <2>2, <2>3, <2>4, <2>5, <2>6, <2>7, SelectIInv
  <1>12. ASSUME NEW r \in Run, SaveApproved(r) PROVE IInv'
    <2> DEFINE q == carried[r].quote
    <2>1. /\ carried[r] \in States /\ q \in QuoteId
          /\ issued[q] # NotIssued /\ issued[q].turn = Turn(carried[r])
      BY <1>0, <1>12, HeldInNode DEF SaveApproved, ThreadTypeOK, IInv, HeldOK, StateOK
    <2>2. carried[r].payer # NoPayer /\ issued[q].payer = carried[r].payer /\ q \in approvals
          /\ issued[q].turn.payer = carried[r].payer
      BY <1>12, <2>1 DEF SaveApproved, IInv, EventsOK, Turn
    <2>3. /\ saved'[q] = carried[r].payer
          /\ \A p \in QuoteId : p # q => saved'[p] = saved[p]
          /\ saved[q] # NoPayer => saved[q] = carried[r].payer
      BY <1>0, <1>12, <2>1, <2>2 DEF SaveApproved, ThreadTypeOK, IInv, SavedOK
    <2>4. UNCHANGED <<checkpoint, carried, event, issued, approvals>>
          /\ node' = [node EXCEPT ![r] = "saved"]
      BY <1>12 DEF SaveApproved
    <2>5. CheckpointOK' /\ QuotesOK'
      BY <2>4 DEF IInv, CheckpointOK, StateOK, QuotesOK
    <2>6. HeldOK'
      BY <1>0, <1>12, <2>4 DEF IInv, ThreadTypeOK, HeldOK, StateOK, SaveApproved
    <2>7. EventsOK'
      BY <1>0, <1>12, <2>4 DEF IInv, ThreadTypeOK, EventsOK, SaveApproved, IsAnswerTo
    <2>8. SavedOK'
      BY <2>1, <2>2, <2>3, <2>4 DEF IInv, SavedOK
    <2>9. SavingOK'
      <3> SUFFICES ASSUME NEW p \in Run, node'[p] = "saved"
                   PROVE  carried[p].payer # NoPayer /\ saved'[carried[p].quote] = carried[p].payer
        BY <2>4 DEF SavingOK
      <3>1. CASE p = r
        BY <3>1, <2>2, <2>3
      <3>2. CASE p # r
        <4>1. node[p] = "saved" /\ carried[p].payer # NoPayer /\ saved[carried[p].quote] = carried[p].payer
          BY <3>2, <2>4, <1>0 DEF IInv, ThreadTypeOK, SavingOK
        <4>2. carried[p] \in States /\ carried[p].next = "approval" /\ carried[p].quote \in QuoteId
          BY <1>0, <4>1 DEF ThreadTypeOK, IInv, HeldOK, StateOK
        <4>3. issued[carried[p].quote].turn = Turn(carried[p])
          BY <1>0, <4>1, <4>2 DEF IInv, HeldOK, StateOK
        <4>4. issued[carried[p].quote].turn.payer = carried[p].payer
          BY <4>3 DEF Turn
        <4> QED BY <4>1, <4>2, <4>4, <2>2, <2>3
      <3> QED BY <3>1, <3>2
    <2>10. AuthorizedIsSaved'
      BY <1>0, <2>1, <2>2, <2>3, <2>4 DEF IInv, AuthorizedIsSaved, ThreadTypeOK, States
    <2> QED BY <1>0, <2>5, <2>6, <2>7, <2>8, <2>9, <2>10 DEF IInv
  <1>13. ASSUME NEW r \in Run, Authorize(r) PROVE IInv'
    <2>1. carried[r] \in States /\ carried[r].quote \in QuoteId
      BY <1>0, <1>13, HeldInNode DEF Authorize, ThreadTypeOK, IInv, HeldOK, StateOK
    <2>2. node[r] = "saved" \/ ~HasStore
      BY <1>13 DEF Authorize
    <2>3. HasStore => carried[r].payer # NoPayer /\ saved[carried[r].quote] = carried[r].payer
      BY <2>2 DEF IInv, SavingOK
    <2>4. \E s \in States : /\ Continue(r, s) /\ s.next = "end"
                            /\ s.quote = carried[r].quote /\ s.payer = carried[r].payer
      <3> DEFINE s == [carried[r] EXCEPT !.status = "authorized", !.next = "end"]
      <3>1. s \in States
        BY <2>1, NodeStates
      <3>2. s.next = "end" /\ s.quote = carried[r].quote /\ s.payer = carried[r].payer
        BY <2>1 DEF States
      <3>3. Continue(r, s)
        BY <1>13 DEF Authorize
      <3> QED BY <3>1, <3>2, <3>3
    <2>5. PICK s \in States : /\ Continue(r, s) /\ s.next = "end"
                             /\ s.quote = carried[r].quote /\ s.payer = carried[r].payer
      BY <2>4
    <2>6. UNCHANGED <<issued, saved, approvals>>
      BY <1>13 DEF Authorize
    <2>7. CheckpointOK'
      BY <2>5 DEF CheckpointOK, Continue, StateOK
    <2>8. HeldOK'
      BY <1>0, <2>5, <2>6 DEF Continue, Stops, IInv, ThreadTypeOK, HeldOK, StateOK
    <2>9. QuotesOK' /\ SavedOK'
      BY <2>6 DEF IInv, QuotesOK, SavedOK
    <2>10. EventsOK' /\ SavingOK'
      BY <1>0, <2>5, <2>6 DEF IInv, ThreadTypeOK, EventsOK, SavingOK, Continue, Stops, IsAnswerTo
    <2>11. AuthorizedIsSaved'
      <3>1. checkpoint' = s /\ carried[r].quote # NoQuoteId
        BY <2>1, <2>5, NothingAssumption DEF Continue
      <3> QED BY <2>3, <2>5, <2>6, <3>1 DEF AuthorizedIsSaved
    <2> QED BY <1>0, <2>7, <2>8, <2>9, <2>10, <2>11 DEF IInv
  <1>14. ASSUME NEW r \in Run, Reject(r) PROVE IInv'
    <2>1. carried[r] \in States
      BY <1>0, <1>14, HeldInNode DEF Reject
    <2> DEFINE s == [carried[r] EXCEPT !.status = "cancelled", !.next = "end"]
    <2>2. s \in States
      BY <2>1, NodeStates
    <2>3. s.next = "end" /\ s.status = "cancelled"
      BY <2>1 DEF States
    <2>4. Continue(r, s) /\ UNCHANGED <<issued, saved, approvals>>
      BY <1>14 DEF Reject
    <2>5. StateOK(s)
      BY <2>3 DEF StateOK
    <2> HIDE DEF s
    <2> QED BY <1>0, <2>2, <2>3, <2>4, <2>5, ContinueIInv
  <1>15. CASE UNCHANGED threadVars
    BY <1>0, <1>15 DEF threadVars, IInv, CheckpointOK, HeldOK, StateOK, QuotesOK, EventsOK, SavedOK,
       SavingOK, AuthorizedIsSaved, IsAnswerTo
  <1> QED
    BY <1>1, <1>2, <1>3, <1>4, <1>5, <1>6, <1>8, <1>9, <1>10, <1>11, <1>12, <1>13, <1>14,
       <1>15 DEF ThreadNext

\* The invariant holds in every state of every thread.
THEOREM Invariance == ThreadSpec => []IInv
  BY InitIInv, NextIInv, PTL DEF ThreadSpec

----------------------------------------------------------------------------
(* The properties *)

\* What the store has was approved by the client, for the payer and the offers of
\* the turn that was quoted.
THEOREM SavedQuotesApproved == ThreadSpec => []SavedWasApproved
  <1>1. IInv => SavedWasApproved
    BY DEF IInv, SavedOK, QuotesOK, SavedWasApproved, MaySearch
  <1> QED BY <1>1, Invariance, PTL

\* An authorized thread has its quote in the store.
THEOREM AuthorizedQuotesSaved == ThreadSpec => []AuthorizedIsSaved
  <1>1. IInv => AuthorizedIsSaved
    BY DEF IInv
  <1> QED BY <1>1, Invariance, PTL

\* The quote that waits for an approval is of the turn the thread shows.
THEOREM ApprovalsOfOneTurn == ThreadSpec => []ApprovalIsOfThisTurn
  <1>1. IInv => ApprovalIsOfThisTurn
    <2> SUFFICES ASSUME IInv, checkpoint # NoState, checkpoint.next = "approval"
                 PROVE  /\ checkpoint.quote # NoQuoteId
                        /\ issued[checkpoint.quote] # NotIssued
                        /\ issued[checkpoint.quote].turn = Turn(checkpoint)
                        /\ issued[checkpoint.quote].offer \in checkpoint.candidates
      BY DEF ApprovalIsOfThisTurn
    <2> DEFINE i == issued[checkpoint.quote]
    <2>1. checkpoint.quote \in QuoteId /\ i # NotIssued /\ i.turn = Turn(checkpoint)
      BY DEF IInv, CheckpointOK, StateOK
    <2>2. i.offer \in i.turn.candidates
      BY <2>1 DEF IInv, QuotesOK
    <2>3. i.turn.candidates = checkpoint.candidates
      BY <2>1 DEF Turn
    <2> QED BY <2>1, <2>2, <2>3, NothingAssumption
  <1> QED BY <1>1, Invariance, PTL

\* The tool loop runs only after a signal that calls for a search.
THEOREM SearchesAreWarranted == ThreadSpec => []SearchedOnlyWhenConfident
  <1>1. IInv => SearchedOnlyWhenConfident
    BY DEF IInv, ThreadTypeOK, HeldOK, StateOK, MaySearch, SearchedOnlyWhenConfident
  <1> QED BY <1>1, Invariance, PTL

=============================================================================
