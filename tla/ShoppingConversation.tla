------------------------ MODULE ShoppingConversation ------------------------
(***************************************************************************)
(* One thread of the shopping agent: the graph of ShoppingAgent, the       *)
(* checkpoint it leaves after each node, its two interrupts, and requests  *)
(* that start or resume the thread, also while another one is running it.  *)
(*                                                                         *)
(* LangGraph, as the code uses it: a run loads the latest checkpoint, goes *)
(* from node to node with a state of its own and writes the whole state    *)
(* after each node; a node that throws, or dies, leaves the checkpoint as  *)
(* it was; a resumed run does the pending node again.  Nothing locks a     *)
(* thread: of two runs, the last write wins.                               *)
(***************************************************************************)
EXTENDS Naturals

CONSTANTS
    Run,        \* requests to POST /v1/agent/shopping
    Message, Blank, TooLong,    \* messages; Blank ones have nothing printable,
                \* TooLong ones more than the 500 characters of an intent
    Signal, NoSignal,   \* what the decision provider may answer
    Offer, Results, \* Results: the sets of offers that a search may find
    Wallet, NoPayer,
    QuoteId,    \* quote ids (bound: as many quotes as there are)
    NoQuoteId, NoState,
    Turns,      \* bound on the times the thread is started
    HasStore    \* deps.paymentQuoteApprovalStore is given

Route == {"llm", "rag", "clarify", "reject"}
Domain == {"in_domain", "out_of_domain", "ambiguous"}

ASSUME SignalAssumption ==
    Signal \subseteq [domain : Domain, domainConfident : BOOLEAN,
        routeHint : Route, routeConfident : BOOLEAN, routeAllowed : BOOLEAN,
        evidenceSufficient : BOOLEAN, requiresEscalation : BOOLEAN]
ASSUME NothingAssumption ==
    /\ NoPayer \notin Wallet /\ NoQuoteId \notin QuoteId /\ NoSignal \notin Signal
ASSUME ResultsAssumption == Results \subseteq SUBSET Offer
ASSUME StoreAssumption == HasStore \in BOOLEAN

VARIABLES
    checkpoint, \* the latest checkpoint of the thread
    node,       \* the node each run is in
    carried,    \* the state it carries from node to node
    event,      \* the resume event it was called with
    issued,     \* what each quote was made of, and for which turn
    saved,      \* payer_address of each row in commerce_quotes
    approvals,  \* quotes that a client approved while the thread had them
    turns       \* starts so far

threadVars == <<checkpoint, node, carried, event, issued, saved, approvals, turns>>

\* State: alreadySearched tells that the thread has a ToolMessage, lastOffers what
\* is in the last one, next the node that runs next.  The intent is the message, quoteHash is the quote
\* (stableHash binds its content), selectedOfferId the quote's offer.
States == [message : Message, payer : Wallet \cup {NoPayer},
    status : {"understanding", "searching", "awaiting_selection",
        "awaiting_approval", "authorized", "completed", "failed", "cancelled"},
    signal : Signal \cup {NoSignal}, alreadySearched : BOOLEAN, lastOffers : SUBSET Offer,
    candidates : SUBSET Offer, quote : QuoteId \cup {NoQuoteId},
    next : {"gate", "react", "answer", "selection", "approval", "end"}]
Events == [type : {"select_offer"}, offer : Offer]
    \cup [type : {"approve_quote"}, quote : QuoteId, approved : BOOLEAN]
\* What a quote is made for: the turn, as the node that asks for it knows it.
Turn(s) == [message |-> s.message, payer |-> s.payer, signal |-> s.signal,
            candidates |-> s.candidates]
Issue == [offer : Offer, payer : Wallet \cup {NoPayer},
    turn : [message : Message, payer : Wallet \cup {NoPayer},
            signal : Signal \cup {NoSignal}, candidates : SUBSET Offer]]
NoEvent == [type |-> "none"]
NotIssued == [offer |-> "none"]

ThreadInit ==
    /\ checkpoint = NoState
    /\ node = [r \in Run |-> "idle"]
    /\ carried = [r \in Run |-> NoState]
    /\ event = [r \in Run |-> NoEvent]
    /\ issued = [q \in QuoteId |-> NotIssued]
    /\ saved = [q \in QuoteId |-> NoPayer]
    /\ approvals = {}
    /\ turns = 0

----------------------------------------------------------------------------
(* Runs. *)

\* A run that reaches an interrupt or the end answers its request.
FaultyStops(s) == s.next = "end"
Stops(s) == s.next \in {"selection", "approval", "end"}

\* A node of run r is done: s is written, and carried to the next node.
Continue(r, s) ==
    /\ checkpoint' = s
    /\ node' = [node EXCEPT ![r] = IF Stops(s) THEN "idle" ELSE s.next]
    /\ carried' = [carried EXCEPT ![r] = IF Stops(s) THEN NoState ELSE s]
    /\ event' = [event EXCEPT ![r] = NoEvent]

\* start: every field is set again, but the messages stay, and the last tool
\* result among them.  (The load and the write of the input are one step.)
Start(r, m, w) ==
    /\ node[r] = "idle"
    /\ turns < Turns
    /\ turns' = turns + 1
    /\ Continue(r, [message |-> m, payer |-> w, status |-> "understanding",
           signal |-> NoSignal, candidates |-> {}, quote |-> NoQuoteId, next |-> "gate",
           alreadySearched |-> checkpoint # NoState /\ checkpoint.alreadySearched,
           lastOffers |-> IF checkpoint = NoState THEN {} ELSE checkpoint.lastOffers])
    /\ UNCHANGED <<issued, saved, approvals>>

\* resume: the pending node is run (again); one that waits for an event gets it.
\* A client may name any offer, and any quote it was shown.
ResumeThread(r, e) ==
    /\ node[r] = "idle"
    /\ checkpoint # NoState
    /\ checkpoint.next # "end"
    /\ e.type = "approve_quote" => issued[e.quote] # NotIssued
    /\ node' = [node EXCEPT ![r] = checkpoint.next]
    /\ carried' = [carried EXCEPT ![r] = checkpoint]
    /\ event' = [event EXCEPT ![r] = IF Stops(checkpoint) THEN e ELSE NoEvent]
    /\ approvals' = IF e.type = "approve_quote" /\ e.approved /\ checkpoint.quote = e.quote
                    THEN approvals \cup {e.quote} ELSE approvals
    /\ UNCHANGED <<checkpoint, issued, saved, turns>>

\* A node throws, or the process dies.  A message that is too long for an
\* intent, an event of the other type and an approval that does not match end
\* so whenever the run gets there.
FailRun(r) ==
    /\ node[r] # "idle"
    /\ node' = [node EXCEPT ![r] = "idle"]
    /\ carried' = [carried EXCEPT ![r] = NoState]
    /\ event' = [event EXCEPT ![r] = NoEvent]
    /\ UNCHANGED <<checkpoint, issued, saved, approvals, turns>>

----------------------------------------------------------------------------
(* The nodes. *)

Gated(s, signal, status) ==
    [s EXCEPT !.signal = signal, !.status = status,
        !.next = IF status = "searching" THEN "react" ELSE "answer"]

OutOfDomain(g) == g.domain = "out_of_domain" /\ g.domainConfident

Confident(g) ==
    /\ g.domain = "in_domain" /\ g.domainConfident
    /\ g.routeConfident /\ g.routeAllowed
    /\ g.evidenceSufficient /\ ~g.requiresEscalation

FaultyDecision(g) ==
    IF OutOfDomain(g) THEN "completed"
    ELSE IF g.domain = "ambiguous" \/ g.routeHint \in {"clarify", "reject"} THEN "understanding"
    ELSE IF g.routeHint = "rag" THEN "searching"
    ELSE "completed"
Decision(g) ==
    IF OutOfDomain(g) THEN "completed"
    ELSE IF ~Confident(g) \/ g.routeHint \in {"clarify", "reject"} THEN "understanding"
    ELSE IF g.routeHint = "rag" THEN "searching"
    ELSE "completed"

\* gate, when there is nothing to assess or the provider fails.
GateUnassessed(r) ==
    /\ node[r] = "gate"
    /\ carried[r].message \notin TooLong
    /\ Continue(r, Gated(carried[r], carried[r].signal, "understanding"))
    /\ UNCHANGED <<issued, saved, approvals, turns>>

\* gate, with the provider's signal.
Gate(r, g) ==
    /\ node[r] = "gate"
    /\ carried[r].message \notin Blank \cup TooLong
    /\ Continue(r, Gated(carried[r], g, Decision(g)))
    /\ UNCHANGED <<issued, saved, approvals, turns>>

\* answer asks the model, or says what the gate or the search left to say.
CallsModel(s) ==
    /\ s.status = "completed"
    /\ s.signal # NoSignal
    /\ s.signal.routeHint = "llm"

Answer(r, status) ==
    /\ node[r] = "answer"
    /\ status \in IF CallsModel(carried[r]) THEN {"completed", "failed"}
                  ELSE {carried[r].status}
    /\ Continue(r, [carried[r] EXCEPT !.status = status, !.next = "end"])
    /\ UNCHANGED <<issued, saved, approvals, turns>>

Found(s, offers) ==
    [s EXCEPT !.alreadySearched = TRUE, !.lastOffers = offers, !.candidates = offers,
        !.status = IF offers = {} THEN "completed" ELSE "awaiting_selection",
        !.next = IF offers = {} THEN "answer" ELSE "selection"]

\* react: the last search of the loop found these offers.
Search(r, offers) ==
    /\ node[r] = "react"
    /\ Continue(r, Found(carried[r], offers))
    /\ UNCHANGED <<issued, saved, approvals, turns>>

\* With a ToolMessage in the thread, tool_choice lets the model do without a
\* search; the last result then stands for this turn.
SkipSearch(r) ==
    /\ node[r] = "react"
    /\ carried[r].alreadySearched
    /\ Continue(r, Found(carried[r], carried[r].lastOffers))
    /\ UNCHANGED <<issued, saved, approvals, turns>>

SearchFails(r) ==
    /\ node[r] = "react"
    /\ Continue(r, [carried[r] EXCEPT !.status = "failed", !.next = "answer"])
    /\ UNCHANGED <<issued, saved, approvals, turns>>

\* The checks of the event and of the provider's quote, which is for offer and
\* fits: merchant, currency, total and expiry.
FaultyQuotable(s, e, offer, fits) ==
    /\ e.type = "select_offer"
    /\ offer = e.offer
    /\ fits
Quotable(s, e, offer, fits) ==
    /\ e.type = "select_offer"
    /\ e.offer \in s.candidates
    /\ offer = e.offer
    /\ fits

\* selection: createQuote answers with a new quote, payable by w.
Select(r, q, offer, w, fits) ==
    /\ node[r] = "selection"
    /\ issued[q] = NotIssued
    /\ Quotable(carried[r], event[r], offer, fits)
    /\ issued' = [issued EXCEPT ![q] =
                    [offer |-> offer, payer |-> w, turn |-> Turn(carried[r])]]
    /\ Continue(r, [carried[r] EXCEPT !.quote = q, !.status = "awaiting_approval",
                                      !.next = "approval"])
    /\ UNCHANGED <<saved, approvals, turns>>

FaultyIsAnswerTo(e, s) == e.type = "approve_quote"
IsAnswerTo(e, s) == e.type = "approve_quote" /\ e.quote = s.quote

\* approval, approved and with a store: the quote is saved before the node ends.
\* ON CONFLICT DO NOTHING: a second save changes nothing.
SaveApproved(r) ==
    LET q == carried[r].quote IN
    /\ node[r] = "approval"
    /\ IsAnswerTo(event[r], carried[r])
    /\ event[r].approved /\ HasStore
    /\ carried[r].payer # NoPayer
    /\ issued[q].payer = carried[r].payer
    /\ saved' = [saved EXCEPT ![q] = IF @ = NoPayer THEN issued[q].payer ELSE @]
    /\ node' = [node EXCEPT ![r] = "saved"]
    /\ UNCHANGED <<checkpoint, carried, event, issued, approvals, turns>>

FaultyAuthorize(r) ==
    /\ node[r] \in {"approval", "saved"}
    /\ IsAnswerTo(event[r], carried[r])
    /\ event[r].approved
    /\ Continue(r, [carried[r] EXCEPT !.status = "authorized", !.next = "end"])
    /\ UNCHANGED <<issued, saved, approvals, turns>>
Authorize(r) ==
    /\ \/ node[r] = "saved"
       \/ /\ node[r] = "approval"
          /\ IsAnswerTo(event[r], carried[r])
          /\ event[r].approved /\ ~HasStore
    /\ Continue(r, [carried[r] EXCEPT !.status = "authorized", !.next = "end"])
    /\ UNCHANGED <<issued, saved, approvals, turns>>

Reject(r) ==
    /\ node[r] = "approval"
    /\ IsAnswerTo(event[r], carried[r])
    /\ ~event[r].approved
    /\ Continue(r, [carried[r] EXCEPT !.status = "cancelled", !.next = "end"])
    /\ UNCHANGED <<issued, saved, approvals, turns>>

ThreadNext == \E r \in Run :
    \/ \E m \in Message, w \in Wallet \cup {NoPayer} : Start(r, m, w)
    \/ \E e \in Events : ResumeThread(r, e)
    \/ FailRun(r)
    \/ GateUnassessed(r)
    \/ \E g \in Signal : Gate(r, g)
    \/ \E status \in {"understanding", "completed", "failed"} : Answer(r, status)
    \/ \E offers \in Results : Search(r, offers)
    \/ SkipSearch(r)
    \/ SearchFails(r)
    \/ \E q \in QuoteId, o \in Offer, w \in Wallet \cup {NoPayer}, fits \in BOOLEAN :
        Select(r, q, o, w, fits)
    \/ SaveApproved(r)
    \/ Authorize(r)
    \/ Reject(r)

ThreadSpec == ThreadInit /\ [][ThreadNext]_threadVars

----------------------------------------------------------------------------
(* Properties *)

ThreadTypeOK ==
    /\ checkpoint \in States \cup {NoState}
    /\ node \in
        [Run -> {"idle", "gate", "react", "answer", "selection", "approval", "saved"}]
    /\ carried \in [Run -> States \cup {NoState}]
    /\ event \in [Run -> Events \cup {NoEvent}]
    /\ issued \in [QuoteId -> Issue \cup {NotIssued}]
    /\ saved \in [QuoteId -> Wallet \cup {NoPayer}]
    /\ approvals \subseteq QuoteId
    /\ turns \in Nat
    /\ \A r \in Run : node[r] # "idle" =>
        /\ carried[r] \in States
        /\ carried[r].next = IF node[r] = "saved" THEN "approval" ELSE node[r]
        /\ node[r] \in {"selection", "approval", "saved"} => event[r] \in Events

\* "la senal falla, es ambigua, tiene confianza menor a 0.85, carece de evidencia o
\* requiere escalacion" (src/src/services/agents/README.md:6-8).
NeedsClarification(g) ==
    \/ g = NoSignal
    \/ g.domain = "ambiguous"
    \/ ~g.domainConfident \/ ~g.routeConfident
    \/ ~g.evidenceSufficient \/ g.requiresEscalation

\* commerce_quotes has only quotes that the client approved, payable by the wallet
\* the turn was started with, of an offer among those the turn had found, after a
\* signal that needs no clarification: whatever runs overlap, fail and are retried, and
\* whatever quote or offer the client names.
SavedWasApproved ==
    \A q \in QuoteId : saved[q] # NoPayer =>
        /\ q \in approvals
        /\ issued[q] # NotIssued
        /\ saved[q] = issued[q].payer
        /\ saved[q] = issued[q].turn.payer
        /\ issued[q].offer \in issued[q].turn.candidates
        /\ ~NeedsClarification(issued[q].turn.signal)

\* A thread that says authorized has its quote in the store, for its payer: a
\* crash between the two leaves the quote without the status, never the reverse.
AuthorizedIsSaved ==
    HasStore /\ checkpoint # NoState =>
        (checkpoint.status = "authorized" =>
            /\ checkpoint.quote # NoQuoteId
            /\ checkpoint.payer # NoPayer
            /\ saved[checkpoint.quote] = checkpoint.payer)

\* The quote that a thread puts before its user was made for the turn the thread
\* shows: its payer, its message, its signal and its offers, none of another run's.
ApprovalIsOfThisTurn ==
    checkpoint # NoState /\ checkpoint.next = "approval" =>
        /\ checkpoint.quote # NoQuoteId
        /\ issued[checkpoint.quote] # NotIssued
        /\ issued[checkpoint.quote].turn = Turn(checkpoint)
        /\ issued[checkpoint.quote].offer \in checkpoint.candidates

\* "Solo la ruta RAG habilita el ReAct": the tool loop runs only for a message that
\* the provider assessed, surely, as one to search for; also when the run resumes a
\* node that another one left.
SearchedOnlyWhenConfident ==
    \A r \in Run : node[r] = "react" =>
        /\ ~NeedsClarification(carried[r].signal)
        /\ carried[r].signal.domain = "in_domain"
        /\ carried[r].signal.routeHint = "rag"

=============================================================================
