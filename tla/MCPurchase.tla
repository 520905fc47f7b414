----------------------------- MODULE MCPurchase -----------------------------
(***************************************************************************)
(* A small instance of how a purchase gets from a conversation to the      *)
(* ledger: ShoppingConversation, which saves the quotes that its user      *)
(* approved, and PaymentIntents, whose requests pay what was saved.  They  *)
(* share no state here (a row of commerce_quotes appears in PaymentIntents *)
(* by a step of its own), so a behaviour exercises one of them, which the  *)
(* initial state picks, and leaves the other untouched.                    *)
(*                                                                         *)
(* The conversation: two requests on one thread, a wallet, and the signals *)
(* that lead the gate each way.                                            *)
(***************************************************************************)
EXTENDS MCPaymentIntents, ShoppingConversation, TLC

VARIABLE active

Verdict(domain, route, evidence, escalation) ==
    [domain |-> domain, domainConfident |-> TRUE, routeHint |-> route,
     routeConfident |-> TRUE, routeAllowed |-> TRUE,
     evidenceSufficient |-> evidence, requiresEscalation |-> escalation]
Signals ==
    { Verdict("in_domain", "rag", TRUE, FALSE),
      Verdict("in_domain", "rag", FALSE, FALSE),
      Verdict("in_domain", "llm", TRUE, FALSE),
      Verdict("out_of_domain", "llm", FALSE, TRUE) }
AtMostOne == {{}} \cup {{o} : o \in Offer}

\* Handler and Run have the same values, and so have Intent and Offer, Key and QuoteId:
\* what is interchangeable in one part is so in the other.
Interchangeable == Permutations(Handler) \cup Permutations(Intent) \cup Permutations(Key)

MCInit == active \in {"payments", "conversation"} /\ Init /\ ThreadInit

Only(part) == active = part /\ UNCHANGED active
PaymentStep == Only("payments") /\ Next /\ UNCHANGED threadVars
ThreadStep == Only("conversation") /\ ThreadNext /\ UNCHANGED vars

allVars == <<active, vars, threadVars>>
MCSpec == MCInit /\ [][PaymentStep \/ ThreadStep]_allVars
=============================================================================
