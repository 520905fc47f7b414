------------------------- MODULE MCSettlementSweep -------------------------
(***************************************************************************)
(* A small instance of SettlementSweep: one worker beside the requests,    *)
(* two rows per sweep, and two mixes of three claimed intents.  Two of one *)
(* order and one of another: the order can refuse the second, and a row    *)
(* can stand behind it.  Three of three orders: a third row does not fit   *)
(* into a batch.                                                           *)
(***************************************************************************)
EXTENDS SettlementSweep

CONSTANTS i1, i2, i3, i4, o1, o2, o3

Orders == {o1, o2, o3}
OpenedFor == [i \in Intent |-> CASE i \in {i1, i2} -> o1 [] i = i3 -> o2 [] i = i4 -> o3]

\* The two mixes are never claimed together.  The intents of an order are
\* interchangeable, so i1 is claimed before i2, and so are the orders of one intent:
\* i4 is claimed third, behind i1 and i3, while both wait.  A bound of that mix: its
\* transactions succeed (an order that has one intent accepts either outcome), and i4
\* is not touched again.
Claimed == {i \in Intent : status[i] # "awaiting_signature"}
InOrder ==
    /\ i2 \in Claimed' => i1 \in Claimed /\ i4 \notin Claimed'
    /\ i4 \in Claimed' \ Claimed =>
        queue' = <<i1, i3, i4>> /\ \A i \in {i1, i3} : status[i] \in Indeterminate
    /\ i4 \in Claimed' => "failed" \notin Range(ledger') /\ status'[i4] # "submitted"

\* What is left out are steps of requests and of the ledger, none of them fair: no
\* progress of the sweep is taken away.
MCSpec == Init /\ [][Next /\ InOrder]_vars /\ Fairness
=============================================================================
