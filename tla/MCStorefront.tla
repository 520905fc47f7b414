---------------------------- MODULE MCStorefront ----------------------------
(***************************************************************************)
(* A small instance of what users see in their browsers: the checkout of   *)
(* the React app with two accounts, one of them the payer's, and two       *)
(* intents, so that a checkout can be tried again; its catalog page; and   *)
(* the search and the header of the legacy page.  They share no state      *)
(* here, so a behaviour exercises one of them, which the initial state     *)
(* picks, and leaves the others untouched.                                 *)
(***************************************************************************)
EXTENDS Storefront, CatalogPage, LegacyHeader

CONSTANTS i1, i2, lamp, mug, mat

VARIABLE active

Typed == {"", "desk", "kitchen"}
Matches == [desk |-> {lamp, mat}, kitchen |-> {mug, lamp}]

MCInit ==
    /\ active \in {"checkout", "catalog", "stream", "header"}
    /\ Init /\ PageInit /\ StreamInit /\ HeaderInit
    /\ active # "checkout" => selected = Payer  \* one state of the parts that rest
    /\ active # "header" => ~lastError

allVars == <<active, vars, pageVars, streamVars, headerVars>>

Only(part) == active = part /\ UNCHANGED active
\* Intents are interchangeable: i1 is created first.
InOrder == status[i1] = "absent" => status[i2] = "absent"
CheckoutStep ==
    /\ Only("checkout") /\ Next /\ InOrder'
    /\ UNCHANGED <<pageVars, streamVars, headerVars>>
CatalogStep ==
    Only("catalog") /\ PageNext /\ UNCHANGED <<vars, streamVars, headerVars>>
StreamStep ==
    Only("stream") /\ StreamNext /\ UNCHANGED <<vars, pageVars, headerVars>>
HeaderStep ==
    Only("header") /\ HeaderNext /\ UNCHANGED <<vars, pageVars, streamVars>>

MCNext == CheckoutStep \/ CatalogStep \/ StreamStep \/ HeaderStep

\* The fairness of Storefront; on the other pages nothing has to happen.
MCSpec ==
    /\ MCInit /\ [][MCNext]_allVars
    /\ WF_vars(active = "checkout" /\ Answer)
    /\ \A i \in Intent : WF_vars(active = "checkout" /\ Settle(i))

=============================================================================
