-------------------------- MODULE MCAgentCheckout --------------------------
(***************************************************************************)
(* A small instance of AgentCheckout.  One token has room for two of the   *)
(* payments, one is unknown to the firewall and one may not check out;     *)
(* two requests with one key bring different payments.  An envelope pays   *)
(* what its body declares, or more.                                        *)
(***************************************************************************)
EXTENDS AgentCheckout, Sequences

CONSTANTS t1, t2, t3, i1, i2, p1, p2, k1

Request3 == 1..3
Ask(t, a, i, k, p) == [token |-> t, amount |-> a, item |-> i, key |-> k, payment |-> p]
Requests ==
    << Ask(t1, 19, i1, k1, p1), Ask(t1, 25, i2, k1, p2),
       Ask(t1, 8, i1, NoKey, NoPayment), Ask(t2, 19, i1, NoKey, p1),
       Ask(t3, 8, i1, NoKey, p2) >>
Bodies == {Requests[n] : n \in 1..Len(Requests)}
LifetimeCaps == [t \in Token |-> 3]
DailyCaps == [t \in Token |-> 40]
AsDeclared == [p \in Payment |-> IF p = p1 THEN 19 ELSE 25]
MoreThanDeclared == [p \in Payment |-> IF p = p1 THEN 19 ELSE 40]
=============================================================================
