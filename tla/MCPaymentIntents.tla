-------------------------- MODULE MCPaymentIntents --------------------------
(***************************************************************************)
(* Small instances of PaymentIntents.  All quotes have one payer, so that  *)
(* intents of different quotes compete for its single active slot.         *)
(***************************************************************************)
EXTENDS PaymentIntents

CONSTANTS pr1, pr2, payer1, q1, q2

OneQuote == {q1}
TwoQuotes == {q1, q2}
OnePrincipal == {pr1}
TwoPrincipals == {pr1, pr2}
OnePayer == {payer1}

OwnerOf == [q \in Quote |-> IF q = q2 /\ pr2 \in Principal THEN pr2 ELSE pr1]
PaidFrom == [q \in Quote |-> payer1]
\* The second quote outlives the first.
ExpiryOf == [q \in Quote |-> IF q = q1 THEN 1 ELSE 2]
=============================================================================
