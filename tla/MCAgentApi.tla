----------------------------- MODULE MCAgentApi -----------------------------
(***************************************************************************)
(* A small instance of the /v1/agent/ routes and of the budget of a run.   *)
(* They share no state, so a behaviour exercises one of them, which the    *)
(* initial state picks, and leaves the others untouched: the states are    *)
(* the sum of theirs and not the product.                                  *)
(***************************************************************************)
EXTENDS MCAgentCheckout, CatalogSearch, RankingHandoff, AgentRuntime, DiscoveryChat,
    BudgetTracker

CONSTANTS food, tool, any, row1, row2, noRow, session1

VARIABLE active

Call(token) == [body |-> "valid", token |-> token]

\* Five searches: with and without a vector, of one category or any, one that names
\* nothing to look for and one without the scope.
Look(text, vector, category, maxPrice, limit, token) ==
    [text |-> text, vector |-> vector, category |-> category, maxPrice |-> maxPrice,
     limit |-> limit, body |-> "valid", token |-> token]
Searches == 1..5
SearchWants == <<
    Look(TRUE, TRUE, food, 9, 1, "scoped"), Look(FALSE, TRUE, any, 9, 2, "scoped"),
    Look(TRUE, FALSE, any, 5, 2, "scoped"), Look(FALSE, FALSE, any, 9, 1, "scoped"),
    Look(TRUE, TRUE, any, 9, 1, "unscoped") >>
Dish(name, category, price) == [name |-> name, category |-> category, price |-> price]
Collection == { Dish(1, food, 3), Dish(2, tool, 9), Dish(3, food, 20) }
OfflineProducts == << Dish(4, food, 4), Dish(5, tool, 8), Dish(6, food, 5) >>

\* Two requests of one session.  The products tie, duplicate one
\* another by URL and by title, and name a row of products_ranked or none.
Rankings == 1..2
RankAsks == <<
    [session |-> session1, topK |-> 2] @@ Call("scoped"),
    [session |-> session1, topK |-> 5] @@ Call("scoped") >>
Offer(url, merchant, title, price, currency, score, inStock, row) ==
    [url |-> url, merchant |-> merchant, title |-> title, price |-> price,
     currency |-> currency, score |-> score, inStock |-> inStock, row |-> row]
cheap == Offer(NoUrl, "m", "a", 200, "USD", 70, TRUE, row1)
dear == Offer(NoUrl, "m", "a", 350, "USD", 90, TRUE, row2)
twin == Offer("u", "m", "b", 200, "USD", 70, TRUE, row2)
again == Offer("u", "n", "c", 100, "PEN", NoScore, FALSE, row1)
loose == Offer(NoUrl, "n", "c", 700, "EUR", 99, TRUE, noRow)
exotic == Offer(NoUrl, "n", "d", 10, "DOUBLOON", 50, TRUE, row1)
CandidateLists ==
    { <<a, b>> : a, b \in {cheap, dear, twin, again} } \cup
    { <<twin, cheap, again>>, <<dear, twin, again>>, <<again, dear, cheap>>,
      <<loose>>, <<cheap, exotic>>, <<twin, loose, dear, cheap>> }
ExchangeRates == [USD |-> 100, PEN |-> 27, EUR |-> 108]

Shoppers == 1..3
ShopCalls == << Call("scoped"), Call("scoped"), Call("scoped") >>

Chatters == 1..2
ChatCalls == << Call("scoped"), Call("scoped") >>

Counters == {"steps", "llmCalls"}
Maxima == [steps |-> 3, llmCalls |-> 0]

\* The requests of the checkout are interchangeable: their bodies come in order.
InOrder ==
    \A r \in 1..2 : \E m, n \in 1..Len(Requests) :
        m <= n /\ body[r] = Requests[m] /\ body[r + 1] = Requests[n]

MCInit ==
    /\ active \in {"checkout", "search", "ranking", "runtime", "chat", "budget"}
    /\ Init /\ InOrder
    /\ active # "checkout" => \A r \in Request : body[r] = Requests[1]
    /\ SearchInit /\ RankingInit /\ RuntimeInit /\ ChatInit /\ BudgetInit

allVars == <<active, vars, searchVars, rankingVars, runtimeVars, chatVars, budgetVars>>

Only(part) == active = part /\ UNCHANGED active
CheckoutStep ==
    /\ Only("checkout") /\ Next
    /\ UNCHANGED <<searchVars, rankingVars, runtimeVars, chatVars, budgetVars>>
SearchStep ==
    /\ Only("search") /\ SearchNext
    /\ UNCHANGED <<vars, rankingVars, runtimeVars, chatVars, budgetVars>>
RankingStep ==
    /\ Only("ranking") /\ RankingNext
    /\ UNCHANGED <<vars, searchVars, runtimeVars, chatVars, budgetVars>>
RuntimeStep ==
    /\ Only("runtime") /\ RuntimeNext
    /\ UNCHANGED <<vars, searchVars, rankingVars, chatVars, budgetVars>>
ChatStep ==
    /\ Only("chat") /\ ChatNext
    /\ UNCHANGED <<vars, searchVars, rankingVars, runtimeVars, budgetVars>>
BudgetStep ==
    /\ Only("budget") /\ BudgetNext
    /\ UNCHANGED <<vars, searchVars, rankingVars, runtimeVars, chatVars>>

MCNext ==
    \/ CheckoutStep \/ SearchStep \/ RankingStep
    \/ RuntimeStep \/ ChatStep \/ BudgetStep

\* A handler that can go on does, whatever Redis or the database answers; timers fire
\* and time passes.  Neither the ledger nor the model has to answer.
MCSpec ==
    /\ MCInit /\ [][MCNext]_allVars
    /\ \A r \in Request : WF_vars(active = "checkout" /\ Handle(r))
    /\ \A r \in Shopper : WF_runtimeVars(active = "runtime" /\ Serving(r))
    /\ \A c \in Chatter : WF_chatVars(active = "chat" /\ Chatting(c))
    /\ WF_chatVars(active = "chat" /\ HalfOpen)
    /\ WF_chatVars(active = "chat" /\ PassTime)

----------------------------------------------------------------------------
(* Properties *)

\* Every request of the shopping and the chat routes is answered, also when the setup
\* of the checkpointer fails or the model never answers.  A client may chat for ever, so
\* each has its answer of its own; the few shopping requests come to rest together.
ApiCallsAnswered ==
    \A c \in Chatter :
        (chat[c] = "limit" \/ \E r \in Shopper : shop[r] = "scope")
            ~> (chat[c] \in {"idle"} \cup ChatAnswers /\ Running = {})

=============================================================================
