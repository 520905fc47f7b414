------------------------- MODULE AgentRoutes_proofs -------------------------
(***************************************************************************)
(* Proofs about the use cases behind the /v1/agent/ routes: the ranking    *)
(* that is handed over, the runtime, the chat and the budget of a run, for *)
(* any number of requests.                                                 *)
(***************************************************************************)
EXTENDS CatalogSearch, RankingHandoff, AgentRuntime, DiscoveryChat, BudgetTracker,
    ErrorCodes_proofs, Collections_proofs

\* The answers of the entry and the scope of a route, and Accepted.
EntryCodes == {"SCHEMA_VALIDATION_FAILED", "CREDENTIALS_MISSING", "INSUFFICIENT_SCOPE",
               "UNHANDLED_INTERNAL_ERROR"}

LEMMA EntryIsCode == \A call : Entry(call) \in EntryCodes \cup {Accepted}
BY RouteCodes DEF Entry, EntryCodes

LEMMA ScopeIsCode ==
    ASSUME NEW call, NEW redis \in {"answers", "fails"}
    PROVE  Scope(call, redis) \in EntryCodes \cup {Accepted}
BY ThrownCodes DEF Scope, EntryCodes

----------------------------------------------------------------------------
(* The budget of a run *)

BudgetInv ==
    /\ usage \in [Counter -> Nat] /\ granted \in [Counter -> Nat]
    /\ BudgetKept

LEMMA ConsumeStep ==
    ASSUME BudgetInv, NEW n \in Counter, NEW amount \in Amount, Consume(n, amount)
    PROVE  BudgetInv'
<1> USE BudgetAssumption DEF BudgetInv, BudgetKept, HasMaximum
<1>1. usage[n] + amount \in Nat /\ granted[n] + amount \in Nat
  OBVIOUS
<1>2. usage' = [usage EXCEPT ![n] = usage[n] + amount]
  BY DEF Consume
<1>3. CASE HasMaximum(n) /\ usage'[n] > Maximum[n]
  <2>1. granted' = granted
    BY <1>3 DEF Consume
  <2> QED
    BY <1>1, <1>2, <1>3, <2>1
<1>4. CASE ~(HasMaximum(n) /\ usage'[n] > Maximum[n])
  <2>1. granted' = [granted EXCEPT ![n] = granted[n] + amount]
    BY <1>4 DEF Consume
  <2>2. HasMaximum(n) => granted[n] = usage[n]
    BY <1>1, <1>2, <1>4
  <2> QED
    BY <1>1, <1>2, <1>4, <2>1, <2>2
<1> QED
  BY <1>3, <1>4

\* A run is never granted more than a maximum that is set, whatever it asks for after a
\* refusal: BudgetTracker.consume counts before it compares.
THEOREM GrantedIsBounded == BudgetInit /\ [][BudgetNext]_budgetVars => []BudgetKept
<1>1. BudgetInit => BudgetInv
  BY BudgetAssumption DEF BudgetInit, BudgetInv, BudgetKept
<1>2. BudgetInv /\ [BudgetNext]_budgetVars => BudgetInv'
  <2> SUFFICES ASSUME BudgetInv, [BudgetNext]_budgetVars PROVE BudgetInv'
    OBVIOUS
  <2>1. CASE ClockGoesOn
    BY <2>1 DEF ClockGoesOn, BudgetInv, BudgetKept, HasMaximum
  <2>2. CASE UNCHANGED budgetVars
    BY <2>2 DEF budgetVars, BudgetInv, BudgetKept, HasMaximum
  <2> QED
    BY <2>1, <2>2, ConsumeStep DEF BudgetNext
<1>3. BudgetInv => BudgetKept
  BY DEF BudgetInv
<1> QED
  BY <1>1, <1>2, <1>3, PTL

----------------------------------------------------------------------------
(* The search of the catalog *)

SearchStates == {"idle", "scope", "query", "done"} \cup EntryCodes
Product == Indexed \cup ToSet(Offline)

\* What a search gives back is right whatever the flag of the engine was before: the
\* types alone have to be carried along.
SearchInv ==
    /\ search \in [Search -> SearchStates]
    /\ found \in [Search -> [results : Seq(Product), fallback : BOOLEAN]]
    /\ servedBy \in [Search -> {"nothing", "offline", "collection"}]
    /\ FallbackIsTrue

\* What both sources promise of their results.
Answers(w, products) ==
    /\ products \in Seq(Product) /\ Len(products) <= w.limit
    /\ \A i \in 1..Len(products) : Fits(w, products[i])

\* The offline catalog keeps what fits the filters, and no more than was asked for.
LEMMA FallbackAnswers ==
    ASSUME NEW w, w.limit \in Nat
    PROVE  Answers(w, SearchFallback(w))
<1> DEFINE D == ToSet(Offline)
           K == {k \in DOMAIN Offline : Fits(w, Offline[k])}
           kept == Kept(Offline, K)
<1>1. Offline \in Seq(D) /\ Len(Offline) \in Nat /\ DOMAIN Offline = 1..Len(Offline)
  BY SearchAssumption, LenProperties
<1>2. K \in SUBSET (1..Len(Offline))
  BY <1>1
<1>3. /\ Cardinality(K) \in Nat /\ kept \in Seq(D) /\ Len(kept) = Cardinality(K)
      /\ \A n \in 1..Cardinality(K) : \E k \in K : kept[n] = Offline[k]
  <2> HIDE DEF K, D
  <2>1. PICK places \in [1..Cardinality(K) -> K] :
            \A n \in 1..Cardinality(K) : Kept(Offline, K)[n] = Offline[places[n]]
    BY <1>1, <1>2, KeptIsPart
  <2>2. /\ Cardinality(K) \in Nat /\ Kept(Offline, K) \in Seq(D)
        /\ Len(Kept(Offline, K)) = Cardinality(K)
    BY <1>1, <1>2, KeptIsPart
  <2> QED
    BY <2>1, <2>2
<1>4. \A n \in 1..Len(kept) : Fits(w, kept[n])
  BY <1>3
<1> HIDE DEF K, kept, D
<1>5. /\ FirstOf(kept, w.limit) \in Seq(D) /\ Len(FirstOf(kept, w.limit)) \in 0..w.limit
      /\ Len(FirstOf(kept, w.limit)) <= Len(kept)
      /\ \A k \in 1..Len(FirstOf(kept, w.limit)) : FirstOf(kept, w.limit)[k] = kept[k]
  BY <1>3, FirstOfIsPrefix
<1>6. SearchFallback(w) = FirstOf(kept, w.limit)
  BY DEF SearchFallback, K, kept
<1>7. FirstOf(kept, w.limit) \in Seq(Product)
  BY <1>5, SeqMonotonic DEF D, Product
<1> QED
  BY <1>3, <1>4, <1>5, <1>6, <1>7 DEF Answers

\* The hits of the store pass the filters that were sent along.
LEMMA HitsAnswer ==
    ASSUME NEW w, w.limit \in Nat, NEW S \in SUBSET {product \in Indexed : Fits(w, product)},
           Cardinality(S) <= w.limit
    PROVE  Answers(w, SetToSeq(S))
<1>1. IsFiniteSet(S)
  BY SearchAssumption, FS_Subset
<1>2. SetToSeq(S) \in Seq(S) /\ Len(SetToSeq(S)) = Cardinality(S)
  BY <1>1, ListingIsOfSet
<1>3. \A i \in 1..Len(SetToSeq(S)) : SetToSeq(S)[i] \in S
  BY <1>2, ElementOfSeq
<1>4. SetToSeq(S) \in Seq(Product)
  BY <1>2, SeqMonotonic DEF Product
<1> QED
  BY <1>2, <1>3, <1>4 DEF Answers

LEMMA ServeStep ==
    ASSUME SearchInv, NEW r \in Search, NEW products, Answers(Wanted[r], products),
           NEW source \in {"offline", "collection"}, Serve(r, products, source)
    PROVE  SearchInv'
<1>1. /\ search' = [search EXCEPT ![r] = "done"]
      /\ found' = [found EXCEPT ![r] = [results |-> products, fallback |-> source = "offline"]]
      /\ servedBy' = [servedBy EXCEPT ![r] = source]
  BY DEF Serve
<1>2. /\ search' \in [Search -> SearchStates]
      /\ found' \in [Search -> [results : Seq(Product), fallback : BOOLEAN]]
      /\ servedBy' \in [Search -> {"nothing", "offline", "collection"}]
  BY <1>1 DEF SearchInv, SearchStates, Answers
<1>3. FallbackIsTrue'
  BY <1>1 DEF SearchInv, FallbackIsTrue, Answers
<1> QED
  BY <1>2, <1>3 DEF SearchInv

LEMMA NoAnswerStep ==
    ASSUME SearchInv, NEW r \in Search, NEW next \in SearchStates \ {"done"}, SearchGoto(r, next)
    PROVE  SearchInv'
BY DEF SearchInv, SearchGoto, FallbackIsTrue

\* Every answer says which source it came from, and its products pass the filters and the
\* limit of its own request, although the flag belongs to the engine that all share:
\* CatalogSearchService.search reads it at once after the engine's answer.
THEOREM AnswersNameSource == SearchInit /\ [][SearchNext]_searchVars => []FallbackIsTrue
<1>1. SearchInit => SearchInv
  BY EmptySeq DEF SearchInit, SearchInv, FallbackIsTrue, NothingFound, SearchStates
<1>2. SearchInv /\ [SearchNext]_searchVars => SearchInv'
  <2> SUFFICES ASSUME SearchInv, [SearchNext]_searchVars PROVE SearchInv'
    OBVIOUS
  <2>1. \A r \in Search : Wanted[r].limit \in Nat
    BY SearchAssumption
  <2>2. \A r \in Search : Answers(Wanted[r], SearchFallback(Wanted[r]))
    BY <2>1, FallbackAnswers
  <2>3. ASSUME NEW r \in Search, AskCatalog(r) PROVE SearchInv'
    <3>1. PICK code \in EntryCodes \cup {Accepted} : SearchEntry(Wanted[r]) = code
      BY EntryIsCode DEF SearchEntry
    <3>2. (IF code = Accepted THEN "scope" ELSE code) \in SearchStates \ {"done"}
      BY <3>1 DEF SearchStates, EntryCodes
    <3> QED
      BY <2>3, <3>1, <3>2, NoAnswerStep DEF AskCatalog
  <2>4. ASSUME NEW r \in Search, NEW redis \in {"answers", "fails"}, CheckScope(r, redis)
        PROVE  SearchInv'
    <3>1. PICK code \in EntryCodes \cup {Accepted} : Scope(Wanted[r], redis) = code
      BY ScopeIsCode
    <3>2. code # Accepted => code \in SearchStates \ {"done"}
      BY <3>1 DEF SearchStates, EntryCodes
    <3>3. "query" \in SearchStates \ {"done"}
      BY DEF SearchStates
    <3> QED
      BY <2>2, <2>4, <3>1, <3>2, <3>3, NoAnswerStep, ServeStep DEF CheckScope
  <2>5. ASSUME NEW r \in Search, QueryAnswers(r) PROVE SearchInv'
    <3>1. PICK S \in SUBSET {product \in Indexed : Fits(Wanted[r], product)} :
              Cardinality(S) <= Wanted[r].limit /\ Serve(r, SetToSeq(S), "collection")
      BY <2>5 DEF QueryAnswers
    <3>2. Answers(Wanted[r], SetToSeq(S))
      BY <2>1, <3>1, HitsAnswer
    <3> QED
      BY <3>1, <3>2, ServeStep
  <2>6. ASSUME NEW r \in Search, QueryFails(r) PROVE SearchInv'
    BY <2>2, <2>6, ServeStep DEF QueryFails
  <2>7. CASE UNCHANGED searchVars
    BY <2>7 DEF searchVars, SearchInv, FallbackIsTrue
  <2> QED
    BY <2>3, <2>4, <2>5, <2>6, <2>7 DEF SearchNext
<1>3. SearchInv => FallbackIsTrue
  BY DEF SearchInv
<1> QED
  BY <1>1, <1>2, <1>3, PTL

----------------------------------------------------------------------------
(* The runtime *)

ShopStates == {"idle", "scope", "setup", "compose", "advance", "done"} \cup EntryCodes

RuntimeTypes ==
    /\ shop \in [Shopper -> ShopStates]
    /\ uses \in [Shopper -> Shopper \cup {NoPool}]
    /\ open \subseteq Shopper
    /\ cachedCheckpointer \in Shopper \cup {NoPool}
    /\ cachedShoppingConversation \in Shopper \cup {NoPool}
    /\ closing \in {"up", "waiting", "closed"}

\* The pool of a request is open while its checkpointer is set up; only then can
\* another come to use it, and from then on nothing but close() ends it.
Early == {"idle", "scope", "setup"}
Late(p) == p = NoPool \/ (p \in Shopper /\ shop[p] \notin Early)
PoolsAreTheirs ==
    /\ \A r \in Shopper : shop[r] = "setup" => r \in open
    /\ \A r \in Shopper : shop[r] \in {"compose", "advance"} => Late(uses[r]) /\ uses[r] # NoPool
    /\ Late(cachedCheckpointer) /\ Late(cachedShoppingConversation)

HeldWhileUp ==
    closing # "closed" =>
        /\ cachedCheckpointer \in open \cup {NoPool}
        /\ cachedShoppingConversation \in open \cup {NoPool}
        /\ \A r \in Shopper : shop[r] \in {"compose", "advance"} => uses[r] \in open

\* Without a race there is one pool at most, which is being prepared or is cached.
OnePool ==
    raced # TRUE =>
        /\ closing # "closed" =>
            /\ \A p, q \in open : p = q
            /\ \A p \in open : p = cachedCheckpointer \/ shop[p] = "setup"
        /\ closing = "closed" => open = {}

RuntimeInv == RuntimeTypes /\ PoolsAreTheirs /\ HeldWhileUp /\ OnePool

LEMMA ResolveStep ==
    ASSUME RuntimeInv, NEW r \in Shopper, NEW redis \in {"answers", "fails"}, Resolve(r, redis)
    PROVE  RuntimeInv'
<1> USE PoolAssumption DEF RuntimeInv, RuntimeTypes, PoolsAreTheirs, Late, HeldWhileUp, OnePool,
        Early, Preparing
<1>0. shop[r] = "scope" /\ UNCHANGED <<cachedCheckpointer, cachedShoppingConversation, closing>>
  BY DEF Resolve
<1>1. CASE /\ Scope(ShopCall[r], redis) # Accepted
           /\ ShopGoto(r, Scope(ShopCall[r], redis)) /\ UNCHANGED <<uses, open, raced>>
  <2>1. PICK code \in EntryCodes : shop' = [shop EXCEPT ![r] = code]
    BY <1>1, ScopeIsCode DEF ShopGoto
  <2>2. code \in ShopStates /\ code \notin {"idle", "scope", "setup", "compose", "advance"}
    BY <2>1 DEF EntryCodes, ShopStates
  <2> QED
    BY <1>0, <1>1, <2>1, <2>2
<1>2. CASE /\ ShopGoto(r, "advance") /\ cachedShoppingConversation # NoPool
           /\ uses' = [uses EXCEPT ![r] = cachedShoppingConversation]
           /\ UNCHANGED <<open, raced>>
  BY <1>0, <1>2 DEF ShopGoto, ShopStates
<1>3. CASE /\ ShopGoto(r, "compose") /\ cachedCheckpointer # NoPool
           /\ uses' = [uses EXCEPT ![r] = cachedCheckpointer]
           /\ UNCHANGED <<open, raced>>
  BY <1>0, <1>3 DEF ShopGoto, ShopStates
<1>4. CASE /\ cachedCheckpointer = NoPool
           /\ ShopGoto(r, "setup") /\ open' = open \cup {r}
           /\ raced' = (raced \/ Preparing # {} \/ closing = "closed")
           /\ UNCHANGED uses
  <2>1. shop' = [shop EXCEPT ![r] = "setup"]
    BY <1>4 DEF ShopGoto
  <2>2. RuntimeTypes' /\ PoolsAreTheirs' /\ HeldWhileUp'
    BY <1>0, <1>4, <2>1 DEF ShopStates
  <2>3. ASSUME raced' # TRUE PROVE raced # TRUE /\ Preparing = {} /\ closing # "closed"
    BY <1>4, <2>3
  <2>4. ASSUME raced' # TRUE PROVE open = {}
    BY <1>4, <2>3, <2>4
  <2>5. OnePool'
    BY <1>0, <1>4, <2>1, <2>3, <2>4
  <2> QED
    BY <2>2, <2>5
<1> QED
  BY <1>1, <1>2, <1>3, <1>4 DEF Resolve

LEMMA ServingStep ==
    ASSUME RuntimeInv, NEW r \in Shopper, Serving(r) PROVE RuntimeInv'
<1> USE PoolAssumption DEF RuntimeInv, RuntimeTypes, PoolsAreTheirs, Late, HeldWhileUp, OnePool,
        Early
<1>1. CASE SetUp(r)
  BY <1>1 DEF SetUp, ShopGoto, ShopStates
<1>2. CASE SetUpFails(r)
  <2>1. shop[r] = "setup" /\ shop' = [shop EXCEPT ![r] = "UNHANDLED_INTERNAL_ERROR"]
    BY <1>2, ThrownCodes DEF SetUpFails, ShopGoto
  <2>2. /\ open' = open \ {r}
        /\ UNCHANGED <<uses, cachedCheckpointer, cachedShoppingConversation, closing, raced>>
    BY <1>2 DEF SetUpFails
  <2> QED
    BY <2>1, <2>2 DEF ShopStates, EntryCodes
<1>3. CASE Compose(r)
  BY <1>3 DEF Compose, ShopGoto, ShopStates
<1>4. CASE Advance(r)
  <2>1. PICK code \in {"done", "UNHANDLED_INTERNAL_ERROR"} :
            shop' = [shop EXCEPT ![r] = code]
    BY <1>4, ThrownCodes DEF Advance, ShopGoto
  <2>3. code \in ShopStates /\ code \notin {"idle", "scope", "setup", "compose", "advance"}
    BY <2>1 DEF ShopStates, EntryCodes
  <2>2. UNCHANGED <<uses, open, cachedCheckpointer, cachedShoppingConversation, closing, raced>>
    BY <1>4 DEF Advance, pools
  <2>4. /\ RuntimeTypes'
        /\ shop'[r] = code /\ \A q \in Shopper \ {r} : shop'[q] = shop[q]
    BY <2>1, <2>2, <2>3
  <2>5. PoolsAreTheirs'
    BY <2>2, <2>3, <2>4
  <2>6. HeldWhileUp'
    BY <2>2, <2>3, <2>4
  <2>7. OnePool'
    <3>1. shop[r] = "advance"
      BY <1>4 DEF Advance
    <3> QED
      BY <3>1, <2>2, <2>4
  <2> QED
    BY <2>4, <2>5, <2>6, <2>7
<1>5. ASSUME NEW redis \in {"answers", "fails"}, Resolve(r, redis) PROVE RuntimeInv'
  <2> HIDE DEF RuntimeInv
  <2> QED
    BY <1>5, ResolveStep
<1> QED
  BY <1>1, <1>2, <1>3, <1>4, <1>5 DEF Serving

\* The caches and the conversations under way hold open pools until close(), a setup
\* that failed leaves none, and close() ends the one there is: createAgentRuntime, for
\* any number of requests in any order.
THEOREM PoolsAreHeld == RuntimeInit /\ [][RuntimeNext]_runtimeVars => []PoolsHeld
<1>1. RuntimeInit => RuntimeInv
  BY PoolAssumption DEF RuntimeInit, RuntimeInv, RuntimeTypes, PoolsAreTheirs, Late,
     HeldWhileUp, OnePool, ShopStates
<1>2. RuntimeInv /\ [RuntimeNext]_runtimeVars => RuntimeInv'
  <2> SUFFICES ASSUME RuntimeInv, [RuntimeNext]_runtimeVars PROVE RuntimeInv'
    OBVIOUS
  <2> USE PoolAssumption DEF RuntimeInv, RuntimeTypes, PoolsAreTheirs, Late, HeldWhileUp,
          OnePool, Early
  <2>1. ASSUME NEW r \in Shopper, AskShopping(r) PROVE RuntimeInv'
    <3>1. PICK code \in EntryCodes \cup {"scope"} : shop' = [shop EXCEPT ![r] = code]
      BY <2>1, EntryIsCode DEF AskShopping, ShopGoto
    <3>2. shop[r] = "idle" /\ UNCHANGED <<uses, pools, closing, raced>>
      BY <2>1 DEF AskShopping
    <3> QED
      BY <3>1, <3>2 DEF ShopStates, EntryCodes, pools
  <2>2. ASSUME NEW r \in Shopper, HangUp(r) PROVE RuntimeInv'
    BY <2>2 DEF HangUp, pools
  <2>3. CASE StopListening
    BY <2>3 DEF StopListening, pools
  <2>4. CASE CloseRuntime
    <3>1. /\ closing = "waiting" /\ closing' = "closed"
          /\ cachedCheckpointer' = NoPool /\ cachedShoppingConversation' = NoPool
          /\ open' = open \ {cachedCheckpointer}
          /\ UNCHANGED <<shop, uses>>
      BY <2>4 DEF CloseRuntime
    <3>2. ASSUME raced' # TRUE PROVE raced # TRUE /\ Preparing = {}
      BY <2>4, <3>2 DEF CloseRuntime
    <3>3. ASSUME raced' # TRUE PROVE open' = {}
      BY <3>1, <3>2, <3>3 DEF Preparing
    <3>4. RuntimeTypes' /\ PoolsAreTheirs' /\ HeldWhileUp'
      BY <3>1
    <3>5. OnePool'
      BY <3>1, <3>3
    <3> QED
      BY <3>4, <3>5
  <2>5. CASE UNCHANGED runtimeVars
    BY <2>5 DEF runtimeVars, pools
  <2> QED
    BY <2>1, <2>2, <2>3, <2>4, <2>5, ServingStep DEF RuntimeNext
<1>3. RuntimeInv => PoolsHeld
  BY DEF RuntimeInv, HeldWhileUp, OnePool, PoolsHeld
<1> QED
  BY <1>1, <1>2, <1>3, PTL


----------------------------------------------------------------------------
(* The ranking that is handed over *)

RankingStates == {"idle", "scope", "session", "results", "ranked", "persisted"} \cup EntryCodes

\* The session of a request that is past its first insert is stored, and no other
\* request of that session comes so far.  The rows of a session are of requests that
\* are past their second insert: none is there when a request has come to it.
SessionIsOnes ==
    /\ \A r \in Ranking : ranking[r] \in {"results", "persisted"} => Asked[r].session \in sessions
    /\ \A r, q \in Ranking :
        /\ ranking[r] \in {"results", "persisted"} /\ ranking[q] \in {"results", "persisted"}
        /\ Asked[r].session = Asked[q].session
        => r = q
    /\ \A stored \in results : stored.session \in sessions
    /\ \A r \in Ranking : ranking[r] = "results" => Stored(r) = {}

HandoffInv ==
    /\ ranking \in [Ranking -> RankingStates]
    /\ offers \in [Ranking -> {offers[r] : r \in Ranking}]
    /\ SessionIsOnes /\ StoredWhole

\* Rows name the request and its session.
LEMMA RowsOf ==
    ASSUME NEW r \in Ranking
    PROVE  \A row \in Rows(r) : row.session = Asked[r].session /\ row.by = r
BY DEF Rows

\* A step that changes no table, and brings no request to one, keeps the invariant.
LEMMA NothingStored ==
    ASSUME HandoffInv, NEW r \in Ranking, NEW next \in RankingStates \ {"results", "persisted"},
           ranking' = [ranking EXCEPT ![r] = next],
           \A q \in Ranking \ {r} : offers'[q] = offers[q],
           offers' \in [Ranking -> {offers'[q] : q \in Ranking}],
           sessions \subseteq sessions', UNCHANGED <<results, expired>>
    PROVE  HandoffInv'
<1> USE DEF HandoffInv, SessionIsOnes, Stored
<1>1. /\ ranking' \in [Ranking -> RankingStates]
      /\ SessionIsOnes'
  OBVIOUS
<1>2. \A q \in Ranking : ranking'[q] = "persisted" =>
        q # r /\ ranking[q] = "persisted" /\ Rows(q)' = Rows(q)
  BY DEF Rows
<1>3. StoredWhole'
  BY <1>2 DEF StoredWhole
<1> QED
  BY <1>1, <1>3

LEMMA SessionStep ==
    ASSUME HandoffInv, NEW r \in Ranking, SaveSearchSession(r) PROVE HandoffInv'
<1>1. ranking[r] = "session" /\ UNCHANGED <<offers, results, expired>>
  BY DEF SaveSearchSession
<1>2. CASE RankingGoto(r, Unhandled)
  <2>1. ranking' = [ranking EXCEPT ![r] = "UNHANDLED_INTERNAL_ERROR"]
    BY <1>2, ThrownCodes DEF RankingGoto
  <2>2. sessions \subseteq sessions'
    BY DEF SaveSearchSession
  <2>3. "UNHANDLED_INTERNAL_ERROR" \in RankingStates \ {"results", "persisted"}
    BY DEF RankingStates, EntryCodes
  <2>4. offers' \in [Ranking -> {offers'[q] : q \in Ranking}]
    BY <1>1 DEF HandoffInv
  <2> QED
    BY <1>1, <2>1, <2>2, <2>3, <2>4, NothingStored
<1>3. CASE /\ Asked[r].session \notin sessions
           /\ sessions' = sessions \cup {Asked[r].session}
           /\ RankingGoto(r, "results")
  <2>1. ranking' = [ranking EXCEPT ![r] = "results"]
    BY <1>3 DEF RankingGoto
  <2>2. ranking' \in [Ranking -> RankingStates]
    BY <2>1 DEF HandoffInv, RankingStates
  <2>3. SessionIsOnes'
    <3> USE DEF HandoffInv, SessionIsOnes, Stored
    <3>1. \A q \in Ranking : ranking[q] \in {"results", "persisted"} =>
            Asked[q].session # Asked[r].session
      BY <1>3
    <3>2. Stored(r)' = {}
      BY <1>1, <1>3
    <3> QED
      BY <1>1, <1>3, <2>1, <3>1, <3>2
  <2>4. StoredWhole'
    BY <1>1, <1>3, <2>1 DEF HandoffInv, StoredWhole, Stored, Rows
  <2> QED
    BY <1>1, <2>2, <2>3, <2>4 DEF HandoffInv
<1> QED
  BY <1>2, <1>3 DEF SaveSearchSession

LEMMA ResultsStep ==
    ASSUME HandoffInv, NEW r \in Ranking, SaveSearchResults(r) PROVE HandoffInv'
<1>1. ranking[r] = "results" /\ UNCHANGED <<offers, sessions, expired>>
  BY DEF SaveSearchResults
<1>2. /\ Asked[r].session \in sessions /\ Stored(r) = {}
      /\ \A q \in Ranking \ {r} : ranking[q] \in {"results", "persisted"} =>
            Asked[q].session # Asked[r].session
  BY <1>1 DEF HandoffInv, SessionIsOnes
<1>3. results' = results \/ results' = results \cup Rows(r)
  BY DEF SaveSearchResults
<1>4. PICK next \in {"persisted", "UNHANDLED_INTERNAL_ERROR"} :
        /\ ranking' = [ranking EXCEPT ![r] = next]
        /\ next = "persisted" => results' = results \cup Rows(r)
  BY ThrownCodes DEF SaveSearchResults, RankingGoto
<1>5. \A q \in Ranking : Rows(q)' = Rows(q)
  BY <1>1 DEF Rows
<1>6. \A q \in Ranking \ {r} :
        Asked[q].session # Asked[r].session => Stored(q)' = Stored(q)
  BY <1>3, RowsOf DEF Stored
<1>7. ranking' \in [Ranking -> RankingStates]
  BY <1>4 DEF HandoffInv, RankingStates, EntryCodes
<1>8. SessionIsOnes'
  <2>1. \A stored \in results' : stored.session \in sessions'
    BY <1>1, <1>2, <1>3, RowsOf DEF HandoffInv, SessionIsOnes
  <2>2. \A q \in Ranking : ranking'[q] = "results" => Stored(q)' = {}
    BY <1>2, <1>4, <1>6 DEF HandoffInv, SessionIsOnes
  <2> QED
    BY <1>1, <1>2, <1>4, <2>1, <2>2 DEF HandoffInv, SessionIsOnes
<1>9. StoredWhole'
  <2>1. ASSUME next = "persisted" PROVE Stored(r)' = Rows(r)
    BY <1>2, <1>4, <2>1, RowsOf DEF Stored
  <2>2. \A q \in Ranking \ {r} : ranking'[q] = "persisted" =>
            Asked[q].session \in sessions' /\ Stored(q)' = Stored(q)
    BY <1>1, <1>2, <1>4, <1>6 DEF HandoffInv, SessionIsOnes
  <2> QED
    BY <1>1, <1>2, <1>4, <1>5, <2>1, <2>2 DEF HandoffInv, StoredWhole
<1> QED
  BY <1>1, <1>7, <1>8, <1>9 DEF HandoffInv

\* What expires, expires for good; what is purged is all of a request's rows.
LEMMA PurgeStep ==
    ASSUME HandoffInv, PurgeExpired PROVE HandoffInv'
<1>1. /\ results' = {stored \in results : stored.by \notin expired}
      /\ UNCHANGED <<ranking, offers, sessions, expired>>
  BY DEF PurgeExpired
<1>2. \A r \in Ranking : Rows(r)' = Rows(r)
  BY <1>1 DEF Rows
<1>3. \A r \in Ranking : Stored(r)' = {stored \in Stored(r) : stored.by \notin expired}
  BY <1>1 DEF Stored
<1>4. SessionIsOnes'
  BY <1>1, <1>3 DEF HandoffInv, SessionIsOnes
<1>5. StoredWhole'
  <2> SUFFICES ASSUME NEW r \in Ranking, ranking[r] = "persisted"
               PROVE  Stored(r)' = Rows(r) \/ (r \in expired /\ Stored(r)' = {})
    BY <1>1, <1>2 DEF HandoffInv, StoredWhole
  <2>1. CASE Stored(r) = Rows(r)
    <3>1. \A stored \in Stored(r) : stored.by = r
      BY <2>1, RowsOf
    <3>2. CASE r \in expired
      BY <1>3, <3>1, <3>2
    <3>3. CASE r \notin expired
      <4>1. Stored(r)' = Stored(r)
        BY <1>3, <3>1, <3>3
      <4> QED
        BY <2>1, <4>1
    <3> QED
      BY <3>2, <3>3
  <2>2. CASE r \in expired /\ Stored(r) = {}
    BY <1>3, <2>2
  <2> QED
    BY <2>1, <2>2 DEF HandoffInv, StoredWhole
<1> QED
  BY <1>1, <1>4, <1>5 DEF HandoffInv

\* What is answered as persisted is stored, and is all that is stored of its session,
\* whatever inserts of other requests come between, fail or lose their answer.
THEOREM RankingsAreWhole == RankingInit /\ [][RankingNext]_rankingVars => []StoredWhole
<1>1. RankingInit => HandoffInv
  BY DEF RankingInit, HandoffInv, SessionIsOnes, StoredWhole, RankingStates, Stored
<1>2. HandoffInv /\ [RankingNext]_rankingVars => HandoffInv'
  <2> SUFFICES ASSUME HandoffInv, [RankingNext]_rankingVars PROVE HandoffInv'
    OBVIOUS
  <2>1. ASSUME NEW r \in Ranking, AskRanking(r) PROVE HandoffInv'
    <3>1. PICK next \in EntryCodes \cup {"scope"} : ranking' = [ranking EXCEPT ![r] = next]
      BY <2>1, EntryIsCode DEF AskRanking, RankingGoto
    <3>2. next \in RankingStates \ {"results", "persisted"}
      BY <3>1 DEF RankingStates, EntryCodes
    <3>3. ranking[r] = "idle" /\ UNCHANGED <<offers, sessions, results, expired>>
      BY <2>1 DEF AskRanking
    <3>4. offers' \in [Ranking -> {offers'[q] : q \in Ranking}]
      BY <3>3 DEF HandoffInv
    <3> QED
      BY <3>1, <3>2, <3>3, <3>4, NothingStored
  <2>2. ASSUME NEW r \in Ranking, NEW redis \in {"answers", "fails"}, Rank(r, redis)
        PROVE  HandoffInv'
    <3>1. PICK next \in EntryCodes \cup {"session", "ranked"} :
            ranking' = [ranking EXCEPT ![r] = next]
      BY <2>2, ScopeIsCode, RouteCodes DEF Rank, RankingGoto, EntryCodes
    <3>2. next \in RankingStates \ {"results", "persisted"}
      BY <3>1 DEF RankingStates, EntryCodes
    <3>3. ranking[r] = "scope" /\ UNCHANGED <<sessions, results, expired>>
      BY <2>2 DEF Rank
    <3>4. \E ranked : offers' = [offers EXCEPT ![r] = ranked]
      BY <2>2 DEF Rank, HandoffInv
    <3>5. /\ offers' \in [Ranking -> {offers'[q] : q \in Ranking}]
          /\ \A q \in Ranking \ {r} : offers'[q] = offers[q]
      BY <3>4 DEF HandoffInv
    <3> QED
      BY <3>1, <3>2, <3>3, <3>5, NothingStored
  <2>3. ASSUME NEW r \in Ranking, Expire(r) PROVE HandoffInv'
    BY <2>3 DEF Expire, HandoffInv, SessionIsOnes, StoredWhole, Stored, Rows
  <2>4. CASE UNCHANGED rankingVars
    BY <2>4 DEF rankingVars, HandoffInv, SessionIsOnes, StoredWhole, Stored, Rows
  <2> QED
    BY <2>1, <2>2, <2>3, <2>4, SessionStep, ResultsStep, PurgeStep DEF RankingNext
<1>3. HandoffInv => StoredWhole
  BY DEF HandoffInv
<1> QED
  BY <1>1, <1>2, <1>3, PTL


----------------------------------------------------------------------------
(* The ranking of products *)

\* A set of naturals has a least one.
LEMMA LeastExists ==
    ASSUME NEW T \in SUBSET Nat, T # {}
    PROVE  \E least \in T : \A m \in T : least <= m
<1> DEFINE Q == {n \in Nat : \A U \in SUBSET Nat :
                    (\E m \in U : m <= n) => \E least \in U : \A m \in U : least <= m}
<1>1. 0 \in Q
  OBVIOUS
<1>2. ASSUME NEW n \in Nat, n \in Q PROVE n + 1 \in Q
  <2> SUFFICES ASSUME NEW U \in SUBSET Nat, NEW k \in U, k <= n + 1
               PROVE  \E least \in U : \A m \in U : least <= m
    OBVIOUS
  <2>1. CASE \E m \in U : m <= n
    BY <1>2, <2>1
  <2>2. CASE \A m \in U : ~(m <= n)
    BY <2>2
  <2> QED
    BY <2>1, <2>2
<1>3. Nat \subseteq Q
  <2> HIDE DEF Q
  <2> QED
    BY <1>1, <1>2, CountingInduction
<1>4. PICK n \in T : n \in Nat
  OBVIOUS
<1>5. n \in Q
  BY <1>3, <1>4
<1> QED
  BY <1>4, <1>5

\* The rounded part that a price is of another falls as the price grows.
LEMMA PriceTermFalls ==
    \A a \in Nat : \A p, q \in Nat \ {0} :
        /\ RoundDiv(a, p) \in Nat
        /\ p <= q => RoundDiv(a, q) <= RoundDiv(a, p)
<1> SUFFICES ASSUME NEW a \in Nat, NEW p \in Nat \ {0}, NEW q \in Nat \ {0}
             PROVE  RoundDiv(a, p) \in Nat /\ (p <= q => RoundDiv(a, q) <= RoundDiv(a, p))
  OBVIOUS
<1> DEFINE k == RoundDiv(a, q)
           m == RoundDiv(a, p)
<1>1. /\ k \in Nat /\ 2 * (q * k) <= 2 * a + q /\ 2 * a + q < 2 * (q * (k + 1))
      /\ m \in Nat /\ 2 * (p * m) <= 2 * a + p /\ 2 * a + p < 2 * (p * (m + 1))
  BY Z3 DEF RoundDiv
<1> HIDE DEF k, m
<1>2. ASSUME p <= q, m < k PROVE FALSE
  <2>1. p * (m + 1) <= p * k
    BY <1>1, <1>2, Z3
  <2>2. 2 * a + p < 2 * (p * k)
    BY <1>1, <2>1, Z3
  <2>3. p * (2 * k - 1) <= q * (2 * k - 1)
    BY <1>1, <1>2, Z3
  <2>4. 2 * (p * k) - p <= 2 * (q * k) - q
    BY <1>1, <2>3, Z3
  <2> QED
    BY <1>1, <2>2, <2>4, Z3
<1> QED
  BY <1>1, <1>2 DEF k, m

IsProduct(p) ==
    /\ p.price \in Nat \ {0} /\ p.score \in (0..100) \cup {NoScore} /\ p.inStock \in BOOLEAN

\* A product that is at least as good in every respect scores no less.
LEMMA BetterScores ==
    ASSUME NEW p, IsProduct(p), NEW q, IsProduct(q), NEW minPrice \in Nat
    PROVE  /\ CompositeScore(p, minPrice) \in Nat /\ CompositeScore(q, minPrice) \in Nat
           /\ Dominates(p, q) => CompositeScore(q, minPrice) <= CompositeScore(p, minPrice)
<1> DEFINE relevance(x) == IF x.score = NoScore THEN 50 ELSE x.score
           price(x) == RoundDiv(3000 * minPrice, x.price)
           stock(x) == IF x.inStock THEN 1000 ELSE 0
<1>1. relevance(p) \in Nat /\ relevance(q) \in Nat /\ stock(p) \in Nat /\ stock(q) \in Nat
  BY DEF IsProduct
<1>2. price(p) \in Nat /\ price(q) \in Nat /\ (p.price <= q.price => price(q) <= price(p))
  <2>1. 3000 * minPrice \in Nat /\ p.price \in Nat \ {0} /\ q.price \in Nat \ {0}
    BY DEF IsProduct
  <2> QED
    BY <2>1, PriceTermFalls
<1>3. Dominates(p, q) =>
        /\ relevance(q) <= relevance(p) /\ stock(q) <= stock(p) /\ p.price <= q.price
  BY DEF Dominates, IsProduct
<1>4. \A x : CompositeScore(x, minPrice) =
        LET total == 60 * relevance(x) + price(x) + stock(x)
        IN  IF total < One THEN total ELSE One
  BY DEF CompositeScore
<1> HIDE DEF relevance, price, stock
<1> QED
  BY <1>1, <1>2, <1>3, <1>4 DEF One

\* The first products are of listings of their own: no two are the same.
LEMMA FirstsDiffer ==
    ASSUME NEW products, Len(products) \in Nat, NEW i \in Firsts(products),
           NEW j \in Firsts(products), products[i] = products[j]
    PROVE  i = j
BY DEF Firsts

\* The order of the scores, ties by place, is an order.
LEMMA BestFirstIsStrict ==
    ASSUME NEW N \in Nat, NEW scored, DOMAIN scored = 1..N, \A n \in 1..N : scored[n].score \in Nat
    PROVE  StrictOrder(1..N, BestFirst(scored))
BY DEF StrictOrder, BestFirst

\* What RankCandidates returns is a ranking.
LEMMA RankingRanks ==
    ASSUME NEW products, IsProducts(products), NEW asked \in 1..MaxTopK
    PROVE  IsRanking(RankCandidates(products, asked), products, asked)
<1> DEFINE D == ToSet(products)
           F == Firsts(products)
           N == Cardinality(F)
           c == NormalizeAndDeduplicate(products)
           least == MinPrice(c)
           scored == [n \in 1..N |-> ScoreProduct(c[n], least)]
           order == Sorted(1..N, BestFirst(scored))
           ranked == [n \in 1..N |-> scored[order[n]]]
           best == FirstOf(ranked, asked)
<1>1. products \in Seq(D) /\ Len(products) \in Nat /\ F \in SUBSET (1..Len(products))
  BY LenProperties DEF IsProducts, Firsts
<1>2. /\ N \in Nat /\ c \in Seq(D) /\ Len(c) = N
      /\ \E places \in [1..N -> F] :
            /\ \A n \in 1..N : c[n] = products[places[n]]
            /\ \A n, m \in 1..N : n < m <=> places[n] < places[m]
            /\ \A k \in F : \E n \in 1..N : places[n] = k
  <2>1. c = Kept(products, F)
    BY DEF NormalizeAndDeduplicate
  <2> HIDE DEF D, F, c
  <2> QED
    BY <1>1, <2>1, KeptIsPart
<1>3. RankCandidates(products, asked) = best
  <2>1. Len(c) = N
    BY <1>2
  <2>2. asked \in Nat /\ ~(asked < 1) /\ ~(asked > MaxTopK)
    BY DEF MaxTopK
  <2> QED
    BY <2>1, <2>2 DEF RankCandidates
<1>4. \A n \in 1..N : c[n] \in D /\ IsProduct(c[n])
  BY <1>2, ElementOfSeq DEF IsProducts, IsProduct
<1>5. N # 0 => least \in Nat
  <2> DEFINE prices == {p.price : p \in ToSet(c)}
  <2>1. ToSet(c) = {c[n] : n \in 1..N}
    BY <1>2, LenProperties DEF ToSet
  <2>2. prices \in SUBSET Nat
    BY <1>4, <2>1 DEF IsProduct
  <2>3. ASSUME N # 0 PROVE \E price \in prices : \A p \in ToSet(c) : price <= p.price
    <3>1. 1 \in 1..N
      BY <1>2, <2>3
    <3>2. prices # {}
      BY <2>1, <3>1
    <3>3. PICK price \in prices : \A m \in prices : price <= m
      <4> HIDE DEF prices
      <4> QED
        BY <2>2, <3>2, LeastExists
    <3> QED
      BY <3>3
  <2> QED
    BY <2>2, <2>3 DEF MinPrice
<1>6. \A n \in 1..N : /\ scored[n].product = c[n]
                      /\ scored[n].score = CompositeScore(c[n], least)
  BY DEF ScoreProduct
<1>7. \A n, m \in 1..N :
        /\ scored[n].score \in Nat
        /\ Dominates(c[n], c[m]) => scored[m].score <= scored[n].score
  <2> SUFFICES ASSUME NEW n \in 1..N, NEW m \in 1..N
               PROVE  /\ scored[n].score \in Nat
                      /\ Dominates(c[n], c[m]) => scored[m].score <= scored[n].score
    OBVIOUS
  <2>1. least \in Nat /\ IsProduct(c[n]) /\ IsProduct(c[m])
    BY <1>2, <1>4, <1>5
  <2> HIDE DEF c, least, N, scored
  <2> QED
    BY <1>6, <2>1, BetterScores
<1>8. PICK places \in [1..N -> F] :
        /\ \A n \in 1..N : c[n] = products[places[n]]
        /\ \A n, m \in 1..N : n < m <=> places[n] < places[m]
        /\ \A k \in F : \E n \in 1..N : places[n] = k
  BY <1>2
<1>9. DOMAIN scored = 1..N
  OBVIOUS
<1> HIDE DEF D, F, N, c, least, scored
<1>10. /\ order \in [1..N -> 1..N]
       /\ \A x \in 1..N : \E n \in 1..N : order[n] = x
       /\ \A n, m \in 1..N : n < m <=> <<order[n], order[m]>> \in BestFirst(scored)
       /\ \A n, m \in 1..N : order[n] = order[m] => n = m
  <2>1. IsFiniteSet(1..N) /\ Cardinality(1..N) = N
    BY <1>2, FS_Interval
  <2>2. StrictOrder(1..N, BestFirst(scored))
    BY <1>2, <1>7, <1>9, BestFirstIsStrict
  <2> QED
    BY <2>1, <2>2, SortedIsSorted
<1> HIDE DEF order
<1>11. /\ Len(best) = (IF N < asked THEN N ELSE asked) /\ Len(best) \in 0..N
       /\ \A n \in 1..Len(best) : best[n] = scored[order[n]]
  <2>1. asked \in Nat
    OBVIOUS
  <2> DEFINE T == {scored[m] : m \in 1..N}
  <2>2. \A n \in 1..N : scored[order[n]] \in T
    BY <1>10
  <2> HIDE DEF T
  <2>3. ranked \in Seq(T) /\ Len(ranked) = N
    BY <1>2, <2>2, IsASeq
  <2>4. \A n \in 1..N : ranked[n] = scored[order[n]]
    OBVIOUS
  <2> HIDE DEF ranked
  <2>5. /\ Len(best) \in 0..asked /\ Len(best) <= Len(ranked)
        /\ \A k \in 1..Len(best) : best[k] = ranked[k]
        /\ Len(best) = Len(ranked) \/ Len(best) = asked
    BY <2>1, <2>3, FirstOfIsPrefix
  <2> HIDE DEF best
  <2> QED
    BY <1>2, <2>1, <2>3, <2>4, <2>5
<1> HIDE DEF best
<1>12. \A n \in 1..Len(best) :
        /\ order[n] \in 1..N /\ places[order[n]] \in F
        /\ best[n].product = c[order[n]] /\ best[n].product = products[places[order[n]]]
  <2> SUFFICES ASSUME NEW n \in 1..Len(best)
               PROVE  /\ order[n] \in 1..N /\ places[order[n]] \in F
                      /\ best[n].product = c[order[n]]
                      /\ best[n].product = products[places[order[n]]]
    OBVIOUS
  <2>1. n \in 1..N
    BY <1>2, <1>11
  <2>2. order[n] \in 1..N
    BY <1>10, <2>1
  <2>3. best[n] = scored[order[n]]
    BY <1>11
  <2>4. scored[order[n]].product = c[order[n]] /\ c[order[n]] = products[places[order[n]]]
    BY <1>6, <1>8, <2>2
  <2>5. places[order[n]] \in F
    BY <1>8, <2>2
  <2> QED
    BY <2>2, <2>3, <2>4, <2>5
<1>13. \A n \in 1..Len(best) : PlaceOf(best[n], products) = places[order[n]]
  BY <1>1, <1>12, FirstsDiffer DEF PlaceOf, F
<1>14. \A m, n \in 1..Len(best) : m # n =>
        PlaceOf(best[m], products) # PlaceOf(best[n], products)
  <2> SUFFICES ASSUME NEW m \in 1..Len(best), NEW n \in 1..Len(best),
                      PlaceOf(best[m], products) = PlaceOf(best[n], products)
               PROVE  m = n
    OBVIOUS
  <2>1. m \in 1..N /\ n \in 1..N
    BY <1>2, <1>11
  <2>2. places[order[m]] = places[order[n]] /\ places[order[m]] \in Int
    BY <1>1, <1>12, <1>13
  <2>3. ~(order[m] < order[n]) /\ ~(order[n] < order[m])
    BY <1>8, <1>12, <2>2
  <2>4. order[m] \in Int /\ order[n] \in Int
    <3>1. \A k \in 1..N : k \in Int
      OBVIOUS
    <3>2. order[m] \in 1..N /\ order[n] \in 1..N
      BY <1>10, <2>1
    <3> QED
      BY <3>1, <3>2
  <2>5. order[m] = order[n]
    BY <2>3, <2>4
  <2> QED
    BY <1>10, <2>1, <2>5
<1>15. ASSUME NEW n \in 1..Len(best), NEW i \in F, i < PlaceOf(best[n], products),
              Dominates(products[i], best[n].product)
       PROVE  \E m \in 1..(n - 1) : PlaceOf(best[m], products) = i
  <2>1. PICK a \in 1..N : places[a] = i
    BY <1>8
  <2>2. a < order[n] /\ c[a] = products[i]
    BY <1>8, <1>12, <1>13, <1>15, <2>1
  <2>3. scored[order[n]].score <= scored[a].score
    BY <1>7, <1>12, <1>15, <2>2
  <2>4. <<a, order[n]>> \in BestFirst(scored)
    BY <1>7, <1>9, <1>12, <2>2, <2>3 DEF BestFirst
  <2>5. PICK m \in 1..N : order[m] = a
    BY <1>10
  <2>6. n \in 1..N
    BY <1>2, <1>11
  <2>7. m < n
    BY <1>10, <2>4, <2>5, <2>6
  <2>8. m \in 1..(n - 1) /\ m \in 1..Len(best)
    BY <1>2, <1>11, <2>6, <2>7
  <2> QED
    BY <1>13, <2>1, <2>5, <2>8
<1> QED
  <2>1. \A n \in 1..Len(best) : best[n].product \in {products[i] : i \in Firsts(products)}
    BY <1>12 DEF F
  <2> QED
    BY <1>3, <1>11, <1>14, <1>15, <2>1 DEF IsRanking, F, N

\* Past the ranking a request has one of what it brought, and nothing changes either.
RankedInv ==
    /\ ranking \in [Ranking -> RankingStates]
    /\ brought \in [Ranking -> Candidates \cup {<<>>}]
    /\ offers \in [Ranking -> {offers[r] : r \in Ranking}]
    /\ \A r \in Ranking : ranking[r] = "scope" => brought[r] \in Candidates
    /\ \A r \in Ranking : ranking[r] \in {"session", "results", "ranked", "persisted"} =>
        IsRanking(offers[r], brought[r], Asked[r].topK)

\* A step that leaves the ranking alone comes past it only from there.
LEMMA HandoverKeepsRanking ==
    ASSUME RankedInv, NEW r \in Ranking, UNCHANGED <<brought, offers>>,
           NEW next \in RankingStates \ {"scope"}, ranking' = [ranking EXCEPT ![r] = next],
           next \in EntryCodes \/ ranking[r] \in {"session", "results"}
    PROVE  RankedInv'
<1>1. ranking' \in [Ranking -> RankingStates]
  BY DEF RankedInv
<1>2. next \in EntryCodes => next \notin {"session", "results", "ranked", "persisted"}
  BY DEF EntryCodes
<1> QED
  BY <1>1, <1>2 DEF RankedInv

\* Whatever is answered or persisted is a ranking of the products that the request itself
\* brought: of each listing the first, as many as were asked for, and none before another
\* that was listed earlier and is at least as good in every respect.
THEOREM AnswersAreRanked == RankingInit /\ [][RankingNext]_rankingVars => []OffersAreRanked
<1>1. RankingInit => RankedInv
  BY DEF RankingInit, RankedInv, RankingStates
<1>2. RankedInv /\ [RankingNext]_rankingVars => RankedInv'
  <2> SUFFICES ASSUME RankedInv, [RankingNext]_rankingVars PROVE RankedInv'
    OBVIOUS
  <2>1. ASSUME NEW r \in Ranking, AskRanking(r) PROVE RankedInv'
    <3>1. PICK next \in EntryCodes \cup {"scope"} : ranking' = [ranking EXCEPT ![r] = next]
      BY <2>1, EntryIsCode DEF AskRanking, RankingGoto
    <3>2. PICK products \in Candidates : brought' = [brought EXCEPT ![r] = products]
      BY <2>1 DEF AskRanking
    <3>3. offers' = offers
      BY <2>1 DEF AskRanking
    <3> QED
      BY <3>1, <3>2, <3>3 DEF RankedInv, RankingStates, EntryCodes
  <2>2. ASSUME NEW r \in Ranking, NEW redis \in {"answers", "fails"}, Rank(r, redis)
        PROVE  RankedInv'
    <3>1. ranking[r] = "scope" /\ brought' = brought /\ brought[r] \in Candidates
      BY <2>2 DEF Rank, RankedInv
    <3>2. CASE /\ offers' = [offers EXCEPT ![r] = RankCandidates(brought[r], Asked[r].topK)]
               /\ RankingGoto(r, IF HasRepository THEN "session" ELSE "ranked")
      <4>1. IsRanking(RankCandidates(brought[r], Asked[r].topK), brought[r], Asked[r].topK)
        BY <3>1, RequestAssumption, RankingRanks
      <4>2. PICK next \in {"session", "ranked"} : ranking' = [ranking EXCEPT ![r] = next]
        BY <3>2 DEF RankingGoto
      <4>3. /\ ranking' \in [Ranking -> RankingStates]
            /\ offers' \in [Ranking -> {offers'[q] : q \in Ranking}]
        BY <3>2, <4>2 DEF RankedInv, RankingStates
      <4> QED
        BY <3>1, <3>2, <4>1, <4>2, <4>3 DEF RankedInv
    <3>3. ASSUME NEW code \in EntryCodes, RankingGoto(r, code), offers' = offers PROVE RankedInv'
      <4>1. code \in RankingStates \ {"scope"}
        BY DEF RankingStates, EntryCodes
      <4> QED
        BY <3>1, <3>3, <4>1, HandoverKeepsRanking DEF RankingGoto
    <3>4. Invalid \in EntryCodes
      BY RouteCodes DEF EntryCodes
    <3> QED
      BY <2>2, <3>2, <3>3, <3>4, ScopeIsCode DEF Rank
  <2>3. ASSUME NEW r \in Ranking, SaveSearchSession(r) \/ SaveSearchResults(r) PROVE RankedInv'
    <3>1. /\ ranking[r] \in {"session", "results"} /\ UNCHANGED <<brought, offers>>
          /\ \E next \in {"results", "persisted", "UNHANDLED_INTERNAL_ERROR"} :
                ranking' = [ranking EXCEPT ![r] = next]
      BY <2>3, ThrownCodes DEF SaveSearchSession, SaveSearchResults, RankingGoto
    <3> QED
      BY <3>1, HandoverKeepsRanking DEF RankingStates, EntryCodes
  <2>4. ASSUME NEW r \in Ranking, Expire(r) PROVE RankedInv'
    BY <2>4 DEF Expire, RankedInv
  <2>5. CASE PurgeExpired
    BY <2>5 DEF PurgeExpired, RankedInv
  <2>6. CASE UNCHANGED rankingVars
    BY <2>6 DEF rankingVars, RankedInv
  <2> QED
    BY <2>1, <2>2, <2>3, <2>4, <2>5, <2>6 DEF RankingNext
<1>3. RankedInv => OffersAreRanked
  BY DEF RankedInv, OffersAreRanked
<1> QED
  BY <1>1, <1>2, <1>3, PTL

----------------------------------------------------------------------------
(* The chat *)

ReplyCodes == EntryCodes \cup {"done", "RATE_LIMITED", "AI_SERVICE_UNAVAILABLE"}
UnderWay == {"limit", "scope", "fired"}

ChatTypes ==
    /\ chat \in [Chatter -> {"idle"} \cup UnderWay \cup ReplyCodes]
    /\ left \in [Chatter -> 0..timeout] /\ wait \in [Chatter -> Nat]
    /\ told \in [Chatter -> {"nothing", "window", "breaker"}]
    /\ breaker \in {"closed", "open", "halfOpen"}
    /\ reset \in 0..resetTimeout /\ window \in 0..timeWindow

\* A client waits at least as long as what refused it is in force.
WaitsLongEnough ==
    \A c \in Chatter :
        /\ chat[c] \in UnderWay => wait[c] = 0
        /\ told[c] = "window" => window > 0 /\ wait[c] >= window
        /\ told[c] = "breaker" /\ breaker = "open" => wait[c] >= reset

\* Calls that were under way when the breaker opened are over before it is half-open.
CallsEndFirst ==
    \A c \in Chatter : chat[c] = "fired" /\ breaker = "open" => left[c] + 2 <= reset

TimesInv == ChatTypes /\ WaitsLongEnough /\ CallsEndFirst

\* An open breaker lets no call through; a half-open one has its trial before it or
\* under way, and then no other.
Trial ==
    /\ pendingClose \in BOOLEAN
    /\ breaker = "open" => pendingClose = FALSE
    /\ breaker = "halfOpen" /\ pendingClose = TRUE => \A c \in Chatter : chat[c] # "fired"
    /\ breaker = "halfOpen" /\ pendingClose = FALSE =>
        \E c \in Chatter : chat[c] = "fired" /\ \A d \in Chatter : chat[d] = "fired" => d = c

\* The wait that an answer asks for.
DelayOf(code) ==
    CASE code = "RATE_LIMITED" -> timeWindow
      [] code = "AI_SERVICE_UNAVAILABLE" -> resetTimeout
      [] OTHER -> 0

LEMMA ReplyIs ==
    ASSUME NEW c \in Chatter, NEW code \in ReplyCodes, Reply(c, code)
    PROVE  /\ chat' = [chat EXCEPT ![c] = code]
           /\ wait' = [wait EXCEPT ![c] = DelayOf(code)]
           /\ UNCHANGED left
           /\ code \notin UnderWay \cup {"idle"}
<1>1. ASSUME code # "done" PROVE RetryAfter(code) \div Unit = DelayOf(code)
  <2>1. CASE code = "RATE_LIMITED"
    BY <2>1, Delays DEF DelayOf, Unit, timeWindow
  <2>2. CASE code = "AI_SERVICE_UNAVAILABLE"
    BY <2>2, Delays DEF DelayOf, Unit, resetTimeout
  <2>3. CASE code \in EntryCodes
    <3>1. RetryAfter(code) = 0
      BY <2>3, Delays DEF EntryCodes
    <3> QED
      BY <2>3, <3>1 DEF DelayOf, Unit, EntryCodes
  <2> QED
    BY <1>1, <2>1, <2>2, <2>3 DEF ReplyCodes
<1>2. DelayOf("done") = 0
  BY DEF DelayOf
<1> QED
  BY <1>1, <1>2 DEF Reply, ReplyCodes, EntryCodes, UnderWay

LEMMA DelaysAre ==
    /\ DelayOf("RATE_LIMITED") = timeWindow
    /\ DelayOf("AI_SERVICE_UNAVAILABLE") = resetTimeout
    /\ \A code \in ReplyCodes : DelayOf(code) \in {0, resetTimeout, timeWindow}
BY DEF DelayOf

\* A client that is answered while its call was under way waits as the answer says.
LEMMA ReplyTypes ==
    ASSUME TimesInv, NEW c \in Chatter, NEW code \in ReplyCodes, Reply(c, code)
    PROVE  /\ chat' \in [Chatter -> {"idle"} \cup UnderWay \cup ReplyCodes]
           /\ left' = left /\ wait' \in [Chatter -> Nat]
           /\ chat'[c] = code /\ wait'[c] = DelayOf(code) /\ code \notin UnderWay
           /\ \A d \in Chatter \ {c} : chat'[d] = chat[d] /\ wait'[d] = wait[d]
BY ReplyIs, DelaysAre DEF TimesInv, ChatTypes, resetTimeout, timeWindow

LEMMA LimitStep ==
    ASSUME TimesInv, NEW c \in Chatter, NEW redis \in {"answers", "fails"}, Limit(c, redis)
    PROVE  TimesInv'
<1> USE DEF TimesInv, ChatTypes, WaitsLongEnough, CallsEndFirst, timeout, resetTimeout, timeWindow
<1>1. chat[c] = "limit" /\ wait[c] = 0 /\ told[c] # "window" /\ UNCHANGED <<breaker, reset>>
  BY DEF Limit, UnderWay, circuit
<1>2. CASE Reply(c, Unhandled) /\ UNCHANGED <<told, window>>
  <2>1. "UNHANDLED_INTERNAL_ERROR" \in ReplyCodes /\ DelayOf("UNHANDLED_INTERNAL_ERROR") = 0
    BY DEF ReplyCodes, EntryCodes, DelayOf
  <2>2. Reply(c, "UNHANDLED_INTERNAL_ERROR")
    BY <1>2, ThrownCodes
  <2> QED
    BY <1>1, <1>2, <2>1, <2>2, ReplyTypes DEF UnderWay
<1>3. CASE window' = (IF window = 0 THEN timeWindow ELSE window)
  <2>1. window' \in 1..timeWindow
    BY <1>3
  <2>2. \A d \in Chatter : told[d] = "window" => window' = window
    BY <1>3
  <2>3. CASE Reply(c, Limited) /\ told' = [told EXCEPT ![c] = "window"]
    <3>1. Reply(c, "RATE_LIMITED") /\ "RATE_LIMITED" \in ReplyCodes
      BY <2>3, RouteCodes DEF ReplyCodes
    <3> QED
      BY <1>1, <2>1, <2>2, <2>3, <3>1, ReplyTypes, DelaysAre DEF UnderWay
  <2>4. CASE UNCHANGED told /\ ChatGoto(c, "scope")
    BY <1>1, <2>1, <2>2, <2>4 DEF ChatGoto, timers, UnderWay
  <2>5. CASE UNCHANGED told /\ Entry(ChatCall[c]) # Accepted /\ Reply(c, Entry(ChatCall[c]))
    <3>1. PICK code \in EntryCodes : Reply(c, code)
      BY <2>5, EntryIsCode
    <3>2. code \in ReplyCodes /\ DelayOf(code) = 0
      BY DEF ReplyCodes, EntryCodes, DelayOf
    <3> QED
      BY <1>1, <2>1, <2>2, <2>5, <3>1, <3>2, ReplyTypes DEF UnderWay
  <2> QED
    BY <1>2, <1>3, <2>3, <2>4, <2>5 DEF Limit, limits
<1> QED
  BY <1>2, <1>3 DEF Limit, limits

LEMMA FireStep ==
    ASSUME TimesInv, NEW c \in Chatter, NEW redis \in {"answers", "fails"},
           pendingClose = TRUE => breaker # "open", Fire(c, redis)
    PROVE  TimesInv'
<1> USE DEF TimesInv, ChatTypes, WaitsLongEnough, CallsEndFirst, timeout, resetTimeout, timeWindow
<1>1. /\ chat[c] = "scope" /\ wait[c] = 0 /\ told[c] # "window"
      /\ UNCHANGED <<breaker, reset, window>>
  BY DEF Fire, UnderWay, limits
<1>2. CASE /\ Scope(ChatCall[c], redis) # Accepted
           /\ Reply(c, Scope(ChatCall[c], redis)) /\ UNCHANGED told
  <2>1. PICK code \in EntryCodes : Reply(c, code)
    BY <1>2, ScopeIsCode
  <2>2. code \in ReplyCodes /\ DelayOf(code) = 0
    BY DEF ReplyCodes, EntryCodes, DelayOf
  <2> QED
    BY <1>1, <1>2, <2>1, <2>2, ReplyTypes DEF UnderWay
<1>3. CASE /\ Reply(c, Thrown("AIServiceUnavailableError"))
           /\ told' = [told EXCEPT ![c] = "breaker"]
  <2>1. Reply(c, "AI_SERVICE_UNAVAILABLE") /\ "AI_SERVICE_UNAVAILABLE" \in ReplyCodes
    BY <1>3, RouteCodes DEF ReplyCodes
  <2> QED
    BY <1>1, <1>3, <2>1, ReplyTypes, DelaysAre DEF UnderWay
<1>4. CASE /\ breaker # "open" /\ chat' = [chat EXCEPT ![c] = "fired"]
           /\ left' = [left EXCEPT ![c] = timeout] /\ UNCHANGED <<wait, told>>
  BY <1>1, <1>4 DEF UnderWay
<1> QED
  BY <1>2, <1>3, <1>4 DEF Fire

LEMMA FailsStep ==
    ASSUME TimesInv, NEW c \in Chatter, chat[c] = "fired", CallFails(c)
    PROVE  TimesInv'
<1> USE DEF TimesInv, ChatTypes, WaitsLongEnough, CallsEndFirst, timeout, resetTimeout, timeWindow
<1>1. wait[c] = 0 /\ told[c] # "window" /\ UNCHANGED window
  BY DEF CallFails, UnderWay, limits
<1>2. Reply(c, "AI_SERVICE_UNAVAILABLE") /\ "AI_SERVICE_UNAVAILABLE" \in ReplyCodes
  BY RouteCodes DEF CallFails, ReplyCodes
<1>3. CASE /\ breaker # "open" /\ breaker' = "open" /\ reset' = resetTimeout
           /\ told' = [Forget("breaker") EXCEPT ![c] = "breaker"]
  <2>1. /\ told' \in [Chatter -> {"nothing", "window", "breaker"}]
        /\ \A d \in Chatter \ {c} : told'[d] # "breaker" /\ (told'[d] = "window" => told[d] = "window")
        /\ told'[c] = "breaker"
    BY <1>3 DEF Forget
  <2> QED
    BY <1>1, <1>2, <1>3, <2>1, ReplyTypes, DelaysAre DEF UnderWay
<1>4. CASE /\ told' = [told EXCEPT ![c] = IF breaker = "open" THEN "breaker" ELSE "nothing"]
           /\ UNCHANGED <<breaker, reset>>
  BY <1>1, <1>2, <1>4, ReplyTypes, DelaysAre DEF UnderWay
<1> QED
  BY <1>3, <1>4 DEF CallFails, circuit

LEMMA TimesStep ==
    ASSUME TimesInv, pendingClose = TRUE => breaker # "open", [ChatNext]_chatVars
    PROVE  TimesInv'
<1>1. ASSUME NEW c \in Chatter, AskChat(c) PROVE TimesInv'
  BY <1>1 DEF AskChat, ChatGoto, timers, circuit, limits, TimesInv, ChatTypes, WaitsLongEnough,
              CallsEndFirst, UnderWay
<1>2. ASSUME NEW c \in Chatter, Chatting(c) PROVE TimesInv'
  BY <1>2, LimitStep, FireStep, FailsStep DEF Chatting, TimesOut
<1>3. ASSUME NEW c \in Chatter, NotExtracted(c) PROVE TimesInv'
  BY <1>3, FailsStep DEF NotExtracted
<1>4. ASSUME NEW c \in Chatter, Extracted(c) PROVE TimesInv'
  <2> USE DEF TimesInv, ChatTypes, WaitsLongEnough, CallsEndFirst
  <2>1. chat[c] = "fired" /\ wait[c] = 0 /\ told[c] # "window" /\ UNCHANGED <<reset, window>>
    BY <1>4 DEF Extracted, UnderWay, timeWindow, limits
  <2>2. Reply(c, "done") /\ "done" \in ReplyCodes /\ DelayOf("done") = 0
    BY <1>4 DEF Extracted, ReplyCodes, DelayOf
  <2>3. /\ breaker' = "open" => breaker = "open"
        /\ breaker' \in {"closed", "open", "halfOpen"}
    BY <1>4 DEF Extracted
  <2>4. /\ told' \in [Chatter -> {"nothing", "window", "breaker"}]
        /\ \A d \in Chatter : told'[d] # "nothing" => told'[d] = told[d]
    BY <1>4 DEF Extracted, Forget
  <2> QED
    BY <2>1, <2>2, <2>3, <2>4, ReplyTypes DEF UnderWay, resetTimeout
<1>5. CASE HalfOpen
  BY <1>5 DEF HalfOpen, timers, limits, TimesInv, ChatTypes, WaitsLongEnough, CallsEndFirst
<1>6. CASE PassTime
  <2> USE DEF TimesInv, ChatTypes, WaitsLongEnough, CallsEndFirst, timeout, resetTimeout, timeWindow
  <2>1. /\ \A n \in Nat : Less(n) \in Nat /\ Less(n) <= n /\ (n > 0 => Less(n) = n - 1)
        /\ Less(0) = 0
    BY DEF Less
  <2>2. /\ reset' = Less(reset) /\ window' = Less(window) /\ UNCHANGED <<chat, breaker>>
        /\ \A c \in Chatter : chat[c] = "fired" => left[c] # 0
        /\ breaker = "open" => reset # 0
    BY <1>6 DEF PassTime
  <2>3. /\ left' = [c \in Chatter |-> Less(left[c])] /\ wait' = [c \in Chatter |-> Less(wait[c])]
    BY <1>6 DEF PassTime
  <2>4. /\ told' \in [Chatter -> {"nothing", "window", "breaker"}]
        /\ \A c \in Chatter :
            /\ told'[c] = "window" => told[c] = "window" /\ window # 1
            /\ told'[c] = "breaker" => told[c] = "breaker"
    BY <1>6 DEF PassTime, Forget
  <2>5. ChatTypes'
    BY <2>1, <2>2, <2>3, <2>4
  <2>6. WaitsLongEnough'
    BY <2>1, <2>2, <2>3, <2>4
  <2>7. CallsEndFirst'
    BY <2>1, <2>2, <2>3
  <2> QED
    BY <2>5, <2>6, <2>7
<1>7. CASE UNCHANGED chatVars
  BY <1>7 DEF chatVars, timers, circuit, limits, TimesInv, ChatTypes, WaitsLongEnough,
              CallsEndFirst
<1> QED
  BY <1>1, <1>2, <1>3, <1>4, <1>5, <1>6, <1>7 DEF ChatNext

\* A request that is not under way is no call of the breaker, and its step makes it none.
LEMMA NoCallStep ==
    ASSUME Trial, TimesInv, NEW c \in Chatter, chat[c] # "fired",
           NEW next \in {"limit", "scope"} \cup ReplyCodes, chat' = [chat EXCEPT ![c] = next],
           UNCHANGED <<breaker, pendingClose>>
    PROVE  Trial'
<1>1. \A d \in Chatter : chat'[d] = "fired" <=> chat[d] = "fired"
  BY DEF TimesInv, ChatTypes, ReplyCodes, EntryCodes
<1> QED
  BY <1>1 DEF Trial

LEMMA FireTrial ==
    ASSUME Trial, TimesInv, NEW c \in Chatter, NEW redis \in {"answers", "fails"}, Fire(c, redis)
    PROVE  Trial'
<1>1. chat[c] = "scope" /\ UNCHANGED breaker
  BY DEF Fire
<1>2. CASE UNCHANGED pendingClose /\ \E code \in ReplyCodes : Reply(c, code)
  BY <1>1, <1>2, ReplyIs, NoCallStep
<1>3. CASE /\ pendingClose = TRUE \/ breaker = "closed"
           /\ chat' = [chat EXCEPT ![c] = "fired"] /\ pendingClose' = FALSE
  <2>1. breaker = "halfOpen" => \A d \in Chatter : chat[d] # "fired"
    BY <1>3 DEF Trial
  <2> QED
    BY <1>1, <1>3, <2>1 DEF Trial, TimesInv, ChatTypes
<1>4. /\ Scope(ChatCall[c], redis) # Accepted => Scope(ChatCall[c], redis) \in ReplyCodes
      /\ Thrown("AIServiceUnavailableError") \in ReplyCodes
  BY ScopeIsCode, RouteCodes DEF ReplyCodes
<1> QED
  BY <1>2, <1>3, <1>4 DEF Fire, Trial

\* The call that ends decides the trial, if there is one: the breaker leaves its state.
LEMMA EndTrial ==
    ASSUME Trial, TimesInv, NEW c \in Chatter, chat[c] = "fired", Extracted(c) \/ CallFails(c)
    PROVE  Trial'
<1>1. CASE Extracted(c)
  <2>1. breaker' # "halfOpen" /\ (breaker' = "open" => breaker = "open") /\ UNCHANGED pendingClose
    BY <1>1 DEF Extracted, TimesInv, ChatTypes
  <2> QED
    BY <2>1 DEF Trial
<1>2. CASE CallFails(c)
  <2>1. \/ breaker' = "open" /\ pendingClose' = FALSE
        \/ breaker # "halfOpen" /\ UNCHANGED <<breaker, pendingClose>>
    BY <1>2 DEF CallFails, circuit
  <2> QED
    BY <2>1 DEF Trial
<1> QED
  BY <1>1, <1>2

LEMMA TrialStep ==
    ASSUME Trial, TimesInv, [ChatNext]_chatVars PROVE Trial'
<1>1. ASSUME NEW c \in Chatter, AskChat(c) PROVE Trial'
  <2>1. chat[c] # "fired" /\ chat' = [chat EXCEPT ![c] = "limit"]
    <3>1. Delayed \subseteq {code \in Emittable : TRUE} /\ "fired" \notin ErrorCode
      BY Domains DEF Delayed, ErrorCode, Tables
    <3> QED
      BY <1>1, <3>1 DEF AskChat, ChatGoto, Emittable
  <2> QED
    BY <1>1, <2>1, NoCallStep DEF AskChat, circuit
<1>2. ASSUME NEW c \in Chatter, NEW redis \in {"answers", "fails"}, Limit(c, redis)
      PROVE  Trial'
  <2>1. chat[c] = "limit" /\ UNCHANGED <<breaker, pendingClose>>
    BY <1>2 DEF Limit, circuit
  <2>2. CASE ChatGoto(c, "scope")
    BY <2>1, <2>2, NoCallStep DEF ChatGoto
  <2>3. ASSUME NEW code \in ReplyCodes, Reply(c, code) PROVE Trial'
    BY <2>1, <2>3, ReplyIs, NoCallStep
  <2>4. /\ Entry(ChatCall[c]) # Accepted => Entry(ChatCall[c]) \in ReplyCodes
        /\ Unhandled \in ReplyCodes /\ Limited \in ReplyCodes
    BY EntryIsCode, ThrownCodes, RouteCodes DEF ReplyCodes, EntryCodes
  <2> QED
    BY <1>2, <2>2, <2>3, <2>4 DEF Limit
<1>3. ASSUME NEW c \in Chatter, NEW redis \in {"answers", "fails"}, Fire(c, redis)
      PROVE  Trial'
  BY <1>3, FireTrial
<1>4. ASSUME NEW c \in Chatter, TimesOut(c) \/ Extracted(c) \/ NotExtracted(c) PROVE Trial'
  BY <1>4, EndTrial DEF TimesOut, Extracted, NotExtracted
<1>5. CASE HalfOpen
  <2>1. \A c \in Chatter : chat[c] # "fired"
    BY <1>5 DEF HalfOpen, TimesInv, ChatTypes, CallsEndFirst, timeout
  <2> QED
    BY <1>5, <2>1 DEF HalfOpen, Trial
<1>6. CASE PassTime
  BY <1>6 DEF PassTime, Trial
<1>7. CASE UNCHANGED chatVars
  BY <1>7 DEF chatVars, circuit, Trial
<1> QED
  BY <1>1, <1>2, <1>3, <1>4, <1>5, <1>6, <1>7 DEF ChatNext, Chatting

\* A client that has waited as long as it was told is not refused for that reason again,
\* and a half-open breaker has one trial, which no earlier call can decide: the rate
\* limit, the breaker and the registry of error codes fit together for any number of
\* clients and any limit.
THEOREM ChatIsTimed == ChatInit /\ [][ChatNext]_chatVars => []RefusalsAreTimed
<1>1. ChatInit => TimesInv /\ Trial
  <2>1. ChatInit => ChatTypes
    BY DEF ChatInit, ChatTypes, timeout, resetTimeout, timeWindow
  <2>2. ChatInit => WaitsLongEnough /\ CallsEndFirst
    BY DEF ChatInit, WaitsLongEnough, CallsEndFirst, UnderWay
  <2>3. ChatInit => Trial
    BY DEF ChatInit, Trial
  <2> QED
    BY <2>1, <2>2, <2>3 DEF TimesInv
<1>2. TimesInv /\ Trial /\ [ChatNext]_chatVars => TimesInv' /\ Trial'
  <2>1. Trial => (pendingClose = TRUE => breaker # "open")
    BY DEF Trial
  <2> QED
    BY <2>1, TimesStep, TrialStep
<1>3. TimesInv /\ Trial => RefusalsAreTimed
  <2> SUFFICES ASSUME TimesInv, Trial PROVE RefusalsAreTimed
    OBVIOUS
  <2>1. ToldWhenToRetry
    BY DEF ToldWhenToRetry, TimesInv, ChatTypes, WaitsLongEnough, timeWindow, resetTimeout
  <2>2. OneTrial
    <3> DEFINE Fired == {c \in Chatter : chat[c] = "fired"}
    <3>1. CASE breaker = "halfOpen" /\ pendingClose = TRUE
      <4>1. Fired = {}
        BY <3>1 DEF Trial
      <4> QED
        BY <3>1, <4>1, FS_EmptySet DEF OneTrial
    <3>2. CASE breaker = "halfOpen" /\ pendingClose = FALSE
      <4>1. PICK c \in Chatter : Fired = {c}
        BY <3>2 DEF Trial
      <4> QED
        BY <3>2, <4>1, FS_Singleton DEF OneTrial
    <3> QED
      BY <3>1, <3>2 DEF Trial, OneTrial
  <2> QED
    BY <2>1, <2>2 DEF RefusalsAreTimed
<1> QED
  BY <1>1, <1>2, <1>3, PTL

=============================================================================
