--------------------------- MODULE CatalogSearch ---------------------------
(***************************************************************************)
(* POST /v1/agent/catalog/search: a query of the vector store that falls   *)
(* back to an offline catalog.  One engine serves every request, and which *)
(* source answered is a flag of the engine, which the service reads after  *)
(* the engine's answer.                                                    *)
(*                                                                         *)
(* A step runs from one await to the next, and the engine's last write of  *)
(* the flag and the service's read of it are one: a microtask apart, they  *)
(* are split only if two queries settle in one callback of the event loop. *)
(***************************************************************************)
EXTENDS AgentRoutes, Sorting, SequencesExt

CONSTANTS
    Search,      \* the requests
    Wanted,      \* [Search -> what each asks for, with its call]
    Indexed,     \* the products of the collection
    Offline,     \* the fallback catalog, a sequence of products
    AnyCategory, \* no category is asked for
    HasClient    \* QDRANT_URL is set

\* CatalogSearchRequestSchema: limit is an integer from 1.  Both sources are finite.
ASSUME SearchAssumption ==
    /\ \A r \in Search : Wanted[r].limit \in Nat \ {0}
    /\ IsFiniteSet(Indexed)
    /\ Offline \in Seq(ToSet(Offline))

VARIABLES
    search,      \* what each search waits for, or how it was answered
    usedFallback,
    found,       \* the answer: its results and its fallback flag
    servedBy     \* history: the source its results came from

searchVars == <<search, usedFallback, found, servedBy>>

NothingFound == [results |-> <<>>, fallback |-> FALSE]

SearchInit ==
    /\ search = [r \in Search |-> "idle"]
    /\ usedFallback = FALSE
    /\ found = [r \in Search |-> NothingFound]
    /\ servedBy = [r \in Search |-> "nothing"]

\* CatalogSearchRequestSchema wants a text or a vector; the rest is its bounds.
SearchEntry(w) ==
    Entry([body |-> IF w.text \/ w.vector THEN w.body ELSE "invalid", token |-> w.token])

\* The filters, which hold for both sources.  The similarity threshold holds for the
\* collection alone: a product of the fallback catalog has no score.
Fits(w, product) ==
    /\ w.category \in {AnyCategory, product.category}
    /\ product.price <= w.maxPrice

SearchFallback(w) ==
    FirstOf(Kept(Offline, {k \in DOMAIN Offline : Fits(w, Offline[k])}), w.limit)

SearchGoto(r, next) ==
    /\ search' = [search EXCEPT ![r] = next]
    /\ UNCHANGED <<usedFallback, found, servedBy>>

\* The engine returns and the service adds the flag it reads.
Serve(r, results, source) ==
    /\ search' = [search EXCEPT ![r] = "done"]
    /\ usedFallback' = (source = "offline")
    /\ found' = [found EXCEPT ![r] = [results |-> results, fallback |-> usedFallback']]
    /\ servedBy' = [servedBy EXCEPT ![r] = source]

AskCatalog(r) ==
    /\ search[r] = "idle"
    /\ LET entry == SearchEntry(Wanted[r])
       IN  SearchGoto(r, IF entry = Accepted THEN "scope" ELSE entry)

\* verifyAgentScope answers; searchCandidates runs up to the query.  Without a client
\* or a vector the offline catalog answers at once.
CheckScope(r, redis) ==
    LET scope == Scope(Wanted[r], redis) IN
    /\ search[r] = "scope"
    /\ IF scope # Accepted THEN SearchGoto(r, scope)
       ELSE IF HasClient /\ Wanted[r].vector THEN SearchGoto(r, "query")
       ELSE Serve(r, SearchFallback(Wanted[r]), "offline")

\* The store answers with hits that pass the filters.
FaultyQueryAnswers(r) ==
    /\ search[r] = "query"
    /\ \E S \in SUBSET {product \in Indexed : Fits(Wanted[r], product)} :
        /\ Cardinality(S) <= Wanted[r].limit
        /\ search' = [search EXCEPT ![r] = "done"]
        /\ found' = [found EXCEPT ![r] = [results |-> SetToSeq(S), fallback |-> usedFallback]]
        /\ servedBy' = [servedBy EXCEPT ![r] = "collection"]
        /\ UNCHANGED usedFallback
QueryAnswers(r) ==
    /\ search[r] = "query"
    /\ \E S \in SUBSET {product \in Indexed : Fits(Wanted[r], product)} :
        /\ Cardinality(S) <= Wanted[r].limit
        /\ Serve(r, SetToSeq(S), "collection")

\* The store cannot be reached, or a hit is not a merchant product: also the hits
\* that are one are dropped.
QueryFails(r) ==
    /\ search[r] = "query"
    /\ Serve(r, SearchFallback(Wanted[r]), "offline")

SearchNext ==
    \E r \in Search :
        \/ AskCatalog(r) \/ QueryAnswers(r) \/ QueryFails(r)
        \/ \E redis \in {"answers", "fails"} : CheckScope(r, redis)

----------------------------------------------------------------------------
(* Properties *)

\* An answer says that it came from the offline catalog exactly when it did, although
\* the flag belongs to the engine and other searches set it while this one waits; and
\* whichever source it came from, its products pass the filters of this request.
FallbackIsTrue ==
    \A r \in Search : search[r] = "done" =>
        /\ found[r].fallback <=> servedBy[r] = "offline"
        /\ Len(found[r].results) <= Wanted[r].limit
        /\ \A i \in 1..Len(found[r].results) : Fits(Wanted[r], found[r].results[i])

=============================================================================
