--------------------------- MODULE RankingHandoff ---------------------------
(***************************************************************************)
(* POST /v1/agent/products/rank: the candidates of a request are ranked    *)
(* and handed over to two tables, first the session, then its results.     *)
(* Each insert is a transaction of its own; requests, also of one session, *)
(* run side by side, and the answer to an insert may be lost.  Results     *)
(* have a time to live, after which a procedure of the database may delete *)
(* them.                                                                   *)
(***************************************************************************)
EXTENDS AgentRoutes, ProductRanking

CONSTANTS
    Ranking,       \* the requests
    Asked,         \* [Ranking -> the session, topK and call of each]
    Candidates,    \* the lists of products a request may bring
    RankedRow,     \* the rows of products_ranked
    HasRepository  \* a Supabase client is configured

\* ProductRankingRequestSchema lets no other request pass.
ASSUME RequestAssumption ==
    /\ \A r \in Ranking : Asked[r].topK \in 1..MaxTopK
    /\ \A products \in Candidates : IsProducts(products)

VARIABLES
    ranking,   \* what each request waits for, or how it was answered
    brought,   \* the products it brought
    offers,    \* their ranking
    sessions,  \* the primary keys of search_sessions
    results,   \* the rows of search_results
    expired    \* the requests whose rows are past their expires_at

rankingVars == <<ranking, brought, offers, sessions, results, expired>>

RankingInit ==
    /\ ranking = [r \in Ranking |-> "idle"]
    /\ brought = [r \in Ranking |-> <<>>]
    /\ offers = [r \in Ranking |-> <<>>]
    /\ sessions = {}
    /\ results = {}
    /\ expired = {}

RankingGoto(r, next) == ranking' = [ranking EXCEPT ![r] = next]

\* The entry of the route, and the scope, which leaves nothing behind either.
AskRanking(r) ==
    /\ ranking[r] = "idle"
    /\ \E products \in Candidates : brought' = [brought EXCEPT ![r] = products]
    /\ RankingGoto(r, IF Entry(Asked[r]) = Accepted THEN "scope" ELSE Entry(Asked[r]))
    /\ UNCHANGED <<offers, sessions, results, expired>>

\* rankAndPersist up to the first insert.  Without a repository it answers at once.
Rank(r, redis) ==
    LET scope == Scope(Asked[r], redis) IN
    /\ ranking[r] = "scope"
    /\ IF scope = Accepted /\ Rankable(brought[r])
       THEN /\ offers' = [offers EXCEPT ![r] = RankCandidates(brought[r], Asked[r].topK)]
            /\ RankingGoto(r, IF HasRepository THEN "session" ELSE "ranked")
       ELSE /\ RankingGoto(r, IF scope = Accepted THEN Invalid ELSE scope)
            /\ UNCHANGED offers
    /\ UNCHANGED <<brought, sessions, results, expired>>

\* saveSearchSession.  The primary key lets a session be inserted once.
FaultySaveSearchSession(r) ==
    /\ ranking[r] = "session"
    /\ sessions' = sessions \cup {Asked[r].session}
    /\ \/ RankingGoto(r, "results")
       \/ RankingGoto(r, Unhandled)
    /\ UNCHANGED <<brought, offers, results, expired>>
SaveSearchSession(r) ==
    /\ ranking[r] = "session"
    /\ \/ /\ Asked[r].session \notin sessions
          /\ sessions' = sessions \cup {Asked[r].session}
          /\ \/ RankingGoto(r, "results")
             \/ RankingGoto(r, Unhandled)
       \/ RankingGoto(r, Unhandled) /\ UNCHANGED sessions
    /\ UNCHANGED <<brought, offers, results, expired>>

Rows(r) == {[session |-> Asked[r].session, row |-> offer.product.row, by |-> r] :
                offer \in ToSet(offers[r])}

\* requireRankedId, the foreign keys, and one row per session and ranked product.
Storable(r) ==
    /\ Asked[r].session \in sessions
    /\ \A n \in 1..Len(offers[r]) :
        /\ offers[r][n].product.row \in RankedRow
        /\ \A m \in 1..(n - 1) : offers[r][m].product.row # offers[r][n].product.row
        /\ ~\E stored \in results :
            stored.session = Asked[r].session /\ stored.row = offers[r][n].product.row

\* saveSearchResults: one INSERT of all rows.
SaveSearchResults(r) ==
    /\ ranking[r] = "results"
    /\ \/ /\ Storable(r)
          /\ results' = results \cup Rows(r)
          /\ \/ RankingGoto(r, "persisted")
             \/ RankingGoto(r, Unhandled)
       \/ RankingGoto(r, Unhandled) /\ UNCHANGED results
    /\ UNCHANGED <<brought, offers, sessions, expired>>

\* The rows of one INSERT have one expires_at.
Expire(r) ==
    /\ r \notin expired /\ \E stored \in results : stored.by = r
    /\ expired' = expired \cup {r}
    /\ UNCHANGED <<ranking, brought, offers, sessions, results>>

\* purge_expired_search_results.  The session stays, and with it its primary key.
PurgeExpired ==
    /\ results' = {stored \in results : stored.by \notin expired}
    /\ UNCHANGED <<ranking, brought, offers, sessions, expired>>

RankingNext ==
    \/ \E r \in Ranking :
        \/ AskRanking(r) \/ SaveSearchSession(r) \/ SaveSearchResults(r) \/ Expire(r)
        \/ \E redis \in {"answers", "fails"} : Rank(r, redis)
    \/ PurgeExpired

----------------------------------------------------------------------------
(* Properties *)

\* What is answered is a ranking of what was brought.
OffersAreRanked ==
    \A r \in Ranking : ranking[r] \in {"ranked", "persisted"} =>
        IsRanking(offers[r], brought[r], Asked[r].topK)

Stored(r) == {stored \in results : stored.session = Asked[r].session}

\* An answer that says persisted has its session and each of its offers stored until
\* they expire together, and the results of that session are this ranking alone: no
\* other request of the session has mixed its own in, and a request that failed half-way
\* has left none.
StoredWhole ==
    \A r \in Ranking : ranking[r] = "persisted" =>
        /\ Asked[r].session \in sessions
        /\ Stored(r) = Rows(r) \/ (r \in expired /\ Stored(r) = {})

=============================================================================
