--------------------------- MODULE ProductRanking ---------------------------
(***************************************************************************)
(* The ranking of candidate products: duplicate listings are dropped, each *)
(* product gets a composite score, the best topK are offered.  Pure        *)
(* functions on sequences.                                                 *)
(*                                                                         *)
(* A price is in cents of its own currency, a rate and a relevance are in  *)
(* hundredths, and a composite score is in units of its fourth decimal.    *)
(* The double of the code may round a tie of the fifth decimal either way; *)
(* here it is rounded up.                                                  *)
(***************************************************************************)
EXTENDS Sorting, SequencesExt

CONSTANTS
    Rates,      \* exchange rates into the base currency, in hundredths
    Currency,   \* the currencies whose name has three letters
    NoUrl, NoScore  \* the optional field is missing

\* A relevance is a number.
ASSUME RelevanceAssumption == NoScore \notin Nat

\* The products of a request, as MerchantProductSchema lets them pass.
IsProducts(products) ==
    /\ products \in Seq(ToSet(products))
    /\ \A p \in ToSet(products) :
        /\ p.price \in Nat \ {0}
        /\ p.score \in (0..100) \cup {NoScore}
        /\ p.inStock \in BOOLEAN

MaxTopK == 10
One == 10000
RoundDiv(a, b) == (2 * a + b) \div (2 * b)

\* Two products are one listing when they have the same URL; without one, the same
\* merchant and title.
DeduplicationKey(p) == IF p.url # NoUrl THEN <<p.url>> ELSE <<p.merchant, p.title>>

\* The places of the first product of each listing.
Firsts(products) ==
    {i \in 1..Len(products) : \A j \in 1..(i - 1) :
        DeduplicationKey(products[j]) # DeduplicationKey(products[i])}

\* The first product of a listing stays, and the order of the input.
FaultyNormalizeAndDeduplicate(products) ==
    Kept(products, {i \in 1..Len(products) : \A j \in (i + 1)..Len(products) :
        DeduplicationKey(products[j]) # DeduplicationKey(products[i])})
NormalizeAndDeduplicate(products) == Kept(products, Firsts(products))

\* A currency without a rate counts one to one.
ConvertToMinorUnits(p) ==
    RoundDiv(p.price * (IF p.currency \in DOMAIN Rates THEN Rates[p.currency] ELSE 100), 100)

\* 0.6 relevance + 0.3 minPrice / price + 0.1 stock, at most one.  The price term
\* compares the prices as they are listed, whatever their currency.
CompositeScore(p, minPrice) ==
    LET relevance == IF p.score = NoScore THEN 50 ELSE p.score
        total == 60 * relevance + RoundDiv(3000 * minPrice, p.price)
                 + (IF p.inStock THEN 1000 ELSE 0)
    IN  IF total < One THEN total ELSE One

ScoreProduct(p, minPrice) ==
    [product |-> p, minor |-> ConvertToMinorUnits(p), score |-> CompositeScore(p, minPrice)]

\* ProductOfferSchema refuses an offer whose currency has not three letters, and with
\* it the whole ranking.
Rankable(products) ==
    \A i \in 1..Len(NormalizeAndDeduplicate(products)) :
        NormalizeAndDeduplicate(products)[i].currency \in Currency

MinPrice(candidates) ==
    CHOOSE price \in {p.price : p \in ToSet(candidates)} :
        \A p \in ToSet(candidates) : price <= p.price

\* A stable sort by descending score.
BestFirst(scored) ==
    {e \in (DOMAIN scored) \X (DOMAIN scored) :
        \/ scored[e[1]].score > scored[e[2]].score
        \/ scored[e[1]].score = scored[e[2]].score /\ e[1] < e[2]}

\* It is cut after topK.  The route always gives topK.
RankCandidates(products, asked) ==
    LET topK == IF asked < 1 THEN 1 ELSE IF asked > MaxTopK THEN MaxTopK ELSE asked
        candidates == NormalizeAndDeduplicate(products)
        scored == [n \in 1..Len(candidates) |->
                      ScoreProduct(candidates[n], MinPrice(candidates))]
        order == Sorted(1..Len(candidates), BestFirst(scored))
    IN  FirstOf([n \in 1..Len(candidates) |-> scored[order[n]]], topK)

----------------------------------------------------------------------------
(* What a ranking promises, stated without the way it is computed *)

Dominates(p, q) ==
    /\ p.currency = q.currency /\ p.price <= q.price
    /\ p.score # NoScore /\ q.score # NoScore /\ p.score >= q.score
    /\ p.inStock \/ ~q.inStock

\* Which of the products an offer is of.
PlaceOf(offer, products) == CHOOSE i \in Firsts(products) : products[i] = offer.product

\* Of each listing the first product, and none twice; as many as there are and were
\* asked for; and a product that is listed before another and is at least as good in
\* every respect is offered before it, or in its place.
IsRanking(offers, products, asked) ==
    LET firsts == Firsts(products)
        at(n) == PlaceOf(offers[n], products)
    IN
    /\ Len(offers) = IF Cardinality(firsts) < asked THEN Cardinality(firsts) ELSE asked
    /\ \A n \in 1..Len(offers) : offers[n].product \in {products[i] : i \in firsts}
    /\ \A m, n \in 1..Len(offers) : m # n => at(m) # at(n)
    /\ \A n \in 1..Len(offers), i \in firsts :
        i < at(n) /\ Dominates(products[i], offers[n].product)
            => \E m \in 1..(n - 1) : at(m) = i

=============================================================================
