----------------------------- MODULE CatalogPage -----------------------------
(***************************************************************************)
(* The search view of the React app and its cart.  Searches are numbered;  *)
(* their answers and failures arrive in any order, while the catalog's     *)
(* prices change.                                                          *)
(*                                                                         *)
(* An offer on the page is a product and the price it had when the service *)
(* answered.  The rest of an offer is text.  The page is served once;      *)
(* Storefront has its reloads.                                             *)
(***************************************************************************)
EXTENDS Naturals, FiniteSets, Sequences

CONSTANTS
    Query, Blank,    \* what is typed; Blank trims to nothing
    Product,
    Matching,        \* [Query \ {Blank} -> the products that match]
    Sold,            \* products that are out of stock
    MaxPrice, MaxSearches, MaxQuantity  \* bounds

ASSUME QueryAssumption ==
    /\ Blank \in Query /\ Sold \subseteq Product
    /\ Matching \in [Query \ {Blank} -> SUBSET Product]

NoOffer == 0    \* no price: the product is not there

VARIABLES
    price,      \* of each product in the catalog
    searches,   \* the query of each search so far
    pending,    \* those that are not answered
    busy, problem, searched,
    listed,     \* offers: the price of each product that is listed
    answered,   \* history: the search whose answer is listed, or zero
    quantity,   \* lines of the cart
    snapshot,   \* offers of the cart, also those whose line was removed
    isOpen

view == <<busy, problem, searched, listed, answered>>
cart == <<quantity, snapshot, isOpen>>
pageVars == <<price, searches, pending, view, cart>>

Nothing == [p \in Product |-> NoOffer]

PageInit ==
    /\ price = [p \in Product |-> 1]
    /\ searches = <<>> /\ pending = {}
    /\ busy = FALSE /\ problem = FALSE /\ searched = FALSE
    /\ listed = Nothing /\ answered = 0
    /\ quantity = [p \in Product |-> 0] /\ snapshot = Nothing /\ isOpen = FALSE

\* The button of the form, and with it the Enter key, is disabled while busy.
Ask(q) ==
    /\ Len(searches) < MaxSearches
    /\ searches' = Append(searches, q)
    /\ pending' = pending \cup {Len(searches) + 1}
    /\ busy' = TRUE /\ problem' = FALSE
    /\ UNCHANGED <<price, searched, listed, answered, cart>>
FaultySubmit(q) == Ask(q)
Submit(q) == ~busy /\ Ask(q)

Found(n) == [p \in Product |-> IF p \in Matching[searches[n]] THEN price[p] ELSE NoOffer]

\* A query with text is answered with the offers of this moment.  One without is not:
\* the request then has neither text nor vector, which the schema refuses.
Results(n) ==
    /\ n \in pending /\ searches[n] # Blank
    /\ pending' = pending \ {n}
    /\ listed' = Found(n) /\ answered' = n
    /\ busy' = FALSE /\ searched' = TRUE
    /\ UNCHANGED <<price, searches, problem, cart>>

SearchRefused(n) ==
    /\ n \in pending
    /\ pending' = pending \ {n}
    /\ listed' = Nothing /\ answered' = n /\ problem' = TRUE
    /\ busy' = FALSE /\ searched' = TRUE
    /\ UNCHANGED <<price, searches, cart>>

Reprice(p) ==
    /\ price[p] < MaxPrice
    /\ price' = [price EXCEPT ![p] = @ + 1]
    /\ UNCHANGED <<searches, pending, view, cart>>

\* The cards are there while the page is not busy.
OnPage(p) == ~busy /\ listed[p] # NoOffer

\* add: the snapshot is taken again for the whole line.
Add(p) ==
    /\ OnPage(p) /\ p \notin Sold
    /\ quantity[p] < MaxQuantity
    /\ quantity' = [quantity EXCEPT ![p] = @ + 1]
    /\ snapshot' = [snapshot EXCEPT ![p] = listed[p]]
    /\ isOpen' = TRUE
    /\ UNCHANGED <<price, searches, pending, view>>

\* remove: the line goes, its snapshot stays.
Remove(p) ==
    /\ isOpen /\ quantity[p] > 0
    /\ quantity' = [quantity EXCEPT ![p] = 0]
    /\ UNCHANGED <<price, searches, pending, view, snapshot, isOpen>>

\* toggle of the header, close of the drawer and its backdrop.
Toggle ==
    /\ isOpen' = ~isOpen
    /\ UNCHANGED <<price, searches, pending, view, quantity, snapshot>>

PageNext ==
    \/ \E q \in Query : Submit(q)
    \/ \E n \in pending : Results(n) \/ SearchRefused(n)
    \/ \E p \in Product : Reprice(p) \/ Add(p) \/ Remove(p)
    \/ Toggle

----------------------------------------------------------------------------
(* Properties *)

\* What the page says is about the latest search: while it is not busy that search has
\* been answered, the offers match it, the message that nothing matched is its own, and
\* an error leaves no offers of an earlier search beside it.
ListIsOfLatest ==
    ~busy => LET n == Len(searches) IN
        /\ pending = {} /\ answered = n
        /\ searched <=> n > 0
        /\ problem => listed = Nothing
        /\ \A p \in Product : listed[p] # NoOffer => p \in Matching[searches[n]]

\* The cart holds only what has been offered and could be bought.
CartIsBuyable ==
    \A p \in Product : quantity[p] > 0 => snapshot[p] # NoOffer /\ p \notin Sold

\* The page: its list and its cart.
PageIsTrue == ListIsOfLatest /\ CartIsBuyable

=============================================================================
