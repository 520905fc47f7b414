---------------------------- MODULE ProductStream ----------------------------
(***************************************************************************)
(* The search of the legacy page and its cart: streams of batches, each    *)
(* with an abort signal and a grid of its own, write to one results pane;  *)
(* the cart store notifies the badge and the drawer.                       *)
(*                                                                         *)
(* A search client is external: it may go on after its signal is aborted,  *)
(* end without a batch, or fail.                                           *)
(***************************************************************************)
EXTENDS Naturals, FiniteSetsExt

CONSTANTS
    Item,                               \* the offers on the cards
    MaxStreams, MaxBatches, MaxItems    \* bounds

ASSUME StreamsAssumption == MaxStreams \in Nat

VARIABLES
    streams,    \* searches so far, which are numbered
    controller, \* the one whose stream can be aborted, or zero
    aborted, running, received,
    grid,       \* the batches in the grid of each
    results,    \* what .product-results shows, and of which search
    items,      \* the cart: how often each offer is in it
    cartOpen,
    badge, drawer   \* what the header and the drawer show of the cart

search == <<streams, controller, aborted, running, received, grid, results>>
store == <<items, cartOpen, badge, drawer>>
streamVars == <<search, store>>

Stream == 1..MaxStreams
Cleared == [kind |-> "nothing", stream |-> 0]
Replace(kind, k) == results' = [kind |-> kind, stream |-> k]

StreamInit ==
    /\ streams = 0 /\ controller = 0
    /\ aborted = {} /\ running = {} /\ received = {}
    /\ grid = [k \in Stream |-> 0]
    /\ results = Cleared
    /\ items = [o \in Item |-> 0] /\ cartOpen = FALSE
    /\ badge = 0 /\ drawer = [items |-> items, open |-> FALSE]

\* controller?.abort()
Abort == aborted' = aborted \cup ({controller} \ {0})

\* A query of blanks clears the pane and leaves the stream under way alone.
SearchBlank ==
    /\ results # Cleared
    /\ results' = Cleared
    /\ UNCHANGED <<streams, controller, aborted, running, received, grid, store>>

SearchText ==
    /\ streams < MaxStreams
    /\ Abort
    /\ streams' = streams + 1
    /\ controller' = streams'
    /\ running' = running \cup {streams'}
    /\ Replace("skeleton", streams')
    /\ UNCHANGED <<received, grid, store>>

\* The first batch puts the grid in the pane; a batch of an aborted stream ends it.
FaultyBatch(k) ==
    /\ k \in running
    /\ grid[k] < MaxBatches
    /\ grid' = [grid EXCEPT ![k] = @ + 1]
    /\ received' = received \cup {k}
    /\ IF k \in received THEN UNCHANGED results ELSE Replace("grid", k)
    /\ UNCHANGED <<streams, controller, aborted, running, store>>
Batch(k) ==
    /\ k \in running
    /\ IF k \in aborted
       THEN /\ running' = running \ {k}
            /\ UNCHANGED <<received, grid, results>>
       ELSE /\ grid[k] < MaxBatches
            /\ grid' = [grid EXCEPT ![k] = @ + 1]
            /\ received' = received \cup {k}
            /\ IF k \in received THEN UNCHANGED results ELSE Replace("grid", k)
            /\ UNCHANGED running
    /\ UNCHANGED <<streams, controller, aborted, store>>

\* The stream ends.  Whether it was aborted is not looked at here.
EndStream(k) ==
    /\ k \in running
    /\ running' = running \ {k}
    /\ IF k \in received THEN UNCHANGED results ELSE Replace("empty", k)
    /\ UNCHANGED <<streams, controller, aborted, received, grid, store>>

StreamFails(k) ==
    /\ k \in running
    /\ running' = running \ {k}
    /\ IF k \in aborted THEN UNCHANGED results ELSE Replace("problem", k)
    /\ UNCHANGED <<streams, controller, aborted, received, grid, store>>

\* reset()
ResetStream ==
    /\ controller # 0
    /\ Abort
    /\ controller' = 0
    /\ results' = Cleared
    /\ UNCHANGED <<streams, running, received, grid, store>>

----------------------------------------------------------------------------
(* The cart.  #notify runs its listeners before the call returns. *)

Size(bag) == MapThenSumSet(LAMBDA o : bag[o], Item)
Notify ==
    /\ badge' = Size(items')
    /\ drawer' = [items |-> items', open |-> cartOpen']
    /\ UNCHANGED search

\* A card of the grid: add opens the cart.
AddItem(o) ==
    /\ results.kind = "grid" /\ Size(items) < MaxItems
    /\ items' = [items EXCEPT ![o] = @ + 1]
    /\ cartOpen' = TRUE
    /\ Notify

\* A row of the drawer: remove takes every copy of the offer out.
RemoveItem(o) ==
    /\ drawer.open /\ drawer.items[o] > 0
    /\ items' = [items EXCEPT ![o] = 0]
    /\ UNCHANGED cartOpen
    /\ Notify

ToggleCart ==
    /\ cartOpen' = ~cartOpen
    /\ UNCHANGED items
    /\ Notify

StreamNext ==
    \/ SearchBlank \/ SearchText \/ ResetStream
    \/ \E k \in Stream : Batch(k) \/ EndStream(k) \/ StreamFails(k)
    \/ \E o \in Item : AddItem(o) \/ RemoveItem(o)
    \/ ToggleCart

----------------------------------------------------------------------------
(* Properties *)

\* "a new query cancels the previous stream": offers and errors in the pane are of the
\* latest search, whatever the streams of earlier ones still bring, and its skeleton
\* stays only while it runs.  A blank query does not cancel, so that offers may come
\* after it; and only a stream that ends without a batch can write after its abort.
ResultsOfLatest ==
    /\ results.kind \in {"skeleton", "grid", "problem"} =>
        results.stream = streams /\ streams \notin aborted
    /\ results.kind = "skeleton" => streams \in running
    /\ results.kind = "grid" => grid[streams] > 0
    /\ results.kind = "empty" => results.stream \notin received
    /\ running \subseteq aborted \cup {controller}

=============================================================================
