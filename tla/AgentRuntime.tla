---------------------------- MODULE AgentRuntime ----------------------------
(***************************************************************************)
(* The lazy composition behind POST /v1/agent/shopping: the first request  *)
(* opens a connection pool, prepares the checkpointer on it and caches it  *)
(* and the conversation; close() clears both caches and ends the pool that *)
(* is cached at that moment.                                               *)
(*                                                                         *)
(* A pool is named after the request that opened it.  A step runs from one *)
(* await to the next.  DATABASE_URL is required, so the volatile           *)
(* checkpointer of local runs is not reached.                              *)
(***************************************************************************)
EXTENDS AgentRoutes

CONSTANTS
    Shopper,    \* the requests of the shopping route
    ShopCall,   \* [Shopper -> its call]
    NoPool

ASSUME PoolAssumption == NoPool \notin Shopper

VARIABLES
    shop,       \* what each request waits for, or how it was answered
    uses,       \* the pool of the conversation it advances
    open,       \* the pools that are open
    cachedCheckpointer,
    cachedShoppingConversation,
    hungUp,     \* requests whose client closed the connection: their handlers go on
    closing,    \* "up", "waiting", "closing" or "closed"
    raced       \* history: a pool was opened beside another that was being prepared,
                \* or close() found one being prepared or came before it

pools == <<open, cachedCheckpointer, cachedShoppingConversation>>
runtimeVars == <<shop, uses, pools, hungUp, closing, raced>>

RuntimeInit ==
    /\ shop = [r \in Shopper |-> "idle"]
    /\ uses = [r \in Shopper |-> NoPool]
    /\ open = {}
    /\ cachedCheckpointer = NoPool
    /\ cachedShoppingConversation = NoPool
    /\ hungUp = {}
    /\ closing = "up"
    /\ raced = FALSE

ShopGoto(r, next) == shop' = [shop EXCEPT ![r] = next]
Preparing == {r \in Shopper : shop[r] = "setup"}
Running == {r \in Shopper : shop[r] \in {"scope", "setup", "compose", "advance"}}

\* The server takes requests until it closes.
AskShopping(r) ==
    /\ shop[r] = "idle" /\ closing = "up"
    /\ ShopGoto(r, IF Entry(ShopCall[r]) = Accepted THEN "scope" ELSE Entry(ShopCall[r]))
    /\ UNCHANGED <<uses, pools, hungUp, closing, raced>>

\* verifyAgentScope, then getShoppingConversation up to its first await: both caches
\* are looked at in this turn, and without a checkpointer a pool is opened.
Resolve(r, redis) ==
    LET scope == Scope(ShopCall[r], redis) IN
    /\ shop[r] = "scope"
    /\ UNCHANGED <<cachedCheckpointer, cachedShoppingConversation, hungUp, closing>>
    /\ IF scope # Accepted
       THEN ShopGoto(r, scope) /\ UNCHANGED <<uses, open, raced>>
       ELSE IF cachedShoppingConversation # NoPool
       THEN /\ ShopGoto(r, "advance")
            /\ uses' = [uses EXCEPT ![r] = cachedShoppingConversation]
            /\ UNCHANGED <<open, raced>>
       ELSE IF cachedCheckpointer # NoPool
       THEN /\ ShopGoto(r, "compose")
            /\ uses' = [uses EXCEPT ![r] = cachedCheckpointer]
            /\ UNCHANGED <<open, raced>>
       ELSE /\ ShopGoto(r, "setup")
            /\ open' = open \cup {r}
            /\ raced' = (raced \/ Preparing # {} \/ closing = "closed")
            /\ UNCHANGED uses

\* setup() of the checkpointer succeeds: the last one to do so stays cached.
SetUp(r) ==
    /\ shop[r] = "setup"
    /\ cachedCheckpointer' = r
    /\ uses' = [uses EXCEPT ![r] = r]
    /\ ShopGoto(r, "compose")
    /\ UNCHANGED <<open, cachedShoppingConversation, hungUp, closing, raced>>

\* setup() fails: the pool is ended, nothing is cached, and the next request tries again.
FaultySetUpFails(r) ==
    /\ shop[r] = "setup"
    /\ ShopGoto(r, Unhandled)
    /\ UNCHANGED <<uses, pools, hungUp, closing, raced>>
SetUpFails(r) ==
    /\ shop[r] = "setup"
    /\ ShopGoto(r, Unhandled)
    /\ open' = open \ {r}
    /\ UNCHANGED <<uses, cachedCheckpointer, cachedShoppingConversation, hungUp, closing,
                   raced>>

\* The rest of getShoppingConversation, after the await of the checkpointer.
Compose(r) ==
    /\ shop[r] = "compose"
    /\ cachedShoppingConversation' = uses[r]
    /\ ShopGoto(r, "advance")
    /\ UNCHANGED <<uses, open, cachedCheckpointer, hungUp, closing, raced>>

\* The turn of the conversation, which reads and writes its checkpoints in the pool.
Advance(r) ==
    /\ shop[r] = "advance"
    /\ ShopGoto(r, IF uses[r] \in open THEN "done" ELSE Unhandled)
    /\ UNCHANGED <<uses, pools, hungUp, closing, raced>>

\* An abandoned request no longer keeps the server from closing; its handler goes on.
HangUp(r) ==
    /\ r \in Running \ hungUp
    /\ hungUp' = hungUp \cup {r}
    /\ UNCHANGED <<shop, uses, pools, closing, raced>>

\* app.close(): no new request is taken, and the hooks wait for those under way.
StopListening ==
    /\ closing = "up"
    /\ closing' = "waiting"
    /\ UNCHANGED <<shop, uses, pools, hungUp, raced>>

\* close() of the runtime: the caches are cleared and the cached pool is ended.
CloseRuntime ==
    /\ closing = "waiting" /\ Running \subseteq hungUp
    /\ closing' = "closed"
    /\ cachedCheckpointer' = NoPool
    /\ cachedShoppingConversation' = NoPool
    /\ open' = open \ {cachedCheckpointer}
    /\ raced' = (raced \/ Preparing # {})
    /\ UNCHANGED <<shop, uses, hungUp>>

Serving(r) ==
    \/ SetUp(r) \/ SetUpFails(r) \/ Compose(r) \/ Advance(r)
    \/ \E redis \in {"answers", "fails"} : Resolve(r, redis)

RuntimeNext ==
    \/ \E r \in Shopper : AskShopping(r) \/ Serving(r) \/ HangUp(r)
    \/ StopListening \/ CloseRuntime

----------------------------------------------------------------------------
(* Properties *)

\* The caches and the conversations under way name open pools until close() ends them,
\* so that a setup that failed is not remembered; and close() leaves no pool open,
\* unless requests opened theirs side by side or beside close().  The comment of
\* getAgentCheckpointer admits the first: "the last assignment wins".
PoolsHeld ==
    /\ closing # "closed" =>
        /\ {cachedCheckpointer, cachedShoppingConversation} \subseteq open \cup {NoPool}
        /\ \A r \in Shopper : shop[r] = "advance" => uses[r] \in open
    /\ closing = "closed" /\ ~raced => open = {}

=============================================================================
