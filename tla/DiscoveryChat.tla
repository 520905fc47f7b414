--------------------------- MODULE DiscoveryChat ---------------------------
(***************************************************************************)
(* POST /v1/agent/chat: the rate limit of the agent routes, the scope, and *)
(* the extraction of an intent by a model behind a circuit breaker.        *)
(* Clients that are refused with a Retry-After wait that long and ask      *)
(* again, for ever.                                                        *)
(*                                                                         *)
(* Time passes in units of ten seconds, and a timer that is due fires      *)
(* before it passes on.  The counts of the breaker's rolling window are    *)
(* abstracted: a failure passes the threshold of a closed breaker or not.  *)
(***************************************************************************)
EXTENDS AgentRoutes

CONSTANTS
    Chatter,     \* the clients, behind one address
    ChatCall,    \* [Chatter -> its call]
    MaxRequests  \* max of the rate limit

VARIABLES
    chat,     \* what each client's request waits for, or how it was answered
    left,     \* time until the breaker gives up its call
    wait,     \* time until a refused client asks again
    told,     \* history: what refused it, while that is still in force
    breaker,
    pendingClose,  \* a half-open breaker lets the next call through
    reset,    \* time until an open breaker is half-open
    window,   \* time until the key of the rate limit expires
    count     \* requests counted under that key

timers == <<left, wait>>
circuit == <<breaker, pendingClose, reset>>
limits == <<window, count>>
chatVars == <<chat, timers, told, circuit, limits>>

Unit == 10
timeout == 1
FaultyResetTimeout == 6
resetTimeout == 3
timeWindow == 6
ChatAnswers == {"done"} \cup Emittable
Delayed == {code \in Emittable : RetryAfter(code) # NoDelay}

ChatInit ==
    /\ chat = [c \in Chatter |-> "idle"]
    /\ left = [c \in Chatter |-> 0]
    /\ wait = [c \in Chatter |-> 0]
    /\ told = [c \in Chatter |-> "nothing"]
    /\ breaker = "closed" /\ pendingClose = FALSE /\ reset = 0
    /\ window = 0 /\ count = 0

\* The answer, and the wait it asks for.
Reply(c, code) ==
    /\ chat' = [chat EXCEPT ![c] = code]
    /\ wait' = [wait EXCEPT ![c] = IF code = "done" THEN 0 ELSE RetryAfter(code) \div Unit]
    /\ UNCHANGED left
ChatGoto(c, next) == chat' = [chat EXCEPT ![c] = next] /\ UNCHANGED timers

Forget(by) == [c \in Chatter |-> IF told[c] = by THEN "nothing" ELSE told[c]]

\* A client asks; after a refusal that names a delay, when it is over.
AskChat(c) ==
    /\ chat[c] \in {"idle", "done"} \cup Delayed /\ wait[c] = 0
    /\ ChatGoto(c, "limit")
    /\ UNCHANGED <<told, circuit, limits>>

\* The rate limit counts the request under a key that lives for one window from the
\* first; then the body is validated and the token looked for.
Limit(c, redis) ==
    /\ chat[c] = "limit"
    /\ UNCHANGED circuit
    /\ IF redis = "fails"
       THEN Reply(c, Unhandled) /\ UNCHANGED <<told, limits>>
       ELSE /\ window' = IF window = 0 THEN timeWindow ELSE window
            /\ count' = IF window = 0 THEN 1
                        ELSE IF count > MaxRequests THEN count ELSE count + 1
            /\ IF count' > MaxRequests
               THEN Reply(c, Limited) /\ told' = [told EXCEPT ![c] = "window"]
               ELSE /\ UNCHANGED told
                    /\ IF Entry(ChatCall[c]) = Accepted THEN ChatGoto(c, "scope")
                       ELSE Reply(c, Entry(ChatCall[c]))

\* verifyAgentScope, then the call of the breaker: while it is not closed it takes one
\* call of a half-open state and refuses every other.
Fire(c, redis) ==
    LET scope == Scope(ChatCall[c], redis) IN
    /\ chat[c] = "scope"
    /\ UNCHANGED <<breaker, reset, limits>>
    /\ IF scope # Accepted
       THEN Reply(c, scope) /\ UNCHANGED <<told, pendingClose>>
       ELSE IF breaker # "closed" /\ ~pendingClose
       THEN /\ Reply(c, Thrown("AIServiceUnavailableError"))
            /\ told' = [told EXCEPT ![c] = "breaker"]
            /\ UNCHANGED pendingClose
       ELSE /\ chat' = [chat EXCEPT ![c] = "fired"]
            /\ left' = [left EXCEPT ![c] = timeout]
            /\ pendingClose' = FALSE
            /\ UNCHANGED <<wait, told>>

\* The model answers with an intent of the schema.
Extracted(c) ==
    /\ chat[c] = "fired"
    /\ Reply(c, "done")
    /\ breaker' = IF breaker = "halfOpen" THEN "closed" ELSE breaker
    /\ told' = IF breaker = "halfOpen" THEN Forget("breaker") ELSE told
    /\ UNCHANGED <<pendingClose, reset, limits>>

\* The fallback answers a call that failed.  A failure opens a half-open breaker, and a
\* closed one when it passes the threshold.
CallFails(c) ==
    /\ Reply(c, Thrown("AIServiceUnavailableError"))
    /\ UNCHANGED limits
    /\ \/ /\ breaker # "open"
          /\ breaker' = "open" /\ reset' = resetTimeout /\ pendingClose' = FALSE
          /\ told' = [Forget("breaker") EXCEPT ![c] = "breaker"]
       \/ /\ breaker # "halfOpen"
          /\ told' = [told EXCEPT ![c] = IF breaker = "open" THEN "breaker" ELSE "nothing"]
          /\ UNCHANGED circuit

\* The model fails, or its answer does not fit the schema.
NotExtracted(c) == chat[c] = "fired" /\ CallFails(c)

\* Ten seconds pass without an answer; a later one is dropped.
FaultyTimesOut(c) ==
    /\ chat[c] = "fired" /\ left[c] = 0 /\ breaker = "closed"
    /\ CallFails(c)
TimesOut(c) ==
    /\ chat[c] = "fired" /\ left[c] = 0
    /\ CallFails(c)

HalfOpen ==
    /\ breaker = "open" /\ reset = 0
    /\ breaker' = "halfOpen" /\ pendingClose' = TRUE
    /\ UNCHANGED <<chat, timers, told, reset, limits>>

Less(n) == IF n = 0 THEN 0 ELSE n - 1

PassTime ==
    /\ ~\E c \in Chatter : chat[c] = "fired" /\ left[c] = 0
    /\ ~(breaker = "open" /\ reset = 0)
    /\ left' = [c \in Chatter |-> Less(left[c])]
    /\ wait' = [c \in Chatter |-> Less(wait[c])]
    /\ reset' = Less(reset)
    /\ window' = Less(window)
    /\ count' = IF window = 1 THEN 0 ELSE count
    /\ told' = IF window = 1 THEN Forget("window") ELSE told
    /\ UNCHANGED <<chat, breaker, pendingClose>>

\* What the server does by itself.  The model never has to answer.
Chatting(c) ==
    \/ \E redis \in {"answers", "fails"} : Limit(c, redis) \/ Fire(c, redis)
    \/ TimesOut(c)

ChatNext ==
    \/ \E c \in Chatter : AskChat(c) \/ Chatting(c) \/ Extracted(c) \/ NotExtracted(c)
    \/ HalfOpen \/ PassTime

----------------------------------------------------------------------------
(* Properties *)

\* A client that has waited as long as its answer said is not refused for the same
\* reason again: the window it was counted in is over, and the breaker that refused it
\* is at least half-open.  (A half-open breaker can still refuse it for a trial call.)
ToldWhenToRetry ==
    \A c \in Chatter : chat[c] \in Delayed /\ wait[c] = 0 =>
        /\ told[c] # "window"
        /\ told[c] = "breaker" => breaker # "open" \/ reset = 0

\* One trial at a time: while a half-open breaker waits for its trial call, no other
\* call is under way that could close or open it, as every earlier one has timed out.
OneTrial ==
    breaker = "halfOpen" =>
        Cardinality({c \in Chatter : chat[c] = "fired"}) = IF pendingClose THEN 0 ELSE 1

\* The delays of the rate limit, the breaker and the error codes fit together.
RefusalsAreTimed == ToldWhenToRetry /\ OneTrial

=============================================================================
