---------------------------- MODULE BudgetTracker ----------------------------
(***************************************************************************)
(* The counters of one run of an agent.  Calls are synchronous; the clock  *)
(* goes on between them.                                                   *)
(***************************************************************************)
EXTENDS Naturals

CONSTANTS
    Counter,      \* steps, toolCalls, llmCalls, ...
    Maximum,      \* [Counter -> Nat] of the budget; zero sets no limit
    MaxWallTime,
    Amount,       \* the amounts that are consumed
    MaxClock,     \* bound on the clock
    MaxUsage      \* bound on a counter

ASSUME BudgetAssumption == Maximum \in [Counter -> Nat] /\ Amount \subseteq Nat

VARIABLES
    usage,
    elapsed,   \* now() - startedAt
    granted    \* history: what the calls that returned have consumed

budgetVars == <<usage, elapsed, granted>>

BudgetInit ==
    /\ usage = [n \in Counter |-> 0]
    /\ elapsed = 0
    /\ granted = [n \in Counter |-> 0]

HasMaximum(n) == Maximum[n] > 0

\* assertWallTime, before anything is counted; then the amount is counted and the
\* counter compared, so that what a refused call asked for stays counted.  A call that
\* comes too late, or with an amount that is no count, throws and changes nothing.
FaultyConsume(n, amount) ==
    /\ elapsed <= MaxWallTime /\ usage[n] + amount <= MaxUsage
    /\ usage' = [usage EXCEPT ![n] = @ + amount]
    /\ granted' = IF HasMaximum(n) /\ usage[n] > Maximum[n] THEN granted
                  ELSE [granted EXCEPT ![n] = @ + amount]
    /\ UNCHANGED elapsed
Consume(n, amount) ==
    /\ elapsed <= MaxWallTime /\ usage[n] + amount <= MaxUsage
    /\ usage' = [usage EXCEPT ![n] = @ + amount]
    /\ granted' = IF HasMaximum(n) /\ usage'[n] > Maximum[n] THEN granted
                  ELSE [granted EXCEPT ![n] = @ + amount]
    /\ UNCHANGED elapsed

ClockGoesOn ==
    /\ elapsed < MaxClock
    /\ elapsed' = elapsed + 1
    /\ UNCHANGED <<usage, granted>>

BudgetNext ==
    \/ \E n \in Counter, amount \in Amount : Consume(n, amount)
    \/ ClockGoesOn

----------------------------------------------------------------------------
(* Properties *)

\* What a run was granted never passes a maximum that is set, also when it goes on
\* after a refusal, whose amount stays counted; and nothing is refused by a counter that
\* has not passed its maximum.
BudgetKept ==
    \A n \in Counter : HasMaximum(n) =>
        /\ granted[n] <= Maximum[n]
        /\ usage[n] <= Maximum[n] => granted[n] = usage[n]

=============================================================================
