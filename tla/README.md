# Verification project for stellarMVP

TLA+ models of this repository: the parts that move money or decide what a user is
told about money first, then the agent routes, the search, and the two web pages;
TLC configurations that check them on small instances, and proofs of their safety
properties for instances of any size.

    tlc -workers 2 -config purchase.cfg MCPurchase
    tlapm PaymentIntents_proofs.tla

`PROJECT.json` lists the components, the runs, the hazards each property is for,
the source lines behind each definition, and a plausible bug for each property
that makes it fail (the operators named `Faulty...`, which no action uses).

## The system

A Fastify server (`src/src/http`) with services (`src/src/services`), adapters
(`src/src/integrations`) and two browser applications (`src/src/react-app`,
`src/src/ui`). Everything runs in one Node process per server; concurrency is that
of requests interleaved at their awaits, of several servers over one PostgreSQL,
and of the browser, whose calls are answered in any order.

| component | state it keeps | operations | speaks to | what makes it correct |
|---|---|---|---|---|
| Payment intents (`services/payment-intent-service.ts`, `integrations/postgres-payment-repository.ts`) | four tables: quotes, orders, intents, attempts | create, read, submit, reconcile | PostgreSQL, Horizon | an intent is posted once; intent, order and attempt are settled together and as the ledger says; a key names one intent; one active intent per payer |
| Stellar gateway (`integrations/stellar/stellar-intent-gateway.ts`) | none | build, verify, submit, look up | Horizon | the time bound stays within the approval; no outcome is guessed |
| Reconciliation sweep (`services/payment/settlement-reconciliation-service.ts`) | none | one intent, a batch | the same tables, Horizon | a true report; progress; fresh submissions left alone |
| Agent checkout (`services/agent-checkout.ts`, `agent-auth.ts`, `integrations/stellar.ts`) | Redis spend, token store, orders, items | one route | Redis, PostgreSQL, Horizon | declared amounts within the spending caps; no order without payment; an answer to each request |
| Wallet session (`services/wallets`, `integrations/wallets`, `ui/wallet-controller.ts`) | session in the service, in the controller, in localStorage, in the header | connect, disconnect, restore, sign | the browser wallet | what is shown is what would sign |
| React checkout (`react-app/context`) | phase, intent, receipt | start, connect | payment routes, wallet | the phase and the receipt are paid only when the intent is; a retry never leaves two payments open |
| Shopping agent (`services/agents/shopping-agent.ts`) | checkpointed graph state | start, resume | model, catalog, quotes, saveApprovedQuote | what is approved is what was shown and what is saved |
| Catalog search and ranking (`services/agents/catalog-search.ts`, `ranking-engine.ts`, `normalization.ts`, `product-handoff.ts`, `integrations/agents/qdrant-catalog-engine.ts`, `integrations/supabase`) | a flag of the engine; two tables | search, rank and store | Qdrant, Supabase | an answer names its source; a ranking is one; what is called persisted is stored |
| Discovery chat (`services/agents/discovery-agent.ts`, `utils/circuit-breaker.ts`) and budgets (`budget-tracker.ts`) | the states of the breaker and of the rate limit; counters | one route; consume | a model | delays that fit together; an answer to each request; maxima kept |
| Runtime (`integrations/agent-runtime.ts`, `index.ts`) | two caches, pools | first use, close | PostgreSQL | what is cached is open; what is opened is closed |
| Errors (`domain/error-codes.ts`, `errors.ts`, `http/error-handler.ts`) | none | classify | every route | a code says what a client may do next |
| React search and cart (`react-app/views/catalog-view.tsx`, `context/cart-reducer.ts`) | offers, flags; lines and snapshots | search, add, remove | search API | the last query's results; only what could be bought in the cart |
| Legacy page (`ui/components`, `ui/stores`, `ui/wallet-controller.ts`) | streams, results pane, cart, wallet slot | search, add, connect | search client, wallet | a new query cancels the old one; the slot shows the controller |
| Purchase intents in SQL (`supabase/migrations`) | one table | transitions, row policies | - | no code writes it |
| Configuration, vendor adapters | none | - | - | - |

How they interact: the shopping agent saves an approved quote (two SQL
statements); the page creates an intent of it, has the wallet sign the
unsigned transaction, submits it and asks for a receipt; the service posts the
transaction once and from then on only looks it up; the sweep looks up what no
request settled. The agent checkout is a path of its own: the caller brings a
signed envelope and the server spends a token's allowance.

What is hard: every handler reads a row and acts on the copy after awaits; the
answer of Horizon can be lost, late or wrong about the outcome; a process may die
at each await and nothing resumes it; several counters are read before they are
added to; the page retries under a new key after any error.

## Modules

| module | models | uses |
|---|---|---|
| `OrderSettlement` | abstract specification: what orders, intents and the ledger do, one atomic step per event | - |
| `PaymentIntents` | the handlers of `PaymentIntentService` and `reconcileIntent` over the tables, await by await | `OrderSettlement` (refinement) |
| `SettlementSweep` | `reconcileBatch` beside requests | `OrderSettlement` (refinement of its steps), `Sorting` |
| `ErrorCodes` | the registry of error codes, the error classes and the error handler | - |
| `AgentRoutes` | what each agent route does before its use case | `ErrorCodes` |
| `AgentCheckout` | `POST /v1/agent/checkout` | `ErrorCodes` |
| `Sorting` | `filter` and `sort` of an array, `WHERE`, `ORDER BY` and `LIMIT` of a query | - |
| `CatalogSearch` | `POST /v1/agent/catalog/search` | `AgentRoutes`, `Sorting` |
| `ProductRanking` | normalisation and ranking, as functions, and what a ranking is | `Sorting` |
| `RankingHandoff` | `POST /v1/agent/products/rank` over its two tables | `AgentRoutes`, `ProductRanking` |
| `AgentRuntime` | the lazy composition behind `POST /v1/agent/shopping`, and `close()` | `AgentRoutes` |
| `DiscoveryChat` | `POST /v1/agent/chat`: rate limit, scope, circuit breaker, clients that retry | `AgentRoutes` |
| `BudgetTracker` | the counters of a run | - |
| `WalletSession` | wallet service, controller, connector, storage and header | - |
| `Storefront` | the checkout hook and reducer against the service | `WalletSession` |
| `CatalogPage` | the search view of the React app and its cart | - |
| `ProductStream` | the search streams of the legacy page and its cart store | - |
| `LegacyHeader` | the wallet slot of the legacy header and the controller's events | `ProductStream` (the rest of the page) |
| `ShoppingConversation` | one thread of the shopping agent: nodes, checkpoints, interrupts | - |
| `MC...` | constants of the small instances; `MCAgentApi` and `MCStorefront` also put several components in one run (below) | the modules they extend |
| `Collections_proofs` | lemmas about `Sorting`, sums over sets and `RemoveAt`, and the inductions behind them | `Sorting`, `TLAPS` |
| `PaymentIntents_proofs` | the proofs | `PaymentIntents`, `TLAPS` |
| `SettlementSweep_proofs` | the proofs | `SettlementSweep`, `Collections_proofs` |
| `ShoppingConversation_proofs` | the proofs | `ShoppingConversation`, `TLAPS` |
| `ErrorCodes_proofs` | lemmas about the registry: which code is in which table, its status and its delay | `ErrorCodes`, `TLAPS` |
| `AgentCheckout_proofs` | the proofs | `AgentCheckout`, `ErrorCodes_proofs`, `Collections_proofs` |
| `AgentRoutes_proofs` | the proofs about the search, the ranking, the runtime, the chat and the budget | `CatalogSearch`, `RankingHandoff`, `AgentRuntime`, `DiscoveryChat`, `BudgetTracker`, `ErrorCodes_proofs`, `Collections_proofs` |
| `Storefront_proofs` | the proofs about the checkout, the catalog page and the legacy page | `Storefront`, `CatalogPage`, `LegacyHeader`, `TLAPS` |

### PaymentIntents

`row`, `status`, `order`, `paidBy`, `quotes` and `attempts` are the columns of
`COMMERCE_PAYMENT_DDL` that the code decides on. A handler is a slot `p` with a
label `pc[p]`, the call it waits for, and `held[p]`, the local variables it keeps
across it: the idempotency request, the intent's id, the status as it was read, the
time it computed. One action is the code from one answer to the next call, so a
SQL statement is atomic, a `withTransaction` block is atomic (`SettleConfirmed`,
`SettleFailed`), and nothing else is: `saveApprovedQuote` is `SaveQuote` and
`SaveOrder`, and `now` is read where the code calls `this.now()`. `Abort` is any
exception of a dependency and the death of the server.

A transaction is the intent it was built for, because its hash binds its content; a
signed envelope with another hash is refused before anything is written. `ledger`
is what Horizon knows of it: a queued transaction may be applied, not later than its
time bound, or dropped. `time` is a counter of units; only comparisons matter.

### OrderSettlement

One step to approve, open, lapse, claim, pay and fail. `PaymentIntents` maps
`submitting` and `submitted` to one phase and a queued transaction to one that is
not on the ledger. What the refinement adds to the invariants is that there are
no other steps: an intent never returns to an earlier phase, an order is never
paid without its transaction, and nothing is settled twice.

### SettlementSweep

`queue` is the order of `updated_at` and `stale` the set older than the cutoff, so
that time has no numbers. A worker is a run of the batch: it selects, and for each
row looks up, settles and possibly reads again. The requests beside it (`Claim`,
`MarkSubmitted`, `SettleElsewhere`) do what `PaymentIntents` has the handlers do, in
one step each. `Settlement` maps the tables to `OrderSettlement`, and
`SettlesAsPromised` says that every step, of overlapping workers too, is one of its
steps or a stutter. Only the steps: here the orders are approved and the intents open
from the start, which in `OrderSettlement` takes steps of their own.

`Sorting` has what a query or an array method makes of a set or a sequence, defined by
counting what comes before an element. TLC evaluates it as it would `SelectSeq` and
`SortSeq`; the provers can unfold it.

### AgentCheckout

One action per await of the route and of the services below it. `reserved` is the
memory token store, `spend` Redis, `orders` PostgreSQL, `purchased` the item store.
Amounts are tenths of an atomic unit so that `decimalToAtomic` has something to
cut off. The firewall is composed in, as `buildAgentRoutes` does when it is given a
token store; both caps are numbers (the code also allows none). A request declares an
amount in its body and brings a signed envelope, which is posted as it came: `Worth` is
what that one pays, and no step compares the two. The reservation and the daily spend
are of declared amounts, and so are the properties that hold of them
(`DeclaredWithinCap`, `PaymentsCounted`); `LifetimeCap` is about the money that moves,
and fails. `answer` is the code
of the problem a refused caller gets, so that `RetryIsFree` can compare what the code
invites to with what was posted.

### ErrorCodes and AgentRoutes

Each code keeps its number, status and declared behaviour: retryable, financial
effect, human action, hint and delay. `DefineErrorCode` is the check the server makes
of each entry when it starts, and `RegistryAssumption` makes TLC do it for the whole
table, with the uniqueness of domain and number. `Problem` is the error handler: by
class, by Zod, or by status. `Entry` is what happens before the first await of an
agent route, body before token, and `Scope` the answer of Redis. The routes below and
the checkout use their codes, so that delays and hints are the registry's.

### CatalogSearch, ProductRanking and RankingHandoff

One engine serves all searches: `usedFallback` is its flag, which the service reads
when the engine has answered. In the code write and read are a microtask apart, which
two queries could only split by settling in one callback of the event loop; here they
are one step. What is found is any set of indexed products that pass the filters,
because the similarity is external; the offline catalog is filtered as the code does.

`RankCandidates` is the code's pipeline with the arithmetic in integers: hundredths of
a rate, cents, scores in their fourth decimal. `IsRanking` states the result without
it: of each listing the first product, as many as asked for, and nothing before a
product that was listed earlier and is at least as good in every respect. The hand-over
inserts a session, then all results in one statement; either insert may fail before or
after its commit, two requests may name one session, and the purge deletes results that
expired.

### AgentRuntime, DiscoveryChat and BudgetTracker

A pool is named after the request that opened it. `Resolve` is one turn: both caches
are looked at before the first await. Nothing cached means a pool of its own, so first
requests race and the last assignment wins; `raced` marks the behaviours in which a
pool may be left over, which the comment in the code admits for the first of them.

In the chat, time passes in units of ten seconds, and `timeout`, `resetTimeout`,
`timeWindow` and the `Retry-After` of two codes come from four files. The breaker's
states and the store of the rate limit are those of their libraries, from the options
the code passes; whether a failure trips a closed breaker is open, as the rolling counts
are left out. `told` remembers why a client was refused, while that reason lasts.

### WalletSession and Storefront

`session`, `controlled`, `stored` and `shown` are the four copies of the session.
Calls under way are counted, because the page lets several overlap: `loading` (the
SDK), `asking`, `leaving`. `Storefront` adds the reducer's `phase`, `intent` and
`receipt`, the call the hook waits for (`await`), and the payment service as steps
of `OrderSettlement`, with requests that the page gave up on but that are served
later (`sent`, `Claim`). Of the progress view, the steps follow `phase`, and
`PrintsPaid` is the box that says "Paid": it depends on the receipt being there and on
nothing else. `PaidIsPaid` is about `phase` and the receipt's own status, not about
that box, for which see `PrintedIsPaid`.

### CatalogPage, ProductStream and LegacyHeader

In `CatalogPage` searches are numbered and each may be answered or refused at any time
while prices change; an offer is a product and the price it had when it was found. The
button is what keeps searches from overlapping (`Submit`), and the mutant without it
shows what it is worth. `ProductStream` has the streams of the legacy page, each with
its signal, its grid and its batches; a client may go on after its abort, end early or
fail. `#notify` of the cart store runs its listeners inside the call, so badge and
drawer are written with the items. `LegacyHeader` renders the slot inside each dispatch,
with the controller as it is at that moment.

### ShoppingConversation

`checkpoint` is the latest checkpoint of one thread, with the fields of the graph's
`State` and `next`, the node that is pending. A run is a request to
`POST /v1/agent/shopping`: `node[r]` is the node it is in, `carried[r]` the state it
carries, `event[r]` what it was resumed with. There is one action per outcome of a
node; it writes the whole state (`Continue`) and goes on, or stops at an interrupt or
the end. `SaveApproved` and `Authorize` are the two halves of the approval node. `FailRun`
is a node that throws or a process that dies: the checkpoint stays and a later
`ResumeThread` does the node again. Nothing locks a thread, so runs overlap and the last
write wins. What is LangGraph's in this is taken from how the code uses it.

The intent is the message; `quoteHash` is the quote, because the hash binds its
content; `fits` stands for the comparison of merchant, currency, total and expiry.
`issued`, `approvals` and `turns` are history and a bound, not in the code. A signal
has the two thresholds already applied. The model is of an agent with an approval
store and quotes that may carry payment terms; `createAgentRuntime` gives its agent
no store and its quote provider gives no terms, so that one never saves a quote.

## Runs

| run | asks | instance |
|---|---|---|
| `purchase` | do tables, ledger and callers ever contradict each other, do the handlers implement `OrderSettlement`; is what is saved what was found, quoted, shown and approved in one turn | 2 handlers, 2 intents, 2 quotes with 2 owners and one payer, 2 keys, clock 0..2; 2 requests at a time on one thread, 2 starts, any resumes, 2 quotes, 2 offers, 1 wallet or none, 4 signals |
| `intents_liveness` | is an outcome on the ledger recorded in the end | 2 handlers, 2 intents of 1 quote, clock 0..1 |
| `intents_indeterminate` | the sweep's promise of a terminal state: refuted | as above |
| `intents_charged_twice` | one quote is charged once: refuted | as above |
| `sweep` | is the report true, does the sweep progress, does it leave fresh rows alone, is each settlement a step of `OrderSettlement` | 4 intents of 3 orders, any 3 claimed: 2 of one order and 1 of another, or 3 of 3 orders; 2 rows per batch, 1 worker |
| `sweep_throws` | one row never stops the batch: refuted | as above, any of the 4 claimed |
| `checkout` | declared amounts against the caps, orders and answers of the checkout; sources, rankings, pools, delays and budgets of the other agent routes | 3 checkouts with any of the bodies, 3 tokens, 2 days; 5 searches over 6 products; 2 rankings of one session, 22 lists of candidates; 3 first requests and one shutdown; 2 chatting clients, 3 requests per minute; 2 counters |
| `checkout_daily_cap`, `checkout_idempotency` | the daily cap and the idempotency key: refuted | 3 checkouts, as above |
| `checkout_lifetime_cap` | the lifetime cap bounds the money that moves: refuted by an envelope that pays more than is declared | 3 checkouts, envelopes of 1.9 and 4 units, declared as 1.9 and 2.5, cap of 3 |
| `storefront` | does each page tell the truth about account, payment, search and cart | 2 accounts, 2 intents, 2 wallet calls under way; 3 searches, 3 products, 2 prices; 3 streams of 2 batches; 2 disconnects under way |
| `storefront_prints_paid` | the page says Paid of what is paid: refuted | as above |

Why the bounds are enough. Each hazard is a race of two handlers for one row, one
key, one payer or one order, or of a handler with the clock or the ledger; two
handlers and two intents have them all, and a handler that returns can start again,
so sequences of any length are covered. Two quotes of different expiry and owner
compete for one payer's slot; the clock passes the first quote's expiry while the
second is still valid, and the end of both. Three checkouts
are one more than a race needs, so that one of them can be refused by what the
other two reserved. In a conversation, two starts give each state of an earlier turn
to a later one, and two requests overlap them; a message that finds one offer leaves
the other for a client to name. The proofs below remove the
bounds from every safety property of the runs that pass.

In the sweep, an order has one indeterminate intent at a time, so that batches of two
rows need three orders before a row is passed over, and an order needs two intents
before it refuses one. Four intents cover both, and `InOrder` of `MCSettlementSweep`
keeps the states to the two mixes of three: two intents of one order with one of
another, in which a refused row can have a row behind it, and one intent of each of
three orders, in which the third stays behind two that are indeterminate. Each of the
three reasons of `Blocked` is needed there: with any of them left out, TLC finds
`SweepSettles` violated. `InOrder` takes interchangeable intents and orders in one order
(i1 before i2; i4 last, when i1 and i3 wait in this order), in place of a `SYMMETRY`,
which liveness does not allow. In the mix of three orders two things are bounded: the
transactions succeed, and i4 is not touched again after its claim. In the other mix
nothing is.

`purchase`, `checkout` and `storefront` each put components in one run that share no
state: the initial state picks one (`active`), its actions run and the others rest in
their initial states, so that the states are the sum of the components' and not their
product. In `checkout` and `storefront` they are separate routes or separate pages, and
what they share in the code, the scope check and the error codes, has no state of its
own; interchangeable requests and intents are taken in one order (`InOrder`). In
`purchase` they share the rows of `commerce_quotes`, which a conversation only adds
(`SaveApproved`) and a payment only reads: `PaymentIntents` has a step of its own for
each row that appears (`SaveQuote`), at any time.

Five searches have each source and each way to be refused, and one of them can wait
while another sets the flag. Two rankings are enough to contend for a session; the
candidates tie, repeat one another by URL and by title, lack a score or a row, and name
a currency that is refused. Three first requests are one more than a race needs, so that
a later one finds what the race left in the caches. Two clients fill a window of three
requests and hold a half-open breaker from each other. Three searches and three streams
let an answer be late by more than one.

`SYMMETRY` is used in `purchase`, over handlers, intents and keys of the payments and
over requests, offers and quotes of the conversation, which have the same two values
each: no constant tells them apart, and no liveness is checked there.
`CHECK_DEADLOCK FALSE` is set where the system may stop: every checkout answered, every
intent settled, a page nobody clicks on, a conversation that ended. Of the payment
requests, which never stop, `intents_liveness` checks that they do not.

### Fairness

* `intents_liveness`: a handler that was not aborted goes on (Node resolves its
  promise or rejects it). Strong fairness of `ReconcileIntent`, `Lookup` and of the
  settlement of each intent says that polls or sweeps keep coming, and that neither
  Horizon nor PostgreSQL fails each of them forever. Weak fairness would not
  do, as each step is disabled while another handler is at it. The ledger, the clock,
  callers and crashes have no fairness.
* `sweep`: the operator keeps sweeping (nothing in the code does, see below), time
  passes, and a transaction that is on the ledger is found by one of the lookups in
  the end.
* `checkout`: a waiting handler goes on; the thirty-second timer is what bounds the
  wait for Horizon, and the ten-second timer of the breaker what bounds the wait for the
  model, which never has to answer. Time passes, as a timer that is due fires first.
* `storefront`: a call is answered or fails, and what is on the ledger gets settled.
  Users, the wallet and lapses have none.

## What the code does not do

Each of these is a run that ends in a counterexample; `findings` in `PROJECT.json`
quotes the text that says otherwise.

1. An intent that was claimed and whose transaction never reached the ledger stays
   indeterminate for ever and keeps its payer from opening another
   (`IndeterminateEnds`). The sweep's comment promises a terminal state.
2. `createIntent` does not look at the order: a quote that is paid can be paid again
   under another key. The second success can then never be settled (`ChargedOnce`).
3. That refusal leaves `reconcileBatch` as an exception, although the comment says
   one intent cannot abort the sweep (`NeverThrows`).
4. The daily cap is read, compared and added to in three commands; two checkouts pass
   it together (`DailyCap`).
5. The checkout's idempotency key is not looked up; a retry with another envelope is
   charged again (`ChargedOncePerKey`).
6. The lifetime cap is held against the amount in the body. The envelope that is posted
   is never compared with it, so that a token can move any amount (`LifetimeCap`).
7. The progress view says "Paid" under every receipt: of an intent that is submitted or
   failed, and of an earlier one beside a new intent (`PrintedIsPaid`).

Seen while reading, without a run of their own.

Payments and conversation:

* the page asks for a receipt once, and one that is not paid yet leaves it
  `reconciling` with its button disabled until it is loaded again
  (`checkout-machine.ts:50-56`, `use-checkout.ts:50-52`); the cart is never emptied
  after a payment;
* a message that is surely out of domain and has the route `llm` is answered by the
  model, whatever else its signal says, and the gate's fixed text is dropped
  (`CallsModel`; `shopping-agent.ts:189-199,231-246`), although the agents' README
  (6-8) has the graph ask back whenever evidence lacks or escalation is needed;
* a second start on a thread keeps its tool messages, so that the model may skip the
  search and the old offers become the candidates of the new message (`SkipSearch`);
* a crash between the saved quote and the checkpoint, or two requests at once, can leave
  a thread `cancelled` whose quote is approved in the table; an approval does not look
  at the quote's expiry, which `createIntent` does later; the offer is read again when
  it is quoted and its price is not compared with the one that was shown
  (`catalog-quote-provider.ts:47`);
* the sweep's comment says it reports an intent that a request settled first as
  unresolved, the code reports it resolved; nothing in the code starts the sweep but a
  request to its route;
* `withTransaction` passes `client.query` without its client, which works for the
  tests' fake and is modelled as they use it; a failed compare-and-set in `getIntent`
  returns the older copy;
* `createAgentRuntime` supplies no token store, so the firewall is only composed by
  callers that pass one.

Agent routes:

* a checkout whose payment timed out is answered with `PAYMENT_FAILED`, and one whose item
  does not exist, after the payment, with `RESOURCE_STATE_CONFLICT`; both declare the
  financial effect `none`, as their whole category does in
  `docs/Taxonomia_Errores_v1.md:44`, although money may have moved. `RetryIsFree` holds
  because neither invites to retry;
* what is reserved of the lifetime cap lacks the digits after the second, which the
  schema admits (`routes.ts:140`), so that envelopes that pay what they declare can pass
  the cap together too; `DeclaredWithinCap` allows for it;
* a checkout refused by the daily cap has already reserved its amount of the lifetime
  cap, and each retry that its `RATE_LIMITED` invites to reserves it again;
* a half-open breaker refuses a client that has waited out its `Retry-After` while the
  trial call runs (`ToldWhenToRetry` allows it);
* the ranking compares prices as they are listed, although the normaliser's comment
  (`normalization.ts:8-14`) is about comparing them in one currency;
* a session whose results failed to be stored can never be completed: a retry fails on
  the session's primary key. Results expire after fifteen minutes whatever
  `ttl_seconds` says, as `expires_at` has a default and is not written;
* two first requests of the shopping route open two pools, and `close()` ends one
  (`raced` of `AgentRuntime`);
* the boolean settings are read with `z.coerce.boolean` (`env.ts`), which takes "false"
  for true.

Pages:

* the React search sends only `queryText`, which the backend answers from the offline
  catalog, as it embeds nothing; a blank query is refused by the schema; the page
  ignores the fallback flag;
* adding to a line of the React cart replaces the snapshot of the whole line, so that the
  units that are in it take the new price (`cart-reducer.ts:33-36`);
* outside the demo mode the checkout is called with an empty quote id
  (`handleCheckout`);
* in the legacy header `restore` never restores in the browser, as the SDK is loaded
  lazily; nor does the React app restore after a reload;
* the legacy header keeps a disabled "Connecting..." button after a connect that failed:
  the error's event comes before `finally`, and none after it
  (`wallet-controller.ts:106-112`); `SlotInStep` leaves that case out;
* in the legacy search a stream that was aborted and ends without a batch puts its empty
  state over the newer search (`product-stream.ts:123-125`); `ResultsOfLatest`
  leaves that case out.

## Proofs

Each theorem holds for every value of the constants, under the assumptions named in the
modules: the shapes of the constants and null values outside their sets, and what is
said below.

Of `PaymentIntents` (`PaymentIntents_proofs`), with a positive longest time bound:

| theorem | property |
|---|---|
| `TypeCorrect` | `TypeOK` |
| `Invariance` | the inductive invariant `IInv` |
| `OnePayerSlot` | `OneActivePayer` |
| `SettlementIsAtomic` | `SettledTogether` |
| `NeverPostedTwice` | `PostedAtMostOnce` |
| `LapsedNeverPosted` | `ExpiredNeverPosted` |
| `RecordsAgree` | `RecordsAgreeWithLedger` |
| `KeysNameIntents` | `KeyNamesOneIntent` |
| `PaymentsWithinApproval` | `PaidWithinApproval` |
| `Refinement` | `ImplementsSettlement` |

`TypeOK` includes what a handler must hold at each label, without which no handler's
step preserves the types of the tables it writes. None of the others is inductive by
itself: `RecordsAgreeWithLedger` says nothing of a handler that waits to write an
outcome it was told two awaits ago. `IInv` is the conjunction of

* `TypeOK`, `OneActivePayer`, `SettledTogether`;
* `SubmissionInv`: a handler about to post an intent is the only one, its intent is
  submitting and was never posted; an intent that is awaiting a signature or expired
  has no such handler, no post and no trace; so a compare-and-set that succeeds is
  the only way to a post;
* `OutcomeInv`: a handler about to write an outcome holds the ledger's, which never
  changes again; so a stale handler can be late but not wrong;
* `KeyInv`: every answer given refers to a row under the asker's key and for its
  quote, and no two rows are under one key;
* `TimeInv`: the time bound of a row, and the one a creating handler carries, is
  within the approval of its quote.

The empty tables satisfy it (`InitIInv`), each action keeps it (`NextIInv`, one lemma
per conjunct and group of actions), and given `IInv` each action is a step of
`OrderSettlement` or a stutter.

Of the sweep (`SettlementSweep_proofs`), with a positive limit:

| theorem | property |
|---|---|
| `TypeCorrect` | `TypeOK` |
| `Invariance` | the inductive invariant `IInv` |
| `ReportsAreTrue` | `ReportIsTrue` |
| `SettlesOnlyStale` | `SettlesUntouched` |
| `SweepKeepsPromise` | `SettlesAsPromised` |
| `PassesOverForOlder` | what keeps a stale intent out of a batch: `Limit` older ones |

A worker decides on rows it read before other workers and requests went on. `IInv` says
how far they may be off: a row of a batch is behind the table, never ahead of it, and
one that is as it was read has not been touched since (`BatchInv`); a resolved outcome
is the one in the table (`OutcomesInv`); the queue holds what was claimed (`QueueInv`).
`SweepKeepsPromise` needs besides that a worker about to settle has found an outcome,
which stays, and that a confirmed intent has paid its order (`SettlementInv`); then two
workers at one row are one settlement and one stutter. `PassesOverForOlder` is the part
of `SweepSettles` that the prover can be asked about: the liveness property allows an
intent to wait for older ones, and this is why nothing else passes it over.

Of the agent checkout (`AgentCheckout_proofs`), with at least one day:

| theorem | property |
|---|---|
| `TypeCorrect` | `TypeOK` |
| `Invariance` | the inductive invariant `IInv` |
| `PurchasesArePaid` | `PurchasedWasPaid` |
| `RetriesAreFree` | `RetryIsFree` |
| `SpendInvariance` | the inductive invariant of the sums, `SpendInv` |
| `DeclaredAmountsCapped` | `DeclaredWithinCap` |
| `PaymentsAreCounted` | `PaymentsCounted` |

`PurchasedWasPaid` looks at orders; between the payment and the order nothing but the
place of the request says that it is paid (`PaidInv`). `RetryIsFree` looks at refused
requests; the invariant says of each await whether the payment was posted
(`PostedInv`) and that a refusal after it has one of three codes (`AnswerInv`). That none
of the three invites to retry is a lemma about the registry (`AfterInvitesNothing`), so
the theorem would fail with either a wrong step or a wrong table.

Both sums are of declared amounts, and no theorem is about what the envelopes pay:
`LifetimeCap`, which is, does not hold. The sums run over what was posted, and neither
is inductive: a request is reserved, and later counted, before it is posted.
`ReservedInv` bounds the sum over all requests that are beyond their reservation,
posted or not, by what the store holds, and that by the cap; `CountedInv` bounds the
sum over those beyond their increment by the spend of all days. A request that fails
in between leaves the sum and not the counter, which is why both are inequalities.
`DeclaredWithinCap` follows up to the digit that `decimalToAtomic` cuts off each
amount (`CutOff`); without that allowance it is false.

Of what is behind the agent routes (`AgentRoutes_proofs`), each from its initial
predicate and its steps alone; `MCAgentApi` runs them one at a time:

| theorem | property | needs also |
|---|---|---|
| `AnswersNameSource` | `FallbackIsTrue` | types; what a filter and a limit leave of a listing (`KeptIsPart`, `FirstOfIsPrefix`) |
| `AnswersAreRanked` | `OffersAreRanked` | offers that wait to be stored are the ranking of what their request brought (`RankedInv`), and `RankingRanks` |
| `RankingsAreWhole` | `StoredWhole` | a session whose results are being inserted has no rows yet and no other request behind its first insert (`SessionIsOnes`) |
| `PoolsAreHeld` | `PoolsHeld` | a pool that is being prepared is not in use by anyone (`PoolsAreTheirs`); without a race there is one (`OnePool`) |
| `ChatIsTimed` | `RefusalsAreTimed` | a client's wait is at least what is left of its reason (`WaitsLongEnough`); when the breaker opens, calls under way have less left than it has to its half-open state (`CallsEndFirst`) |
| `GrantedIsBounded` | `BudgetKept` | types |

`RankingRanks` is about the pipeline itself: for every list of products that the schema
lets pass and every `topK`, `RankCandidates` returns an `IsRanking`. It rests on the
score never falling when a product gets better in some respect (`BetterScores`; the
rounded quotient of the price term is the part that is not obvious, `PriceTermFalls`)
and on the order of scores, ties by place, being a strict one (`BestFirstIsStrict`).
The assumptions are what the schemas of the routes enforce: positive prices and limits,
a `topK` within its maximum, scores of at most a hundred hundredths or none.

Of the React checkout with its wallet, and of the two pages (`Storefront_proofs`):

| theorem | property |
|---|---|
| `TypeCorrect` | `TypeOK` |
| `Invariance` | the inductive invariant `IInv` |
| `HeaderShowsSession` | `ShownIsSession` |
| `PaidPhaseMeansPaid` | `PaidIsPaid` |
| `OnePayable` | `OnePending` |
| `PageShowsLatest` | `PageIsTrue` |
| `LegacyPageKeepsStep` | `LegacyPageInStep` |

`PaidPhaseMeansPaid` is about the page's phase and the status inside a receipt; what the
view prints around a receipt is refuted by `storefront_prints_paid`.

`IInv` adds to the properties that a call about an intent is about one that was created,
that what is confirmed is a success on the ledger, and that one intent is active, from
which `OnePending` follows: `CreateIntent` needs every other intent out of `Active`.
The catalog page keeps `OneSearch`, that a busy page waits for its last search and no
other; the legacy page `OneWrites`, that of the running streams only the last is
not aborted, with `PaneInv`, that an empty state comes from a stream that has ended.

Of `ShoppingConversation` (`ShoppingConversation_proofs`):

| theorem | property |
|---|---|
| `TypeCorrect` | `ThreadTypeOK` |
| `Invariance` | the inductive invariant `IInv` |
| `SavedQuotesApproved` | `SavedWasApproved` |
| `AuthorizedQuotesSaved` | `AuthorizedIsSaved` |
| `ApprovalsOfOneTurn` | `ApprovalIsOfThisTurn` |
| `SearchesAreWarranted` | `SearchedOnlyWhenConfident` |

Its invariant says of every state, the checkpoint's and each run's, what
`ApprovalIsOfThisTurn` says of the checkpoint alone (`StateOK`), because a run that was
overtaken writes its own state later; and of a run between the save and its checkpoint
that the quote is there (`SavingOK`) and was asked for (`EventsOK`). A new quote
disturbs none of them, as its id was in no state.

`Collections_proofs` has what several of these need. The induction theorems of the
library take an operator, which no installed prover can instantiate; `FiniteInduction`
and `CountingInduction` say the same of a set of sets and a set of numbers, and follow
from the well-foundedness of proper inclusion and of the naturals. From them come the
sum over a set with one element more or fewer (`SumMore`, `SumLess`), of a part
(`SumOfPart`) and of functions that agree on it (`SumAgrees`), and that the place of an element in a strict
order is its number of predecessors, so that `Sorted` lists a finite set in the order it
is given (`SortedIsSorted`).

Only model-checked: the liveness properties, which are beyond the prover. They are
`OutcomeRecorded`, `SweepSettles`, `EveryCheckoutAnswered`, `ApiCallsAnswered` and
`CheckoutAnswered`. What the runs that end in a counterexample refute has no theorem
either.

## Not modelled

* Content of transactions: operations, amounts, memo, sequence numbers, signatures.
  The hash stands for it. A stale sequence number is a transaction that never is
  applied.
* Requests of the payment routes refused before anything is written: schemas, tokens,
  ownership. Those of the agent routes are in `AgentRoutes`.
* The search loop inside the react node of the shopping agent, which only adds messages
  and offers to the state of its run, and the texts of messages.
* `purchase_intents` in SQL: no code of the repository writes the table, so that a model
  of its trigger and row policies would have no actors.
* Reading and importing items, `agent-search.ts`, `search-agent.ts`: one call whose
  answer is passed on.
* Mock clients of the demo mode, the transaction progress box, titles, colours and other
  rendering. `setQuantity` and `clear` of the cart, which nothing dispatches.
* Vendor adapters, the breaker around the embedding and vector-store calls, which only
  makes a failing call fail earlier, reading the environment, start scripts: no state
  that a property would be about.

## Plan

What is left, in this order:

1. The payment service inside `Storefront`, whose comments call its steps those of
   `OrderSettlement`, shown to be so as the sweep's are.
2. A property for the second start that keeps the tool messages of the first
   (`shopping-agent.ts:122`), once the code or a document says what should happen to
   them.
3. The react node's search loop against `BudgetTracker`, once the code composes them
   (nothing constructs a `BudgetTracker` outside its test).
4. The conversions of `domain/payments.ts` against a reference definition.
