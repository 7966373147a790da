# ArcPass in TLA+

ArcPass sponsors the first transaction of a wallet. A web page submits a request
to an HTTP API, the API inserts a row into PostgreSQL, workers poll the rows and
pay each wallet once from a vault contract, and the page polls the row until it
is settled. This directory holds the TLA+ model of that system, the instances
TLC checks and the proofs TLAPS checks. All source paths are relative to the
repository's root.

Run `tlc -config RelaySafety.cfg MCSponsorshipRelay` (and so on, see *Runs*) and
`tlapm SponsorshipRelayProofs.tla` from this directory.

Contents: 1 the system, 2 the modules, 3 the runs, 4 findings, 5 what is proved,
6 what is only model-checked or not modelled, 7 the plan.

## 1. The system

| component | state | operations | talks to |
|---|---|---|---|
| status tables (`packages/shared/src/sponsorship-types.ts`) | none | the two transition tables | API services, worker |
| API submission (`apps/api/src/routes/sponsorship.js`, `services/sponsorship.service.js`, `lib/sponsorship-validation.js`) | `wallets`, `sponsorship_requests` | lookup of the wallet, two lookups for other requests, INSERT (four statements, no transaction) | database |
| request processor (`apps/worker/src/processor.ts`, `lifecycle.ts`) | the same tables and `relay_transactions` | one database transaction per request: row lock, checks, relay row, relay, outcome, commit | database, relay executor |
| relay executor, contract client (`relay-executor.ts`, `contract-client.ts`) | calls under way | `writeContract`, wait for the receipt, abort timer, classification of errors | RPC node |
| poller (`poller.ts`) | running flag, timer, cycle | query of at most `batchSize` ids, dispatch one after the other, stop | database, processor |
| worker start and shutdown (`worker.ts`, `main.ts`, `config.ts`, `viem-client.ts`, `packages/shared/src/db.ts`) | poller, two timers | check of the database's URL at import, configuration, chain check, signal, drain, forced exit | poller, RPC node |
| vault and registry (`contracts/src/*.sol`) | balance, limit, operator, registry, count per recipient | `sponsorTransfer`, administration, `recordSponsorship` | recipients |
| rate limiter (`services/rate-limit.service.js`, hooks of `server.js` and `routes/sponsorship.js`) | `rate_limits` | check, increment with reset or block | database |
| replay protection (`plugins/replay-protection.js`) | `rate_limits` | lookup, then update or insert | database |
| wallets (`services/wallet.service.js`, `routes/wallets.js`) | `wallets` | registration (create or count), lookup, history by pages | database |
| API process (`server.js`, `plugins/*.js`, `lib/errors.js`) | the calls in its handlers | order of hooks and routes, error handler, not-found handler, shutdown | clients, database |
| client of the page (`apps/web/src/lib/api-client.ts`) | a call and its timer | request, headers, body, timeout | proxy |
| backend proxy (`apps/web/src/app/api/backend/[...path]/route.ts`) | a call it forwards | forward, pass on, 502 | API |
| request form (`apps/web/.../request-form.tsx`) | form state, interval, polls under way | submit, poll, retry, stop | API |
| dashboard, infrastructure page, logging, deployment and end-to-end scripts | none that outlives a request or a run | | |

What is hard about it:

* **The lock is not as long as the work.** `processRequest` runs the on-chain
  relay *inside* the database transaction that holds the row lock. The database
  ends that transaction after `lockTimeoutMs` (30 s), the relay may take
  `txTimeoutMs` (120 s), and nobody tells the callback.
* **Giving up is not cancelling.** The abort timer of the executor stops waiting
  for a call; the call is still mined, perhaps after the request was committed
  as failed.
* **A crash is a rollback** of the rows and not of the payment.
* **Check-then-act everywhere in the API**: eligibility, rate limit, replay
  window, registration.
* **Two limits that do not know each other**: `MAX_RETRIES` (default 5) in the
  processor, 3 relay rows in `lifecycle.ts`.
* **Callbacks**: the vault calls the recipient before its own function is over.
* **Timers**: two shutdown timers and a poller that must drain.
* **Three parties, no cancellation**: page, proxy and API each give up by
  themselves; what the next one is doing goes on and may still take effect.
* **A process that stops while it is called**: the API disconnects its database
  before it stops accepting, under a timer that may fire at any moment, and its
  close waits for connections and not for handlers.
* **A reply that is sent and not yet sent**: the replay hook sends its refusal and
  returns nothing while asynchronous `onSend` hooks are still to run, so the next
  hook is called for a request that has been refused.

What makes each component correct:

* *core*: no request completed for an unpaid wallet; no wallet paid twice; one
  request in progress per wallet; a settled request never changes; a run shows
  as a whole or not at all; every accepted request is settled in the end.
* *contracts*: one payment per recipient whatever the recipient calls back.
* *poller and shutdown*: an exit that reports success leaves no request half
  way; shutdown ends; requests that can never be settled do not keep the others
  from their turn.
* *rate limiter*: what the counters bound when requests run concurrently; when a
  block may be lifted.
* *form*: it keeps control of its intervals in every order of answers, and the
  user ends with a settled status or with the retry button.
* *history*: a walk through the pages repeats nothing and skips nothing.
* *API process*: an exit that reports success takes no answer from a caller who
  is still waiting for it; shutdown ends.
* *way of a call*: from how its call ended the page may conclude whether it was
  carried out: acknowledged means it was, refused means it never will be; of
  anything else it may conclude nothing, and it does hear something.
* *configuration*: start separates the environments a worker can work with from
  the others, and what it overlooks can be named.

## 2. Modules

| module | models | theorems |
|---|---|---|
| `SponsorshipTypes` | the status constants and transition tables | |
| `Sponsorship` | the abstract promise: submit, pay, settle | |
| `SponsorshipRelay` | the core: submission handlers, registration, workers, the chain as the worker sees it, crashes, lost transactions | `SponsorshipRelayProofs` |
| `SponsoredOnce` | the abstract promise of the vault: one payment per recipient, for good | |
| `SponsorshipRefinement` | the mappings under which the core implements `Sponsorship` and its chain keeps `SponsoredOnce` | `SponsorshipRefinementProofs` |
| `SponsorshipClaims` | properties of requests with rows of an earlier run, and statements of the documents | |
| `SponsorshipRelayInvariant` | the inductive invariants of the core, and what follows from them for the whole | |
| `SponsorVault` | the two contracts with everything a recipient may call back | `SponsorVaultProofs` |
| `WorkerConfig` | the worker's configuration: what import and `loadConfig` let through, what a worker needs, what nobody looks at | |
| `WorkerLifecycle` | start (with `WorkerConfig`), poller, drain, signal handler, exit codes, restart | `WorkerLifecycleProofs` |
| `RateLimiter` | replay protection and, behind it, a counter of the rate limiter | `RateLimiterProofs` |
| `WalletHistory` | the history of a wallet, page by page | `WalletHistoryProofs` |
| `RequestForm` | the page that submits and polls | `RequestFormProofs` |
| `RemoteCall` | the abstract promise of a call: acknowledged, refused, unknown | |
| `RequestPath` | the page's client, the proxy, the API's hooks, handlers and error handler, and its process | `RequestPathProofs` |
| `MCSponsorshipRelay`, `MCSponsorVault`, `MCWorkerLifecycle`, `MCRateLimiter`, `MCWalletHistory`, `MCRequestForm`, `MCRequestPath` | instances for TLC | |

`SponsorshipRelay` is the composition of API, worker and chain; the other modules
look at one of its neighbours more closely. `WorkerLifecycle` has the poller that
`SponsorshipRelay` reduces to "some worker takes some eligible id" and reduces in
turn a run of `processRequest` to "settles or throws". `SponsorVault` has the
contract that the core reduces to `Payable` and `Mine`; `SponsoredOnce` is what the two
have in common: the contract implements it (`ImplementsSponsoredOnce`), and so do the
core's calls (`RestsOnSponsoredOnce`), so the core takes no more of the chain than the
contract keeps. `RequestForm` sees the
API only by the ids and statuses it answers with. `RequestPath` composes the page's
client, the proxy and the API for single calls; it has the handlers of
`SponsorshipRelay` again, with the failures and lost answers that the core leaves
out, and reduces worker and replay protection to what they may do to a row or a call.

### The core, `SponsorshipRelay`

*State.* `status`, `relays`, `sponsorshipCount`, `blocked` are the committed
rows. A worker's transaction is its `draft`: what it has read and written and
nobody else sees; `open` says that the transaction lives and holds its row lock.
`registry` is the on-chain record, `txReq` and `txState` the calls of
`sponsorTransfer` with the request they are for and how far each got, whether or
not a worker still waits (`hash`).

*Actions.* A handler's `Submit`, `CheckActive`, `CheckCompleted`, `Insert` are
the four statements of a submission. `Register` is `POST /wallets/register` for a
wallet the table has: one statement decides, the next increments, and only the
latter is visible, so it is one action. `BlockWallet` is the operator's. `Poll` is the poller's query, `Lock` the
dispatch of one id with `SELECT FOR UPDATE SKIP LOCKED`. One action follows per
outcome of a step of `processRequest`: `RejectBlocked`, `FoundConfirmed`,
`FoundSubmitted`, `RetriesExhausted`, `Prepare` (approve, relay row, submitted),
`CallRelay`, `RelayAnswered`/`RelayTimeout`/`RelayError`, `Conclude`, `Commit`.
Statements between two waits on other actors whose effect only the transaction
itself can see are one action: the row lock and the isolation of the draft keep
everybody else out. `TxTimeout` is the database ending the transaction (the
callback goes on and `FailDeadTx` is its next statement throwing), `Crash` the
death of the process. `Send`, `Refuse`, `Mine`, `Revert` are the chain's.

*Where it abstracts.* A relay row is its status; hashes, explorer URLs, amounts
and timestamps are left out. Which text of an error the client reads as
`AlreadySponsored` is a choice, limited to a registry that has the recipient:
the worker asks for that error by its selector or name and only the vault
produces it. `LIMIT batchSize` is left out here (`WorkerLifecycle` has it). A wallet
exists before its first submission.

*One column, two meanings.* `sponsorshipCount` is incremented by the worker when
it completes a request and by a registration of a known wallet.
`CompletionsAreCounted` therefore says of every step that it is a registration or
counts exactly the requests it completes. The documents do not agree on what the
column is: "Total sponsorship request count" (`docs/api/endpoints.md:150`),
re-registrations (`.kiro/specs/wallet-registry/requirements.md`, requirement 1).

*Rows nobody in the repository writes.* A worker commits only `pending` to
`rejected`, `completed` or `failed`. `relayed` rows, which the poller's second
condition and the processor's idempotency guard look for, can only come from the
exported service functions `updateSponsorshipStatus`, `createRelayTransaction`
and `updateRelayStatus`. `Leftovers` are requests that start with such rows.
`docs/architecture/runtime-flow.md:198` has requests stuck in `relayed` when a worker
dies after the submission; in the code they cannot be, because the submission, the relay and
the outcome are one transaction (`SettlesInOneStep`, proved as `NeverSeenHalfway`).

### `SponsorVault`

*State.* `storage` is what the two contracts keep: operator, limit, registry,
balance, the registry's count per recipient, and a history variable `paid`.
`stack` holds the calls under way, each with the storage it returns to if it
fails. *Actions.* One per function of the contract, `Invoke` for a transaction to
an account with code, `Return` and `Fail` for the end of a call. A function that
sends value is one action up to its call, because nobody acts in between; what the
recipient does, including calling the vault again, are further actions with the
recipient as `msg.sender`; the function's own end is the `Return` or `Fail` of that
call, since nothing follows it but `require(success)` and an event. *Abstracted:*
events, the revert reasons, gas; `timestamp` of the registry. A function whose
`require` does not hold is a disabled action: it would revert and change nothing.

### `WorkerLifecycle`

*State.* The environment `env`; `pending` rows; the process (`proc`, `exitCode`); the poller's
`isRunning`, `timer`, `cycle`, `batch`; the shutdown's `stopping`, `timedOut`,
`drained`. *Actions.* `Load`, `LoadFails`, `Start`, `ChainIsOther`, `VerifyFails` are
the steps of `worker.start`, `Kill`, `Restart` what the orchestrator sees; `Tick`, `Query`,
`QueryFails`, `Dispatch`, `Settles`, `Throws`, `FinishLoop` are the steps of
`pollCycle` and `scheduleNextCycle`; `Signal`, `Drained`, `StopTimeout`,
`Disconnected`, `ShutdownTimeout` those of `shutdown` and `worker.stop`. The timers
of `main.ts` and `worker.ts` have the same delay and the first is armed earlier;
the model lets either win. A signal during the chain check ends the process with
code 0, since `worker.stop` finds no poller.

`WorkerConfig` is the checks of start as predicates on environments: a value is what
matters of its text (blank, malformed, of the right format and yet no key, out
of range ...). `Imports` is `validateDatabaseUrl` of `packages/shared/src/db.ts`, called
when `worker.ts` imports it and so before `start`: the scheme of `DATABASE_URL`, of the
text as it is. `resolveEnv` promotes an alias, `Missing`, `BadFormat`, `BadNumber`,
`BadAmount` are the four kinds of entries in `errors` of `loadConfig`, each with its own
idea of trimming. `Derives`, `Parses` and `ChainMatches` are the key, the node's URL and
its chain. `Unfit` is said without them, from what a worker needs: the names
whose effective value is not one that the code which uses it can work with. `Usable` is
an environment without any; `Overlooked` are the three kinds of unfit value that no
check looks at: a fraction as a limit, an address in mixed case with a wrong checksum,
what follows the scheme of the database's URL. With those the worker polls and its
queries and runs may fail for ever (`Failed`, `Connects`); `OthersAreServed` is said only
of `Usable` environments.

*Abstracted:* delays; what a run does to its request
beyond settling it or throwing; a second `start()` of one poller, which nobody makes.

### `RateLimiter`

The hooks in front of `POST /sponsorship/request`, for one wallet and one address.
*State.* Which of the two counters is looked at (`counter`), the rows of the key
`wallet:ip` (`stamps`) and of the counter's identifier (`rows`), the requests under way
with what they have read, and which of them are refused duplicates (`echoes`). Times are
kept as ages (how long ago the window began, how long the block has left, how
old a request's `now` is), so time may go on for ever. *Actions.* `Screen`, `Recall`
and `Stamp` are the three statements of `replay-protection.js`, `Check`, `Read` and `Write`
the counter's three visits to the table, `Tick` the clock. Nothing in the schema forbids
two rows for one identifier, and `findFirst` has no order, so `Found` is a choice.

`Screen` has two outcomes. `NoDuplicate` goes on to the next statement. `Duplicate` is
answered with 429, but `replay-protection.js:52-59` sends that answer and returns nothing
while the `onSend` hooks of `cors.js`, `security-headers.js` and `correlation-id.js`,
which are `async`, are still to run; until they have, the reply counts as unsent and
the next `preHandler` (`server.js:59-68`) checks and increments the IP address's counter
for the refused request. So a duplicate goes to `Check` when the counter is the IP
address's and ends when it is the wallet's, whose check is in the route's own hook,
by which time the reply is out.

*Abstracted:* the IP and the wallet counter are two copies of the same code on
disjoint rows, one after the other, so one at a time is modelled; `blockIdentifier`, which
nobody calls, is left out; counts beyond the limit are `Capped` (only the comparison with
the limit is ever asked); rows get their ids in order; requests to other routes.

### `WalletHistory`

*State.* `requestedAt` of every row, the walk's `boundary`, `cursor` and last
`page`, and two history variables, `shown` and `base` (what there was when the walk
began). *Actions.* `Begin` and `AskNext` are the lookup of the cursor's row,
`Answer` the query of the page; `Insert` is a submission, with any time. *Abstracted:* the
columns of a row, the wallet that is not found; order within a page.

### `RequestForm`

*State.* The submission (`submit`, `asked`, `requestState`, `barred`), what is on
display (`requestId`, `sponsorship`), polls under way with the answer each is
bringing, intervals that are alive, the one in the ref (`handle`), `retries`,
`showManualRetry` (always equal to `pollingError` being set). *Actions.* `Submit`,
`Registered`, `Create`, `Created`, `SubmitFails` are the steps of `handleSubmit`
(and of the API); `Tick` is the interval, `Read`, `Answered`, `NetworkFails`,
`OtherwiseFails` the life of a poll; `handleManualRetry`, `Unbar` the user's.
*Abstracted:* `validationState` and the rate-limit pause are one flag (`barred`),
lifted at any time; the statuses are `pending` and `terminal`; texts; leaving the
page.

### `RequestPath`

*State.* For each call: what it asks for (`asked`), where `fetchWithTimeout` is with
it and how it ended (`browser`, `heard`), where `proxyRequest` is and what it
answers (`proxy`, `status`), where the API is and what it has decided (`api`,
`answer`). The process (`proc`, `exitCode`); the rows of wallets, the request a call
has inserted, and `served`, the calls that have had their effect (a history
variable). *Actions.* `Send`, `Headers`, `Body`, `Timeout`, `ConnectionLost` are
`fetchWithTimeout`; `Forward`, `ForwardTooLate`, `PassOn`, `ProxyFails` are
`proxyRequest`; `Receive` is everything before the handler, `Register` to
`InsertRequest` the statements of the handlers, `Reply` their return, `DbFails` a
statement that throws, before it took effect (any stage of `Statements`) or after it
(`replying`). `HandleError` maps error classes to statuses as `setErrorHandler`
does. `Signal`, `Disconnected`, `Closed`, `ForcedExit`, `ShutdownFails` are
`shutdown` of `server.js`: `CloseResolves` asks for no handler that is busy *for a
connection the proxy still holds* (`Connected`); one whose connection broke
(`ProxyFails`) is no obstacle and ends with the process. `Crash` and `Restart` are the orchestrator's.
`Settle` is a worker, `Block` an operator.

*Abstracted:* headers, the correlation id, wording, the path; when the limiters
refuse (`RateLimiter` has it; here they may at any time); `TimeoutError` and
`NetworkError`, of which the page knows equally little, are both `unanswered`; exit
code 1 and death by a signal are both `other`; no wallet has requests of an earlier
time; a block is never taken back; a second signal and a failing `listen` are left
out. The lookup of a request or relay by its id may find any row or none.

## 3. Runs

| run | question | instance |
|---|---|---|
| `relay_safety` | is the core safe, and an implementation of `Sponsorship`? | 1 wallet with 2 requests, 2 handlers, 2 workers, 2 calls, 1 fault, registrations up to a count of 2 |
| `relay_recovery` | are earlier rows respected, is everything settled in the end? | a leftover request with up to 2 rows and a fresh one, 2 workers, 1 call, 1 fault, limits 2 and 1 |
| `vault` | is a recipient paid once, whatever it calls back, and is what is committed an implementation of `SponsoredOnce`? | 3 accounts, 2 of them with code, amounts 0 to 2, funds up to 2, 2 nested calls |
| `lifecycle` | does a clean exit abandon nothing, does shutdown end, is every request served, what may be unfit in the configuration of a worker that polls? | 4 requests, 1 that always throws, batches of 2, 2 errors, 3 signals or kills; 3 environments that are fit and every way to spoil one value of each kind |
| `rate_limit` | what is left of replay window, limit and block when requests race; is a client let in again? | 2 requests at once, 2 rows of each key, limit 2, replay window 2, window 3, block 2 |
| `wallet_history` | are pages complete and free of repetition? | 5 rows (4 of the wallet), 2 times, pages of 1 and 2 |
| `request_form` | does the form keep control of its intervals, is the user told? | 2 requests, 2 intervals, 2 polls, 3 retries |
| `request_path` | what may the page conclude from how its call ended, does every call and every shutdown end, and whom does a clean exit leave without an answer? | 2 calls about 1 wallet: two registrations, two submissions, each read beside a call that reaches no handler |
| `claim_stale_recovery` | does stale recovery always work? No | default limits 5 and 3, up to 3 rows |
| `claim_one_broadcast` | is a request broadcast by one worker at a time? No | 1 request, 2 workers, 1 lost transaction |
| `claim_duplicate_reply` | does the loser of two submissions get a 400? No | 2 handlers |
| `claim_form_retry` | does a form that stopped polling offer the retry? No | 1 request, 1 interval, 2 polls |

### Bounds

*Core.* Nothing relates two wallets except a worker's batch, so one wallet
with two requests holds every conflict: a submission while a request is in
progress, after it failed, and after it completed. Two workers and two handlers
are the smallest number that interleaves; a third worker only repeats what the
second does to the first. Two calls let one worker's call outlive its
transaction while another is made. One fault is enough for each single loss
(crash before, during and after the call; transaction lost before the relay,
during it and before the commit); the theorems hold for any number.
`MaxRetries = 2`, `MaxRelayAttempts = 1` keep both limits in reach of two
leftover rows. `TxIds` bounds the calls: a worker with no free call can still
fail (`RelayError`), so that liveness does not come from the bound. `MaxCount`
bounds registrations and is 0 where the count is not asked about.

*Vault.* Depth 2 is a payment within a payment, the smallest reentrancy; the
theorems hold for every depth. Funds of 2 allow two payments, a limit of 1 and an
amount beyond it.

*Lifecycle.* Four requests and batches of two leave requests behind a full batch;
one that always throws is the most of which `OthersAreServed` promises anything.
Ids that are settled may arrive again, so time does not run out of requests.

*Rate limiter.* A window longer than the block and than the replay window, and of
more than one tick, so that each can end first; a replay window of one tick would
hide a client that asks once a tick; two requests are the smallest race, and two rows are all
that two requests can create at once. The initial states have either counter.

*History.* Two times for five rows make ties certain, ids are in no order of
time, the foreign row can be a cursor; pages of one and two end both with
and without a remainder.

*Configuration.* One name of each kind of check, with every value that name may have, the
others as they should be; the aliased key once, since an alias is checked after its
promotion. The environments with an overlooked value are among them: those workers poll.
`PollsIfChecked` is proved for every environment.

*Way of a call.* Two calls about one wallet are the smallest race of each write with
its like; a third meets nothing a second does not leave. The reads and the calls that
reach no handler change no row, so two of them are paired in one instance. Crashes,
restarts, lost connections and failing statements are not bounded.

*Form.* Two requests are a resubmission while the first is still polled. Two
polls overtake each other. Three retries are the code's own number.

### Fairness

* `SponsorshipRelay!FairSpec`: weak fairness of each worker's own step and of
  nothing else: the process's event loop runs and every wait in `processRequest`
  is bounded by a timer (abort timer, receipt timeout, database timeout), so some
  step of the worker stays possible and is taken. No fairness is assumed of the
  chain, of clients, or of faults. `MaxFaults` makes faults finite, which is what
  "settled once crashes stop" needs.
* `WorkerLifecycle!FairSpec`: the process loads its configuration and its node answers or
  fails (`verifyChainId` races it with a timer), the orchestrator restarts it
  (`restart: unless-stopped` in `docker-compose.yml`), the poller's next step and
  the drain's are taken. None of the two shutdown timers is relied on.
* `RateLimiter!FairSpec`: time passes and, of the client's requests, one or another
  goes on; which of them is left open, and that the client *keeps asking* is the subject of
  `ClientsAreServed`. That property is conditional: from some moment on no refused
  duplicate is at the counter. The wallet's counter has none, so there the condition is
  empty; for the IP address's it is needed (section 4).
  `EchoesAreRefused` is conditional: no two requests are in the replay hook at once.
* `RequestPath!FairSpec`: only the page's timer and the API's `forceExit` timer are sure
  to act. Nothing is assumed of proxy, handlers, database or network, so
  `EveryCallEnds` and `ShutdownEnds` rest on those two timers alone.
* `RequestForm!FairSpec`: intervals fire, every poll ends within the ten seconds
  of `fetchWithTimeout`, a worker settles the request (`PendingIsSettled` is the
  core's part). Nothing is assumed of the user. `PromptIsShown` is conditional:
  it is about behaviours in which a poll's answer comes before the next poll and
  the user does not resubmit while the form polls; `claim_form_retry` shows what
  happens otherwise.

### Symmetry and view

Symmetry permutes workers, handlers and calls in `relay_safety`, which checks no
liveness property. The view `WithoutOutputs` of the same run takes states for
one that differ only in the answers to clients and in `sponsorshipCount`: no
guard reads the former, only `Register` (whose bound it is) the latter, and of the
run's properties only `CompletionsAreCounted` mentions the count, as the difference
one step makes.

## 4. Findings

Each is a run that TLC finds violated and a line of the repository that says
otherwise.

* **Stale recovery may never end** (`StaleIsRecovered`, `lifecycle.ts:86`).
  `createRelayTransaction` stops at 3 rows while the processor allows
  `config.maxRetries`, 5 by default. A `relayed` request with 3 or 4 failed rows
  is thrown back in every cycle.
* **Two workers broadcast one request** (`NoConcurrentBroadcast`,
  `processor.ts:397`). The lock ends with the database transaction after 30 s, the
  relay inside may take 120 s. The vault still pays once (`PaidAtMostOnce`).
* **500 instead of 400** (`DuplicateIsBadRequest`, `sponsorship.service.js:50`).
  The loser of two submissions meets the unique index, whose error nobody maps.
* **The form stands still** (`StoppedOffersRetry`, `request-form.tsx:87`). An older
  poll's answer takes the retry button away after a newer poll's failure stopped
  the interval.

Seen while modelling, and without a run of their own: a relay that times out is
committed as failed, which is terminal, while
`.kiro/specs/arcpass-production-hardening/requirements.md:169` wants it retried;
a terminal answer for an earlier request stops the polling of the present one and
is shown in its place; a failed resubmission takes away the retry button of the
request on display; a resubmission while the form polls leaves the old interval
running until the page is left, and beyond (`OneIntervalPerRequest` bounds this to
one interval for each replaced request); two identical requests that are in the
replay hook together both pass, while
`.kiro/specs/arcpass-production-hardening/requirements.md:107` wants the second
refused whatever the first is doing (without the condition `OneInHook`,
`EchoesAreRefused` fails).

Of the API's edge: a request that read an expired window resets the row after another
has filled the new one, and takes the new block away
(`rate-limit.service.js:136`; the comment at line 106 has only blocks cleared that
have passed); the hook by which the not-found handler learns the routes is added
after the routes (`server.js:77`), so it knows none and a wrong method is answered
with 404, where
`.kiro/specs/arcpass-production-hardening/requirements.md:270` wants 405 (`RoutesAreMapped`;
the tests register the plugin before their routes); the parser of
`content-type-check.js:25` hands on a `SyntaxError` without the `statusCode` that
`isJsonParseError` (`error-handler.js:107`) asks for, so malformed JSON is answered
with 500 and not with the 400 of `error-handler.js:17` (`ParseErrorClass`). A duplicate
that the replay hook refuses is counted by the IP address's counter (`Duplicate`). The
documents count every request
(`.kiro/specs/arcpass-production-hardening/requirements.md:62`), so this is no
contradiction, but it has a consequence: a client that repeats its request without
leaving the replay window can fill each new window with its own refused duplicates, and
those of its requests that pass the hook then find the counter full, for ever
(without its condition, `ClientsAreServed` fails). A signalled API exits with code 0 while
a handler is still between two statements if that handler's connection has broken; its
caller was answered 502 (`ExitAbandonsNoCaller`).

Of the worker's configuration (`Overlooked`): a fraction passes for every limit, also for
`BATCH_SIZE`, although it is a `LIMIT`, and for `CONFIRMATION_BLOCKS` and `TX_TIMEOUT_MS`,
where `.kiro/specs/real-relay-execution/requirements.md:46` and `47` want the worker to
terminate for what "is not a valid integer"; an address in mixed case that fails its
checksum matches `config.ts:43`, the client refuses it in every relay, and each request
is recorded as failed; of `DATABASE_URL` only the scheme is looked at before the first query.

## 5. What is proved

TLAPS proves the following for every value of the constants that satisfies the
named assumptions in the modules: any number of wallets, requests, workers,
handlers, calls and faults, every depth of calls, every page size.

Most theorems state a property of a run. Those that do not (`NeverSeenHalfway`,
`OutcomesAgree`, `CompletedIsNotPaidAgain`, `CountIsComplete`, `SpendingIsBounded`,
`NobodyElseIsPaid`, `RestsOnTheVault`, `SerialCounting`, `SerialLimit`, `RefusesOnlyUnfit`)
say what several invariants mean together; TLC can be asked for the same formulas on the
instances of *Runs*.

*Core* (`SponsorshipRelayProofs`). Assumed: requests have owners, a wallet
has at most one leftover request, `None` is no request and no transaction id, and
the two limits are positive. None of the run's invariants is inductive alone.
`SafetyInv` joins them with what they need of each other: a commit is harmless
because the lock is exclusive and the locked row unchanged (`LockIsExclusive`, `NoLostResult`); a
draft says `completed` only if the registry has the wallet (`DraftIsHonest`);
that follows from the call the worker waited for (`CallIsForJob`,
`PaidIsRegistered`) or from an earlier confirmed row (`ConfirmedIsRegistered`);
the INSERT needs the index (`OneRequestInProgress`). From it: `TypeCorrect`,
`CompletedOnlyIfSponsored`, `NeverPaidTwice`, `NeverTwoInProgress`, `LockIsReal`,
`SettledStays`. Three further invariants are proved on top of it:
`SeenStaysSettled`, for `AdmittedAfterFailure` (what a submission saw in progress
or completed is settled without success when it reaches its INSERT, for which
the *order* of the two lookups is what matters), `DraftCountsOnce`, for `CountFollows`, and
`DraftRowsFollow`: at each stage a draft has the rows that were locked, or one more behind
them, none of them active and below both limits. The last gives `RunsAreAtomic`,
`RowsAreBounded` and `ActiveRowIsAlone`; the exclusive lock is what keeps the locked rows
as they were read. What the invariants say together about the whole system is stated and
proved beside them: `NeverSeenHalfway` (with `DraftSettles`: a draft is about to commit the status it
has locked or one that settles), `OutcomesAgree` (status and relay rows, which a
client reads together, never contradict each other, leftover rows included), `CompletedIsNotPaidAgain` (nobody is paid after the
completion, not even by a call that was given up), `CountIsComplete` (the
count covers all completed requests of a wallet, a cardinality argument over `CountsMove` and
`CompletedGrows`) and `SpendingIsBounded` (paid calls inject into the wallets).

*Refinement* (`SponsorshipRefinementProofs`). `Refinement`: initial states map to
initial states and every step is a step of `Sponsorship` or a stutter. Besides
`SafetyInv` it needs `CalledIsAccepted`: whoever is paid has asked, since a worker
only ever has accepted requests and a call is only made for a worker's request. Of the
initial states it needs that a wallet has one leftover request at most.
`NobodyElseIsPaid` states what `CalledIsAccepted` is for.
`RestsOnTheVault` is the other direction of the core's boundary: its calls, counted by
recipient, are a behaviour of `SponsoredOnce`. A call that is mined is the first for
its recipient because an earlier success would be in the registry.

*Vault* (`SponsorVaultProofs`). `VaultInv` says of *every* storage on the stack, not only of the present one, that
counts and payments agree and are at most one, and that each frame keeps what the frames below
it recorded, and that all are of their types; otherwise a failing call could bring back a bad state. From it
`VaultNeverPaysTwice`, `RegistryIsTruthful`, `RecordsStay`, and `VaultRefinement`: with the
payments of the storage below all calls (`Committed`), each step is a stutter or the end of
a transaction, and that sponsors a set of recipients none of which had been sponsored before.

*Start, poller and shutdown* (`WorkerLifecycleProofs`). `LifecycleInv` ties the resolved
promise of `stop()` to the end of the cycle, and contains the type invariant, in which
the size of a batch is a fact of its own: of a set of numbers at most `n` have fewer
than `n` below them (`OldestBounded`, by the minimum of the rest rather than by
induction). From it `CleanExit` and `SignalStartsNothing`. `PollsIfChecked` needs that
`proc` beyond `starting` implies a configuration that was let through, and
`LoadedIsChecked`: of what import, `loadConfig`, the key, the URL and the chain check let
through, whatever is `Unfit` is `Overlooked`, for every environment, including those the
instance does not try. `RefusesOnlyUnfit` is the converse (`CheckedIsLoaded`): an
environment is turned away only for a value that is unfit and not overlooked, so no check is
stricter than it must be. Both rest on `ResolvedIsEffective`, what the promotion of
aliases does.

*Counter* (`RateLimiterProofs`). Assumed: there are finitely many requests and rows, `NoRow` is neither a row nor an age.
`CounterInv` needs to know of every request that waits
for its write what it will write (`WritesAreFit`): a reset writes one, a count stays below
the limit, and the row it has read is still a row. From it `CounterInvariant`, for any
number of requests and rows. What holds when requests do not race is stated as an
implication between two invariants: `EchoesRefused` (`PassedIsAlone` and
`PassedKeepsFresh`: a request that has passed within the window is the only one and has
left a stamp that is still fresh), `SerialCounting` (one row at most, and no update is lost)
and `SerialLimit` (what the check has found still holds when the request is counted).
Their conditions are about the hook, about the read and the write, and about the check and the write.

*History* (`WalletHistoryProofs`). `HistoryInv`: the row where the walk stands
separates what was returned from what is still to come. It is kept by an insertion because rows keep their
time, and by a page because what does not fit on it is older than all that does
(`PageIsNewest`, a cardinality argument). From it `WalkIsComplete` and `PagesNeverRepeat`.

*Way of a call* (`RequestPathProofs`). Assumed: every call is about a wallet. `PathInv`
says what page, proxy, API and tables know of each call at each stage; without
`AnswersAreTrue`, which relates the API's stage and answer to `served`, a refusal could
not be known to be final. From it `RefusalsHaveReasons` (with an auxiliary invariant
about what is refused but not yet heard), `CleanExitOfApi` (a busy handler has its
connection, for which the close waits, or its call has been answered 502), and `CallsAreHonest`, the
refinement: each step of page, proxy, API or process is one step of `RemoteCall` or none.
`OneRegistrationIsNew` is the part of `PathInv` that rests on the unique address.

*Form* (`RequestFormProofs`). `FormInv`: everything polled or shown is known to the
API, the answered submission's request is new to the form, the ref holds the
interval of the request on display. From it `RetryLeaksNothing`,
`IntervalsAreSingle`.

## 6. What is not

*Only model-checked.* Liveness under fairness and `ENABLED` are beyond the
prover: `PendingIsSettled`, `RecoverableIsSettled`, `SignalExits`,
`OthersAreServed`, `ClientsAreServed`, `PromptIsShown`, `EveryCallEnds`,
`ShutdownEnds`. Every invariant, every action property and the three refinements that
the passing runs check are proved, and so is `EchoesAreRefused`, whose condition is an
invariant. Induction
over data is beyond the prover as well; no module needs a recursive definition.

*Not modelled.*

* `updateSponsorshipStatus` and the writing functions of `relay.service.js`: exported
  and called by nobody; the rows they may have left are `Leftovers`;
* dashboard, infrastructure page: one fetch after another, no state that survives it;
* of the HTTP plugins, headers, CORS and the correlation id; `GET /health`;
* logger, ABIs, the database client beyond the check of its URL; the API's configuration (its limits are
  constants of `RateLimiter`);
* the deployment script and `validate-e2e.ts`: run once by an operator; the
  vault's initial state is what the script deploys.

## 7. Plan

Built so far: core with its abstract specification, contracts, lifecycle, replay
protection and rate limiter, history, form, configuration, and the way of a call with
its abstract specification, in the order of what a failure would cost. What is left,
should the code come to use it:

1. *Status service*: `updateSponsorshipStatus` and the relay rows' service as
   actions beside the workers, in place of `Leftovers`, once something calls them:
   check-then-write without a condition on what was read.
2. *Deployment*: the order of constructor, registry and `initializeRegistry`.
