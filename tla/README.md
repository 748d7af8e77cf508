# Autonomia Gateway: a verification of its core

The Autonomia Gateway (`apps/gateway`, `packages/core`) is a TypeScript service that sells
access to language models. A caller with an API key sends an OpenAI-style request; the gateway
reserves points for it, calls a provider with one of its own credentials, and charges what the
provider reports. This directory holds TLA+ models of the parts whose mistakes would cost
somebody money or hang the service, the TLC runs that check small instances of them, and TLAPS
proofs for every instance.

## 1. Inventory

| Component | State | Operations | Talks to | What is hard |
|---|---|---|---|---|
| Billing store (`core/billing.ts`, `gateway/utils/ledger.ts`) | user balance, key counters, `ai_requests`, reservations, points ledger | reserve, markDispatched, settle, refund, markNeedsReconciliation, reconcileStale, resolveQuarantined | called by the inference runtime and the maintenance loop | transactions of concurrent requests on the same user and key; late answers against the sweep; callers that die; the actual cost is known only afterwards |
| Inference runtime (`core/inference.ts`) | per request: attempt number, tried credentials, deadline, `terminalPromise`, usage | executeJson, openStream, finalizeStream, failStream | billing store, provider pool, attempt audit, provider client | time (reservation TTL, provider timeout, settlement buffer), retries, a client that cancels, failures between any two awaits |
| Public API (`gateway/routes/aiPublic.ts`) | per request: admission lease, stream reader, replay frames | chat, responses, embeddings, models | limits, runtime, replay store | a reader loop and a cancel callback on one stream |
| Provider client (`core/providers.ts`, `core/sse.ts`) | timer and abort signal of one call | invokeProviderRoute | the network | which failures leave the usage unknown |
| Provider pool (`core/providerPool.ts`) | credentials, leases, cooldown, counters | claim, release, sync, reconcileInFlight | runtime, maintenance | expiring leases against live ones, a counter that is only corrected now and then |
| Admission limits (`core/apiLimits.ts`) | in-flight leases, minute buckets | acquire, release, clean-up | public API | leases with a TTL that starts before the body is read |
| Replay store (`gateway/utils/aiIdempotency.ts`) | stored responses with a TTL | read, save, record, clean-up | billing store (joins it), public API | settling and saving are two steps |
| SQLite adapters (`gateway/utils/db.node.ts`, `gateway/worker/doDb.ts`) | gate, promise chain, waiting queries | dbQuery, withAutonomiaTransaction | everything | one connection, transactions that span awaits |
| PostgreSQL adapters (`gateway/utils/db.pg*.ts`) | pooled clients | query, transaction | everything | row locks, READ COMMITTED |
| Schema migration (`core/schemaMigration.ts`, `gateway/utils/bootstrap.ts`) | schema, recorded versions | migrateAutonomiaSchema | start of a process | a crash between a statement and its record |
| API keys (`gateway/utils/aiApiKeys.ts`) | key rows | create, rotate, revoke, authenticate | middleware, developer routes | count-then-insert |
| Accounts and sessions (`gateway/routes/auth.ts`, `users.ts`, `jwt.ts`) | users, session epoch | register, login, revoke sessions | auth routes | a token issued while sessions are revoked |
| Rate limiter (`gateway/middleware/rateLimit.ts`) | window rows, memory table | one count per request | all routes | two stores, a table with a limit |
| Maintenance (`gateway/utils/maintenance.ts`) | none of its own | one run per period | billing, limits, pool, replays | a run that is cut short |
| SSE parser (`core/sse.ts`) | text not yet split into lines, the event being read | feed, finish | provider client, streaming loop | chunks end anywhere, also between CR and LF; limits on size |
| Pricing (`core/pricing.ts`) | none | cost, reservation, candidate routes | inference runtime | rounding up, minimum charge, what a reservation must cover |
| Configuration and request validation (`core/validation.ts`, `core/inference.ts`: prepare...) | the bundle a gateway started with | check a bundle at start, prepare a request | everything that trusts it | what the checks let through is used without being checked again |
| Provider adapters (`core/providers.ts`) | per stream: places of tool calls, usage so far | body, answer and stream of three protocols | inference runtime | turns that have to alternate, tool results, streams that are cut off |
| Developer API (`gateway/routes/aiDeveloper.ts`) | none of its own | keys, chat of the console, usage | accounts, API keys | a session checked before a query is used after it |
| Entry points, database selection, CORS, metrics, logging, reports, console | none shared, or read-only | | | not where the state is |

The properties that make them correct, in one line each: points are neither lost nor created; a
key never spends beyond its limit; an outcome is final; a hold always ends; a request that is
running keeps its reservation; work a provider did is not given away; a finished stream is
charged however it finished; leases and credentials come back; an idempotency key is executed once
while it is bound; statements of two transactions never mix; whoever waits is served; a version is
recorded only when everything it creates is there, and nobody serves less; sessions belong to who
set the password, and whoever was shut out stays out; a secret the user was given works; what was
asked reaches the provider, what it answered reaches the client, and the charge is what the client
is told. `PROJECT.json` lists every component with its state of modelling and every hazard with the
properties against it.

## 2. What is modelled

### Billing.tla (abstract: SpendHold.tla)

The tables are functions: `balance`, `spendUsed`, `spendReserved`, `request` (ai_requests),
`reservation` (ai_billing_reservations) and `ledger`. Every transaction of
`createAutonomiaBillingStore` is one action: `Reserve`, `MarkDispatched`, `Settle`, `Refund`,
`MarkNeedsReconciliation`. A transaction is one step because SQLite runs it under BEGIN
IMMEDIATE and PostgreSQL locks the rows it decides on. A rejection throws inside the transaction
and is rolled back, so it changes nothing: it is a value of `ReserveOutcome`, not a step. A
repeated or late call finds its guard false. The maintenance sweep is not atomic in the code and
not here: it SELECTs a batch (`ReadStale`, `ReadQuarantined`), then handles one row per step
(`ReconcileRow`, `ResolveRow`), deciding refund or quarantine from the value of `dispatched_at`
it read earlier; it can be cut short (`AbortSweep`). Callers are the most general ones. Which
stored response the join of readIdempotency finds is an input of `Reserve`; `Replays` supplies it.

`SpendHold` is what a user is promised: points are held, then charged up to the hold or
released, out of the wallet and within the key's budget. Quarantine, deadlines, ledger and
sweeps do not exist there. `ImplementsSpendHold` is the refinement: a reservation that is
reserved or in quarantine is a hold, and what a key committed is `spendUsed + spendReserved`.

Left out: `partially_succeeded` (written like `succeeded`), token counts, pricing snapshots,
error codes, and rejected requests, which leave no row.

### Inference.tla (EXTENDS Billing)

The runtime as the caller of the store. Each handler has a record `call[h]`: the await it is at
(`pc`), the locals of `invoke` (route, tried credentials, attempts, claim, last error) and of the
stream context (`terminal` is who set `terminalPromise`, `usage` is `receivedUsage`). One action
per await: `ReserveCall`, `DispatchCall`, `NextAttempt` (the loop head with the deadline check),
`Claim`, `StartAttempt`, the answers of the provider, `Release`, `SettleCall`, `RefundCall`,
`MarkCall`. The reader loop of `aiPublic.ts` gives `StreamUsage`, `StreamDone`, `StreamBreaks`,
and beside it `ClientCancels` and `LateUsage`, the chunk that was already buffered when the
client went away. `failStream` reads the usage only after it released the credential, and so
does `AfterRelease`.

Database steps fail in the two ways a caller cannot tell apart: without effect, or committed
with the answer lost. Errors that the code swallows are swallowed, errors that leave the runtime
leave it (a failed markDispatched is not refunded by anybody but the sweep). A process may die at
any step. The deadline of a reservation is real here: `expires` is set when the request is
prepared, and the sweep sees a row only when the clock has reached it.

A claim may commit and its answer be lost (`ClaimLost`): the handler refunds and knows nothing of the
lease. A lease names the handler, the credential and the attempt, since two attempts on routes that share
a pool may lease the same credential. A usage may have no cost that can be charged: a provider that
reports no tokens at all is refused by `settle` (`SettleCall`), a cost beyond the safe integers makes
`calculateActualCostMicros` throw (`CostOverflows`); both mark the reservation.

Ghost fields (`consumed`, `chargeable`, `faulty`, `refused`, `left`, `outcome`) record what happened for
the properties and are read by no guard; `left` holds the attempts whose lease nobody will release.

Left out: branches the code guards against but no caller reaches (a credential handed out twice
to one route, a stream where JSON was asked for), protocol adapters and token estimates (see
`PublicCall`; here any positive amount), cooldowns (a claim is any untried credential of the pool, or none; `ProviderPool` says which).

### Replays.tla (EXTENDS Billing)

Idempotent replays, with the attempts of a client around them. `attempt[a]` is one HTTP request
(an attempt or a retry): its API key, Idempotency-Key and fingerprint, where its handler is
(`pc`), the request it executes (`id`) and the request whose stored response it answered with
(`replayOf`). `stored` is `ai_idempotency_replays`, one row per API key and idempotency key. The
handler reads the stored response (`Read`), reserves (`ReserveCall`, which looks the binding and
the stored row up again in its transaction, or `Refused`), dispatches, works, settles, refunds or
quarantines, and saves the response (`Save`): each is a step of its own, and other attempts under
the same key run in between. `Save` is the INSERT ... ON CONFLICT with its WHERE clause, or a
tombstone for a response above the size limit. A stored row expires (`Expire`) and is deleted
(`CleanupReplays`). A handler may stop anywhere: the process dies, or the save fails and the
failure is swallowed. A stream whose client cancels when `[DONE]` is already buffered is stored
although its usage may be unknown (`MarkCall` with `cut`).

`StoreStep` is time and the sweep. A deadline passes only for a request whose handler is done
with it: that a reservation outlives its handler is what `HeldWhileRunning` says of Inference, and
is not shown a second time here.

Left out: the attempt loop of the runtime (Inference), revocation of keys, sweeps that are cut
short, and the `ai_requests` row with status `replayed`, which only reports read. `closed` is a
ghost: the requests whose stored response has expired.

### Admission.tla (abstract: Slots.tla)

`call` holds the handlers of public calls, `lease` the rows of `ai_api_inflight_leases` (one per
call, as every caller draws a fresh id), `bucket` the rows of `ai_rate_limit_buckets`. A call
reads the clock when it arrives (`Arrive`: window and expiry) and enters the transaction of
`acquire` later (`Admit` or `Refuse`, one step, since calls of one key are serialised by the
advisory lock or by SQLite). It then reads its body, however slowly, and ends there (`EndBody`) or
reserves points (`Reserve`); the reservation, not the lease, limits how long the provider may
work (`Overdue`, from the deadline check and the timers that `Inference` models in detail). Every
way to end leads to `Release`, which may fail unnoticed (`ReleaseFails`), and a process may die
(`Crash`). The clean-up is two statements, hence two actions. Chat, responses and embeddings
share one path; `GET /models` has a short lease and is released at once.

`Slots` is the promise: an owner has so many slots, a claim takes a free one or none, slots are
given back, and a claim does not return. `ImplementsSlots` maps the counted leases of a key to
its slots. That bounds leases; `ConcurrencyBound` is about what max_in_flight is for, the calls at
the providers, and needs that a live lease outlasts the call. It does for calls that reserved within the
settlement buffer after they arrived. Calls with slower bodies can outlive their lease by as much
as the body took, which the comment at `aiPublic.ts:309-312` hopes to exclude: lease and
reservation are both five minutes, but the second starts when the body is read.

Left out: the reservation itself (see `Inference`), key rows that are deleted, the HTTP answer.

### ProviderPool.tla (abstract: Slots.tla)

The attempt loop of the runtime over the credentials of one pool. `req` is the loop of a request,
`lease` the rows of `ai_provider_credential_leases` (one per request and credential, as a
credential is not tried twice), `cred` the rows of `ai_provider_credentials`, `lock` the advisory
lock of the pool. A claim reads the clock (`Begin`), gets the lock and reads the candidates
(`Choose`, or `Exhausted`), then writes counter and lease and commits (`Claimed`). A release reads
(`ReleaseRead`) and commits (`ReleaseApply`) without the lock, so releases of two requests, and a
release and a claim, overwrite each other's counters as they do under READ COMMITTED; SQLite only
runs the steps one after the other. A credential without secrets is claimed, released as a
configuration error and followed by another claim; one whose attempt cannot be recorded is released
and ends the request (`NoCall`). A failed release is swallowed (`ReleaseFails`), and a request may die
(`Die`). `Reconcile` is the maintenance statement.

`ImplementsSlots` maps the active leases of a credential to its slots: claims decide on what they
read before they wrote, and still take free slots only. As with admission, what the limit is
for is the number of calls (`CredentialConcurrency`). A lease outlasts the timeout of the route by 30 s,
and its expiry is computed before the lock, so the property holds of calls that started within
that slack after the claim began. `in_flight` decides nothing; `DriftHeals` says that it is right
again once releases have stopped.

Left out: several pools per request, the deadline check and the number of attempts (see
`Inference`), a sync with another configuration, latency averages, the `state` column (every value
the code writes is claimable), and a credential without secrets that the same request claims again after
its cooldown, the longest there is.

### SqliteGate.tla

The gate of both SQLite adapters: `gate` is `txOpen`, `chain` the promise chain of transactions,
`pending` the queries that wait, `written` the statements inside the open transaction and who
wrote them. The two adapters differ in one line: in `doDb.ts` BEGIN is inside the try whose
finally opens the gate, in `db.node.ts` before it (`BeginFails`). Requests query, then may run a
transaction, then are followed by another request.

### SchemaMigration.tla

`objects` is what the database has (the tables, indexes and columns that the four migrations add),
`recorded` the rows of the migration table, `process[p]` a run of `migrateAutonomiaSchema` with the
version and statement it is at. A process creates the tables that are older than the migrations
(`EnsureBase`), looks whether anything is to be done (`Check`, with `Ready` for
`isAutonomiaSchemaReady`), and then goes through the versions: `Lookup`, one `Apply` per statement,
`Record`, at last `Verify`; `Serve` is the promise that `ensureAiSchema` caches. Creating a table
may be repeated, adding a column may not: the second ALTER fails. In mode `autocommit` every
statement is committed at once (the migrate script, the Durable Object) and any number of processes
interleave; in mode `locked` (`worker/pgRuntime.ts`) a run is a transaction under an advisory lock,
and `Throw` restores what was `saved`. A process may stop at any step, and starts again. A database
may begin at any version. `torn` is a ghost: somebody stopped between an ALTER that was committed
and the record of its version. From then on nobody can get past that version, as the ALTER will
fail for ever: docs/DEPLOYMENT.md:328 calls the migrations repeatable, which holds without that
death only.

Left out: the checks of the columns of tables that exist already, and data (no migration moves any).

### ApiKeys.tla, and Access.tla (EXTENDS ApiKeys)

`keyRow` holds the rows of the keys of one account, `given` and `retired` are ghosts: the secrets
that were returned to the user and those a rotation or revocation withdrew. `Access` is the account
of one email address (password, role, `epoch`, standing), the cookie of each client, and the
requests in flight. A handler of `routes/auth.ts` or `routes/aiDeveloper.ts` runs from one query to
the next as one step, so that registrations race for the UNIQUE constraint, a session is checked
before it is used, and creation and rotation of a key read first and write later; the creation is a
transaction, which is alone on SQLite and not on PostgreSQL (`CreateTogether`). The operator seeds
the administrator in two steps, revokes sessions, and changes the standing of the account; the
last is not done by code here but read by every check, and the model lets it only get worse.
Ghosts of a request (`began`, `barred`, `dead`) tell what was committed when it arrived.

Left out: password hashing, signatures and expiry of tokens (a cookie is signed or not), the
validation of a key's options, the credential of the console session.

What the model takes over as the code has it: on PostgreSQL side-by-side creations exceed the
number of active keys (`KeyLimit` is asked of SQLite); a rotation of an expired key succeeds and
returns a secret that does not work (`GivenSecretsWork` excepts expired keys);
`isUniqueEmailViolation` (`auth.ts:392`) knows the message of SQLite, so on PostgreSQL the loser of
a race gets a 500 instead of the usual answer; and without a JWT secret `issueSession` returns a 503
that register and login drop.

### RateLimit.tla

The window of an identity in the database (`CountInDatabase`, with the sweep that follows the first
hit of a window) and the table in memory that replaces it when the query fails (`CountInMemory`, with
the eviction in `WithBucket`). A request reads the clock when it arrives (`Arrive`) and is counted
later (`Count`), so that a late request may belong to an older window; the UPSERT then restarts the
window for it.

### Catalog.tla, Requests.tla, Providers.tla (each EXTENDS the one before), Sse.tla, Chunks.tla, PublicCall.tla

One call from the start of the gateway to the last byte. `Catalog` is the configuration bundle, the
checks it must pass, costs, reservations and candidate routes (a set: the order in which they are tried
is a matter of `Inference`, and a call may end at any of them). `Requests` prepares a body of the
three endpoints: the checks in their order, the limit on output, the estimate of the input.
`Providers` makes the body for an OpenAI-compatible, an Anthropic or a Cloudflare provider and
reads its answer. `Sse` is the parser of event streams: text is a sequence of tokens, and a chunk
may end between any two, the two characters of a CRLF included; the loop over characters is `Scan`, a function on
the positions of the text. `Chunks` says what events become:
the chunks of a stream, the adapter that makes them of an Anthropic stream, the bridge that makes
events of the responses endpoint of them.

`PublicCall` runs them. `Start` checks a bundle, `Receive` and `Send` make a request and its body,
then the provider answers a body (`AnswerBody`) or opens a stream (`OpenStream`): `Write` appends an
event and its text, `ReadChunk` hands the reader all of it and `ReadPart` a chunk that ends anywhere,
`EndStream` and `BreakStream` end it (`ReadEnd`, `ReadError`), `Cancel` is a client that goes away.
The loop of `aiPublic.ts` (`PumpChunk`, `PumpEnd`) translates each event, tells the client (`frames`)
and charges (`charge`); `Finalized`, `Closed` and `Failed` are what it says last.

Texts, images and tool calls are numbered pieces; an estimate counts characters as `CharsPerPiece`
per piece. What a configuration, a body, an answer or an event can be is said by four named assumptions
(`BundlesAssumption`, `BodiesAssumption`, `AnswersAssumption`, `StreamsAssumption`): whole numbers, the fields the
code reads, text where content is not in parts, counts in a usage that is known, and no line end within a line.
To keep the instance small the provider writes, ends or breaks a stream only when the
reader waits for it, which loses no behaviour of a reader that sees nothing else of the provider.

Left out: names, ids, headers and wording; schemas of tools; prices as decimal strings; the native
binding of Cloudflare (`invokeCloudflareBinding`), which `aiPublic.ts:119` always passes as null. `Shape`
checks (is this an object, is that an integer) are one flag of a body or document.

What the model takes over as the code has it: an image that is a data URL but not base64 is
dropped silently when sent to Anthropic (`providers.ts:270-271`, against the comment at 238;
`ConversationSurvives` excepts it); a bundle may route embeddings to a provider that has none
(`StartedIsServable` excepts embeddings), and an embeddings request whose estimate exceeds the
integers is answered 503 and not 400 (`inference.ts:635`); the size limit of an event counts what was
buffered, so that it depends on where chunks end (`sse.ts:45`).

## 3. What the runs check

| Run | Instance | Shows |
|---|---|---|
| `billing` | 2 requests, 2 keys of one account with 6 points (the first key limited to 4), amount 3, costs 1 and 4, 2 sweeps that handle one row at a time, one of which may be cut short; sweeps are interchangeable | points are conserved, counters match the rows, the limit holds, the ledger agrees with the requests entry by entry, refinement of `SpendHold` |
| `inference_call` | 1 request, 2 routes (timeouts 2 and 1) that share a credential, at most 2 attempts, TTL 5, buffer 2, clock up to 5, two failed database steps, one crash, one sweep that may be cut short | the reservation is held while the provider works, no free work, answers match rows, streams are charged, every call ends, every hold is resolved, and the only leases left behind are those of a lost claim, a lost release or a death |
| `replays` | 3 attempts under one idempotency key (interchangeable), 2 requests, 2 bodies, one sweep | a replay answers the same request, a key is executed by one attempt at a time and never while a response is stored for it |
| `replays_window` | the same | a violation, see below |
| `sqlite_gate` | 3 clients, both adapters, 2 statements each, one failed BEGIN | no foreign statement in a transaction, everyone is served (on Node while no BEGIN has failed) |
| `admission` | 2 executing calls and 1 listing of models of one key with 1 slot and 2 calls a minute; minutes of 2 ticks, leases and reservations of 4, buffer 2, waits up to 1, buckets deleted after 3 | the limit per minute holds, slots come back after crashes and lost releases, refinement of `Slots` |
| `provider_pool` | 2 requests, 2 credentials of one slot (weights 2 and 1, the second without secrets); lease 1, timeout 2, slack 1, cooldowns from 1 to 2, claims up to time 2, releases up to 3, end at 5 | credentials come back, the counter heals, refinement of `Slots` |
| `migration` | 3 processes, 2 stops, both modes, a database of any version | what is recorded was applied, nobody serves an incomplete schema, nobody collides under the lock, the schema gets ready unless it was torn |
| `access` | the operator and a visitor, 2 requests at a time (interchangeable) of 3, 2 keys of which 1 may be active, 2 secrets per key, one order of the operator, both dialects, each with and without anti-enumeration at sign-up | an account belongs to who set its password, keys are limited on SQLite, secrets that were given work, whoever was shut out stays out |
| `rate_limit_fallback` | 3 identities, 2 tracked, 2 hits in a window of 3, clock up to 4 | a violation, see below |
| `public_call` | 15 bundles, 2 keys, three endpoints, conversations of up to 3 messages, 45 answers in one body, streams of up to 3 events and their end, one chunk that ends within an event, one unread token | the nine properties of a call: what is accepted can be served, the limit and the conversation reach the provider, chunks parse as they were written, success is complete, the charge is what is told, the reservation covers it, responses and tool calls are in order |
| `public_call_truncated` | the same | a violation, see below |

Why the bounds are enough to be interesting. Two requests are what every race over one balance
needs; 6 points and amounts of 3 let both in at once or one, and the costs lie below and above the
reservation. Two sweeps of one row overtake each other and the callers. In `inference_call` the TTL leaves
room for one slow attempt and then only for the fast route, so that the deadline check really
decides; the routes share a credential, so that one attempt may leave a lease of it and the next return its own;
two faults are what a failed settlement followed by a failed quarantine takes; one handler is
enough because handlers meet only in the store, whose interleavings `billing` explores and whose
operations are all it sees. In `admission` the waits cross the end of a minute and the deletion of
buckets, and a lease of the default length (2) would end while a prompt call may still run; one slot
is enough for two calls to compete, and keys do not interact. In `provider_pool` the lease is
shorter than the timeout, a claim may wait for the lock until its reading of the clock is old, two
failures exceed the longest cooldown, and after the last release there is time for every lease and
cooldown to end. In `replays` two attempts may execute while a third reads, is refused or replays. In
`migration` a process may lose a race to a second one and be overtaken by a third, and both of the
two that stopped start again. In `access` three requests are enough to register, sign in and use what
was gained, with a second handler between any two awaits of the first and one revocation or ban
anywhere; one active key and two ids let a creation race for the last place. In `public_call`
a stream of three events and an end holds a text block before two tool calls, or usage twice, and one
chunk can end within each event, each CRLF and the byte order mark.

Runs with CHECK_DEADLOCK FALSE: requests are bounded, and when they are over the system stops
(`billing`, `inference_call`, `replays`, `provider_pool`, `migration`, `access`, `rate_limit_fallback`,
`public_call`); on Node the gate really can stop everybody (`sqlite_gate`). `admission` checks deadlock.

Fairness. Billing: time passes (`PassDeadline`) and each maintenance loop keeps running, which
the interval timer of `nodeServer.ts` and the cron trigger of the worker provide; a caller owes
nothing. Inference: the event loop runs a handler whose await is answered, timers fire, time
passes, the sweep runs; there is no fairness on providers and clients. Admission: time passes, the
store answers, the runtime ends a call in time; nothing is assumed of releases and maintenance.
ProviderPool: the same, and the maintenance statement is run. SqliteGate: the head of the promise
chain is run and a transaction comes to its end. SchemaMigration: whoever migrates goes on, and one that failed or
stopped is started again, as a supervisor or the next request does. All of it is weak fairness.

### Findings

`replays_window`: a request is settled in one transaction and its response stored in another.
A retry that comes in between, or after a save that failed or never happened because the process
died, finds an opted-in key, an ended request and no stored response. `classifyIdempotentBinding`
takes that for an expired window: the key goes to the retry, which executes and is charged again.
`docs/openapi.yaml:529-533` promises that a completed key is replayed "without a second execution
or charge" until its window expires, and the comment at `aiPublic.ts:226` says that after a failed
save a retry gets the 409 answer. `ReleasedOnlyAfterItsWindow` states the promise of the
documentation: a charged request loses its key only after its stored response has expired.

`rate_limit_fallback`: when the table of the fallback is full, `rateLimit.ts:155` makes room by deleting
every bucket whose FIRST hit has left the window. Its later hits may be well within it, and that
identity starts again at zero. The comments at `rateLimit.ts:9-10` and `:151-152` say that
only expired buckets are evicted and that existing counts stay. `CountsKept` states it: a hit in
the window is never forgotten.

`public_call_truncated`: `anthropicOpenAiChunks` ends every stream that ends with its usage chunk and
`[DONE]` (`providers.ts:585-592`), whether or not `message_stop`, or anything, was received. The check
of the endpoint for a stream that ended unexpectedly (`aiPublic.ts:400-408`) therefore never
fires for Anthropic: an answer that was cut off is told, charged and kept for replays as a complete one.
`core/README.md:13` calls the parser hardened against truncated terminal events, which it is for
the two other protocols. `TruncationIsTold` states it: a stream that is told as a success was
finished by the provider.

Met while modelling, without a run of their own:

* `db.node.ts:162-163` closes the gate and then runs BEGIN IMMEDIATE outside the try. If BEGIN throws
  the gate stays closed with no transaction open, and as every route begins with a plain query,
  nothing moves again until a restart (unless a transaction is already in the chain). The Durable
  Object adapter has BEGIN inside; `EveryoneServed` excepts Node after a failed BEGIN.
* `GET /models` passes the smaller of max_in_flight and 4 so that, says the comment at
  `aiPublic.ts:246-248`, listings do not eat up the in-flight quota. `acquire` only checks the value
  and compares with the row (`apiLimits.ts:107`), so listings can hold all slots of a key.
* `docs/DEPLOYMENT.md:328` calls the migrations idempotent; after a death between an ALTER that was
  committed and its record they are not (`torn`).
* A worker with a Hyperdrive binding and no `DATABASE_URL`, the recommended way of
  `docs/DEPLOYMENT.md:174-190`, is "sqlite" for `runtimeDialect` (`db.ts:40-42`).
* `issueSession` answers 503 without a JWT secret; register and login ignore the answer.
* `isUniqueEmailViolation` (`auth.ts:392`) knows the messages of SQLite only.
* On PostgreSQL two creations of a key can exceed the cap on active keys (`aiApiKeys.ts:199`), and on
  both a rotation of an expired key returns a secret that does not work.
* A request that is counted late restarts the row of the rate limiter in its older window.
* An image that is a data URL but not base64 is dropped silently for Anthropic
  (`providers.ts:270-271`), which the comment at 238 rules out.
* A bundle may route embeddings to a provider that has none, and an embeddings estimate beyond the
  integers is a 503 (`inference.ts:635`).
* The size limit of an event depends on where its chunks end (`sse.ts:45`).
* `cancel` of the Anthropic adapter (`providers.ts:609`) cancels a stream that its own reader has locked,
  which rejects; only the abort signal of the call ends the request to the provider.

## 4. What is proved

Eight modules hold proofs. The theorems include properties that no run spends time on, because they hold for
every instance: `TypeOK` of each module, `RowsCoherent`, `FinalIsFinal`, `OneBindingPerKey`,
`BindingKeptWhileInProgress`, `KeyHandedOver` and `LedgerExplainsBalance` of Billing,
`StoredUnderItsBinding` of Replays, `OneTransaction` of SqliteGate, `ConcurrencyBound` and `NoLeak` of Admission,
`CredentialConcurrency` and `NothingKept` of ProviderPool.

`BillingProofs.tla` proves, for any users, keys, limits, amounts, number of requests and sweeps:

* `TypeCorrect`, `RowsStayCoherent`, `PointsAreConserved`, `CountersAreSums`, `LimitIsKept`,
  `LedgerIsAChain`, `EntriesMatch`, `FinalOutcomes`, and `StoreImplementsSpendHold`.

The argument: `TypeOK` needs that refunds are never negative, hence the cap of `Settle`, hence
that both rows of a request agree. So the inductive invariant is built in layers: `TypeOK`, then
`RowsCoherent` (which tells in which state an amount is held, charged or given back), then
the sums: `MoneyConserved` and `KeyCountersMatch` are equations between a variable and a sum over
requests, and each action changes one summand and the variable by the same amount.
`KeyCountersMatch` is also why the clamp at zero never acts, without which `LimitIsKept` and the
refinement would fail. Sums are a recursive function (`Sums.tla`); the module begins with what
changing one summand does to them, from the definition of the function, by induction on the naturals
written out as a minimal counterexample. `EntriesMatch` (`LedgerMatchesRequests`) has an invariant of its
own: every entry belongs to a request whose rows say the same (`EntryFine`), and whatever may still be
given back has the entry that took it (`HoldPosted`). It is kept by the three effects a step can have on
one row: it takes a hold, ends one, or leaves amounts alone. Assumption: `BillingAssumption` (types of
the constants).

`DatabaseProofs.tla`, in its first part, proves `GateTypeCorrect`, `NoForeignStatements` and
`OneTransactionAtATime` for any number of requests and failed BEGINs. The properties are not
inductive: the invariant adds that the holder of the connection is the head of the chain and the
gate is closed while there is one, so that nobody else can begin and no query is let through.

`InferenceProofs.tla` proves, for any routes, pools, timeouts, TTL, settlement buffer, number of
attempts, faults, crashes, handlers and sweeps, every safety property of the runtime: `InferenceTypeCorrect`, `ReservationOutlivesAttempt`, `OutcomesMatch`,
`EndedStreamsAreCharged`, `WorkIsNeverGivenAway`, `LeasesComeBack`. One inductive invariant
(`IInv`) carries all but the last. Of one handler it says, by step, what its row looks like
(`RowFine`), how much time is left (`TimeFine`: now plus the timeout plus the buffer is at most
the deadline plus the database time already spent), what the provider did (`WorkFine`: work
implies that `dispatched_at` is set) and how it ends (`EndFine`). Of the system it says that
handlers own distinct rows (`OwnRows`) and that a row a sweep read as stale is still overdue if it
is still open, and was read as not dispatched only if nobody works on it (`SweepFine`). The last
one is what rules out the stale read of `reconcileStale`: a row becomes overdue only at its
deadline, and no handler starts work after it. `LeasesComeBack` (`LeasesReturned`) is an invariant on its own:
each lease is that of the attempt in progress, or of an attempt in `left`, which only a lost claim, a lost
release and a death add to. Every other way out of an attempt, a failed audit record, an error of the provider
and the end of a stream included, passes through the release of its own lease, by handler, credential and attempt. Steps are proved in two groups: those that leave
the rows alone (`QuietStep`) and calls of the store (`StoreStep`); `Moves` is all a handler needs
to know of what others do to its row. `RuntimeIsAStoreClient` proves `InferenceSpec => Spec`, so
`MoneyOfRuntime` and every other theorem about Billing hold of the runtime too. Assumption:
`InferenceAssumption`, and the two timing assumptions that `Tick` states in its guard.

The last part of `BillingProofs.tla` is about idempotency keys, for the store alone:
`KeysBelongToOne`, `InProgressKeepsKey` and `KeysAreHandedOver`. Seen from the keys a step does one of two
things: it leaves every binding alone (`SameBindings`), or it creates a request that takes its
key from whoever held it (`Binds`), and the latter only from ended requests of the same body.
`OneBindingPerKey` is a cardinality; `BoundOnce`, its injective form, is what is inductive.

`ReplaysProofs.tla` proves every safety property of replays, for any number of attempts,
keys, bodies, requests and sweeps: `ReplayTypeCorrect`, `ReplaysAreFaithful`,
`KeyedExecutionsAreSerial`, `ResponsesMatchBindings` and `StoredMeansNotExecuted`. The invariant
(`RInv`) says that an attempt that may still execute holds its key and a row that is not overdue
(`BusyFine`), that the key of every attempt that ever executed is bound to a request of the same
body (`KeyFine`), and that every stored response and every replayed answer has an attempt with
the same question whose request is over (`Answered`, which no step undoes). `NeverTwiceAtOnce`
then follows from `BoundOnce`. `NoExecutionWhileStored` is the one that needs the second look-up
inside reserve: a stored response implies a binding (`StoredUnderItsBinding`), and reserve takes
a bound key only if it sees no stored response. `ReplaysAreAStoreClient` proves
`ReplaySpec => Spec`, so the theorems about money and keys hold with retries too. Assumption:
`ReplaysAssumption` (no request is called NoId).

The last part of `GatewayProofs.tla` proves `AdmissionTypeCorrect`, `RpmIsBounded`, `ConcurrencyIsBounded`,
`NoSlotLeaks` and `AdmissionIsSlots` for any number of calls and keys and any lengths of time.
The invariant (`AdmissionInv`) says where each call is in time (`Timed`), that a call in its body or at a
provider has its lease or has outlived it (`Leased`), that live leases are within the limit
(`SlotBound`) and that a bucket counts the admissions of its window until it is deleted
(`Counters`), which is never while a call still waits to count in it. Steps are the one that
admits a call (`AdmitStep`) and all others, under which slots and admissions only shrink or stay
(`QuietSets`). Assumption: `AdmissionAssumption`, in particular that a reservation is no longer
than a lease, and that a call waits less than buckets are kept for, by a minute.

`ProviderPoolProofs.tla` proves `PoolTypeCorrect`, `CredentialConcurrencyHolds`, `NothingIsKept` and
`PoolIsSlots` for any number of requests and credentials, any limits and any lengths of time. The
invariant (`PoolInv`) says of a request which leases it may hold and until when (`Own`), that the
one with the lock is the one that chooses (`Locked`), that active leases are within the limit
(`SlotBound`) and that the chosen credential still has a free slot (`ChosenFree`): what a claim
read is stale by the time it commits, but only its own commit adds a lease, and all other steps,
time included, only take leases away (`QuietActive`). That a cooldown is a number needs that 2^n
is one, which follows from the cardinality of powersets (`PowerIsNat`). Assumption:
`PoolAssumption` (a pool has a credential, weights and limits are positive).

`DatabaseProofs.tla`, in its second part, proves `MigrationTypeCorrect`, `VersionsAreApplied`, `ServedIsComplete` and
`NobodyCollides` for any number of processes and stops. The invariant (`MigrationInv`) says of the
database, as it is and as a rollback would restore it, that every recorded version has all it adds and
that versions are recorded in order (`Sound`); of a process, that the versions and statements before the
one it is at have been applied (`Progress`); that under the lock one process at a time runs (`Alone`);
that the last version stays recorded for whoever serves, rollbacks included (`Kept`); and that under the lock
a column is there only if its version is recorded or will be by the process at work (`NoLooseColumn`). A
column is added by one statement of one version (`ColumnsAreOwn`), so under the lock no ALTER meets
its own column. Nothing is assumed.

The rest of `GatewayProofs.tla` proves every property of `access`: `AccessTypeCorrect`, `PasswordOwns`,
`KeysAreLimited`, `SecretsWork` and `NobodyReturns`, for any number of clients, handlers, keys, secrets,
requests and orders. The invariant (`AccessInv`) has a part about keys (`KeysInv`: secrets that were
withdrawn are not current, the others that were given work or have expired), which each statement on
the key table keeps, and one about each handler (`HandlerFine`: what was so when its request arrived is so
still, and who came past the check of the session passed it). Steps of others do not disturb a
handler, as the account only moves one way (`AccountGrows`: its epoch grows, its standing gets worse),
and each step moves one handler (`OneHandlerMoves`). Assumptions: `AccessAssumption` and
`ApiKeysAssumption` (types of the constants; the operator is a client).

`PublicCallProofs.tla` proves `PublicCallTypeCorrect`, `CallInvariant`, `StartedCanServe`, `LimitIsTold`,
`ConversationIsKept`, `ReservationIsEnough`, `SuccessTellsAll`, `ChargedAsTold` and `ResponsesAreOrdered` for any
configurations, keys, bodies and answers, and for streams of any length that are cut into chunks anywhere, broken or cancelled. The inductive invariant
`CallInv` has five parts.

* `PublicCallTypeOK` types the state of the call, the stream, the parser, the adapters and the charge.
* `RequestInv` says at each stage which checks the bundle and the body have passed, and that what was sent is what one of the
  candidate routes makes of the body. `StartedCanServe`, `LimitIsTold`, `ConversationIsKept` and `ReservationIsEnough` follow from it; the last
  needs that `CeilDivide` is monotone and that an estimate is capped by the reserved output. `ConversationIsKept` goes by
  induction over the messages: folding a turn into a conversation (`FoldCases`) keeps what the turns say of
  the messages so far (`Keeps`), and every turn sorted (`AnthropicTurns`); the blocks of one message are
  what it asks, part by part (`UserBlocksAreAsked`).
* `ControlInv` says when the stream may be touched and which function ended it (`terminal`).
* `ChargeInv` says what a settled call was charged for.
* `StreamInv` says that there is a sequence `h` of chunks that were heard such that `pump`, `bridge` and
  `frames` are what `h` makes of them (`HeardInv`, `ToldInv`: the frames are `ToldOf(h)`, followed by
  one of the few endings), and that `h` with the queue is what the parsed events make: event by event for an OpenAI
  stream (`OpenAiInv`), through the adapter, whose usage is the last one reported, for an Anthropic stream
  (`AnthropicInv`). Without `h` none of the three properties of streams is inductive: that the client
  was told all the provider wrote relates `frames` to `parsed`, which change in different steps with the queue between
  them. `SuccessTellsAll`, `ChargedAsTold` and `ResponsesAreOrdered` follow from the two parts of `StreamInv` at the
  end of a stream.

The operators recurse over sequences. Each recursion is a function on `0..n` whose existence is proved once
(`Recursion`: a chain of steps), and what holds of each of its values is proved with `Induction`, a lemma about sets
of numbers; laws of what a sequence collects member by member (`Collect`: of a concatenation, of one more member,
of the last value) are lemmas about sequences. Assumptions: the four named in section 2.

`ParsingProofs.tla` proves `ParsingIsFaithful`, that the events the parser returns are those the provider wrote
(`ParsedAsWritten`), for any events, any words in their lines, each of the three ends of lines, and any cut of the text into chunks, in
the middle of a CR LF too. It compares two recursions over different texts, the one that writes lines and the
one that reads chunks, by way of a *follower*: it reads the same text token by token, keeps the CR it
read last until the next token says whether that ended a line, and never gives up. `FeedFollows` says that a chunk
leaves the parser holding what the follower of the text so far holds (`Holds`), or gives it up; `EventRun`, that
the text of an event adds that event, and no other, to what a follower has seen; laws of
concatenation (`FollowConcat`) join the two. The inductive invariant (`ParseInv`) is that the follower that goes on from
what the parser holds over the text that is still unread will have seen what was written, or that the parser gave up
and the endpoint can read nothing more (`Hopeless`). It rests on `CallInv` for the types and the stages.

It also proves `ToolCallsFit`, that a client that puts tool calls together by their place gets those of the provider
(`ToolCallsReassemble`), for any number and order of text and tool blocks, any number of chunks the
loop finds in its queue, and any point at which the stream breaks. What was told alone is not
inductive: an argument that arrives after a call has been told takes its place from the adapter's `ordinals`, which
no frame shows. `ToolInv` relates the three: what was told followed by what is queued reassembles; every block that
`ordinals` knows is the block of a call among them, at the place `ordinals` has for it; and `ordinals` knows the
blocks that started in `parsed` and no others (`Linked`). That an argument never comes before the start of its block,
where `Place` would answer 0 and the argument would end up in the first call, is a fact about the provider
(`WellNumbered(written)`, kept by `AnthropicEvents`), and reaches the adapter because `parsed` is a
prefix of `written`: this is where `ParsingIsFaithful` is needed. `BeginCall` and `AddArgument` say what one more
delta does to tool calls that reassemble, `ReassemblesFront` that a stream that is cut off still does.

Only model-checked: liveness (`EveryHoldResolves`, `EveryCallEnds`, `EveryoneServed`, `SlotsComeBack`,
`CredentialsComeBack`, `DriftHeals`, `SchemaGetsReady`), which needs fairness and ENABLED and so is out
of the prover's reach. What a RECURSIVE operator computes cannot be proved here at all, which is why
every recursion of these modules is a function on `0..n`.

## 5. Not modelled

* PostgreSQL's row locks. That a transaction of the store is one step rests on them, and so does the
  absence of deadlock: `reserve` locks key, user; `settle` locks reservation, key, user: what both lock,
  they lock in the same order.
* Metrics, logging and CORS keep nothing another component reads; the console is a client of the
  HTTP API; usage reports only read; the selection of a database adapter is one choice at start.
* Headers, error envelopes, the listing of models, the reading of a replay as a stream, the shape of
  every key of a configuration document, and prices as decimal strings: data without state, reached by
  unit tests.
* That one period of maintenance runs its parts in turn (each part is an action on its own), routing and
  shutdown timers, a sync of a pool with another configuration while requests run, and the credential
  of the console session.

## 6. What could follow

1. `ProviderPool` in place of the free `Claim` of Inference, as a refinement.
2. `PgLocks`: row locks and their order, to justify "one transaction, one step".
