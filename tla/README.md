# Mizan: a TLA+ verification project

Mizan is an OpenAI-compatible gateway in Rust: it authenticates clients by API
key, routes a chat request to an upstream provider or to a self-hosted daemon,
meters the tokens, charges the user's wallet and enforces rate limits. This
directory holds TLA+ models of its core, the TLC configurations that check them
on small instances, and TLAPS proofs for instances of every size.

Paths below are relative to `src/crates/` unless they start with `docs/` or
`migrations/`.

## 1. Inventory

| Component | Source | State it keeps | Operations | Interacts with |
|---|---|---|---|---|
| Billing | `mizan-api/src/billing.rs`, `mizan-wallet` | `wallets`, `credit_ledger`, `usage_events`, audit rows | `grant_credits`, `record_usage`, `get_wallet`, `ensure_sufficient_credit` | SQL pool shared by all requests; called by the gateway |
| Runtime limits | `mizan-limits` | Redis counters per scope: requests, tokens, concurrency | `check_and_acquire`, `release` | Redis; called by the gateway in blocking tasks |
| Dispatch | `mizan-api/src/dispatch.rs`, `mizan-daemon` | `dispatch_jobs` | create, wait, time out; lease, complete; the daemon's loop | gateway task and daemons meet only in the table |
| Gateway request | `mizan-api/src/gateway.rs`, `mizan-gateway`, `mizan-metering` | the request's locals, the lease, the event stream | `chat_completions`, `responses`, the daemon path, `build_stream_events` | all of the above, metrics, request log |
| Provider adapter | `mizan-providers` | a stream's buffered line, open event and pending chunks | call, stream, SSE parsing | upstream; used by gateway and daemon |
| Daemon node registry | `mizan-api/src/daemon_nodes.rs` | `daemon_nodes`, the nonce cache in memory | create, revoke; authentication of signed calls; register, heartbeat, ping; select | gates every daemon call; asked by the gateway and by the model list |
| Authentication | `mizan-api/src/auth.rs` | `users`, `sessions`, `api_keys` | admin seed, register, login, logout, create and revoke a key, session and key middleware, role check | gates every client call |
| Metrics | `mizan-api/src/metrics.rs` | sharded in-memory counters | observe, snapshot | called by the gateway |
| Logs | `mizan-api/src/logging.rs` | `request_logs`, `admin_audit_logs` | record, list | spawned tasks |
| Provider and route administration | `mizan-api/src/{providers,utils}.rs` | connections with their sealed API keys, model routes | create, delete, list | read by route resolution; usage events refer to it |
| Shell, configuration, CLI | `mizan-api/src/{lib,main,utils}.rs`, `mizan-core`, `mizan-cli`, `mizan-rtk` | none of their own | wiring | |

What is hard here, and what makes each part correct:

* **Billing.** Requests of one user run concurrently. The balance is read by
  one statement and written as an absolute value by another; the only thing
  between them is a row lock (Postgres) or a file lock (SQLite). Correct when no
  update is lost, no balance is negative, every change has its ledger row, and
  a call leaves all of its effect or nothing: a caller told of success or of
  missing credit finds it in the tables, whatever statement or reply is lost.
* **Limits.** Nine scripts may run for one admission; any of them may fail, the
  process may die, and counters expire by themselves. Correct when counters
  count what is held, nothing is leaked beyond its TTL, and the limit holds.
* **Dispatch.** Two timeouts (the gateway's and the sweep's) race with lease and
  completion, and replies get lost. Correct when a job runs at most once, a
  verdict is final, an answered verdict is the row's, a timeout is not answered
  early or against a verdict already seen, and no job or request hangs.
* **Gateway.** A dozen early returns after a lease was taken, and a client that
  may leave at every await. Correct when charge, usage event, metrics, log,
  answer and lease agree on every path.
* **Daemon nodes.** A signed call may arrive late or twice, handlers wait for the
  nonce cache with a time they read before, and the process forgets its nonces
  when it restarts. Correct when a repeated call meets its nonce while its
  timestamp is still acceptable, a revoked node stays as it is, a selected
  node has been heard of recently by the control plane's own clock, and the model
  list, a query of its own, offers what the selection serves.
* **Authentication.** Every process seeds a user at start-up while others do the
  same, perhaps configured with another role, or somebody registers the address;
  credentials and roles are looked up once, before the handler runs. Correct when
  the seeded user ends with a configured role, a dead credential or a lost role
  lets no later request in, and keys are touched by their owner.
* **Administration.** Routes and providers are deleted while requests hold them
  and other administrators are half-way through creating a route. Correct when
  the model list and the resolution agree, no route outlives its provider, a
  request leaves its usage event unless its route was deleted under it, and the
  charge is exact.
* **Provider adapter.** The body of a stream arrives in pieces cut anywhere.
  Correct when what is handed out does not depend on the cuts.

`PROJECT.json` lists the hazards line by line with the properties for each.

## 2. Modules

| Module | Models | Role |
|---|---|---|
| `CreditAccount` | what billing promises | abstract specification |
| `Wallet` | `billing.rs` over a database and a pool | detailed specification, refines `CreditAccount` |
| `WalletProofs` | | invariants, refinement, what each call leaves behind |
| `Limits` | `mizan-limits/src/lib.rs` | component |
| `LimitsProofs` | | invariants: TTLs, slots, the limit |
| `Dispatch` | `dispatch.rs` and the daemon's job loop | protocol of gateway tasks and daemons |
| `DispatchProofs` | | invariants and action properties |
| `Gateway` | `gateway.rs`, one request from first check to release | composes the services by what they promise |
| `GatewayProofs` | | invariants: charge, answer, records, lease |
| `DaemonNodes` | `daemon_nodes.rs`, the daemon part of the model list | component |
| `DaemonNodesProofs` | | invariants and action properties: nonces, revocation, selection |
| `Auth` | `auth.rs`, the role check in front of the administrators' routes | component |
| `AuthProofs` | | invariants and action properties: seed, credentials, roles, ownership |
| `Catalog` | `providers.rs`, `resolve_model_route`, `calculate_usage_charge`, sealing in `utils.rs` | composes administration with the requests that hold a route |
| `CatalogProofs` | | invariants: list and resolution, usage events, arithmetic of the charge |
| `SseStream` | `stream_sse_chunks` of `mizan-providers` | algorithm against a reference definition |
| `SseStreamProofs` | | induction over a body; the stream agrees with the reference |
| `MCWallet`, `MCLimits`, `MCDispatch`, `MCGateway`, `MCDaemonNodes`, `MCAuth`, `MCCatalog`, `MCSseStream` | | instances for TLC |

Names follow the source. Definitions called a mutant in a comment are deliberate
bugs used to test the properties; no specification refers to them.

### Wallet

A member of `Calls` is one call of a billing operation. `pc` says which awaited
statement comes next: `begin` (`begin()`), `select`/`insert`/`reselect`
(`ensure_wallet_in_tx`), `reject` (the 402 event), `write`, `commit`, `audit`,
`event` (`insert_usage_event` outside a transaction). Statements that nobody can
see before COMMIT are one step (`WriteTx`), and take effect in `Publish`.

The database is external and modelled by what the code relies on. Postgres:
`SELECT ... FOR UPDATE` waits for the row's lock, `INSERT ... ON CONFLICT DO
NOTHING` waits for an uncommitted row of the same owner. SQLite with the rollback
journal: a transaction that has read holds SHARED, one writer holds RESERVED, a
commit that wrote waits until other SHARED locks are gone, and what cannot get
its lock ends as busy. The pool has `PoolSize` connections and a timeout.
With `Faults`, any statement fails, a COMMIT or an autocommitted INSERT takes
effect and its reply is lost (`CommitReplyLost`, `EventReplyLost`), and a request
is dropped between two statements (`Cancel`) or during one, which may still take
effect (`Unheard`, `AuditDropped`).

The amount of a charge is an input here and computed in `Catalog`. `balance` is an integer and `MaxI64` its
bound; `SatAdd` is the saturating addition of a grant.

### Limits

`store` maps a Redis key to value and TTL. Each EVAL script is one step
(`Incremented`, `Released`), so the scripts of one admission interleave with
those of others; `pos` is the scope being checked. `UndoConcurrency` is the second
script that takes a refused increment back. `ScriptError` covers a script that did not
run and one that ran but whose reply was lost; `Die` drops the owner of
a lease. `Tick` ages the keys. `lost` and `tainted` are history: slots nobody
will give back, and scopes whose counter expired under an owner. A scope list
names no scope twice (`NoRepeats`): the gateway asks for an API key, a user and,
on a routed model, a provider, which are different kinds of scope.

### Dispatch

`status`, `node`, `deadline`, `created` are the row. The gateway task
(`waiter`) creates the row, polls it, and after the timeout marks it. A daemon
polls: the lease call sweeps expired rows (`ExpireJobs`), reads candidates
(`SelectJobs`) and claims them one by one by a conditional UPDATE (`ClaimJob`);
then it runs the provider and completes. Two daemons may carry one node's
token. `executed` and `sawFinal` are history: how often a lease was handed to a
daemon, and whether the row was final when the gateway's task last looked.
The LIMIT of the candidate query is `Batch`; `MaxTime` bounds the clock, and a
job is only created while its deadline lies before that bound.

### Gateway

Every await of the handler is a step: `ResolveRoute`, `SelectNode`, `Preflight`,
`Acquire`, the upstream call, and the metering of each path. Metrics, log and
release follow metering without a wait that matters and belong to the same
action. `RecordUsage` is billing's atomic posting, and `RecordFails` the two
ways it can fail (without and with its effect). A stream is `OpenStream`,
`Chunk`s, and `EndStream` or `BreakStream`. `Disconnect` drops the handler or
the stream at any await: only a stream releases its lease in that case, through
the `Drop` of its state. A token costs one microcredit on a routed model and
nothing on a daemon; all 4xx/5xx codes of the code are kept as far as a path
tells them apart.

### DaemonNodes

`row` is the table, `nonces` the cache: the expiry remembered for a `node::nonce`
key. A daemon signs a call once (`ThenSign`), and the network hands it to
handlers late, several times or never (`Deliver`). A handler is suspended before
the identity's SELECT (`resolve`), before the clock is read (`sign`), at the
cache's write lock (`lock`), before and in the UPDATE of `mark_node_seen`
(`handle`, `update`). The section under the lock is one step, with the time read
before it. `Restart` loses the cache and the handlers and keeps the tables.
`SelectEligible` and `ListedModels` are the two queries, each translated by itself
from its own SQL and the loop behind it: the selection returns the latest seen of
the nodes that offer the model, and `Failed` when it meets a `model_ids_json` that
does not parse; the listing skips such a row. `broken` holds the rows that do not
parse. The code never writes one; `EditModels` is somebody at the database, and
possible only with `Edits`. Timestamps are stored as text of one fixed format, so that their order as
text is their order in time; the `disabled` column is never set by the code.
Calls are well formed: header and HMAC checks reject without changing anything.
What a call for jobs does is in `Dispatch`.

### Auth

A task is a request or a start-up, `pc` the statement it is about to run, `job`
what it has read. `StartSeed` to `CreateSeedUser` are `ensure_admin_seed`, run by a
process that is configured with one of `SeedRoles`; a role other than `admin`
demotes an administrator. `StartSessionCall` and `LookupSession`
are the session-protected endpoints; `StartKeyCall`, `ResolveApiKey` and
`RequireAdminRole` the API-key middleware. History: `asked`, the roles some process
seeded with, and `late`, whether the credential was dead when the request began, or
its user no administrator then and since. A token stands for its row and a password is right
or wrong.

### Catalog

`provider` and `route` are the tables, with the constraints of
`migrations/0001_initial.sql`: unique names and models, routes deleted with their
provider, references of usage events set to NULL or refused. A sealed API key is
the pair of the secret key and the connection it was sealed for. `CheckRoute` and
`InsertRoute` are the two statements of `create_model_route`; a gateway request
resolves a route, holds it until it ends and is metered with the prices it read.
`RecordUsage` is the event of each outcome, or none when its foreign keys fail
(`Verdict`): `RefuseCredit` (402 with the prompt only), `UpstreamFails` (502),
`Meter` (200, or 402 when the balance is gone by then). A request refused by the
limits records nothing, and `StartStream` has sent its 200 before metering, so
that a failure of metering no longer changes the answer. What the wallet and the
limits say is left open here. `Charge` keeps the arithmetic of the code: two divisions that
round up, added in i128 and cut to i64 (`AsI64`, with `MaxI64` as the width).
`Restart` may change the secret key.

### SseStream

`text` is the body, as a sequence of short symbols instead of bytes; `ReadBytes`
reads any number of them, `ReadFails` breaks the body off, `ReadEnd` is the branch
at its end, `TakeLine` a complete line, `PopPending` a chunk that is ready.
`ParseStreamEvents` is the crate's whole-text parser, which its tests use, and
the reference here. JSON is a set of documents that parse (`Documents`), in which
white space does not matter (`Squeezed`). `Bytes` is the alphabet of the symbols, `Deltas` what
a choice may say: its content, its finish reason or both, and `""` for neither.

## 3. Runs

`PROJECT.json` names the runs; states are distinct states.

| Run | Configuration | Shows | Bounds | States |
|---|---|---|---|---|
| `wallet_postgres` | `MCWalletPostgres` | balance in range, ledger explains balance, reads current, calls accounted for; refinement of `CreditAccount`; every call returns | 3 calls, 1 user, pool 2, MaxI64 3, faults | 115 k |
| `wallet_sqlite` | `MCWalletSqlite` | calls accounted for and audits real on SQLite's locks, for every kind of call | 3 calls of 9 kinds, 1 user, pool 2, MaxI64 3, faults | 40 k |
| `limits` | `MCLimits` | slots accounted for, TTL on every counter, the limit until a counter expires, every counter starts over | 2 requests, 2 scopes, 3 dimensions, limits 1 and 2, TTLs 1 and 2, faults | 87 k |
| `dispatch` | `MCDispatch` | once-only hand-out, earned and final verdicts, answers against the row, no start after an answer; every waiting request returns, and while daemons poll every job closes | 2 jobs of 2 nodes (one without a daemon), 2 daemons of one node, batch 1, clock 2, faults | 331 k |
| `gateway_safe` | `MCGatewaySafe` | charge = metered, answers metered, records agree, lease follows request and goes back | 2 requests of 9 inputs, credit 3, up to 2 tokens, faults | 343 k |
| `nodes` | `MCDaemonNodes` | nonces remembered while they matter, repeats refused, revocation final, selection live, what it serves against what is listed | 1 node, 2 calls of 4 bodies, 2 handlers, 1 administrator, signature TTL 1, staleness 1, clock 2, faults, restarts, edits from outside | 3.1 M |
| `auth` | `MCAuth` | dead credentials refused, owners act, seeds take effect, the demoted are refused | 2 users, 2 sessions, 1 key, 2 tasks, 2 seed roles, session TTL 1, clock 1, faults | 1.6 M |
| `catalog` | `MCCatalog` | listed = resolved, usage event unless the route was deleted, exact charge | 2 providers of one name, 2 routes of one model, 2 administrators, 1 request, prices -1, 0, 2 per 3 tokens, MaxI64 3, 3 secret keys, restarts | 645 k |
| `sse` | `MCSseStream` | what is handed out does not depend on the cuts, and no chunk is held back | every body of up to 3 of 11 lines and an unfinished one, cut everywhere, failing anywhere | 148 k |

Why these bounds are enough for the interesting cases: three calls are a holder,
a waiter and a third that sees the state between them, and with a pool of two
they exhaust it; a charge of 2 against a balance of 2 or 3 meets zero and the
limit; MaxI64 = 3 makes two grants of 2 saturate. Two scopes let an admission
fail after it took its first slot; a TTL of 2 with runs of 1 lets a counter expire under
an owner and be created anew. `Batch = 1` makes a lease call miss jobs, and a
clock of 2 lets the gateway's timeout of 1 and the sweep race with lease and
completion; the safety part of every component is proved for every size
(section 4). Two tokens let a stream report usage, go on
and break. Two handlers can carry one call twice, or one prunes while the other
waits; with a prune threshold of 1 the cache is pruned on every call after the
first, and a clock of 2 passes the expiry of a call and the staleness of a node.
One node is enough for the protocol of calls, which concerns each node by itself.
The order in which the selection goes through several nodes, broken rows among
them, is beyond the run and covered by the theorems on `SelectedIsLive` and
`ListedIsServed`, which hold for any number of nodes.
Two tasks are a seed and a registration, two seeds with different roles, a request
and a seed that demotes its user, or a request and the revocation of its
credential; a session TTL of 1 and a clock of 1 meet the second of its expiry.
Names and models that must be unique are few, so that two administrators collide.
A unit of 3 tokens makes both divisions round, and 4 tokens at a price of 2 on
both sides exceed MaxI64. Symmetry (calls, requests, tasks, sessions, handlers,
providers, routes) is used only in runs without liveness.

### Fairness

* `Wallet!FairSpec`: each call's own step is weakly fair. The tokio runtime
  polls ready tasks and the database grants a free lock; the timeouts of pool
  and SQLite are steps of the call, enabled while the resource is taken.
* `Limits!FairSpec`: time passes and requests in flight go on.
* `Dispatch!FairSpec`: time passes and the gateway's task is polled; nothing is
  assumed of daemons. `EveryJobCloses` has as its hypothesis that the daemons of
  the instance keep polling (`run` loops for ever), which the sweep needs.
* `Gateway!FairSpec`: the handler and the release task run. No fairness of the
  upstream, whose HTTP client has no timeout.

`DaemonNodes`, `Auth`, `Catalog` and `SseStream` state safety only: their handlers
are straight lines that nothing but the database can hold up.

### What the code does differently from what is said

Three runs end in a violation on purpose; each states what a document says.

* `wallet_reject` (`MCWalletReject`): on SQLite a refused charge writes its 402
  event outside its own open transaction and meets its own SHARED lock: the caller
  gets a database error. `docs/ENGINEERING_PRINCIPLES.md:199`.
* `gateway_streams` (`MCGatewayStreams`): a stream without upstream usage is
  metered as if its completion were empty. `docs/PRD.md:238`, `docs/PRD.md:276`.
* `catalog_modes` (`MCCatalogModes`): the registration of a connection of mode
  `subscription_cli` or `browser_session` always fails, because the code seals an
  empty API key for it and sealing refuses an empty one.
  `docs/ARCHITECTURE.md:192`.

Other behaviour worth knowing, which the properties are worded around:

* A concurrency counter's TTL is set when it is created and not renewed, so that
  requests that overlap for longer than the lease are no longer all counted
  (`docs/LIMIT_TESTING.md:22`). `LimitHoldsUntilExpiry` and `SlotsAccounted` exempt a scope
  from the moment its counter expires under an owner (`tainted`).
* The preflight reserves nothing: of two streams that pass it on one balance both
  are delivered, and the second ends with a 402 event and no charge
  (`docs/PRD.md:268`). `AnswerIsMetered` speaks of streams that end with `[DONE]`, as
  that one does not.
* Nonces live in memory. A restart forgets them, and one process knows nothing of
  another's; `RememberedWhileFresh` and `RepeatIsRefused` speak of one
  process's life. Within it a call can pass twice only if the clock passes its
  expiry while a handler that has already checked the timestamp waits for the lock.
* The gateway's own timeout does not look at what its UPDATE changed
  (`mark_job_timed_out`): if a verdict was stored after the last poll, the client
  is told of a timeout while the row says succeeded or failed. `AnswerMatchesJob`
  allows exactly this.
* A refused charge stores its 402 event by a statement of its own. If its reply is
  lost, the caller gets a database error although the event is there, as with a
  COMMIT whose reply is lost (`CallAccounted`).
* A `model_ids_json` that does not parse makes the selection fail, whatever model it
  is asked for, unless a node seen later serves it, while the listing skips the
  row (`ListedIsServed`). Such a row can only come from outside the code, and lasts
  until its node reports again, is revoked or falls silent.
* A process started with another `MIZAN_ADMIN_ROLE` demotes the administrator.
  Requests that have read the role by then are still served; `DemotedIsRefused`
  speaks of those that begin later.
* A request refused by the runtime limits leaves no usage event, and neither does
  one whose client left.
* A route deleted during its request's upstream call makes the usage event violate
  its foreign key: the client gets a 500 after the upstream has done the work, or
  the whole stream with an error event at its end, and nothing is charged.
* A charge beyond i64::MAX wraps; `ChargedExactly` speaks of amounts that fit.
* The whole-text SSE parser trims lines and the streaming one does not, so that a
  line of blanks ends an event for one and not for the other. `Clean` excludes
  such bodies from the comparison.

A grant that saturates at i64::MAX stores its full delta, so that the deltas of
such a wallet do not add up to its balance; the chain of `balance_after` values,
which `LedgerExplainsBalance` is about, stays intact.

## 4. Proofs

TLAPS checks eight proof modules for every value of the constants, under one
named assumption per module (`WalletAssumption`, `LimitsAssumption`,
`DispatchAssumption`, `GatewayAssumption`, `NodesAssumption`, `AuthAssumption`,
`CatalogAssumption`, `SseAssumption`): sets of the right shape, positive bounds,
distinguished values in or outside their sets. TLC evaluates them in every run, and checked each inductive
invariant on the run's instance before it was proved. Every safety property of
the passing runs is a theorem; `PROJECT.json` names them.

Each module has the same shape: an inductive invariant, a lemma per action or
group of actions that keeps it, `Inductive`, and the properties as consequences.
Action properties are proved of a single step that starts in the invariant.

**Wallet.** `BalanceInRange` and `LedgerExplainsBalance` are not inductive: a
COMMIT writes a balance computed from `read`, so one has to know that `read` is
still the committed balance. `WalletInv` adds, for each call by itself, that
between its SELECT and its end it holds the wallet (row lock, or SHARED) and
`read` is current, that a pending charge fits the balance, that locks belong to
calls in a transaction, and that a call that has not committed has no ledger
row. The steps split into those that commit nothing (`SilentKeeps`) and COMMIT
with or without its reply (`CommitKeeps`); the heart is `CommitExclusive`: no
other call has read the wallet that is being committed to, by the row's lock or
because SQLite's commit waits for other readers. From it follow
`BalanceSafe`, `LedgerIsTruth`, `ReadsAreCurrent`, `Refinement`
(each step is a `Post` of `CreditAccount` or a stutter).
`CallAccounted` and `AuditsAreReal` compare what a call was told with the tables.
They need `RecordInv`: before its commit a call has no row, no event and no result;
a commit adds exactly one row (`PostRows`) together with the event; and
`UsageOutcome` lists the ways `record_usage` can end, those included in which the
caller does not hear what its last statement did (`Unheard`).

**Limits.** `SlotsAccounted` counts a set, `Owners(s)`, that any step may change.
`Progress` says what a request holds at each point of its scope list: a slot of
every earlier scope and none of this or a later one, which is where `NoRepeats`
is needed, since a repeated scope would be counted twice and held once. `SlotMove`
then lists the five ways a step moves share, counter and lost slots of one scope,
and `ActSlotInv` turns each into an equation of cardinalities (the set of owners is
shown to be finite on the way, whatever `Requests` is). That those who hold a slot
are within the limit needs the count at the moment of granting (`Granted`), since
the counter later also counts refused requests about to undo. `Sound` is the
invariant of the two scripts by themselves and gives `CountersExpire`.

**Dispatch.** `DispatchInv` ties the row to the other two parties: a row that is
not yet leased has not been handed out, one with a provider's verdict was, a
daemon's work was handed to it exactly once and is of its node, and a waiting
request has a row, which makes the gateway's own timeout leave a final row behind.
`TimeIsUp` adds that a row is timed out only after its deadline, by the sweep or by
the gateway, and that a task that gives up had found its row timed out, or open at its last poll.
`HandedOutOnce`, `VerdictsEarned` and `AnswersMatch` are
consequences; `FinalStays` and `NoLateStart` are step properties that follow
from the conditional UPDATEs under the invariant.

**Gateway.** The properties speak of a request that is over; the invariant has to
say what it has left before. `NoTraceYet`: until its last step a request has no
usage event, charge, metric or end, and no log row except after a failed
preflight. `Phase` keeps the facts that choose the path (status, streaming or not).
With these each final action is checked by itself, over all its outcomes, and
other requests only share the balance.

**DaemonNodes.** `RememberedWhileFresh` depends on what handlers do after they
read the clock. `HandlerInv`: no handler has read a time that is still to come,
and a call that waits for the cache was fresh at the time it read. `CacheInv`: a
remembered expiry is the one of its call, so that pruning, which compares with a
time already past, cannot take a fresh one. `RowInv` ties `seen` to the time the
node was last heard, and a row's report to a call the node sent.
`ListIsServed` compares two queries that share nothing but the table. It needs that
a set of times with a bound has a latest one, taken from the well-foundedness of
the order on the naturals, and `RowInv` for the node whose row is broken: a row
within the staleness limit is of a node that was heard within it.

**Auth.** A task acts on rows it read some statements ago. `TaskInv` says, for each
place a task can be suspended at, which of that is still true: owners and
expiries do not change, the revoked stay revoked (`TablesGrow`), and the clock does
not go back. Roles do change, by seeds; `RoleMoves` lists how, and `StillLacksRole`
shows that a task marked `late` for its role reads none that lets it pass.
`OwnersExist` says that sessions and keys belong to users that exist, so that no
request in flight gets its role from the creation of its user.

**Catalog.** `UniqueOK` and `RoutesOK` are the tables' constraints as they follow
from the INSERTs and the cascade; `WorkOK` is what `CheckRoute` verified of a row
that is still to be inserted (the provider may be gone by then, the prices cannot
change); `SealedOK` says that what is registered was sealed; `RequestOK` says by which
prices a stored event was charged. `LinkOK` ties a request to the rows it holds: they
exist or did, the route has the provider it had, the event refers to what exists,
and it is missing only where the route is gone. It survives every step of an
administrator since tables only grow (`TablesGrow`) or detach what they delete
(`DetachedLinks`), and with `RoutesOK` a failed foreign key means a deleted route.
The arithmetic is separate: `CeilCovers` and
`CeilIsLeast` show that rounding up finds the least amount that covers, `FitsI64`
that the cut to 64 bits keeps an amount that fits.

**SseStream.** The loop is compared with a parse defined by recursion over the
body, so the proof needs induction over data. It is done on sets of numbers:
`Induction` (a set that holds 0 and is closed under successor up to n holds all of
0 .. n) follows from `LeastNat`, the well-foundedness of the naturals, and takes a
set instead of an operator. `Iterate` builds the function that a recursive equation
asks for, which shows that `Without` and `Complete` satisfy theirs (`WithoutDef`,
`CompleteDef`). On that rest three groups of lemmas. White space: `Squeezed`
distributes over concatenation, and neither a trimmed blank nor a carriage return
changes what a field adds (`SameField`). One line: the stream's step on a line, and
its step at the end of the body, do to an event what the whole parse does to one
that agrees with it but for white space (`LineSim`, `CloseSim`). The whole parse: between
newlines nothing changes (`Skip`), chunks are only added, and a refusal is final
(`Grows`). The invariant `SseInv` says that the stream is at a place of that parse: for
some k that is 0 or a newline, the lines up to k are processed, the buffer holds
the bytes behind k, and given and ready chunks together are those of `Complete(text)[k]`
(`Tracks`); or the end was met and the last event is being given (`Closed`); or the
stream is over and gave what it should (`Over`). `EmittedIsParsed` and `EmittedAtOnce`
are consequences. As in the model, a body is a sequence of symbols and only
`Clean` bodies are compared.

**Only model-checked.** Liveness (`EveryCallReturns`, `CountersReset`,
`EveryWaiterReturns`, `EveryJobCloses`, `LeaseGivenBack`) is out of the prover's
reach. `TypeOK` is proved in all modules, as a conjunct of the inductive invariant.

## 5. Not modelled

* **Metrics registry** (`metrics.rs`): counters behind one mutex per shard that
  only grow, and a text rendering. Every observation is one addition under a lock
  and nothing is decided on a snapshot. Which status is observed, and when, is part of
  `Gateway`.
* **HTTP shell** (`lib.rs`, `main.rs`): router and shared state, wiring with no
  protocol of its own.
* **Configuration and core types** (`mizan-core`): parsing of the environment,
  error types, redaction of text and tracing; their values are constants here.
* **CLI and command-output filter** (`mizan-cli`, `mizan-rtk`): a subprocess and
  text processing.
* **Request and audit logs** are modelled as far as the row that a step hands
  over; columns, the log's own INSERT and the listing queries are not.
* **Cryptography** (HMAC, AEAD, password hashing) is a library: signatures are
  valid, a sealed key opens with the key and connection it was sealed for.
* The list endpoints only read.

## 6. Plan

Done: every component with state of its own, and the proofs of all safety
properties that the passing runs check.

Left, should it become worthwhile: `Gateway` takes billing as one atomic step and
keeps no ledger, while `Wallet` is proved to refine `CreditAccount`; giving
`Gateway` a ledger of its own would let the same abstract specification be its
service, too.
