# Specifications of the AKS SRE Platform

TLA+ models of the stateful parts of this repository, the TLC configurations
that check them on small instances, and theorems about them that TLAPS checks
for every instance. Paths are relative to the repository (`src/` here);
`A/` is `docs/portfolio-archive/services/agent-hub/`, `R/` is
`docs/portfolio-archive/services/retail-finance/`.

## 1. Inventory

| Component | State | Operations | Status |
|---|---|---|---|
| **Agent Hub action executor** `A/core/action_executor.py`, `A/core/storage.py` | SQLite/Postgres tables `action_intents`, `action_approvals`, `execution_receipts`; the owner's outbox and its command table | `create_intent`, `approve_intent`, `execute_intent`; process restart | modelled: `ActionExecutor` |
| **Agent Hub investigations** `A/core/run_manager.py`, `A/core/storage.py`, `A/app/main.py` | `investigation_runs`, `evidence_records`, `investigation_evidence`, `human_decisions` | `start_investigation`, `record_decision`, `recover_dangling_runs` at start-up | modelled: `RunManager` |
| Agent Hub adapters, verifier, critic, masker, authentication | none of their own | pure functions and HTTP reads | partly: choices and guards of the two modules above |
| **Retail ledger** `R/backend/.../TransactionService.java`, `Account.java`, `AuditService.java`, the V1 schema | MySQL tables `account`, `txn_transaction`, `audit_log` | `post` (with replay) | partly: `TransactionService` |
| **Retail account opening** `AccountOpeningService.java` | the same tables | `open` | partly: `TransactionService` |
| **Retail reconciliation** `R/reconciliation-service/app` | none persisted; a cursor over a growing ledger | `run_reconciliation` with `fetch_settled` (offset pages) and `reconcile` | partly: `SettledFeed`, `Reconciler` |
| **SRE demo API** `app/sre-demo-api/src`, `deploy/base/deployment.yaml` | the readiness flag, the in-flight gauge, the server's connections; the pod's endpoint | every route, `setReady`, SIGTERM and drain, probes, restart | modelled: `DemoApi` |
| **Alert drill** `scripts/alert_drill_simulator.py` | the script's phase, the deployment's replicas, the alert | `run_drill`: inject, await, restore, resolve | modelled: `AlertDrill`, `DemoPlatform` |
| **SRE console, poller** `apps/sre-console/datafeed.js` | per endpoint failures, back-off and last success; badge, event log | `tick`, `fetchJson`, `finish` | modelled: `DataFeed` |
| **SRE console, page** `app.js`, `simulation.js`, `actions.js`, `index.html` | tabs in the document, the simulation's store, the controls that show it, the event stream | script order, tab loading, the buttons' handlers, timers | partly: `ConsolePage` |
| **Edge gateway** `platform/cloudflare/api-edge` | none; the platform's rate limiters | `fetch` with `resolvePolicy` | partly: `EdgeGateway` |
| Incident agent `app/sre_incident_agent` | per call only | `investigate`: triage, diagnose, critic, in sequence | not modelled |
| GitOps, policy and measurement scripts | files | one-pass validators and collectors | not modelled: no state between runs, no concurrency |
| Terraform, Kubernetes, Argo CD, workflows, docs | declarations | - | not modelled: interpreted by other programs |

How they interact. The Agent Hub's two components share one database and one
process: an investigation stores evidence, a reviewer decides on the run, and an
intent to requeue a dead-lettered outbox event may be created from a run's
current evidence; the executor then calls the *owner* (OpsBridge), a service that
is not in this repository, over signed HTTP. The retail ledger is written by
terminals through `post` and `open`; the reconciliation service reads it page by
page and compares them with a partner's statement. The demo API is the workload
of the SRE exercises: the kubelet probes it, the Service routes to it, and the
alert drill scales the deployment it depends on to zero until Prometheus raises
an alert. The console polls the Agent Hub's read endpoints and has a simulation
of its own that talks to nobody. The edge gateway stands in front of the
applications' APIs. The console, the gateway and the reconciliation do not
interact with each other.

What is hard here:

- FastAPI serves synchronous handlers on a thread pool: two requests interleave
  between any two storage calls, and values read before a claim are used after it.
- Each storage call is its own transaction; a process death, an exception or an
  expiry between two of them leaves what was written so far.
- An owner call may time out and arrive later; a retry must neither repeat its
  effect nor lose its result.
- In the ledger everything is one transaction, but other transactions meet it
  through unique keys, the foreign key's shared lock, the account's exclusive
  lock, the version column, deadlock rollback, and lost responses.
- The readers (settled feed, drill, console) observe a state that moves while
  they page or poll. The feed's offsets count rows that are still being
  committed, out of order; the drill's alert and its deployment are moved by
  others too; the console's ticks are started by a timer that does not wait for
  the last one.
- The demo API's one event loop interleaves handlers at every `await`: a
  readiness answer may be about a flag that has changed, a client may have
  left, and the drain, its limit and the endpoint's removal race each other.
- The console's tabs come as text that knows nothing of the store: which
  controls show it depends on when a tab arrived and on the next sync.
- The gateway's requests overlap each other while they await a digest and a
  limiter that may answer anything, and its rules overlap too: the first that
  matches decides.

`PROJECT.json` lists each such hazard at its line, with the properties aimed at it.

## 2. Modules

| Module | What it is |
|---|---|
| `ApprovedRecovery` | abstract promise: one independent decision per intent, at most one effect per intent and event version, receipts after effects |
| `OutboxOwner` | the external owner, from how the executor uses it |
| `ActionExecutor` | the detailed executor; contains its properties, inductive invariant and refinement mapping |
| `MCActionExecutor`, `MCActionExecutorLive` | instances for TLC; the second adds a history variable and the fairness |
| `ActionExecutorProofs`, `ActionExecutorRefinement` | proofs |
| `RunManager`, `MCRunManager`, `RunManagerProofs` | investigations, instance, proofs |
| `AccountBook` | abstract promise of a ledger: accounts are opened once, an entry and its balance are one step, a key has one entry, and what is told is an entry |
| `TransactionService`, `MCTransactionService` | ledger and account opening with the mapping to `AccountBook`, instance |
| `TransactionServiceProofs`, `LedgerProofs` | proofs: one invariant and what follows from it; sums over the rows and the refinement |
| `DemoApi`, `AlertDrill` | a pod with its probes and clients; the drill script with the alert and the replicas |
| `DemoPlatform` | their composition: the drill's replicas are the pod's dependency, its errors the drill's alert |
| `MCDemoPlatform`, `DemoPlatformProofs` | instance, proofs |
| `DataFeed`, `ConsolePage` | the console's poller and its page |
| `EdgeGateway` | the gateway |
| `SettledFeed`, `Reconciler`, `ReconcilerProofs` | the paged feed and the verdict, the matching as operators, proofs |
| `Services` | the last four components side by side: a behaviour is one of them (`part`) |
| `MCServices`, `ServicesProofs` | instance, proofs about console, gateway and the composition |

### ActionExecutor

A thread's record `thread[t]` holds the step it is at and its Python locals; a
step is the code from one storage or owner call to the next. `intents`, `state`,
`approvals`, `receipts` are the tables (the `state` column is kept apart from the
immutable columns). `expired` and `fresh` stand for the two clocks (the intent's
15 minutes, the evidence's TTL): time only ever turns them. `late` holds POSTs
nobody waits for any more. `deadLetteredAt`, `lastVersion` and `commands` belong
to the owner. `evidence[r]` is what run *r* recorded about the owner.

`create_intent` / `save_intent` / `save_intent_conflict`, `approve_intent` /
`record_action_approval` / `approve_intent_decided` / `approve_intent_expired`,
and `execute_intent` / `claim_intent_execution` / `owner_get_before` /
`requeue_post` / `owner_get_after` / `save_execution_receipt` / `execute_error` /
`execute_intent_settled` follow the handlers; `Crash` ends all threads and leaves
the tables. The last write of a handler is a step of its own (`settle`), so
others can run between the receipt and the state column.

A storage call may fail at any step. Inside the `try` block that is
`execute_error`, after which the handler goes on to write UNKNOWN or FAILED;
outside it, and when the UNKNOWN or FAILED write of an `except` clause itself
fails, `unhandled_error` ends the request with a 500 while the process stays up,
and leaves what the earlier steps wrote.

Requests refused before any write (allowlist, format, role, credential,
policy checks) are steps the model does not have.

### RunManager

The same thread-and-table style. `start_investigation` looks the key up; `replay`
answers with the stored proposal; `save_run`, `guard`, `fetch`, `deny`,
`save_evidence`, `collect`, `check`, `propose` are the state writes in order;
`unhandled_error` may end a request at any of them. Facts are identified with
their hash. The adapters' answer, the verifier's verdict and the critic's are
choices. `answers` records what callers were told: a caller knows a run's id only
from an answer, which is what keeps a decision from overtaking its investigation.
`Restart` ends all threads and runs `recover_dangling_runs`; `old` marks runs of
more than five minutes.

### TransactionService

One thread per request; its locals hold everything its database transaction has
written and not committed, so a rollback is `Return(t)`. Others see such work
only as locks: `Inserted` (rows under a unique key make an insert of that key
wait), `Shares` (the insert of a ledger row share-locks its account through the
foreign key), `Owns` (the `UPDATE` of an account locks it exclusively). When
two movements both hold the shared lock and both want the exclusive one,
`deadlock_victim` rolls one back. `update_account` compares `@Version`.
`insert_conflict` is the `DataIntegrityViolationException`, after which
`read_winner` or `no_winner` looks for the key in a fresh transaction.
References are random and may repeat: `insert` takes any reference. The
opening's key `opening-<account>` is represented by the account number itself,
and terminals may use such keys as well. Replays are audited; a settled posting's
audit row is part of its commit; `open_commit` commits account, first movement
and both audits at once. `fail(t)` is any rollback (audit insert, lock timeout,
connection) or a lost response. A credit that equals its fee leaves the account
as it was: Hibernate finds nothing to update, so `keep_account` takes no
exclusive lock and bumps no version, and the commit writes the row alone.

`Book` maps this to `AccountBook`: the entries are the settled rows, the balances
those of the accounts, the keys those of the rows, and what was told is the set
of references in the answers. Everything uncommitted, locked or only read is
invisible there.

Outlets, roles and account status are checks that refuse before a write and
appear as absent steps. The demo account that `DataSeeder` may create at start-up
(off by default; no outlet, no audit row) is not among `Accounts`, which are those
opened through the API. `markFailed` is not modelled: nothing calls it, and
it accepts only PENDING rows, which are never committed.

### DemoApi, AlertDrill, DemoPlatform

`conn[c]` says what the handler of connection *c* is doing; a step is one run of
the event loop, from one `await` to the next. Routes are told apart by what they
await and change: `answer_now` (nothing), `set_ready`, `request` (the
dependency's work or the metrics registry), `probe_ready` (the flag, then the
dependency), `request_unparsed` (line 42 throws before the `try`: nothing ever
answers). `gone` holds connections whose client has left while the handler goes
on. `sigterm` is `server.close()`, `drained` its callback, `drain_limit` the
unref'd ten-second timer; `End` is `process.exit`. The kubelet's readiness probe counts failures up
to the Deployment's threshold, an endpoint may be removed before or after the
signal, `restart` starts the container again. The dependency is up or not;
when it is not it refuses or is silent, and then `probe_timeout` may come first.

A drill's iteration reads the alert, asks Alertmanager when it fires, and then
acts on what it has read (`get_alert_state`, `get_alertmanager_receivers`,
`notice`, `complete` or `inject_metric_failure`); each call to kubectl is a step
in which the cluster moves on, and may fail. `deadline` and `interrupt` end the
script and restore nothing, as in the code. `evaluate_rule` (Prometheus) and
`heal` (an operator or Argo CD) are external. `warned` records that the restore
failed and was printed. With `--inject-method manual` (`manual`) the
script only asks for the injection, an operator scales (`inject_by_hand`), and
the script neither restores nor warns. `DemoPlatform` is the conjunction: `drill` passes
`dependencyUp` to the rule, and the dependency's pods go with its replicas.

### DataFeed, ConsolePage

`ticks[t]` holds what has become of the fetches of an unfinished tick; ticks
overlap, each endpoint has its failures and its retry window, and `finish` writes
badge and log. A failure resets `lastSuccessAt`; the freshness window
(`STALE_WINDOW_MS`, 10 seconds) compares the tick's start with successes after it and is therefore never
what decides (`BadgeOf`). Time is counted in units of the poll interval.
The delay doubles up to its maximum.

`ConsolePage` executes the scripts in document order (`executed`), from a page
that holds all tabs (as `prepare-pages.mjs` publishes it) or none (the source
tree). `copies` and `fetching` count a tab's contents and fetches: a tab that is
shown again while it is being fetched is fetched again. Handlers set the store
and call `syncAllUI` and `appendEvent`, as a whole. The two copies that a tab can
have share their element ids; `breaker`, `probe` and `consoleLog` are those of
the first.

### EdgeGateway

A request is what the handler tells apart: origin, owner, the topics its path
matches, method, address, credential, nonce. `resolvePolicy` is the first
rule that matches in the application's list followed by the common one.
`fetch` runs up to the call of the limiter, `limit_grants` or `limit_refuses` is
its answer, `forward` calls the origin. The limiter is external and may grant,
refuse or fail any call: Cloudflare's limits "are approximate and local to a
Cloudflare location" (`platform/cloudflare/api-edge/README.md:61`), so how many
calls it grants is no property of this code. One tier and actor, chosen at the
start, are followed: `unused` counts the grants to them less the calls of the
origin for them. A setting may be missing from the deployment.

### SettledFeed, Reconciler

A row is its place in the order of the feed's query; `commit` fills any free
place, since `settledAt` is taken before the commit. `next_page` is one query
with an offset, appended to what was pulled; a short page ends the feed and the
last allowed page, if full, refuses it. `run_reconciliation` compares the pulled
rows with a statement. `Reconciler` has no state: `by_key` keeps the first
record of a reference, `duplicates` are the others, and a report is a set of
items that name the places of the records they compare.

## 3. Runs

| Run | Instance | What it shows |
|---|---|---|
| `executor` | 2 threads, 2 intents, 2 keys, 1 event with 2 versions, requester and lead both approvers | safety of the executor and `ImplementsApprovedRecovery` |
| `executor_live` | 2 threads, 1 intent, 2 versions | every claimed execution leaves EXECUTING, unless the write of its final state failed |
| `executor_unknown` | 1 intent, 1 version, no crash | **violated**: FAILED is recorded for a command the owner applied |
| `executor_stuck` | 1 intent, 1 version, crashes | **violated**: an applied command stays EXECUTING after a crash |
| `runs` | 2 threads, 2 runs, 2 keys, 2 users, guarded and unguarded subject, 2 facts | safety of investigations |
| `runs_replay` | 1 run, 1 key | **violated**: a key whose start failed can never be answered |
| `runs_fresh` | 2 runs, 1 fact | **violated**: freshly fetched facts may carry an expired record |
| `ledger` | 2 threads, 2 accounts, 2 identities, 2 references, 1 terminal key and 2 opening keys, fees 0 and 2, `MaxLong` 3 | safety of ledger and openings, and `ImplementsBook` |
| `ledger_live` | 2 threads, 1 account, fees 0 and 1 | every request ends, also of movements that cancel out; balances with those |
| `ledger_retry` | 2 threads, 1 account | **violated**: a retry racing its original is refused for balance |
| `demo` | 1 pod, 2 clients, 1 crash, a drill with 2 target replicas, injected by the script or by hand, 1 outage of the dependency's own | safety and liveness of the pod alone and under the drill |
| `services` | 2 endpoints, 2 overlapping ticks; 3 tabs, 2 copies; 2 requests; 5 rows, pages of 2 | safety of the console, the gateway and the reconciliation, liveness of the poller |

Properties. *Executor*: `SingleExecutor` (one thread between claim and final
state), `KeyNamesOneCommand` (no two intents share an idempotency key: what the
owner stored under it is the intent's own command), `CommandsAuthorised` (the owner stores only commands that an intent, an
investigation's evidence and somebody else's approval stand behind),
`ReceiptsHonest`, `OutcomeKept` (REJECTED, SUCCEEDED and FAILED are overwritten by
EXPIRED at most), and the refinement. *Investigations*: `OneAnswerPerKey`,
`ProposalsGrounded`, `ClosedIsDecided`, `DecisionStands`, `StrictTransitions`.
*Ledger*: `BalanceIsLedger`, `OneEffectPerKey`, `AnswersSettled`, `AuditsMatch`,
`OneAccountPerCustomer`, the refinement `ImplementsBook`, `RequestsEnd`. *Demo*: `InFlightExact` (the gauge counts the running handlers,
whatever leaves, throws or drains), `StaleReadyOnce` (one readiness answer at most is
about a flag that was cleared meanwhile), `Unroutable`, `Routable` (who stays
unready leaves the Service, who stays ready comes back), `Stops`,
`CompleteRestores` (a drill that scales its target and reports success has
restored the replicas, or has warned), `Recovers` (after such a drill the pod is routed to for good).
*Console*: `LogAlternates`, `Reconnects`, `GoesOffline`, `ControlsShowStore`,
`AlarmsAreCurrent`. *Gateway*: `NeverUnthrottled` (each call of the
origin has used a grant of its own tier and key). *Reconciliation*:
`FeedExact` (nothing that was there is skipped; nothing is repeated unless a row
was committed before others) and `BalancedIsTrue` (a balanced verdict is true of
the ledger). Every property of a
passing run has a mutant of a mapped definition, a bug one could write in that
place, under which TLC finds it violated.

Bounds. Two threads give every pairwise race of handlers (claim against claim,
approve against reject, insert against insert, update against update); the
handlers take one row each, so a third thread adds another pair. Two intents on
one event give competing commands for one version; two versions give an event
that is dead-lettered again after its recovery (`MaxVersion` bounds that counter).
Two runs on two facts give shared evidence records. Two references under three
keys give repeated references, repeated keys and two movements on one account;
with amount 1, fees 0 and 2 and `MaxLong` 3 a credit may be worth less than its
fee, a debit may be uncovered and `addExact` may overflow. `version` needs no
bound: each increment consumes a reference. Symmetry is used in safety runs
only, over sets whose members are not told apart. Deadlock is not checked:
keys, references and intents run out, and a system without requests stops.
In `demo`, two connections and the probe give a request that waits, one that is
being answered and a drain at once; `ReadyThreshold` is the Deployment's 2. The
pod's own behaviours (clients, crashes, deletion) are explored without a drill,
and the drill's with a pod that is only probed: the pod's clients neither read
nor write what the drill does, and `MCDemoPlatform` says so in its `MCNext`. In
`services`, a behaviour is one of the four components (`part`); two ticks
overlap, and a back-off of 3 units outlasts a poll interval of 1; `MaxFailures`
is 2 for the code's 10, and nothing compares it with another constant. Of the
five tabs the two with controls and one without are kept. Five rows over pages of two and two
pages give a feed of one, two and too many pages, an exact multiple of the
page size and rows that shift a boundary; the statements list the first rows,
with repetitions and a wrong amount. Counters that only observe (`lateReady`,
`feedRepeat`) saturate.

Fairness. None is assumed of callers, clocks, crashes or the owner's deliveries.
`executor_live`: WF of `Serve(t)`: the pool schedules its threads and each owner
call returns, at the latest with the client's timeout, for a process that stays
up (`executor_stuck` shows that a crash makes it false). The history variable
`unwritten` names the intents whose last write failed, which nothing ever repeats.
`ledger_live`: WF of a thread's own steps, SF of the steps that wait for another's
lock, the two inserts (an uncommitted key) and `update_account` (a share-locked
account): InnoDB's lock queues are first come, first served, so a waiter is not
overtaken for ever. `demo`: the event loop runs and what it awaits returns, at the
latest with the code's timeouts; the kubelet probes and restarts; the drain timer
fires (`PodFairness`); the script's iterations go on, and as each sleeps, they
reach the deadline (`DrillFairness`: SF, because between two iterations it is
not enabled); a dependency with replicas comes back and one without goes. Nothing
is assumed of clients, deletions, the rule, `heal` or the readiness flag.
`services` (`FairServices`): the timer fires, time passes and a fetch is answered in the end
(`FeedFairness`), which is the browser's own timeout: the code has none, and a
fetch that hangs leaves its tick unfinished and the badge as it was. In this run
the fairness applies to behaviours of the poller, the one part with liveness
properties; the safety properties of the other parts are checked in all states.

## 4. Findings

- `UnknownIsMandatory`: `was_unknown` is computed from the intent read before the
  claim. A thread that reads the intent while another executes it, and claims it
  after that one wrote UNKNOWN, meets the cleared event as a conflict and records
  FAILED, from which nothing may be retried, for a command that was applied.
- `LostExecutionIsUnknown`: the start-up recovers investigation runs only; an
  intent whose executor died stays EXECUTING, which the claim does not accept.
- `KeyReplayable`: a stored run without a proposal makes every retry under its
  key fall through to an insert that breaks the unique constraint.
- `EvidenceCurrent`: `ON CONFLICT DO NOTHING` keeps the first record's expiry (and
  scope) for facts that were fetched again.
- `RetryGetsOriginal`: `post` looks the key up before its transaction and reads
  the account in it; a retry whose original commits in between is refused for
  insufficient balance instead of being resolved to the original.

More facts are visible in the models without a run of their own:

- A failure of the UNKNOWN or FAILED write in `execute_intent`'s `except` clauses
  (`unhandled_error` at `settle`) leaves the intent EXECUTING with the process
  up, as a crash does. One of `approve_intent`'s second write leaves an approval
  row with the intent in AWAITING_APPROVAL, where every later decision fails on that
  row's key, until it expires.
- `R/README.md:83` says "Audit written in `REQUIRES_NEW`" and that audit writes use
  independent transactions. In `AuditService.java` that holds for replays, sign-ins
  and `markFailed` only: `recordWithMovement` and `recordWithAccountOpening`
  (MANDATORY) join the posting's and the opening's transaction, as their comments
  say, and `AuditsMatch` checks that. That README is out of date.
- `DataSeeder`'s demo account, when it is switched on, has no ACCOUNT_OPENED row.
- Cloudflare's limiters are approximate: `NeverUnthrottled` says that nothing passes
  without a grant, not how many are granted.
- `server.close` also closes idle connections: a request that a client has sent on
  one, and that the process has not read yet, is cut by an orderly exit (`sigterm`),
  although `app/sre-demo-api/src/server.js:147` promises that rolling updates
  produce no 502s for that reason.
- After `--inject-method manual` nothing is restored, and a drill may complete with
  the replicas as the operator left them.
- The poller writes its own "lost connection" line into the same stream as the
  simulation; `AlarmsAreCurrent` is about the simulation's lines.

- The expiry check in `approve_intent` and `execute_intent` writes EXPIRED over
  any state, UNKNOWN included; `recover_dangling_runs` leaves old runs alone that
  died in `evidence_collected` or `policy_checked`.
- `sigterm` closes the listener while `endpoint` may still be set: new requests
  routed in between are refused, although `app/sre-demo-api/src/index.js:31`
  calls the drain "zero-downtime". The Deployment has no preStop hook.
- A request target that is no URL is never answered; its connection stays until
  the client leaves or the drain limit.
- A drill that meets its deadline or is interrupted after the injection leaves the
  deployment at zero replicas. `CompleteRestores` is about drills that succeed, so
  no property catches this.
- A late row makes the settled feed repeat one: a statement that is right is then
  reported as unbalanced (a duplicate in the core), never the other way round.
- A tab fetched after an outage was simulated shows the defaults until the next
  sync, and a second copy of it for ever.

## 5. Proofs

All proofs are for every value of the constants, under the named assumptions:
`None` is not a row, `MaxVersion` is positive, run owners are users
(`OutboxOwner`, `ActionExecutor`), guarded subjects are subjects (`RunManager`).
TLC evaluates the assumptions in the runs.

*Executor.* `IInv` = `TypeOK` with `RowsInv` (rows refer to rows, keys are unique,
approvers differ from requesters), `StateInv` (what the state column says about
the approval row), `LocalsInv` (what a thread may rely on between its own calls),
`ExclusionInv` (claim and decision exclude each other), `OwnerInv` (late POSTs
are approved, a recovered version does not come back), `CommandsAuthorised` and
`ReceiptsHonest`. `SingleExecutor` is not inductive: a second claim is excluded
only because an executing intent is EXECUTING or EXPIRED, which in turn needs
that no approval is still about to write APPROVED over it. The proof has one
lemma per action about its effect on the tables, one lemma that a step of thread
*t* keeps every other thread's `LocalInv`, and the theorem by cases on `Next`.
`OutcomeKept` follows from the same invariant, and so does `KeyNamesOneCommand`
(`OneCommandPerKey`), as keys are unique among the intents' rows. `ActionExecutorRefinement` shows
that the initial states map to initial states and that each step maps to one
abstract step (insert of an intent: Propose; approval row: Decide; stored
owner command: Apply; receipt: Confirm) or to a stutter.

*Investigations.* `IInv` of `RunManager` in the same layout: unique keys, proposals
exactly for proposed and closed runs, answers are stored proposals, a serving
thread has its run to itself, evidence is stored before it is cited. All safety
properties of the run `runs`, both action properties included, are theorems.

*Ledger.* `IInv` of `TransactionService` joins the safety properties with what a
thread knows of its uncommitted rows (`RequestInv`), of the account it read or
locked (`AccountInv`: the balance it read goes with the version it read, and
before the commit its new balance is the row's plus the movement) and with
`LocksInv`: no two uncommitted rows share a key or a reference, and nobody
shares the account of a thread about to commit an update of it. A lost update is
excluded by the version comparison and, between that comparison and the commit,
by the lock.

`LedgerProofs` carries this to the sums. `BalanceIsLedger` compares a balance with
a fold over the settled rows, and a fold over a finite set is known only through
its recursion. The library's induction theorems cannot be instantiated here, but
the principle itself is first-order when it is stated for a *set* of naturals:
`InductionOnNat` follows from the minimum principle. With it, a recursive sum over
a finite set is shown to exist, to be unique, and to grow by the row that is
added; `BalanceInv` is `IInv` with the finiteness of the settled rows and
`BalanceIsLedger`. `LedgerImplementsBook` maps
every step to one of the book or to a stutter: `commit` to a posting, `open_commit`
to an opening with or without a first entry, `respond`, `read_winner` and
`post_replay` to telling an answer, and every other step changes nothing the
book can see. That the book's balance after a posting is not negative and fits a
long is where the balance check, the version and the lock are needed together.
`LedgerImmutable` (a settled row stays as it is) is a theorem of its own.

*Demo platform.* `PodInv` adds to the pod's properties that a process that is
not running has no connections, and that the probe's stale answer needs a probe
under way since before the flag was cleared, and that there is one probe
(`LateProbe`). `PlatformImplementsPod` shows that a pod under a drill is the pod
of `DemoApi` (its steps are the pod's or leave it alone), so `GaugeIsExact`
and `OneStaleAnswer` hold there too. `DrillInv` says that from `await_resolve` on
the replicas of a drill that scales them are there or the script has warned: no
injection comes after the restore because
`MayInject` needs the first phase, and phases do not go back.

*Console.* `LogInv`: the log has no entry before there is a badge and a stream,
so that the badge before a tick's end decides which entry may follow.
`PageInv`: an outage is one state (`readiness = ~chaos`), a synced tab stays in
the document, and the stream is known to `simulation.js` before an alarm; for
every bound on copies and bursts.

*Gateway.* `EdgeInv`: the grants that no call of the origin has used are those of
the requests between the two, one each; nothing is assumed of the limiter.
`WriteTier` is a fact about the two rule lists and their order.

*Reconciliation.* `ReportAccounts` and `BalancedSidesEqual` are about the
operators, for all sequences of records; a first record per reference is unique,
so nothing is compared twice. `FeedInv`: all rows of the start whose *rank* among
the committed rows is on a page read so far have been read. A commit can only
raise a rank, so what it moves it moves to pages still to be read; a short page
has the last rank. `BalancedVerdictTrue` joins the two. `FeedIsExact` adds
`OrderInv`: while no commit has come before another row, each row that was read
is at its own rank, so the rows ascend and none is read twice.

*Composition.* `ServicesApart`: a behaviour of the composition is one of each
part, so what is proved of a part holds in it. `ServicesTypes` needs one fact
that is not about a step: the back-off's 2^n is a natural number, because it
counts the subsets of 1..n.

Only model-checked: the liveness properties (`ExecutionEnds`, `RequestsEnd`,
`Unroutable`, `Routable`, `Stops`, `Recovers`, `Reconnects`, `GoesOffline`) with
the fairness behind them, which is out of the prover's reach, and the violations.
Every safety property, action property and refinement of a passing run is a
theorem.
Assumptions of the ledger's proofs: amounts are positive and fit a long, fees
are not negative, `None` is no row.

## 6. Not modelled, and why

- *Incident agent.* One synchronous function over read-only adapters: no state
  between calls, no concurrency, and each adapter's failure is caught where it is
  called. What it promises (abstain without evidence, never write) restates its
  assignments, which its unit tests cover.
- *Reconciliation*: the statement's parser and triage, pure functions of one
  request; the variant of the feed for one outlet, the same paging with a filter.
- *Console*: the cells filled with fetched data, KPI placeholders, the latency
  ping and the static runbook helper: rendering without a decision of its own.
- *Gateway*: headers, CORS and the origin-proof signature, which change what is
  sent and not whether.
- *Demo API*: logging, tracing and the counters that nobody reads; the startup
  and liveness probes, which read no state.
- *Ledger*: `markFailed`; outlets, roles and account status (absent steps).
- *GitOps, policy, measurement and triage scripts*: one pass over files or
  tools' output. *Terraform, Kubernetes, Argo CD, workflows*: declarations, of which
  the Deployment's probes and grace period are in `DemoApi`.
- *Vendored and generated files.* The documentation site's `lunr/wordcut.js`
  and `lunr/tinyseg.js` (6,914 of the 8,696 lines of JavaScript in the
  repository) are third-party word segmenters that the site generator copies;
  they carry none of this system's logic and are left out on purpose, so a share
  of lines counted over all JavaScript stays low. The project's own JavaScript
  with state or control (the demo API, the poller, the page, the gateway) is
  mapped. The Python and Java services are mapped as well.

Further work, in this order: a composition of `RunManager`'s evidence with
`ActionExecutor`'s intents; an abstract specification that `RunManager` implements;
the page's second copies.
