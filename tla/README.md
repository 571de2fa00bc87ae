# Verification of the ai-memory-search-agent

TLA+ models of the parts of this repository whose correctness depends on the
order in which things happen, TLC configurations that model-check them on small
instances, and proofs, checked by TLAPS, that hold for every instance.

The repository is a FastAPI application ("AI Memory Search Agent") that ingests
videos, pages and captures into a searchable memory. Requests run concurrently
with worker threads; state lives in SQLite (a single process) or Postgres
(several processes), beside a vector store and a full-text index.

## Contents

The models form five planes. Each has a module per component, a composing
module with the properties, an MC module with its constants, and the `.cfg`
files of its runs.

| Plane | Modules | Composed and checked by |
|-------|---------|-------------------------|
| SQLite jobs | `JobQueue` (queue, worker threads, requests), `WorkLedger` (abstract: what a job store promises about items) | `MCJobQueue`, `JobQueueSafety.cfg`, `JobQueueLiveness.cfg`, `JobQueueCancelRace.cfg` |
| Postgres jobs | `PgJobQueue` (statement by statement, with the erasure fence) | `MCPgJobQueue`, `PgJobQueueSafety.cfg`, `PgJobQueueStale.cfg` |
| Intake | `IngestCalls` (an ingest as its callers see it), `ImportRun`, `Capture`, `IngestAgent`, `RetryQueue` | `Intake`; `MCIntake`, `IntakeSafety.cfg`, `IntakeRetry.cfg`, `IntakeClaims.cfg` |
| Memories | `MemoryPlans` (operations as sequences of store calls), `MemoryRecords` (records and lifecycle), `IngestPipeline`, `SemanticCache`, `MemoryDeletion` | `MemoryPlane`; `MCMemoryPlane`, `MemorySafety.cfg`, `MemoryResave.cfg` |
| Tenants | `TenantTables`, `LocalTables` (the tables and writes of every store), `TenantWrites` (live writes), `Migrations`, `AccountErasure`, `AgentRuntime` | `TenantPlane`; `MCTenantPlane`, `TenantSafety.cfg` |
| Services | `Requests`, `ModelRouting`, `Feedback`, `EventLog`, `TokenVault`, `InsightIndex`, `CommandConfirm`, `SchemaUpgrade` | `ServicePlane`; `MCServicePlane`, `ServiceSafety.cfg` |
| Proofs | `ItemCounts`, `JobQueueProofs`, `PgProofs`, `IntakeProofs`, `ServiceProofs`, `TenantProofs` (the fence and the rows), `PlaneProofs`, `MemoryProofs` | `tlapm` |

`PROJECT.json` lists components, runs, mutants, the map from definitions to
source lines, findings, hazards and theorems. A run is checked with, for example,
`tlc -config JobQueueSafety.cfg MCJobQueue`, the proofs of a module with
`tlapm ServiceProofs.tla`.

## The system

### Components and their state

| Component | State | Operations | What makes it correct |
|-----------|-------|------------|-----------------------|
| SQLite job queue (`app/db/job_store.py`, `services/job_worker.py`, `api/routes/jobs.py`) | `background_jobs` (status, paused, counters), `job_items`, `job_item_leases`; per thread: claimed item, result | create, claim, heartbeat, complete, pause, resume, cancel, retry, delete; crash, restart | counters exact; one holder per item; late results discarded; closed jobs closed; work not lost |
| Postgres job queue (`app/db/postgres_job_*.py`) | the same tables; row locks, transactions of several processes | the same | the same, for overlapping READ COMMITTED transactions and deadlock victims |
| Imports (`services/import_manager.py`) | `import_runs`, `import_run_items` | start, the import thread, cancel | totals match items; a cancel is not lost |
| Captures (`services/capture_service.py`) | `captures` | capture, the capture thread, retry | what nobody works on shows its end |
| Ingest agent (`services/ingest_agent.py`) | rules, claims | create, approve, disable, run | one ingest per claim; a claim is worked on |
| YouTube retry queue (`db/youtube_memory_store.py`, `api/routes/youtube.py`) | queue rows with attempts | enqueue, process | at most `max_attempts` |
| Ingest pipeline (`services/ingest_service.py`, `connector_ingest_service.py`) | chunks, vectors, capsule, full text, transcript hash, registry, URL index | ingest a video, a page, a known source | "already indexed" only for what is completely stored |
| Memory lifecycle (`services/memory_lifecycle_service.py`, `universal_memory_service.py`, `db/memory_store.py`) | `memory_records` with lifecycle state | upsert, advance, transition; archive, revive, merge | a memory is trusted only if it is there |
| Semantic cache (`services/semantic_cache.py`) | cached answers, index version | get, put, bump, invalidate | no answer from an index older than its version, none with a deleted memory |
| Deletion and erasure (`services/privacy_service.py`, `privacy_erasure.py`, `db/account_erasure_fence.py`) | all tables of a user, the fence | delete a memory, erase an account | nothing is left or comes back, nothing of others goes; ownership goes last |
| Migrations (`db/postgres_*_migration.py`) | the SQLite rows, the target rows, a ledger | preflight, replay, finish; again | every row arrives once, live writes survive |
| Agent runtime (`services/agent_runtime.py`) | `agent_runs`, `agent_tool_calls` | run, approve, invoke, mark | a tool runs once per approved run; run and call agree |
| Knowledge graph (`db/postgres_knowledge_graph_store.py`, `services/entity_merge_service.py`) | entities, relations, links | upsert, link, merge | no row without its parent |
| Model router (`services/model_router.py`) | usage ledger, cooldowns | choose a route, call, record | a budget is exceeded only by what is under way |
| Feedback (`services/feedback_service.py`, `db/postgres_feedback_store.py`) | feedback, credits, learned length | submit | one feedback per answer; daily cap; counts |
| Event bus (`services/event_bus.py`, `db/postgres_event_store.py`) | event rows, subscriptions | emit, list after a cursor, post | a follower misses nothing |
| Token vault (`services/oauth_token_vault.py`) | the authorization of a connector | put, get_valid with a refresh, revoke | what was revoked stays so |
| Intelligence (`services/memory_intelligence_service.py`, `db/intelligence_store.py`) | topics, links, edges, profiles, capsules | index a memory, view capsules, delete | what shares a topic is linked, within the caps of the index |
| Command router (`services/command_router.py`) | the signing secret, used tokens | plan, execute | a confirmation counts once; good tokens stay good |
| Schema upgrade (`db/schema.py`) | `user_version`, the library tables | migrate at start | no row is lost when it is cut off |
| Everything else | see `PROJECT.json` "components" | | read-only, derived, external or user interface |

### How they interact

A playlist request or an import creates work; worker and import threads call the
ingest pipeline, which writes the stores one after the other, bumps the semantic
cache and moves the memory through its lifecycle; most operations emit an event
after they committed. Nothing is called back into the job queue: from its point
of view an ingest is a call that returns a result, raises, or never ends because
the process died. `IngestCalls` is that view, shared by all callers, and
`IngestPipeline` opens the same call up. Account deletion raises the fence first
and then deletes store by store; every writer of the Postgres profile checks the
fence inside its transaction, migrations included.

### What is hard

Concurrency: threads and processes, requests for the same row; reads and writes
of one operation in different transactions; row locks taken in different orders.
Failure: a process that dies between two transactions, a store call that raises
between two others, a lease that runs out while its holder still works. Ordering:
late reports, a cancel against a retry, an event committed after a later one.
`PROJECT.json` lists every hazard at its line with the properties that cover it.

## The SQLite job queue: `JobQueue`

**State.** `status`, `paused`, `tally` are columns of `background_jobs` (`tally`
holds the five counters), `istat` is `job_items.status`, `lease` and `lapsed`
the row of `job_item_leases` and whether `lease_until` (or, without a row,
`updated_at`) is in the past. `wpc`, `witem`, `wres` are the program counter and
locals of a worker thread, `req` the job row a request has read, `starts` counts
server starts. A job that was never created is `"absent"`, a deleted one
`"deleted"`; job ids are uuids, so neither comes back.

**Actions.** One action per SQLite transaction:

| Action | Code |
|--------|------|
| `CreateJob` | `create_playlist_job` |
| `ClaimQueued`, `ReclaimExpired` | `claim_next_item` (first claim, takeover) |
| `LoadContext` | `get_job_execution_context`, which raises for a deleted job |
| `IngestReturns`, `IngestRaises` | the ingest call and the branches of `_process_item` |
| `Report`, `DiscardStale`, `ReportRaises` | `complete_item`: done, `False`, or an exception |
| `Heartbeat` | `heartbeat_item` |
| `LeaseRunsOut`, `HeartbeatsMissed` | time |
| `Crash`, `StartServer` | the process dies and is started again with new worker ids |
| `ReadJob`, then `SetPaused`, `CancelJob`, `RetryFailed`, `DeleteJob` or `WriteNothing` | the requests, whose read and write are two transactions |

`claim_next_item` and `complete_item` run under `BEGIN IMMEDIATE`, the writes of
the others in one implicit transaction, so SQLite serializes them; the read that
a request bases its decision on is outside its write transaction, and the model
keeps that gap.

**Abstractions.** Titles, urls, errors, timestamps (other than "has this lease
run out?"), `job_events`, the event bus, and `background_jobs.lease_owner` and
`lease_until`, which no code reads, are left out. The job's `'failed'` status
is tested by the code but never set, so it is not a state.

**Properties.**

- `CountersMatch`: every counter of a job equals the number of its items in that
  state. The code adds and subtracts in five places, under `MAX(0, ...)`.
- `ClosedJobsHaveNoQueue`: a completed job has nothing open, a cancelled one
  nothing queued, also when the closing write was decided on an old read.
- `KeepsLedger`: the refinement of `WorkLedger`. An item has one holder, is taken
  from it only when its lease has run out, is settled (and its lease renewed)
  only by the worker that holds it, and what is completed, skipped, cancelled or
  removed is never handed out again. The ledger sees which item each worker is
  working on (`task`), so a report by a worker that lost its item is a step of
  its own, `GiveUp`, and cannot pass for the holder's. A legacy item without a
  lease row is an item without a recorded holder.
- `CancelIsFinal`: a cancelled job is left only by a delete.
- `OpenItemsGetSettled`: an item of an active job is eventually settled or its
  job stops being active.

**Fairness** (the only liveness of the project). `WF(WorkerStep(w))`: a worker
thread loops, its transactions end and an ingest call ends (the code calls
libraries with time-outs). `WF(LeaseRunsOut(i))`: time passes. `WF(StartServer)`:
a dead server is started again (`docker-compose.yml` restarts it). Nothing is
assumed about requests, heartbeats or faults. Faults are bounded, so from some
point on there are none: an environment that lets every lease run out for ever
makes no progress. The other planes have no such promise to check: nothing
resumes an interrupted import, capture or ingest, and a lost webhook post is not
repeated.

## The Postgres job queue: `PgJobQueue`

Several processes share a database and their transactions overlap, so the unit
is the SQL statement. Each session (a worker's connection, its heartbeat
thread's, a request's, the erasure's) has at most one open transaction, `txn`:
what it does, the next statement, and what it has read. `lock` says who holds
each row lock. Three rules of Postgres make the difference to `JobQueue`:

- a statement sees what was committed when it started. The claim query is split
  into `BeginClaim` (what it sees) and `ClaimItem` (the first row it can lock,
  `SKIP LOCKED`); a report into `BeginComplete` (the ownership subquery) and
  `CompleteItem` (the item row is locked and its own columns checked again, the
  subquery is not);
- row locks are kept until the transaction ends, so uncommitted writes are not
  seen by others; the model applies a transaction's writes with its last
  statement. The one read that depends on the transaction's own writes, the
  count of open items in `complete_item`, leaves out the item being reported;
- sessions that wait in a cycle are a deadlock: `Abort` rolls one of them back,
  any of them, and the worker's exception handling follows.

A statement that locks several rows locks them at once, and a session waiting
for its first row lock is shown as not started when nothing it saw before
matters. The facade's reads before a control call (`PostgresJobStore.get_job`)
are left out: the stores check again under the lock. The tenant's advisory lock
is represented by `Writers`: `Fence` waits for them, they check `fenced`. One
tenant, so the claim's loop over owners is a single query.

**Properties.** `CountersMatch`; `JobsCloseWithTheirItems` (a completed job has
nothing open, a running one something, two simultaneous last reports included);
`EndsAreFinal` (what is completed or skipped stays so, and so does a cancelled
job, which the row lock of `retry_failed` gives here); `ErasedStaysErased`; and
`SettledByHolder`, which does not hold.

## Intake: `IngestCalls`, `ImportRun`, `Capture`, `IngestAgent`, `RetryQueue`

**State.** `IngestCalls` keeps what calls of `ingest_single_url` and `ingest_url`
leave behind and their callers read: how much of each source is stored, the URL
index, the rows of `connector_retry_queue`, and the call each thread is in. A URL
has a canonical form (`Canon`); a short link and its video are two URLs of one
source. `ImportRun` adds `import_runs.status` and its counters, the items and
the import threads; `Capture` the captures' stages; `IngestAgent` rules and
claims; `RetryQueue` the requests that work the queue off.

**Actions.**

| Actions | Code |
|---------|------|
| `BeginCall`, `CallSucceeds`, `CallSkips`, `CallFails`, `CallMissesTranscript`, `CallEnqueues` | `ingest_single_url`: known already, stored, skipped, failed with or without something stored, put on the retry queue (a SELECT, then an UPDATE or INSERT) |
| `CreateImport`, `StartImport`, `CancelReads`/`CancelWrites`/`CancelItems` | the requests; a cancel is a read and two writes |
| `SetRunning`, `CheckCancelled`, `LookUpDuplicate`, `MarkProcessing`, `CallIngest`, ... `SettleItem`, `FinishRun` | `_run_import`, one action per store call, with the `except` branch of an item |
| `CaptureUrl`, `RetryReads`, `RetryStarts`, `CallCapture`, `ReportStage`, `FinishCapture`, `FinishRaises`, `RescueCapture` | `capture_url`, `retry_capture`, `_run_capture_pipeline` with `on_stage` |
| `CreateRule`, `ApproveRule`, `DisableRule`, `RunRule`, `ClaimUrl`, `CallForRule`, `CompleteClaim`, `ReleaseClaim`, `ClaimIsLeft` | the rules and `run_rule` |
| `ProcessRetries`, `CallRetry`, `CompleteRetry`, `LookAgain`, `CountAgain` | `process_retry_queue` over copies of the rows |
| `Crash`, `...Raises`, `...Fault` | the server dies with all threads; one store call raises |

A thread serves one request at a time, whichever it is (`Free` in `Intake`).

**Properties.** `FinishedTotalsAddUp`: the totals of an import add up to its
items, but for items whose bookkeeping raised after it had been counted
(`miscounts`). `QuietIntakeIsSettled`: without faults, an import or a capture that
nobody works on has an end, and so has each item. `CancelLostOnlyInWindows`: a
cancelled import is shown otherwise only by a thread between its last look and its
final write, or by a new start: the two windows the code leaves open.
`OneIngestPerClaim`, `ClaimsAreWorkedOn`: the primary key of the claims gives a
claim one holder, and only a failure leaves it behind. `LiveRowsMayBeRetried`: what
is on the queue has attempts left. `DeadStaysDead` and `CompletedClaimsAreStored`
do not hold (see Findings).

## Memories: `MemoryPlans`, `MemoryRecords`, `IngestPipeline`, `SemanticCache`, `MemoryDeletion`

**State.** An item is one user's copy of a source. `record` is its row of
`memory_records` (id and lifecycle state); `rows` is the set of all derived rows
`<<store, key>>`. In the SQLite profile lexical rows, capsule JSON and transcript
hashes are keyed by the source alone, so two users' copies share them (`Shared`);
in Postgres nothing is shared. `version` and `cache` are the index version and one
cached answer per user, `job` what each thread does. `muddled` is a history
variable: items whose stores a failure, or a deletion beside an ingest, may have
mixed up, until an operation on them ran alone to its end.

**Actions.** An operation is a *plan*: the sequence of its store calls in the order
of the code (`VideoPlan`, `PagePlan`, `Finalize`, `MarkPlan`, `DeletionPlan`, ...),
and a thread carries out one call at a time: `Adds`, `AddsNothing` (best-effort
calls), `Drops`, `Bumps` (in SQLite a read and a write), `Wipes`, `PutReads` and
`PutWrites` or `PutConflicts` (an upsert reads in one transaction and writes in
another), `AdvanceReads`, `TransitionReads`, `TransitionWrites`,
`LooksForOthers`, `Forgets`, `Invalidates`; a search is `Search`, `CacheGet`,
`Retrieve`, `ReadVersions`, `CachePut`. `IngestVideo`, `IngestPage` and
`ReadTranscript` are the decisions (already indexed, unchanged, duplicate, no
transcript, trusted or not). `CallRaises` ends an operation at any call,
`DropSwallowed` is the deletion that goes on after one whose exception the code
swallows, and notes what it has `missed` (its item stays mixed up, `Ordered`); `Crash`
ends them all.

**Properties.** `SettledMemoriesAreWhole`: what a user has as a memory is in every
store that a search needs. `SettledDeletionsLeaveNothing`: what was deleted is in
none, but the shared rows another user needs. `OwnershipGoesLast`: also a repeated
deletion gives up the record only when nothing else is left, except the rows whose
removal failed without its noticing (the chunks, and in SQLite the lexical rows; see
Findings). `AnswersAreCurrent`:
in Postgres an answer of the current version whose search began under it misses no
stored memory; a deleted memory is in no cached answer but one that was being
put together meanwhile. `AlreadyIndexedIsIndexed` does not hold (see Findings).

## Tenants: `TenantTables`, `LocalTables`, `TenantWrites`, `Migrations`, `AccountErasure`, `AgentRuntime`

**State.** `Kind` enumerates the stores: 28 groups of Postgres tables and 10 of
SQLite tables. A row is `[tab, owner, id, key, ref, body]`: a generated id, what the
user means by it, its parents' ids, its status. A table says what identifies a row
(`unique`), whose child it is and whether a foreign key enforces it; a write has a
verb for each table it touches; a migration is a script of statements. A behaviour is
about one kind (`store`), chosen in `Init`, because stores share no rows. Stores of
the same shape are so checked by one set of actions, and what a store does
differently is in its verbs and its script:

| Verb or step | Code pattern |
|--------------|--------------|
| `upsert`, `ignore` | `INSERT ... ON CONFLICT DO UPDATE` / `DO NOTHING` |
| `find`, `put` | SELECT, then UPDATE or INSERT; `put` with `FOR UPDATE` |
| `revive`, `birth` | the SQLite memory upsert and the first row of its history |
| `replace`, `update`, `insert`, `drop` | the plain statements |
| `merge`, `join` | the merge of two entities, in Postgres and in SQLite |
| `check`, `skip`, `with`, `once`, `needs`, `parity`, `setval` | preflight, `ON CONFLICT DO NOTHING`, items with their run, the ledger, rows that need a parent, the final comparison, the sequence |

**Actions.** `Begin` (take the shared fence lock, check it, read) and `Write`
(write and commit, or fail on a constraint); `Delete`, without the fence, as in the
code; `MergeReads`, `MergeWrites`, `LocalMergeWrites`. `StartMigration`,
`LockOwner`, one action per script step and row, `FinishMigration`, `Rollback`.
`Fence` (waits for all transactions that hold the shared lock), `EraseStore`,
`EraseMemories` (some deletions may fail, which keeps vectors and residuals),
`Raises`, `Finish`. `Run`, `Approve`, `SetRunning`, `CreateToolCall`, `InvokeTool`,
`Mark`, `Refused`. `Crash` rolls back a transaction, a migration or a request.
`overtaken`, `crossed`, `settled`, `muddled` and `doubled` are history variables
that say which races a property excuses.

**Properties.** `ErasedTenantsStayErased`, `ErasureIsExact` (behind the fence the
leaver's rows only go; nothing of a neighbour goes), `MigrationsAreFaithful` (a run
that finishes brought every row over, and one with nothing new adds nothing),
`StagesMigrateOnce`, `EventsAreRecorded` (no live event is lost to an id that is
taken), `OrphansNeedARace` (a child without parent, or a memory without the event
of its creation, only by a transaction that was overtaken), `OneCallPerRun`,
`RunsTellTheTruth`.

## Services: `ServicePlane` over eight modules

The services share no rows, so a behaviour is about one `part` (answers, tokens,
insight, commands or upgrade), with the backend `local` chosen in `Init`.

| Module | State | Actions and code |
|--------|-------|------------------|
| `ModelRouting` | `used` (ledger), `cooling`, `answered`, `route` | `Ask`, `Consider` (budget and cooldown), `Answers`, `CallFails`, `DeadlineReached`, `Record`, `RecordInteraction`: `model_router.py` with the adaptive router |
| `Feedback` | `given`, `credits`, `samples`, `submit` | `Submit`; `WriteLocally` (SQLite); `ReadLength`, `UpsertLength`, `SumCredits`, `CommitFeedback` (Postgres, with the row locks) |
| `EventLog` | `log`, `drawn`, `hooks`, `reader`, `emit` | `Store`, `Commit` (any order in Postgres), `FindHooks`, `Post`, `Subscribe`, `ListEvents` by cursor |
| `TokenVault` | `row`, `vault` | `Connect`, `Revoke`, `GetValid`, `Refreshed`, `PutRefreshed`, ... : each a transaction with an audit event |
| `InsightIndex` | `rows`, `links`, `capsules`, `saved`, `job` | `Save`, then the stages topics, creator, peers, edges, concepts row by row (`Look`, `Put`); `ViewCapsules`; `DeleteCapsule`, `DeleteVideo`, `DeleteLinks` |
| `CommandConfirm` | `disk`, `cached`, `tokens`, `consumed`, `clock` | `PlanCommand`, `ExecuteCommand`, `_secret` step by step (`KeyAtHand`, `ReadFile`, `Truncate`, `Fill`, `CacheKey`), `Mint`, `Verify`, `Consume`, `Forget` (restart) |
| `SchemaUpgrade` | `version`, `made`, `lib`, `staged`, `at` | `migrate`, statement by statement with its implicit commits; `Die` at any of them |

**Properties.** `SpendingStaysInBounds`: budgets and the credit cap are exceeded by
no more than what the other threads had under way. `SharedTopicsAreLinked`: two
videos indexed to the end have an edge if they share a topic that is among the first
`MaxNames` names (8 in the code) of both. The index has four caps: the names it looks
for other videos by, the videos it compares with (`MaxPeers`, 30, which ones is left to
the order of a Python set), the concepts it refreshes (12, and 20 when they are viewed).
An indexing that met more than `MaxPeers` videos passes over some of them and does not
count as one to the end (`whole`, `indexed`). `ReadersMissNothing`,
`RevokedTokensStayRevoked`, `ConfirmedOnce`, `TokensStayGood`,
`UpgradesKeepTheLibrary`: as their comments say, each with the exception the code
really leaves (a late commit, a refresh that had read the token, the second of
expiry, two keys drawn at once, a death between DROP and RENAME).

## Runs and bounds

| Run | Instance | Shows |
|-----|----------|-------|
| `jobqueue_safety` | 1 job, 2 items, 2 starts of 2 threads, 2 concurrent requests, 3 requests and 2 faults in all | `TypeOK`, `CountersMatch`, `ClosedJobsHaveNoQueue`, `KeepsLedger` |
| `jobqueue_liveness` | 2 jobs of 1 item, one of them legacy, 2+1 threads, 2 requests one at a time, 1 fault | `OpenItemsGetSettled`, `CancelIsFinal` without concurrent requests |
| `jobqueue_cancel_race` | 2 requests at a time | `CancelIsFinal` violated |
| `pgjobs_safety` | 1 job, 2 items, 2 workers with heartbeats, 3 of create, cancel, retry, pause, resume, delete, the erasure, 1 fault | `TypeOK`, `CountersMatch`, `JobsCloseWithTheirItems`, `ErasedStaysErased`, `EndsAreFinal` |
| `pgjobs_stale_completion` | creation and 1 fault | `SettledByHolder` violated |
| `intake_safety` | 1 import of 2 items (one without http), 1 capture, 1 rule with a short link, 2 requests on 2 threads, 1 cancel, 1 fault, the Postgres queue | `TypeOK`, `FinishedTotalsAddUp`, `QuietIntakeIsSettled`, `OneIngestPerClaim`, `ClaimsAreWorkedOn`, `LiveRowsMayBeRetried`, `CancelLostOnlyInWindows` |
| `intake_retry_revives` | the SQLite queue with 5 attempts, one thread | `DeadStaysDead` violated |
| `intake_claim_of_failed_ingest` | one run of one rule | `CompletedClaimsAreStored` violated |
| `memory_safety` | two users' copies of a video and a page, of which one copy and the page are saved; 2 threads, 2 operations, 1 fault, both profiles | `TypeOK`, `SettledMemoriesAreWhole`, `SettledDeletionsLeaveNothing`, `AnswersAreCurrent`, `OwnershipGoesLast` |
| `memory_resave` | one thread, 2 operations | `AlreadyIndexedIsIndexed` violated |
| `tenant_safety` | each of the 38 kinds of stores; 2 owners, 2 threads, 3 live writes, 2 migration runs, 1 fault | the nine properties of `TenantPlane` |
| `services_safety` | 2 threads, 3 requests; 2 routes with a budget of 1, credits with a cap of 2, 3 videos that share a topic, one of them as its second name, every cap of the index at 1, 2 commands with tokens of 1 second, a clock of 2; files of every version | the eight properties of `ServicePlane` |

*Why these are enough.* Two items are the least with a "last" and a "not last"
report, and two workers the least with a takeover or two simultaneous reports; the
second server start brings workers that are fresh while old leases remain. Two
requests in flight are the least for a stale read to be overtaken by another
request, and the third follows up on it. In Postgres two requests for one job wait
for each other on the job row, so one client is enough, and `"skipped"`, which is
handled like `"completed"`, is not among the outcomes. Two threads are the least for
every race between a read and a write in the intake, memory, tenant and services
planes, and the threads are interchangeable. In the memory plane two operations
are a deletion or an ingest beside a search or another rewriting, or one after the
other; the second user's copy is there for the shared rows. In the tenant plane
three writes are two that race with a third one that meets what they left, and the
second migration run meets what the first has brought; the neighbour has rows and
makes no requests, since requests of different owners share no rows. In the services
plane a budget of one and a cap of two are used up by the first request, and the
third second of the clock is after the expiry of a token of the first; with the caps of
the index at one, a video's second name is not looked for and the third indexing may
meet more videos than it compares with. One fault
may hit any step; two leave a mixed-up state that no property speaks about. Bounds
are the constants `Max...`, `Asked`, `Results`, `Earlier`. Symmetry is used only
where all properties are safety properties. Deadlock is not checked, because the
models stop when the bounds are used up; that work goes on is
`OpenItemsGetSettled`, and that no set of sessions waits for ever is `Abort`.

## Findings

Each is shown by a run that expects the violation:

- `retry_failed` of the SQLite store resurrects a job whose cancel committed
  between its read (`app/db/job_store.py:410`) and its write (430), against
  `docs/V1_6_PLAYLIST_WATCH_LATER.md:57-58`. The Postgres store locks the row.
- In Postgres a report accepted on an old snapshot settles an item that another
  worker has taken over (`app/db/postgres_job_claims.py:292`), against the
  docstring at 272-274. The item and the counters stay consistent
  (`EndsAreFinal`, `CountersMatch`); the other worker's result is discarded and
  its lease row remains.
- A failed retry is counted twice, by the ingest and by the request; in SQLite the
  second count finds no live row and inserts a fresh one, so that a dead-lettered
  video is retried for ever (`app/db/youtube_memory_store.py:218`, against
  `docs/V1_2_YOUTUBE_AGENT.md:73`).
- The ingest agent completes the claim of a failed ingest, because
  `ingest_single_url` reports the failure by its result
  (`app/services/ingest_agent.py:239`, against `tests/test_ingest_agent.py:120`).
- A video deleted and saved again is taken for unchanged, since the transcript hash
  survives the deletion: it gets a trusted record and nothing that can be found
  (`app/services/ingest_service.py:321`, against
  `app/services/universal_memory_service.py:266`).

Met while modelling; the properties except them by name or by a history variable,
or they are in the list of hazards:

- The erasure of an account forgets `home_presence_events` (`Unlisted`).
- A deletion swallows the failure to remove the chunks
  (`app/db/repositories/memory_repository.py:200-209`), goes on and gives up the record
  (`app/services/privacy_service.py:223`): the chunks stay searchable and no repeated
  deletion reaches them (`missed`). The comments at 171-174, 183-186 and 202-203
  say of the other stores that a failure must not give up ownership, and
  `docs/V1_PRIVACY_MODEL.md:60` keeps chunks "Until user deletes". In SQLite the
  lexical rows have the same gap (178-181).
- Videos that share a topic beyond the caps of the index (a 9th name, more than 30
  peers) get no edge (`LookedFor`, `whole`).
- Two overlapping approvals of an agent run call its tool twice (`doubled`).
- A refresh in flight undoes the revocation of an authorization (`crossed`).
- A follower of the Postgres event log never sees an event that commits after a
  later one (`late`).
- A live event that takes an id between the preflight and the insertion of the
  event migration drops the source's event (`overtaken`), and `setval` may fall
  below an id under way (`muddled`).
- Links and relations written while the local merge runs are lost or left to a
  missing entity; a local memory upsert may revive a deleted memory without the event
  of its creation (`crossed`).
- Deleting a user and running a migration again brings the rows back, except those
  with a ledger.
- A confirmation token is accepted a second time in its last second
  (`app/services/command_router.py:208` against 234), and after a restart.
- A death between `DROP TABLE video_registry` and the RENAMEs strands the rows in
  the copies (`app/db/schema.py:757`, `torn`).
- A search under way puts a deleted memory back into the cache (`e.late`); in SQLite
  two bumps at once count once.
- `connect_memory` finds a memory's entity by title but uses it by id: a second
  memory of that title fails in Postgres and leaves a dangling relation in SQLite.
- `retry_failed` of a job without failed items leaves it `'queued'` for good; an item
  whose worker died after its job was cancelled stays `'processing'`.


## Proofs

The proofs hold for every value of the constants under the named assumptions of the
modules, which TLC evaluates in every run: sets of items and threads are finite where
they are counted, bounds are naturals, `None` is no worker, item or session, `JobOf`
assigns each item a job, the services have a thread, and the router a list of routes to
prefer, a positive budget for each and at least one call. `tlapm M.tla` checks a module
`M`.

| Module | Theorem | Statement |
|--------|---------|-----------|
| `JobQueueProofs` | `StructureHolds`, `TypesHold` | `Spec => []IInv`, `Spec => []TypeOK` |
| | `CountersHold` | `Spec => []CountersMatch` |
| | `ClosedJobsHold` | `Spec => []ClosedJobsHaveNoQueue` |
| | `QueueKeepsLedger` | `Spec => KeepsLedger` (the refinement of `WorkLedger`) |
| `PgProofs` | `TransactionsHold`, `PgTypesHold` | `Spec => []IInv`, `Spec => []TypeOK` |
| | `PgCountersHold` | `Spec => []CountersMatch` |
| | `PgJobsClose` | `Spec => []JobsCloseWithTheirItems` |
| | `PgErasureHolds` | `Spec => []ErasedStaysErased` |
| | `PgEndsAreFinal` | `Spec => EndsAreFinal` |
| `IntakeProofs` | `IntakeInvariant`, `IntakeTypes` | `Spec => []IntakeInv`, `Spec => []TypeOK` |
| | `FinishedImportsAddUp` | `Spec => []FinishedTotalsAddUp` |
| | `QuietIntakeSettled` | `Spec => []QuietIntakeIsSettled` |
| | `CancelsHoldOutsideWindows` | `Spec => CancelLostOnlyInWindows` |
| | `ClaimsAreExclusive`, `ClaimsHaveRuns` | `Spec => []OneIngestPerClaim`, `Spec => []ClaimsAreWorkedOn` |
| | `RetriesAreBounded` | `Spec => []LiveRowsMayBeRetried` |
| `ServiceProofs` | `FollowersMissNothing` | `Spec => []ReadersMissNothing` |
| | `RevocationHolds` | `Spec => RevokedTokensStayRevoked` |
| | `ConfirmsOnce` | `Spec => ConfirmedOnce` |
| | `KeysStay` | `Spec => []TokensStayGood` |
| | `SpendingHolds` | `Spec => []SpendingStaysInBounds` |
| | `TopicsLinked` | `Spec => []SharedTopicsAreLinked` |
| | `LibraryKept` | `Spec => []UpgradesKeepTheLibrary` |
| | `TypesHold` | `Spec => []TypeOK` |
| `TenantProofs` | `FenceHolds` | `Spec => [][LeaverOnlyGoes]_vars`: behind the fence the leaver's rows only go |
| `PlaneProofs` | `PlaneHolds` | `Spec => [](PlaneInv /\ AgentsInv)` |
| | `ErasureExact` | `Spec => ErasureIsExact` |
| | `ErasedStay` | `Spec => []ErasedTenantsStayErased` |
| | `CalledOnce`, `RunsTruthful` | `Spec => []OneCallPerRun`, `Spec => []RunsTellTheTruth` |
| | `StagesOnce` | `Spec => []StagesMigrateOnce` |
| | `EventsRecorded` | `Spec => EventsAreRecorded` |
| | `MigrationsFaithful` | `Spec => MigrationsAreFaithful` |
| | `PlaneTyped` | `Spec => []TypeOK`: types, and no two rows that share what tells rows of a table apart |
| `MemoryProofs` | `MemoryTypes` | `Spec => []TypeOK` |
| | `OwnershipIsLast` | `Spec => OwnershipGoesLast` |
| | `MemoryPlaneWhole` | `Spec => []SettledMemoriesAreWhole` |
| | `MemoryPlaneGone` | `Spec => []SettledDeletionsLeaveNothing` |
| | `MemoryPlaneCurrent` | `Spec => []AnswersAreCurrent` |

`ItemCounts` has the lemma both queues count with: `MoveOne`, moving one item from one
state to another takes one from one cardinality and adds one to another.

*`JobQueueProofs`.* `TypeOK` alone is not inductive: a report needs the worker's item
and result to be of the right type, and the refinement needs a lease to exist only for
an item in progress. `IInv` adds `WorkersHoldItems` (a worker has an item exactly while
it is busy, and a result once it reports) and `RowsMatch` (items exist exactly while
their job does, and only an item in progress has a lease or is past it). With
`CountersMatch` before a step the count of items in progress is positive when a report
subtracts from it, so `MAX(0, n - 1)` never clamps (`CountersStep`, one step per
action). `OneJobClosed` reduces an action to the one job it touches. `LedgerInit` and
`LedgerStep` map initial states and actions to those of `WorkLedger`, or to a stutter.

*`PgProofs`.* Here a statement acts on what an earlier statement of its transaction has
read. `IInv` says, for each session (`Fits`), what is still true of that: a claim that
has chosen an item, or a report that has found it, holds its row lock and the item is
still open, or in progress; a request holds a job that is there and, but for a delete,
not cancelled; two creations have different jobs; behind the fence only the erasure and
deletions are open (`FenceInv`). Two lemmas carry it: the statements of a session leave
the transactions and locks of all others alone (`Private`), and they change only
committed rows that nobody else has locked (`Careful`), so what the others rely on stays
(`OthersFit`). The committing statements are then taken one by one (`ClaimFacts`,
`ReportFacts`, `CreateFacts`, `RequestFacts` say what each finds and does), and the
counters, the closing of jobs and the finality of ends follow from these facts.
`JobsCloseWithTheirItems` is itself part of `IInv`: that a claimable item's job is
not completed is why a claim never reopens one.

*`IntakeProofs`.* `IntakeInv` has a part for each kind of thread, and a step of one
leaves the others' parts alone. `CallsInv` is about the ingest call a thread is in: it
enqueues a URL that is still to be retried, and what is live in the queue has been tried
fewer times than the limit, which needs a limit of at least two (`AttemptsAssumption`;
the code has five). `ImportsWell` ties a thread's counters to its place in the list:
before an item it has counted `k - 1`, after it `k` (`MustCount`), the store's own
failures counted apart in `miscounts`; the totals it writes at the end then add up.
`QuietImports` holds as long as nothing failed (`faults = 0`): a running import has a
thread, an item in progress the thread that is at it, and an item still queued a thread
that will come to it or a cancel that has yet to settle it. With the threads gone nothing
of that is left but ends. `AgentInv` has the claims: who calls for a URL holds its claim,
no two hold the same, and a claim in progress has a holder or was lost to a fault.
`RetryInv` says a request serves rows of the queue, which only grows. A cancel is
overwritten only by `SetRunning` and `FinishRun`, which follows from the types.

*`ServiceProofs`.* The log: an id that is drawn and not yet committed is in no row and
in no other emission, and the cursor is an id of the log (`LogInv`). The vault: while
the row is revoked, every refresh under way and every write of one is marked as having
read it before (`VaultInv`). Confirmations: a token that was accepted is still among
the used ones or past its expiry (`UsedInv`, on `CommandTypes`). Keys: one thread at a
time fills an empty file, and what the process holds and signed with is what the file
holds, unless two were drawn or one could not be stored (`SigningInv`, `FileInv`,
`KeysInv`).

Budgets: the threads that have chosen a route and not yet entered its use are among the
others whenever one more chooses it, so what is used and what they will use together
exceed the budget by at most one less than the threads (`WithinBudget`). Credits: a
reward that was decided and not yet given is as many pairs of a thread and a number
(`Promised`); who sums up the credits of the day counts those given, and not those
pairs, of which the other threads have at most `Survey` each. Upgrade: the scripts up to
where it is have run; the old table is dropped when its copy has all its rows; and
unless an exchange was cut short, a table is under its own name and has the new key, or
its exchange is still to come (`ScriptsRun`, `CopiesReady`, `NotTorn`). Index: an
indexing that no deletion has marked has linked every topic it is past (`LinksInv`). Of
two such indexings that share a topic both look for, or one and a video that is indexed,
there is an edge or one will come to the other (`ComesTo`, `EdgesInv`): before the peers it has yet
to look for them, at the peers a shared topic is still to be looked at or the other was
found by it, at the edges it is in the list or its row is about to be written. Only the
end of an indexing adds a video, and by then it comes to nobody, so the edges are there.
This rests on linking before looking for peers, and fails for `StagesPeersFirst`; on
names that are looked for being among those linked (`SharedNames`); and on an indexing
that takes all the videos it met, as one that is `whole` does.

*`TenantProofs`.* A migration that replays rows holds the shared locks of all their
owners, and once the fence is up the leaver's lock is held by nobody and no write of a
request is open (`FenceInv`); a step that wrote a row of the leaver would need either.
`Kind` is one large constant: what the tables, writes and migration scripts of all
stores have in common is stated once (`Fitting`, `Listed`) and shown store by store. On
it rests `RowsInv`: every row, what a transaction has read and what a migration has yet
to replay fit their table; a neighbour's child points to the neighbour's parent, whose
id no row of the leaver has, and so a foreign key never carries the erasure across
(`NeighboursStay`). The last part of the module has the rows' types and what tells them
apart, for `PlaneTyped` below.

*`PlaneProofs`.* `ErasingInv` keeps the erasure to its order. Five groups of
invariants stand on these. *Runs:* `AgentsInv` relates runs, calls and the requests that serve them: ids are
fresh (`NewId` is above every run, the number of calls above every call), a run served
by one request has no call before its tool is called and one afterwards, with the status
the request is about to set; approvals that overlap put the run in `doubled`. Erasure
and fence end the promises about calls that are gone, never those about runs. *End of an
erasure:* at step `n` the leaver has rows only in the tables of the steps from `n` on, in
the unlisted ones, and in the children of memories up to the memory step (`Due`,
`ErasedInv`). The children go by the foreign key alone, so `ParentInv` is needed: each has
its memory, also one an open transaction is about to write. No step passes over a table
with rows, and behind the fence nothing adds any (`FenceInv`). *Migrated stages:* a stage
is replayed only by whoever inserts its claim into the ledger; the claim is committed with
it and no step deletes it, while the stage itself may go. So a stage in a store or in an
open replay has its claim there, and the replay has no second row for its owner left
(`StagesInv`). *Events:* unless the sequence was moved under an open event, every id in the
store and in the hands of a transaction is below the sequence, those of two transactions
differ, and a run past its `setval` has nothing at or above it (`EventsInv`); so the row
a transaction ends with is new. *What a migration brings:* the scripts of all stores are of
one form (`Scripting`): whatever they check, compare or skip is inserted by some statement
under what the table tells rows apart by, or a claim stands for it. A run that was not
overtaken has brought every row it is past, and owners that are settled have all of theirs
in the target (`FaithInv`), so a second run finds nothing to add. That the row found is the
same user's takes three more facts: rows that keep their ids have ids no other user's row
has (`OwnIds` in `Fits`); those of events, which live events may have taken, were checked
(`CheckedInv`); and an import's items, which go with a run that is inserted but not with one
that is skipped, are there with every old run, since runs and items are committed and erased
together (`ItemsInv`).

`TypeOK` also says that no two rows of a table share an id or what else is unique in it, and
that needs the most (`TypingInv`). `UniqueInv` has the rows in a store apart from each other
and from those of an open replay. A write checks what is in its way (`WriteUnique`), and so
does the copy of a row (`CopyUnique`); three steps do not. A merge rewires relations and
links it has read: by `LinksInv` these all point to its source, and a link to one entity
only, and by `LocksInv` they are still there and locked by it alone, so the rewired ones
meet neither each other nor what is left (`MergeUnique`; the local merge works on the rows
as they are, `LocalMergeUnique`). A stage is inserted without a look at the others: the ids
its table gives are above those of live writes and of earlier runs (`CopiesInv`), and there
is one stage for each claim (`StagesInv`). And an import's item is copied with its run,
unchecked: had it been there before, so would have been its run (`RunsOfItems`). `TypedInv`
and `ControlInv` have the types of rows, transactions and control.

*`MemoryProofs`.* `TypeInv` is `TypeOK` with what a step relies on: a job's plan is that
of its operation and of its item's source (`PlanFits`), its place is in the plan, and
only an advance has transitions left; so the call a thread is at is one of its plan's
kind (`CallIs`). `OwnInv` has the rest of `OwnershipGoesLast`. Who rewrites alone has
nobody beside it, as a start tells both (`AloneInv`), so nobody else adds rows of its
item. For every store but the hashes the plan of a deletion that is alone has the drop
still ahead, or has missed it, or the item has no row there (`DeletesAll`); for the metadata of a page,
which its plan does not drop, that is because only a video has any (`PageRows`). The
record goes at the last call but one, when no drop is ahead (`ForgetsLast`), and nothing
but a deletion's call gives it up (`WorkedRecords`).

What is settled is proved over a description of the steps, `StepFacts`, which speaks of no
call: what any step does to a row, a record, a mix-up, the version and an entry of the
cache, and where each thread's job comes from and what becomes of it. It is derived once
from the actions (`NextFacts`), through the *outcome* of each call (`Outcome`) and what the
calls still to come of a plan are (`AddsAhead`, `DropAhead`, `BumpAhead`, ...): a filling
plan adds again what it drops, raises the version before it registers, and adds all content
before it puts the record. Everything after that is about items and threads.

- *Order.* A deletion beside another rewrite of what its item shares has mixed it up
  (`BesideInv`), so of a rewrite *in order*, one that is alone or whose item is not mixed
  up, the rows and the record are its own doing: its content is there or on its way
  (`FilledInv`), its record is there once put (`RecordedInv`) or gone once removed
  (`MidInv`, `ForgottenInv`), and so are the rows (`DroppedInv`). `IdsInv` has the ids.
- *Deletions.* An item without a record that is not mixed up has no rows of its own but
  while it is being filled (`GoneInv`, with `ReviewInv` for the reviews). A shared row is
  needed by some copy of its source (`LivelyInv`), since a deletion that keeps it has found
  one, and one that found none removes it (`NeededInv`, `SharedInv`).
- *Memories.* `WholeInv`: what has a record, or is being marked, has its content there or
  on its way, unless it is being deleted, or it is a known transcript with the hash alone.
- *Answers.* A search under way is part of the invariant like an entry of the cache. A
  deleted item is in neither, but in one told that it is late, or one its deletion is about
  to see to (`LateInv`). Whatever was begun under the current version has every stored
  item, unless an ingest is about to raise the version for it (`CurrentInv`).

`SettledIs` then says what all of this (`PlaneInv`) leaves of a settled item. The proofs
assume of the constants what the schema says of a memory: one for each user and source
(`CopyAssumption`, `UNIQUE(user_id, source_type, external_id)`).

*Only model-checked.* Liveness (`OpenItemsGetSettled`), which rests on fairness, and
whatever needs `ENABLED`, are out of the prover's reach, as is induction over data. In the
tenant plane TLC alone checks `OrphansNeedARace`, which needs the foreign keys of every
write, script and erasure of every store, one by one.

## Not modelled

`PROJECT.json` gives the reason for each component. In short:

- *Nothing happens concurrently, or nothing is kept:* Career, the front ends, the triage
  and review agents, exports and other reads, the classification of commands.
- *Numbers and texts:* ranking, embeddings, trust and similarity scores, fuzzy topic
  matches, review intervals, what a model answers, how a page is parsed. They are
  outcomes, or presence only. Token budgets of the router go like its request budgets.
- *Hints:* the wake-up transport of the job queue; workers poll whether or not a
  notification arrives. Event-bus posts are modelled, their loss is an outcome.
- *Outside the program:* cameras and capture sessions of the home agent, providers,
  connection set-up and most DDL. The isolation levels set there are what the models
  assume.
- *Data of a record no property tells apart:* content versions, audit trail and metrics
  of memories, error texts, titles, time stamps (other than as an order or "has this run
  out?"), the preference version of the cache, connector metrics, the change of day in
  daily limits.
- *Seen in reading, without a run:* `connect_memory` looks a memory's entity up by
  title, and `home_presence_events` is in no step of the erasure; both are among the
  hazards and findings above.

What could come next: proofs about the migrations of the tenant plane, with ids that never
meet; the derivation of entities from a memory.
