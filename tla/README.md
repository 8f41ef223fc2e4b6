# Aetheris: a TLA+ model of durable job execution

Aetheris runs agent *jobs*: a plan (a graph of LLM, tool, wait and workflow
nodes) is executed by workers that may crash, stall or be restarted, and the
product's promise is that a job resumes from its recorded progress and that no
tool is called twice. The promise rests on a versioned event stream per job,
leases with attempt fencing, an invocation ledger and a replay of the stream.
Those parts are modelled here; paths below are relative to the repository.

## 1. Inventory

| Component | State | Operations | Modelled in |
|---|---|---|---|
| Event store, `internal/runtime/jobstore` (`pgstore.go`, `memory_store.go`) | `job_events` (job, version, type, hash, prev_hash), `job_claims` (worker, attempt, expiry), `job_snapshots` | `ListEvents`, `Append`, `Claim`, `ClaimJob`, `Heartbeat`, snapshots, `Watch` | `EventLog`, `EventStore`, `Snapshot`; not `Watch` |
| Runner, `internal/agent/runtime/executor/runner.go` | the context of one run: completed nodes, commands, invocations, payload; checkpoint | `RunForJob`, `Advance`, the run loop, parallel levels | `JobRun` (overlapping attempts), `ParallelRun` (plans that are graphs) |
| Tool adapter and ledger, `node_adapter.go`, `ledger_store.go`, `invocation_pg.go`, `effect_store_pg.go` | `tool_invocations`, effect records | `runNode`, `runNodeExecute`, `Acquire`, `Commit`, `Recover` | `JobRun` |
| Plan order, `steppable.go`, `compiler.go` | none | `TopoOrder`, `LevelGroups`, `CompileSteppable` | `ParallelRun` |
| Replay, `internal/agent/replay/replay.go`, `sandbox/policy.go` | none (a function of the stream) | `BuildFromEvents`, `BuildFromSnapshot`, `Decide` | the fields of the context in `Snapshot`; sets and policy in `JobRun` |
| Worker, `internal/app/worker` | lease and attempt of a running job | `Start`, `executeJob`, `runJob`, `triggerSnapshots`, reclaim | `JobRun` (one job), `JobLifecycle`, `Snapshot` |
| Metadata, `internal/agent/job` | status, cursor, retry count, cancel request | `UpdateStatus`, `UpdateCursor`, `Requeue`, `RequestCancel`, `ClaimNextPendingForWorker`, reclaim | `JobRun`, `JobLifecycle` |
| HTTP API, `internal/api/http/handler.go` | none | `JobSignal`, `JobMessage`, `JobStop`, pause, resume, listing | `JobRun`, `JobLifecycle`, `JobQueue`; not listing |
| Scheduler, in-memory metadata store, wakeup queue, `internal/agent/job` | status, pending queue, wait index, limiter, wakeup channel | `Create`, claim, `Requeue`, `SetParked`, `WakeupJob`, `ClaimParkedJob`, `NotifyReady`, the loop, retries | `JobQueue`; not `Stop`, cancel, queue classes |
| Durability SDK, `sdk/durability` | job rows, events, checkpoint, ledger jobs | `Start`, `Execute`, `idempotent.Wrap`, `SaveJob`, `AppendEvent` | `DurabilitySdk`; not its in-memory store, replay and wait packages |
| Archive and GC, sharded / redacting / embedded stores | files, retention | background sweeps, wrappers | no |
| Planner, agent messaging, agent runtime | none, or their own | model calls, buses | the plan is a CONSTANT |
| Model, pipeline, vector and tool integrations, CLI, proof export | their own | I/O | no |

**How they interact.** A worker claims a job from the event store, which gives
it an `attempt_id`; the id travels in the context of the run and `Append`
compares it with the lease. A worker with capabilities first takes the job in the
job table and then asks the event store for the lease. The runner reads the stream
(or the latest snapshot and the events behind it), decides where to go on,
and calls nodes; the tool adapter asks the ledger, writes
`tool_invocation_started` and `command_emitted`, calls the tool, records the
effect, writes `tool_invocation_finished` and `command_committed`, and commits
the ledger. The runner then writes `node_finished`, saves a checkpoint and moves
the cursor in the metadata, which is *not* fenced. The API appends
`wait_completed` and `agent_message` to the same stream without an attempt, and
then writes the status. Every worker also sweeps: it repairs the status of jobs
whose lease ran out from their streams, and it snapshots long streams.
Without PostgreSQL the API process runs jobs itself: a scheduler loop claims from
the in-memory store and starts a goroutine per job, and requests change the same
store and send job identifiers over the wakeup channel. The SDK is separate: a
library with its own tables, and without leases.

**What is hard.** Every `Append` is several queries; a worker whose lease ran out
goes on until an append tells it, and most append errors are ignored; ledger,
effect store, stream and metadata are four stores written one after another;
status and stream of a job may disagree after any crash; resumption takes one of
three code paths, depending on which writes arrived; a checkpoint names one step
where a level had several. `PROJECT.json` lists the hazards with their lines.

**What makes each part correct.** Store: acknowledged events stay, the chain is
intact, a fenced attempt cannot write after its successor. Run: no tool is called
twice, nothing is recorded that did not happen, steps run in order and with their
inputs, a completed job is done. Metadata: the cursor does not run ahead.
Lifecycle: no worker reopens a completed job once nobody is in the middle of a claim or
an append, a due job is not lost between the two
stores, a waiting one can be answered, the status comes to rest. Snapshots: replay
from a snapshot says what replay of the stream says, and nothing twice. Queue: a
pending job is in the queue and is eventually claimed, is run by one goroutine at a
time, and ends after a bounded number of retries; requests do not make it run for
ever. SDK: a committed key is not called
again, the checkpoint holds the results of all steps before it.

## 2. Plan

1. `EventLog`, `EventStore` and their proofs: done.
2. `JobRun`: one job, overlapping attempts, faults, signals, messages; at-most-once
   execution proved: done.
3. `JobQueue`: the in-process scheduler, store and wakeup queue: done.
4. `Snapshot` and the proofs of its table: done.
5. `JobLifecycle`: the status against the stream, with liveness: done.
6. `ParallelRun`, `DurabilitySdk`: done.
7. Theorems: every safety invariant, action property and refinement of the passing
   runs is proved, but for `RunsBounded`. It and the five liveness properties stay with
   TLC.
8. Not begun: `Watch`, the inbox loop, GC and archive, the tool rate limiter.

`JobRun` depends on `EventStore` through two facts: an append takes effect only on
the stream that was read, and the lease was held at some moment after that read.
`EventStore` splits calls further and shows that this is what they amount to.
`JobLifecycle` in turn takes one execution of `JobRun` as events that leave the derived
status alone, followed by one outcome, and splits claims and appends the way `EventStore`
does. `ParallelRun` takes one tool call of `JobRun` as one step, each of whose events may
be lost.

## 3. The modules

### EventLog
The promise: per job one append-only sequence, each event chained to its
predecessor by hash. One action, `AppendEvent`.

### EventStore
Processes are attempts (an execution identified by the `attempt_id` of its claim)
and API writers. `Backend` selects the code.

| Model | PostgreSQL | in-memory |
|---|---|---|
| `Claimable` | the WHERE of the claim SELECT | the scan under the lock |
| `ClaimSelect`, `ClaimUpsert` | the SELECT, then the `ON CONFLICT DO UPDATE` | - |
| `ClaimLocked` | - | the whole of `Claim` / `ClaimJob` |
| `Heartbeat` / `Renewable` | matches worker and attempt, expired or not | matches the worker, unexpired only |
| `BeginAppend` | the caller's `ListEvents` | same |
| `AppendFence` | the attempt query | `GetCurrentAttemptID` under the read lock |
| `AppendCompare`, `AppendInsert` | `MAX(version)` and the hash query; the INSERT with its unique key | - |
| `AppendLocked` | - | compare and append under the write lock |
| `Expire` | the clock passes `expires_at` | same |

Hashes are fresh numbers: all that matters of SHA-256 is that different events
have different hashes. `epoch` and `acked` are history variables. A lease may
expire at any moment, also under a live worker.

### JobRun
One job with a sequential plan of tool and wait nodes. `pc[a]` is the next shared
access of attempt `a`; everything between two shared accesses is local and part of
the step before.

| Action | Code |
|---|---|
| `ClaimSelect` ... `Heartbeat` | `agent_job.go`, as in `EventStore` |
| `AppendCheck`, `AppendInsert` | every append of the sink; `EventAt` lists point and event, `NextPoint` and `Checked` where the code goes on and which errors it looks at |
| `UpdateStatus` | every status write; `StatusAt` lists point and value |
| `Load`, `Replay`, `ReplayCheckpoint`, `Rebuild` | the reads of `executeJob` and `RunForJob`, with the choice of the loop |
| `RunStep`, `Advance` | `runNode` as far as it decides from the context; `Advance` with `DefaultPolicy` or without a policy |
| `LedgerGet`, `SetStarted` | the two calls of `Acquire` |
| `Execute`, `PutEffect`, `ValidateAttempt`, `SetFinished`, `Recover` | `runNodeExecute`, `Commit`, `Recover` |
| `Checkpoint` | saving the checkpoint and `UpdateCursor`; the error of the first ends the run, that of the second is ignored |
| `WorkerFailed`, `WorkerCompleted`, `WrapUp` | the end of `runJob` |
| `SignalCheck`, `SignalAppend`, `SignalWake`, `JobMessage` | `handler.go` |

A crash is an attempt that takes no more steps, which every behaviour may contain.
`Fault` is an error returned by a store; `MaxFaults` bounds how many happen.

### ParallelRun
`RunForJob` on a plan that is a graph; attempts follow one another, crash anywhere
and resume. Configuration (plan, `MaxParallelSteps` set or not, policy set or not)
is chosen in the initial state.

| Model | Code |
|---|---|
| `Ready`, `TopoOrder`, `Compiles`, `LevelOf` | `TopoOrder`, `CompileSteppable`, `LevelGroups` of `steppable.go`; `Ready` is Kahn's queue, which is sorted, so that the order is a function of the graph |
| `NextStep`, `NextRunnableBatch` | the step or the level the loop takes next |
| `Start`, `HasReplayProgress` | the choice between replay and checkpoint; finished nodes, committed commands and begun invocations all count as progress; `Prefix` is what a checkpoint stands for |
| `StepSucceeds`, `StepFails` | the adapter: the call and the events around it |
| `Sequential`, `Inject`, `Refuse`, `MayRun`, `RunStep`, `Wait`, `PassWait` | the loop and `Advance` for one step |
| `LevelStart`, `LevelStep`, `LevelJoin` | the goroutines of `runParallelLevel` and its `wg.Wait` |
| `SiblingFinished`, `LevelFailed` | a level in which a step failed |
| `NodeFinished`, `Checkpoint` | a level that succeeded: events in turn, then one checkpoint |
| `WriteTerminalFailed`, `Complete`, `RunJobError`, `Signal`, `Crash` | the ends of an attempt, and the answer to a wait |

The adapter drops the errors of its appends, so `StepSucceeds` may lose the event of the
begun invocation, the commit, or both; which call really succeeded is kept apart, in the
history variable `succeeded`. A crash between the call and the commit leaves the same
stores as a lost commit, and only the next attempt reads them. Whether an invocation that
was begun is answered from the ledger, refused or made again is the subject of `JobRun`
and left open here.

### Snapshot
One job whose stream grows (`AppendEvent`), the snapshot loops of the workers, and
runs that resume. What a process has read of the stream is a length, and a snapshot
row keeps how many events it was built from beside the version it is labelled with.
The context (a `ReplayContext`) is computed field by field, by the same switch for both
ways of building it.

| Model | Code |
|---|---|
| `SnapshotBuild`, `SnapshotVersion`, `CreateSnapshot` | `triggerSnapshotsForHighEventJobs`: read and build, read again for the version, upsert |
| `SnapshotLatest`, `DeleteSnapshotsBefore` | what follows with `keep_latest` at most 1 |
| `SnapshotGiveUp` | an error, a timeout or a crash of the loop |
| `GetLatestSnapshot`, `ListEvents`, `ReplayDone` | the two reads of `BuildFromSnapshot`, and the end of the run |
| `ApplyEvent`, `BuildFromEvents`, `ApplyIncrementalEvents`, `BuildFromSnapshot`, `PhaseAfter`, `SerializeReplayContext`, `DeserializeSnapshot` | the functions of `replay.go`; a map that was stored empty may come back as nil, and writing to it panics |

### JobLifecycle
Several workers, the status in the job table and the stream as two stores. Of a stream
three things are kept, those that its readers look at: the status that
`DeriveStatusFromEvents` makes of it, what its last event is, and whether a `job_waiting`
is in it. `fresh[j]` are the processes whose read of the events of `j` is still the latest.

| Model | Code |
|---|---|
| `ReclaimList` ... `ReclaimWrite` | `ReclaimOrphanedFromEventStore`: list, read the events, read the status, write it |
| `ClaimSelect` | the SELECT of `Claim`, by plain workers |
| `ClaimNextPendingForWorker`, `ClaimJobSelect` | workers with capabilities: the job table, then the SELECT of `ClaimJob`, and `Requeue` when it finds nothing |
| `ClaimUpsert` | the upsert of both, which checks nothing (`pgstore.go:244-260`) |
| `ExecuteGet`, `ExecuteMark` | the start of `executeJob` |
| `AppendCheck`, `AppendInsert` | an append: the read of the stream with the check of the attempt, and the INSERT, refused when the version is taken |
| `RunNodeEvent` | the events of nodes, which move the version on |
| `RunForJob`, `RunInsert`, `RunStatus` | an outcome of the run: its event, if the lease is held and the context alive, then the status |
| `RunJobEvent`, `RunJobInsert`, `RunJobStatus` | the end of `runJob`: the fallback event and status |
| `RunJobRequeue`, `RunJobRequeueEvent`, `RunJobRequeued` | or the retry |
| `CancelPoll`, `ExecuteEnded`, `ExecuteStatus` | the cancellation poll and what `executeJob` does after an error |
| `Heartbeat`, `Expire`, `Crash`, `PlanReady` | leases, workers, planning |
| `SignalGet`, `SignalList`, `SignalAppend`, `SignalStatus`, `CrashApi` | `JobSignal`: the status, the events, the append without an attempt, the status (`handler.go:1666-1733`) |
| `JobStop`, `JobMessage` | the other requests; a message answers no wait here |

The claim is not taken as atomic: the row lock of its SELECT (`SKIP LOCKED`) is on an event,
is gone before the upsert, and keeps nobody from the lease row. `RunNodeEvent` is a single
step: an event of a node matters here only for the version it takes.

### JobQueue
The API process without PostgreSQL. Methods of `JobStoreMem` hold its mutex and
are one step each; handlers and goroutines are cut between the calls they make.

| Model | Code |
|---|---|
| `Create`, `UpdateStatus`, `Requeue`, `SetParked`, `WakeupJob`, `ClaimParkedJob`, `ClaimNextPending` | the methods of `JobStoreMem`; `Candidates` and `Best` are the scan of the pending queue |
| `TakeToken`, `Receive`, `Spawn` | the loop of `Scheduler.Start`: a token of the limiter, up to a timeout on the wakeup queue, a goroutine with a copy of the job |
| `RunEvent`, `RunStatus`, `RunJobAppend` | `waitPlanReady`, then the outcome of `RunForJob` with the events and the status it writes, then the terminal event of `runJob`, whose append may fail unnoticed (`api/app.go:682`) |
| `Settle`, `Retried` | the goroutine after `runJob`: completed, failed or requeued |
| `Notify` | `NotifyReady`, which drops when the channel is full |
| `PauseCheck` ... `SignalNotify` | `JobPause`, `JobResume` (with a key, or by status), `JobSignal`; each request is made once |

Of the stream only three facts are kept, those that requests and `runJob` read:
whether a `job_waiting` is in it, whether its last event is the `wait_completed`,
whether a terminal event is in it. `started`, `touched` and `forced` are history:
how often a job was handed to `runJob`, which jobs a request addressed or woke, and
which it made Pending by the bare status.

### DurabilitySdk
`Start` and any number of calls of `Execute` on one job of `N` steps, each step a
function behind `idempotent.Wrap` with a key of its own.

| Model | Code |
|---|---|
| `SaveJob`, `Accepted`, `NewVersion` | `SaveJob` and `AppendEvent` of the PostgreSQL store: the comparison, the unique key, the version returned with an error |
| `StartSave`, `StartAppend`, `StartVersion` | `Runner.Start` |
| `LoadJob`, `ListEvents`, `LoadCheckpoint`, `MarkRunning` | the beginning of `Execute` |
| `StepStarted` ... `JobCompleted` | the steps, with the appends whose errors are dropped (`AppendDropped`), retries, checkpoint and job row |
| `LedgerLoad`, `LedgerReset`, `LedgerAcquire`, `LedgerAcquired`, `Call`, `LedgerFail`, `LedgerCommit`, `LedgerCommitted` | `Wrap` |
| `LedgerOutage`, `Crash` | a failed store call inside `Wrap`; an `Execute` that is gone |

## 4. Runs

| Run | Instance | Shows |
|---|---|---|
| `store_postgres` | 1 job, 3 attempts of 2 workers, 1 API writer, 3 versions | hash chain, durability of acknowledged appends, fencing order, refinement of `EventLog` |
| `store_memory` | the same, 4 versions | fencing order although check and append are under different locks, and that a lease is granted only for a claimable job |
| `job_two_tools` | 2 attempts, tool-tool, default policy | at-most-once, order, cursor |
| `job_wait` | 2 attempts, tool-wait, 1 client, 1 fault | honest records and completion where a job waits and is signalled |
| `job_no_policy` | 2 attempts, 1 tool, no policy, 1 message, 1 fault | the same where a resumed attempt reaches the tool adapter and its recovery path |
| `parallel` | every graph of 3 nodes, at most one wait, sequential or parallel, with and without policy, 3 attempts | plan order, inputs before use, honest records and completion with crashes anywhere |
| `snapshot` | 2 workers, 1 run at a time, 5 streams of up to 8 events, 3 rounds | replay from a snapshot against replay of the stream, and the table under concurrent loops |
| `lifecycle` | 1 job, a plain and a capable worker, 1 client, 2 attempts, 1 fault: a crash (of a worker or of the API), a late heartbeat, a message or a cancel request | no worker reopens a settled job; a due job ends, a waiting one is answerable, the status settles |
| `queue_requests` | 1 job, 2 requests, 2 keys, 2 slots, 1 retry, wakeup buffer of 1 | while requests pause, resume and signal at any moment: the queue names every pending job, the limiter counts its goroutines, what is queued is claimed, and the number of runs stays bounded |
| `queue_jobs` | 2 jobs of different priority, 2 slots, 2 retries, no request | each job is run alone, at most three times, and ends |
| `sdk` | 2 callers, 2 steps, 2 tries, 3 calls of `Execute`, 1 fault | order, checkpoint, completion, committed keys, versions |

**Deadlock and fairness.** The store, job, parallel, snapshot and SDK runs check safety
only, assume no fairness and set `CHECK_DEADLOCK FALSE`: when every attempt has
stopped, or the stream is complete, the model has nothing left to do, and so does the
system.

The lifecycle and the queue runs check deadlock, since their loops poll for ever, and
liveness. In `JobLifecycle` weak fairness is assumed of the steps of every worker, of
the expiry of a lease whose holder is gone, and of planning. The code justifies it: a
worker is a loop with a ticker, a call of a run ends because steps have timeouts and
plans are finite, and expiry is the passing of time. Nothing is assumed of requests,
heartbeats, cancellation polls or crashes; crashed workers restart, since the loop
begins anew. The fairness of a worker is written `[]<><<work'[w] # work[w]>>_vars`: some
`WorkerStep` is enabled in every state, and the other steps that change `work[w]` are a
crash, which is bounded, and one cancellation poll per run. The signal of a client arrives
at most once; clients that go on signalling could reopen a job for ever, and `JobEnds`
would not hold. In `JobQueue` it is weak fairness of the loop and of every
goroutine: both are goroutines of a running process, and no step of the loop blocks
(`Receive` has a timeout, the mutex is held briefly). That `RunForJob` returns is an
assumption in both, not a result. A client may stop half-way.

**Why the bounds are enough to be interesting.** Three attempts of two workers let a
worker overlap with itself as well as with another one; three versions are enough
for an attempt to write, be overtaken and try again. Two overlapping attempts are
what it takes to race `Acquire`; what three would add is a second takeover, and
`AtMostOnce` is proved for any number. Two tools separate "the step" from "the
next step". One fault is placed anywhere in the run. The job
runs differ in the loop of `RunForJob` that does the work: under the default policy
only the fresh loop runs tools and suspends at waits, and the replay and checkpoint
loops inject recorded results or refuse the step; without a policy those two loops
run tools themselves, through `Acquire` and `Recover`. Three nodes are the smallest
graph in which levels and topological order differ, and give forks, joins, chains,
isolated nodes and cycles; three attempts let one crash, one resume and fail and one
resume again. The streams of the snapshot run have every event type that the replay
looks at; two rounds are what it takes to race build, label and deletion, the third
comes after them. The lifecycle instance has both ways of claiming; with two attempts
a job is retried once and then failed. A late heartbeat is enough for a stale execution to
meet its successor, and the claim race needs no fault at all; the faults share a bound of
one to keep the liveness check small (1.3 million states). `CompletedFinal` is proved for
any number of jobs, workers, clients and faults. In the SDK run two calls
overlap and a third one resumes; the same model with two faults and two calls was
checked as well.
Attempts, snapshot loops and callers are symmetric; symmetry is used with invariants
and action properties only, never liveness.
Two requests are what it takes to pause and resume a job in every order around a
run, or to race two resumes; a buffer of one is full after one notification. Two
slots and two retries are the defaults of `app.go`. In `queue_requests` the one job
may be run in both slots at once; `RunAlone` and `RetriesBounded`, which requests do break,
speak of jobs that no request has reached, and `RunsBounded` says what remains.

**Conditions in the properties.** Some properties hold only under a condition, which
is part of their statement: `CompletedRanAll` for parallel plans whose topological order
lists level after level; `InputsFirst`, and the waits of `FinishedIsReal`, under a replay
policy; `SnapshotExact` when no event came between the two reads of the snapshot loop
(for the others `ReplaySound` says what remains); `CommittedOnce` and part of
`CompletedMeansAll` without overlapping calls of `Execute`; `CompletedFinal` and
`StatusSettles` for a job that is `Settled`: completed, and no worker between the two queries
of a claim, between the check and the INSERT of another event, or in an unfinished run that
has the lease. `CompletedFinal` also shows that workers leave a settled job settled, so the
condition has to hold once. What the code does otherwise is told below.

### A disagreement with the documentation, as a run

`resume_refused`: with `DefaultPolicy` set, a resumed run is refused every step that has
no recorded result, also one nobody began. The finding in `PROJECT.json` quotes the
statement it violates.

### Met on the way

Seen in the models, and not given runs of their own. None of them breaks `AtMostOnce`.

*Store and run.* The PostgreSQL claim upserts the lease without looking again, so that it
overwrites a lease granted after its SELECT (`pgstore.go:257` against `store.go:66`). The
attempt check of `Append` and its INSERT are not atomic, so an attempt may write once
after losing its lease, provided nobody wrote in between (`AttemptOrder` is what
remains). The error of `AppendToolInvocationStarted` is dropped and the tool is called,
where `design/internal/effect-system.md:70` wants the append first. The checkpoint path
does not look for a waiting job and writes to its stream (`runner.go:1064` against
`docs/guides/job-lifecycle.md:65`). A message to a failed job makes it claimable (`handler.go:1817`
against `design/internal/poison-job.md:8`). `runJob` of the worker appends `job_requeued` after the
runner's `job_failed`, against `design/internal/formal-state-machine.md:88`. `Advance`
never consults the effect store; with no policy it runs a wait node as a no-op and the
job goes on unsignalled (`CompletedMeansDone` is therefore checked with waits under the
default policy).

*Parallel levels.* The checkpoint of a level names the step of the highest index and on
resumption stands for all steps before it in topological order, which is not level order:
after a crash a step that never ran is skipped and the job reported completed
(`runner.go:557-565`, `1039`; against `docs/guides/runtime-guarantees.md:38` and
`design/internal/dag-parallel-execution.md:10`). When a step of a level fails, its siblings are recorded
each with its own copy of the payload, so that only one result survives a replay, while
`docs/guides/runtime-guarantees.md:37` says none is committed. On the checkpoint path the payload is
that of the checkpoint, so without a policy a later step may run without its inputs.
`MaxParallelSteps` switches levels on and is not a cap (`design/internal/dag-parallel-execution.md:59`);
no binary calls its setter.

*Snapshots.* Label and content of a snapshot come from two reads (`app.go:696-700`), where
`snapshot.go:26` calls the label the version the snapshot was taken at: an event in between
is skipped on replay. `RecordedTime` and `RecordedUUID` are nil after a snapshot that had
none, and the first such event behind it panics (`replay.go:438`, `440`, `505`). With
`keep_latest` above 1 nothing is deleted.

*Lifecycle.* A completed job can be reopened, without any crash or stall. A worker selects
the job, another one runs it to its end, and the upsert of the first then takes the lease
of the completed stream (`pgstore.go:244-260`); if its run fails, `job_requeued` is appended
behind `job_completed`. `JobSignal` reads the status before the events, asks only for some
`job_waiting` and a last event that is not the answer, and appends without an attempt, so
`wait_completed` can follow `job_completed` too (`handler.go:1666-1733`). On cancellation and on the fallback path the context of the run is cancelled
before the append, so no event is stored (`agent_job.go:302`, `332`). A stale attempt can
leave the status failed on a completed stream. A lease is not released when a run ends,
though `design/internal/poison-job.md:20` counts on it. Jobs whose status is failed or cancelled and whose
stream does not say so are claimed again by plain workers. A refused `ClaimJob` ends in
`Requeue` and burns a retry. Where all workers have capabilities, a job is lost when its
worker stops between `ClaimNextPendingForWorker` and the lease of `ClaimJob`, and a job whose worker
stops between `job_waiting` and its status is not answerable; the run has a plain worker
beside the capable one. Crashes do not count towards `max_attempts`, and a job without a
plan is run again for ever.

*In-process scheduler.* A waiting job is treated as an error: it is requeued, and failed
when the retries are used up (`scheduler.go:209` against
`internal/agent/runtime/executor/types.go:26`). A paused and
resumed job may run twice at the same time, without attempts to fence it. Pause looks at the
status and parks the job afterwards, so a job that completed in between is parked all the
same. Resume without a
key and signal write Pending without queueing the job, which then nobody claims.
`JobStoreMem.WakeupJob` has no status guard, unlike `JobStorePg`, so that an old
correlation key revives a finished job.

*SDK.* Errors of most appends are dropped and the version that comes with them is adopted,
so overlapping calls of `Execute` both go on, checkpoints move back, and a completed job is
set to running. A database failure makes the version 0. `tool.go:1-4` promises at most once
"even across crash recovery"; a key that was left acquired is executed again
(`tool.go:63-65`, `86-94`). A crash between the job row and the append of `job_completed`
leaves a completed job without that event.

## 5. Proofs

TLAPS checks every step; nothing is taken for granted but the named assumptions on the
constants (`EventStoreAssumption`, `JobRunAssumption`, `ParallelRunAssumption`,
`SnapshotAssumption`, `JobLifecycleAssumption`, `JobQueueAssumption`,
`DurabilitySdkAssumption`): types of the parameters, identifiers that are distinct from
the values that stand for "none", limits that are numbers (positive where
0 would leave no step, slot or try at all), edges between nodes of the plan. TLC evaluates them in the runs.
The instances are unbounded: any number of jobs, attempts, workers, clients, requests,
faults and versions, any plan or graph, any stream.

Every theorem `Spec => []P` below is proved from an invariant that is inductive. In the
modules whose processes keep their state in a record, a lemma per action first says what
the step does to that record, field by field (the lemmas ending in `Move`); the proofs of
the invariants then cite these lemmas and not the actions.

**EventStoreProofs.** `TypeCorrect`, `FencingOrder` (`AttemptOrder`),
`AcknowledgedDurable`, `HashChain`, `Implements` (`LogRefinement`), for both backends.
`AttemptOrder` is not inductive: the state between check and insertion matters. The
invariant says in addition that no claim outranks `lastEpoch`, that the attempt in the
lease row has the highest rank of its job, that attempts write only where they were
granted a lease, that a version that was read is not ahead of the log, and that
the attempts that wrote the part of the log a fenced attempt has read rank no
higher than it (`FencedNewest`). An attempt that was overtaken after its check
then fails the version comparison. The hash chain needs that a process between
compare and insert holds the hash at its expected version, which stays true
because logs only grow. `MemoryGrants` (`GrantOnlyClaimable`) has the backend as its
hypothesis: in memory nobody is ever between selection and grant (`NoneSelected`).
PostgreSQL does not have the property, see 4.

**JobRunProofs.** `JobTypeCorrect`, `NeverTwice` (`AtMostOnce`). The ledger alone
does not give at-most-once, since two attempts may both find no row. The argument:
every call is past the lease check of `command_emitted`, whose error the adapter
does look at. When an attempt passes that check it holds the newest lease, so every
attempt that got past `Acquire` with it ranks lower and will fail the check
(`FencedLater`); and an attempt that asks the ledger later finds the row
(`LedgerMarked`). So at most one attempt per step ever passes (`MarkedOnce`). `IInv`
consists of `TypeOK`, `HolderNewest`, `EpochBound`, `AppendsPending`,
`LedgerMarked`, `FencedLater`, `MarkedOnce`, `FencedNotCalled` and `AtMostOnce`.

**JobRunRecords.** `RecordsAreReal` (`RecordedIsReal`), `CallsInOrder` (`InOrder`),
`CheckpointBehind` (`CursorBehind`), `CompletedIsDone` (`CompletedMeansDone`), with stale
attempts and faults. What each of the stores says is compared with one set, `Done`: the
tools that succeeded and the waits that were answered. `Done` only grows, so a sentence
about it that was true when an attempt read a store, or passed a point of the code, stays
true however late that attempt writes. `Events` says it of the stream, `Rows` of ledger,
effects, calls and cursor, `Positions` of every attempt: at a step, all steps before it
are done; past the result of a tool, that step too; at the end, all of them.
`CompletedIsDone` is stated for the default policy or a plan without waits: with no policy
a resumed attempt passes a wait that nobody answered.

**ParallelRunProofs.** `PlanIsSound` (`PlanSound`), `InputsBefore` (`InputsFirst`),
`RecordedHappened` (`FinishedIsReal`), `CompletedHasRun` (`CompletedRanAll`),
`ParallelTypeCorrect`. The first is about pure functions, for every graph on `1..N`: Kahn's
order lists all nodes exactly when there is no cycle, sources before targets; the level of
a node is one more than the highest level of its predecessors. The functions are
recursive, so the proof first shows that a function with the recursive equation exists
(`OrderExists`, by the number of nodes left; `LevelExists`, by position in the order).
`KahnOrder` then says what the list is: each element the least node that is ready after
those before it, and nobody is ready at its end. A nonempty rest contains for each of its
nodes a predecessor, hence a cycle in the sense of `PlanSound`; a cycle is never entered,
since its earliest member in the order would have one before it. The induction is by least
counterexample over sets of numbers (`Induction`), which the provers can instantiate. The
runs are then covered by `IInv`: `Flow` (which sets are empty where), `Records` (recorded, committed or kept in memory means that a call succeeded or the wait was
answered, whichever events were lost), `Inputs` (results of predecessors
are there before a level is taken) and `Progress`. The last is under the condition of
`CompletedRanAll`, that the plan is run sequentially or its order is by levels; there the
prefix that a checkpoint stands for is recorded. Without the condition it is false.

**SnapshotProofs.** `SnapshotTypeCorrect`, `NeverTwice` (`NothingTwice`),
`LatestNeverBack` (`LatestAdvances`), `ResumeIsExact` (`SnapshotExact`), `ResumeIsSound`
(`ReplaySound`). `NothingTwice` needs `ReadsBehind`: between its two
reads a loop holds a length that is not ahead of the stream, and after them a label that
is between the two. That the latest snapshot is never taken back needs `DeleteKeeps`: a
deletion that is under way knows a version at or above which there is a row. It is
proved with the property itself, since other deletions may come in between: the row that
a loop read may be gone, but only because there is a later one. The other two compare
contexts. `TraceFold` says that folding a stream gives the last of a sequence of contexts,
each from the one before by `ApplyEvent`; `ApplyIs` says what one event does to every
field. Two relations are kept by an event on both sides: `Like` (the same in all that comes
from events) and `Below` (nothing that the other does not have). `Below` is also kept when
only the full replay sees the event, which is what a mislabelled snapshot skips. `Resumable`
connects them with the table: a row is built from a prefix with a plan, and was labelled no
lower than that prefix and no higher than the stream.

**JobLifecycleProofs.** `TypeCorrect`, `CompletedStaysFinal` (`CompletedFinal`). That a
stream is completed is not kept by the workers (see 4), `Settled` is: the proof shows, action
by action, that every step but an append of the API leads from a settled job to a settled
job (`StepKeeps`), with the types as the only invariant (`LocalInvariant`). Each part of
`Settled` carries one case. The SELECT of a claim does not find a job whose stream ends in a
terminal event, so nobody new comes to the upsert, and with that window empty the holder of
the lease stays who it is. An append is let through for the holder only, and its
execution has nothing but a `job_completed` left. An INSERT that was checked earlier finds
its version taken, unless it is that of such an execution. If one of the windows were not
empty, the step that leaves it would reopen the job.

**JobQueueProofs.** `QueueTypeCorrect`, `PendingAlwaysQueued` (`PendingQueued`),
`OneRunAtATime` (`RunAlone`), `RetriesAreBounded` (`RetriesBounded`).
The type invariant contains the count of the limiter (`Counted`: busy slots, plus one
while the loop holds a token), from which a free slot exists whenever a job is spawned.
`Alone` relates, for every job that no request touched, its status, its retry count,
how often it was started, and the copy in the one goroutine that runs it.

**DurabilitySdkProofs.** `TypeCorrect`, `CallsInOrder` (`InOrder`), `CheckpointsComplete`,
`CompletedIsComplete` (`CompletedMeansAll`), `CommittedCalledOnce` (`CommittedOnce`),
`RefusedByOverlap` (`RefusedOnlyByOverlap`). The invariants rest on one another: `Local`
(places and types), `Versions` (no copy of a version is ahead of the events), `Progress` (a
result that is held anywhere comes from a call, and an execution holds exactly the results
of the steps before it), `Alone` (as long as calls of `Execute` never overlapped, at most
one is under way and what it holds is committed in the ledger), `Quiet` (if besides no store
call failed, its versions are current, so nothing refuses it).

**Only model-checked.** Liveness under fairness is outside the prover: `JobEnds`,
`WaitAnswerable` and `StatusSettles` of `JobLifecycle`, `EventuallyClaimed` and
`EventuallyEnds` of `JobQueue`. `RunsBounded` of `JobQueue` is an invariant that is checked
and not proved: each request adds at most two series of `RetryMax + 1` runs, one by the
status it writes and one by the notification it sends, but an inductive form has to account
for every copy of the retry count that is under way. (`ResumeProceeds`, of the violation run, does not hold.) The type invariants of `EventStore`, `JobRun` and `Snapshot`
are proved and therefore not repeated in the runs.

## 6. What is not modelled

- LLM and workflow nodes, compensation, validators, step timeouts, capability approval:
  plans consist of tool and wait nodes. A compensation runs for the failed step too and
  adds events that neither claiming nor replay looks at.
- The retry loop around a tool is one `Execute`: the adapter sees one result.
- Overlapping attempts on parallel plans: `JobRun` has the one, `ParallelRun` the other.
- A rebuild of the context that fails to read the stream.
- Waits for a message, and parked jobs under PostgreSQL.
- Several jobs per worker at a time, and capacity limits of workers.
- In the in-process scheduler: `Stop`, queue classes and capabilities (the API sets
  none by default), the cancel flag, compensation, messages.
- The tracing events of a run: they only take versions, and any append may lose
  its version anyway.
- `Watch`; the inbox loop, which creates a job from one read and three writes and peeks
  without a lock; GC and archive, which touch only rows past their time; the sharded,
  redacting and embedded stores, which wrap or repeat the ones modelled.
- The in-memory store, replay and wait packages of the SDK.
- I/O adapters, front ends, CLI, configuration, offline export: no state that
  these properties speak of. They are most of the repository, and the reason why the
  modelled lines are a small share of it.
