---------------------------- MODULE DurabilitySdk ----------------------------
(***************************************************************************)
(* The durability SDK on its PostgreSQL store: Runner.Start creates a job, *)
(* Runner.Execute runs its steps with a checkpoint after each, and every   *)
(* step calls a function through idempotent.Wrap, whose ledger is a job of *)
(* its own in the same store.                                              *)
(*                                                                         *)
(* There are no leases: an Execute may be called again after a crash, and  *)
(* also while another one is still under way.  A job row holds the version *)
(* that AppendEvent compares, and SaveJob overwrites it with the version   *)
(* of the caller's copy; the events of a job are numbered without gaps,    *)
(* so that their number says which versions are taken.                     *)
(***************************************************************************)
EXTENDS Naturals, FiniteSets

CONSTANTS Executors,    \* callers of Execute
          N,            \* number of steps
          MaxRetries,   \* MaxRetries of a step
          MaxCalls,     \* bound: calls of Execute
          MaxFaults     \* bound: crashes, errors of the function, failed appends

ASSUME DurabilitySdkAssumption ==
    /\ N \in Nat \ {0}
    /\ MaxRetries \in Nat \ {0}
    /\ MaxCalls \in Nat
    /\ MaxFaults \in Nat

Steps == 1..N

VARIABLES
    job,         \* the row of the job: its state and its version
    events,      \* number of events of the job
    checkpoint,  \* the checkpoint: its step (0: none) and the steps its state holds
    ledger,      \* ledger[i]: the row of step i's ledger job
    entries,     \* entries[i]: number of events of step i's ledger job
    start,       \* where Start is
    exec,        \* exec[e]: where the Execute of e is, with its copies of the rows
    calls,       \* history: calls[i] is how often the function of step i was called
    begun,       \* calls of Execute so far
    failures,    \* crashes and errors of the function so far
    outages,     \* failed store calls so far
    overlapped,  \* history: two calls of Execute were under way at the same time
    refused      \* history: an AppendEvent that is checked was refused

store == << job, events, checkpoint, ledger, entries >>
faults == << begun, failures, outages, overlapped >>
vars == << store, start, exec, calls, faults, refused >>

Idle == [at |-> "idle", step |-> 0, version |-> 0, attempt |-> 0, state |-> {}, entry |-> 0]

Init ==
    /\ job = [state |-> "none", version |-> 0]
    /\ events = 0
    /\ checkpoint = [step |-> 0, state |-> {}]
    /\ ledger = [i \in Steps |-> [state |-> "none", version |-> 0]]
    /\ entries = [i \in Steps |-> 0]
    /\ start = "save"
    /\ exec = [e \in Executors |-> Idle]
    /\ calls = [i \in Steps |-> 0]
    /\ begun = 0
    /\ failures = 0
    /\ outages = 0
    /\ overlapped = FALSE
    /\ refused = FALSE

-----------------------------------------------------------------------------
(* The store *)

MoreFaults == failures + outages < MaxFaults

SaveJob(state, version) == job' = [state |-> state, version |-> version]

\* AppendEvent: the row's version is compared under its lock; the insertion fails
\* when the version is taken already.
Accepted(row, count, expected) == row.version = expected /\ count <= expected

\* Mutant of NewVersion: counted on from the caller's version.
NewVersionBlind(row, count, expected) == expected + 1

\* The version it returns to a caller that does not look at the error.
NewVersion(row, count, expected) ==
    IF row.version # expected THEN row.version
    ELSE IF count > expected THEN 0
    ELSE expected + 1

AppendEvent(expected) ==
    IF Accepted(job, events, expected)
    THEN events' = events + 1 /\ job' = [job EXCEPT !.version = expected + 1]
    ELSE UNCHANGED << events, job >>

AppendEntry(i, expected) ==
    IF Accepted(ledger[i], entries[i], expected)
    THEN /\ entries' = [entries EXCEPT ![i] = @ + 1]
         /\ ledger' = [ledger EXCEPT ![i].version = expected + 1]
    ELSE UNCHANGED << entries, ledger >>

-----------------------------------------------------------------------------
(* Start *)

StartSave ==
    /\ start = "save"
    /\ SaveJob("created", 0)
    /\ start' = "append"
    /\ UNCHANGED << events, checkpoint, ledger, entries, exec, calls, faults, refused >>

StartAppend ==
    /\ start = "append"
    /\ AppendEvent(0)
    /\ start' = "version"
    /\ UNCHANGED << checkpoint, ledger, entries, exec, calls, faults, refused >>

StartVersion ==
    /\ start = "version"
    /\ SaveJob("created", 1)
    /\ start' = "done"
    /\ UNCHANGED << events, checkpoint, ledger, entries, exec, calls, faults, refused >>

-----------------------------------------------------------------------------
(* Execute *)

Goto(e, at) == exec' = [exec EXCEPT ![e].at = at]
Return(e) == exec' = [exec EXCEPT ![e] = Idle]

\* Mutant of StepAfter: the last step is left out.
StepAfterShort(i) == IF i + 1 < N THEN "step_started" ELSE "complete"

\* The next step to run, or the end of the job.
StepAfter(i) == IF i < N THEN "step_started" ELSE "complete"

\* LoadJob: a completed job returns its stored result.
LoadJob(e) ==
    /\ start = "done"
    /\ exec[e].at = "idle"
    /\ job.state # "completed"
    /\ begun < MaxCalls
    /\ begun' = begun + 1
    /\ overlapped' = (overlapped \/ \E f \in Executors : exec[f].at # "idle")
    /\ Goto(e, "list")
    /\ UNCHANGED << store, start, calls, failures, outages, refused >>

ListEvents(e) ==
    /\ exec[e].at = "list"
    /\ exec' = [exec EXCEPT ![e].at = "checkpoint", ![e].version = events]
    /\ UNCHANGED << store, start, calls, faults, refused >>

\* Mutant of LoadCheckpoint: one step too far.
LoadCheckpointAhead(e) ==
    /\ exec[e].at = "checkpoint"
    /\ exec' = [exec EXCEPT ![e].at = "mark", ![e].state = checkpoint.state,
                            ![e].step = IF checkpoint.step < N THEN checkpoint.step + 1 ELSE N]
    /\ UNCHANGED << store, start, calls, faults, refused >>

\* Mutant of LoadCheckpoint: the state is not restored.
LoadCheckpointEmpty(e) ==
    /\ exec[e].at = "checkpoint"
    /\ exec' = [exec EXCEPT ![e].at = "mark", ![e].step = checkpoint.step]
    /\ UNCHANGED << store, start, calls, faults, refused >>

\* The step after the checkpoint is the first to run, with the checkpoint's state.
LoadCheckpoint(e) ==
    /\ exec[e].at = "checkpoint"
    /\ exec' = [exec EXCEPT ![e].at = "mark", ![e].step = checkpoint.step, ![e].state = checkpoint.state]
    /\ UNCHANGED << store, start, calls, faults, refused >>

MarkRunning(e) ==
    /\ exec[e].at = "mark"
    /\ SaveJob("running", exec[e].version)
    /\ Goto(e, StepAfter(exec[e].step))
    /\ UNCHANGED << events, checkpoint, ledger, entries, start, calls, faults, refused >>

\* The only append of Execute whose error is looked at.
StepStarted(e) ==
    LET v == exec[e].version
        ok == Accepted(job, events, v) IN
    /\ exec[e].at = "step_started"
    /\ AppendEvent(v)
    /\ exec' = [exec EXCEPT ![e] =
          IF ok THEN [@ EXCEPT !.at = "load", !.step = exec[e].step + 1, !.version = v + 1, !.attempt = 1]
          ELSE Idle]
    /\ refused' = (refused \/ ~ok)
    /\ UNCHANGED << checkpoint, ledger, entries, start, calls, faults >>

\* An append whose error is dropped: the version goes on from what it returned,
\* which is 0 when the database failed.
AppendDropped(e, next) ==
    /\ \/ /\ AppendEvent(exec[e].version)
          /\ exec' = [exec EXCEPT ![e] =
                [next EXCEPT !.version = NewVersion(job, events, exec[e].version)]]
          /\ UNCHANGED outages
       \/ /\ MoreFaults
          /\ outages' = outages + 1
          /\ exec' = [exec EXCEPT ![e] = [next EXCEPT !.version = 0]]
          /\ UNCHANGED << events, job >>
    /\ UNCHANGED << checkpoint, ledger, entries, start, calls, begun, failures, overlapped, refused >>

\* A failed attempt of the step: another one, or the end of the run.
StepRetried(e) ==
    /\ exec[e].at = "failed" /\ exec[e].attempt < MaxRetries
    /\ AppendDropped(e, [exec[e] EXCEPT !.at = "load", !.attempt = exec[e].attempt + 1])

StepFailed(e) ==
    /\ exec[e].at = "failed" /\ exec[e].attempt = MaxRetries
    /\ AppendDropped(e, [exec[e] EXCEPT !.at = "save_failed"])

SaveFailed(e) ==
    /\ exec[e].at = "save_failed"
    /\ SaveJob("failed", exec[e].version)
    /\ Return(e)
    /\ UNCHANGED << events, checkpoint, ledger, entries, start, calls, faults, refused >>

\* The result is merged into the state, and step_finished recorded.
StepFinished(e) ==
    /\ exec[e].at = "finished"
    /\ AppendDropped(e, [exec[e] EXCEPT !.at = "save_checkpoint", !.attempt = 0,
                                        !.state = exec[e].state \cup {exec[e].step}])

SaveCheckpoint(e) ==
    /\ exec[e].at = "save_checkpoint"
    /\ checkpoint' = [step |-> exec[e].step, state |-> exec[e].state]
    /\ Goto(e, "checkpoint_saved")
    /\ UNCHANGED << job, events, ledger, entries, start, calls, faults, refused >>

CheckpointSaved(e) ==
    /\ exec[e].at = "checkpoint_saved"
    /\ AppendDropped(e, [exec[e] EXCEPT !.at = "progress"])

SaveProgress(e) ==
    /\ exec[e].at = "progress"
    /\ SaveJob("running", exec[e].version)
    /\ Goto(e, StepAfter(exec[e].step))
    /\ UNCHANGED << events, checkpoint, ledger, entries, start, calls, faults, refused >>

SaveCompleted(e) ==
    /\ exec[e].at = "complete"
    /\ SaveJob("completed", exec[e].version)
    /\ Goto(e, "job_completed")
    /\ UNCHANGED << events, checkpoint, ledger, entries, start, calls, faults, refused >>

JobCompleted(e) ==
    /\ exec[e].at = "job_completed"
    /\ AppendEvent(exec[e].version)
    /\ Return(e)
    /\ UNCHANGED << checkpoint, ledger, entries, start, calls, faults, refused >>

-----------------------------------------------------------------------------
(* The step function: idempotent.Wrap around the user's function *)

SaveLedger(i, state, version) ==
    ledger' = [ledger EXCEPT ![i] = [state |-> state, version |-> version]]

\* Mutant of LedgerLoad: a committed entry is executed again.
LedgerLoadAlways(e) ==
    LET row == ledger[exec[e].step] IN
    /\ exec[e].at = "load"
    /\ exec' = [exec EXCEPT ![e].at = IF row.state = "running" THEN "reset" ELSE "acquire",
                            ![e].entry = row.version]
    /\ UNCHANGED << store, start, calls, faults, refused >>

\* A committed key answers without a call; the others keep a copy of the row.
LedgerLoad(e) ==
    LET row == ledger[exec[e].step] IN
    /\ exec[e].at = "load"
    /\ exec' = [exec EXCEPT ![e] =
          IF row.state = "completed" THEN [@ EXCEPT !.at = "finished"]
          ELSE [@ EXCEPT !.at = IF row.state = "running" THEN "reset" ELSE "acquire",
                         !.entry = row.version]]
    /\ UNCHANGED << store, start, calls, faults, refused >>

LedgerReset(e) ==
    /\ exec[e].at = "reset"
    /\ SaveLedger(exec[e].step, "created", exec[e].entry)
    /\ Goto(e, "acquire")
    /\ UNCHANGED << job, events, checkpoint, entries, start, calls, faults, refused >>

LedgerAcquire(e) ==
    /\ exec[e].at = "acquire"
    /\ SaveLedger(exec[e].step, "running", exec[e].entry)
    /\ Goto(e, "acquired")
    /\ UNCHANGED << job, events, checkpoint, entries, start, calls, faults, refused >>

\* Mutant of LedgerAcquired: the caller keeps the version from before its append.
LedgerAcquiredStale(e) ==
    LET i == exec[e].step
        ok == Accepted(ledger[i], entries[i], exec[e].entry) IN
    /\ exec[e].at = "acquired"
    /\ AppendEntry(i, exec[e].entry)
    /\ exec' = [exec EXCEPT ![e] =
          IF ok THEN [@ EXCEPT !.at = "call"] ELSE [@ EXCEPT !.at = "failed", !.entry = 0]]
    /\ refused' = (refused \/ ~ok)
    /\ UNCHANGED << job, events, checkpoint, start, calls, faults >>

\* A refused ledger_acquired fails the attempt.
LedgerAcquired(e) ==
    LET i == exec[e].step
        ok == Accepted(ledger[i], entries[i], exec[e].entry) IN
    /\ exec[e].at = "acquired"
    /\ AppendEntry(i, exec[e].entry)
    /\ exec' = [exec EXCEPT ![e] =
          IF ok THEN [@ EXCEPT !.at = "call", !.entry = exec[e].entry + 1]
          ELSE [@ EXCEPT !.at = "failed", !.entry = 0]]
    /\ refused' = (refused \/ ~ok)
    /\ UNCHANGED << job, events, checkpoint, start, calls, faults >>

Call(e) ==
    /\ exec[e].at = "call"
    /\ calls' = [calls EXCEPT ![exec[e].step] = @ + 1]
    /\ \/ Goto(e, "commit") /\ UNCHANGED failures
       \/ MoreFaults /\ failures' = failures + 1 /\ Goto(e, "fail")
    /\ UNCHANGED << store, start, begun, outages, overlapped, refused >>

LedgerFail(e) ==
    /\ exec[e].at = "fail"
    /\ SaveLedger(exec[e].step, "failed", exec[e].entry)
    /\ exec' = [exec EXCEPT ![e].at = "failed", ![e].entry = 0]
    /\ UNCHANGED << job, events, checkpoint, entries, start, calls, faults, refused >>

LedgerCommit(e) ==
    /\ exec[e].at = "commit"
    /\ SaveLedger(exec[e].step, "completed", exec[e].entry)
    /\ Goto(e, "committed")
    /\ UNCHANGED << job, events, checkpoint, entries, start, calls, faults, refused >>

LedgerCommitted(e) ==
    /\ exec[e].at = "committed"
    /\ AppendEntry(exec[e].step, exec[e].entry)
    /\ exec' = [exec EXCEPT ![e].at = "finished", ![e].entry = 0]
    /\ UNCHANGED << job, events, checkpoint, start, calls, faults, refused >>

\* A store call of Wrap fails: the error fails the attempt of the step, except
\* where Wrap goes on without looking at it.
LedgerOutage(e) ==
    /\ exec[e].at \in {"load", "reset", "acquire", "acquired", "fail", "commit", "committed"}
    /\ MoreFaults
    /\ outages' = outages + 1
    /\ exec' = [exec EXCEPT ![e] =
          CASE exec[e].at = "reset" -> [@ EXCEPT !.at = "acquire"]
            [] exec[e].at = "committed" -> [@ EXCEPT !.at = "finished", !.entry = 0]
            [] OTHER -> [@ EXCEPT !.at = "failed", !.entry = 0]]
    /\ UNCHANGED << store, start, calls, begun, failures, overlapped, refused >>

-----------------------------------------------------------------------------
\* The process of e stops, or another store call of Execute fails and ends it.
Crash(e) ==
    /\ exec[e].at # "idle"
    /\ MoreFaults
    /\ failures' = failures + 1
    /\ Return(e)
    /\ UNCHANGED << store, start, calls, begun, outages, overlapped, refused >>

Execute(e) ==
    \/ LoadJob(e) \/ ListEvents(e) \/ LoadCheckpoint(e) \/ MarkRunning(e)
    \/ StepStarted(e) \/ StepRetried(e) \/ StepFailed(e) \/ SaveFailed(e) \/ StepFinished(e)
    \/ SaveCheckpoint(e) \/ CheckpointSaved(e) \/ SaveProgress(e)
    \/ SaveCompleted(e) \/ JobCompleted(e)

Wrap(e) ==
    \/ LedgerLoad(e) \/ LedgerReset(e) \/ LedgerAcquire(e) \/ LedgerAcquired(e)
    \/ Call(e) \/ LedgerFail(e) \/ LedgerCommit(e) \/ LedgerCommitted(e) \/ LedgerOutage(e)

Next ==
    \/ StartSave \/ StartAppend \/ StartVersion
    \/ \E e \in Executors : Execute(e) \/ Wrap(e) \/ Crash(e)

Spec == Init /\ [][Next]_vars

-----------------------------------------------------------------------------
(* Properties *)

JobStates == {"none", "created", "running", "failed", "completed"}

Places ==
    {"idle", "list", "checkpoint", "mark", "step_started", "failed", "save_failed", "finished",
     "save_checkpoint", "checkpoint_saved", "progress", "complete", "job_completed",
     "load", "reset", "acquire", "acquired", "call", "fail", "commit", "committed"}

\* Types of the rows and of every Execute's copies; a job row never claims more
\* versions than the job has events.
TypeOK ==
    /\ job \in [state : JobStates, version : Nat]
    /\ events \in Nat
    /\ checkpoint \in [step : 0..N, state : SUBSET Steps]
    /\ ledger \in [Steps -> [state : JobStates, version : Nat]]
    /\ entries \in [Steps -> Nat]
    /\ start \in {"save", "append", "version", "done"}
    /\ exec \in [Executors -> [at : Places, step : 0..N, version : Nat, attempt : 0..MaxRetries,
                               state : SUBSET Steps, entry : Nat]]
    /\ calls \in [Steps -> Nat]
    /\ begun \in 0..MaxCalls
    /\ failures \in 0..MaxFaults
    /\ outages \in 0..MaxFaults
    /\ overlapped \in BOOLEAN
    /\ refused \in BOOLEAN
    /\ job.version <= events
    /\ \A i \in Steps : ledger[i].version <= entries[i]

\* A step's function is called only after the functions of all earlier steps,
\* whatever crashed, failed or overlapped before (runner.go 134-173).
InOrder == \A i \in Steps : calls[i] > 0 => \A j \in 1..(i - 1) : calls[j] > 0

\* The checkpoint of a step holds the results of exactly the steps up to it, each of
\* them called: a resumed Execute loses no result, even when overlapping ones
\* move the checkpoint back (runner.go 237-256).
CheckpointComplete ==
    /\ checkpoint.state = 1..checkpoint.step
    /\ \A i \in checkpoint.state : calls[i] > 0

\* A completed job has called every function; without overlapping Executes every
\* key of it is committed (runner.go 273-280).
CompletedMeansAll ==
    job.state = "completed" =>
        \A i \in Steps : calls[i] > 0 /\ (~overlapped => ledger[i].state = "completed")

\* Without overlapping Executes a committed key stays committed and its function is
\* not called again, whatever crashes between the commit, the checkpoint and the
\* job row (tool.go 77-84).
CommittedOnce ==
    [][~overlapped' =>
         \A i \in Steps : ledger[i].state = "completed" =>
             ledger'[i].state = "completed" /\ calls'[i] = calls[i]]_vars

\* The version checks never refuse a caller that is alone: crashes, re-executed
\* keys and resumed jobs leave versions the next Execute can append at.
RefusedOnlyByOverlap == refused => overlapped \/ outages > 0
=============================================================================
