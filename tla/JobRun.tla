------------------------------- MODULE JobRun -------------------------------
(***************************************************************************)
(* The execution of one job: AgentJobRunner.executeJob, the worker's       *)
(* runJob, Runner.RunForJob with its replay and checkpoint paths, and the  *)
(* tool adapter with its invocation ledger and effect store.               *)
(*                                                                         *)
(* The job has a sequential plan of tool and wait nodes.  Its executions   *)
(* are identified by the attempt_id of their Claim and overlap whenever a  *)
(* lease runs out under a worker that is paused rather than dead.  A crash *)
(* is an attempt that takes no further step.                               *)
(*                                                                         *)
(* The event store is used through the contract EventStore establishes: an *)
(* append checks the lease, and later takes effect only if the stream is   *)
(* still the one that was read.  Of the events of a run the model keeps    *)
(* those that claiming or replay reads; the others (node_started,          *)
(* tool_called, reasoning_snapshot, ...) can only take a version away from *)
(* a concurrent append, and any append may fail that way.                  *)
(***************************************************************************)
EXTENDS Naturals, Sequences

CONSTANTS Attempts,     \* attempt identifiers
          Plan,         \* the node types of the plan, in execution order
          Policy,       \* "default": DefaultPolicy is set; "none": no ReplayPolicy
          Clients,      \* API requests that may signal the job
          MaxMessages,  \* bound on the messages posted to the job
          MaxFaults,    \* bound on the store calls that fail
          NoAttempt     \* the holder of a lease that was never granted

ASSUME JobRunAssumption ==
    /\ Plan \in Seq({"tool", "wait"})
    /\ Policy \in {"default", "none"}
    /\ NoAttempt \notin Attempts
    /\ Attempts \cap Clients = {}
    /\ MaxMessages \in Nat
    /\ MaxFaults \in Nat

Steps == 1..Len(Plan)

VARIABLES
    log,        \* the event stream of the job
    holder,     \* the attempt in the lease row
    live,       \* whether that lease is unexpired
    epoch,      \* history: epoch[a] is the rank of a's claim, 0 before it
    lastEpoch,  \* history: the number of claims granted
    pc,         \* pc[p]: the next shared access of attempt or client p
    mode,       \* mode[a]: which loop of RunForJob a is in
    cur,        \* cur[a]: the step a is at; before Advance, the checkpoint a resumed from
    expected,   \* expected[a]: the version of a's append once past the lease check, or 0
    ledger,     \* ledger[s]: the tool_invocations row of step s
    effects,    \* effects[s]: the effect store has the result of step s
    cursor,     \* the checkpoint in the job's metadata, as the index of its last step
    status,     \* the status in the job's metadata
    messages,   \* the number of messages posted so far
    faults,     \* history: the number of store calls that failed
    execBy,     \* history: the attempts that called the tool of step s
    outcome     \* history: how the call of step s's tool ended

vars == << log, holder, live, epoch, lastEpoch, pc, mode, cur, expected,
           ledger, effects, cursor, status, messages, faults, execBy, outcome >>

lease == << holder, live, epoch, lastEpoch >>
local == << mode, cur, expected >>
metadata == << cursor, status, messages >>
tools == << ledger, effects, execBy, outcome >>

\* Every append of a run: the point in the code and the event it writes.
EventAt ==
    [ started           |-> "tool_invocation_started",
      emitted           |-> "command_emitted",
      failed_finished   |-> "tool_invocation_failed",  \* finished, outcome failure
      finished          |-> "tool_invocation_finished",
      committed         |-> "command_committed",
      catchup_finished  |-> "tool_invocation_finished",
      catchup_committed |-> "command_committed",
      node_finished     |-> "node_finished",
      job_waiting       |-> "job_waiting",
      job_failed        |-> "job_failed",
      job_completed     |-> "job_completed",
      requeue           |-> "job_requeued",
      give_up           |-> "job_failed",
      complete          |-> "job_completed" ]

AppendPoints == DOMAIN EventAt
JobPoints == {"job_failed", "job_completed", "requeue", "give_up", "complete"}

\* Where the run goes on after an append.
NextPoint ==
    [ started           |-> "emitted",
      emitted           |-> "execute",
      failed_finished   |-> "job_failed",
      finished          |-> "committed",
      committed         |-> "validate",
      catchup_finished  |-> "catchup_committed",
      catchup_committed |-> "node_finished",
      node_finished     |-> "checkpoint",
      job_waiting       |-> "set_waiting",
      job_failed        |-> "set_failed",
      job_completed     |-> "set_completed",
      requeue           |-> "wrap_up",
      give_up           |-> "set_given_up",
      complete          |-> "set_done" ]

\* Mutant of Checked: the error of command_emitted is ignored as well.
CheckedCatchUp == {"catchup_finished", "catchup_committed"}

\* The appends whose error fails the step; all other errors are ignored.
Checked == {"emitted", "catchup_finished", "catchup_committed"}

After(point, ok) ==
    IF ok \/ point \notin Checked THEN NextPoint[point] ELSE "job_failed"

\* Every write of the job's status: the point in the code and the value it writes.
StatusAt ==
    [ set_running   |-> "running",
      set_waiting   |-> "waiting",
      set_completed |-> "completed",
      set_failed    |-> "failed",
      forbidden     |-> "failed",    \* no recorded result, the step is refused
      set_pending   |-> "pending",   \* Requeue
      set_given_up  |-> "failed",
      set_done      |-> "completed",
      set_stray     |-> "failed" ]

StatusPoints == DOMAIN StatusAt

AfterStatus(point, ok) ==
    CASE point = "set_running"                -> "replay"
      [] point \in {"set_failed", "forbidden"} -> "error"
      [] point = "set_completed"              -> "completed"
      [] point = "set_pending"                -> IF ok THEN "requeue" ELSE "wrap_up"
      [] point \in {"set_waiting", "set_given_up"} -> "wrap_up"
      [] point \in {"set_done", "set_stray"}  -> "stopped"

-----------------------------------------------------------------------------
(* What BuildFromEvents reads off the stream l *)

StepsWith(l, types) ==
    { s \in Steps : \E i \in 1..Len(l) : l[i].type \in types /\ l[i].step = s }

LastType(l) == l[Len(l)].type

\* Mutants of CompletedNodes and CompletedCommands: an emitted command counts as done.
NodesOnceEmitted(l) == StepsWith(l, {"node_finished", "wait_completed", "command_emitted"})
CommandsOnceEmitted(l) == StepsWith(l, {"command_committed", "wait_completed", "command_emitted"})

CompletedNodes(l) == StepsWith(l, {"node_finished", "wait_completed"})
CompletedCommands(l) == StepsWith(l, {"command_committed", "wait_completed"})
CompletedInvocations(l) == StepsWith(l, {"tool_invocation_finished"})

PendingInvocations(l) ==
    { s \in Steps : \E i \in 1..Len(l) :
         /\ l[i] = [type |-> "tool_invocation_started", step |-> s]
         /\ \A k \in i + 1..Len(l) :
               ~ ( /\ l[k].type \in {"tool_invocation_finished", "tool_invocation_failed"}
                   /\ l[k].step = s ) }

hasReplayProgress(l) ==
    CompletedNodes(l) \cup CompletedCommands(l) \cup CompletedInvocations(l)
       \cup PendingInvocations(l) # {}

Terminal == {"job_completed", "job_failed", "job_cancelled"}

-----------------------------------------------------------------------------
Init ==
    /\ log = << [type |-> "plan_generated", step |-> 0] >>
    /\ holder = NoAttempt
    /\ live = FALSE
    /\ epoch = [a \in Attempts |-> 0]
    /\ lastEpoch = 0
    /\ pc = [p \in Attempts \cup Clients |-> IF p \in Attempts THEN "unclaimed" ELSE "idle"]
    /\ mode = [a \in Attempts |-> "fresh"]
    /\ cur = [a \in Attempts |-> 0]
    /\ expected = [a \in Attempts |-> 0]
    /\ ledger = [s \in Steps |-> "none"]
    /\ effects = [s \in Steps |-> FALSE]
    /\ cursor = 0
    /\ status = "pending"
    /\ messages = 0
    /\ faults = 0
    /\ execBy = [s \in Steps |-> << >>]
    /\ outcome = [s \in Steps |-> "none"]

Goto(a, l) == pc' = [pc EXCEPT ![a] = l]

\* A call of one of the stores returns an error.
Fault == faults < MaxFaults /\ faults' = faults + 1

-----------------------------------------------------------------------------
(* The lease *)

ClaimSelect(a) ==
    /\ pc[a] = "unclaimed"
    /\ ~ live
    /\ LastType(log) \notin Terminal
    /\ Goto(a, "selected")
    /\ UNCHANGED << log, lease, local, metadata, tools, faults >>

ClaimUpsert(a) ==
    /\ pc[a] = "selected"
    /\ holder' = a
    /\ live' = TRUE
    /\ lastEpoch' = lastEpoch + 1
    /\ epoch' = [epoch EXCEPT ![a] = lastEpoch + 1]
    /\ Goto(a, "load")
    /\ UNCHANGED << log, local, metadata, tools, faults >>

Expire ==
    /\ live
    /\ live' = FALSE
    /\ UNCHANGED << log, holder, epoch, lastEpoch, pc, local, metadata, tools, faults >>

\* The heartbeat of executeJob runs from the first status write to the end of runJob.
Heartbeat(a) ==
    /\ holder = a
    /\ pc[a] \notin {"load", "set_running", "wrap_up", "set_stray", "stopped"}
    /\ live' = TRUE
    /\ UNCHANGED << log, holder, epoch, lastEpoch, pc, local, metadata, tools, faults >>

HoldsLease(a) == holder = a /\ live

-----------------------------------------------------------------------------
(* Appending an event: read the stream, check the lease, insert.  The read   *)
(* and the lease check are one step: an append whose stream changes between  *)
(* them fails, and so may any append here (a Fault).                         *)

AppendCheck(a) ==
    /\ pc[a] \in AppendPoints
    /\ expected[a] = 0
    /\ \/ /\ HoldsLease(a)
          /\ expected' = [expected EXCEPT ![a] = Len(log)]
          /\ UNCHANGED pc
       \/ /\ ~ HoldsLease(a)
          /\ Goto(a, After(pc[a], FALSE))
          /\ UNCHANGED expected
    /\ UNCHANGED << log, lease, mode, cur, metadata, tools, faults >>

AppendInsert(a) ==
    /\ expected[a] # 0
    /\ \/ /\ Len(log) = expected[a]
          /\ log' = Append(log, [type |-> EventAt[pc[a]],
                                 step |-> IF pc[a] \in JobPoints THEN 0 ELSE cur[a]])
          /\ Goto(a, After(pc[a], TRUE))
          /\ UNCHANGED faults
       \/ /\ \/ Len(log) # expected[a] /\ UNCHANGED faults
             \/ Fault
          /\ Goto(a, After(pc[a], FALSE))
          /\ UNCHANGED log
    /\ expected' = [expected EXCEPT ![a] = 0]
    /\ UNCHANGED << lease, mode, cur, metadata, tools >>

\* A write of the status, or its failure, which only Requeue's caller notices.
UpdateStatus(a) ==
    /\ pc[a] \in StatusPoints
    /\ \/ /\ status' = StatusAt[pc[a]]
          /\ Goto(a, AfterStatus(pc[a], TRUE))
          /\ UNCHANGED faults
       \/ Fault /\ Goto(a, AfterStatus(pc[a], FALSE)) /\ UNCHANGED status
    /\ UNCHANGED << log, lease, local, cursor, messages, tools >>

-----------------------------------------------------------------------------
(* RunForJob *)

\* executeJob reads the job's metadata.
Load(a) ==
    /\ pc[a] = "load"
    /\ cur' = [cur EXCEPT ![a] = cursor]
    /\ Goto(a, "set_running")
    /\ UNCHANGED << log, lease, mode, expected, metadata, tools, faults >>

\* Mutant of RunStep: the run loop does not suspend at a wait node.
RunStepThrough(m, s, l) ==
    IF Plan[s] = "wait" THEN "node_finished" ELSE "get"

\* Running step s: the run loop suspends at a wait node, Advance runs it like
\* any other node, and its runner does nothing.  A tool that is pending in the
\* stream l is only recovered, one that finished there is not called again.
RunStep(m, s, l) ==
    IF Plan[s] = "wait"
    THEN IF m = "fresh" THEN "job_waiting" ELSE "node_finished"
    ELSE IF s \in PendingInvocations(l) THEN "recover"
    ELSE IF s \in CompletedInvocations(l) THEN "node_finished"
    ELSE "get"

\* Advance: a committed command is injected; the default policy refuses to run
\* any node that has none.
Advance(m, s, l) ==
    IF s \in CompletedCommands(l) THEN "node_finished"
    ELSE IF Policy = "default" THEN "forbidden"
    ELSE RunStep(m, s, l)

\* Mutant of NextStep: the last step that is not completed.
LastStep(done) == CHOOSE s \in Steps \ done : \A t \in Steps \ done : t <= s

\* The first step, in plan order, that is not completed.
NextStep(done) == CHOOSE s \in Steps \ done : \A t \in Steps \ done : s <= t

\* Attempt a goes on in mode m with the first step that is not in done; the
\* commands and invocations it knows of are those of l.
Decide(a, m, done, l) ==
    /\ mode' = [mode EXCEPT ![a] = m]
    /\ IF Steps \subseteq done
       THEN Goto(a, "job_completed") /\ UNCHANGED cur
       ELSE /\ cur' = [cur EXCEPT ![a] = NextStep(done)]
            /\ Goto(a, IF m = "fresh" THEN RunStep(m, NextStep(done), l)
                                      ELSE Advance(m, NextStep(done), l))

\* A blocked job is recognised where the stream alone decides.
Blocked(a) ==
    /\ LastType(log) = "job_waiting"
    /\ Goto(a, "set_waiting")
    /\ UNCHANGED << mode, cur >>

\* No checkpoint: the context is built from the stream.
Replay(a) ==
    /\ pc[a] = "replay"
    /\ cur[a] = 0
    /\ \/ Blocked(a)
       \/ /\ LastType(log) # "job_waiting"
          /\ Decide(a, IF hasReplayProgress(log) THEN "replay" ELSE "fresh",
                    CompletedNodes(log), log)
    /\ UNCHANGED << log, lease, expected, metadata, tools, faults >>

\* With a checkpoint, which may turn out unreadable, only the completed nodes
\* of the stream are taken into the context: no commands and no invocations.
ReplayCheckpoint(a) ==
    /\ pc[a] = "replay"
    /\ cur[a] # 0
    /\ \/ /\ Decide(a, "cursor", 1..cur[a] \cup CompletedNodes(log), << >>)
          /\ UNCHANGED faults
       \/ Fault /\ Goto(a, "set_failed") /\ UNCHANGED << mode, cur >>
    /\ UNCHANGED << log, lease, expected, metadata, tools >>

\* After an Advance the context is built from the stream.  Only the loop that
\* started without a checkpoint looks for a blocked job.
Rebuild(a) ==
    /\ pc[a] = "rebuild"
    /\ \/ mode[a] = "replay" /\ Blocked(a)
       \/ /\ ~ (mode[a] = "replay" /\ LastType(log) = "job_waiting")
          /\ Decide(a, mode[a], CompletedNodes(log), log)
    /\ UNCHANGED << log, lease, expected, metadata, tools, faults >>

\* The node is finished: checkpoint and cursor.  A checkpoint that cannot be saved
\* ends the run; the error of UpdateCursor is dropped, and the run goes on.
Checkpoint(a) ==
    /\ pc[a] = "checkpoint"
    /\ \/ /\ \/ cursor' = cur[a] /\ UNCHANGED faults
             \/ Fault /\ UNCHANGED cursor
          /\ \/ mode[a] = "fresh" /\ Decide(a, "fresh", 1..cur[a], << >>)
             \/ mode[a] # "fresh" /\ Goto(a, "rebuild") /\ UNCHANGED << mode, cur >>
       \/ Fault /\ Goto(a, "set_failed") /\ UNCHANGED << mode, cur, cursor >>
    /\ UNCHANGED << log, lease, expected, status, messages, tools >>

-----------------------------------------------------------------------------
(* runJob and executeJob after RunForJob *)

\* Requeue the job for another attempt, or give it up when its attempts are
\* used up.  The retry count is left to chance.
WorkerFailed(a) ==
    /\ pc[a] = "error"
    /\ \/ Goto(a, "set_pending")
       \/ LastType(log) # "job_failed" /\ Goto(a, "give_up")
       \/ LastType(log) = "job_failed" /\ Goto(a, "set_given_up")
    /\ UNCHANGED << log, lease, local, metadata, tools, faults >>

WorkerCompleted(a) ==
    /\ pc[a] = "completed"
    /\ Goto(a, IF LastType(log) = "job_completed" THEN "set_done" ELSE "complete")
    /\ UNCHANGED << log, lease, local, metadata, tools, faults >>

\* executeJob: a run that failed leaves the status alone if it looks settled.
\* The job_failed append of the other case uses a cancelled context and fails.
WrapUp(a) ==
    /\ pc[a] = "wrap_up"
    /\ Goto(a, IF status \in {"pending", "waiting", "failed"} THEN "stopped" ELSE "set_stray")
    /\ UNCHANGED << log, lease, local, metadata, tools, faults >>

-----------------------------------------------------------------------------
(* The tool adapter *)

\* Acquire, first half: look the invocation up.  Only a missing row allows the
\* call; a store error fails the step.
LedgerGet(a) ==
    /\ pc[a] = "get"
    /\ \/ ledger[cur[a]] = "committed" /\ Goto(a, "node_finished") /\ UNCHANGED faults
       \/ ledger[cur[a]] = "started" /\ Goto(a, "job_failed") /\ UNCHANGED faults
       \/ ledger[cur[a]] = "none" /\ Goto(a, "set_started") /\ UNCHANGED faults
       \/ Fault /\ Goto(a, "job_failed")
    /\ UNCHANGED << log, lease, local, metadata, tools >>

\* Acquire, second half: the upsert leaves a committed row alone.
SetStarted(a) ==
    /\ pc[a] = "set_started"
    /\ \/ /\ ledger' = [ledger EXCEPT ![cur[a]] = IF @ = "committed" THEN @ ELSE "started"]
          /\ Goto(a, "started")
          /\ UNCHANGED faults
       \/ Fault /\ Goto(a, "job_failed") /\ UNCHANGED ledger
    /\ UNCHANGED << log, lease, local, metadata, effects, execBy, outcome >>

\* Mutant of Execute: the error of the tool is dropped.
ExecuteUnchecked(a) ==
    /\ pc[a] = "execute"
    /\ execBy' = [execBy EXCEPT ![cur[a]] = Append(@, a)]
    /\ \E o \in {"ok", "error"} : outcome' = [outcome EXCEPT ![cur[a]] = o]
    /\ Goto(a, "effect")
    /\ UNCHANGED << log, lease, local, metadata, ledger, effects, faults >>

\* The tool call; how it ends is up to the tool.
Execute(a) ==
    /\ pc[a] = "execute"
    /\ execBy' = [execBy EXCEPT ![cur[a]] = Append(@, a)]
    /\ \E o \in {"ok", "error"} :
          /\ outcome' = [outcome EXCEPT ![cur[a]] = o]
          /\ Goto(a, IF o = "ok" THEN "effect" ELSE "failed_finished")
    /\ UNCHANGED << log, lease, local, metadata, ledger, effects, faults >>

PutEffect(a) ==
    /\ pc[a] = "effect"
    /\ \/ effects' = [effects EXCEPT ![cur[a]] = TRUE] /\ Goto(a, "finished") /\ UNCHANGED faults
       \/ Fault /\ Goto(a, "job_failed") /\ UNCHANGED effects
    /\ UNCHANGED << log, lease, local, metadata, ledger, execBy, outcome >>

\* Commit: ValidateAttempt, then SetFinished; its error is ignored.
ValidateAttempt(a) ==
    /\ pc[a] = "validate"
    /\ Goto(a, IF HoldsLease(a) THEN "set_finished" ELSE "node_finished")
    /\ UNCHANGED << log, lease, local, metadata, tools, faults >>

SetFinished(a) ==
    /\ pc[a] = "set_finished"
    /\ \/ ledger' = [ledger EXCEPT ![cur[a]] = "committed"] /\ UNCHANGED faults
       \/ Fault /\ UNCHANGED ledger
    /\ Goto(a, "node_finished")
    /\ UNCHANGED << log, lease, local, metadata, effects, execBy, outcome >>

\* The activity log barrier: a pending invocation is recovered from the ledger
\* or the step fails for good.
Recover(a) ==
    /\ pc[a] = "recover"
    /\ Goto(a, IF ledger[cur[a]] = "committed" THEN "catchup_finished" ELSE "job_failed")
    /\ UNCHANGED << log, lease, local, metadata, tools, faults >>

-----------------------------------------------------------------------------
(* The API *)

\* JobSignal: the status is read first.
SignalCheck(c) ==
    /\ pc[c] = "idle"
    /\ status = "waiting"
    /\ Goto(c, "signal")
    /\ UNCHANGED << log, lease, local, metadata, tools, faults >>

\* The latest wait of the stream: the one a signal has to match.
WaitingStep(l) ==
    LET waits == { i \in 1..Len(l) : l[i].type = "job_waiting" }
    IN  l[CHOOSE i \in waits : \A k \in waits : k <= i].step

\* Then the stream is read and wait_completed is appended for its latest wait,
\* unless it is the last event already.  The append is compared with what was
\* read, so reading and inserting are one step, or a failure.
SignalAppend(c) ==
    /\ pc[c] = "signal"
    /\ \/ /\ \E i \in 1..Len(log) : log[i].type = "job_waiting"
          /\ LastType(log) # "wait_completed"
          /\ log' = Append(log, [type |-> "wait_completed", step |-> WaitingStep(log)])
          /\ Goto(c, "wake")
          /\ UNCHANGED faults
       \/ /\ \/ LastType(log) = "wait_completed" /\ UNCHANGED faults
             \/ Fault
          /\ Goto(c, "idle")
          /\ UNCHANGED log
    /\ UNCHANGED << lease, local, metadata, tools >>

SignalWake(c) ==
    /\ pc[c] = "wake"
    /\ \/ status' = "pending" /\ UNCHANGED faults
       \/ Fault /\ UNCHANGED status
    /\ Goto(c, "idle")
    /\ UNCHANGED << log, lease, local, cursor, messages, tools >>

\* JobMessage for a job that does not wait for a message: the event is
\* appended whatever the state of the job.
JobMessage ==
    /\ messages < MaxMessages
    /\ messages' = messages + 1
    /\ log' = Append(log, [type |-> "agent_message", step |-> 0])
    /\ UNCHANGED << lease, pc, local, cursor, status, tools, faults >>

-----------------------------------------------------------------------------
Next ==
    \/ Expire
    \/ JobMessage
    \/ \E c \in Clients : SignalCheck(c) \/ SignalAppend(c) \/ SignalWake(c)
    \/ \E a \in Attempts :
          \/ ClaimSelect(a) \/ ClaimUpsert(a) \/ Heartbeat(a)
          \/ AppendCheck(a) \/ AppendInsert(a) \/ UpdateStatus(a)
          \/ Load(a) \/ Replay(a) \/ ReplayCheckpoint(a) \/ Rebuild(a) \/ Checkpoint(a)
          \/ WorkerFailed(a) \/ WorkerCompleted(a) \/ WrapUp(a)
          \/ LedgerGet(a) \/ SetStarted(a) \/ Execute(a) \/ PutEffect(a)
          \/ ValidateAttempt(a) \/ SetFinished(a) \/ Recover(a)

Spec == Init /\ [][Next]_vars

-----------------------------------------------------------------------------
(* Properties *)

RunPoints ==
    AppendPoints \cup StatusPoints \cup
      {"unclaimed", "selected", "load", "replay", "rebuild", "get",
       "set_started", "execute", "effect", "validate", "set_finished", "recover",
       "checkpoint", "error", "completed", "wrap_up", "stopped"}

EventTypes ==
    {"plan_generated", "wait_completed", "agent_message"} \cup {EventAt[p] : p \in AppendPoints}

\* The shape of the job's stream and rows, and of the attempts' local state.
TypeOK ==
    /\ log \in Seq([type : EventTypes, step : Nat])
    /\ holder \in Attempts \cup {NoAttempt}
    /\ live \in BOOLEAN
    /\ epoch \in [Attempts -> Nat]
    /\ lastEpoch \in Nat
    /\ pc \in [Attempts \cup Clients -> RunPoints \cup {"idle", "signal", "wake"}]
    /\ mode \in [Attempts -> {"fresh", "replay", "cursor"}]
    /\ cur \in [Attempts -> Nat]
    /\ expected \in [Attempts -> Nat]
    /\ ledger \in [Steps -> {"none", "started", "committed"}]
    /\ effects \in [Steps -> BOOLEAN]
    /\ cursor \in Nat
    /\ status \in {"pending", "running", "waiting", "completed", "failed"}
    /\ messages \in Nat
    /\ faults \in Nat
    /\ execBy \in [Steps -> Seq(Attempts)]
    /\ outcome \in [Steps -> {"none", "ok", "error"}]

Recorded(s, types) == \E i \in 1..Len(log) : log[i].type \in types /\ log[i].step = s

Executed(s) == execBy[s] # << >>

Tools == { s \in Steps : Plan[s] = "tool" }
Waits == { s \in Steps : Plan[s] = "wait" }

\* No tool of a job is called twice, however many attempts overlap, crash or
\* are retried.  Acquire reads and writes the ledger in two steps that two
\* attempts can interleave, so this rests on command_emitted too: of the
\* attempts that got past Acquire, only one gets its append past the lease.
AtMostOnce == \A s \in Steps : Len(execBy[s]) <= 1

\* What the stream, the ledger and the effect store say of a tool is true: the
\* call was made and succeeded.  Events are written by attempts that lost the
\* lease in between, so this is about who may speak for whom.
RecordedIsReal ==
    \A s \in Tools :
        \/ ledger[s] = "committed"
        \/ effects[s]
        \/ Recorded(s, {"tool_invocation_finished", "command_committed", "node_finished"})
      => outcome[s] = "ok"

\* A tool is called only after every earlier tool of the plan succeeded, also
\* when a resumed or stale attempt decides on the next step from old data.
InOrder ==
    \A s, t \in Tools : s < t /\ Executed(t) => outcome[s] = "ok"

\* job_completed is written only when every tool of the plan has succeeded and
\* every wait has been answered.
CompletedMeansDone ==
    Recorded(0, {"job_completed"})
      => /\ \A s \in Tools : outcome[s] = "ok"
         /\ \A w \in Waits : Recorded(w, {"wait_completed"})

\* The checkpoint in the metadata, which is written without a lease check and
\* possibly by a stale attempt, never runs ahead of the tools.
CursorBehind == \A s \in Tools : s <= cursor => outcome[s] = "ok"

\* A refused step is one that an earlier attempt at least began: resuming from
\* recorded progress never gives up on a step nobody has tried.
ResumeProceeds ==
    \A a \in Attempts : pc[a] = "forbidden" => ledger[cur[a]] # "none"
=============================================================================
