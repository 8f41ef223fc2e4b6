--------------------------- MODULE JobRunRecords ---------------------------
(***************************************************************************)
(* What is recorded about a job is true: the stream, the ledger, the effect *)
(* store and the checkpoint say nothing of a step that has not happened,    *)
(* whichever attempt, stale or current, wrote it.                           *)
(*                                                                         *)
(* The steps that are done only grow, so whatever was true of them when an  *)
(* attempt read the stream or passed a point of the code stays true.        *)
(***************************************************************************)
EXTENDS JobRunProofs

\* The steps that are behind the job: the tool has succeeded, the wait has been
\* answered.  Without a replay policy a resumed wait is passed unanswered.
Done ==
    { s \in Steps : /\ s \in Tools => outcome[s] = "ok"
                    /\ s \in Waits /\ Policy = "default" => Recorded(s, {"wait_completed"}) }

Before(n) == { t \in Steps : t < n }
UpTo(n) == { t \in Steps : t <= n }

\* What event e says when the steps of D are done.
Truth(e, D) ==
    /\ e.type \in {"tool_invocation_finished", "command_committed"} => e.step \in Tools \cap D
    /\ e.type = "node_finished" => e.step \in D
    /\ e.type \in {"job_waiting", "wait_completed"} => e.step \in Waits
    /\ e.type = "job_completed" => Steps \subseteq D

Events == \A i \in 1..Len(log) : Truth(log[i], Done)

\* What the ledger, the effect store, the tool calls and the checkpoint say.
Rows ==
    /\ \A s \in Tools : ledger[s] = "committed" \/ effects[s] => s \in Done
    /\ \A s \in Tools : s \in Done => Executed(s)
    /\ \A s \in Steps : Executed(s) => Before(s) \subseteq Done
    /\ UpTo(cursor) \subseteq Done

\* The places on the way to the tool, after its success, after the step, with a
\* checkpoint just read, and after the last step.
ToTool == {"get", "set_started", "started", "emitted", "execute", "recover"}
Succeeded ==
    {"effect", "finished", "committed", "validate", "set_finished", "catchup_finished",
     "catchup_committed"}
StepDone == {"node_finished", "checkpoint"}
Loaded == {"set_running", "replay"}
JobDone == {"job_completed", "set_completed", "completed", "complete"}
AtStep == ToTool \cup Succeeded \cup StepDone \cup {"job_waiting"}

\* What an attempt at place p with step n relies on when the steps of D are done.
Position(p, n, D) ==
    /\ p \in ToTool \cup Succeeded => n \in Tools
    /\ p \in Succeeded \cup StepDone => n \in D
    /\ p = "job_waiting" => n \in Waits
    /\ p \in AtStep => Before(n) \subseteq D
    /\ p \in Loaded => UpTo(n) \subseteq D
    /\ p \in JobDone => Steps \subseteq D

Positions == \A a \in Attempts : Position(pc[a], cur[a], Done)

Sound == Events /\ Rows /\ Positions

Event == [type : EventTypes, step : Nat]
-----------------------------------------------------------------------------
(* What is done stays done *)

LEMMA StepFacts ==
    /\ Steps \subseteq Nat
    /\ Tools \subseteq Steps /\ Waits \subseteq Steps /\ Tools \cap Waits = {}
    /\ Steps = Tools \cup Waits
<1>1. Len(Plan) \in Nat /\ \A s \in 1..Len(Plan) : Plan[s] \in {"tool", "wait"}
  BY JobRunAssumption
<1> QED
  BY <1>1 DEF Steps, Tools, Waits

\* Knowing more steps done can only confirm an event and a position.
LEMMA Monotone ==
    ASSUME NEW D, NEW E, D \subseteq E
    PROVE  /\ \A e : Truth(e, D) => Truth(e, E)
           /\ \A p, n : Position(p, n, D) => Position(p, n, E)
  BY DEF Truth, Position

\* The stream is only appended to.
LEMMA AppendKeeps ==
    ASSUME NEW l \in Seq(Event), NEW e \in Event, NEW m, m = Append(l, e)
    PROVE  /\ m \in Seq(Event)
           /\ Len(m) = Len(l) + 1 /\ m[Len(m)] = e
           /\ \A i \in 1..Len(l) : i \in 1..Len(m) /\ m[i] = l[i]
           /\ \A i \in 1..Len(m) : i \in 1..Len(l) \/ i = Len(m)
<1> HIDE DEF Event
<1>1. Len(l) \in Nat
  OBVIOUS
<1> QED
  BY <1>1 DEF Event

\* The stream stays, or grows by one event that holds already.
LogStep == log' = log \/ \E e \in Event : log' = Append(log, e) /\ Truth(e, Done)

LEMMA LogKeeps ==
    ASSUME TypeOK, LogStep
    PROVE  \A i \in 1..Len(log) : i \in 1..Len(log') /\ log'[i] = log[i]
<1>1. log \in Seq(Event)
  BY DEF TypeOK, Event
<1>2. CASE log' = log
  BY <1>2
<1>3. CASE \E e \in Event : log' = Append(log, e)
  BY <1>1, <1>3, AppendKeeps
<1> QED
  BY <1>2, <1>3 DEF LogStep

LEMMA DoneKeeps ==
    ASSUME TypeOK, LogStep, \A s \in Tools : outcome[s] = "ok" => outcome'[s] = "ok"
    PROVE  Done \subseteq Done'
<1>1. \A s \in Steps : Recorded(s, {"wait_completed"}) => Recorded(s, {"wait_completed"})'
  BY LogKeeps DEF Recorded
<1> QED
  BY <1>1 DEF Done

LEMMA ToolDone == \A s \in Tools : s \in Done <=> outcome[s] = "ok"
  BY StepFacts DEF Done

LEMMA ToolDoneNext == \A s \in Tools : s \in Done' <=> outcome'[s] = "ok"
  BY StepFacts DEF Done

LEMMA EventsStep ==
    ASSUME TypeOK, Events, LogStep, Done \subseteq Done'
    PROVE  Events'
<1>1. log \in Seq(Event)
  BY DEF TypeOK, Event
<1>2. \A i \in 1..Len(log) : Truth(log[i], Done')
  BY Monotone DEF Events
<1>3. CASE log' = log
  BY <1>2, <1>3 DEF Events
<1>4. CASE \E e \in Event : log' = Append(log, e) /\ Truth(e, Done)
  <2>1. PICK e \in Event : log' = Append(log, e) /\ Truth(e, Done')
    BY <1>4, Monotone
  <2>2. \A i \in 1..Len(log') : Truth(log'[i], Done')
    BY <1>1, <1>2, <2>1, AppendKeeps
  <2> QED
    BY <2>2 DEF Events
<1> QED
  BY <1>3, <1>4 DEF LogStep

\* A step that leaves the rows alone, or a position, changes nothing they say.
LEMMA RowsKept ==
    ASSUME Rows, Done \subseteq Done', UNCHANGED << ledger, effects, execBy, outcome, cursor >>
    PROVE  Rows'
<1>1. \A s \in Tools : s \in Done' => s \in Done
  BY ToolDone, ToolDoneNext
<1>2. \A s \in Steps : Executed(s)' <=> Executed(s)
  BY DEF Executed
<1> QED
  BY <1>1, <1>2, StepFacts DEF Rows, UpTo

LEMMA SoundStep ==
    ASSUME TypeOK, Sound, LogStep, Done \subseteq Done', Rows',
           \A b \in Attempts : \/ pc'[b] = pc[b] /\ cur'[b] = cur[b]
                               \/ Position(pc'[b], cur'[b], Done')
    PROVE  Sound'
<1>1. Events'
  BY EventsStep DEF Sound
<1>2. ASSUME NEW b \in Attempts PROVE Position(pc'[b], cur'[b], Done')
  <2>1. Position(pc[b], cur[b], Done)
    BY DEF Sound, Positions
  <2>2. Position(pc[b], cur[b], Done')
    BY <2>1, Monotone
  <2> QED
    BY <2>2
<1> QED
  BY <1>1, <1>2 DEF Sound, Positions

\* Attempt a moves and only the stream may change with it.
LEMMA QuietStep ==
    ASSUME TypeOK, Sound, LogStep, NEW a \in Attempts,
           UNCHANGED << ledger, effects, execBy, outcome, cursor >>,
           \A b \in Attempts \ {a} : pc'[b] = pc[b] /\ cur'[b] = cur[b],
           Done \subseteq Done' => Position(pc'[a], cur'[a], Done')
    PROVE  Sound'
<1>1. Done \subseteq Done'
  BY DoneKeeps
<1>2. Rows'
  BY <1>1, RowsKept DEF Sound
<1> QED
  BY <1>1, <1>2, SoundStep

\* Only the stream changes, and no attempt moves.
LEMMA StillStep ==
    ASSUME TypeOK, Sound, LogStep,
           UNCHANGED << ledger, effects, execBy, outcome, cursor, cur >>,
           \A b \in Attempts : pc'[b] = pc[b]
    PROVE  Sound'
<1>1. Done \subseteq Done'
  BY DoneKeeps
<1>2. Rows'
  BY <1>1, RowsKept DEF Sound
<1> QED
  BY <1>1, <1>2, SoundStep
-----------------------------------------------------------------------------
(* Where an attempt goes on *)

\* Places at which an attempt relies on nothing.
Free(p) == p \notin AtStep \cup Loaded \cup JobDone

LEMMA FreePosition ==
    ASSUME NEW p, Free(p)
    PROVE  \A n, D : Position(p, n, D)
  BY DEF Free, Position, AtStep

LEMMA FreePlaces ==
    \A p \in {"selected", "load", "rebuild", "set_waiting", "set_failed", "forbidden",
              "error", "wrap_up", "set_pending", "requeue", "give_up", "set_given_up",
              "set_done", "set_stray", "stopped", "job_failed", "failed_finished"} : Free(p)
  BY DEF Free, AtStep, ToTool, Succeeded, StepDone, Loaded, JobDone

\* An append leaves its attempt with what it relied on before, and writes an
\* event that says no more than that.
LEMMA AppendPosition ==
    ASSUME NEW p \in AppendPoints, NEW n, NEW D, Position(p, n, D), NEW ok \in BOOLEAN
    PROVE  Position(After(p, ok), n, D)
<1>1. CASE Free(After(p, ok))
  BY <1>1, FreePosition
<1>2. CASE ~ Free(After(p, ok))
  <2>1. \/ p = "started" /\ After(p, ok) = "emitted"
        \/ p = "emitted" /\ After(p, ok) = "execute"
        \/ p = "finished" /\ After(p, ok) = "committed"
        \/ p = "committed" /\ After(p, ok) = "validate"
        \/ p = "catchup_finished" /\ After(p, ok) = "catchup_committed"
        \/ p = "catchup_committed" /\ After(p, ok) = "node_finished"
        \/ p = "node_finished" /\ After(p, ok) = "checkpoint"
        \/ p = "job_completed" /\ After(p, ok) = "set_completed"
    BY <1>2, PointTypes, FreePlaces DEF After, NextPoint, Checked
  <2> QED
    BY <2>1 DEF Position, AtStep, ToTool, Succeeded, StepDone, Loaded, JobDone
<1> QED
  BY <1>1, <1>2

LEMMA AppendTruth ==
    ASSUME NEW p \in AppendPoints, NEW n \in Nat, NEW D, Position(p, n, D),
           NEW e, e = [type |-> EventAt[p], step |-> IF p \in JobPoints THEN 0 ELSE n]
    PROVE  e \in Event /\ Truth(e, D)
<1>1. e \in Event
  BY PointTypes DEF Event
<1>2. /\ e.type = EventAt[p]
      /\ p \notin JobPoints => e.step = n
  OBVIOUS
<1>3. /\ EventAt[p] \in {"tool_invocation_finished", "command_committed"}
            => p \in Succeeded \ JobPoints
      /\ EventAt[p] = "node_finished" => p = "node_finished"
      /\ EventAt[p] = "job_waiting" => p = "job_waiting"
      /\ EventAt[p] # "wait_completed"
      /\ EventAt[p] = "job_completed" => p \in JobDone
      /\ {"node_finished", "job_waiting"} \cap JobPoints = {}
  BY PointTypes DEF EventAt, JobPoints, Succeeded, JobDone
<1> HIDE DEF EventAt
<1> QED
  BY <1>1, <1>2, <1>3 DEF Truth, Position, StepDone

LEMMA StatusPosition ==
    ASSUME NEW p \in StatusPoints, NEW n, NEW D, Position(p, n, D), NEW ok \in BOOLEAN
    PROVE  Position(AfterStatus(p, ok), n, D)
<1>1. \/ p = "set_running" /\ AfterStatus(p, ok) = "replay"
      \/ p = "set_completed" /\ AfterStatus(p, ok) = "completed"
      \/ Free(AfterStatus(p, ok))
  BY PointTypes, FreePlaces DEF AfterStatus
<1>2. CASE Free(AfterStatus(p, ok))
  BY <1>2, FreePosition
<1>3. CASE ~ Free(AfterStatus(p, ok))
  BY <1>1, <1>3 DEF Position, AtStep, ToTool, Succeeded, StepDone, Loaded, JobDone
<1> QED
  BY <1>2, <1>3

\* Every step the stream calls completed is done.
LEMMA StreamDone ==
    ASSUME Sound
    PROVE  /\ CompletedNodes(log) \subseteq Done
           /\ CompletedCommands(log) \subseteq Done
           /\ CompletedInvocations(log) \subseteq Done
<1>1. ASSUME NEW s \in Steps, NEW i \in 1..Len(log), log[i].step = s,
             log[i].type \in {"node_finished", "wait_completed", "command_committed",
                              "tool_invocation_finished"}
      PROVE  s \in Done
  <2>1. Truth(log[i], Done)
    BY DEF Sound, Events
  <2>2. CASE log[i].type = "wait_completed"
    <3>1. s \in Waits /\ Recorded(s, {"wait_completed"})
      BY <1>1, <2>1, <2>2 DEF Truth, Recorded
    <3> QED
      BY <3>1, StepFacts DEF Done
  <2>3. CASE log[i].type # "wait_completed"
    BY <1>1, <2>1, <2>3 DEF Truth
  <2> QED
    BY <2>2, <2>3
<1> QED
  BY <1>1 DEF CompletedNodes, CompletedCommands, CompletedInvocations, StepsWith

\* Deciding on the next step from steps that are done and a stream that says no
\* more than the job's own: every earlier step is done, and the step is passed
\* only if it is done itself.
LEMMA DecidePosition ==
    ASSUME Sound, TypeOK, NEW a \in Attempts, NEW m \in {"fresh", "replay", "cursor"},
           NEW done, NEW l, Decide(a, m, done, l), done \cap Steps \subseteq Done,
           CompletedCommands(l) \cup CompletedInvocations(l) \subseteq Done
    PROVE  Position(pc'[a], cur'[a], Done)
<1>1. a \in DOMAIN pc /\ a \in DOMAIN cur
  BY DEF TypeOK
<1>2. CASE Steps \subseteq done
  <2>1. pc'[a] = "job_completed" /\ Steps \subseteq Done
    BY <1>1, <1>2 DEF Decide, Goto
  <2> QED
    BY <2>1 DEF Position, AtStep, ToTool, Succeeded, StepDone, Loaded, JobDone
<1>3. CASE ~ (Steps \subseteq done)
  <2> DEFINE n == NextStep(done)
             q == IF m = "fresh" THEN RunStep(m, n, l) ELSE Advance(m, n, l)
  <2>1. n \in Steps /\ \A t \in Steps \ done : n <= t
    BY <1>3, NextStepType
  <2>2. cur'[a] = n /\ pc'[a] = q
    BY <1>1, <1>3 DEF Decide, Goto
  <2>3. /\ q \in {"get", "recover"} => n \in Tools
        /\ q = "node_finished" => n \in Done
        /\ q = "job_waiting" => n \in Waits
        /\ q \in {"get", "recover", "node_finished", "job_waiting", "forbidden"}
    <3>1. /\ Plan[n] = "wait" => n \in Waits
          /\ Plan[n] # "wait" => n \in Tools
      BY <2>1, StepFacts DEF Tools, Waits
    <3>2. Plan[n] = "wait" /\ Policy # "default" => n \in Done
      BY <2>1, <3>1, StepFacts DEF Done
    <3> HIDE DEF n
    <3> QED
      BY <3>1, <3>2 DEF RunStep, Advance
  <2> HIDE DEF n, q
  <2>4. Before(n) \subseteq Done
    <3> SUFFICES ASSUME NEW t \in Steps, t < n PROVE t \in Done
      BY DEF Before
    <3>1. t \in Nat /\ n \in Nat
      BY <2>1, StepFacts
    <3>2. t \in done
      BY <2>1, <3>1
    <3> QED
      BY <3>2
  <2>5. Position(q, n, Done)
    BY <2>3, <2>4, FreePlaces, FreePosition
       DEF Position, AtStep, ToTool, Succeeded, StepDone, Loaded, JobDone
  <2> QED
    BY <2>2, <2>5
<1> QED
  BY <1>2, <1>3
-----------------------------------------------------------------------------
(* The steps *)

\* Nobody's position changes: the lease, the clients, and messages.
LEMMA OutsideStep ==
    ASSUME TypeOK, Sound,
           \/ UNCHANGED vars \/ Expire \/ JobMessage
           \/ \E a \in Attempts : Heartbeat(a)
           \/ \E c \in Clients : SignalCheck(c) \/ SignalAppend(c) \/ SignalWake(c)
    PROVE  Sound'
<1>1. \A b \in Attempts : pc'[b] = pc[b]
  <2>1. \A c \in Clients : c \notin Attempts
    BY JobRunAssumption
  <2> QED
    BY <2>1 DEF vars, Expire, JobMessage, Heartbeat, SignalCheck, SignalAppend, SignalWake,
                Goto, TypeOK
<1>2. UNCHANGED << ledger, effects, execBy, outcome, cursor, cur >>
  BY DEF vars, Expire, JobMessage, Heartbeat, SignalCheck, SignalAppend, SignalWake,
         local, metadata, tools
<1>3. LogStep
  <2>1. CASE log' = log
    BY <2>1 DEF LogStep
  <2>2. CASE JobMessage
    <3> DEFINE e == [type |-> "agent_message", step |-> 0]
    <3>1. e \in Event /\ Truth(e, Done)
      BY DEF Event, EventTypes, Truth
    <3> QED
      BY <2>2, <3>1 DEF JobMessage, LogStep
  <2>3. ASSUME NEW c \in Clients, SignalAppend(c), log' # log PROVE LogStep
    <3> DEFINE e == [type |-> "wait_completed", step |-> WaitingStep(log)]
    <3>1. log' = Append(log, e) /\ \E i \in 1..Len(log) : log[i].type = "job_waiting"
      BY <2>3 DEF SignalAppend
    <3>2. PICK i \in 1..Len(log) : log[i].type = "job_waiting" /\ log[i].step = WaitingStep(log)
      BY <3>1, WaitingStepType DEF TypeOK
    <3>3. WaitingStep(log) \in Nat
      BY <3>1, WaitingStepType DEF TypeOK
    <3>4. WaitingStep(log) \in Waits
      BY <3>2 DEF Sound, Events, Truth
    <3>5. e \in Event /\ Truth(e, Done)
      BY <3>3, <3>4 DEF Event, EventTypes, Truth
    <3> QED
      BY <3>1, <3>5 DEF LogStep
  <2> QED
    BY <2>1, <2>2, <2>3 DEF vars, Expire, Heartbeat, SignalCheck, SignalWake
<1> QED
  BY <1>1, <1>2, <1>3, StillStep

\* The rows stay, the stream stays, and a moves to place p without changing its step.
LEMMA MoveStep ==
    ASSUME TypeOK, Sound, NEW a \in Attempts, NEW p, Goto(a, p),
           UNCHANGED << log, cur, ledger, effects, execBy, outcome, cursor >>,
           Position(p, cur[a], Done)
    PROVE  Sound'
<1>1. LogStep
  BY DEF LogStep
<1>2. pc'[a] = p /\ \A b \in Attempts \ {a} : pc'[b] = pc[b] /\ cur'[b] = cur[b]
  BY DEF Goto, TypeOK
<1>3. Done \subseteq Done' => Position(pc'[a], cur'[a], Done')
  BY <1>2, Monotone
<1> QED
  BY <1>1, <1>2, <1>3, QuietStep

LEMMA RunnerStep ==
    ASSUME TypeOK, Sound, NEW a \in Attempts,
           \/ ClaimSelect(a) \/ ClaimUpsert(a) \/ WorkerFailed(a) \/ WorkerCompleted(a)
           \/ WrapUp(a) \/ UpdateStatus(a)
    PROVE  Sound'
<1>1. UNCHANGED << log, cur, ledger, effects, execBy, outcome, cursor >>
  BY DEF ClaimSelect, ClaimUpsert, WorkerFailed, WorkerCompleted, WrapUp, UpdateStatus,
         local, metadata, tools
<1>2. Position(pc[a], cur[a], Done)
  BY DEF Sound, Positions
<1>3. CASE UpdateStatus(a)
  <2>1. PICK ok \in BOOLEAN : Goto(a, AfterStatus(pc[a], ok))
    BY <1>3 DEF UpdateStatus
  <2>2. Position(AfterStatus(pc[a], ok), cur[a], Done)
    BY <1>2, <1>3, StatusPosition DEF UpdateStatus
  <2> QED
    BY <1>1, <2>1, <2>2, MoveStep
<1>4. CASE WorkerCompleted(a)
  <2>1. \E p \in {"set_done", "complete"} : Goto(a, p)
    BY <1>4 DEF WorkerCompleted
  <2>2. Position("complete", cur[a], Done) /\ Position("set_done", cur[a], Done)
    BY <1>2, <1>4 DEF WorkerCompleted, Position, AtStep, ToTool, Succeeded, StepDone, Loaded, JobDone
  <2> QED
    BY <1>1, <2>1, <2>2, MoveStep
<1>5. CASE ClaimSelect(a) \/ ClaimUpsert(a) \/ WorkerFailed(a) \/ WrapUp(a)
  <2>1. PICK p \in {"selected", "load", "set_pending", "give_up", "set_given_up", "stopped",
                  "set_stray"} : Goto(a, p)
    BY <1>5 DEF ClaimSelect, ClaimUpsert, WorkerFailed, WrapUp
  <2>2. Position(p, cur[a], Done)
    BY FreePlaces, FreePosition
  <2> QED
    BY <1>1, <2>1, <2>2, MoveStep
<1> QED
  BY <1>3, <1>4, <1>5

\* Reading the checkpoint: the steps up to it are done.
LEMMA LoadStep ==
    ASSUME TypeOK, Sound, NEW a \in Attempts, Load(a)
    PROVE  Sound'
<1>1. /\ UNCHANGED << log, ledger, effects, execBy, outcome, cursor >>
      /\ pc'[a] = "set_running" /\ cur'[a] = cursor
      /\ \A b \in Attempts \ {a} : pc'[b] = pc[b] /\ cur'[b] = cur[b]
  BY DEF Load, Goto, TypeOK, metadata, tools
<1>2. Position("set_running", cursor, Done)
  BY DEF Sound, Rows, Position, AtStep, ToTool, Succeeded, StepDone, Loaded, JobDone
<1>3. LogStep
  BY <1>1 DEF LogStep
<1>4. Done \subseteq Done' => Position(pc'[a], cur'[a], Done')
  BY <1>1, <1>2, Monotone
<1> QED
  BY <1>1, <1>3, <1>4, QuietStep

LEMMA AppendStep ==
    ASSUME IInv, Sound, NEW a \in Attempts, AppendCheck(a) \/ AppendInsert(a)
    PROVE  Sound'
<1>1. TypeOK /\ Position(pc[a], cur[a], Done) /\ cur[a] \in Nat
  BY DEF IInv, TypeOK, Sound, Positions
<1>2. pc[a] \in AppendPoints
  BY DEF AppendCheck, AppendInsert, IInv, AppendsPending
<1>3. /\ UNCHANGED << ledger, effects, execBy, outcome, cursor, cur >>
      /\ \A b \in Attempts \ {a} : pc'[b] = pc[b] /\ cur'[b] = cur[b]
      /\ pc'[a] = pc[a] \/ \E ok \in BOOLEAN : pc'[a] = After(pc[a], ok)
  BY <1>1 DEF AppendCheck, AppendInsert, Goto, TypeOK, metadata, tools
<1>4. LogStep
  <2> DEFINE e == [type |-> EventAt[pc[a]], step |-> IF pc[a] \in JobPoints THEN 0 ELSE cur[a]]
  <2>1. e \in Event /\ Truth(e, Done)
    BY <1>1, <1>2, AppendTruth
  <2>2. log' = log \/ log' = Append(log, e)
    BY DEF AppendCheck, AppendInsert
  <2> QED
    BY <2>1, <2>2 DEF LogStep
<1>5. Position(pc'[a], cur'[a], Done)
  BY <1>1, <1>2, <1>3, AppendPosition
<1>6. Done \subseteq Done' => Position(pc'[a], cur'[a], Done')
  BY <1>5, Monotone
<1> QED
  BY <1>1, <1>3, <1>4, <1>6, QuietStep

\* Deciding from the stream, or from the checkpoint and the stream.
LEMMA ReplayStep ==
    ASSUME TypeOK, Sound, NEW a \in Attempts, Replay(a) \/ Rebuild(a) \/ ReplayCheckpoint(a)
    PROVE  Sound'
<1>1. UNCHANGED << log, ledger, effects, execBy, outcome, cursor >>
  BY DEF Replay, Rebuild, ReplayCheckpoint, metadata, tools
<1>2. RunnerMoves(a)
  BY ReplayMoves, CheckpointMoves
<1>3. \A b \in Attempts \ {a} : pc'[b] = pc[b] /\ cur'[b] = cur[b]
  BY <1>2 DEF RunnerMoves, Moves, TypeOK
<1>4. Position(pc'[a], cur'[a], Done)
  <2>1. CASE Blocked(a) \/ Goto(a, "set_failed")
    <3>1. pc'[a] \in {"set_waiting", "set_failed"}
      BY <2>1 DEF Blocked, Goto, TypeOK
    <3> QED
      BY <3>1, FreePlaces, FreePosition
  <2>2. CASE (Replay(a) \/ Rebuild(a)) /\ ~ Blocked(a)
    <3>1. \E m \in {"fresh", "replay", "cursor"} : Decide(a, m, CompletedNodes(log), log)
      BY <2>2 DEF Replay, Rebuild, TypeOK
    <3> QED
      BY <3>1, StreamDone, DecidePosition
  <2>3. CASE ReplayCheckpoint(a) /\ ~ Goto(a, "set_failed")
    <3>1. Decide(a, "cursor", 1..cur[a] \cup CompletedNodes(log), << >>)
      BY <2>3 DEF ReplayCheckpoint
    <3>2. UpTo(cur[a]) \subseteq Done
      BY <2>3 DEF ReplayCheckpoint, Sound, Positions, Position, Loaded
    <3>3. (1..cur[a]) \cap Steps \subseteq UpTo(cur[a])
      BY StepFacts DEF UpTo, TypeOK
    <3>4. (1..cur[a] \cup CompletedNodes(log)) \cap Steps \subseteq Done
      BY <3>2, <3>3, StreamDone
    <3>5. CompletedCommands(<< >>) \cup CompletedInvocations(<< >>) \subseteq Done
      BY DEF CompletedCommands, CompletedInvocations, StepsWith
    <3> QED
      BY <3>1, <3>4, <3>5, DecidePosition
  <2> QED
    BY <2>1, <2>2, <2>3
<1>5. LogStep /\ (Done \subseteq Done' => Position(pc'[a], cur'[a], Done'))
  BY <1>1, <1>4, Monotone DEF LogStep
<1> QED
  BY <1>1, <1>3, <1>5, QuietStep

LEMMA DoneSame ==
    ASSUME UNCHANGED << log, outcome >>
    PROVE  Done' = Done
  BY DEF Done, Recorded

\* Saving the checkpoint: its step and every earlier one are done.
LEMMA CheckpointStep ==
    ASSUME TypeOK, Sound, NEW a \in Attempts, Checkpoint(a)
    PROVE  Sound'
<1>1. UNCHANGED << log, ledger, effects, execBy, outcome >> /\ (cursor' = cursor \/ cursor' = cur[a])
  BY DEF Checkpoint, tools
<1>2. Done' = Done
  BY <1>1, DoneSame
<1>3. UpTo(cur[a]) \subseteq Done
  <2>1. cur[a] \in Done /\ Before(cur[a]) \subseteq Done
    BY DEF Checkpoint, Sound, Positions, Position, StepDone, AtStep
  <2>2. cur[a] \in Nat
    BY DEF TypeOK
  <2>3. ASSUME NEW n \in Nat, NEW t \in UpTo(n), t # n PROVE t \in Before(n)
    <3>1. t \in Steps /\ t \in Nat /\ t <= n
      BY StepFacts DEF UpTo
    <3>2. t < n
      BY <2>3, <3>1
    <3> QED
      BY <3>1, <3>2 DEF Before
  <2> QED
    BY <2>1, <2>2, <2>3
<1>4. Rows'
  <2>1. UpTo(cursor') \subseteq Done
    BY <1>1, <1>3 DEF Sound, Rows
  <2>2. \A s \in Steps : Executed(s)' <=> Executed(s)
    BY <1>1 DEF Executed
  <2> QED
    BY <1>1, <1>2, <2>1, <2>2, StepFacts DEF Sound, Rows, UpTo
<1>5. \A b \in Attempts \ {a} : pc'[b] = pc[b] /\ cur'[b] = cur[b]
  BY CheckpointMoves DEF RunnerMoves, Moves, TypeOK
<1>6. Position(pc'[a], cur'[a], Done)
  <2>1. CASE \E p \in {"set_failed", "rebuild"} : Goto(a, p)
    <3>1. pc'[a] \in {"set_failed", "rebuild"}
      BY <2>1 DEF Goto, TypeOK
    <3> QED
      BY <3>1, FreePlaces, FreePosition
  <2>2. CASE Decide(a, "fresh", 1..cur[a], << >>)
    <3>1. (1..cur[a]) \cap Steps \subseteq Done
      BY <1>3, StepFacts DEF UpTo, TypeOK
    <3>2. CompletedCommands(<< >>) \cup CompletedInvocations(<< >>) \subseteq Done
      BY DEF CompletedCommands, CompletedInvocations, StepsWith
    <3> QED
      BY <2>2, <3>1, <3>2, DecidePosition
  <2> QED
    BY <2>1, <2>2 DEF Checkpoint
<1> QED
  BY <1>1, <1>2, <1>4, <1>5, <1>6, SoundStep DEF LogStep

\* A row is committed, or an effect stored, only where the tool has succeeded.
LEMMA RowStep ==
    ASSUME TypeOK, Sound, NEW a \in Attempts, NEW p, Goto(a, p),
           UNCHANGED << log, cur, execBy, outcome, cursor >>,
           Position(p, cur[a], Done),
           \A s \in Tools : (ledger'[s] = "committed" \/ effects'[s]) => s \in Done
    PROVE  Sound'
<1>1. Done' = Done
  BY DoneSame
<1>2. Rows'
  <2>1. \A s \in Steps : Executed(s)' <=> Executed(s)
    BY DEF Executed
  <2> QED
    BY <1>1, <2>1, StepFacts DEF Sound, Rows, UpTo
<1>3. pc'[a] = p /\ \A b \in Attempts \ {a} : pc'[b] = pc[b]
  BY DEF Goto, TypeOK
<1> QED
  BY <1>1, <1>2, <1>3, SoundStep DEF LogStep

LEMMA AdapterStep ==
    ASSUME TypeOK, Sound, NEW a \in Attempts,
           \/ LedgerGet(a) \/ SetStarted(a) \/ PutEffect(a) \/ ValidateAttempt(a)
           \/ SetFinished(a) \/ Recover(a)
    PROVE  Sound'
<1>1. /\ Position(pc[a], cur[a], Done)
      /\ pc[a] \in {"get", "set_started", "effect", "validate", "set_finished", "recover"}
  BY DEF Sound, Positions, LedgerGet, SetStarted, PutEffect, ValidateAttempt, SetFinished, Recover
<1>2. /\ cur[a] \in Tools /\ Before(cur[a]) \subseteq Done
      /\ pc[a] \in {"effect", "validate", "set_finished"} => cur[a] \in Done
  BY <1>1 DEF Position, AtStep, ToTool, Succeeded
<1>3. UNCHANGED << log, cur, execBy, outcome, cursor >>
  BY DEF LedgerGet, SetStarted, PutEffect, ValidateAttempt, SetFinished, Recover,
         local, metadata, tools
<1>4. /\ ledger \in [Steps -> {"none", "started", "committed"}]
      /\ effects \in [Steps -> BOOLEAN]
      /\ \A s \in Tools : ledger[s] = "committed" \/ effects[s] => s \in Done
      /\ cur[a] \in Steps
  BY <1>2, StepFacts DEF TypeOK, Sound, Rows
<1>5. \A s \in Tools : (ledger'[s] = "committed" \/ effects'[s]) => s \in Done
  <2>1. CASE LedgerGet(a) \/ ValidateAttempt(a) \/ Recover(a)
    BY <1>4, <2>1 DEF LedgerGet, ValidateAttempt, Recover, tools
  <2>2. CASE SetStarted(a)
    BY <1>4, <2>2, StepFacts DEF SetStarted
  <2>3. CASE PutEffect(a)
    BY <1>2, <1>4, <2>3, StepFacts DEF PutEffect
  <2>4. CASE SetFinished(a)
    BY <1>2, <1>4, <2>4, StepFacts DEF SetFinished
  <2> QED
    BY <2>1, <2>2, <2>3, <2>4
<1>6. PICK p : /\ Goto(a, p)
               /\ \/ p = "job_failed"
                  \/ p \in {"set_started", "started"}
                  \/ p \in {"node_finished", "finished", "set_finished", "catchup_finished"}
                     /\ cur[a] \in Done
  <2>1. CASE LedgerGet(a)
    BY <1>2, <1>4, <2>1 DEF LedgerGet
  <2>2. CASE SetStarted(a)
    BY <2>2 DEF SetStarted
  <2>3. CASE PutEffect(a)
    BY <1>2, <2>3 DEF PutEffect
  <2>4. CASE ValidateAttempt(a) \/ SetFinished(a)
    BY <1>2, <2>4 DEF ValidateAttempt, SetFinished
  <2>5. CASE Recover(a)
    BY <1>2, <1>4, <2>5 DEF Recover
  <2> QED
    BY <2>1, <2>2, <2>3, <2>4, <2>5
<1>7. Position(p, cur[a], Done)
  BY <1>2, <1>6 DEF Position, AtStep, ToTool, Succeeded, StepDone, Loaded, JobDone
<1> QED
  BY <1>3, <1>5, <1>6, <1>7, RowStep

\* The call of a tool: it was not called before, so it was not done, and the
\* steps before it are.
LEMMA CallStep ==
    ASSUME IInv, Sound, NEW a \in Attempts, Execute(a)
    PROVE  Sound'
<1>1. TypeOK /\ pc[a] = "execute" /\ Position("execute", cur[a], Done)
  BY DEF IInv, Execute, Sound, Positions
<1>2. cur[a] \in Tools /\ cur[a] \in Steps /\ Before(cur[a]) \subseteq Done
  BY <1>1, StepFacts DEF Position, AtStep, ToTool
<1> DEFINE c == cur[a]
<1>3. execBy[c] = << >>
  BY <1>1, <1>2 DEF IInv, FencedNotCalled, Fenced
<1>4. c \notin Done
  BY <1>2, <1>3 DEF Sound, Rows, Executed
<1>5. PICK o \in {"ok", "error"} :
         /\ outcome' = [outcome EXCEPT ![c] = o]
         /\ Goto(a, IF o = "ok" THEN "effect" ELSE "failed_finished")
  BY DEF Execute
<1>6. /\ UNCHANGED << log, cur, cursor, ledger, effects >>
      /\ execBy' = [execBy EXCEPT ![c] = Append(@, a)]
  BY DEF Execute, local, metadata
<1>7. outcome \in [Steps -> {"none", "ok", "error"}] /\ execBy \in [Steps -> Seq(Attempts)]
  BY <1>1 DEF TypeOK
<1> HIDE DEF c
<1>8. LogStep
  BY <1>6 DEF LogStep
<1>9. \A s \in Tools : outcome[s] = "ok" => s # c
  BY <1>2, <1>4, ToolDone DEF c
<1>10. Done \subseteq Done'
  <2>1. \A s \in Tools : outcome[s] = "ok" => outcome'[s] = "ok"
    BY <1>5, <1>7, <1>9, StepFacts
  <2> QED
    BY <1>1, <1>8, <2>1, DoneKeeps
<1>11. \A s \in Tools : s \in Done' => s \in Done \/ s = c
  BY <1>5, <1>7, ToolDone, ToolDoneNext, StepFacts
<1>12. execBy'[c] # << >> /\ \A s \in Steps : s # c => execBy'[s] = execBy[s]
  <2>1. execBy'[c] = Append(execBy[c], a) /\ execBy[c] \in Seq(Attempts)
    BY <1>2, <1>6, <1>7 DEF c
  <2>2. ASSUME NEW q \in Seq(Attempts) PROVE Append(q, a) # << >>
    <3>1. Len(Append(q, a)) = Len(q) + 1 /\ Len(q) \in Nat /\ Len(<< >>) = 0
      OBVIOUS
    <3> QED
      BY <3>1
  <2> QED
    BY <1>6, <1>7, <2>1, <2>2
<1>13. Rows'
  <2>1. \A s \in Tools : s \in Done' => Executed(s)'
    BY <1>11, <1>12, StepFacts DEF Sound, Rows, Executed
  <2>2. \A s \in Steps : Executed(s)' => Before(s) \subseteq Done'
    BY <1>2, <1>10, <1>12 DEF Sound, Rows, Executed, c
  <2> QED
    BY <1>6, <1>10, <2>1, <2>2 DEF Sound, Rows, UpTo
<1>14. /\ \A b \in Attempts \ {a} : pc'[b] = pc[b] /\ cur'[b] = cur[b]
       /\ cur'[a] = c
       /\ pc'[a] = IF o = "ok" THEN "effect" ELSE "failed_finished"
  BY <1>1, <1>5, <1>6 DEF Goto, TypeOK, c
<1>15. Position(pc'[a], cur'[a], Done')
  <2>1. CASE o = "ok"
    <3>1. outcome'[c] = "ok"
      BY <1>2, <1>5, <1>7, <2>1 DEF c
    <3>2. c \in Done'
      BY <1>2, <3>1, ToolDoneNext DEF c
    <3>3. c \in Tools /\ Before(c) \subseteq Done'
      BY <1>2, <1>10 DEF c
    <3> QED
      BY <1>14, <2>1, <3>2, <3>3
         DEF Position, AtStep, ToTool, Succeeded, StepDone, Loaded, JobDone
  <2>2. CASE o # "ok"
    BY <1>14, <2>2, FreePlaces, FreePosition
  <2> QED
    BY <2>1, <2>2
<1> QED
  BY <1>1, <1>8, <1>10, <1>13, <1>14, <1>15, SoundStep
-----------------------------------------------------------------------------
LEMMA InitSound == Init => Sound
<1> SUFFICES ASSUME Init PROVE Sound
  OBVIOUS
<1>1. Events
  <2>1. Len(log) = 1 /\ log[1] = [type |-> "plan_generated", step |-> 0]
    BY DEF Init
  <2>2. \A i \in 1..Len(log) : log[i].type = "plan_generated"
    BY <2>1
  <2> QED
    BY <2>2 DEF Events, Truth
<1>2. Rows
  <2>1. \A s \in Steps : ledger[s] = "none" /\ effects[s] = FALSE /\ ~ Executed(s)
    BY DEF Init, Executed
  <2>2. \A s \in Tools : s \notin Done
    BY StepFacts, ToolDone DEF Init
  <2>3. UpTo(cursor) = {}
    <3>1. \A t \in Steps : ~ (t <= 0)
      BY JobRunAssumption DEF Steps
    <3> QED
      BY <3>1 DEF UpTo, Init
  <2> QED
    BY <2>1, <2>2, <2>3, StepFacts DEF Rows
<1>3. Positions
  <2>1. \A a \in Attempts : pc[a] = "unclaimed"
    BY DEF Init
  <2>2. Free("unclaimed")
    BY DEF Free, AtStep, ToTool, Succeeded, StepDone, Loaded, JobDone
  <2> QED
    BY <2>1, <2>2, FreePosition DEF Positions
<1> QED
  BY <1>1, <1>2, <1>3 DEF Sound

LEMMA NextSound == IInv /\ Sound /\ [Next]_vars => Sound'
<1> SUFFICES ASSUME IInv, Sound, [Next]_vars PROVE Sound'
  OBVIOUS
<1>1. TypeOK
  BY DEF IInv
<1> QED
  BY <1>1, OutsideStep, RunnerStep, LoadStep, AppendStep, ReplayStep, CheckpointStep,
     AdapterStep, CallStep DEF Next

LEMMA AlwaysSound == Spec => []Sound
  BY InitInv, NextInv, InitSound, NextSound, PTL DEF Spec

\* What the ledger, the effect store and the stream say of a tool is true for
\* every plan, policy and number of attempts: a stale attempt writes late, and
\* never about a call that did not succeed.
THEOREM RecordsAreReal == Spec => []RecordedIsReal
<1>1. Sound => RecordedIsReal
  <2> SUFFICES ASSUME Sound, NEW s \in Tools,
                      \/ ledger[s] = "committed"
                      \/ effects[s]
                      \/ Recorded(s, {"tool_invocation_finished", "command_committed", "node_finished"})
               PROVE  outcome[s] = "ok"
    BY DEF RecordedIsReal
  <2>1. s \in Done
    BY DEF Sound, Rows, Events, Recorded, Truth
  <2> QED
    BY <2>1, ToolDone
<1> QED
  BY <1>1, AlwaysSound, PTL

\* A tool is called only after every earlier tool succeeded, whatever an attempt
\* decided the next step from: the stream, a checkpoint, or its own position.
THEOREM CallsInOrder == Spec => []InOrder
<1>1. Sound => InOrder
  <2> SUFFICES ASSUME Sound, NEW s \in Tools, NEW t \in Tools, s < t, Executed(t)
               PROVE  outcome[s] = "ok"
    BY DEF InOrder
  <2>1. s \in Before(t) /\ Before(t) \subseteq Done
    BY StepFacts DEF Sound, Rows, Before
  <2> QED
    BY <2>1, ToolDone
<1> QED
  BY <1>1, AlwaysSound, PTL

\* The checkpoint, which any attempt may overwrite without a lease, never runs
\* ahead of the tools.
THEOREM CheckpointBehind == Spec => []CursorBehind
<1>1. Sound => CursorBehind
  BY StepFacts, ToolDone DEF Sound, Rows, UpTo, CursorBehind
<1> QED
  BY <1>1, AlwaysSound, PTL

\* job_completed is in the stream only when every tool succeeded and every wait
\* was answered.  Without a replay policy this takes a plan without waits: there
\* a resumed attempt runs a wait node that nobody answered like any other node.
THEOREM CompletedIsDone ==
    ASSUME Policy = "default" \/ Waits = {}
    PROVE  Spec => []CompletedMeansDone
<1>1. Sound => CompletedMeansDone
  <2> SUFFICES ASSUME Sound, Recorded(0, {"job_completed"})
               PROVE  /\ \A s \in Tools : outcome[s] = "ok"
                      /\ \A w \in Waits : Recorded(w, {"wait_completed"})
    BY DEF CompletedMeansDone
  <2>1. Steps \subseteq Done
    BY DEF Sound, Events, Recorded, Truth
  <2>2. \A s \in Tools : outcome[s] = "ok"
    BY <2>1, StepFacts, ToolDone
  <2>3. \A w \in Waits : Recorded(w, {"wait_completed"})
    BY <2>1, StepFacts DEF Done
  <2> QED
    BY <2>2, <2>3
<1> QED
  BY <1>1, AlwaysSound, PTL
====
