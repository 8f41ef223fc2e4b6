----------------------------- MODULE ParallelRun -----------------------------
(***************************************************************************)
(* RunForJob on a plan that is a graph: the topological order and the      *)
(* levels of the plan, the run loop with the steps of a level in parallel  *)
(* (MaxParallelSteps > 0), the checkpoint after a level, and attempts that *)
(* resume from it or from the stream.                                      *)
(*                                                                         *)
(* Attempts follow one another here; JobRun has attempts that overlap, and *)
(* the steps within one tool call.  A call is one step with its events,    *)
(* each of which may be missing afterwards: its append failed, or the      *)
(* attempt crashed before it, which is the same to the next attempt, the   *)
(* first to read the stream again.  A payload is the set of nodes whose    *)
(* results it holds.                                                       *)
(***************************************************************************)
EXTENDS Naturals, Sequences, SequencesExt, FiniteSets, FiniteSetsExt

CONSTANTS N,            \* number of nodes
          Plans,        \* the plans: edges, wait nodes
          MaxAttempts   \* attempts of the job, crashed ones included

\* Nodes are numbered in the order of their IDs.
Nodes == 1..N

ASSUME ParallelRunAssumption ==
    /\ N \in Nat \ {0}
    /\ MaxAttempts \in Nat
    /\ \A p \in Plans : p.edges \subseteq Nodes \X Nodes /\ p.waits \subseteq Nodes

VARIABLES
    plan,       \* the plan
    parallel,   \* MaxParallelSteps > 0
    policy,     \* a replay policy is set
    finished,   \* nodes with a successful node_finished, or a wait_completed
    payload,    \* the payload of the last of these node_finished
    committed,  \* nodes whose result is in a command_committed or a wait_completed
    begun,      \* nodes with a tool invocation that started and did not fail
    cursor,     \* the checkpoint: its node, 0 without one, and its payload
    job,        \* what the end of the stream makes of the job
    awaits,     \* the node a waiting job waits at
    run,        \* the current attempt
    attempts,   \* attempts so far
    calls,      \* history: calls[n] is how often the tool of n was called
    succeeded   \* history: nodes whose tool gave a result to a step

config == << plan, parallel, policy >>
stream == << finished, payload, committed, begun, job, awaits >>
history == << calls, succeeded >>
vars == << config, stream, cursor, run, attempts, history >>

NoRun == [at |-> "idle", mode |-> "loop", done |-> {}, results |-> {}, commands |-> {},
          ok |-> {}, bad |-> {}, left |-> {}]

-----------------------------------------------------------------------------
(* The plan: TopoOrder and LevelGroups *)

Preds(p, n) == {m \in Nodes : << m, n >> \in p.edges}

\* The nodes whose predecessors have all been listed.
Ready(p, seen) == {n \in Nodes \ seen : Preds(p, n) \subseteq seen}

\* The queue of Kahn's algorithm is sorted after every node, so the next node is
\* always the smallest one without open predecessors.
TopoOrder(p) ==
    LET rest[seen \in SUBSET Nodes] ==
            LET ready == Ready(p, seen) IN
            IF ready = {} THEN << >> ELSE << Min(ready) >> \o rest[seen \cup {Min(ready)}]
    IN  rest[{}]

\* A plan with a cycle does not compile.
Compiles(p) == Len(TopoOrder(p)) = N

Position(p, n) == LET order == TopoOrder(p) IN CHOOSE i \in 1..N : order[i] = n

\* Mutant of LevelOf: the shortest path decides.
LevelOfShortest(p) ==
    LET level[n \in Nodes] ==
            IF Preds(p, n) = {} THEN 0 ELSE 1 + Min({level[m] : m \in Preds(p, n)})
    IN  level

\* The level of each node: one more than the highest of its predecessors.
LevelOf(p) ==
    LET level[n \in Nodes] ==
            IF Preds(p, n) = {} THEN 0 ELSE 1 + Max({level[m] : m \in Preds(p, n)})
    IN  level

\* The first step in topological order that is not done.
NextStep(done) ==
    LET i == Min({k \in 1..N : TopoOrder(plan)[k] \notin done}) IN TopoOrder(plan)[i]

\* The steps to run next: what is left of the lowest level, or the next step.
NextRunnableBatch(done) ==
    IF done = Nodes THEN {}
    ELSE IF ~parallel THEN {NextStep(done)}
    ELSE LET lowest == Min({LevelOf(plan)[n] : n \in Nodes \ done})
         IN  {n \in Nodes \ done : LevelOf(plan)[n] = lowest}

-----------------------------------------------------------------------------
(* Starting and ending an attempt *)

Goto(at) == run' = [run EXCEPT !.at = at]

\* Mutant of Prefix: one step beyond the checkpoint counts as done.
PrefixAhead(n) == {TopoOrder(plan)[i] : i \in 1..Min({N, Position(plan, n) + 1})}

\* The steps a checkpoint at node n stands for.
Prefix(n) == {TopoOrder(plan)[i] : i \in 1..Position(plan, n)}

\* Something of the job's steps is in the stream: a result, a finished node, or a
\* tool invocation that is pending or completed.
HasReplayProgress == finished \cup committed \cup begun # {}

\* With a checkpoint every step up to its node counts as done, besides the ones
\* the stream names, also when the job waits; without one a waiting job stays as
\* it is; with progress in the stream it is replayed; the run loop is for a job of
\* which nothing is recorded.
Start ==
    /\ run.at = "idle"
    /\ job = "pending" \/ (job = "waiting" /\ cursor.node # 0)
    /\ attempts < MaxAttempts
    /\ attempts' = attempts + 1
    /\ run' = IF ~Compiles(plan) THEN [NoRun EXCEPT !.at = "error"]
              ELSE IF cursor.node # 0
              THEN [NoRun EXCEPT !.at = "next", !.mode = "advance", !.results = cursor.results,
                                 !.done = finished \cup Prefix(cursor.node)]
              ELSE IF HasReplayProgress
              THEN [NoRun EXCEPT !.at = "next", !.mode = "advance", !.results = payload,
                                 !.done = finished, !.commands = committed]
              ELSE [NoRun EXCEPT !.at = "next"]
    /\ UNCHANGED << config, stream, cursor, history >>

\* job_completed; the worker adds no second one.
Complete ==
    /\ run.at = "next"
    /\ run.done = Nodes
    /\ job' = "completed"
    /\ awaits' = 0
    /\ run' = NoRun
    /\ UNCHANGED << config, finished, payload, committed, begun, cursor, attempts, history >>

\* runJob: job_requeued while there are attempts left, job_failed otherwise.
RunJobError ==
    /\ run.at = "error"
    /\ job' = IF attempts < MaxAttempts THEN "pending" ELSE "failed"
    /\ awaits' = 0
    /\ run' = NoRun
    /\ UNCHANGED << config, finished, payload, committed, begun, cursor, attempts, history >>

Crash ==
    /\ run.at # "idle"
    /\ run' = NoRun
    /\ UNCHANGED << config, stream, cursor, attempts, history >>

\* Mutant of Signal: the wait is left open.
SignalOpen ==
    /\ job = "waiting"
    /\ run.at = "idle"
    /\ job' = "pending"
    /\ finished' = finished \cup {awaits}
    /\ committed' = committed \cup {awaits}
    /\ UNCHANGED << config, payload, begun, awaits, cursor, run, attempts, history >>

\* A signal writes wait_completed, which counts as the node's result.
Signal ==
    /\ job = "waiting"
    /\ run.at = "idle"
    /\ job' = "pending"
    /\ awaits' = 0
    /\ finished' = finished \cup {awaits}
    /\ committed' = committed \cup {awaits}
    /\ UNCHANGED << config, payload, begun, cursor, run, attempts, history >>

-----------------------------------------------------------------------------
(* One step: Advance, and the run loop for a batch of one *)

\* The step that is due.
Due ==
    IF run.mode = "advance" THEN NextStep(run.done) ELSE Min(NextRunnableBatch(run.done))

Sequential ==
    /\ run.at = "next"
    /\ run.done # Nodes
    /\ run.mode = "loop" => ~(/\ Cardinality(NextRunnableBatch(run.done)) > 1
                              /\ NextRunnableBatch(run.done) \cap plan.waits = {})

\* A recorded result is injected.
Inject ==
    /\ Sequential
    /\ Due \in run.commands
    /\ run' = [run EXCEPT !.at = "finish", !.ok = {Due}, !.left = {Due}, !.results = run.results \cup {Due}]
    /\ UNCHANGED << config, stream, cursor, attempts, history >>

\* Under a replay policy a resumed attempt runs nothing that is not recorded.
Refuse ==
    /\ Sequential
    /\ run.mode = "advance" /\ policy
    /\ Due \notin run.commands
    /\ Goto("error")
    /\ UNCHANGED << config, stream, cursor, attempts, history >>

MayRun == run.mode = "loop" \/ (~policy /\ Due \notin run.commands)

\* The run loop stops at a wait node.
Wait ==
    /\ Sequential
    /\ run.mode = "loop"
    /\ Due \in plan.waits
    /\ job' = "waiting"
    /\ awaits' = Due
    /\ run' = NoRun
    /\ UNCHANGED << config, finished, payload, committed, begun, cursor, attempts, history >>

\* Advance runs it: the runner of a wait node does nothing and succeeds.
PassWait ==
    /\ Sequential
    /\ run.mode = "advance" /\ MayRun
    /\ Due \in plan.waits
    /\ run' = [run EXCEPT !.at = "finish", !.ok = {Due}, !.left = {Due}]
    /\ UNCHANGED << config, stream, cursor, attempts, history >>

\* A step of node n succeeds: its tool was called and gave a result, or the adapter
\* had the result of an earlier call from one of its stores.  Whether a call that was
\* begun before is answered, refused or made again is the subject of JobRun: all of
\* it may happen here.  The events of the call may be in the stream or lost.
StepSucceeds(n) ==
    /\ \/ calls' = [calls EXCEPT ![n] = @ + 1] /\ succeeded' = succeeded \cup {n}
       \/ n \in succeeded /\ UNCHANGED history
    /\ committed' \in {committed, committed \cup {n}}
    /\ begun' \in {begun, begun \cup {n}}

\* It fails, before the call or after it; a recorded failure ends the invocation.
StepFails(n) ==
    /\ calls' \in {calls, [calls EXCEPT ![n] = @ + 1]}
    /\ begun' \in {begun, begun \cup {n}, begun \ {n}}
    /\ UNCHANGED << committed, succeeded >>

\* A failed step makes the job failed before the worker looks at it.
RunStep ==
    /\ Sequential /\ MayRun
    /\ Due \notin plan.waits
    /\ \/ /\ StepSucceeds(Due)
          /\ run' = [run EXCEPT !.at = "finish", !.ok = {Due}, !.left = {Due},
                                !.results = run.results \cup {Due}]
       \/ StepFails(Due) /\ Goto("step_failed")
    /\ UNCHANGED << config, finished, payload, job, awaits, cursor, attempts >>

WriteTerminalFailed ==
    /\ run.at = "step_failed"
    /\ job' = "failed"
    /\ awaits' = 0
    /\ Goto("error")
    /\ UNCHANGED << config, finished, payload, committed, begun, cursor, attempts, history >>

-----------------------------------------------------------------------------
(* runParallelLevel *)

LevelStart ==
    /\ run.at = "next"
    /\ run.mode = "loop"
    /\ ~Sequential
    /\ run.done # Nodes
    /\ run' = [run EXCEPT !.at = "level", !.left = NextRunnableBatch(run.done)]
    /\ UNCHANGED << config, stream, cursor, attempts, history >>

\* A goroutine ends; each has its own copy of the payload.
LevelStep(n) ==
    /\ run.at = "level"
    /\ n \in run.left
    /\ \/ /\ StepSucceeds(n)
          /\ run' = [run EXCEPT !.left = run.left \ {n}, !.ok = run.ok \cup {n}]
       \/ /\ StepFails(n)
          /\ run' = [run EXCEPT !.left = run.left \ {n}, !.bad = run.bad \cup {n}]
    /\ UNCHANGED << config, finished, payload, job, awaits, cursor, attempts >>

\* Mutant of LevelJoin: the results of the level are not merged.
LevelJoinUnmerged ==
    /\ run.at = "level"
    /\ run.left = {}
    /\ run' = IF run.bad = {} THEN [run EXCEPT !.at = "finish", !.left = run.ok]
              ELSE [run EXCEPT !.at = "siblings", !.left = run.ok]
    /\ UNCHANGED << config, stream, cursor, attempts, history >>

\* Mutant of LevelJoin: the failed steps are recorded with their siblings.
LevelJoinAll ==
    /\ run.at = "level"
    /\ run.left = {}
    /\ run' = IF run.bad = {}
              THEN [run EXCEPT !.at = "finish", !.left = run.ok, !.results = run.results \cup run.ok]
              ELSE [run EXCEPT !.at = "siblings", !.left = run.ok \cup run.bad]
    /\ UNCHANGED << config, stream, cursor, attempts, history >>

\* All have ended: the results are merged, or the ones of the successful
\* siblings are recorded and the level fails.
LevelJoin ==
    /\ run.at = "level"
    /\ run.left = {}
    /\ run' = IF run.bad = {}
              THEN [run EXCEPT !.at = "finish", !.left = run.ok, !.results = run.results \cup run.ok]
              ELSE [run EXCEPT !.at = "siblings", !.left = run.ok]
    /\ UNCHANGED << config, stream, cursor, attempts, history >>

\* node_finished of a sibling, with its own copy of the payload, in the order in
\* which the siblings ended.
SiblingFinished(n) ==
    /\ run.at = "siblings"
    /\ n \in run.left
    /\ finished' = finished \cup {n}
    /\ payload' = run.results \cup {n}
    /\ run' = [run EXCEPT !.left = run.left \ {n}]
    /\ UNCHANGED << config, committed, begun, job, awaits, cursor, attempts, history >>

\* No job_failed: the worker decides.
LevelFailed ==
    /\ run.at = "siblings"
    /\ run.left = {}
    /\ Goto("error")
    /\ UNCHANGED << config, stream, cursor, attempts, history >>

-----------------------------------------------------------------------------
(* The events and the checkpoint of a step or of a level *)

\* node_finished, in the order of the nodes, with the whole payload.
NodeFinished ==
    LET n == Min(run.left)
        left == run.left \ {n} IN
    /\ run.at = "finish"
    /\ finished' = finished \cup {n}
    /\ payload' = run.results
    /\ run' = [run EXCEPT !.at = IF left = {} THEN "checkpoint" ELSE "finish",
                          !.left = left, !.done = run.done \cup {n}]
    /\ UNCHANGED << config, committed, begun, job, awaits, cursor, attempts, history >>

\* The checkpoint names the step of the highest index; Advance then rebuilds its
\* state from the stream.
Checkpoint ==
    LET level == run.ok
        last == Max({Position(plan, n) : n \in level}) IN
    /\ run.at = "checkpoint"
    /\ cursor' = [node |-> TopoOrder(plan)[last], results |-> run.results]
    /\ run' = IF run.mode = "advance"
              THEN [NoRun EXCEPT !.at = "next", !.mode = "advance", !.done = finished,
                                 !.results = payload, !.commands = committed]
              ELSE [run EXCEPT !.at = "next", !.ok = {}]
    /\ UNCHANGED << config, stream, attempts, history >>

-----------------------------------------------------------------------------

Init ==
    /\ plan \in Plans
    /\ parallel \in BOOLEAN
    /\ policy \in BOOLEAN
    /\ finished = {}
    /\ payload = {}
    /\ committed = {}
    /\ begun = {}
    /\ cursor = [node |-> 0, results |-> {}]
    /\ job = "pending"
    /\ awaits = 0
    /\ run = NoRun
    /\ attempts = 0
    /\ calls = [n \in Nodes |-> 0]
    /\ succeeded = {}

Next ==
    \/ Start \/ Complete \/ RunJobError \/ Crash \/ Signal
    \/ Inject \/ Refuse \/ Wait \/ PassWait \/ RunStep \/ WriteTerminalFailed
    \/ LevelStart \/ LevelJoin \/ LevelFailed
    \/ \E n \in Nodes : LevelStep(n) \/ SiblingFinished(n)
    \/ NodeFinished \/ Checkpoint

Spec == Init /\ [][Next]_vars

-----------------------------------------------------------------------------
(* Properties *)

\* Types of the stream, the checkpoint and the attempt.
TypeOK ==
    /\ plan \in Plans
    /\ parallel \in BOOLEAN /\ policy \in BOOLEAN
    /\ finished \subseteq Nodes /\ payload \subseteq Nodes
    /\ committed \subseteq Nodes /\ begun \subseteq Nodes
    /\ cursor \in [node : 0..N, results : SUBSET Nodes]
    /\ job \in {"pending", "waiting", "completed", "failed"}
    /\ awaits \in 0..N /\ (awaits # 0 <=> job = "waiting")
    /\ run \in [at : {"idle", "next", "level", "siblings", "finish", "checkpoint", "step_failed", "error"},
                mode : {"loop", "advance"}, done : SUBSET Nodes, results : SUBSET Nodes,
                commands : SUBSET Nodes, ok : SUBSET Nodes, bad : SUBSET Nodes, left : SUBSET Nodes]
    /\ attempts \in 0..MaxAttempts
    /\ calls \in [Nodes -> Nat] /\ succeeded \subseteq Nodes

\* TopoOrder and LevelGroups against their definition: the order is complete
\* exactly for plans without a cycle and then respects every edge; a level is the
\* length of the longest path to it.
PlanSound ==
    LET cyclic == \E S \in (SUBSET Nodes) \ {{}} : \A n \in S : Preds(plan, n) \cap S # {}
        order == TopoOrder(plan)
        level == LevelOf(plan) IN
    /\ Len(order) = N <=> ~cyclic
    /\ Len(order) = N =>
          /\ ToSet(order) = Nodes
          /\ \A e \in plan.edges :
                /\ \E i, j \in 1..N : i < j /\ order[i] = e[1] /\ order[j] = e[2]
                /\ level[e[1]] < level[e[2]]
          /\ \A n \in Nodes : level[n] > 0 => \E m \in Preds(plan, n) : level[m] + 1 = level[n]

\* A tool is called only with the results of all the steps it depends on, in
\* sequence and in parallel levels, as long as a replay policy keeps resumed
\* attempts from running steps.
InputsFirst ==
    [][policy => \A n \in Nodes : calls'[n] # calls[n] => Preds(plan, n) \subseteq run.results]_vars

\* The topological order lists the levels one after the other.
Aligned ==
    \A m, n \in Nodes :
        Position(plan, m) < Position(plan, n) => LevelOf(plan)[m] <= LevelOf(plan)[n]

\* A completed job has finished all its steps.  The checkpoint of a parallel level
\* names the step of the highest index and stands for every step before it, which
\* is right only where the topological order lists levels one after the other.
CompletedRanAll == (job = "completed" /\ (~parallel \/ Aligned)) => finished = Nodes

\* What is recorded as finished happened: no failed sibling of a parallel level and
\* no step that a checkpoint stands for is reported as done without its tool ever
\* having succeeded, and under a replay policy no wait without its signal.
FinishedIsReal ==
    \A n \in finished :
        IF n \in plan.waits THEN policy => n \in committed ELSE n \in succeeded
=============================================================================
