---------------------------- MODULE JobRunProofs ----------------------------
(***************************************************************************)
(* The tool of a step is called at most once, for any plan, any number of  *)
(* attempts and any number of failing store calls.                         *)
(***************************************************************************)
EXTENDS JobRun, TLAPS, WellFoundedInduction

\* Attempt b was allowed to call the tool of step s by Acquire and has not
\* been through the lease check of command_emitted yet.
PreFence(b, s) ==
    /\ cur[b] = s
    /\ \/ pc[b] \in {"set_started", "started"}
       \/ pc[b] = "emitted" /\ expected[b] = 0

\* Attempt a has passed that check and has not called the tool yet.
Fenced(a, s) ==
    /\ cur[a] = s
    /\ \/ pc[a] = "emitted" /\ expected[a] # 0
       \/ pc[a] = "execute"

Called(a, s) == \E i \in 1..Len(execBy[s]) : execBy[s][i] = a

Marked(a, s) == Fenced(a, s) \/ Called(a, s)

HolderNewest ==
    holder \in Attempts => \A b \in Attempts \ {holder} : epoch[b] < epoch[holder]

EpochBound == \A a \in Attempts : epoch[a] <= lastEpoch

AppendsPending == \A a \in Attempts : expected[a] # 0 => pc[a] \in AppendPoints

LedgerMarked ==
    \A s \in Steps, a \in Attempts :
        Marked(a, s) \/ (cur[a] = s /\ pc[a] \in {"started", "emitted"}) => ledger[s] # "none"

FencedLater ==
    \A s \in Steps, a, b \in Attempts : Marked(a, s) /\ PreFence(b, s) => epoch[b] < epoch[a]

MarkedOnce ==
    \A s \in Steps, a, b \in Attempts : Marked(a, s) /\ Marked(b, s) => a = b

FencedNotCalled == \A s \in Steps, a \in Attempts : Fenced(a, s) => execBy[s] = << >>

IInv ==
    /\ TypeOK
    /\ HolderNewest
    /\ EpochBound
    /\ AppendsPending
    /\ LedgerMarked
    /\ FencedLater
    /\ MarkedOnce
    /\ FencedNotCalled
    /\ AtMostOnce
-----------------------------------------------------------------------------
(* Types *)

\* A nonempty set of numbers has a least element, so NextStep is a step, and
\* no earlier step is left to do.
LEMMA NextStepType ==
    ASSUME NEW done, ~ (Steps \subseteq done)
    PROVE  /\ NextStep(done) \in Steps
           /\ \A t \in Steps \ done : NextStep(done) <= t
<1>1. Len(Plan) \in Nat
  BY JobRunAssumption
<1>2. Steps \ done # {} /\ Steps \ done \subseteq Nat
  BY <1>1 DEF Steps
<1> DEFINE R == OpToRel(<, Nat)
<1>3. R = {ss \in Nat \X Nat : ss[1] < ss[2]}
  BY Zenon DEF OpToRel
<1>4. IsWellFoundedOn(R, Nat)
  BY NatLessThanWellFounded
<1> HIDE DEF R
<1>5. PICK s \in Steps \ done : \A t \in Steps \ done : << t, s >> \notin R
  BY <1>2, <1>4, WFMin
<1>6. ASSUME NEW t \in Steps \ done PROVE s <= t
  <2>1. s \in Nat /\ t \in Nat /\ << t, s >> \notin R
    BY <1>2, <1>5
  <2>2. << t, s >> \in Nat \X Nat /\ << t, s >>[1] = t /\ << t, s >>[2] = s
    BY <2>1
  <2>3. ~ (t < s)
    BY <1>3, <2>1, <2>2
  <2> QED
    BY <2>1, <2>3
<1> QED
  BY <1>5, <1>6 DEF NextStep

LEMMA PointTypes ==
    /\ AppendPoints = {"started", "emitted", "failed_finished", "finished", "committed",
                       "catchup_finished", "catchup_committed", "node_finished",
                       "job_waiting", "job_failed", "job_completed", "requeue",
                       "give_up", "complete"}
    /\ StatusPoints = {"set_running", "set_waiting", "set_completed", "set_failed",
                       "forbidden", "set_pending", "set_given_up", "set_done", "set_stray"}
    /\ \A p \in AppendPoints : EventAt[p] \in EventTypes
    /\ \A p \in StatusPoints :
          StatusAt[p] \in {"pending", "running", "waiting", "completed", "failed"}
  BY DEF AppendPoints, EventAt, StatusPoints, StatusAt, EventTypes

FencePoints == {"set_started", "started", "emitted", "execute"}

\* Only the append of tool_invocation_started leads to another append on the
\* way to the tool, and only that of command_emitted leads to the tool.
LEMMA AfterFacts ==
    ASSUME NEW p \in AppendPoints, NEW ok \in BOOLEAN
    PROVE  /\ After(p, ok) \in RunPoints
           /\ p = "started" => After(p, ok) = "emitted"
           /\ p = "emitted" => After(p, ok) = IF ok THEN "execute" ELSE "job_failed"
           /\ p \notin {"started", "emitted"} => After(p, ok) \notin FencePoints
  BY PointTypes DEF After, NextPoint, Checked, RunPoints, FencePoints

LEMMA AfterStatusFacts ==
    ASSUME NEW p \in StatusPoints, NEW ok \in BOOLEAN
    PROVE  AfterStatus(p, ok) \in RunPoints \ FencePoints
  BY PointTypes DEF AfterStatus, RunPoints, FencePoints

Points == RunPoints \cup {"idle", "signal", "wake"}

\* Process p goes somewhere, and the others stay where they are.
Moves(p) == pc' = [pc EXCEPT ![p] = pc'[p]] /\ pc'[p] \in Points

LEMMA DecideFacts ==
    ASSUME TypeOK, NEW a \in Attempts, NEW m \in {"fresh", "replay", "cursor"},
           NEW done, NEW l, Decide(a, m, done, l)
    PROVE  /\ mode' \in [Attempts -> {"fresh", "replay", "cursor"}]
           /\ cur' \in [Attempts -> Nat]
           /\ Moves(a) /\ pc'[a] \notin FencePoints
           /\ \A b \in Attempts \ {a} : cur'[b] = cur[b]
<1>1. Len(Plan) \in Nat
  BY JobRunAssumption
<1>2. mode' \in [Attempts -> {"fresh", "replay", "cursor"}]
  BY DEF Decide, TypeOK
<1>3. CASE Steps \subseteq done
  <2>1. Goto(a, "job_completed") /\ cur' = cur
    BY <1>3 DEF Decide
  <2>2. "job_completed" \in RunPoints \ FencePoints
    BY PointTypes DEF RunPoints, FencePoints
  <2> QED
    BY <1>2, <2>1, <2>2 DEF TypeOK, Moves, Goto, Points
<1>4. CASE ~ (Steps \subseteq done)
  <2> DEFINE n == NextStep(done)
  <2>1. n \in Nat
    BY <1>1, <1>4, NextStepType DEF Steps
  <2>2. cur' = [cur EXCEPT ![a] = n]
    BY <1>4 DEF Decide
  <2>3. PICK q : q = (IF m = "fresh" THEN RunStep(m, n, l) ELSE Advance(m, n, l))
    OBVIOUS
  <2>4. q \in {"job_waiting", "node_finished", "recover", "get", "forbidden"}
    BY <2>3 DEF RunStep, Advance
  <2>5. q \in RunPoints \ FencePoints
    BY <2>4, PointTypes DEF RunPoints, FencePoints
  <2>6. Goto(a, q)
    BY <1>4, <2>3 DEF Decide
  <2> QED
    BY <1>2, <2>1, <2>2, <2>5, <2>6 DEF TypeOK, Moves, Goto, Points
<1> QED
  BY <1>3, <1>4
\* A step of RunForJob that decides where attempt a goes on: never in the
\* middle of a tool call.
RunnerMoves(a) ==
    /\ mode' \in [Attempts -> {"fresh", "replay", "cursor"}]
    /\ cur' \in [Attempts -> Nat]
    /\ Moves(a) /\ pc'[a] \notin FencePoints
    /\ \A b \in Attempts \ {a} : cur'[b] = cur[b]

LEMMA ReplayMoves ==
    ASSUME TypeOK, NEW a \in Attempts, Replay(a) \/ Rebuild(a)
    PROVE  RunnerMoves(a)
<1>1. CASE Blocked(a)
  <2>1. "set_waiting" \in Points \ FencePoints
    BY PointTypes DEF Points, RunPoints, FencePoints
  <2> QED
    BY <1>1, <2>1 DEF Blocked, RunnerMoves, Moves, Goto, TypeOK
<1>2. CASE ~ Blocked(a)
  <2>1. \E m \in {"fresh", "replay", "cursor"} : \E done, l : Decide(a, m, done, l)
    BY <1>2 DEF Replay, Rebuild, TypeOK
  <2> QED
    BY <2>1, DecideFacts DEF RunnerMoves
<1> QED
  BY <1>1, <1>2

LEMMA CheckpointMoves ==
    ASSUME TypeOK, NEW a \in Attempts, ReplayCheckpoint(a) \/ Checkpoint(a)
    PROVE  RunnerMoves(a)
<1>0. {"set_failed", "rebuild"} \subseteq Points \ FencePoints
  BY PointTypes DEF Points, RunPoints, FencePoints
<1>1. CASE \E q \in {"set_failed", "rebuild"} : Goto(a, q) /\ UNCHANGED << mode, cur >>
  BY <1>0, <1>1 DEF RunnerMoves, Moves, Goto, TypeOK
<1>2. CASE \E m \in {"fresh", "replay", "cursor"} : \E done, l : Decide(a, m, done, l)
  BY <1>2, DecideFacts DEF RunnerMoves
<1> QED
  BY <1>1, <1>2 DEF ReplayCheckpoint, Checkpoint

\* A stream that has a wait has a latest one.
LEMMA WaitingStepType ==
    ASSUME NEW l \in Seq([type : EventTypes, step : Nat]),
           \E i \in 1..Len(l) : l[i].type = "job_waiting"
    PROVE  /\ WaitingStep(l) \in Nat
           /\ \E i \in 1..Len(l) : l[i].type = "job_waiting" /\ l[i].step = WaitingStep(l)
<1> DEFINE waits == { i \in 1..Len(l) : l[i].type = "job_waiting" }
           N == Len(l)
           back == { n \in Nat : \E i \in waits : n = N - i }
           R == OpToRel(<, Nat)
<1>1. N \in Nat
  OBVIOUS
<1>2. R = {ss \in Nat \X Nat : ss[1] < ss[2]}
  BY Zenon DEF OpToRel
<1>3. IsWellFoundedOn(R, Nat)
  BY NatLessThanWellFounded
<1> HIDE DEF R
<1>4. ASSUME NEW i \in waits PROVE i \in Nat /\ i <= N /\ N - i \in back
  <2>1. i \in 1..N
    OBVIOUS
  <2>2. i \in Nat /\ i <= N /\ N - i \in Nat
    BY <1>1, <2>1
  <2> QED
    BY <2>2
<1>5. back # {} /\ back \subseteq Nat
  BY <1>4
<1>6. PICK n \in back : \A k \in back : << k, n >> \notin R
  BY <1>3, <1>5, WFMin
<1>7. PICK i \in waits : n = N - i
  BY <1>6
<1>8. ASSUME NEW k \in waits PROVE k <= i
  <2>1. N - k \in back /\ n \in Nat /\ N - k \in Nat
    BY <1>4, <1>6
  <2>2. << N - k, n >> \notin R
    BY <1>6, <2>1
  <2>3. << N - k, n >> \in Nat \X Nat /\ << N - k, n >>[1] = N - k /\ << N - k, n >>[2] = n
    BY <2>1
  <2>4. ~ (N - k < n)
    BY <1>2, <2>2, <2>3
  <2> QED
    BY <1>1, <1>4, <1>7, <2>4
<1>9. PICK j : j = (CHOOSE i_1 \in waits : \A k \in waits : k <= i_1)
  OBVIOUS
<1>10. j \in waits
  BY <1>7, <1>8, <1>9
<1>11. l[j] \in [type : EventTypes, step : Nat]
  <2> DEFINE E == [type : EventTypes, step : Nat]
  <2>1. j \in 1..Len(l) /\ l \in Seq(E)
    BY <1>10
  <2> HIDE DEF E
  <2>2. l[j] \in E
    BY <2>1
  <2> QED
    BY <2>2 DEF E
<1>12. WaitingStep(l) = l[j].step
  BY <1>9 DEF WaitingStep
<1> QED
  BY <1>10, <1>11, <1>12

\* A process that is not appending goes somewhere else.
LEMMA MoveType ==
    ASSUME TypeOK, AppendsPending, NEW p \in Attempts \cup Clients, Moves(p),
           expected' = expected, p \in Attempts => pc[p] \notin AppendPoints
    PROVE  /\ pc' \in [Attempts \cup Clients -> Points]
           /\ AppendsPending'
<1>1. pc' \in [Attempts \cup Clients -> Points]
  BY DEF TypeOK, Moves, Points
<1>2. ASSUME NEW b \in Attempts, expected'[b] # 0 PROVE pc'[b] \in AppendPoints
  <2>1. pc[b] \in AppendPoints
    BY <1>2 DEF AppendsPending
  <2>2. b # p
    BY <2>1
  <2> QED
    BY <2>1, <2>2 DEF TypeOK, Moves
<1> QED
  BY <1>1, <1>2 DEF AppendsPending

LEMMA TypeStep ==
    ASSUME TypeOK, AppendsPending, [Next]_vars
    PROVE  TypeOK' /\ AppendsPending'
<1>a. \A x \in {"load", "selected", "unclaimed", "replay", "rebuild", "checkpoint", "error",
               "completed", "wrap_up", "get", "set_started", "execute", "effect", "validate",
               "set_finished", "recover", "stopped", "idle", "signal", "wake"} :
         x \in Points \ AppendPoints
  BY PointTypes DEF Points, RunPoints
<1>b. AppendPoints \subseteq Points /\ StatusPoints \subseteq Points \ AppendPoints
  BY PointTypes DEF Points, RunPoints
<1>1. CASE UNCHANGED vars
  BY <1>1 DEF TypeOK, AppendsPending, vars, RunPoints, EventTypes
<1>2. ASSUME NEW a \in Attempts,
             \/ ClaimSelect(a) \/ WorkerFailed(a) \/ WorkerCompleted(a) \/ WrapUp(a)
             \/ LedgerGet(a) \/ ValidateAttempt(a) \/ Recover(a)
      PROVE  TypeOK' /\ AppendsPending'
  <2>1. Moves(a)
    BY <1>2, <1>a, <1>b, PointTypes
       DEF ClaimSelect, WorkerFailed, WorkerCompleted, WrapUp, LedgerGet, ValidateAttempt,
           Recover, Moves, Goto, TypeOK
  <2>2. pc[a] \notin AppendPoints /\ expected' = expected
    BY <1>2, <1>a
       DEF ClaimSelect, WorkerFailed, WorkerCompleted, WrapUp, LedgerGet, ValidateAttempt,
           Recover, local
  <2>3. pc' \in [Attempts \cup Clients -> Points] /\ AppendsPending'
    BY <2>1, <2>2, MoveType
  <2>4. faults' \in Nat
    BY <1>2
       DEF ClaimSelect, WorkerFailed, WorkerCompleted, WrapUp, LedgerGet, ValidateAttempt,
           Recover, Fault, TypeOK
  <2> QED
    BY <1>2, <2>3, <2>4
       DEF ClaimSelect, WorkerFailed, WorkerCompleted, WrapUp, LedgerGet, ValidateAttempt,
           Recover, TypeOK, Points, lease, local, metadata, tools
<1>3. ASSUME NEW a \in Attempts, ClaimUpsert(a) PROVE TypeOK' /\ AppendsPending'
  <2>1. Moves(a)
    BY <1>3, <1>a, <1>b, PointTypes DEF ClaimUpsert, Moves, Goto, TypeOK
  <2>2. pc[a] \notin AppendPoints /\ expected' = expected
    BY <1>3, <1>a DEF ClaimUpsert, local
  <2>3. pc' \in [Attempts \cup Clients -> Points] /\ AppendsPending'
    BY <2>1, <2>2, MoveType
  <2>4. holder' \in Attempts /\ live' \in BOOLEAN /\ lastEpoch' \in Nat /\ epoch' \in [Attempts -> Nat]
    BY <1>3 DEF ClaimUpsert, TypeOK
  <2> QED
    BY <1>3, <2>3, <2>4 DEF ClaimUpsert, TypeOK, Points, lease, local, metadata, tools
<1>4. ASSUME NEW a \in Attempts, Load(a) PROVE TypeOK' /\ AppendsPending'
  <2>1. Moves(a)
    BY <1>4, <1>a, <1>b, PointTypes DEF Load, Moves, Goto, TypeOK
  <2>2. pc[a] \notin AppendPoints /\ expected' = expected
    BY <1>4, <1>a DEF Load, local
  <2>3. pc' \in [Attempts \cup Clients -> Points] /\ AppendsPending'
    BY <2>1, <2>2, MoveType
  <2> QED
    BY <1>4, <2>3 DEF Load, TypeOK, Points, lease, local, metadata, tools
<1>9. ASSUME NEW a \in Attempts, SetStarted(a) PROVE TypeOK' /\ AppendsPending'
  <2>1. Moves(a)
    BY <1>9, <1>a, <1>b, PointTypes DEF SetStarted, Moves, Goto, TypeOK
  <2>2. pc[a] \notin AppendPoints /\ expected' = expected
    BY <1>9, <1>a DEF SetStarted, local
  <2>3. pc' \in [Attempts \cup Clients -> Points] /\ AppendsPending'
    BY <2>1, <2>2, MoveType
  <2>4. ledger \in [Steps -> {"none", "started", "committed"}] /\ faults \in Nat
    BY DEF TypeOK
  <2>5. ledger' \in [Steps -> {"none", "started", "committed"}]
    BY <1>9, <2>4 DEF SetStarted
  <2>6. faults' \in Nat
    BY <1>9, <2>4 DEF SetStarted, Fault
  <2> QED
    BY <1>9, <2>3, <2>5, <2>6 DEF SetStarted, TypeOK, Points, lease, local, metadata, tools, Fault
<1>10. ASSUME NEW a \in Attempts, Execute(a) PROVE TypeOK' /\ AppendsPending'
  <2>1. Moves(a)
    BY <1>10, <1>a, <1>b, PointTypes DEF Execute, Moves, Goto, TypeOK
  <2>2. pc[a] \notin AppendPoints /\ expected' = expected
    BY <1>10, <1>a DEF Execute, local
  <2>3. pc' \in [Attempts \cup Clients -> Points] /\ AppendsPending'
    BY <2>1, <2>2, MoveType
  <2>4. outcome \in [Steps -> {"none", "ok", "error"}] /\ execBy \in [Steps -> Seq(Attempts)] /\ faults \in Nat
    BY DEF TypeOK
  <2>5. outcome' \in [Steps -> {"none", "ok", "error"}]
    BY <1>10, <2>4 DEF Execute
  <2>7. \A q \in Seq(Attempts) : Append(q, a) \in Seq(Attempts)
    OBVIOUS
  <2>6. execBy' \in [Steps -> Seq(Attempts)]
    BY <2>7, <1>10, <2>4 DEF Execute
  <2> QED
    BY <1>10, <2>3, <2>5, <2>6 DEF Execute, TypeOK, Points, lease, local, metadata, tools
<1>11. ASSUME NEW a \in Attempts, PutEffect(a) PROVE TypeOK' /\ AppendsPending'
  <2>1. Moves(a)
    BY <1>11, <1>a, <1>b, PointTypes DEF PutEffect, Moves, Goto, TypeOK
  <2>2. pc[a] \notin AppendPoints /\ expected' = expected
    BY <1>11, <1>a DEF PutEffect, local
  <2>3. pc' \in [Attempts \cup Clients -> Points] /\ AppendsPending'
    BY <2>1, <2>2, MoveType
  <2>4. effects \in [Steps -> BOOLEAN] /\ faults \in Nat
    BY DEF TypeOK
  <2>5. effects' \in [Steps -> BOOLEAN]
    BY <1>11, <2>4 DEF PutEffect
  <2>6. faults' \in Nat
    BY <1>11, <2>4 DEF PutEffect, Fault
  <2> QED
    BY <1>11, <2>3, <2>5, <2>6 DEF PutEffect, TypeOK, Points, lease, local, metadata, tools, Fault
<1>13. ASSUME NEW a \in Attempts, SetFinished(a) PROVE TypeOK' /\ AppendsPending'
  <2>1. Moves(a)
    BY <1>13, <1>a, <1>b, PointTypes DEF SetFinished, Moves, Goto, TypeOK
  <2>2. pc[a] \notin AppendPoints /\ expected' = expected
    BY <1>13, <1>a DEF SetFinished, local
  <2>3. pc' \in [Attempts \cup Clients -> Points] /\ AppendsPending'
    BY <2>1, <2>2, MoveType
  <2>4. ledger \in [Steps -> {"none", "started", "committed"}] /\ faults \in Nat
    BY DEF TypeOK
  <2>5. ledger' \in [Steps -> {"none", "started", "committed"}]
    BY <1>13, <2>4 DEF SetFinished
  <2>6. faults' \in Nat
    BY <1>13, <2>4 DEF SetFinished, Fault
  <2> QED
    BY <1>13, <2>3, <2>5, <2>6 DEF SetFinished, TypeOK, Points, lease, local, metadata, tools, Fault
<1>15. ASSUME Expire \/ \E a \in Attempts : Heartbeat(a) PROVE TypeOK' /\ AppendsPending'
  BY <1>15 DEF Expire, Heartbeat, TypeOK, AppendsPending, local, metadata, tools
<1>16. ASSUME JobMessage PROVE TypeOK' /\ AppendsPending'
  <2>1. log \in Seq([type : EventTypes, step : Nat]) /\ messages \in Nat
    BY DEF TypeOK
  <2>2. [type |-> "agent_message", step |-> 0] \in [type : EventTypes, step : Nat]
    BY DEF EventTypes
  <2>3. log' \in Seq([type : EventTypes, step : Nat]) /\ messages' \in Nat
    BY <1>16, <2>1, <2>2 DEF JobMessage
  <2> QED
    BY <1>16, <2>3 DEF JobMessage, TypeOK, AppendsPending, lease, local, tools
<1>17. ASSUME NEW c \in Clients, SignalCheck(c) PROVE TypeOK' /\ AppendsPending'
  <2>1. Moves(c) /\ c \notin Attempts
    BY <1>17, <1>a, JobRunAssumption DEF SignalCheck, Moves, Goto, TypeOK
  <2>2. pc' \in [Attempts \cup Clients -> Points] /\ AppendsPending'
    BY <1>17, <2>1, MoveType DEF SignalCheck, local
  <2> QED
    BY <1>17, <2>2 DEF SignalCheck, TypeOK, Points, lease, local, metadata, tools
<1>18. ASSUME NEW c \in Clients, SignalWake(c) PROVE TypeOK' /\ AppendsPending'
  <2>1. Moves(c) /\ c \notin Attempts
    BY <1>18, <1>a, JobRunAssumption DEF SignalWake, Moves, Goto, TypeOK
  <2>2. pc' \in [Attempts \cup Clients -> Points] /\ AppendsPending'
    BY <1>18, <2>1, MoveType DEF SignalWake, local
  <2> QED
    BY <1>18, <2>2 DEF SignalWake, Fault, TypeOK, Points, lease, local, metadata, tools
<1>19. ASSUME NEW c \in Clients, SignalAppend(c) PROVE TypeOK' /\ AppendsPending'
  <2>1. Moves(c) /\ c \notin Attempts
    BY <1>19, <1>a, JobRunAssumption DEF SignalAppend, Moves, Goto, TypeOK
  <2>2. pc' \in [Attempts \cup Clients -> Points] /\ AppendsPending'
    BY <1>19, <2>1, MoveType DEF SignalAppend, local
  <2>3. log \in Seq([type : EventTypes, step : Nat]) /\ faults \in Nat
    BY DEF TypeOK
  <2>4. log' \in Seq([type : EventTypes, step : Nat])
    <3>1. CASE log' = log
      BY <2>3, <3>1
    <3>2. CASE log' # log
      <4>1. \E i \in 1..Len(log) : log[i].type = "job_waiting"
        BY <1>19, <3>2 DEF SignalAppend
      <4>2. WaitingStep(log) \in Nat
        BY <2>3, <4>1, WaitingStepType
      <4>3. [type |-> "wait_completed", step |-> WaitingStep(log)] \in [type : EventTypes, step : Nat]
        BY <4>2 DEF EventTypes
      <4>4. log' = Append(log, [type |-> "wait_completed", step |-> WaitingStep(log)])
        BY <1>19, <3>2 DEF SignalAppend
      <4> QED
        BY <2>3, <4>3, <4>4
    <3> QED
      BY <3>1, <3>2
  <2>5. faults' \in Nat
    BY <1>19, <2>3 DEF SignalAppend, Fault
  <2> QED
    BY <1>19, <2>2, <2>4, <2>5 DEF SignalAppend, TypeOK, Points, lease, local, metadata, tools
<1>20. ASSUME NEW a \in Attempts, AppendCheck(a) PROVE TypeOK' /\ AppendsPending'
  <2>1. Len(log) \in Nat
    BY DEF TypeOK
  <2>2. After(pc[a], FALSE) \in Points
    BY <1>20, AfterFacts DEF AppendCheck, Points
  <2>3. pc' \in [Attempts \cup Clients -> Points]
    BY <1>20, <2>2 DEF AppendCheck, Goto, TypeOK, Points
  <2>4. expected' \in [Attempts -> Nat]
    BY <1>20, <2>1 DEF AppendCheck, TypeOK
  <2>5. AppendsPending'
    <3>1. CASE HoldsLease(a)
      BY <1>20, <3>1 DEF AppendCheck, AppendsPending, TypeOK
    <3>2. CASE ~ HoldsLease(a)
      BY <1>20, <3>2 DEF AppendCheck, AppendsPending, TypeOK, Goto
    <3> QED
      BY <3>1, <3>2
  <2> QED
    BY <1>20, <2>3, <2>4, <2>5 DEF AppendCheck, TypeOK, Points, lease, metadata, tools
<1>21. ASSUME NEW a \in Attempts, AppendInsert(a) PROVE TypeOK' /\ AppendsPending'
  <2>1. pc[a] \in AppendPoints
    BY <1>21 DEF AppendInsert, AppendsPending
  <2>2. After(pc[a], TRUE) \in Points /\ After(pc[a], FALSE) \in Points
    BY <2>1, AfterFacts DEF Points
  <2>3. pc' \in [Attempts \cup Clients -> Points]
    BY <1>21, <2>2 DEF AppendInsert, Goto, TypeOK, Points
  <2>4. expected' \in [Attempts -> Nat] /\ \A b \in Attempts : expected'[b] # 0 => b # a /\ expected[b] # 0
    BY <1>21 DEF AppendInsert, TypeOK
  <2>5. AppendsPending'
    BY <1>21, <2>4 DEF AppendInsert, AppendsPending, TypeOK, Goto
  <2>6. log \in Seq([type : EventTypes, step : Nat]) /\ faults \in Nat /\ cur[a] \in Nat
    BY DEF TypeOK
  <2>7. [type |-> EventAt[pc[a]], step |-> IF pc[a] \in JobPoints THEN 0 ELSE cur[a]]
           \in [type : EventTypes, step : Nat]
    BY <2>1, <2>6, PointTypes
  <2>8. log' \in Seq([type : EventTypes, step : Nat])
    <3> DEFINE e == [type |-> EventAt[pc[a]], step |-> IF pc[a] \in JobPoints THEN 0 ELSE cur[a]]
    <3>1. log' = log \/ log' = Append(log, e)
      BY <1>21 DEF AppendInsert
    <3> DEFINE E == [type : EventTypes, step : Nat]
    <3>2. e \in E /\ log \in Seq(E)
      BY <2>6, <2>7
    <3> HIDE DEF e, E
    <3>3. log' \in Seq(E)
      BY <3>1, <3>2
    <3> QED
      BY <3>3 DEF E
  <2>9. faults' \in Nat
    <3>1. faults' = faults \/ faults' = faults + 1
      BY <1>21 DEF AppendInsert, Fault
    <3> QED
      BY <2>6, <3>1
  <2> QED
    BY <1>21, <2>3, <2>4, <2>5, <2>8, <2>9 DEF AppendInsert, TypeOK, Points, lease, metadata, tools
<1>22. ASSUME NEW a \in Attempts, UpdateStatus(a) PROVE TypeOK' /\ AppendsPending'
  <2>1. pc[a] \in StatusPoints /\ pc[a] \notin AppendPoints
    BY <1>22, <1>b DEF UpdateStatus
  <2>2. AfterStatus(pc[a], TRUE) \in Points /\ AfterStatus(pc[a], FALSE) \in Points
    BY <2>1, AfterStatusFacts DEF Points
  <2>3. Moves(a) /\ expected' = expected
    BY <1>22, <2>2 DEF UpdateStatus, Moves, Goto, TypeOK, local
  <2>4. pc' \in [Attempts \cup Clients -> Points] /\ AppendsPending'
    BY <2>1, <2>3, MoveType
  <2>5. status' \in {"pending", "running", "waiting", "completed", "failed"} /\ faults' \in Nat
    <3>1. status' = status \/ status' = StatusAt[pc[a]]
      BY <1>22 DEF UpdateStatus
    <3>2. faults' = faults \/ faults' = faults + 1
      BY <1>22 DEF UpdateStatus, Fault
    <3> QED
      BY <2>1, <3>1, <3>2, PointTypes DEF TypeOK
  <2> QED
    BY <1>22, <2>4, <2>5 DEF UpdateStatus, TypeOK, Points, lease, local, tools
<1>23. ASSUME NEW a \in Attempts, Replay(a) \/ Rebuild(a) PROVE TypeOK' /\ AppendsPending'
  <2>1. RunnerMoves(a)
    BY <1>23, ReplayMoves
  <2>2. pc[a] \notin AppendPoints
    BY <1>23, <1>a DEF Replay, Rebuild
  <2>3. pc' \in [Attempts \cup Clients -> Points] /\ AppendsPending'
    BY <1>23, <2>1, <2>2, MoveType DEF RunnerMoves, Replay, Rebuild
  <2> QED
    BY <1>23, <2>1, <2>3 DEF RunnerMoves, Replay, Rebuild, TypeOK, Points, lease, metadata, tools
<1>24. ASSUME NEW a \in Attempts, ReplayCheckpoint(a) \/ Checkpoint(a) PROVE TypeOK' /\ AppendsPending'
  <2>1. RunnerMoves(a)
    BY <1>24, CheckpointMoves
  <2>2. pc[a] \notin AppendPoints
    BY <1>24, <1>a DEF ReplayCheckpoint, Checkpoint
  <2>3. pc' \in [Attempts \cup Clients -> Points] /\ AppendsPending'
    BY <1>24, <2>1, <2>2, MoveType DEF RunnerMoves, ReplayCheckpoint, Checkpoint
  <2>4. cursor' \in Nat /\ faults' \in Nat
    BY <1>24 DEF ReplayCheckpoint, Checkpoint, Fault, TypeOK, metadata
  <2> QED
    BY <1>24, <2>1, <2>3, <2>4
       DEF RunnerMoves, ReplayCheckpoint, Checkpoint, TypeOK, Points, lease, metadata, tools
<1> QED
  BY <1>1, <1>2, <1>3, <1>4, <1>9, <1>10, <1>11, <1>13,
     <1>15, <1>16, <1>17, <1>18, <1>19, <1>20, <1>21, <1>22, <1>23, <1>24 DEF Next
-----------------------------------------------------------------------------
(* The fence *)

\* What the lease check of command_emitted guarantees.
Fence ==
    /\ HolderNewest
    /\ EpochBound
    /\ LedgerMarked
    /\ FencedLater
    /\ MarkedOnce
    /\ FencedNotCalled
    /\ AtMostOnce

\* A step that brings no attempt closer to a tool keeps the fence.
LEMMA Shrink ==
    ASSUME IInv, UNCHANGED << holder, epoch, lastEpoch, execBy >>,
           \A s \in Steps, b \in Attempts :
              /\ PreFence(b, s)' => PreFence(b, s)
              /\ Fenced(b, s)' => Fenced(b, s)
              /\ cur'[b] = s /\ pc'[b] \in {"started", "emitted"} => ledger'[s] # "none"
              /\ ledger[s] # "none" => ledger'[s] # "none"
    PROVE  Fence'
<1>1. HolderNewest' /\ EpochBound' /\ AtMostOnce'
  BY DEF IInv, HolderNewest, EpochBound, AtMostOnce
<1>2. \A s \in Steps, b \in Attempts : Called(b, s)' <=> Called(b, s)
  BY DEF Called
<1>3. \A s \in Steps, b \in Attempts : Marked(b, s)' => Marked(b, s)
  BY <1>2 DEF Marked
<1>4. LedgerMarked'
  <2>1. \A s \in Steps, b \in Attempts : Marked(b, s) => ledger[s] # "none"
    BY DEF IInv, LedgerMarked
  <2> QED
    BY <1>3, <2>1 DEF LedgerMarked
<1>5. FencedLater'
  BY <1>3 DEF IInv, FencedLater
<1>6. MarkedOnce'
  BY <1>3 DEF IInv, MarkedOnce
<1>7. FencedNotCalled'
  BY DEF IInv, FencedNotCalled
<1> QED
  BY <1>1, <1>4, <1>5, <1>6, <1>7 DEF Fence

\* So does one in which every attempt that moves leaves the way to the tool.
LEMMA Retreat ==
    ASSUME IInv, UNCHANGED << holder, epoch, lastEpoch, execBy >>,
           \A b \in Attempts :
              \/ pc'[b] \notin FencePoints
              \/ pc'[b] = pc[b] /\ cur'[b] = cur[b] /\ expected'[b] = expected[b],
           \A s \in Steps : ledger[s] # "none" => ledger'[s] # "none"
    PROVE  Fence'
<1>1. ASSUME NEW s \in Steps, NEW b \in Attempts
      PROVE  /\ PreFence(b, s)' => PreFence(b, s)
             /\ Fenced(b, s)' => Fenced(b, s)
             /\ cur'[b] = s /\ pc'[b] \in {"started", "emitted"} => ledger'[s] # "none"
  <2>1. CASE pc'[b] \notin FencePoints
    BY <2>1 DEF FencePoints, PreFence, Fenced
  <2>2. CASE pc'[b] = pc[b] /\ cur'[b] = cur[b] /\ expected'[b] = expected[b]
    <3>1. cur[b] = s /\ pc[b] \in {"started", "emitted"} => ledger[s] # "none"
      BY DEF IInv, LedgerMarked
    <3> QED
      BY <2>2, <3>1 DEF PreFence, Fenced
  <2> QED
    BY <2>1, <2>2
<1> QED
  BY <1>1, Shrink

\* A step of one attempt away from the tool.
LEMMA StepBack ==
    ASSUME IInv, NEW a \in Attempts, UNCHANGED << holder, epoch, lastEpoch, execBy >>,
           Moves(a), pc'[a] \notin FencePoints,
           \A b \in Attempts \ {a} : cur'[b] = cur[b] /\ expected'[b] = expected[b],
           \A s \in Steps : ledger[s] # "none" => ledger'[s] # "none"
    PROVE  Fence'
<1>1. \A b \in Attempts \ {a} : pc'[b] = pc[b]
  BY DEF Moves, IInv, TypeOK
<1> QED
  BY <1>1, Retreat

\* Acquire lets an attempt through only where no tool call is under way or done.
LEMMA AcquireStep ==
    ASSUME IInv, NEW a \in Attempts, LedgerGet(a), pc'[a] = "set_started"
    PROVE  Fence'
<1>1. /\ ledger[cur[a]] = "none"
      /\ UNCHANGED << holder, epoch, lastEpoch, cur, expected, ledger, execBy >>
      /\ pc' = [pc EXCEPT ![a] = "set_started"]
  BY DEF LedgerGet, Goto, IInv, TypeOK, lease, local, tools
<1>2. HolderNewest' /\ EpochBound' /\ AtMostOnce'
  BY <1>1 DEF IInv, HolderNewest, EpochBound, AtMostOnce
<1>3. \A b \in Attempts : b # a => pc'[b] = pc[b]
  BY <1>1 DEF IInv, TypeOK
<1>4. ASSUME NEW s \in Steps, NEW b \in Attempts
      PROVE  /\ Fenced(b, s)' => Fenced(b, s)
             /\ Called(b, s)' <=> Called(b, s)
             /\ cur'[b] = s /\ pc'[b] \in {"started", "emitted"}
                  => cur[b] = s /\ pc[b] \in {"started", "emitted"}
             /\ b # a => (PreFence(b, s)' => PreFence(b, s))
  BY <1>1, <1>3 DEF Fenced, Called, PreFence
<1>5. \A s \in Steps, b \in Attempts : Marked(b, s)' => Marked(b, s)
  BY <1>4 DEF Marked
<1>6. LedgerMarked'
  BY <1>1, <1>4, <1>5 DEF IInv, LedgerMarked
<1>7. FencedLater'
  <2> SUFFICES ASSUME NEW s \in Steps, NEW x \in Attempts, NEW b \in Attempts,
                      Marked(x, s)', PreFence(b, s)'
               PROVE  epoch'[b] < epoch'[x]
    BY DEF FencedLater
  <2>1. Marked(x, s) /\ ledger[s] # "none"
    BY <1>5 DEF IInv, LedgerMarked
  <2>2. b # a
    BY <1>1, <2>1 DEF PreFence
  <2> QED
    BY <1>1, <1>4, <2>1, <2>2 DEF IInv, FencedLater
<1>8. MarkedOnce'
  BY <1>5 DEF IInv, MarkedOnce
<1>9. FencedNotCalled'
  BY <1>1, <1>4 DEF IInv, FencedNotCalled
<1> QED
  BY <1>2, <1>6, <1>7, <1>8, <1>9 DEF Fence

\* Marking the invocation started keeps the fence: nobody gets further.
LEMMA SetStartedStep ==
    ASSUME IInv, NEW a \in Attempts, SetStarted(a)
    PROVE  Fence'
<1>1. /\ UNCHANGED << holder, epoch, lastEpoch, cur, expected, execBy >>
      /\ pc[a] = "set_started"
      /\ \A b \in Attempts : b # a => pc'[b] = pc[b]
  BY DEF SetStarted, Goto, IInv, TypeOK, lease, local
<1>2. \A s \in Steps : ledger[s] # "none" => ledger'[s] # "none"
  BY DEF SetStarted, IInv, TypeOK
<1>3. CASE pc'[a] = "started" /\ ledger' = [ledger EXCEPT ![cur[a]] =
                                    IF @ = "committed" THEN @ ELSE "started"]
  <2>1. ASSUME NEW s \in Steps, NEW b \in Attempts
        PROVE  /\ PreFence(b, s)' => PreFence(b, s)
               /\ Fenced(b, s)' => Fenced(b, s)
    BY <1>1, <1>3 DEF PreFence, Fenced
  <2>2. ASSUME NEW s \in Steps, NEW b \in Attempts, cur'[b] = s, pc'[b] \in {"started", "emitted"}
        PROVE  ledger'[s] # "none"
    <3>1. CASE b = a
      BY <1>1, <1>3, <2>2, <3>1 DEF IInv, TypeOK
    <3>2. CASE b # a
      BY <1>1, <1>2, <2>2, <3>2 DEF IInv, LedgerMarked
    <3> QED
      BY <3>1, <3>2
  <2> QED
    BY <1>1, <1>2, <2>1, <2>2, Shrink
<1>4. CASE pc'[a] = "job_failed"
  BY <1>1, <1>2, <1>4, Retreat DEF FencePoints
<1> QED
  BY <1>3, <1>4 DEF SetStarted, Goto, IInv, TypeOK

\* The lease check of an append.  At command_emitted it is the fence: the
\* attempt that passes holds the newest claim, so everyone who passed before it
\* would have to be newer still.
LEMMA AppendCheckStep ==
    ASSUME IInv, NEW a \in Attempts, AppendCheck(a)
    PROVE  Fence'
<1>1. /\ UNCHANGED << holder, epoch, lastEpoch, cur, ledger, execBy >>
      /\ pc[a] \in AppendPoints
      /\ expected[a] = 0
      /\ \A b \in Attempts : b # a => pc'[b] = pc[b] /\ expected'[b] = expected[b]
  BY DEF AppendCheck, Goto, IInv, TypeOK, lease, tools
<1>2. \/ holder = a /\ pc'[a] = pc[a]
      \/ pc'[a] = After(pc[a], FALSE) /\ expected'[a] = 0
  BY <1>1 DEF AppendCheck, HoldsLease, Goto, IInv, TypeOK
<1>3. CASE pc'[a] = pc[a] /\ ~ (pc[a] = "emitted" /\ expected'[a] # 0)
  <2>1. ASSUME NEW s \in Steps, NEW b \in Attempts
        PROVE  /\ PreFence(b, s)' => PreFence(b, s)
               /\ Fenced(b, s)' => Fenced(b, s)
               /\ cur'[b] = s /\ pc'[b] \in {"started", "emitted"} => ledger'[s] # "none"
    BY <1>1, <1>3 DEF PreFence, Fenced, IInv, LedgerMarked
  <2> QED
    BY <1>1, <2>1, Shrink
<1>4. CASE pc'[a] = After(pc[a], FALSE) /\ expected'[a] = 0 /\ pc[a] # "started"
  <2>1. pc'[a] \notin FencePoints
    BY <1>1, <1>4, AfterFacts DEF FencePoints
  <2> QED
    BY <1>1, <2>1, Retreat
<1>5. CASE pc'[a] = After(pc[a], FALSE) /\ expected'[a] = 0 /\ pc[a] = "started"
  <2>1. pc'[a] = "emitted"
    BY <1>1, <1>5, AfterFacts
  <2>2. ASSUME NEW s \in Steps, NEW b \in Attempts
        PROVE  /\ PreFence(b, s)' => PreFence(b, s)
               /\ Fenced(b, s)' => Fenced(b, s)
               /\ cur'[b] = s /\ pc'[b] \in {"started", "emitted"} => ledger'[s] # "none"
    BY <1>1, <1>5, <2>1 DEF PreFence, Fenced, IInv, LedgerMarked
  <2> QED
    BY <1>1, <2>2, Shrink
<1>6. CASE holder = a /\ pc'[a] = pc[a] /\ pc[a] = "emitted" /\ expected'[a] # 0
  <2>1. HolderNewest' /\ EpochBound' /\ AtMostOnce'
    BY <1>1 DEF IInv, HolderNewest, EpochBound, AtMostOnce
  <2>2. \A b \in Attempts : b # a => epoch[b] < epoch[a]
    BY <1>6 DEF IInv, HolderNewest
  <2>3. epoch \in [Attempts -> Nat] /\ execBy \in [Steps -> Seq(Attempts)]
    BY DEF IInv, TypeOK
  <2>4. ASSUME NEW x \in Attempts, NEW s \in Steps, s = cur[a] PROVE ~ Marked(x, s)
    <3>1. PreFence(a, s)
      BY <1>1, <1>6, <2>4 DEF PreFence
    <3>2. Marked(x, s) => epoch[a] < epoch[x]
      BY <3>1 DEF IInv, FencedLater
    <3> QED
      BY <2>2, <2>3, <3>2
  <2>5. ASSUME NEW s \in Steps, s = cur[a] PROVE execBy[s] = << >>
    <3>1. \A x \in Attempts : ~ Called(x, s)
      BY <2>4, <2>5 DEF Marked
    <3>2. execBy[s] \in Seq(Attempts)
      BY <2>3
    <3>3. execBy[s] # << >> => 1 \in 1..Len(execBy[s]) /\ execBy[s][1] \in Attempts
      BY <3>2
    <3> QED
      BY <3>1, <3>3 DEF Called
  <2>6. ASSUME NEW s \in Steps, NEW b \in Attempts
        PROVE  /\ Called(b, s)' <=> Called(b, s)
               /\ cur'[b] = s /\ pc'[b] \in {"started", "emitted"}
                    => cur[b] = s /\ pc[b] \in {"started", "emitted"}
               /\ PreFence(b, s)' => b # a /\ PreFence(b, s)
               /\ Fenced(b, s)' => Fenced(b, s) \/ (b = a /\ s = cur[a])
    BY <1>1, <1>6 DEF Called, PreFence, Fenced
  <2>7. \A s \in Steps, b \in Attempts :
           Marked(b, s)' => Marked(b, s) \/ (b = a /\ s = cur[a])
    BY <2>6 DEF Marked
  <2>8. LedgerMarked'
    BY <1>1, <1>6, <2>6, <2>7 DEF IInv, LedgerMarked
  <2>9. FencedLater'
    BY <1>1, <2>2, <2>6, <2>7 DEF IInv, FencedLater
  <2>10. MarkedOnce'
    BY <2>4, <2>7 DEF IInv, MarkedOnce
  <2>11. FencedNotCalled'
    BY <1>1, <2>5, <2>6 DEF IInv, FencedNotCalled
  <2> QED
    BY <2>1, <2>8, <2>9, <2>10, <2>11 DEF Fence
<1> QED
  BY <1>1, <1>2, <1>3, <1>4, <1>5, <1>6

LEMMA AppendInsertStep ==
    ASSUME IInv, NEW a \in Attempts, AppendInsert(a)
    PROVE  Fence'
<1>1. /\ UNCHANGED << holder, epoch, lastEpoch, cur, ledger, execBy >>
      /\ expected[a] # 0
      /\ expected'[a] = 0
      /\ \A b \in Attempts : b # a => pc'[b] = pc[b] /\ expected'[b] = expected[b]
  BY DEF AppendInsert, Goto, IInv, TypeOK, lease, tools
<1>2. pc[a] \in AppendPoints
  BY <1>1 DEF IInv, AppendsPending
<1>3. PICK ok \in BOOLEAN : pc'[a] = After(pc[a], ok)
  BY DEF AppendInsert, Goto, IInv, TypeOK
<1>4. CASE pc[a] = "started" \/ (pc[a] = "emitted" /\ ok)
  <2>1. \/ pc[a] = "started" /\ pc'[a] = "emitted"
        \/ pc[a] = "emitted" /\ pc'[a] = "execute"
    BY <1>2, <1>3, <1>4, AfterFacts
  <2>2. ASSUME NEW s \in Steps, NEW b \in Attempts
        PROVE  /\ PreFence(b, s)' => PreFence(b, s)
               /\ Fenced(b, s)' => Fenced(b, s)
               /\ cur'[b] = s /\ pc'[b] \in {"started", "emitted"} => ledger'[s] # "none"
    BY <1>1, <2>1 DEF PreFence, Fenced, IInv, LedgerMarked
  <2> QED
    BY <1>1, <2>2, Shrink
<1>5. CASE ~ (pc[a] = "started" \/ (pc[a] = "emitted" /\ ok))
  <2>1. pc'[a] \notin FencePoints
    BY <1>2, <1>3, <1>5, AfterFacts DEF FencePoints
  <2> QED
    BY <1>1, <2>1, Retreat
<1> QED
  BY <1>4, <1>5

\* The call itself: the fence made the caller the only one.
LEMMA ExecuteStep ==
    ASSUME IInv, NEW a \in Attempts, Execute(a)
    PROVE  Fence'
<1>1. /\ UNCHANGED << holder, epoch, lastEpoch, cur, expected, ledger >>
      /\ pc[a] = "execute"
      /\ execBy' = [execBy EXCEPT ![cur[a]] = Append(@, a)]
      /\ pc'[a] \in {"effect", "failed_finished"}
      /\ \A b \in Attempts : b # a => pc'[b] = pc[b]
  BY DEF Execute, Goto, IInv, TypeOK, lease, local
<1>2. execBy \in [Steps -> Seq(Attempts)]
  BY DEF IInv, TypeOK
<1>3. CASE cur[a] \notin Steps
  <2>1. execBy' = execBy
    BY <1>1, <1>2, <1>3
  <2> QED
    BY <1>1, <2>1, Retreat DEF FencePoints
<1>4. CASE cur[a] \in Steps
  <2> DEFINE s == cur[a]
  <2>1. Fenced(a, s) /\ execBy[s] = << >>
    BY <1>1, <1>4 DEF Fenced, IInv, FencedNotCalled
  <2>2. execBy'[s] = << a >> /\ \A t \in Steps : t # s => execBy'[t] = execBy[t]
    BY <1>1, <1>2, <1>4, <2>1
  <2>3. ASSUME NEW t \in Steps, NEW b \in Attempts
        PROVE  /\ Called(b, t)' => Called(b, t) \/ (b = a /\ t = s)
               /\ Fenced(b, t)' => Fenced(b, t) /\ b # a
               /\ PreFence(b, t)' => PreFence(b, t)
               /\ cur'[b] = t /\ pc'[b] \in {"started", "emitted"}
                    => cur[b] = t /\ pc[b] \in {"started", "emitted"}
    <3>1. Called(b, t)' => Called(b, t) \/ (b = a /\ t = s)
      <4>1. CASE t = s
        BY <2>2, <4>1 DEF Called
      <4>2. CASE t # s
        BY <2>2, <4>2 DEF Called
      <4> QED
        BY <4>1, <4>2
    <3> QED
      BY <1>1, <3>1 DEF Fenced, PreFence
  <2>4. \A t \in Steps, b \in Attempts : Marked(b, t)' => Marked(b, t)
    BY <2>1, <2>3 DEF Marked
  <2>5. HolderNewest' /\ EpochBound'
    BY <1>1 DEF IInv, HolderNewest, EpochBound
  <2>6. LedgerMarked'
    BY <1>1, <2>3, <2>4 DEF IInv, LedgerMarked
  <2>7. FencedLater'
    BY <1>1, <2>3, <2>4 DEF IInv, FencedLater
  <2>8. MarkedOnce'
    BY <2>4 DEF IInv, MarkedOnce
  <2>9. FencedNotCalled'
    <3> SUFFICES ASSUME NEW t \in Steps, NEW b \in Attempts, Fenced(b, t)'
                 PROVE  execBy'[t] = << >>
      BY DEF FencedNotCalled
    <3>1. Fenced(b, t) /\ b # a
      BY <2>3
    <3>2. t # s
      BY <1>4, <2>1, <3>1 DEF IInv, MarkedOnce, Marked
    <3> QED
      BY <2>2, <3>1, <3>2 DEF IInv, FencedNotCalled
  <2>10. AtMostOnce'
    <3>1. Len(execBy'[s]) <= 1
      BY <2>2
    <3> QED
      BY <2>2, <3>1 DEF IInv, AtMostOnce
  <2> QED
    BY <2>5, <2>6, <2>7, <2>8, <2>9, <2>10 DEF Fence
<1> QED
  BY <1>3, <1>4

\* A new claim is newer than all others, and its attempt has everything ahead.
LEMMA ClaimStep ==
    ASSUME IInv, NEW a \in Attempts, ClaimUpsert(a)
    PROVE  Fence'
<1>1. /\ UNCHANGED << cur, expected, ledger, execBy >>
      /\ pc[a] = "selected" /\ pc'[a] = "load"
      /\ \A b \in Attempts : b # a => pc'[b] = pc[b] /\ epoch'[b] = epoch[b]
      /\ holder' = a
      /\ epoch'[a] = lastEpoch + 1
      /\ lastEpoch' = lastEpoch + 1
  BY DEF ClaimUpsert, Goto, IInv, TypeOK, local, tools
<1>2. lastEpoch \in Nat /\ \A b \in Attempts : epoch[b] \in Nat /\ epoch[b] <= lastEpoch
  BY DEF IInv, TypeOK, EpochBound
<1>3. \A b \in Attempts : b # a => epoch'[b] < epoch'[a]
  BY <1>1, <1>2
<1>4. HolderNewest' /\ EpochBound' /\ AtMostOnce'
  BY <1>1, <1>2, <1>3 DEF IInv, HolderNewest, EpochBound, AtMostOnce
<1>5. ASSUME NEW s \in Steps, NEW b \in Attempts
      PROVE  /\ Called(b, s)' <=> Called(b, s)
             /\ Fenced(b, s)' => Fenced(b, s)
             /\ PreFence(b, s)' => PreFence(b, s) /\ b # a
             /\ cur'[b] = s /\ pc'[b] \in {"started", "emitted"}
                  => cur[b] = s /\ pc[b] \in {"started", "emitted"}
  BY <1>1 DEF Called, Fenced, PreFence
<1>6. \A s \in Steps, b \in Attempts : Marked(b, s)' => Marked(b, s)
  BY <1>5 DEF Marked
<1>7. LedgerMarked'
  BY <1>1, <1>5, <1>6 DEF IInv, LedgerMarked
<1>8. FencedLater'
  <2> SUFFICES ASSUME NEW s \in Steps, NEW x \in Attempts, NEW b \in Attempts,
                      Marked(x, s)', PreFence(b, s)'
               PROVE  epoch'[b] < epoch'[x]
    BY DEF FencedLater
  <2>1. b # a /\ epoch[b] < epoch[x]
    BY <1>5, <1>6 DEF IInv, FencedLater
  <2> QED
    BY <1>1, <1>3, <2>1
<1>9. MarkedOnce'
  BY <1>6 DEF IInv, MarkedOnce
<1>10. FencedNotCalled'
  BY <1>1, <1>5 DEF IInv, FencedNotCalled
<1> QED
  BY <1>4, <1>7, <1>8, <1>9, <1>10 DEF Fence

LEMMA FenceStep ==
    ASSUME IInv, [Next]_vars
    PROVE  Fence'
<1> DEFINE Away(a) ==
             /\ UNCHANGED << holder, epoch, lastEpoch, execBy, expected >>
             /\ Moves(a) /\ pc'[a] \notin FencePoints
             /\ \A b \in Attempts \ {a} : cur'[b] = cur[b]
             /\ \A s \in Steps : ledger[s] # "none" => ledger'[s] # "none"
           Still ==
             /\ UNCHANGED << holder, epoch, lastEpoch, execBy, expected, cur, ledger >>
             /\ \A b \in Attempts : pc'[b] = pc[b]
<1>1. ASSUME NEW a \in Attempts, Away(a) PROVE Fence'
  BY <1>1, StepBack
<1>2. ASSUME Still PROVE Fence'
  BY <1>2, Retreat
<1> HIDE DEF Away, Still
<1>3. TypeOK
  BY DEF IInv
<1>4. {"selected", "set_running", "set_pending", "give_up", "set_given_up", "set_done", "complete",
       "stopped", "set_stray", "node_finished", "job_failed", "finished", "set_finished",
       "catchup_finished"} \subseteq Points \ FencePoints
  BY PointTypes DEF Points, RunPoints, FencePoints
<1>5. CASE UNCHANGED vars
  BY <1>2, <1>5 DEF Still, vars
<1>6. CASE Expire \/ JobMessage \/ \E a \in Attempts : Heartbeat(a)
  BY <1>2, <1>6 DEF Still, Expire, JobMessage, Heartbeat, lease, local, tools
<1>7. ASSUME NEW c \in Clients, SignalCheck(c) \/ SignalAppend(c) \/ SignalWake(c) PROVE Fence'
  <2>1. \A b \in Attempts : b # c
    BY JobRunAssumption
  <2> QED
    BY <1>2, <1>3, <1>7, <2>1
       DEF Still, SignalCheck, SignalAppend, SignalWake, Goto, TypeOK, lease, local, tools
<1>8. ASSUME NEW a \in Attempts,
             \/ ClaimSelect(a) \/ Load(a) \/ WorkerFailed(a) \/ WorkerCompleted(a)
             \/ WrapUp(a) \/ ValidateAttempt(a) \/ Recover(a)
      PROVE  Fence'
  <2>1. Away(a)
    BY <1>3, <1>4, <1>8
       DEF Away, Moves, Goto, ClaimSelect, Load, WorkerFailed, WorkerCompleted, WrapUp,
           ValidateAttempt, Recover, TypeOK, lease, local, tools
  <2> QED
    BY <1>1, <2>1
<1>9. ASSUME NEW a \in Attempts, PutEffect(a) \/ SetFinished(a) PROVE Fence'
  <2>1. ledger \in [Steps -> {"none", "started", "committed"}]
    BY <1>3 DEF TypeOK
  <2>2. \A s \in Steps : ledger[s] # "none" => ledger'[s] # "none"
    BY <1>9, <2>1 DEF PutEffect, SetFinished
  <2>3. Away(a)
    BY <1>3, <1>4, <1>9, <2>2
       DEF Away, Moves, Goto, PutEffect, SetFinished, TypeOK, lease, local
  <2> QED
    BY <1>1, <2>3
<1>10. ASSUME NEW a \in Attempts, UpdateStatus(a) PROVE Fence'
  <2>1. AfterStatus(pc[a], TRUE) \in Points \ FencePoints
        /\ AfterStatus(pc[a], FALSE) \in Points \ FencePoints
    BY <1>10, AfterStatusFacts DEF UpdateStatus, Points
  <2>2. Away(a)
    BY <1>3, <1>10, <2>1 DEF Away, Moves, Goto, UpdateStatus, TypeOK, lease, local, tools
  <2> QED
    BY <1>1, <2>2
<1>11. ASSUME NEW a \in Attempts, Replay(a) \/ Rebuild(a) PROVE Fence'
  <2>1. RunnerMoves(a)
    BY <1>3, <1>11, ReplayMoves
  <2>2. Away(a)
    BY <1>11, <2>1 DEF Away, RunnerMoves, Replay, Rebuild, lease, tools
  <2> QED
    BY <1>1, <2>2
<1>12. ASSUME NEW a \in Attempts, ReplayCheckpoint(a) \/ Checkpoint(a) PROVE Fence'
  <2>1. RunnerMoves(a)
    BY <1>3, <1>12, CheckpointMoves
  <2>2. Away(a)
    BY <1>12, <2>1 DEF Away, RunnerMoves, ReplayCheckpoint, Checkpoint, lease, tools
  <2> QED
    BY <1>1, <2>2
<1>13. ASSUME NEW a \in Attempts, LedgerGet(a) PROVE Fence'
  <2>1. CASE pc'[a] = "set_started"
    BY <1>13, <2>1, AcquireStep
  <2>2. CASE pc'[a] # "set_started"
    <3>1. Away(a)
      BY <1>3, <1>4, <1>13, <2>2 DEF Away, Moves, Goto, LedgerGet, TypeOK, lease, local, tools
    <3> QED
      BY <1>1, <3>1
  <2> QED
    BY <2>1, <2>2
<1> QED
  BY <1>5, <1>6, <1>7, <1>8, <1>9, <1>10, <1>11, <1>12, <1>13,
     ClaimStep, SetStartedStep, AppendCheckStep, AppendInsertStep, ExecuteStep DEF Next

LEMMA InitInv == Init => IInv
<1> SUFFICES ASSUME Init PROVE IInv
  OBVIOUS
<1>1. TypeOK
  <2>1. {"unclaimed", "idle"} \subseteq Points
    BY DEF Points, RunPoints
  <2>2. [type |-> "plan_generated", step |-> 0] \in [type : EventTypes, step : Nat]
    BY DEF EventTypes
  <2>3. log \in Seq([type : EventTypes, step : Nat])
    BY <2>2 DEF Init
  <2>4. execBy \in [Steps -> Seq(Attempts)]
    BY DEF Init
  <2> QED
    BY <2>1, <2>3, <2>4 DEF Init, TypeOK, Points
<1>2. \A s \in Steps, a \in Attempts : ~ PreFence(a, s) /\ ~ Marked(a, s)
        /\ pc[a] \notin {"started", "emitted"}
  <2> TAKE s \in Steps, a \in Attempts
  <2>1. pc[a] = "unclaimed" /\ execBy[s] = << >>
    BY DEF Init
  <2>2. ~ Called(a, s)
    BY <2>1 DEF Called
  <2> QED
    BY <2>1, <2>2 DEF PreFence, Marked, Fenced
<1>3. LedgerMarked /\ FencedLater /\ MarkedOnce /\ FencedNotCalled
  BY <1>2 DEF LedgerMarked, FencedLater, MarkedOnce, FencedNotCalled, Marked
<1>4. HolderNewest /\ EpochBound /\ AppendsPending /\ AtMostOnce
  BY JobRunAssumption DEF Init, HolderNewest, EpochBound, AppendsPending, AtMostOnce
<1> QED
  BY <1>1, <1>3, <1>4 DEF IInv

LEMMA NextInv == IInv /\ [Next]_vars => IInv'
<1> SUFFICES ASSUME IInv, [Next]_vars PROVE IInv'
  OBVIOUS
<1>1. TypeOK' /\ AppendsPending'
  BY TypeStep DEF IInv
<1>2. Fence'
  BY FenceStep
<1> QED
  BY <1>1, <1>2 DEF IInv, Fence

\* Every state of a run has the declared shape: the stream and rows keep their
\* types whatever the attempts and clients do.
THEOREM JobTypeCorrect == Spec => []TypeOK
<1>1. IInv => TypeOK
  BY DEF IInv
<1> QED
  BY <1>1, InitInv, NextInv, PTL DEF Spec

\* The tool of a step is called at most once, for every plan, policy, number of
\* attempts and number of failing store calls: the ledger lets several attempts
\* through, the lease check of command_emitted only the newest of them.
THEOREM NeverTwice == Spec => []AtMostOnce
<1>1. IInv => AtMostOnce
  BY DEF IInv
<1> QED
  BY <1>1, InitInv, NextInv, PTL DEF Spec
=============================================================================
