---------------------------- MODULE DurabilitySdkProofs ----------------------------
(***************************************************************************)
(* Proofs about DurabilitySdk, in four layers that rest on one another:    *)
(* where an Execute is and the types of its copies (Local), versions that  *)
(* never run ahead of the events (Versions), results that are there only   *)
(* when their function was called (Progress), and what an Execute that     *)
(* never overlapped another may rely on (Alone, Quiet).                    *)
(***************************************************************************)
EXTENDS DurabilitySdk, TLAPS

-----------------------------------------------------------------------------
(* The inductive invariants *)

\* Places inside Wrap where the caller holds a copy of its ledger row.
Holding == {"reset", "acquire", "acquired", "call", "fail", "commit", "committed"}

\* Places inside the attempts of a step, before its result is merged.
InStep == Holding \cup {"load", "failed", "save_failed", "finished"}

\* Places between two steps.
Between == {"mark", "step_started", "save_checkpoint", "checkpoint_saved", "progress",
            "complete", "job_completed"}

\* Places reached only after a call of the step's function.
Called == {"fail", "commit", "committed", "finished"}

\* The places of Wrap before the commit.
Trying == Holding \ {"committed"}

\* The places after the row of the job was marked running.
Marked == (InStep \cup Between) \ {"mark"}

RowType == [state : JobStates, version : Nat]
CheckpointType == [step : 0..N, state : SUBSET Steps]
ExecType == [at : Places, step : 0..N, version : Nat, attempt : 0..MaxRetries,
             state : SUBSET Steps, entry : Nat]

\* TypeOK without the order of versions and events.
Typed ==
    /\ job \in RowType
    /\ events \in Nat
    /\ checkpoint \in CheckpointType
    /\ ledger \in [Steps -> RowType]
    /\ entries \in [Steps -> Nat]
    /\ start \in {"save", "append", "version", "done"}
    /\ exec \in [Executors -> ExecType]
    /\ calls \in [Steps -> Nat]
    /\ begun \in 0..MaxCalls
    /\ failures \in 0..MaxFaults
    /\ outages \in 0..MaxFaults
    /\ failures + outages <= MaxFaults
    /\ overlapped \in BOOLEAN
    /\ refused \in BOOLEAN

\* A step begins only below N and the job ends only at N.
Positioned(x) ==
    /\ x.at = "step_started" => x.step < N
    /\ x.at \in {"complete", "job_completed"} => x.step = N
    /\ x.at \in InStep => x.step \in Steps

Local == Typed /\ \A e \in Executors : Positioned(exec[e])

\* The versions that an Execute holds are versions that were given out.
Held(x) ==
    /\ x.version <= events
    /\ x.at \in Holding => x.entry <= entries[x.step]
    /\ x.at \notin Holding => x.entry = 0

Versions ==
    /\ start # "done" => \A e \in Executors : exec[e].at = "idle"
    /\ start = "append" => job.version = 0 /\ events = 0
    /\ start = "version" => events = 1
    /\ start = "save" => events = 0
    /\ job.version <= events
    /\ \A i \in Steps : ledger[i].version <= entries[i]
    /\ \A e \in Executors : Held(exec[e])

\* The state of an Execute holds the steps it is past, each of them called.
Done(x) ==
    /\ x.at \in InStep => x.state = 1..(x.step - 1)
    /\ x.at \in Between => x.state = 1..x.step
    /\ \A i \in x.state : calls[i] > 0
    /\ x.at \in Called => calls[x.step] > 0

Progress ==
    /\ \A e \in Executors : Done(exec[e])
    /\ \A i \in Steps : ledger[i].state = "completed" => calls[i] > 0
    /\ job.state = "completed" => \A i \in Steps : calls[i] > 0
    /\ CheckpointComplete
    /\ InOrder

\* What the ledger says of the steps an Execute is past, and of the one it is in.
Kept(x) ==
    /\ \A i \in x.state : ledger[i].state = "completed"
    /\ x.at \in {"committed", "finished"} => ledger[x.step].state = "completed"
    /\ x.at \in Trying => ledger[x.step].state # "completed"

Alone ==
    ~overlapped =>
        /\ \A e, f \in Executors : exec[e].at # "idle" /\ exec[f].at # "idle" => e = f
        /\ \A i \in checkpoint.state : ledger[i].state = "completed"
        /\ job.state = "completed" => \A i \in Steps : ledger[i].state = "completed"
        /\ \A e \in Executors : Kept(exec[e])

\* The copies of an Execute that is alone, while no store call failed.
Synced(x) ==
    /\ x.at \in {"checkpoint", "mark"} => x.version = events
    /\ x.at \in Marked => x.version = events /\ job.version = events
    /\ x.at \in Holding => x.entry = ledger[x.step].version

Quiet ==
    ~overlapped /\ outages = 0 =>
        /\ ~refused
        /\ \A i \in Steps : ledger[i].version = entries[i]
        /\ \A e \in Executors : Synced(exec[e])

-----------------------------------------------------------------------------
(* What each step does to the copies of its Execute *)

\* e goes on with these copies, and the other calls of Execute are left alone.
Move(e, at, step, version, attempt, state, entry) ==
    /\ exec' \in [Executors -> ExecType]
    /\ exec'[e].at = at
    /\ exec'[e].step = step
    /\ exec'[e].version = version
    /\ exec'[e].attempt = attempt
    /\ exec'[e].state = state
    /\ exec'[e].entry = entry
    /\ \A f \in Executors : f # e => exec'[f] = exec[f]

\* The types of the copies.
LEMMA Copies ==
    ASSUME Typed, NEW e \in Executors
    PROVE  /\ exec[e] \in ExecType
           /\ exec[e].at \in Places
           /\ exec[e].step \in 0..N
           /\ exec[e].version \in Nat
           /\ exec[e].attempt \in 0..MaxRetries
           /\ exec[e].state \in SUBSET Steps
           /\ exec[e].entry \in Nat
BY DEF Typed, ExecType

\* The types of the rows.
LEMMA Rows ==
    ASSUME Typed
    PROVE  /\ job.state \in JobStates /\ job.version \in Nat
           /\ checkpoint.step \in 0..N /\ checkpoint.state \in SUBSET Steps
           /\ \A i \in Steps : ledger[i].state \in JobStates /\ ledger[i].version \in Nat
BY DEF Typed, RowType, CheckpointType

\* Replacing the whole record of e.
LEMMA MoveTo ==
    ASSUME exec \in [Executors -> ExecType], NEW e \in Executors, NEW r \in ExecType,
           exec' = [exec EXCEPT ![e] = r]
    PROVE  Move(e, r.at, r.step, r.version, r.attempt, r.state, r.entry)
BY DEF Move

\* Goto changes the place only.
LEMMA GotoMove ==
    ASSUME exec \in [Executors -> ExecType], NEW e \in Executors, NEW at \in Places, Goto(e, at)
    PROVE  Move(e, at, exec[e].step, exec[e].version, exec[e].attempt, exec[e].state, exec[e].entry)
BY DEF Goto, Move, ExecType

\* Return drops every copy.
LEMMA ReturnMove ==
    ASSUME exec \in [Executors -> ExecType], NEW e \in Executors, Return(e)
    PROVE  Move(e, "idle", 0, 0, 0, {}, 0)
<1>1. Idle \in ExecType
  BY DurabilitySdkAssumption DEF Idle, ExecType, Places
<1> QED BY <1>1, MoveTo DEF Return, Idle

\* LoadJob goes on to the list of events.
LEMMA LoadJobMove ==
    ASSUME Typed, NEW e \in Executors, LoadJob(e)
    PROVE  Move(e, "list", exec[e].step, exec[e].version, exec[e].attempt, exec[e].state, exec[e].entry)
<1>1. "list" \in Places BY DEF Places
<1> QED BY <1>1, GotoMove DEF LoadJob, Typed

\* ListEvents takes the number of events as its version.
LEMMA ListEventsMove ==
    ASSUME Typed, NEW e \in Executors, ListEvents(e)
    PROVE  Move(e, "checkpoint", exec[e].step, events, exec[e].attempt, exec[e].state, exec[e].entry)
<1>1. "checkpoint" \in Places BY DEF Places
<1> QED BY <1>1 DEF ListEvents, Typed, Move, ExecType

\* LoadCheckpoint takes the checkpoint's step and state.
LEMMA LoadCheckpointMove ==
    ASSUME Typed, NEW e \in Executors, LoadCheckpoint(e)
    PROVE  Move(e, "mark", checkpoint.step, exec[e].version, exec[e].attempt, checkpoint.state,
                exec[e].entry)
<1>1. "mark" \in Places BY DEF Places
<1> QED BY <1>1 DEF LoadCheckpoint, Typed, Move, ExecType, CheckpointType

\* Both writers of a running row go on to the next step, or to the end.
LEMMA NextStepMove ==
    ASSUME Typed, NEW e \in Executors, MarkRunning(e) \/ SaveProgress(e)
    PROVE  Move(e, StepAfter(exec[e].step), exec[e].step, exec[e].version, exec[e].attempt,
                exec[e].state, exec[e].entry)
<1>1. StepAfter(exec[e].step) \in Places BY DEF Places, StepAfter
<1> QED BY <1>1, GotoMove DEF MarkRunning, SaveProgress, Typed

\* An accepted step_started enters the next step, a refused one ends the Execute.
LEMMA StepStartedMove ==
    ASSUME Local, NEW e \in Executors, StepStarted(e)
    PROVE  IF Accepted(job, events, exec[e].version)
           THEN Move(e, "load", exec[e].step + 1, exec[e].version + 1, 1, exec[e].state, exec[e].entry)
           ELSE Move(e, "idle", 0, 0, 0, {}, 0)
<1>1. CASE Accepted(job, events, exec[e].version)
  <2> DEFINE x == exec[e]
             i == exec[e].step + 1
             v == exec[e].version + 1
             r == [x EXCEPT !.at = "load", !.step = i, !.version = v, !.attempt = 1]
  <2>1. x \in ExecType /\ i \in 0..N /\ v \in Nat /\ "load" \in Places /\ 1 \in 0..MaxRetries
    BY Copies, DurabilitySdkAssumption DEF Local, StepStarted, Positioned, Places
  <2>2. exec' = [exec EXCEPT ![e] = r]
    BY <1>1 DEF StepStarted
  <2> HIDE DEF x, i, v
  <2>3. /\ r \in ExecType
        /\ r.at = "load" /\ r.step = i /\ r.version = v /\ r.attempt = 1
        /\ r.state = x.state /\ r.entry = x.entry
    BY <2>1 DEF ExecType
  <2> HIDE DEF r
  <2>4. Move(e, r.at, r.step, r.version, r.attempt, r.state, r.entry)
    BY <2>2, <2>3, MoveTo DEF Local, Typed
  <2>5. Move(e, "load", i, v, 1, x.state, x.entry)
    BY <2>3, <2>4
  <2> QED BY <1>1, <2>5 DEF x, i, v
<1>2. CASE ~Accepted(job, events, exec[e].version)
  BY <1>2, ReturnMove DEF StepStarted, Return, Local, Typed
<1> QED BY <1>1, <1>2

\* The version that AppendEvent returns is a number.
LEMMA NewVersionNat ==
    ASSUME Typed, NEW e \in Executors
    PROVE  NewVersion(job, events, exec[e].version) \in Nat
BY Copies, Rows DEF NewVersion

\* The append whose error is dropped: the version is the one it returned, or 0.
Dropped(e, at, attempt, state) ==
    \/ /\ AppendEvent(exec[e].version)
       /\ Move(e, at, exec[e].step, NewVersion(job, events, exec[e].version), attempt, state,
               exec[e].entry)
       /\ UNCHANGED outages
    \/ /\ MoreFaults
       /\ outages' = outages + 1
       /\ Move(e, at, exec[e].step, 0, attempt, state, exec[e].entry)
       /\ UNCHANGED << events, job >>

\* A record with another version.
LEMMA VersionRecord ==
    ASSUME NEW x \in ExecType, NEW v \in Nat
    PROVE  LET r == [x EXCEPT !.version = v] IN
           /\ r \in ExecType
           /\ r.at = x.at /\ r.step = x.step /\ r.version = v /\ r.attempt = x.attempt
           /\ r.state = x.state /\ r.entry = x.entry
BY DEF ExecType

\* An append whose error is dropped, from the record it goes on with.
LEMMA AppendDroppedMove ==
    ASSUME Typed, NEW e \in Executors, NEW x \in ExecType, AppendDropped(e, x),
           x.step = exec[e].step, x.entry = exec[e].entry
    PROVE  Dropped(e, x.at, x.attempt, x.state)
<1> DEFINE r(v) == [x EXCEPT !.version = v]
<1>1. ASSUME NEW v \in Nat, exec' = [exec EXCEPT ![e] = r(v)]
      PROVE  Move(e, x.at, x.step, v, x.attempt, x.state, x.entry)
  <2>1. /\ r(v) \in ExecType
        /\ r(v).at = x.at /\ r(v).step = x.step /\ r(v).version = v /\ r(v).attempt = x.attempt
        /\ r(v).state = x.state /\ r(v).entry = x.entry
    BY VersionRecord
  <2> HIDE DEF r
  <2>2. Move(e, r(v).at, r(v).step, r(v).version, r(v).attempt, r(v).state, r(v).entry)
    BY <1>1, <2>1, MoveTo DEF Typed
  <2> QED BY <2>1, <2>2
<1>2. CASE /\ AppendEvent(exec[e].version)
           /\ exec' = [exec EXCEPT ![e] = r(NewVersion(job, events, exec[e].version))]
           /\ UNCHANGED outages
  <2> HIDE DEF r
  <2> QED BY <1>1, <1>2, NewVersionNat DEF Dropped
<1>3. CASE /\ MoreFaults
           /\ outages' = outages + 1
           /\ exec' = [exec EXCEPT ![e] = r(0)]
           /\ UNCHANGED << events, job >>
  <2> HIDE DEF r
  <2> QED BY <1>1, <1>3 DEF Dropped
<1> QED BY <1>2, <1>3 DEF AppendDropped

\* A record with another place.
LEMMA PlaceRecord ==
    ASSUME NEW x \in ExecType, NEW p \in Places
    PROVE  LET r == [x EXCEPT !.at = p] IN
           /\ r \in ExecType
           /\ r.at = p /\ r.step = x.step /\ r.attempt = x.attempt
           /\ r.state = x.state /\ r.entry = x.entry
BY DEF ExecType

\* StepRetried goes back to the ledger with one more attempt.
LEMMA StepRetriedMove ==
    ASSUME Typed, NEW e \in Executors, StepRetried(e)
    PROVE  Dropped(e, "load", exec[e].attempt + 1, exec[e].state)
<1> DEFINE x == exec[e]
           a == exec[e].attempt + 1
           r == [x EXCEPT !.at = "load", !.attempt = a]
<1>1. x \in ExecType /\ a \in 0..MaxRetries /\ "load" \in Places
  BY Copies, DurabilitySdkAssumption DEF StepRetried, Places
<1>2. AppendDropped(e, r)
  BY DEF StepRetried
<1> HIDE DEF x, a
<1>3. /\ r \in ExecType
      /\ r.at = "load" /\ r.step = x.step /\ r.attempt = a /\ r.state = x.state /\ r.entry = x.entry
  BY <1>1 DEF ExecType
<1> HIDE DEF r
<1>4. Dropped(e, r.at, r.attempt, r.state)
  BY <1>2, <1>3, AppendDroppedMove DEF x
<1>5. Dropped(e, "load", a, x.state)
  BY <1>3, <1>4
<1> QED BY <1>5 DEF x, a

\* StepFailed goes on to save the failed job.
LEMMA StepFailedMove ==
    ASSUME Typed, NEW e \in Executors, StepFailed(e)
    PROVE  Dropped(e, "save_failed", exec[e].attempt, exec[e].state)
<1> DEFINE r == [exec[e] EXCEPT !.at = "save_failed"]
<1>1. "save_failed" \in Places
  BY DEF Places
<1>2. /\ r \in ExecType
      /\ r.at = "save_failed" /\ r.step = exec[e].step /\ r.attempt = exec[e].attempt
      /\ r.state = exec[e].state /\ r.entry = exec[e].entry
  BY <1>1, Copies, PlaceRecord
<1>3. AppendDropped(e, r)
  BY DEF StepFailed
<1> HIDE DEF r
<1>4. Dropped(e, r.at, r.attempt, r.state)
  BY <1>2, <1>3, AppendDroppedMove
<1> QED BY <1>2, <1>4

\* StepFinished merges the step's result into the state.
LEMMA StepFinishedMove ==
    ASSUME Local, NEW e \in Executors, StepFinished(e)
    PROVE  Dropped(e, "save_checkpoint", 0, exec[e].state \cup {exec[e].step})
<1> DEFINE x == exec[e]
           s == exec[e].state \cup {exec[e].step}
           r == [x EXCEPT !.at = "save_checkpoint", !.attempt = 0, !.state = s]
<1>1. x \in ExecType /\ s \in SUBSET Steps /\ 0 \in 0..MaxRetries /\ "save_checkpoint" \in Places
  BY Copies, DurabilitySdkAssumption DEF Local, Positioned, InStep, StepFinished, Places
<1>2. AppendDropped(e, r)
  BY DEF StepFinished
<1> HIDE DEF x, s
<1>3. /\ r \in ExecType
      /\ r.at = "save_checkpoint" /\ r.step = x.step /\ r.attempt = 0
      /\ r.state = s /\ r.entry = x.entry
  BY <1>1 DEF ExecType
<1> HIDE DEF r
<1>4. Dropped(e, r.at, r.attempt, r.state)
  BY <1>2, <1>3, AppendDroppedMove DEF Local, x
<1>5. Dropped(e, "save_checkpoint", 0, s)
  BY <1>3, <1>4
<1> QED BY <1>5 DEF s

\* CheckpointSaved goes on to save the progress.
LEMMA CheckpointSavedMove ==
    ASSUME Typed, NEW e \in Executors, CheckpointSaved(e)
    PROVE  Dropped(e, "progress", exec[e].attempt, exec[e].state)
<1> DEFINE r == [exec[e] EXCEPT !.at = "progress"]
<1>1. "progress" \in Places
  BY DEF Places
<1>2. /\ r \in ExecType
      /\ r.at = "progress" /\ r.step = exec[e].step /\ r.attempt = exec[e].attempt
      /\ r.state = exec[e].state /\ r.entry = exec[e].entry
  BY <1>1, Copies, PlaceRecord
<1>3. AppendDropped(e, r)
  BY DEF CheckpointSaved
<1> HIDE DEF r
<1>4. Dropped(e, r.at, r.attempt, r.state)
  BY <1>2, <1>3, AppendDroppedMove
<1> QED BY <1>2, <1>4

\* The steps that only change the place.
LEMMA PlaceMoves ==
    ASSUME Typed, NEW e \in Executors
    PROVE  LET To(at) == Move(e, at, exec[e].step, exec[e].version, exec[e].attempt,
                              exec[e].state, exec[e].entry) IN
           /\ SaveCheckpoint(e) => To("checkpoint_saved")
           /\ SaveCompleted(e) => To("job_completed")
           /\ LedgerReset(e) => To("acquire")
           /\ LedgerAcquire(e) => To("acquired")
           /\ Call(e) => \/ To("commit") /\ UNCHANGED failures
                         \/ To("fail") /\ failures' = failures + 1 /\ MoreFaults
           /\ LedgerCommit(e) => To("committed")
<1> DEFINE To(at) == Move(e, at, exec[e].step, exec[e].version, exec[e].attempt,
                          exec[e].state, exec[e].entry)
<1>1. ASSUME NEW at \in Places, Goto(e, at)
      PROVE  To(at)
  BY <1>1, GotoMove DEF Typed
<1>2. {"checkpoint_saved", "job_completed", "acquire", "acquired", "commit", "fail", "committed"}
        \subseteq Places
  BY DEF Places
<1> HIDE DEF To
<1>3. SaveCheckpoint(e) => To("checkpoint_saved")
  BY <1>1, <1>2 DEF SaveCheckpoint
<1>4. SaveCompleted(e) => To("job_completed")
  BY <1>1, <1>2 DEF SaveCompleted
<1>5. LedgerReset(e) => To("acquire")
  BY <1>1, <1>2 DEF LedgerReset
<1>6. LedgerAcquire(e) => To("acquired")
  BY <1>1, <1>2 DEF LedgerAcquire
<1>7. Call(e) => \/ To("commit") /\ UNCHANGED failures
                 \/ To("fail") /\ failures' = failures + 1 /\ MoreFaults
  BY <1>1, <1>2 DEF Call
<1>8. LedgerCommit(e) => To("committed")
  BY <1>1, <1>2 DEF LedgerCommit
<1> QED BY <1>3, <1>4, <1>5, <1>6, <1>7, <1>8 DEF To

\* A record with another place and entry.
LEMMA EntryMove ==
    ASSUME Typed, NEW e \in Executors, NEW p \in Places, NEW n \in Nat,
           \/ exec' = [exec EXCEPT ![e] = [exec[e] EXCEPT !.at = p, !.entry = n]]
           \/ exec' = [exec EXCEPT ![e].at = p, ![e].entry = n]
    PROVE  Move(e, p, exec[e].step, exec[e].version, exec[e].attempt, exec[e].state, n)
<1>1. exec \in [Executors -> ExecType]
  BY DEF Typed
<1>2. CASE exec' = [exec EXCEPT ![e] = [exec[e] EXCEPT !.at = p, !.entry = n]]
  BY <1>1, <1>2 DEF ExecType, Move
<1>3. CASE exec' = [exec EXCEPT ![e].at = p, ![e].entry = n]
  BY <1>1, <1>3 DEF ExecType, Move
<1> QED BY <1>2, <1>3

\* Without a committed row LedgerLoad keeps a copy of the row's version.
LEMMA LedgerLoadMove ==
    ASSUME Local, NEW e \in Executors, LedgerLoad(e)
    PROVE  LET row == ledger[exec[e].step] IN
           IF row.state = "completed"
           THEN Move(e, "finished", exec[e].step, exec[e].version, exec[e].attempt, exec[e].state,
                     exec[e].entry)
           ELSE \E p \in {"reset", "acquire"} :
                    Move(e, p, exec[e].step, exec[e].version, exec[e].attempt, exec[e].state, row.version)
<1> DEFINE row == ledger[exec[e].step]
           p == IF row.state = "running" THEN "reset" ELSE "acquire"
<1>1. row.version \in Nat /\ p \in {"reset", "acquire"} /\ {"reset", "acquire", "finished"} \subseteq Places
  BY Rows DEF LedgerLoad, Local, Positioned, InStep, Places
<1>2. CASE row.state = "completed"
  <2>1. Goto(e, "finished")
    BY <1>2 DEF LedgerLoad, Goto
  <2> QED BY <2>1, <1>1, <1>2, GotoMove DEF Local, Typed
<1>3. CASE row.state # "completed"
  <2>1. exec' = [exec EXCEPT ![e] = [exec[e] EXCEPT !.at = p, !.entry = row.version]]
    BY <1>3 DEF LedgerLoad
  <2> HIDE DEF p
  <2>2. Move(e, p, exec[e].step, exec[e].version, exec[e].attempt, exec[e].state, row.version)
    BY <2>1, <1>1, EntryMove DEF Local
  <2> QED BY <2>2, <1>1, <1>3
<1> QED BY <1>2, <1>3

\* An accepted ledger_acquired goes on to the call, a refused one fails the attempt.
LEMMA LedgerAcquiredMove ==
    ASSUME Local, NEW e \in Executors, LedgerAcquired(e)
    PROVE  IF Accepted(ledger[exec[e].step], entries[exec[e].step], exec[e].entry)
           THEN Move(e, "call", exec[e].step, exec[e].version, exec[e].attempt, exec[e].state,
                     exec[e].entry + 1)
           ELSE Move(e, "failed", exec[e].step, exec[e].version, exec[e].attempt, exec[e].state, 0)
<1> DEFINE n == exec[e].entry + 1
           ok == Accepted(ledger[exec[e].step], entries[exec[e].step], exec[e].entry)
<1>1. n \in Nat /\ {"call", "failed"} \subseteq Places
  BY Copies DEF Local, Places
<1>2. CASE ok
  <2>1. exec' = [exec EXCEPT ![e] = [exec[e] EXCEPT !.at = "call", !.entry = n]]
    BY <1>2 DEF LedgerAcquired
  <2> HIDE DEF n
  <2>2. Move(e, "call", exec[e].step, exec[e].version, exec[e].attempt, exec[e].state, n)
    BY <2>1, <1>1, EntryMove DEF Local
  <2> QED BY <2>2, <1>2 DEF n
<1>3. CASE ~ok
  <2>1. exec' = [exec EXCEPT ![e] = [exec[e] EXCEPT !.at = "failed", !.entry = 0]]
    BY <1>3 DEF LedgerAcquired
  <2>2. Move(e, "failed", exec[e].step, exec[e].version, exec[e].attempt, exec[e].state, 0)
    BY <2>1, <1>1, EntryMove DEF Local
  <2> QED BY <2>2, <1>3
<1> QED BY <1>2, <1>3

\* LedgerFail fails the attempt.
LEMMA LedgerFailMove ==
    ASSUME Typed, NEW e \in Executors, LedgerFail(e)
    PROVE  Move(e, "failed", exec[e].step, exec[e].version, exec[e].attempt, exec[e].state, 0)
<1>1. "failed" \in Places BY DEF Places
<1> QED BY <1>1, EntryMove DEF LedgerFail

\* LedgerCommitted finishes the attempt, whether or not its append was accepted.
LEMMA LedgerCommittedMove ==
    ASSUME Typed, NEW e \in Executors, LedgerCommitted(e)
    PROVE  Move(e, "finished", exec[e].step, exec[e].version, exec[e].attempt, exec[e].state, 0)
<1>1. "finished" \in Places BY DEF Places
<1> QED BY <1>1, EntryMove DEF LedgerCommitted

\* Where an Execute goes on after a failed store call of Wrap.
LEMMA LedgerOutageMove ==
    ASSUME Typed, NEW e \in Executors, LedgerOutage(e)
    PROVE  \/ /\ exec[e].at = "reset"
              /\ Move(e, "acquire", exec[e].step, exec[e].version, exec[e].attempt, exec[e].state,
                      exec[e].entry)
           \/ /\ exec[e].at = "committed"
              /\ Move(e, "finished", exec[e].step, exec[e].version, exec[e].attempt, exec[e].state, 0)
           \/ /\ exec[e].at \in {"load", "acquire", "acquired", "fail", "commit"}
              /\ Move(e, "failed", exec[e].step, exec[e].version, exec[e].attempt, exec[e].state, 0)
<1>1. {"acquire", "finished", "failed"} \subseteq Places BY DEF Places
<1>2. CASE exec[e].at = "reset"
  <2>1. Goto(e, "acquire")
    BY <1>2 DEF LedgerOutage, Goto
  <2> QED BY <1>1, <1>2, <2>1, GotoMove DEF Typed
<1>3. CASE exec[e].at = "committed"
  <2>1. exec' = [exec EXCEPT ![e] = [exec[e] EXCEPT !.at = "finished", !.entry = 0]]
    BY <1>3 DEF LedgerOutage
  <2> QED BY <1>1, <1>3, <2>1, EntryMove
<1>4. CASE exec[e].at \notin {"reset", "committed"}
  <2>1. exec' = [exec EXCEPT ![e] = [exec[e] EXCEPT !.at = "failed", !.entry = 0]]
    BY <1>4 DEF LedgerOutage
  <2>2. exec[e].at \in {"load", "acquire", "acquired", "fail", "commit"}
    BY <1>4 DEF LedgerOutage
  <2> QED BY <1>1, <2>1, <2>2, EntryMove
<1> QED BY <1>2, <1>3, <1>4

-----------------------------------------------------------------------------
(* What each step does to the rows *)

\* AppendEvent keeps the row's state, and at the row's own version it is accepted.
LEMMA AppendEventEffect ==
    ASSUME Typed, NEW v \in Nat, AppendEvent(v)
    PROVE  /\ job' \in RowType /\ events' \in Nat
           /\ job'.state = job.state
           /\ events <= events'
           /\ job.version <= events => job'.version <= events' /\ NewVersion(job, events, v) <= events'
           /\ job.version = v /\ events = v =>
                  /\ Accepted(job, events, v)
                  /\ events' = v + 1 /\ job'.version = v + 1 /\ NewVersion(job, events, v) = v + 1
           /\ Accepted(job, events, v) /\ job.version <= events => v + 1 <= events'
<1>1. job \in RowType /\ events \in Nat
  BY DEF Typed
<1>2. CASE Accepted(job, events, v)
  <2>1. events' = events + 1 /\ job' = [job EXCEPT !.version = v + 1]
    BY <1>2 DEF AppendEvent
  <2>2. job' \in RowType /\ job'.state = job.state /\ job'.version = v + 1
    BY <1>1, <2>1 DEF RowType
  <2> QED BY <1>1, <1>2, <2>1, <2>2 DEF Accepted, NewVersion
<1>3. CASE ~Accepted(job, events, v)
  <2>1. events' = events /\ job' = job
    BY <1>3 DEF AppendEvent
  <2> QED BY <1>1, <1>3, <2>1, Rows DEF Accepted, NewVersion
<1> QED BY <1>2, <1>3

\* SaveLedger replaces one row.
LEMMA SaveLedgerEffect ==
    ASSUME Typed, NEW i \in Steps, NEW s \in JobStates, NEW v \in Nat, SaveLedger(i, s, v)
    PROVE  /\ ledger' \in [Steps -> RowType]
           /\ ledger'[i].state = s /\ ledger'[i].version = v
           /\ \A j \in Steps : j # i => ledger'[j] = ledger[j]
<1> DEFINE r == [state |-> s, version |-> v]
<1>1. r \in RowType /\ r.state = s /\ r.version = v
  BY DEF RowType
<1>2. ledger \in [Steps -> RowType] /\ ledger' = [ledger EXCEPT ![i] = r]
  BY DEF Typed, SaveLedger
<1> HIDE DEF r
<1> QED BY <1>1, <1>2

\* AppendEntry keeps the states of the rows, and at the row's own version it is accepted.
LEMMA AppendEntryEffect ==
    ASSUME Typed, NEW i \in Steps, NEW v \in Nat, AppendEntry(i, v)
    PROVE  /\ ledger' \in [Steps -> RowType] /\ entries' \in [Steps -> Nat]
           /\ \A j \in Steps : ledger'[j].state = ledger[j].state /\ entries[j] <= entries'[j]
           /\ \A j \in Steps : j # i => ledger'[j] = ledger[j] /\ entries'[j] = entries[j]
           /\ ledger[i].version <= entries[i] =>
                  /\ ledger'[i].version <= entries'[i]
                  /\ Accepted(ledger[i], entries[i], v) => v + 1 <= entries'[i]
           /\ ledger[i].version = v /\ entries[i] = v =>
                  /\ Accepted(ledger[i], entries[i], v)
                  /\ entries'[i] = v + 1 /\ ledger'[i].version = v + 1
<1>1. ledger \in [Steps -> RowType] /\ entries \in [Steps -> Nat]
  BY DEF Typed
<1>2. CASE Accepted(ledger[i], entries[i], v)
  <2>1. entries' = [entries EXCEPT ![i] = @ + 1] /\ ledger' = [ledger EXCEPT ![i].version = v + 1]
    BY <1>2 DEF AppendEntry
  <2>2. /\ ledger' \in [Steps -> RowType]
        /\ ledger'[i].state = ledger[i].state /\ ledger'[i].version = v + 1
        /\ \A j \in Steps : j # i => ledger'[j] = ledger[j]
    BY <1>1, <2>1 DEF RowType
  <2>3. /\ entries' \in [Steps -> Nat]
        /\ entries'[i] = entries[i] + 1
        /\ \A j \in Steps : j # i => entries'[j] = entries[j]
    BY <1>1, <2>1
  <2> QED BY <1>1, <1>2, <2>2, <2>3 DEF Accepted
<1>3. CASE ~Accepted(ledger[i], entries[i], v)
  <2>1. entries' = entries /\ ledger' = ledger
    BY <1>3 DEF AppendEntry
  <2> QED BY <1>1, <1>3, <2>1, Rows DEF Accepted
<1> QED BY <1>2, <1>3

\* SaveJob replaces the row of the job.
LEMMA SaveJobEffect ==
    ASSUME NEW s \in JobStates, NEW v \in Nat, SaveJob(s, v)
    PROVE  job' \in RowType /\ job'.state = s /\ job'.version = v
BY DEF SaveJob, RowType

-----------------------------------------------------------------------------
(* Types and places *)

\* The places and steps a Move may reach.
LEMMA PositionedMove ==
    ASSUME Local, NEW e \in Executors, NEW at, NEW step, NEW version, NEW attempt, NEW state,
           NEW entry, Move(e, at, step, version, attempt, state, entry),
           at = "step_started" => step < N,
           at \in {"complete", "job_completed"} => step = N,
           at \in InStep => step \in Steps
    PROVE  \A f \in Executors : Positioned(exec[f])'
<1> TAKE f \in Executors
<1>1. CASE f = e
  BY <1>1 DEF Move, Positioned
<1>2. CASE f # e
  BY <1>2 DEF Move, Positioned, Local
<1> QED BY <1>1, <1>2

\* The start of the program.
LEMMA LocalInit == Init => Local
<1> SUFFICES ASSUME Init PROVE Local
  OBVIOUS
<1>1. /\ [state |-> "none", version |-> 0] \in RowType
      /\ [step |-> 0, state |-> {}] \in CheckpointType
      /\ Idle \in ExecType
  BY DurabilitySdkAssumption DEF RowType, CheckpointType, ExecType, JobStates, Places, Idle
<1>2. /\ job \in RowType /\ checkpoint \in CheckpointType /\ ledger \in [Steps -> RowType]
      /\ exec \in [Executors -> ExecType]
  BY <1>1 DEF Init
<1>3. /\ events \in Nat /\ entries \in [Steps -> Nat] /\ calls \in [Steps -> Nat]
      /\ begun \in 0..MaxCalls /\ failures \in 0..MaxFaults /\ outages \in 0..MaxFaults
      /\ failures + outages <= MaxFaults
  BY DurabilitySdkAssumption DEF Init
<1>4. /\ start \in {"save", "append", "version", "done"}
      /\ overlapped \in BOOLEAN /\ refused \in BOOLEAN
  BY DEF Init
<1>5. \A e \in Executors : Positioned(exec[e])
  BY DEF Init, Positioned, Idle, InStep, Holding
<1> QED BY <1>2, <1>3, <1>4, <1>5 DEF Local, Typed

\* Every step keeps types and places.
LEMMA LocalNext == Local /\ [Next]_vars => Local'
<1> SUFFICES ASSUME Local, [Next]_vars
             PROVE  Local'
  OBVIOUS
<1> USE DEF Local
<1>1. ASSUME NEW e \in Executors, LoadJob(e)
      PROVE  Local'
  <2>1. overlapped' \in BOOLEAN
    BY <1>1 DEF LoadJob
  <2>2. begun' \in 0..MaxCalls
    BY <1>1, DurabilitySdkAssumption DEF LoadJob, Typed
  <2>3. \A f \in Executors : Positioned(exec[f])'
    BY <1>1, LoadJobMove, PositionedMove DEF InStep, Holding
  <2> QED BY <1>1, <2>1, <2>2, <2>3, LoadJobMove DEF LoadJob, Typed, Move, store
<1>2. ASSUME NEW e \in Executors, ListEvents(e)
      PROVE  Local'
  BY <1>2, ListEventsMove, PositionedMove DEF ListEvents, Typed, Move, store, faults, InStep, Holding
<1>3. ASSUME NEW e \in Executors, LoadCheckpoint(e)
      PROVE  Local'
  BY <1>3, LoadCheckpointMove, PositionedMove
     DEF LoadCheckpoint, Typed, Move, store, faults, InStep, Holding
<1>4. ASSUME NEW e \in Executors, MarkRunning(e) \/ SaveProgress(e)
      PROVE  Local'
  <2>1. /\ exec[e].version \in Nat /\ "running" \in JobStates /\ exec[e].step \in 0..N
    BY Copies DEF JobStates
  <2>2. job' \in RowType
    BY <1>4, <2>1, SaveJobEffect DEF MarkRunning, SaveProgress
  <2>3. Move(e, StepAfter(exec[e].step), exec[e].step, exec[e].version, exec[e].attempt,
             exec[e].state, exec[e].entry)
    BY <1>4, NextStepMove
  <2>4. /\ StepAfter(exec[e].step) = "step_started" => exec[e].step < N
        /\ StepAfter(exec[e].step) \in {"complete", "job_completed"} => exec[e].step = N
        /\ StepAfter(exec[e].step) \notin InStep
    BY <2>1, DurabilitySdkAssumption DEF StepAfter, InStep, Holding
  <2>5. \A f \in Executors : Positioned(exec[f])'
    BY <2>3, <2>4, PositionedMove
  <2> QED BY <1>4, <2>2, <2>3, <2>5 DEF MarkRunning, SaveProgress, Typed, Move, faults
<1>5. ASSUME NEW e \in Executors, StepStarted(e)
      PROVE  Local'
  <2>1. job' \in RowType /\ events' \in Nat /\ exec[e].version \in Nat /\ exec[e].step \in 0..N
    BY <1>5, Copies, AppendEventEffect DEF StepStarted
  <2>2. exec' \in [Executors -> ExecType]
    BY <1>5, StepStartedMove DEF Move
  <2>3. exec[e].step + 1 \in Steps
    BY <1>5, <2>1, DurabilitySdkAssumption DEF StepStarted, Positioned, Steps
  <2>4. \A f \in Executors : Positioned(exec[f])'
    <3>1. CASE Accepted(job, events, exec[e].version)
      BY <1>5, <3>1, <2>3, StepStartedMove, PositionedMove DEF InStep, Holding
    <3>2. CASE ~Accepted(job, events, exec[e].version)
      BY <1>5, <3>2, StepStartedMove, PositionedMove DEF InStep, Holding
    <3> QED BY <3>1, <3>2
  <2> QED BY <1>5, <2>1, <2>2, <2>4 DEF StepStarted, Typed, faults
<1>6. ASSUME NEW e \in Executors, NEW at, NEW attempt, NEW state, Dropped(e, at, attempt, state),
             at \notin {"step_started", "complete", "job_completed"},
             at \in InStep => exec[e].step \in Steps,
             UNCHANGED << checkpoint, ledger, entries, start, calls, begun, failures, overlapped, refused >>
      PROVE  Local'
  <2>1. exec[e].version \in Nat
    BY Copies
  <2>2. CASE /\ AppendEvent(exec[e].version)
             /\ Move(e, at, exec[e].step, NewVersion(job, events, exec[e].version), attempt, state,
                     exec[e].entry)
             /\ UNCHANGED outages
    <3>1. job' \in RowType /\ events' \in Nat
      BY <2>1, <2>2, AppendEventEffect
    <3>2. \A f \in Executors : Positioned(exec[f])'
      BY <2>2, <1>6, PositionedMove
    <3> QED BY <1>6, <2>2, <3>1, <3>2 DEF Typed, Move
  <2>3. CASE /\ MoreFaults
             /\ outages' = outages + 1
             /\ Move(e, at, exec[e].step, 0, attempt, state, exec[e].entry)
             /\ UNCHANGED << events, job >>
    <3>1. outages' \in 0..MaxFaults /\ failures + outages' <= MaxFaults
      BY <2>3, DurabilitySdkAssumption DEF MoreFaults, Typed
    <3>2. \A f \in Executors : Positioned(exec[f])'
      BY <2>3, <1>6, PositionedMove
    <3> QED BY <1>6, <2>3, <3>1, <3>2 DEF Typed, Move
  <2> QED BY <1>6, <2>2, <2>3 DEF Dropped
<1>7. ASSUME NEW e \in Executors, StepRetried(e)
      PROVE  Local'
  BY <1>7, <1>6, StepRetriedMove DEF StepRetried, AppendDropped, Positioned, InStep
<1>8. ASSUME NEW e \in Executors, StepFailed(e)
      PROVE  Local'
  BY <1>8, <1>6, StepFailedMove DEF StepFailed, AppendDropped, Positioned, InStep
<1>9. ASSUME NEW e \in Executors, SaveFailed(e)
      PROVE  Local'
  <2>1. job' \in RowType
    BY <1>9, Copies, SaveJobEffect DEF SaveFailed, JobStates
  <2>2. Move(e, "idle", 0, 0, 0, {}, 0)
    BY <1>9, ReturnMove DEF SaveFailed, Typed
  <2> QED BY <1>9, <2>1, <2>2, PositionedMove DEF SaveFailed, Typed, Move, faults, InStep, Holding
<1>10. ASSUME NEW e \in Executors, StepFinished(e)
       PROVE  Local'
  <2>1. Dropped(e, "save_checkpoint", 0, exec[e].state \cup {exec[e].step})
    BY <1>10, StepFinishedMove
  <2>2. "save_checkpoint" \notin InStep
    BY DEF InStep, Holding
  <2> QED BY <1>10, <1>6, <2>1, <2>2 DEF StepFinished, AppendDropped
<1>11. ASSUME NEW e \in Executors, SaveCheckpoint(e)
       PROVE  Local'
  <2>1. checkpoint' \in CheckpointType
    BY <1>11, Copies DEF SaveCheckpoint, CheckpointType
  <2>2. Move(e, "checkpoint_saved", exec[e].step, exec[e].version, exec[e].attempt, exec[e].state,
             exec[e].entry)
    BY <1>11, PlaceMoves
  <2>3. \A f \in Executors : Positioned(exec[f])'
    BY <2>2, PositionedMove DEF InStep, Holding
  <2> QED BY <1>11, <2>1, <2>2, <2>3 DEF SaveCheckpoint, Typed, Move, faults
<1>12. ASSUME NEW e \in Executors, CheckpointSaved(e)
       PROVE  Local'
  <2>1. Dropped(e, "progress", exec[e].attempt, exec[e].state)
    BY <1>12, CheckpointSavedMove
  <2>2. "progress" \notin InStep
    BY DEF InStep, Holding
  <2> QED BY <1>12, <1>6, <2>1, <2>2 DEF CheckpointSaved, AppendDropped
<1>13. ASSUME NEW e \in Executors, SaveCompleted(e)
       PROVE  Local'
  <2>1. job' \in RowType
    BY <1>13, Copies, SaveJobEffect DEF SaveCompleted, JobStates
  <2>2. Move(e, "job_completed", exec[e].step, exec[e].version, exec[e].attempt, exec[e].state,
             exec[e].entry)
    BY <1>13, PlaceMoves
  <2>3. exec[e].step = N
    BY <1>13 DEF SaveCompleted, Positioned
  <2>4. \A f \in Executors : Positioned(exec[f])'
    BY <2>2, <2>3, PositionedMove DEF InStep, Holding
  <2> QED BY <1>13, <2>1, <2>2, <2>4 DEF SaveCompleted, Typed, Move, faults
<1>14. ASSUME NEW e \in Executors, JobCompleted(e)
       PROVE  Local'
  <2>1. job' \in RowType /\ events' \in Nat
    BY <1>14, Copies, AppendEventEffect DEF JobCompleted
  <2>2. Move(e, "idle", 0, 0, 0, {}, 0)
    BY <1>14, ReturnMove DEF JobCompleted, Typed
  <2> QED BY <1>14, <2>1, <2>2, PositionedMove DEF JobCompleted, Typed, Move, faults, InStep, Holding
<1>15. ASSUME NEW e \in Executors, LedgerLoad(e)
       PROVE  Local'
  <2>1. exec[e].step \in Steps
    BY <1>15 DEF LedgerLoad, Positioned, InStep
  <2>2. exec' \in [Executors -> ExecType] /\ \A f \in Executors : Positioned(exec[f])'
    <3>1. CASE ledger[exec[e].step].state = "completed"
      <4>1. Move(e, "finished", exec[e].step, exec[e].version, exec[e].attempt, exec[e].state,
                 exec[e].entry)
        BY <1>15, <3>1, LedgerLoadMove
      <4> QED BY <4>1, <2>1, PositionedMove DEF Move
    <3>2. CASE ledger[exec[e].step].state # "completed"
      <4>1. PICK p \in {"reset", "acquire"} :
                Move(e, p, exec[e].step, exec[e].version, exec[e].attempt, exec[e].state,
                     ledger[exec[e].step].version)
        BY <1>15, <3>2, LedgerLoadMove
      <4> QED BY <4>1, <2>1, PositionedMove DEF Move
    <3> QED BY <3>1, <3>2
  <2> QED BY <1>15, <2>2 DEF LedgerLoad, Typed, store, faults
<1>16. ASSUME NEW e \in Executors, LedgerReset(e) \/ LedgerAcquire(e) \/ LedgerCommit(e) \/ LedgerFail(e)
       PROVE  Local'
  <2>1. exec[e].step \in Steps
    BY <1>16 DEF LedgerReset, LedgerAcquire, LedgerCommit, LedgerFail, Positioned, InStep, Holding
  <2>2. ledger' \in [Steps -> RowType]
    BY <1>16, <2>1, Copies, SaveLedgerEffect
       DEF LedgerReset, LedgerAcquire, LedgerCommit, LedgerFail, JobStates
  <2>3. \E p \in {"acquire", "acquired", "committed", "failed"}, n \in Nat :
            Move(e, p, exec[e].step, exec[e].version, exec[e].attempt, exec[e].state, n)
    BY <1>16, Copies, PlaceMoves, LedgerFailMove
  <2>4. exec' \in [Executors -> ExecType] /\ \A f \in Executors : Positioned(exec[f])'
    BY <2>1, <2>3, PositionedMove DEF Move
  <2> QED BY <1>16, <2>2, <2>4
     DEF LedgerReset, LedgerAcquire, LedgerCommit, LedgerFail, Typed, faults
<1>17. ASSUME NEW e \in Executors, LedgerAcquired(e)
       PROVE  Local'
  <2>1. exec[e].step \in Steps /\ exec[e].entry \in Nat
    BY <1>17, Copies DEF LedgerAcquired, Positioned, InStep, Holding
  <2>2. ledger' \in [Steps -> RowType] /\ entries' \in [Steps -> Nat]
    BY <1>17, <2>1, AppendEntryEffect DEF LedgerAcquired
  <2>3. \E p \in {"call", "failed"}, n \in Nat :
            Move(e, p, exec[e].step, exec[e].version, exec[e].attempt, exec[e].state, n)
    BY <1>17, <2>1, LedgerAcquiredMove
  <2>4. exec' \in [Executors -> ExecType] /\ \A f \in Executors : Positioned(exec[f])'
    BY <2>1, <2>3, PositionedMove DEF Move
  <2>5. refused' \in BOOLEAN
    BY <1>17 DEF LedgerAcquired
  <2> QED BY <1>17, <2>2, <2>4, <2>5 DEF LedgerAcquired, Typed, faults
<1>18. ASSUME NEW e \in Executors, Call(e)
       PROVE  Local'
  <2>1. exec[e].step \in Steps
    BY <1>18 DEF Call, Positioned, InStep, Holding
  <2>2. calls' \in [Steps -> Nat]
    BY <1>18, <2>1 DEF Call, Typed
  <2>3. \E p \in {"commit", "fail"} :
            Move(e, p, exec[e].step, exec[e].version, exec[e].attempt, exec[e].state, exec[e].entry)
    BY <1>18, PlaceMoves
  <2>4. exec' \in [Executors -> ExecType] /\ \A f \in Executors : Positioned(exec[f])'
    BY <2>1, <2>3, PositionedMove DEF Move
  <2>5. failures' \in 0..MaxFaults /\ failures' + outages <= MaxFaults
    BY <1>18, DurabilitySdkAssumption DEF Call, MoreFaults, Typed
  <2> QED BY <1>18, <2>2, <2>4, <2>5 DEF Call, Typed, store
<1>19. ASSUME NEW e \in Executors, LedgerCommitted(e)
       PROVE  Local'
  <2>1. exec[e].step \in Steps /\ exec[e].entry \in Nat
    BY <1>19, Copies DEF LedgerCommitted, Positioned, InStep, Holding
  <2>2. ledger' \in [Steps -> RowType] /\ entries' \in [Steps -> Nat]
    BY <1>19, <2>1, AppendEntryEffect DEF LedgerCommitted
  <2>3. exec' \in [Executors -> ExecType] /\ \A f \in Executors : Positioned(exec[f])'
    BY <1>19, <2>1, LedgerCommittedMove, PositionedMove DEF Move
  <2> QED BY <1>19, <2>2, <2>3 DEF LedgerCommitted, Typed, faults
<1>20. ASSUME NEW e \in Executors, LedgerOutage(e)
       PROVE  Local'
  <2>1. exec[e].step \in Steps
    BY <1>20 DEF LedgerOutage, Positioned, InStep, Holding
  <2>2. \E p \in {"acquire", "finished", "failed"}, n \in Nat :
            Move(e, p, exec[e].step, exec[e].version, exec[e].attempt, exec[e].state, n)
    BY <1>20, Copies, LedgerOutageMove
  <2>3. exec' \in [Executors -> ExecType] /\ \A f \in Executors : Positioned(exec[f])'
    BY <2>1, <2>2, PositionedMove DEF Move
  <2>4. outages' \in 0..MaxFaults /\ failures + outages' <= MaxFaults
    BY <1>20, DurabilitySdkAssumption DEF LedgerOutage, MoreFaults, Typed
  <2> QED BY <1>20, <2>3, <2>4 DEF LedgerOutage, Typed, store
<1>21. ASSUME NEW e \in Executors, Crash(e)
       PROVE  Local'
  <2>1. Move(e, "idle", 0, 0, 0, {}, 0)
    BY <1>21, ReturnMove DEF Crash, Typed
  <2>2. exec' \in [Executors -> ExecType] /\ \A f \in Executors : Positioned(exec[f])'
    BY <2>1, PositionedMove DEF Move, InStep, Holding
  <2>3. failures' \in 0..MaxFaults /\ failures' + outages <= MaxFaults
    BY <1>21, DurabilitySdkAssumption DEF Crash, MoreFaults, Typed
  <2> QED BY <1>21, <2>2, <2>3 DEF Crash, Typed, store
<1>22. CASE StartSave \/ StartVersion
  <2>1. job' \in RowType
    BY <1>22, SaveJobEffect DEF StartSave, StartVersion, JobStates
  <2> QED BY <1>22, <2>1 DEF StartSave, StartVersion, Typed, faults, Positioned
<1>23. CASE StartAppend
  <2>1. job' \in RowType /\ events' \in Nat
    BY <1>23, AppendEventEffect DEF StartAppend
  <2> QED BY <1>23, <2>1 DEF StartAppend, Typed, faults, Positioned
<1>24. CASE UNCHANGED vars
  BY <1>24 DEF vars, store, faults, Typed, Positioned
<1> QED
  BY <1>1, <1>2, <1>3, <1>4, <1>5, <1>7, <1>8, <1>9, <1>10, <1>11, <1>12, <1>13, <1>14, <1>15, <1>16,
     <1>17, <1>18, <1>19, <1>20, <1>21, <1>22, <1>23, <1>24 DEF Next, Execute, Wrap

\* Types and places, always.
LEMMA LocalInvariant == Spec => []Local
BY LocalInit, LocalNext, PTL DEF Spec

-----------------------------------------------------------------------------
(* Versions *)

\* The copies stay behind the events when the events only grow.
LEMMA HeldMove ==
    ASSUME Local, Versions, Local', NEW e \in Executors, NEW at, NEW step, NEW version, NEW attempt,
           NEW state, NEW entry, Move(e, at, step, version, attempt, state, entry),
           events <= events', \A i \in Steps : entries[i] <= entries'[i],
           version <= events',
           at \in Holding => entry <= entries'[step],
           at \notin Holding => entry = 0
    PROVE  \A f \in Executors : Held(exec[f])'
<1> TAKE f \in Executors
<1>1. CASE f = e
  BY <1>1 DEF Move, Held
<1>2. CASE f # e
  <2>1. exec'[f] = exec[f] /\ Held(exec[f])
    BY <1>2 DEF Move, Versions
  <2>2. exec[f].version \in Nat /\ exec[f].entry \in Nat /\ events \in Nat /\ events' \in Nat
    BY Copies DEF Local, Typed
  <2>3. exec[f].at \in Holding => /\ exec[f].step \in Steps
                                  /\ entries[exec[f].step] \in Nat /\ entries'[exec[f].step] \in Nat
    BY DEF Local, Positioned, InStep, Typed
  <2> QED BY <2>1, <2>2, <2>3 DEF Held
<1> QED BY <1>1, <1>2

\* At the start there are no events and no versions.
LEMMA VersionsInit == Init => Versions
BY DEF Init, Versions, Held, Idle, Holding

\* No step saves or holds a version that was not given out.
LEMMA VersionsNext == Local /\ Local' /\ Versions /\ [Next]_vars => Versions'
<1> SUFFICES ASSUME Local, Local', Versions, [Next]_vars
             PROVE  Versions'
  OBVIOUS
<1>1. /\ Typed /\ Typed'
      /\ events \in Nat /\ events' \in Nat
      /\ entries \in [Steps -> Nat] /\ entries' \in [Steps -> Nat]
      /\ events <= events
      /\ \A i \in Steps : entries[i] <= entries[i]
  BY DEF Local, Typed
<1>2. \A e \in Executors : exec[e].at # "idle" => start = "done"
  BY DEF Versions
<1>3. ASSUME NEW e \in Executors
      PROVE  /\ exec[e].version <= events
             /\ exec[e].at \in Holding => exec[e].step \in Steps /\ exec[e].entry <= entries[exec[e].step]
             /\ exec[e].at \notin Holding => exec[e].entry = 0
             /\ exec[e].version \in Nat /\ exec[e].entry \in Nat
  BY <1>1, Copies DEF Versions, Held, Local, Positioned, InStep
\* The places that hold no copy of a ledger row
<1>4. {"idle", "list", "checkpoint", "mark", "step_started", "failed", "save_failed", "finished",
       "save_checkpoint", "checkpoint_saved", "progress", "complete", "job_completed", "load"}
         \cap Holding = {}
  BY DEF Holding
<1>5. ASSUME NEW e \in Executors,
             LoadJob(e) \/ ListEvents(e) \/ LoadCheckpoint(e) \/ SaveCheckpoint(e) \/ Crash(e)
      PROVE  Versions'
  <2>1. start = "done" /\ start' = start
    BY <1>5, <1>2 DEF LoadJob, ListEvents, LoadCheckpoint, SaveCheckpoint, Crash
  <2>2. UNCHANGED << job, events, ledger, entries >>
    BY <1>5 DEF LoadJob, ListEvents, LoadCheckpoint, SaveCheckpoint, Crash, store
  <2>3. \A f \in Executors : Held(exec[f])'
    <3>1. CASE LoadJob(e)
      BY <3>1, <1>1, <1>3, <1>4, <2>2, LoadJobMove, HeldMove DEF LoadJob
    <3>2. CASE ListEvents(e)
      BY <3>2, <1>1, <1>3, <1>4, <2>2, ListEventsMove, HeldMove DEF ListEvents
    <3>3. CASE LoadCheckpoint(e)
      BY <3>3, <1>1, <1>3, <1>4, <2>2, LoadCheckpointMove, HeldMove DEF LoadCheckpoint
    <3>4. CASE SaveCheckpoint(e)
      BY <3>4, <1>1, <1>3, <1>4, <2>2, PlaceMoves, HeldMove DEF SaveCheckpoint
    <3>5. CASE Crash(e)
      BY <3>5, <1>1, <1>3, <1>4, <2>2, ReturnMove, HeldMove DEF Crash, Typed
    <3> QED BY <1>5, <3>1, <3>2, <3>3, <3>4, <3>5
  <2> QED BY <2>1, <2>2, <2>3 DEF Versions
<1>6. ASSUME NEW e \in Executors, MarkRunning(e) \/ SaveProgress(e) \/ SaveFailed(e) \/ SaveCompleted(e)
      PROVE  Versions'
  <2>1. start = "done" /\ start' = start
    BY <1>6, <1>2 DEF MarkRunning, SaveProgress, SaveFailed, SaveCompleted
  <2>2. UNCHANGED << events, ledger, entries >>
    BY <1>6 DEF MarkRunning, SaveProgress, SaveFailed, SaveCompleted
  <2>3. job'.version = exec[e].version
    BY <1>6, <1>3, SaveJobEffect DEF MarkRunning, SaveProgress, SaveFailed, SaveCompleted, JobStates
  <2>4. \A f \in Executors : Held(exec[f])'
    <3>1. CASE MarkRunning(e) \/ SaveProgress(e)
      <4>1. StepAfter(exec[e].step) \notin Holding /\ exec[e].at \notin Holding
        BY <3>1 DEF StepAfter, Holding, MarkRunning, SaveProgress
      <4> QED BY <3>1, <4>1, <1>1, <1>3, <1>4, <2>2, NextStepMove, HeldMove
    <3>2. CASE SaveFailed(e)
      BY <3>2, <1>1, <1>3, <1>4, <2>2, ReturnMove, HeldMove DEF SaveFailed, Typed
    <3>3. CASE SaveCompleted(e)
      BY <3>3, <1>1, <1>3, <1>4, <2>2, PlaceMoves, HeldMove DEF SaveCompleted
    <3> QED BY <1>6, <3>1, <3>2, <3>3
  <2> QED BY <1>3, <2>1, <2>2, <2>3, <2>4 DEF Versions
<1>7. ASSUME NEW e \in Executors, StepStarted(e)
      PROVE  Versions'
  <2>1. start = "done" /\ start' = start /\ UNCHANGED << ledger, entries >> /\ exec[e].entry = 0
    BY <1>7, <1>2, <1>3, <1>4 DEF StepStarted
  <2>2. /\ events <= events' /\ job'.version <= events'
        /\ Accepted(job, events, exec[e].version) => exec[e].version + 1 <= events'
    BY <1>7, <1>1, <1>3, AppendEventEffect DEF StepStarted, Versions
  <2>3. \A f \in Executors : Held(exec[f])'
    <3>1. CASE Accepted(job, events, exec[e].version)
      BY <3>1, <1>7, <1>1, <1>4, <2>1, <2>2, StepStartedMove, HeldMove
    <3>2. CASE ~Accepted(job, events, exec[e].version)
      BY <3>2, <1>7, <1>1, <1>4, <2>1, <2>2, StepStartedMove, HeldMove
    <3> QED BY <3>1, <3>2
  <2> QED BY <2>1, <2>2, <2>3 DEF Versions
<1>8. ASSUME NEW e \in Executors, NEW at, NEW attempt, NEW state, Dropped(e, at, attempt, state),
             at \notin Holding, exec[e].at \notin Holding, exec[e].at # "idle",
             UNCHANGED << ledger, entries, start >>
      PROVE  Versions'
  <2>1. start = "done" /\ start' = start /\ exec[e].entry = 0
    BY <1>8, <1>2, <1>3
  <2>2. CASE /\ AppendEvent(exec[e].version)
             /\ Move(e, at, exec[e].step, NewVersion(job, events, exec[e].version), attempt, state,
                     exec[e].entry)
    <3>1. /\ events <= events' /\ job'.version <= events'
          /\ NewVersion(job, events, exec[e].version) <= events'
      BY <2>2, <1>1, <1>3, AppendEventEffect DEF Versions
    <3>2. \A f \in Executors : Held(exec[f])'
      BY <2>1, <2>2, <3>1, <1>1, <1>8, HeldMove
    <3> QED BY <1>8, <2>1, <3>1, <3>2 DEF Versions
  <2>3. CASE /\ Move(e, at, exec[e].step, 0, attempt, state, exec[e].entry)
             /\ UNCHANGED << events, job >>
    <3>1. \A f \in Executors : Held(exec[f])'
      BY <2>1, <2>3, <1>1, <1>8, HeldMove
    <3> QED BY <1>8, <2>1, <2>3, <3>1 DEF Versions
  <2> QED BY <1>8, <2>2, <2>3 DEF Dropped
<1>9. ASSUME NEW e \in Executors,
             StepRetried(e) \/ StepFailed(e) \/ StepFinished(e) \/ CheckpointSaved(e)
      PROVE  Versions'
  <2>1. /\ exec[e].at \in {"failed", "finished", "checkpoint_saved"}
        /\ UNCHANGED << ledger, entries, start >>
    BY <1>9 DEF StepRetried, StepFailed, StepFinished, CheckpointSaved, AppendDropped
  <2>2. \E at \in {"load", "save_failed", "save_checkpoint", "progress"}, attempt \in Nat,
           state \in SUBSET Steps : Dropped(e, at, attempt, state)
    <3>1. /\ exec[e].attempt \in Nat /\ exec[e].attempt + 1 \in Nat
          /\ exec[e].state \in SUBSET Steps
      BY <1>1, Copies, DurabilitySdkAssumption
    <3>2. StepFinished(e) => exec[e].state \cup {exec[e].step} \in SUBSET Steps
      BY <3>1 DEF StepFinished, Local, Positioned, InStep
    <3> QED BY <1>1, <1>9, <3>1, <3>2, StepRetriedMove, StepFailedMove, StepFinishedMove, CheckpointSavedMove
  <2> QED BY <1>4, <1>8, <2>1, <2>2
<1>10. ASSUME NEW e \in Executors, JobCompleted(e)
       PROVE  Versions'
  <2>1. start = "done" /\ start' = start /\ UNCHANGED << ledger, entries >>
    BY <1>10, <1>2 DEF JobCompleted
  <2>2. events <= events' /\ job'.version <= events'
    BY <1>10, <1>1, <1>3, AppendEventEffect DEF JobCompleted, Versions
  <2>3. \A f \in Executors : Held(exec[f])'
    BY <1>10, <1>1, <1>4, <2>1, <2>2, ReturnMove, HeldMove DEF JobCompleted, Typed
  <2> QED BY <2>1, <2>2, <2>3 DEF Versions
<1>11. ASSUME NEW e \in Executors, LedgerLoad(e) \/ LedgerOutage(e) \/ Call(e)
       PROVE  Versions'
  <2>1. start = "done" /\ start' = start
    BY <1>11, <1>2 DEF LedgerLoad, LedgerOutage, Call
  <2>2. UNCHANGED << job, events, ledger, entries >> /\ exec[e].step \in Steps
    BY <1>11 DEF LedgerLoad, LedgerOutage, Call, store, Local, Positioned, InStep, Holding
  <2>3. ledger[exec[e].step].version <= entries[exec[e].step]
    BY <2>2 DEF Versions
  <2>4. \A f \in Executors : Held(exec[f])'
    <3>1. CASE LedgerLoad(e)
      <4>1. exec[e].entry = 0
        BY <3>1, <1>3, <1>4 DEF LedgerLoad
      <4>2. CASE ledger[exec[e].step].state = "completed"
        BY <3>1, <4>1, <4>2, <1>1, <1>3, <1>4, <2>2, LedgerLoadMove, HeldMove
      <4>3. CASE ledger[exec[e].step].state # "completed"
        <5>1. PICK p \in {"reset", "acquire"} :
                  Move(e, p, exec[e].step, exec[e].version, exec[e].attempt, exec[e].state,
                       ledger[exec[e].step].version)
          BY <3>1, <4>3, LedgerLoadMove
        <5>2. p \in Holding
          BY DEF Holding
        <5> QED BY <5>1, <5>2, <1>1, <1>3, <2>2, <2>3, HeldMove
      <4> QED BY <4>2, <4>3
    <3>2. CASE LedgerOutage(e)
      <4>1. "acquire" \in Holding /\ (exec[e].at = "reset" => exec[e].at \in Holding)
        BY DEF Holding
      <4> QED BY <3>2, <4>1, <1>1, <1>3, <1>4, <2>2, LedgerOutageMove, HeldMove
    <3>3. CASE Call(e)
      <4>1. "fail" \in Holding /\ "commit" \in Holding /\ exec[e].at \in Holding
        BY <3>3 DEF Holding, Call
      <4> QED BY <3>3, <4>1, <1>1, <1>3, <2>2, PlaceMoves, HeldMove
    <3> QED BY <1>11, <3>1, <3>2, <3>3
  <2> QED BY <2>1, <2>2, <2>4 DEF Versions
<1>12. ASSUME NEW e \in Executors, LedgerReset(e) \/ LedgerAcquire(e) \/ LedgerCommit(e) \/ LedgerFail(e)
       PROVE  Versions'
  <2>1. start = "done" /\ start' = start /\ UNCHANGED << job, events, entries >>
    BY <1>12, <1>2 DEF LedgerReset, LedgerAcquire, LedgerCommit, LedgerFail
  <2>2. exec[e].at \in Holding
    BY <1>12 DEF LedgerReset, LedgerAcquire, LedgerCommit, LedgerFail, Holding
  <2>3. /\ ledger'[exec[e].step].version = exec[e].entry
        /\ \A i \in Steps : i # exec[e].step => ledger'[i] = ledger[i]
    BY <1>12, <1>1, <1>3, <2>2, SaveLedgerEffect
       DEF LedgerReset, LedgerAcquire, LedgerCommit, LedgerFail, JobStates
  <2>4. \A i \in Steps : ledger'[i].version <= entries'[i]
    BY <1>3, <2>1, <2>2, <2>3 DEF Versions
  <2>5. \A f \in Executors : Held(exec[f])'
    <3>1. CASE LedgerFail(e)
      BY <3>1, <1>1, <1>3, <1>4, <2>1, LedgerFailMove, HeldMove
    <3>2. CASE LedgerReset(e) \/ LedgerAcquire(e) \/ LedgerCommit(e)
      <4>1. "acquire" \in Holding /\ "acquired" \in Holding /\ "committed" \in Holding
        BY DEF Holding
      <4> QED BY <3>2, <4>1, <1>1, <1>3, <2>1, <2>2, PlaceMoves, HeldMove
    <3> QED BY <1>12, <3>1, <3>2
  <2> QED BY <2>1, <2>4, <2>5 DEF Versions
<1>13. ASSUME NEW e \in Executors, LedgerAcquired(e) \/ LedgerCommitted(e)
       PROVE  Versions'
  <2>1. start = "done" /\ start' = start /\ UNCHANGED << job, events >>
    BY <1>13, <1>2 DEF LedgerAcquired, LedgerCommitted
  <2>2. exec[e].step \in Steps /\ ledger[exec[e].step].version <= entries[exec[e].step]
    BY <1>13, <1>3 DEF LedgerAcquired, LedgerCommitted, Holding, Versions
  <2>3. /\ \A i \in Steps : entries[i] <= entries'[i]
        /\ \A i \in Steps : i # exec[e].step => ledger'[i] = ledger[i] /\ entries'[i] = entries[i]
        /\ ledger'[exec[e].step].version <= entries'[exec[e].step]
        /\ Accepted(ledger[exec[e].step], entries[exec[e].step], exec[e].entry) =>
               exec[e].entry + 1 <= entries'[exec[e].step]
    BY <1>13, <1>1, <1>3, <2>2, AppendEntryEffect DEF LedgerAcquired, LedgerCommitted
  <2>4. \A i \in Steps : ledger'[i].version <= entries'[i]
    BY <2>3 DEF Versions
  <2>5. \A f \in Executors : Held(exec[f])'
    <3>1. CASE LedgerAcquired(e)
      <4>1. "call" \in Holding
        BY DEF Holding
      <4> QED BY <3>1, <4>1, <1>1, <1>3, <1>4, <2>1, <2>3, LedgerAcquiredMove, HeldMove
    <3>2. CASE LedgerCommitted(e)
      BY <3>2, <1>1, <1>3, <1>4, <2>1, <2>3, LedgerCommittedMove, HeldMove
    <3> QED BY <1>13, <3>1, <3>2
  <2> QED BY <2>1, <2>4, <2>5 DEF Versions
<1>14. CASE StartSave
  <2>1. job'.version = 0
    BY <1>14, SaveJobEffect DEF StartSave, JobStates
  <2> QED BY <1>14, <2>1, <1>1 DEF StartSave, Versions, Held
<1>15. CASE StartAppend
  <2>1. job.version = 0 /\ events = 0
    BY <1>15 DEF StartAppend, Versions
  <2>2. events' = 1 /\ job'.version = 1
    BY <1>1, <1>15, <2>1, AppendEventEffect DEF StartAppend
  <2>3. \A f \in Executors : Held(exec[f])'
    <3> TAKE f \in Executors
    <3> QED BY <1>15, <1>3, <2>1, <2>2 DEF StartAppend, Held
  <2> QED BY <1>15, <2>2, <2>3 DEF StartAppend, Versions
<1>16. CASE StartVersion
  <2>1. job'.version = 1
    BY <1>16, SaveJobEffect DEF StartVersion, JobStates
  <2> QED BY <1>16, <2>1 DEF StartVersion, Versions, Held
<1>17. CASE UNCHANGED vars
  BY <1>17 DEF vars, store, Versions, Held
<1> QED
  BY <1>5, <1>6, <1>7, <1>9, <1>10, <1>11, <1>12, <1>13, <1>14, <1>15, <1>16, <1>17
     DEF Next, Execute, Wrap

\* Versions never run ahead of the events.
LEMMA VersionsInvariant == Spec => []Versions
BY VersionsInit, VersionsNext, LocalInvariant, PTL DEF Spec

\* Whatever crashes, fails or overlaps, the rows keep their types and no row, and
\* no copy of a row, claims more versions than there are events.
THEOREM TypeCorrect == Spec => []TypeOK
<1>1. Local /\ Versions => TypeOK
  BY DEF Local, Typed, Versions, TypeOK, RowType, CheckpointType, ExecType
<1> QED BY <1>1, LocalInvariant, VersionsInvariant, PTL

-----------------------------------------------------------------------------
(* Results and calls *)

\* The results of the other calls of Execute stay backed by calls.
LEMMA DoneMove ==
    ASSUME Local, Local', Progress, NEW e \in Executors, NEW at, NEW step, NEW version, NEW attempt,
           NEW state, NEW entry, Move(e, at, step, version, attempt, state, entry),
           \A i \in Steps : calls[i] <= calls'[i],
           at \in InStep => state = 1..(step - 1),
           at \in Between => state = 1..step,
           \A i \in state : calls'[i] > 0,
           at \in Called => calls'[step] > 0
    PROVE  \A f \in Executors : Done(exec[f])'
<1> TAKE f \in Executors
<1>1. CASE f = e
  BY <1>1 DEF Move, Done, Called
<1>2. CASE f # e
  <2>1. exec'[f] = exec[f] /\ Done(exec[f])
    BY <1>2 DEF Move, Progress
  <2>2. calls \in [Steps -> Nat] /\ calls' \in [Steps -> Nat] /\ exec[f].state \subseteq Steps
    BY Copies DEF Local, Typed
  <2>3. exec[f].at \in Called => exec[f].step \in Steps
    BY DEF Local, Positioned, InStep, Holding, Called
  <2> QED BY <2>1, <2>2, <2>3 DEF Done, Called
<1> QED BY <1>1, <1>2

\* Steps that call no function and complete neither a row nor the job.
LEMMA ProgressRest ==
    ASSUME Local, Progress, \A f \in Executors : Done(exec[f])',
           UNCHANGED << calls, checkpoint >>,
           \A i \in Steps : ledger'[i].state = "completed" => ledger[i].state = "completed",
           job'.state = "completed" => job.state = "completed"
    PROVE  Progress'
BY DEF Progress, CheckpointComplete, InOrder

\* At the start there is no result.
LEMMA ProgressInit == Init => Progress
<1> SUFFICES ASSUME Init PROVE Progress
  OBVIOUS
<1>1. 1..0 = {}
  OBVIOUS
<1>2. CheckpointComplete /\ InOrder
  BY <1>1 DEF Init, CheckpointComplete, InOrder
<1>3. \A e \in Executors : Done(exec[e])
  BY DEF Init, Done, Idle, InStep, Between, Called, Holding
<1> QED BY <1>2, <1>3 DEF Init, Progress

\* Every step keeps results backed by calls, and calls in order.
LEMMA ProgressNext == Local /\ Local' /\ Progress /\ [Next]_vars => Progress'
<1> SUFFICES ASSUME Local, Local', Progress, [Next]_vars
             PROVE  Progress'
  OBVIOUS
<1>1. /\ Typed /\ Typed'
      /\ calls \in [Steps -> Nat] /\ calls' \in [Steps -> Nat]
      /\ \A i \in Steps : calls[i] <= calls[i]
  BY DEF Local, Typed
<1>2. ASSUME NEW e \in Executors
      PROVE  /\ exec[e].at \in InStep => exec[e].step \in Steps /\ exec[e].state = 1..(exec[e].step - 1)
             /\ exec[e].at \in Between => exec[e].state = 1..exec[e].step
             /\ \A i \in exec[e].state : calls[i] > 0
             /\ exec[e].at \in Called => calls[exec[e].step] > 0
             /\ exec[e].step \in 0..N /\ exec[e].version \in Nat /\ exec[e].entry \in Nat
             /\ exec[e].state \subseteq Steps
  BY <1>1, Copies DEF Progress, Done, Called, Local, Positioned
<1>3. /\ {"idle", "list", "checkpoint"} \cap (InStep \cup Between \cup Called) = {}
      /\ Between \cap (InStep \cup Called) = {}
      /\ {"load", "reset", "acquire", "acquired", "call", "failed", "save_failed"} \cap Called = {}
      /\ Called \subseteq InStep
      /\ {"load", "reset", "acquire", "acquired", "call", "failed", "save_failed"} \subseteq InStep
      /\ {"fail", "commit", "committed", "finished"} = Called
      /\ {"mark", "step_started", "save_checkpoint", "checkpoint_saved", "progress", "complete",
          "job_completed"} = Between
  BY DEF InStep, Between, Called, Holding
<1>4. ASSUME NEW e \in Executors, LoadJob(e) \/ ListEvents(e) \/ Crash(e) \/ SaveFailed(e) \/ JobCompleted(e)
      PROVE  Progress'
  <2>1. UNCHANGED << calls, checkpoint, ledger >>
    BY <1>4 DEF LoadJob, ListEvents, Crash, SaveFailed, JobCompleted, store
  <2>2. job'.state = "completed" => job.state = "completed"
    <3>1. CASE SaveFailed(e)
      BY <3>1, <1>2, SaveJobEffect DEF SaveFailed, JobStates
    <3>2. CASE JobCompleted(e)
      BY <3>2, <1>1, <1>2, AppendEventEffect DEF JobCompleted
    <3> QED BY <1>4, <3>1, <3>2 DEF LoadJob, ListEvents, Crash, store
  <2>3. \A f \in Executors : Done(exec[f])'
    <3>1. CASE LoadJob(e)
      BY <3>1, <1>1, <1>2, <1>3, <2>1, LoadJobMove, DoneMove
    <3>2. CASE ListEvents(e)
      BY <3>2, <1>1, <1>2, <1>3, <2>1, ListEventsMove, DoneMove
    <3>3. CASE Crash(e) \/ SaveFailed(e) \/ JobCompleted(e)
      <4>1. Move(e, "idle", 0, 0, 0, {}, 0)
        BY <3>3, <1>1, ReturnMove DEF Crash, SaveFailed, JobCompleted, Typed
      <4> QED BY <4>1, <1>1, <1>3, <2>1, DoneMove
    <3> QED BY <1>4, <3>1, <3>2, <3>3
  <2> QED BY <2>1, <2>2, <2>3, ProgressRest
<1>5. ASSUME NEW e \in Executors, LoadCheckpoint(e)
      PROVE  Progress'
  <2>1. UNCHANGED << calls, checkpoint, ledger, job >>
    BY <1>5 DEF LoadCheckpoint, store
  <2>2. checkpoint.state = 1..checkpoint.step /\ \A i \in checkpoint.state : calls[i] > 0
    BY DEF Progress, CheckpointComplete
  <2>3. \A f \in Executors : Done(exec[f])'
    BY <1>5, <1>1, <1>3, <2>1, <2>2, LoadCheckpointMove, DoneMove
  <2> QED BY <2>1, <2>3, ProgressRest
<1>6. ASSUME NEW e \in Executors, MarkRunning(e) \/ SaveProgress(e)
      PROVE  Progress'
  <2>1. UNCHANGED << calls, checkpoint, ledger >> /\ exec[e].at \in Between
    BY <1>6, <1>3 DEF MarkRunning, SaveProgress
  <2>2. job'.state = "running"
    BY <1>6, <1>2, SaveJobEffect DEF MarkRunning, SaveProgress, JobStates
  <2>3. StepAfter(exec[e].step) \in Between
    BY DEF StepAfter, Between
  <2>4. \A f \in Executors : Done(exec[f])'
    BY <1>6, <1>1, <1>2, <1>3, <2>1, <2>3, NextStepMove, DoneMove
  <2> QED BY <2>1, <2>2, <2>4, ProgressRest
<1>7. ASSUME NEW e \in Executors, StepStarted(e)
      PROVE  Progress'
  <2>1. UNCHANGED << calls, checkpoint, ledger >> /\ exec[e].at \in Between
    BY <1>7, <1>3 DEF StepStarted
  <2>2. job'.state = job.state
    BY <1>7, <1>1, <1>2, AppendEventEffect DEF StepStarted
  <2>3. \A f \in Executors : Done(exec[f])'
    <3>1. CASE Accepted(job, events, exec[e].version)
      <4>1. exec[e].state = 1..((exec[e].step + 1) - 1)
        BY <1>2, <2>1
      <4> QED BY <3>1, <4>1, <1>7, <1>1, <1>2, <1>3, <2>1, StepStartedMove, DoneMove
    <3>2. CASE ~Accepted(job, events, exec[e].version)
      BY <3>2, <1>7, <1>1, <1>3, <2>1, StepStartedMove, DoneMove
    <3> QED BY <3>1, <3>2
  <2> QED BY <2>1, <2>2, <2>3, ProgressRest
<1>8. ASSUME NEW e \in Executors, NEW at, NEW attempt, NEW state, Dropped(e, at, attempt, state),
             at \in InStep => state = 1..(exec[e].step - 1),
             at \in Between => state = 1..exec[e].step,
             \A i \in state : calls[i] > 0,
             at \in Called => calls[exec[e].step] > 0,
             UNCHANGED << calls, checkpoint, ledger >>
      PROVE  Progress'
  <2>1. PICK v : Move(e, at, exec[e].step, v, attempt, state, exec[e].entry)
    BY <1>8 DEF Dropped
  <2>2. job'.state = job.state
    BY <1>8, <1>1, <1>2, AppendEventEffect DEF Dropped
  <2>3. \A f \in Executors : Done(exec[f])'
    BY <1>8, <2>1, <1>1, DoneMove
  <2> QED BY <1>8, <2>2, <2>3, ProgressRest
<1>9. ASSUME NEW e \in Executors, StepRetried(e) \/ StepFailed(e) \/ CheckpointSaved(e)
      PROVE  Progress'
  <2>1. UNCHANGED << calls, checkpoint, ledger >>
    BY <1>9 DEF StepRetried, StepFailed, CheckpointSaved, AppendDropped
  <2>2. CASE StepRetried(e)
    BY <2>1, <2>2, <1>1, <1>2, <1>3, <1>8, StepRetriedMove DEF StepRetried
  <2>3. CASE StepFailed(e)
    BY <2>1, <2>3, <1>1, <1>2, <1>3, <1>8, StepFailedMove DEF StepFailed
  <2>4. CASE CheckpointSaved(e)
    BY <2>1, <2>4, <1>1, <1>2, <1>3, <1>8, CheckpointSavedMove DEF CheckpointSaved
  <2> QED BY <1>9, <2>2, <2>3, <2>4
<1>10. ASSUME NEW e \in Executors, StepFinished(e)
       PROVE  Progress'
  <2>1. UNCHANGED << calls, checkpoint, ledger >> /\ exec[e].at \in Called /\ exec[e].at \in InStep
    BY <1>10, <1>3 DEF StepFinished, AppendDropped
  <2>2. exec[e].state \cup {exec[e].step} = 1..exec[e].step
    BY <1>2, <2>1 DEF Steps
  <2>3. \A i \in exec[e].state \cup {exec[e].step} : calls[i] > 0
    BY <1>2, <2>1
  <2> QED BY <2>1, <2>2, <2>3, <1>10, <1>3, <1>8, StepFinishedMove
<1>11. ASSUME NEW e \in Executors, SaveCheckpoint(e)
       PROVE  Progress'
  <2>1. UNCHANGED << calls, ledger, job >> /\ exec[e].at \in Between
    BY <1>11, <1>3 DEF SaveCheckpoint
  <2>2. checkpoint'.step = exec[e].step /\ checkpoint'.state = exec[e].state
    BY <1>11 DEF SaveCheckpoint
  <2>3. CheckpointComplete'
    BY <1>2, <2>1, <2>2 DEF CheckpointComplete
  <2>4. \A f \in Executors : Done(exec[f])'
    BY <1>11, <1>1, <1>2, <1>3, <2>1, PlaceMoves, DoneMove
  <2> QED BY <2>1, <2>3, <2>4 DEF Progress, InOrder
<1>12. ASSUME NEW e \in Executors, SaveCompleted(e)
       PROVE  Progress'
  <2>1. UNCHANGED << calls, checkpoint, ledger >> /\ exec[e].at \in Between /\ exec[e].step = N
    BY <1>12, <1>3 DEF SaveCompleted, Local, Positioned
  <2>2. \A i \in Steps : calls[i] > 0
    BY <1>2, <2>1 DEF Steps
  <2>3. \A f \in Executors : Done(exec[f])'
    BY <1>12, <1>1, <1>2, <1>3, <2>1, PlaceMoves, DoneMove
  <2> QED BY <2>1, <2>2, <2>3 DEF Progress, CheckpointComplete, InOrder
<1>13. ASSUME NEW e \in Executors, LedgerLoad(e) \/ LedgerOutage(e)
       PROVE  Progress'
  <2>1. UNCHANGED << calls, checkpoint, ledger, job >> /\ exec[e].at \in InStep
    BY <1>13, <1>3 DEF LedgerLoad, LedgerOutage, store
  <2>2. \A f \in Executors : Done(exec[f])'
    <3>1. CASE LedgerLoad(e)
      <4>1. CASE ledger[exec[e].step].state = "completed"
        <5>1. calls[exec[e].step] > 0
          BY <1>2, <2>1, <4>1 DEF Progress
        <5> QED BY <3>1, <4>1, <5>1, <1>1, <1>2, <1>3, <2>1, LedgerLoadMove, DoneMove
      <4>2. CASE ledger[exec[e].step].state # "completed"
        <5>1. PICK p \in {"reset", "acquire"} :
                  Move(e, p, exec[e].step, exec[e].version, exec[e].attempt, exec[e].state,
                       ledger[exec[e].step].version)
          BY <3>1, <4>2, LedgerLoadMove
        <5>2. p \in InStep /\ p \notin Called /\ p \notin Between
          BY <1>3
        <5> QED BY <5>1, <5>2, <1>1, <1>2, <2>1, DoneMove
      <4> QED BY <4>1, <4>2
    <3>2. CASE LedgerOutage(e)
      <4>1. exec[e].at = "committed" => calls[exec[e].step] > 0
        BY <1>2, <1>3
      <4>2. PICK p, n :
                /\ p \in {"acquire", "finished", "failed"}
                /\ Move(e, p, exec[e].step, exec[e].version, exec[e].attempt, exec[e].state, n)
                /\ p = "finished" => exec[e].at = "committed"
        BY <3>2, <1>1, LedgerOutageMove
      <4>3. p \in InStep /\ p \notin Between /\ (p \in Called => p = "finished")
        BY <4>2, <1>3 DEF Called
      <4> QED BY <4>1, <4>2, <4>3, <1>1, <1>2, <2>1, DoneMove
    <3> QED BY <1>13, <3>1, <3>2
  <2> QED BY <2>1, <2>2, ProgressRest
<1>14. ASSUME NEW e \in Executors, LedgerReset(e) \/ LedgerAcquire(e) \/ LedgerFail(e)
       PROVE  Progress'
  <2>1. UNCHANGED << calls, checkpoint, job >> /\ exec[e].at \in InStep
    BY <1>14, <1>3 DEF LedgerReset, LedgerAcquire, LedgerFail
  <2>2. \A i \in Steps : ledger'[i].state = "completed" => ledger[i].state = "completed"
    BY <1>14, <1>1, <1>2, <2>1, SaveLedgerEffect DEF LedgerReset, LedgerAcquire, LedgerFail, JobStates
  <2>3. \A f \in Executors : Done(exec[f])'
    <3>1. PICK p, n :
              /\ p \in {"acquire", "acquired", "failed"}
              /\ Move(e, p, exec[e].step, exec[e].version, exec[e].attempt, exec[e].state, n)
      BY <1>14, <1>1, PlaceMoves, LedgerFailMove
    <3>2. p \in InStep /\ p \notin Called /\ p \notin Between
      BY <3>1, <1>3
    <3> QED BY <3>1, <3>2, <1>1, <1>2, <2>1, DoneMove
  <2> QED BY <2>1, <2>2, <2>3, ProgressRest
<1>15. ASSUME NEW e \in Executors, LedgerCommit(e)
       PROVE  Progress'
  <2>1. UNCHANGED << calls, checkpoint, job >> /\ exec[e].at \in Called /\ exec[e].at \in InStep
    BY <1>15, <1>3 DEF LedgerCommit
  <2>2. \A i \in Steps : i # exec[e].step => ledger'[i] = ledger[i]
    BY <1>15, <1>1, <1>2, <2>1, SaveLedgerEffect DEF LedgerCommit, JobStates
  <2>3. \A f \in Executors : Done(exec[f])'
    BY <1>15, <1>1, <1>2, <1>3, <2>1, PlaceMoves, DoneMove
  <2> QED BY <1>2, <2>1, <2>2, <2>3 DEF Progress, CheckpointComplete, InOrder
<1>16. ASSUME NEW e \in Executors, LedgerAcquired(e) \/ LedgerCommitted(e)
       PROVE  Progress'
  <2>1. UNCHANGED << calls, checkpoint, job >> /\ exec[e].at \in InStep
    BY <1>16, <1>3 DEF LedgerAcquired, LedgerCommitted
  <2>2. \A i \in Steps : ledger'[i].state = ledger[i].state
    BY <1>16, <1>1, <1>2, <2>1, AppendEntryEffect DEF LedgerAcquired, LedgerCommitted
  <2>3. \A f \in Executors : Done(exec[f])'
    <3>1. CASE LedgerAcquired(e)
      BY <3>1, <1>1, <1>2, <1>3, <2>1, LedgerAcquiredMove, DoneMove
    <3>2. CASE LedgerCommitted(e)
      <4>1. calls[exec[e].step] > 0
        BY <3>2, <1>2, <1>3 DEF LedgerCommitted
      <4> QED BY <3>2, <4>1, <1>1, <1>2, <1>3, <2>1, LedgerCommittedMove, DoneMove
    <3> QED BY <1>16, <3>1, <3>2
  <2> QED BY <2>1, <2>2, <2>3, ProgressRest
<1>17. ASSUME NEW e \in Executors, Call(e)
       PROVE  Progress'
  <2>1. UNCHANGED << checkpoint, ledger, job >> /\ exec[e].at \in InStep
    BY <1>17, <1>3 DEF Call, store
  <2>2. /\ calls'[exec[e].step] = calls[exec[e].step] + 1
        /\ \A i \in Steps : i # exec[e].step => calls'[i] = calls[i]
    BY <1>1, <1>2, <1>17, <2>1 DEF Call
  <2>3. \A i \in Steps : calls[i] <= calls'[i] /\ (calls[i] > 0 => calls'[i] > 0)
    BY <1>1, <1>2, <2>1, <2>2
  <2>4. calls'[exec[e].step] > 0 /\ \A i \in exec[e].state : calls'[i] > 0
    BY <1>1, <1>2, <2>1, <2>2, <2>3
  <2>5. \A f \in Executors : Done(exec[f])'
    <3>1. PICK p \in {"commit", "fail"} :
              Move(e, p, exec[e].step, exec[e].version, exec[e].attempt, exec[e].state, exec[e].entry)
      BY <1>17, <1>1, PlaceMoves
    <3>2. p \in InStep /\ p \notin Between
      BY <1>3
    <3> QED BY <3>1, <3>2, <1>1, <1>2, <2>1, <2>3, <2>4, DoneMove
  <2>6. InOrder'
    <3> SUFFICES ASSUME NEW i \in Steps, calls'[i] > 0, NEW j \in 1..(i - 1)
                 PROVE  calls'[j] > 0
      BY DEF InOrder
    <3>1. j \in Steps
      BY DurabilitySdkAssumption DEF Steps
    <3>2. CASE i = exec[e].step
      BY <3>1, <3>2, <1>2, <2>1, <2>4
    <3>3. CASE i # exec[e].step
      <4>1. calls[i] > 0
        BY <3>3, <2>2
      <4> QED BY <3>1, <4>1, <2>3 DEF Progress, InOrder
    <3> QED BY <3>2, <3>3
  <2>7. CheckpointComplete'
    BY <1>1, <2>1, <2>3, Rows DEF Progress, CheckpointComplete
  <2> QED BY <2>1, <2>3, <2>5, <2>6, <2>7 DEF Progress
<1>18. CASE StartSave \/ StartVersion \/ StartAppend
  <2>1. job'.state = "completed" => job.state = "completed"
    <3>1. CASE StartSave \/ StartVersion
      BY <3>1, SaveJobEffect DEF StartSave, StartVersion, JobStates
    <3>2. CASE StartAppend
      BY <3>2, <1>1, AppendEventEffect DEF StartAppend
    <3> QED BY <1>18, <3>1, <3>2
  <2> QED BY <1>18, <2>1, ProgressRest DEF StartSave, StartVersion, StartAppend, Progress, Done
<1>19. CASE UNCHANGED vars
  BY <1>19, ProgressRest DEF vars, store, Progress, Done
<1> QED
  BY <1>4, <1>5, <1>6, <1>7, <1>9, <1>10, <1>11, <1>12, <1>13, <1>14, <1>15, <1>16, <1>17, <1>18, <1>19
     DEF Next, Execute, Wrap

\* Results are backed by calls, always.
LEMMA ProgressInvariant == Spec => []Progress
BY ProgressInit, ProgressNext, LocalInvariant, PTL DEF Spec

\* Execute calls the functions of a job in the order of its steps, whatever crashed,
\* failed or overlapped.
THEOREM CallsInOrder == Spec => []InOrder
<1>1. Progress => InOrder
  BY DEF Progress
<1> QED BY <1>1, ProgressInvariant, PTL

\* A checkpoint holds the results of exactly the steps up to its own, all called,
\* so that a resumed Execute loses none.
THEOREM CheckpointsComplete == Spec => []CheckpointComplete
<1>1. Progress => CheckpointComplete
  BY DEF Progress
<1> QED BY <1>1, ProgressInvariant, PTL

-----------------------------------------------------------------------------
(* An Execute that never overlapped another *)

\* An overlap and an outage are never forgotten.
LEMMA HistoryStays ==
    ASSUME Typed, [Next]_vars
    PROVE  /\ ~overlapped' => ~overlapped
           /\ outages' = 0 => outages = 0
<1>1. outages \in Nat
  BY DurabilitySdkAssumption DEF Typed
<1>2. ASSUME NEW e \in Executors, Execute(e)
      PROVE  (~overlapped' => ~overlapped) /\ (outages' = 0 => outages = 0)
  <2>1. CASE LoadJob(e)
    BY <2>1 DEF LoadJob
  <2>2. CASE StepRetried(e) \/ StepFailed(e) \/ StepFinished(e) \/ CheckpointSaved(e)
    BY <1>1, <2>2 DEF StepRetried, StepFailed, StepFinished, CheckpointSaved, AppendDropped
  <2>3. CASE \/ ListEvents(e) \/ LoadCheckpoint(e) \/ MarkRunning(e) \/ StepStarted(e) \/ SaveFailed(e)
             \/ SaveCheckpoint(e) \/ SaveProgress(e) \/ SaveCompleted(e) \/ JobCompleted(e)
    <3>1. UNCHANGED faults
      BY <2>3
         DEF ListEvents, LoadCheckpoint, MarkRunning, StepStarted, SaveFailed, SaveCheckpoint,
             SaveProgress, SaveCompleted, JobCompleted
    <3> QED BY <3>1 DEF faults
  <2> QED BY <1>2, <2>1, <2>2, <2>3 DEF Execute
<1>3. ASSUME NEW e \in Executors, Wrap(e) \/ Crash(e)
      PROVE  (~overlapped' => ~overlapped) /\ (outages' = 0 => outages = 0)
  BY <1>1, <1>3
     DEF Wrap, LedgerLoad, LedgerReset, LedgerAcquire, LedgerAcquired, Call, LedgerFail, LedgerCommit,
         LedgerCommitted, LedgerOutage, Crash, faults
<1>4. CASE StartSave \/ StartAppend \/ StartVersion \/ UNCHANGED vars
  BY <1>4 DEF StartSave, StartAppend, StartVersion, vars, faults
<1> QED BY <1>2, <1>3, <1>4 DEF Next

\* Without overlaps no step takes a commit back or calls a committed function again.
LEMMA CommittedKept ==
    ASSUME Local, Alone, [Next]_vars, ~overlapped',
           NEW i \in Steps, ledger[i].state = "completed"
    PROVE  ledger'[i].state = "completed" /\ calls'[i] = calls[i]
<1>1. Typed /\ ~overlapped
  BY HistoryStays DEF Local
<1>2. ASSUME NEW e \in Executors, exec[e].at \in Trying
      PROVE  exec[e].step \in Steps /\ exec[e].step # i
  BY <1>1, <1>2 DEF Alone, Kept, Trying, Local, Positioned, InStep, Holding
<1>3. ASSUME NEW e \in Executors, Execute(e) \/ Crash(e) \/ LedgerLoad(e) \/ LedgerOutage(e)
      PROVE  UNCHANGED << ledger, calls >>
  BY <1>3
     DEF Execute, LoadJob, ListEvents, LoadCheckpoint, MarkRunning, StepStarted, StepRetried, StepFailed,
         SaveFailed, StepFinished, SaveCheckpoint, CheckpointSaved, SaveProgress, SaveCompleted,
         JobCompleted, AppendDropped, Crash, LedgerLoad, LedgerOutage, store
<1>4. ASSUME NEW e \in Executors, LedgerReset(e) \/ LedgerAcquire(e) \/ LedgerFail(e) \/ LedgerCommit(e)
      PROVE  ledger'[i].state = "completed" /\ calls'[i] = calls[i]
  <2>1. exec[e].at \in Trying /\ exec[e].entry \in Nat
    BY <1>1, <1>4, Copies DEF LedgerReset, LedgerAcquire, LedgerFail, LedgerCommit, Trying, Holding
  <2>2. ledger'[i] = ledger[i]
    BY <1>1, <1>2, <1>4, <2>1, SaveLedgerEffect
       DEF LedgerReset, LedgerAcquire, LedgerFail, LedgerCommit, JobStates
  <2> QED BY <1>4, <2>2 DEF LedgerReset, LedgerAcquire, LedgerFail, LedgerCommit
<1>5. ASSUME NEW e \in Executors, LedgerAcquired(e) \/ LedgerCommitted(e)
      PROVE  ledger'[i].state = "completed" /\ calls'[i] = calls[i]
  <2>1. exec[e].step \in Steps /\ exec[e].entry \in Nat
    BY <1>1, <1>5, Copies DEF LedgerAcquired, LedgerCommitted, Local, Positioned, InStep, Holding
  <2> QED BY <1>1, <1>5, <2>1, AppendEntryEffect DEF LedgerAcquired, LedgerCommitted
<1>6. ASSUME NEW e \in Executors, Call(e)
      PROVE  ledger'[i].state = "completed" /\ calls'[i] = calls[i]
  <2>1. exec[e].at \in Trying
    BY <1>6 DEF Call, Trying, Holding
  <2> QED BY <1>1, <1>2, <1>6, <2>1 DEF Call, store, Typed
<1>7. CASE StartSave \/ StartAppend \/ StartVersion \/ UNCHANGED vars
  BY <1>7 DEF StartSave, StartAppend, StartVersion, vars, store
<1> QED BY <1>3, <1>4, <1>5, <1>6, <1>7 DEF Next, Wrap

\* All calls of Execute but one are idle.
Only(e) == \A f \in Executors : f # e => exec[f].at = "idle"

\* What e may rely on after its step, when it is the only one under way.
LEMMA KeptMove ==
    ASSUME Local, Alone, ~overlapped, NEW e \in Executors, Only(e), NEW at, NEW step, NEW version,
           NEW attempt, NEW state, NEW entry, Move(e, at, step, version, attempt, state, entry),
           \A i \in Steps : ledger[i].state = "completed" => ledger'[i].state = "completed",
           \A i \in state : ledger'[i].state = "completed",
           at \in {"committed", "finished"} => ledger'[step].state = "completed",
           at \in Trying => ledger'[step].state # "completed"
    PROVE  /\ \A f \in Executors : Kept(exec[f])'
           /\ \A f, g \in Executors : exec'[f].at # "idle" /\ exec'[g].at # "idle" => f = g
<1>1. \A f, g \in Executors : exec'[f].at # "idle" /\ exec'[g].at # "idle" => f = g
  BY DEF Move, Only
<1>2. ASSUME NEW f \in Executors
      PROVE  Kept(exec[f])'
  <2>1. CASE f = e
    BY <2>1 DEF Move, Kept, Trying
  <2>2. CASE f # e
    <3>1. exec'[f] = exec[f] /\ exec[f].at = "idle" /\ Kept(exec[f])
      BY <2>2 DEF Move, Only, Alone
    <3>2. exec[f].state \subseteq Steps
      BY Copies DEF Local
    <3> QED BY <3>1, <3>2 DEF Kept, Trying, Holding
  <2> QED BY <2>1, <2>2
<1> QED BY <1>1, <1>2

\* Steps that complete no job and save no checkpoint.
LEMMA AloneRest ==
    ASSUME Local, Alone, ~overlapped,
           \A f \in Executors : Kept(exec[f])',
           \A f, g \in Executors : exec'[f].at # "idle" /\ exec'[g].at # "idle" => f = g,
           \A i \in Steps : ledger[i].state = "completed" => ledger'[i].state = "completed",
           checkpoint' = checkpoint,
           job'.state = "completed" => job.state = "completed"
    PROVE  Alone'
<1>1. checkpoint.state \subseteq Steps
  BY Rows DEF Local
<1> QED BY <1>1 DEF Alone

\* At the start every Execute is idle.
LEMMA AloneInit == Init => Alone
BY DEF Init, Alone, Kept, Idle, Trying, Holding

\* While there is no overlap, every step keeps what the ledger says of the steps that are past.
LEMMA AloneNext == Local /\ Alone /\ Progress /\ [Next]_vars => Alone'
<1> SUFFICES ASSUME Local, Alone, Progress, [Next]_vars, ~overlapped'
             PROVE  Alone'
  BY DEF Alone
<1>1. Typed /\ ~overlapped
  BY HistoryStays DEF Local
<1>2. \A i \in Steps : ledger[i].state = "completed" => ledger'[i].state = "completed"
  BY CommittedKept
<1>3. ASSUME NEW e \in Executors, exec[e].at # "idle"
      PROVE  Only(e)
  BY <1>1, <1>3 DEF Alone, Only
<1>4. ASSUME NEW e \in Executors
      PROVE  /\ \A i \in exec[e].state : ledger'[i].state = "completed"
             /\ exec[e].at \in {"committed", "finished"} => ledger'[exec[e].step].state = "completed"
             /\ exec[e].at \in Trying => ledger[exec[e].step].state # "completed"
             /\ exec[e].at \in InStep => exec[e].step \in Steps
             /\ exec[e].version \in Nat /\ exec[e].entry \in Nat /\ exec[e].step \in 0..N
             /\ exec[e].state \subseteq Steps
  BY <1>1, <1>2, Copies DEF Alone, Kept, Trying, Local, Positioned, InStep, Holding
<1>5. /\ {"idle", "list", "checkpoint", "mark", "step_started", "failed", "save_failed", "finished",
          "save_checkpoint", "checkpoint_saved", "progress", "complete", "job_completed", "load",
          "committed"} \cap Trying = {}
      /\ {"reset", "acquire", "acquired", "call", "fail", "commit"} = Trying
      /\ Trying \subseteq InStep /\ {"load", "committed", "finished", "failed"} \subseteq InStep
  BY DEF Trying, Holding, InStep
<1>6. ASSUME NEW e \in Executors, LoadJob(e)
      PROVE  Alone'
  <2>1. Only(e)
    BY <1>6 DEF LoadJob, Only
  <2>2. UNCHANGED << job, checkpoint >>
    BY <1>6 DEF LoadJob, store
  <2> QED BY <1>6, <2>1, <2>2, <1>1, <1>2, <1>4, <1>5, LoadJobMove, KeptMove, AloneRest
<1>7. ASSUME NEW e \in Executors, ListEvents(e)
      PROVE  Alone'
  <2>1. Only(e) /\ UNCHANGED << job, checkpoint >>
    BY <1>3, <1>7 DEF ListEvents, store
  <2> QED BY <1>7, <2>1, <1>1, <1>2, <1>4, <1>5, ListEventsMove, KeptMove, AloneRest
<1>8. ASSUME NEW e \in Executors, LoadCheckpoint(e)
      PROVE  Alone'
  <2>1. Only(e) /\ UNCHANGED << job, checkpoint >>
    BY <1>3, <1>8 DEF LoadCheckpoint, store
  <2>2. \A i \in checkpoint.state : ledger'[i].state = "completed"
    BY <1>1, <1>2, Rows DEF Alone
  <2> QED BY <1>8, <2>1, <2>2, <1>1, <1>2, <1>5, LoadCheckpointMove, KeptMove, AloneRest
<1>9. ASSUME NEW e \in Executors, MarkRunning(e) \/ SaveProgress(e)
      PROVE  Alone'
  <2>1. Only(e) /\ UNCHANGED checkpoint
    BY <1>3, <1>9 DEF MarkRunning, SaveProgress
  <2>2. job'.state = "running"
    BY <1>4, <1>9, SaveJobEffect DEF MarkRunning, SaveProgress, JobStates
  <2>3. StepAfter(exec[e].step) \notin Trying /\ StepAfter(exec[e].step) \notin {"committed", "finished"}
    BY DEF StepAfter, Trying, Holding
  <2> QED BY <1>9, <2>1, <2>2, <2>3, <1>1, <1>2, <1>4, NextStepMove, KeptMove, AloneRest
<1>10. ASSUME NEW e \in Executors, StepStarted(e)
       PROVE  Alone'
  <2>1. Only(e) /\ UNCHANGED checkpoint
    BY <1>3, <1>10 DEF StepStarted
  <2>2. job'.state = job.state
    BY <1>1, <1>4, <1>10, AppendEventEffect DEF StepStarted
  <2> QED BY <1>10, <2>1, <2>2, <1>1, <1>2, <1>4, <1>5, StepStartedMove, KeptMove, AloneRest
<1>11. ASSUME NEW e \in Executors,
              StepRetried(e) \/ StepFailed(e) \/ StepFinished(e) \/ CheckpointSaved(e)
       PROVE  Alone'
  <2>1. Only(e) /\ UNCHANGED checkpoint
    BY <1>3, <1>11 DEF StepRetried, StepFailed, StepFinished, CheckpointSaved, AppendDropped
  <2>2. PICK at, attempt, state :
            /\ at \in {"load", "save_failed", "save_checkpoint", "progress"}
            /\ Dropped(e, at, attempt, state)
            /\ \A i \in state : ledger'[i].state = "completed"
    <3>1. CASE StepFinished(e)
      <4>1. \A i \in exec[e].state \cup {exec[e].step} : ledger'[i].state = "completed"
        BY <3>1, <1>4 DEF StepFinished
      <4>2. Dropped(e, "save_checkpoint", 0, exec[e].state \cup {exec[e].step})
        BY <1>1, <3>1, StepFinishedMove
      <4> QED BY <4>1, <4>2
    <3>2. CASE StepRetried(e) \/ StepFailed(e) \/ CheckpointSaved(e)
      BY <3>2, <1>1, <1>4, StepRetriedMove, StepFailedMove, CheckpointSavedMove
    <3> QED BY <1>11, <3>1, <3>2
  <2>3. PICK v : Move(e, at, exec[e].step, v, attempt, state, exec[e].entry)
    BY <2>2 DEF Dropped
  <2>4. job'.state = job.state
    BY <1>1, <1>4, <2>2, AppendEventEffect DEF Dropped
  <2>5. at \notin Trying /\ at \notin {"committed", "finished"}
    BY <2>2, <1>5
  <2> QED BY <2>1, <2>2, <2>3, <2>4, <2>5, <1>1, <1>2, KeptMove, AloneRest
<1>12. ASSUME NEW e \in Executors, SaveFailed(e) \/ JobCompleted(e) \/ Crash(e)
       PROVE  Alone'
  <2>1. Only(e) /\ UNCHANGED checkpoint
    BY <1>3, <1>12 DEF SaveFailed, JobCompleted, Crash, store
  <2>2. job'.state = "completed" => job.state = "completed"
    <3>1. CASE SaveFailed(e)
      BY <3>1, <1>4, SaveJobEffect DEF SaveFailed, JobStates
    <3>2. CASE JobCompleted(e)
      BY <3>2, <1>1, <1>4, AppendEventEffect DEF JobCompleted
    <3> QED BY <1>12, <3>1, <3>2 DEF Crash, store
  <2>3. Move(e, "idle", 0, 0, 0, {}, 0)
    BY <1>12, <1>1, ReturnMove DEF SaveFailed, JobCompleted, Crash, Typed
  <2> QED BY <2>1, <2>2, <2>3, <1>1, <1>2, <1>5, KeptMove, AloneRest
<1>13. ASSUME NEW e \in Executors, SaveCheckpoint(e)
       PROVE  Alone'
  <2>1. Only(e) /\ UNCHANGED << job, ledger >>
    BY <1>3, <1>13 DEF SaveCheckpoint
  <2>2. \A i \in checkpoint'.state : ledger'[i].state = "completed"
    BY <1>4, <1>13 DEF SaveCheckpoint
  <2>3. /\ \A f \in Executors : Kept(exec[f])'
        /\ \A f, g \in Executors : exec'[f].at # "idle" /\ exec'[g].at # "idle" => f = g
    BY <1>13, <2>1, <1>1, <1>2, <1>4, <1>5, PlaceMoves, KeptMove
  <2> QED BY <1>1, <2>1, <2>2, <2>3 DEF Alone
<1>14. ASSUME NEW e \in Executors, SaveCompleted(e)
       PROVE  Alone'
  <2>1. Only(e) /\ UNCHANGED << checkpoint, ledger >> /\ exec[e].step = N /\ exec[e].at = "complete"
    BY <1>3, <1>14 DEF SaveCompleted, Local, Positioned
  <2>2. exec[e].state = Steps
    BY <2>1 DEF Progress, Done, Between, Steps
  <2>3. /\ \A f \in Executors : Kept(exec[f])'
        /\ \A f, g \in Executors : exec'[f].at # "idle" /\ exec'[g].at # "idle" => f = g
    BY <1>14, <2>1, <1>1, <1>2, <1>4, <1>5, PlaceMoves, KeptMove
  <2> QED BY <1>1, <1>4, <2>1, <2>2, <2>3 DEF Alone
<1>15. ASSUME NEW e \in Executors, LedgerLoad(e)
       PROVE  Alone'
  <2>1. Only(e) /\ UNCHANGED << job, checkpoint, ledger >>
    BY <1>3, <1>15 DEF LedgerLoad, store
  <2>2. CASE ledger[exec[e].step].state = "completed"
    BY <1>15, <2>1, <2>2, <1>1, <1>2, <1>4, <1>5, LedgerLoadMove, KeptMove, AloneRest
  <2>3. CASE ledger[exec[e].step].state # "completed"
    <3>1. PICK p \in {"reset", "acquire"} :
              Move(e, p, exec[e].step, exec[e].version, exec[e].attempt, exec[e].state,
                   ledger[exec[e].step].version)
      BY <1>15, <2>3, LedgerLoadMove
    <3> QED BY <2>1, <2>3, <3>1, <1>1, <1>2, <1>4, KeptMove, AloneRest
  <2> QED BY <2>2, <2>3
<1>16. ASSUME NEW e \in Executors, LedgerReset(e) \/ LedgerAcquire(e) \/ LedgerCommit(e) \/ LedgerFail(e)
       PROVE  Alone'
  <2>1. Only(e) /\ UNCHANGED << job, checkpoint >>
    BY <1>3, <1>16 DEF LedgerReset, LedgerAcquire, LedgerCommit, LedgerFail
  <2>2. exec[e].step \in Steps
    BY <1>4, <1>5, <1>16 DEF LedgerReset, LedgerAcquire, LedgerCommit, LedgerFail
  <2>3. CASE LedgerCommit(e)
    <3>1. ledger'[exec[e].step].state = "completed"
      BY <1>1, <1>4, <2>2, <2>3, SaveLedgerEffect DEF LedgerCommit, JobStates
    <3> QED BY <2>1, <2>3, <3>1, <1>1, <1>2, <1>4, <1>5, PlaceMoves, KeptMove, AloneRest
  <2>4. CASE LedgerReset(e) \/ LedgerAcquire(e) \/ LedgerFail(e)
    <3>1. ledger'[exec[e].step].state # "completed"
      BY <1>1, <1>4, <2>2, <2>4, SaveLedgerEffect DEF LedgerReset, LedgerAcquire, LedgerFail, JobStates
    <3>2. PICK p, n :
              /\ p \in {"acquire", "acquired", "failed"}
              /\ Move(e, p, exec[e].step, exec[e].version, exec[e].attempt, exec[e].state, n)
      BY <2>4, <1>1, PlaceMoves, LedgerFailMove
    <3> QED BY <2>1, <3>1, <3>2, <1>1, <1>2, <1>4, KeptMove, AloneRest
  <2> QED BY <1>16, <2>3, <2>4
<1>17. ASSUME NEW e \in Executors, LedgerAcquired(e) \/ LedgerCommitted(e)
       PROVE  Alone'
  <2>1. Only(e) /\ UNCHANGED << job, checkpoint >>
    BY <1>3, <1>17 DEF LedgerAcquired, LedgerCommitted
  <2>2. exec[e].step \in Steps
    BY <1>4, <1>5, <1>17 DEF LedgerAcquired, LedgerCommitted
  <2>3. ledger'[exec[e].step].state = ledger[exec[e].step].state
    BY <1>17, <1>1, <1>4, <2>2, AppendEntryEffect DEF LedgerAcquired, LedgerCommitted
  <2>4. CASE LedgerAcquired(e)
    <3>1. ledger'[exec[e].step].state # "completed"
      BY <2>3, <2>4, <1>4, <1>5 DEF LedgerAcquired
    <3>2. PICK p, n :
              /\ p \in {"call", "failed"}
              /\ Move(e, p, exec[e].step, exec[e].version, exec[e].attempt, exec[e].state, n)
      BY <2>4, LedgerAcquiredMove
    <3> QED BY <2>1, <3>1, <3>2, <1>1, <1>2, <1>4, KeptMove, AloneRest
  <2>5. CASE LedgerCommitted(e)
    <3>1. ledger'[exec[e].step].state = "completed"
      BY <2>5, <1>4 DEF LedgerCommitted
    <3> QED BY <2>1, <2>5, <3>1, <1>1, <1>2, <1>4, <1>5, LedgerCommittedMove, KeptMove, AloneRest
  <2> QED BY <1>17, <2>4, <2>5
<1>18. ASSUME NEW e \in Executors, Call(e)
       PROVE  Alone'
  <2>1. Only(e) /\ UNCHANGED << job, checkpoint, ledger >>
    BY <1>3, <1>18 DEF Call, store
  <2>2. ledger'[exec[e].step].state # "completed"
    BY <1>4, <1>5, <1>18, <2>1 DEF Call
  <2>3. PICK p \in {"commit", "fail"} :
            Move(e, p, exec[e].step, exec[e].version, exec[e].attempt, exec[e].state, exec[e].entry)
    BY <1>18, <1>1, PlaceMoves
  <2> QED BY <2>1, <2>2, <2>3, <1>1, <1>2, <1>4, KeptMove, AloneRest
<1>19. ASSUME NEW e \in Executors, LedgerOutage(e)
       PROVE  Alone'
  <2>1. Only(e) /\ UNCHANGED << job, checkpoint, ledger >>
    BY <1>3, <1>19 DEF LedgerOutage, store
  <2>2. CASE exec[e].at = "reset"
    <3>1. Move(e, "acquire", exec[e].step, exec[e].version, exec[e].attempt, exec[e].state, exec[e].entry)
      BY <2>2, <1>1, <1>19, LedgerOutageMove
    <3>2. ledger'[exec[e].step].state # "completed"
      BY <2>1, <2>2, <1>4, <1>5
    <3> QED BY <2>1, <3>1, <3>2, <1>1, <1>2, <1>4, KeptMove, AloneRest
  <2>3. CASE exec[e].at = "committed"
    <3>1. Move(e, "finished", exec[e].step, exec[e].version, exec[e].attempt, exec[e].state, 0)
      BY <2>3, <1>1, <1>19, LedgerOutageMove
    <3> QED BY <2>1, <2>3, <3>1, <1>1, <1>2, <1>4, <1>5, KeptMove, AloneRest
  <2>4. CASE exec[e].at \notin {"reset", "committed"}
    <3>1. Move(e, "failed", exec[e].step, exec[e].version, exec[e].attempt, exec[e].state, 0)
      BY <2>4, <1>1, <1>19, LedgerOutageMove
    <3> QED BY <2>1, <3>1, <1>1, <1>2, <1>4, <1>5, KeptMove, AloneRest
  <2> QED BY <2>2, <2>3, <2>4
<1>20. CASE StartSave \/ StartVersion \/ StartAppend
  <2>1. job'.state = "completed" => job.state = "completed"
    <3>1. CASE StartSave \/ StartVersion
      BY <3>1, SaveJobEffect DEF StartSave, StartVersion, JobStates
    <3>2. CASE StartAppend
      BY <3>2, <1>1, AppendEventEffect DEF StartAppend
    <3> QED BY <1>20, <3>1, <3>2
  <2>2. UNCHANGED << exec, checkpoint, ledger >>
    BY <1>20 DEF StartSave, StartVersion, StartAppend
  <2> QED BY <1>1, <2>1, <2>2 DEF Alone, Kept
<1>21. CASE UNCHANGED vars
  BY <1>21 DEF vars, store, faults, Alone, Kept
<1> QED
  BY <1>6, <1>7, <1>8, <1>9, <1>10, <1>11, <1>12, <1>13, <1>14, <1>15, <1>16, <1>17, <1>18, <1>19,
     <1>20, <1>21 DEF Next, Execute, Wrap

\* What an Execute that never overlapped another may rely on, always.
LEMMA AloneInvariant == Spec => []Alone
BY AloneInit, AloneNext, LocalInvariant, ProgressInvariant, PTL DEF Spec

\* A completed job has called every function, and without overlaps has committed every key.
THEOREM CompletedIsComplete == Spec => []CompletedMeansAll
<1>1. Progress /\ Alone => CompletedMeansAll
  BY DEF Progress, Alone, CompletedMeansAll
<1> QED BY <1>1, ProgressInvariant, AloneInvariant, PTL

\* While calls of Execute do not overlap, a committed key stays committed and its
\* function is not called again.
THEOREM CommittedCalledOnce == Spec => CommittedOnce
<1>1. Local /\ Alone /\ [Next]_vars =>
          [~overlapped' =>
             \A i \in Steps : ledger[i].state = "completed" =>
                 ledger'[i].state = "completed" /\ calls'[i] = calls[i]]_vars
  BY CommittedKept
<1> QED BY <1>1, LocalInvariant, AloneInvariant, PTL DEF Spec, CommittedOnce

-----------------------------------------------------------------------------
(* An Execute that is alone, on a store that does not fail *)

\* The copies of the only Execute under way after its step.
LEMMA SyncedMove ==
    ASSUME NEW e \in Executors, Only(e), NEW at, NEW step, NEW version, NEW attempt, NEW state,
           NEW entry, Move(e, at, step, version, attempt, state, entry),
           at \in {"checkpoint", "mark"} => version = events',
           at \in Marked => version = events' /\ job'.version = events',
           at \in Holding => entry = ledger'[step].version
    PROVE  \A f \in Executors : Synced(exec[f])'
<1> TAKE f \in Executors
<1>1. CASE f = e
  BY <1>1 DEF Move, Synced, Marked
<1>2. CASE f # e
  <2>1. exec'[f].at = "idle"
    BY <1>2 DEF Move, Only
  <2> QED BY <2>1 DEF Synced, Marked, InStep, Between, Holding
<1> QED BY <1>1, <1>2

\* At the start no row has a version.
LEMMA QuietInit == Init => Quiet
BY DEF Init, Quiet, Synced, Idle, Marked, InStep, Between, Holding

\* Alone and without outages every append is at the version of its row.
LEMMA QuietNext == Local /\ Versions /\ Alone /\ Quiet /\ [Next]_vars => Quiet'
<1> SUFFICES ASSUME Local, Versions, Alone, Quiet, [Next]_vars, ~overlapped', outages' = 0
             PROVE  Quiet'
  BY DEF Quiet
<1>1. Typed /\ ~overlapped /\ outages = 0
  BY HistoryStays DEF Local
<1>2. ~refused /\ \A i \in Steps : ledger[i].version = entries[i]
  BY <1>1 DEF Quiet
<1>3. ASSUME NEW e \in Executors
      PROVE  /\ exec[e].at # "idle" => Only(e) /\ start = "done"
             /\ exec[e].at \in {"checkpoint", "mark"} => exec[e].version = events
             /\ exec[e].at \in Marked => exec[e].version = events /\ job.version = events
             /\ exec[e].at \in InStep => exec[e].step \in Steps
             /\ exec[e].at \in Holding => exec[e].entry = ledger[exec[e].step].version
             /\ exec[e].at \in Holding => exec[e].step \in Steps
             /\ exec[e].version \in Nat /\ exec[e].entry \in Nat /\ exec[e].step \in 0..N
  BY <1>1, Copies DEF Alone, Only, Quiet, Synced, Marked, Local, Positioned, InStep, Versions
<1>4. /\ {"idle", "list", "checkpoint", "mark"} \cap Marked = {}
      /\ {"step_started", "save_checkpoint", "checkpoint_saved", "progress", "complete", "job_completed",
          "load", "failed", "save_failed", "finished"} \subseteq Marked
      /\ Holding \subseteq Marked
      /\ {"idle", "list", "checkpoint", "mark", "step_started", "save_checkpoint", "checkpoint_saved",
          "progress", "complete", "job_completed", "load", "failed", "save_failed", "finished"}
           \cap Holding = {}
      /\ {"reset", "acquire", "acquired", "call", "fail", "commit", "committed"} = Holding
  BY DEF Marked, InStep, Between, Holding
<1>5. ASSUME NEW e \in Executors, LoadJob(e)
      PROVE  Quiet'
  <2>1. Only(e)
    BY <1>5 DEF LoadJob, Only
  <2>2. \A f \in Executors : Synced(exec[f])'
    BY <1>5, <2>1, <1>1, <1>4, LoadJobMove, SyncedMove
  <2> QED BY <1>2, <1>5, <2>2 DEF LoadJob, store, Quiet
<1>6. ASSUME NEW e \in Executors, ListEvents(e)
      PROVE  Quiet'
  <2>1. Only(e) /\ UNCHANGED << job, events, ledger, entries, refused >>
    BY <1>3, <1>6 DEF ListEvents, store
  <2>2. \A f \in Executors : Synced(exec[f])'
    BY <1>6, <2>1, <1>1, <1>4, ListEventsMove, SyncedMove
  <2> QED BY <1>2, <2>1, <2>2 DEF Quiet
<1>7. ASSUME NEW e \in Executors, LoadCheckpoint(e)
      PROVE  Quiet'
  <2>1. Only(e) /\ exec[e].version = events /\ UNCHANGED << job, events, ledger, entries, refused >>
    BY <1>3, <1>7 DEF LoadCheckpoint, store
  <2>2. \A f \in Executors : Synced(exec[f])'
    BY <1>7, <2>1, <1>1, <1>4, LoadCheckpointMove, SyncedMove
  <2> QED BY <1>2, <2>1, <2>2 DEF Quiet
<1>8. ASSUME NEW e \in Executors, MarkRunning(e) \/ SaveProgress(e)
      PROVE  Quiet'
  <2>1. Only(e) /\ exec[e].version = events /\ UNCHANGED << events, ledger, entries, refused >>
    BY <1>3, <1>4, <1>8 DEF MarkRunning, SaveProgress
  <2>2. job'.version = events'
    BY <1>3, <1>8, <2>1, SaveJobEffect DEF MarkRunning, SaveProgress, JobStates
  <2>3. StepAfter(exec[e].step) \notin Holding /\ StepAfter(exec[e].step) \notin {"checkpoint", "mark"}
    BY DEF StepAfter, Holding
  <2>4. \A f \in Executors : Synced(exec[f])'
    BY <1>8, <2>1, <2>2, <2>3, <1>1, NextStepMove, SyncedMove
  <2> QED BY <1>2, <2>1, <2>4 DEF Quiet
<1>9. ASSUME NEW e \in Executors, StepStarted(e)
      PROVE  Quiet'
  <2>1. /\ Only(e) /\ exec[e].version = events /\ job.version = events
        /\ UNCHANGED << ledger, entries >>
    BY <1>3, <1>4, <1>9 DEF StepStarted
  <2>2. /\ Accepted(job, events, exec[e].version)
        /\ events' = exec[e].version + 1 /\ job'.version = exec[e].version + 1
    BY <1>1, <1>3, <1>9, <2>1, AppendEventEffect DEF StepStarted
  <2>3. Move(e, "load", exec[e].step + 1, exec[e].version + 1, 1, exec[e].state, exec[e].entry)
    BY <1>9, <2>2, StepStartedMove
  <2>4. \A f \in Executors : Synced(exec[f])'
    BY <2>1, <2>2, <2>3, <1>4, SyncedMove
  <2>5. ~refused'
    BY <1>2, <1>9, <2>2 DEF StepStarted
  <2> QED BY <1>2, <2>1, <2>4, <2>5 DEF Quiet
<1>10. ASSUME NEW e \in Executors,
              StepRetried(e) \/ StepFailed(e) \/ StepFinished(e) \/ CheckpointSaved(e)
       PROVE  Quiet'
  <2>1. exec[e].at \in {"failed", "finished", "checkpoint_saved"} /\ UNCHANGED << ledger, entries, refused >>
    BY <1>10 DEF StepRetried, StepFailed, StepFinished, CheckpointSaved, AppendDropped
  <2>2. Only(e) /\ exec[e].version = events /\ job.version = events
    BY <1>3, <1>4, <2>1
  <2>3. PICK at, attempt, state :
            /\ at \in {"load", "save_failed", "save_checkpoint", "progress"}
            /\ Dropped(e, at, attempt, state)
    <3>1. CASE StepFinished(e)
      <4>1. Dropped(e, "save_checkpoint", 0, exec[e].state \cup {exec[e].step})
        BY <1>1, <3>1, StepFinishedMove
      <4> QED BY <4>1
    <3>2. CASE StepRetried(e) \/ StepFailed(e) \/ CheckpointSaved(e)
      BY <1>1, <3>2, StepRetriedMove, StepFailedMove, CheckpointSavedMove
    <3> QED BY <1>10, <3>1, <3>2
  <2>4. /\ AppendEvent(exec[e].version)
        /\ Move(e, at, exec[e].step, NewVersion(job, events, exec[e].version), attempt, state,
                exec[e].entry)
    BY <1>1, <2>3 DEF Dropped
  <2>5. /\ events' = exec[e].version + 1 /\ job'.version = exec[e].version + 1
        /\ NewVersion(job, events, exec[e].version) = exec[e].version + 1
    BY <1>1, <1>3, <2>2, <2>4, AppendEventEffect
  <2>6. at \notin Holding /\ at \notin {"checkpoint", "mark"}
    BY <1>4, <2>3
  <2>7. \A f \in Executors : Synced(exec[f])'
    BY <2>2, <2>4, <2>5, <2>6, SyncedMove
  <2> QED BY <1>2, <2>1, <2>7 DEF Quiet
<1>11. ASSUME NEW e \in Executors, SaveFailed(e) \/ JobCompleted(e) \/ Crash(e)
       PROVE  Quiet'
  <2>1. Only(e) /\ UNCHANGED << ledger, entries, refused >>
    BY <1>3, <1>11 DEF SaveFailed, JobCompleted, Crash, store
  <2>2. Move(e, "idle", 0, 0, 0, {}, 0)
    BY <1>1, <1>11, ReturnMove DEF SaveFailed, JobCompleted, Crash, Typed
  <2>3. \A f \in Executors : Synced(exec[f])'
    BY <2>1, <2>2, <1>4, SyncedMove
  <2> QED BY <1>2, <2>1, <2>3 DEF Quiet
<1>12. ASSUME NEW e \in Executors, SaveCheckpoint(e)
       PROVE  Quiet'
  <2>1. /\ Only(e) /\ exec[e].version = events /\ job.version = events
        /\ UNCHANGED << job, events, ledger, entries, refused >>
    BY <1>3, <1>4, <1>12 DEF SaveCheckpoint
  <2>2. \A f \in Executors : Synced(exec[f])'
    BY <1>12, <2>1, <1>1, <1>4, PlaceMoves, SyncedMove
  <2> QED BY <1>2, <2>1, <2>2 DEF Quiet
<1>13. ASSUME NEW e \in Executors, SaveCompleted(e)
       PROVE  Quiet'
  <2>1. Only(e) /\ exec[e].version = events /\ UNCHANGED << events, ledger, entries, refused >>
    BY <1>3, <1>4, <1>13 DEF SaveCompleted
  <2>2. job'.version = events'
    BY <1>3, <1>13, <2>1, SaveJobEffect DEF SaveCompleted, JobStates
  <2>3. \A f \in Executors : Synced(exec[f])'
    BY <1>13, <2>1, <2>2, <1>1, <1>4, PlaceMoves, SyncedMove
  <2> QED BY <1>2, <2>1, <2>3 DEF Quiet
<1>14. ASSUME NEW e \in Executors, LedgerLoad(e)
       PROVE  Quiet'
  <2>1. /\ Only(e) /\ exec[e].version = events /\ job.version = events
        /\ UNCHANGED << job, events, ledger, entries, refused >>
    BY <1>3, <1>4, <1>14 DEF LedgerLoad, store
  <2>2. CASE ledger[exec[e].step].state = "completed"
    <3>1. \A f \in Executors : Synced(exec[f])'
      BY <1>14, <2>1, <2>2, <1>4, LedgerLoadMove, SyncedMove
    <3> QED BY <1>2, <2>1, <3>1 DEF Quiet
  <2>3. CASE ledger[exec[e].step].state # "completed"
    <3>1. PICK p \in {"reset", "acquire"} :
              Move(e, p, exec[e].step, exec[e].version, exec[e].attempt, exec[e].state,
                   ledger[exec[e].step].version)
      BY <1>14, <2>3, LedgerLoadMove
    <3>2. \A f \in Executors : Synced(exec[f])'
      BY <2>1, <3>1, SyncedMove
    <3> QED BY <1>2, <2>1, <3>2 DEF Quiet
  <2> QED BY <2>2, <2>3
<1>15. ASSUME NEW e \in Executors, LedgerReset(e) \/ LedgerAcquire(e) \/ LedgerCommit(e) \/ LedgerFail(e)
       PROVE  Quiet'
  <2>1. /\ exec[e].at \in Holding
        /\ UNCHANGED << job, events, entries, refused >>
    BY <1>15, <1>4 DEF LedgerReset, LedgerAcquire, LedgerCommit, LedgerFail
  <2>2. Only(e) /\ exec[e].version = events /\ job.version = events /\ exec[e].step \in Steps
    BY <1>3, <1>4, <2>1
  <2>3. /\ ledger'[exec[e].step].version = exec[e].entry
        /\ \A i \in Steps : i # exec[e].step => ledger'[i] = ledger[i]
    BY <1>1, <1>3, <1>15, <2>2, SaveLedgerEffect
       DEF LedgerReset, LedgerAcquire, LedgerCommit, LedgerFail, JobStates
  <2>4. \A i \in Steps : ledger'[i].version = entries'[i]
    BY <1>2, <1>3, <2>1, <2>3
  <2>5. \A f \in Executors : Synced(exec[f])'
    <3>1. CASE LedgerFail(e)
      BY <3>1, <2>1, <2>2, <1>1, <1>4, LedgerFailMove, SyncedMove
    <3>2. CASE LedgerReset(e) \/ LedgerAcquire(e) \/ LedgerCommit(e)
      <4>1. PICK p \in {"acquire", "acquired", "committed"} :
                Move(e, p, exec[e].step, exec[e].version, exec[e].attempt, exec[e].state, exec[e].entry)
        BY <3>2, <1>1, PlaceMoves
      <4> QED BY <4>1, <2>1, <2>2, <2>3, SyncedMove
    <3> QED BY <1>15, <3>1, <3>2
  <2> QED BY <1>2, <2>1, <2>4, <2>5 DEF Quiet
<1>16. ASSUME NEW e \in Executors, LedgerAcquired(e) \/ LedgerCommitted(e)
       PROVE  Quiet'
  <2>1. exec[e].at \in Holding /\ UNCHANGED << job, events >>
    BY <1>16, <1>4 DEF LedgerAcquired, LedgerCommitted
  <2>2. Only(e) /\ exec[e].version = events /\ job.version = events /\ exec[e].step \in Steps
    BY <1>3, <1>4, <2>1
  <2>3. ledger[exec[e].step].version = exec[e].entry /\ entries[exec[e].step] = exec[e].entry
    BY <1>2, <1>3, <2>1, <2>2
  <2>4. /\ Accepted(ledger[exec[e].step], entries[exec[e].step], exec[e].entry)
        /\ entries'[exec[e].step] = exec[e].entry + 1
        /\ ledger'[exec[e].step].version = exec[e].entry + 1
        /\ \A i \in Steps : i # exec[e].step => ledger'[i] = ledger[i] /\ entries'[i] = entries[i]
    BY <1>1, <1>3, <1>16, <2>2, <2>3, AppendEntryEffect DEF LedgerAcquired, LedgerCommitted
  <2>5. \A i \in Steps : ledger'[i].version = entries'[i]
    BY <1>2, <2>4
  <2>6. ~refused'
    BY <1>2, <1>16, <2>4 DEF LedgerAcquired, LedgerCommitted
  <2>7. \A f \in Executors : Synced(exec[f])'
    <3>1. CASE LedgerAcquired(e)
      <4>1. Move(e, "call", exec[e].step, exec[e].version, exec[e].attempt, exec[e].state,
                 exec[e].entry + 1)
        BY <3>1, <2>4, LedgerAcquiredMove
      <4> QED BY <4>1, <2>1, <2>2, <2>4, SyncedMove
    <3>2. CASE LedgerCommitted(e)
      BY <3>2, <2>1, <2>2, <1>1, <1>4, LedgerCommittedMove, SyncedMove
    <3> QED BY <1>16, <3>1, <3>2
  <2> QED BY <2>5, <2>6, <2>7 DEF Quiet
<1>17. ASSUME NEW e \in Executors, Call(e)
       PROVE  Quiet'
  <2>1. exec[e].at \in Holding /\ UNCHANGED << job, events, ledger, entries, refused >>
    BY <1>17, <1>4 DEF Call, store
  <2>2. Only(e) /\ exec[e].version = events /\ job.version = events
    BY <1>3, <1>4, <2>1
  <2>3. PICK p \in {"commit", "fail"} :
            Move(e, p, exec[e].step, exec[e].version, exec[e].attempt, exec[e].state, exec[e].entry)
    BY <1>17, <1>1, PlaceMoves
  <2>4. \A f \in Executors : Synced(exec[f])'
    BY <1>3, <2>1, <2>2, <2>3, SyncedMove
  <2> QED BY <1>2, <2>1, <2>4 DEF Quiet
<1>18. ASSUME NEW e \in Executors, LedgerOutage(e)
       PROVE  FALSE
  BY <1>1, <1>18 DEF LedgerOutage
<1>19. CASE StartSave \/ StartVersion \/ StartAppend
  <2>1. UNCHANGED << exec, ledger, entries, refused >> /\ start # "done"
    BY <1>19 DEF StartSave, StartVersion, StartAppend
  <2>2. \A f \in Executors : exec'[f].at = "idle"
    BY <2>1 DEF Versions
  <2>3. \A f \in Executors : Synced(exec[f])'
    BY <2>2 DEF Synced, Marked, InStep, Between, Holding
  <2> QED BY <1>2, <2>1, <2>3 DEF Quiet
<1>20. CASE UNCHANGED vars
  BY <1>20 DEF vars, store, faults, Quiet, Synced
<1> QED
  BY <1>5, <1>6, <1>7, <1>8, <1>9, <1>10, <1>11, <1>12, <1>13, <1>14, <1>15, <1>16, <1>17, <1>18, <1>19,
     <1>20 DEF Next, Execute, Wrap

\* The copies of an Execute that is alone are those of the store, always.
LEMMA QuietInvariant == Spec => []Quiet
BY QuietInit, QuietNext, LocalInvariant, VersionsInvariant, AloneInvariant, PTL DEF Spec

\* A version check refuses a caller only after an overlap or a failed store call:
\* crashes, retries and resumed jobs leave versions the next Execute can append at.
THEOREM RefusedByOverlap == Spec => []RefusedOnlyByOverlap
<1>1. Local /\ Quiet => RefusedOnlyByOverlap
  BY DurabilitySdkAssumption DEF Local, Typed, Quiet, RefusedOnlyByOverlap
<1> QED BY <1>1, LocalInvariant, QuietInvariant, PTL
=============================================================================
