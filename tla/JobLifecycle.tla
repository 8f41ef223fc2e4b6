---------------------------- MODULE JobLifecycle ----------------------------
(***************************************************************************)
(* The life of jobs under PostgreSQL: workers that claim from the event    *)
(* store (plain workers) or from the job table by capability and then from *)
(* the event store, execute, retry, cancel and reclaim, with the status in *)
(* the job table and the stream as two stores that are written one after   *)
(* the other.                                                              *)
(*                                                                         *)
(* A stream is what its readers look at: the status that                   *)
(* DeriveStatusFromEvents makes of it, what its last event is, and whether *)
(* a job_waiting is in it.  A claim is a SELECT and a later upsert that    *)
(* checks nothing; an append is a read of the stream with the check of the *)
(* attempt, and a later INSERT that the unique version refuses when the    *)
(* read is no longer the latest.  A worker executes one job at a time      *)
(* (concurrency 1), so the attempt of a lease is the current execution of  *)
(* its holder, or one that is over.  What RunForJob does is the subject of *)
(* JobRun; here it adds events of its nodes and ends in one of its         *)
(* outcomes.                                                               *)
(***************************************************************************)
EXTENDS Naturals, FiniteSets

CONSTANTS Jobs,
          Workers,
          Capable,      \* the workers that are configured with capabilities
          MaxAttempts,  \* worker.max_attempts
          MaxFaults,    \* bound: crashes, leases that expire under a live holder,
                        \* messages and cancel requests
          Clients,      \* the clients that signal, each with one signal that arrives
          NoJob,
          NoWorker

ASSUME JobLifecycleAssumption ==
    /\ Capable \subseteq Workers
    /\ MaxAttempts \in Nat \ {0}
    /\ MaxFaults \in Nat
    /\ Workers \cap Clients = {}
    /\ NoJob \notin Jobs
    /\ NoWorker \notin Workers

VARIABLES
    status,   \* status[j]: the status in the job table
    retries,  \* retries[j]: retry_count, which no longer matters from MaxAttempts - 1 on
    cancel,   \* the jobs with cancel_requested_at
    stream,   \* stream[j]: what j's events say
    fresh,    \* fresh[j]: the workers and clients whose read of j's events is the latest
    ready,    \* the jobs whose plan_generated is in the stream
    claim,    \* claim[j]: the lease of j and the worker whose execution holds it
    work,     \* work[w]: what worker w is doing
    req,      \* req[c]: the JobSignal request of client c
    faults    \* faults so far

vars == << status, retries, cancel, stream, fresh, ready, claim, work, req, faults >>

Idle == [at |-> "idle", job |-> NoJob, retry |-> 0, cancelled |-> FALSE, result |-> "none",
         ids |-> {}, derived |-> "none"]

NoRequest == [at |-> "idle", job |-> NoJob]

Arrived == [at |-> "done", job |-> NoJob]

Terminal == {"completed", "failed", "cancelled"}

Fault == faults < MaxFaults /\ faults' = faults + 1

Init ==
    /\ status = [j \in Jobs |-> "pending"]
    /\ retries = [j \in Jobs |-> 0]
    /\ cancel = {}
    /\ stream = [j \in Jobs |-> [status |-> "pending", last |-> "other", waited |-> FALSE]]
    /\ fresh = [j \in Jobs |-> {}]
    /\ ready = {}
    /\ claim = [j \in Jobs |-> [lease |-> "none", holder |-> NoWorker]]
    /\ work = [w \in Workers |-> Idle]
    /\ req = [c \in Clients |-> NoRequest]
    /\ faults = 0

-----------------------------------------------------------------------------
(* The stores *)

UpdateStatus(j, s) == status' = [status EXCEPT ![j] = s]

Incremented(n) == IF n + 1 < MaxAttempts THEN n + 1 ELSE n

\* Mutant of Requeue: the retry count is not incremented.
RequeueSame(j, retry) ==
    /\ status' = [status EXCEPT ![j] = "pending"]
    /\ retries' = [retries EXCEPT ![j] = retry]

\* Requeue writes the retry count of the caller's copy of the job, plus one.
Requeue(j, retry) ==
    /\ status' = [status EXCEPT ![j] = "pending"]
    /\ retries' = [retries EXCEPT ![j] = Incremented(retry)]

\* What the SELECT of a claim asks for.
Claimable(j) == stream[j].last # "terminal" /\ claim[j].lease # "live"

\* The upsert of a claim by worker w.
Grant(w, j) == claim' = [claim EXCEPT ![j] = [lease |-> "live", holder |-> w]]

\* The row of a lease stays when the execution that took it is over.
Abandoned(w) ==
    [j \in Jobs |-> IF claim[j].holder = w THEN [claim[j] EXCEPT !.holder = NoWorker] ELSE claim[j]]

Holds(w, j) == claim[j] = [lease |-> "live", holder |-> w]

\* An event after which the stream of j has this status; every read of it is old.
Store(j, s, last) ==
    /\ stream' = [stream EXCEPT ![j] = [status |-> s, last |-> last,
                                        waited |-> stream[j].waited \/ s = "waiting"]]
    /\ fresh' = [fresh EXCEPT ![j] = {}]

Last(s) == IF s \in Terminal THEN "terminal" ELSE "other"

\* Mutant of MayAppend: any unexpired lease will do.
MayAppendAny(w) == ~work[w].cancelled /\ claim[work[w].job].lease = "live"

\* The context of the run is not cancelled and its attempt is the one of the lease.
MayAppend(w) == ~work[w].cancelled /\ Holds(w, work[w].job)

\* ListEvents and the check of the attempt: the append goes on at one place, or is
\* refused and the run goes on without it at another ...
AppendCheck(w, insert, refused) ==
    \/ /\ MayAppend(w)
       /\ fresh' = [fresh EXCEPT ![work[w].job] = @ \cup {w}]
       /\ work' = [work EXCEPT ![w] = insert]
    \/ /\ ~MayAppend(w)
       /\ work' = [work EXCEPT ![w] = refused]
       /\ UNCHANGED fresh

\* ... and the INSERT, which needs the version of that read and a live context.
AppendInsert(w, s) ==
    LET j == work[w].job IN
    \/ w \in fresh[j] /\ ~work[w].cancelled /\ Store(j, s, Last(s))
    \/ /\ w \notin fresh[j] \/ work[w].cancelled
       /\ fresh' = [fresh EXCEPT ![j] = @ \ {w}]
       /\ UNCHANGED stream

\* A status write with the context of the run.
UpdateStatusRun(w, s) ==
    status' = IF work[w].cancelled THEN status ELSE [status EXCEPT ![work[w].job] = s]

Goto(w, at) == work' = [work EXCEPT ![w].at = at]

\* runJob returns; of its result only whether it is an error is looked at.
Returned(x, r) ==
    [x EXCEPT !.at = "ended", !.retry = 0, !.result = IF r = "completed" THEN r ELSE "error"]

Return(w, r) == work' = [work EXCEPT ![w] = Returned(work[w], r)]

-----------------------------------------------------------------------------
(* ReclaimOrphanedFromEventStore, at the head of every round of the loop *)

\* Jobs with an expired lease whose status is neither completed nor failed.
ReclaimList(w) ==
    /\ work[w].at = "idle"
    /\ work' = [work EXCEPT ![w].at = "reclaim",
                            ![w].ids = {j \in Jobs : /\ claim[j].lease = "expired"
                                                     /\ status[j] \notin {"completed", "failed"}}]
    /\ UNCHANGED << status, retries, cancel, stream, fresh, ready, claim, req, faults >>

NextReclaim(w) == work' = [work EXCEPT ![w] = [Idle EXCEPT !.at = "reclaim", !.ids = work[w].ids]]

\* The events of the next job of the list; a blocked job is skipped.
ReclaimEvents(w, j) ==
    /\ work[w].at = "reclaim"
    /\ j \in work[w].ids
    /\ work' = [work EXCEPT ![w] =
          IF stream[j].status = "waiting" THEN [@ EXCEPT !.ids = work[w].ids \ {j}]
          ELSE [@ EXCEPT !.ids = work[w].ids \ {j}, !.at = "reclaim_get", !.job = j,
                         !.derived = stream[j].status]]
    /\ UNCHANGED << status, retries, cancel, stream, fresh, ready, claim, req, faults >>

\* Mutant of ReclaimGet: the end of a stream is not copied to the status.
ReclaimGetRunning(w) ==
    LET j == work[w].job IN
    /\ work[w].at = "reclaim_get"
    /\ IF work[w].derived \notin Terminal /\ status[j] = "running"
       THEN Goto(w, "reclaim_write") ELSE NextReclaim(w)
    /\ UNCHANGED << status, retries, cancel, stream, fresh, ready, claim, req, faults >>

\* Get: a status that differs from a terminal stream is synchronised, a Running
\* job is put back.
ReclaimGet(w) ==
    LET j == work[w].job IN
    /\ work[w].at = "reclaim_get"
    /\ IF \/ work[w].derived \in Terminal /\ status[j] # work[w].derived
          \/ work[w].derived \notin Terminal /\ status[j] = "running"
       THEN Goto(w, "reclaim_write") ELSE NextReclaim(w)
    /\ UNCHANGED << status, retries, cancel, stream, fresh, ready, claim, req, faults >>

ReclaimWrite(w) ==
    /\ work[w].at = "reclaim_write"
    /\ UpdateStatus(work[w].job, work[w].derived)
    /\ NextReclaim(w)
    /\ UNCHANGED << retries, cancel, stream, fresh, ready, claim, req, faults >>

-----------------------------------------------------------------------------
(* Claiming: AgentJobRunner.Start *)

Reclaimed(w) == work[w].at = "reclaim" /\ work[w].ids = {}

\* A plain worker selects from the event store, whatever the status.  The row lock
\* of the SELECT is that of an event, which the statement of another worker may
\* have read before, so that no order of the two upserts is excluded.
ClaimSelect(w) ==
    /\ w \notin Capable
    /\ Reclaimed(w)
    /\ \/ \E j \in Jobs :
             /\ Claimable(j)
             /\ work' = [work EXCEPT ![w] = [Idle EXCEPT !.at = "upsert", !.job = j]]
       \/ /\ \A j \in Jobs : ~Claimable(j)
          /\ work' = [work EXCEPT ![w] = Idle]
    /\ UNCHANGED << status, retries, cancel, stream, fresh, ready, claim, req, faults >>

\* A capable worker takes a pending job from the job table first ...
ClaimNextPendingForWorker(w) ==
    /\ w \in Capable
    /\ Reclaimed(w)
    /\ \/ \E j \in Jobs :
             /\ status[j] = "pending"
             /\ UpdateStatus(j, "running")
             /\ work' = [work EXCEPT ![w] = [Idle EXCEPT !.at = "claim", !.job = j, !.retry = retries[j]]]
       \/ /\ \A j \in Jobs : status[j] # "pending"
          /\ work' = [work EXCEPT ![w] = Idle]
          /\ UNCHANGED status
    /\ UNCHANGED << retries, cancel, stream, fresh, ready, claim, req, faults >>

\* ... then selects that job in the event store, and puts it back when it is refused.
ClaimJobSelect(w) ==
    LET j == work[w].job IN
    /\ work[w].at = "claim"
    /\ \/ /\ Claimable(j)
          /\ Goto(w, "upsert")
          /\ UNCHANGED << status, retries >>
       \/ /\ ~Claimable(j)
          /\ Requeue(j, work[w].retry)
          /\ work' = [work EXCEPT ![w] = Idle]
    /\ UNCHANGED << cancel, stream, fresh, ready, claim, req, faults >>

\* The lease row is taken, whatever has happened since the SELECT.
ClaimUpsert(w) ==
    /\ work[w].at = "upsert"
    /\ Grant(w, work[w].job)
    /\ Goto(w, "get")
    /\ UNCHANGED << status, retries, cancel, stream, fresh, ready, req, faults >>

-----------------------------------------------------------------------------
(* Executing: executeJob and runJob *)

ExecuteGet(w) ==
    /\ work[w].at = "get"
    /\ work' = [work EXCEPT ![w].at = "mark", ![w].retry = retries[work[w].job]]
    /\ UNCHANGED << status, retries, cancel, stream, fresh, ready, claim, req, faults >>

ExecuteMark(w) ==
    /\ work[w].at = "mark"
    /\ UpdateStatus(work[w].job, "running")
    /\ Goto(w, "run")
    /\ UNCHANGED << retries, cancel, stream, fresh, ready, claim, req, faults >>

\* The events of the nodes of a run do not change the derived status.  One of them
\* is a single step here, and only the ones that change something are.
RunNodeEvent(w) ==
    LET j == work[w].job IN
    /\ work[w].at = "run"
    /\ j \in ready
    /\ MayAppend(w)
    /\ stream[j].last # "other" \/ fresh[j] # {}
    /\ Store(j, stream[j].status, "other")
    /\ UNCHANGED << status, retries, cancel, ready, claim, work, req, faults >>

\* The end of the run and the check of the event it ends with.  Without a plan,
\* waitPlanReady gives up; a cancelled context ends in an error; any other run
\* completes, suspends, fails with a job_failed or returns an error without one.
\* Which of them a run of a waiting or a completed stream ends in is left open.
RunForJob(w) ==
    LET j == work[w].job IN
    /\ work[w].at = "run"
    /\ \/ /\ j \notin ready
          /\ Return(w, "error")
          /\ UNCHANGED fresh
       \/ /\ j \in ready
          /\ work' = [work EXCEPT ![w].at = "status", ![w].result = "error"]
          /\ UNCHANGED fresh
       \/ /\ j \in ready
          /\ ~work[w].cancelled
          /\ \E r \in {"completed", "waiting", "failed"} :
                AppendCheck(w, [work[w] EXCEPT !.at = "insert", !.result = r],
                               [work[w] EXCEPT !.at = "status", !.result = r])
    /\ UNCHANGED << status, retries, cancel, stream, ready, claim, req, faults >>

RunInsert(w) ==
    /\ work[w].at = "insert"
    /\ AppendInsert(w, work[w].result)
    /\ Goto(w, "status")
    /\ UNCHANGED << status, retries, cancel, ready, claim, req, faults >>

\* What runJob does with the result of the run, of which only whether it is an
\* error matters from here on.
AfterRun(w) ==
    LET next == [work[w] EXCEPT !.retry = 0, !.result = IF @ = "completed" THEN @ ELSE "error"] IN
    \/ work[w].result = "waiting" /\ Return(w, "waiting")
    \/ work[w].result = "completed" /\ work' = [work EXCEPT ![w] = [next EXCEPT !.at = "complete"]]
    \/ /\ work[w].result \in {"failed", "error"}
       /\ work' = [work EXCEPT ![w] =
             IF work[w].retry + 1 >= MaxAttempts THEN [next EXCEPT !.at = "fail"]
             ELSE [next EXCEPT !.at = "requeue", !.retry = work[w].retry]]

\* Mutant of RunStatus: the outcome is stored as it is.
RunStatusRaw(w) ==
    /\ work[w].at = "status"
    /\ UpdateStatusRun(w, work[w].result)
    /\ AfterRun(w)
    /\ UNCHANGED << retries, cancel, stream, fresh, ready, claim, req, faults >>

\* Mutant of RunStatus: the status waiting is not written.
RunStatusUnlessWaiting(w) ==
    /\ work[w].at = "status"
    /\ IF work[w].result = "waiting" THEN UNCHANGED status
       ELSE UpdateStatusRun(w, IF work[w].result = "error" THEN "failed" ELSE work[w].result)
    /\ AfterRun(w)
    /\ UNCHANGED << retries, cancel, stream, fresh, ready, claim, req, faults >>

\* The status the runner writes; some of its errors come without one.
RunStatus(w) ==
    /\ work[w].at = "status"
    /\ \/ UpdateStatusRun(w, IF work[w].result = "error" THEN "failed" ELSE work[w].result)
       \/ work[w].result = "error" /\ UNCHANGED status
    /\ AfterRun(w)
    /\ UNCHANGED << retries, cancel, stream, fresh, ready, claim, req, faults >>

\* runJob adds the terminal event unless it is the last one, and the status.
RunJobEvent(w) ==
    LET j == work[w].job
        complete == work[w].at = "complete"
        s == IF complete THEN "completed" ELSE "failed"
        insert == IF complete THEN "complete_insert" ELSE "fail_insert"
        next == IF complete THEN "complete_status" ELSE "fail_status"
        there == stream[j].last = "terminal" /\ stream[j].status = s IN
    /\ work[w].at \in {"complete", "fail"}
    /\ \/ there /\ Goto(w, next) /\ UNCHANGED fresh
       \/ ~there /\ AppendCheck(w, [work[w] EXCEPT !.at = insert], [work[w] EXCEPT !.at = next])
    /\ UNCHANGED << status, retries, cancel, stream, ready, claim, req, faults >>

RunJobInsert(w) ==
    /\ work[w].at \in {"complete_insert", "fail_insert"}
    /\ AppendInsert(w, IF work[w].at = "complete_insert" THEN "completed" ELSE "failed")
    /\ Goto(w, IF work[w].at = "complete_insert" THEN "complete_status" ELSE "fail_status")
    /\ UNCHANGED << status, retries, cancel, ready, claim, req, faults >>

RunJobStatus(w) ==
    /\ work[w].at \in {"complete_status", "fail_status"}
    /\ UpdateStatusRun(w, IF work[w].at = "complete_status" THEN "completed" ELSE "failed")
    /\ Return(w, work[w].result)
    /\ UNCHANGED << retries, cancel, stream, fresh, ready, claim, req, faults >>

\* A failed run with attempts left: Requeue, and if that succeeds the event.
RunJobRequeue(w) ==
    /\ work[w].at = "requeue"
    /\ \/ /\ ~work[w].cancelled
          /\ Requeue(work[w].job, work[w].retry)
          /\ Goto(w, "requeue_event")
       \/ /\ work[w].cancelled
          /\ Return(w, "error")
          /\ UNCHANGED << status, retries >>
    /\ UNCHANGED << cancel, stream, fresh, ready, claim, req, faults >>

RunJobRequeueEvent(w) ==
    /\ work[w].at = "requeue_event"
    /\ AppendCheck(w, [work[w] EXCEPT !.at = "requeue_insert"], Returned(work[w], "error"))
    /\ UNCHANGED << status, retries, cancel, stream, ready, claim, req, faults >>

RunJobRequeued(w) ==
    /\ work[w].at = "requeue_insert"
    /\ AppendInsert(w, "pending")
    /\ Return(w, "error")
    /\ UNCHANGED << status, retries, cancel, ready, claim, req, faults >>

\* The goroutine that polls for a cancel request while the run lasts.
CancelPoll(w) ==
    /\ work[w].at \in {"run", "insert", "status", "complete", "complete_insert", "complete_status",
                       "fail", "fail_insert", "fail_status", "requeue", "requeue_event",
                       "requeue_insert", "ended"}
    /\ work[w].job \in cancel
    /\ ~work[w].cancelled
    /\ work' = [work EXCEPT ![w].cancelled = TRUE]
    /\ UNCHANGED << status, retries, cancel, stream, fresh, ready, claim, req, faults >>

\* After runJob the context is cancelled in any case, so that no event is stored
\* from here on.  An error whose status another write has taken over, or that
\* left none, makes the job failed.
ExecuteEnded(w) ==
    LET j == work[w].job
        unsettled == status[j] \notin {"pending", "waiting", "failed"} IN
    /\ work[w].at = "ended"
    /\ \/ /\ work[w].cancelled
          /\ work' = [work EXCEPT ![w] = [Idle EXCEPT !.at = "cancel_status", !.job = j]]
          /\ UNCHANGED claim
       \/ /\ ~work[w].cancelled
          /\ work[w].result = "error" /\ unsettled
          /\ work' = [work EXCEPT ![w] = [Idle EXCEPT !.at = "fallback_status", !.job = j]]
          /\ UNCHANGED claim
       \/ /\ ~work[w].cancelled
          /\ work[w].result = "completed" \/ ~unsettled
          /\ work' = [work EXCEPT ![w] = Idle]
          /\ claim' = Abandoned(w)
    /\ UNCHANGED << status, retries, cancel, stream, fresh, ready, req, faults >>

ExecuteStatus(w) ==
    /\ work[w].at \in {"cancel_status", "fallback_status"}
    /\ UpdateStatus(work[w].job, IF work[w].at = "cancel_status" THEN "cancelled" ELSE "failed")
    /\ work' = [work EXCEPT ![w] = Idle]
    /\ claim' = Abandoned(w)
    /\ UNCHANGED << retries, cancel, stream, fresh, ready, req, faults >>

-----------------------------------------------------------------------------
(* Leases, crashes and requests *)

\* A lease runs out when its execution is over, or when heartbeats are late.
Expire(j) ==
    /\ claim[j].lease = "live"
    /\ IF claim[j].holder = NoWorker THEN UNCHANGED faults ELSE Fault
    /\ claim' = [claim EXCEPT ![j].lease = "expired"]
    /\ UNCHANGED << status, retries, cancel, stream, fresh, ready, work, req >>

Heartbeat(w, j) ==
    /\ claim[j] = [lease |-> "expired", holder |-> w]
    /\ claim' = [claim EXCEPT ![j].lease = "live"]
    /\ UNCHANGED << status, retries, cancel, stream, fresh, ready, work, req, faults >>

Crash(w) ==
    /\ work[w].at # "idle"
    /\ Fault
    /\ work' = [work EXCEPT ![w] = Idle]
    /\ claim' = Abandoned(w)
    /\ fresh' = [j \in Jobs |-> fresh[j] \ {w}]
    /\ UNCHANGED << status, retries, cancel, stream, ready, req >>

\* The API writes the plan some time after it has created the job.
PlanReady(j) ==
    /\ j \notin ready
    /\ ready' = ready \cup {j}
    /\ UNCHANGED << status, retries, cancel, stream, fresh, claim, work, req, faults >>

JobStop(j) ==
    /\ status[j] \notin Terminal
    /\ j \notin cancel
    /\ Fault
    /\ cancel' = cancel \cup {j}
    /\ UNCHANGED << status, retries, stream, fresh, ready, claim, work, req >>

\* JobSignal: the job must be waiting ...
SignalGet(c, j) ==
    /\ req[c] = NoRequest
    /\ status[j] = "waiting"
    /\ req' = [req EXCEPT ![c] = [at |-> "list", job |-> j]]
    /\ UNCHANGED << status, retries, cancel, stream, fresh, ready, claim, work, faults >>

\* ... with a job_waiting somewhere in its stream and no answer at the end of it.
SignalList(c) ==
    LET j == req[c].job IN
    /\ req[c].at = "list"
    /\ \/ /\ stream[j].waited /\ stream[j].last # "answered"
          /\ fresh' = [fresh EXCEPT ![j] = @ \cup {c}]
          /\ req' = [req EXCEPT ![c].at = "append"]
       \/ /\ ~stream[j].waited \/ stream[j].last = "answered"
          /\ req' = [req EXCEPT ![c] = NoRequest]
          /\ UNCHANGED fresh
    /\ UNCHANGED << status, retries, cancel, stream, ready, claim, work, faults >>

\* wait_completed is appended without an attempt; a version mismatch ends the request.
SignalAppend(c) ==
    LET j == req[c].job IN
    /\ req[c].at = "append"
    /\ \/ /\ c \in fresh[j]
          /\ Store(j, "pending", "answered")
          /\ req' = [req EXCEPT ![c].at = "status"]
       \/ /\ c \notin fresh[j]
          /\ req' = [req EXCEPT ![c] = NoRequest]
          /\ UNCHANGED << stream, fresh >>
    /\ UNCHANGED << status, retries, cancel, ready, claim, work, faults >>

SignalStatus(c) ==
    /\ req[c].at = "status"
    /\ UpdateStatus(req[c].job, "pending")
    /\ req' = [req EXCEPT ![c] = Arrived]
    /\ UNCHANGED << retries, cancel, stream, fresh, ready, claim, work, faults >>

\* The API stops after the append and before the status; it has no more to do.
CrashApi(c) ==
    /\ req[c].at = "status"
    /\ Fault
    /\ req' = [req EXCEPT ![c] = Arrived]
    /\ UNCHANGED << status, retries, cancel, stream, fresh, ready, claim, work >>

\* JobMessage appends an agent_message to any job; that a wait is for a message is
\* not modelled here.
JobMessage(j) ==
    /\ Fault
    /\ Store(j, stream[j].status, "other")
    /\ UNCHANGED << status, retries, cancel, ready, claim, work, req >>

-----------------------------------------------------------------------------

WorkerStep(w) ==
    \/ ReclaimList(w) \/ (\E j \in Jobs : ReclaimEvents(w, j)) \/ ReclaimGet(w) \/ ReclaimWrite(w)
    \/ ClaimSelect(w) \/ ClaimNextPendingForWorker(w) \/ ClaimJobSelect(w) \/ ClaimUpsert(w)
    \/ ExecuteGet(w) \/ ExecuteMark(w) \/ RunForJob(w) \/ RunInsert(w) \/ RunStatus(w)
    \/ RunJobEvent(w) \/ RunJobInsert(w) \/ RunJobStatus(w)
    \/ RunJobRequeue(w) \/ RunJobRequeueEvent(w) \/ RunJobRequeued(w)
    \/ ExecuteEnded(w) \/ ExecuteStatus(w)

Next ==
    \/ \E w \in Workers : WorkerStep(w) \/ RunNodeEvent(w) \/ CancelPoll(w) \/ Crash(w)
    \/ \E w \in Workers, j \in Jobs : Heartbeat(w, j)
    \/ \E j \in Jobs : Expire(j) \/ PlanReady(j) \/ JobStop(j) \/ JobMessage(j)
    \/ \E c \in Clients, j \in Jobs : SignalGet(c, j)
    \/ \E c \in Clients : SignalList(c) \/ SignalAppend(c) \/ SignalStatus(c) \/ CrashApi(c)

\* Every running worker goes on with its loop and its run (a WorkerStep is always
\* enabled, so that this is its weak fairness: the other steps that change work[w]
\* are a crash and one CancelPoll of a run), abandoned leases run out, and a plan is
\* made.  Nothing is assumed of requests, heartbeats, crashes.
Fairness ==
    /\ \A w \in Workers : []<><<work'[w] # work[w]>>_vars
    /\ \A j \in Jobs : WF_vars(Expire(j) /\ claim[j].holder = NoWorker)
    /\ \A j \in Jobs : WF_vars(PlanReady(j))

Spec == Init /\ [][Next]_vars /\ Fairness

-----------------------------------------------------------------------------
(* Properties *)

Statuses == {"pending", "running", "waiting"} \cup Terminal

\* Types of the two stores, the leases and the workers.
TypeOK ==
    /\ status \in [Jobs -> Statuses]
    /\ retries \in [Jobs -> 0..MaxAttempts]
    /\ cancel \subseteq Jobs
    /\ stream \in [Jobs -> [status : {"pending", "waiting", "completed", "failed"},
                            last : {"terminal", "answered", "other"}, waited : BOOLEAN]]
    /\ fresh \in [Jobs -> SUBSET (Workers \cup Clients)]
    /\ ready \subseteq Jobs
    /\ claim \in [Jobs -> [lease : {"none", "live", "expired"}, holder : Workers \cup {NoWorker}]]
    /\ \A w \in Workers : work[w].job \in Jobs \cup {NoJob} /\ work[w].ids \subseteq Jobs
    /\ \A c \in Clients : req[c].job \in Jobs \cup {NoJob}
    /\ faults \in 0..MaxFaults

\* The places of an execution that has nothing but a job_completed left to append.
Over(x) ==
    \/ x.at \in {"insert", "status"} /\ x.result = "completed"
    \/ x.at \in {"complete", "complete_insert", "complete_status", "ended", "cancel_status",
                  "fallback_status"}

\* The execution of w has passed the check of an append to j, and its INSERT will
\* not meet another version.
Inserting(w, j) ==
    /\ work[w].at \in {"insert", "complete_insert", "fail_insert", "requeue_insert"}
    /\ work[w].job = j
    /\ w \in fresh[j]

\* Job j is completed, and nobody is in the window between the two queries of a
\* claim, or of an append of something else, or holds the lease of an unfinished run.
Settled(j) ==
    /\ stream[j].status = "completed" /\ stream[j].last = "terminal"
    /\ \A w \in Workers :
          /\ ~(work[w].at = "upsert" /\ work[w].job = j)
          /\ claim[j].holder = w \/ Inserting(w, j) => Over(work[w])

\* The appends to j that no lease fences.
ApiAppend(j) == JobMessage(j) \/ \E c \in Clients : req[c].job = j /\ SignalAppend(c)

\* What a step may do to the settled jobs.
SettledKept == \A j \in Jobs : Settled(j) => Settled(j)' \/ ApiAppend(j)

\* A job that is completed and settled is only reopened by the API, whose appends
\* no lease fences: no execution, however stale, no retry, reclaim, cancellation or
\* worker that comes late appends to it, or gets its lease.
CompletedFinal == [][SettledKept]_vars

Done(j) == stream[j].status \in Terminal /\ status[j] \in Terminal

\* A job that is due is not lost, whatever crashes, stalls, races of claims, appends
\* and reclaim, and half-done signals leave in the two stores: it ends in both of
\* them, or waits, or was cancelled.
JobEnds ==
    \A j \in Jobs :
        (stream[j].status = "pending") ~> (Done(j) \/ stream[j].status = "waiting" \/ j \in cancel)

\* A waiting job can be answered: JobSignal accepts only a job whose status is
\* waiting, and a crash or a stale write after job_waiting leaves another one.
WaitAnswerable ==
    \A j \in Jobs :
        (stream[j].status = "waiting")
            ~> (status[j] = "waiting" \/ stream[j].status # "waiting" \/ j \in cancel)

\* The status of a completed job may be overwritten by a stale run, a cancellation
\* or a reclaim that read too early, but when nobody reopens the job it comes to
\* rest in a terminal value.
StatusSettles == \A j \in Jobs : <>[]Settled(j) => <>[](status[j] \in Terminal)
=============================================================================
