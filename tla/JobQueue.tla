------------------------------ MODULE JobQueue ------------------------------
(***************************************************************************)
(* Job execution inside the API process, as it is configured without       *)
(* PostgreSQL: JobStoreMem with its pending queue, the Scheduler loop and  *)
(* its job goroutines, the WakeupQueue, and the requests that pause,       *)
(* resume and signal a job.                                                *)
(*                                                                         *)
(* Every method of JobStoreMem holds the mutex and is one step; a handler  *)
(* or a goroutine is cut between its calls.  What RunForJob does is the    *)
(* subject of JobRun; here it ends in one of its outcomes.  Jobs have no   *)
(* queue class, tenant or capability filter, which is what the API sets    *)
(* up.                                                                     *)
(***************************************************************************)
EXTENDS Integers, Sequences, FiniteSets

CONSTANTS Jobs,            \* job identifiers
          Priority,        \* the priority of a job
          Keys,            \* correlation keys
          Clients,         \* API requests, each of which is made once
          MaxConcurrency,  \* size of the limiter
          RetryMax,        \* retries after the first run
          WakeCap,         \* buffer of the wakeup queue
          NoJob,
          NoKey

ASSUME JobQueueAssumption ==
    /\ Priority \in [Jobs -> Int]
    /\ MaxConcurrency \in Nat \ {0}
    /\ RetryMax \in Nat
    /\ WakeCap \in Nat \ {0}
    /\ NoJob \notin Jobs
    /\ NoKey \notin Keys

Slots == 1..MaxConcurrency

VARIABLES
    status,        \* status[j]: the status of job j, "absent" before Create
    retries,       \* retries[j]: its retry count
    pending,       \* the pending queue
    waiting,       \* waiting[j]: the correlation key job j was parked with
    waitingByKey,  \* waitingByKey[k]: the job that was parked with key k
    wakeup,        \* the buffered channel of the wakeup queue
    limiter,       \* tokens taken from the limiter
    loop,          \* where the scheduler loop is
    woken,         \* the job identifier the loop received from the wakeup queue
    run,           \* run[s]: the job goroutine in slot s
    stream,        \* stream[j]: what requests and runJob read off j's event stream
    req,           \* req[c]: where request c is, and its job
    started,       \* history: started[j] is the number of times j was handed to runJob
    touched,       \* history: the jobs a request has addressed or woken
    forced         \* history: the jobs a request made Pending by UpdateStatus alone

vars == << status, retries, pending, waiting, waitingByKey, wakeup, limiter, loop,
           woken, run, stream, req, started, touched, forced >>

index == << waiting, waitingByKey >>
scheduler == << limiter, loop, woken >>
history == << started, touched, forced >>

Idle == [at |-> "none", job |-> NoJob, retry |-> 0, result |-> "none"]

Init ==
    /\ status = [j \in Jobs |-> "absent"]
    /\ retries = [j \in Jobs |-> 0]
    /\ pending = << >>
    /\ waiting = [j \in Jobs |-> NoKey]
    /\ waitingByKey = [k \in Keys |-> NoJob]
    /\ wakeup = << >>
    /\ limiter = 0
    /\ loop = "limiter"
    /\ woken = NoJob
    /\ run = [s \in Slots |-> Idle]
    /\ stream = [j \in Jobs |-> [waited |-> FALSE, answered |-> FALSE, terminal |-> FALSE]]
    /\ req = [c \in Clients |-> [at |-> "idle", job |-> NoJob]]
    /\ started = [j \in Jobs |-> 0]
    /\ touched = {}
    /\ forced = {}

-----------------------------------------------------------------------------
(* JobStoreMem *)

Finished == {"completed", "failed", "cancelled"}
Suspended == {"waiting", "parked"}

Create(j) ==
    /\ status[j] = "absent"
    /\ status' = [status EXCEPT ![j] = "pending"]
    /\ pending' = Append(pending, j)
    /\ UNCHANGED << retries, index, wakeup, scheduler, run, stream, req, history >>

UpdateStatus(j, s) ==
    /\ status' = [status EXCEPT ![j] = s]
    /\ UNCHANGED << retries, pending, index >>

\* Mutant of Requeue: the job is not put into the queue.
RequeueUnqueued(j, retry) ==
    /\ status' = [status EXCEPT ![j] = "pending"]
    /\ retries' = [retries EXCEPT ![j] = retry + 1]
    /\ UNCHANGED << pending, index >>

\* Mutant of Requeue: the retry count is not incremented.
RequeueUncounted(j, retry) ==
    /\ status' = [status EXCEPT ![j] = "pending"]
    /\ retries' = [retries EXCEPT ![j] = retry]
    /\ pending' = Append(pending, j)
    /\ UNCHANGED index

\* The retry count is the one of the caller's copy of the job.
Requeue(j, retry) ==
    /\ status' = [status EXCEPT ![j] = "pending"]
    /\ retries' = [retries EXCEPT ![j] = retry + 1]
    /\ pending' = Append(pending, j)
    /\ UNCHANGED index

SetParked(j, k) ==
    /\ status' = [status EXCEPT ![j] = "parked"]
    /\ waiting' = [waiting EXCEPT ![j] = k]
    /\ waitingByKey' = [waitingByKey EXCEPT ![k] = j]
    /\ UNCHANGED << retries, pending >>

\* Whichever job was parked with key k becomes Pending, whatever its status.
WakeupJob(k) ==
    LET j == waitingByKey[k] IN
    \/ /\ j = NoJob
       /\ UNCHANGED << status, retries, pending, index >>
    \/ /\ j # NoJob
       /\ waitingByKey' = [waitingByKey EXCEPT ![k] = NoJob]
       /\ waiting' = [waiting EXCEPT ![j] = NoKey]
       /\ status' = [status EXCEPT ![j] = "pending"]
       /\ pending' = Append(pending, j)
       /\ UNCHANGED retries

\* The indices of the pending queue that ClaimNextPending looks at.
Candidates == { i \in 1..Len(pending) : status[pending[i]] = "pending" }

\* The first entry of the highest priority.
Best == CHOOSE i \in Candidates : \A k \in Candidates :
            \/ Priority[pending[i]] > Priority[pending[k]]
            \/ Priority[pending[i]] = Priority[pending[k]] /\ i <= k

Without(s, i) == SubSeq(s, 1, i - 1) \o SubSeq(s, i + 1, Len(s))

-----------------------------------------------------------------------------
(* The scheduler loop *)

\* The loop has taken a token and waits for a wakeup or a timeout.
TakeToken ==
    /\ loop = "limiter"
    /\ limiter < MaxConcurrency
    /\ limiter' = limiter + 1
    /\ loop' = "receive"
    /\ UNCHANGED << status, retries, pending, index, wakeup, woken, run, stream, req, history >>

Receive ==
    /\ loop = "receive"
    /\ \/ /\ wakeup # << >>
          /\ woken' = Head(wakeup)
          /\ wakeup' = Tail(wakeup)
          /\ loop' = "woken"
       \/ loop' = "claim" /\ UNCHANGED << woken, wakeup >>
    /\ UNCHANGED << status, retries, pending, index, limiter, run, stream, req, history >>

\* Mutant of Spawn: the claim does not mark the job as running.
SpawnUnmarked(j) ==
    LET s == CHOOSE s \in Slots : run[s] = Idle IN
    /\ run' = [run EXCEPT ![s] = [at |-> "run", job |-> j, retry |-> retries[j], result |-> "none"]]
    /\ started' = [started EXCEPT ![j] = @ + 1]
    /\ loop' = "limiter"
    /\ UNCHANGED << status, retries, wakeup, limiter, stream, req, touched, forced >>

\* A claimed job gets a goroutine with a copy of it; the token goes with it.
Spawn(j) ==
    LET s == CHOOSE s \in Slots : run[s] = Idle IN
    /\ run' = [run EXCEPT ![s] = [at |-> "run", job |-> j, retry |-> retries[j], result |-> "none"]]
    /\ status' = [status EXCEPT ![j] = "running"]
    /\ started' = [started EXCEPT ![j] = @ + 1]
    /\ loop' = "limiter"
    /\ UNCHANGED << retries, wakeup, limiter, stream, req, touched, forced >>

ClaimParkedJob ==
    /\ loop = "woken"
    /\ woken' = NoJob
    /\ \/ /\ status[woken] \in Suspended
          /\ waiting' = [waiting EXCEPT ![woken] = NoKey]
          /\ waitingByKey' = [k \in Keys |-> IF k = waiting[woken] THEN NoJob ELSE waitingByKey[k]]
          /\ Spawn(woken)
          /\ UNCHANGED pending
       \/ /\ status[woken] \notin Suspended
          /\ loop' = "claim"
          /\ UNCHANGED << status, retries, pending, index, wakeup, limiter, run, stream, req, history >>

\* Mutant of ClaimNextPending: nothing to claim, and the token is kept.
ClaimNextPendingLeaky ==
    /\ loop = "claim"
    /\ \/ /\ Candidates # {}
          /\ pending' = Without(pending, Best)
          /\ Spawn(pending[Best])
          /\ UNCHANGED << index, woken >>
       \/ /\ Candidates = {}
          /\ loop' = "limiter"
          /\ UNCHANGED << status, retries, pending, index, wakeup, limiter, woken, run, stream, req, history >>

ClaimNextPending ==
    /\ loop = "claim"
    /\ \/ /\ Candidates # {}
          /\ pending' = Without(pending, Best)
          /\ Spawn(pending[Best])
          /\ UNCHANGED << index, woken >>
       \/ /\ Candidates = {}
          /\ limiter' = limiter - 1
          /\ loop' = "limiter"
          /\ UNCHANGED << status, retries, pending, index, wakeup, woken, run, stream, req, history >>

-----------------------------------------------------------------------------
(* The goroutine of a job *)

\* What RunForJob returns: success, ErrJobWaiting, a StepFailure or another
\* error; "unready" is an error before RunForJob was called.
Results == {"completed", "waiting", "retryable", "permanent", "error", "unready"}

\* The events of the run.  A wait writes job_waiting, a finished or failed step
\* a terminal event; another error may come before any event was written.
RunEvent(s) ==
    LET j == run[s].job IN
    /\ run[s].at = "run"
    /\ \E r \in Results, silent \in BOOLEAN :
          /\ silent => r \in {"error", "unready"}
          /\ r = "unready" => silent
          /\ run' = [run EXCEPT ![s].result = r,
                                ![s].at = IF r = "unready" THEN "settle" ELSE "status"]
          /\ stream' = [stream EXCEPT
                ![j].answered = stream[j].answered /\ silent,
                ![j].waited = stream[j].waited \/ r = "waiting",
                ![j].terminal = stream[j].terminal \/ r \in {"completed", "retryable", "permanent"}]
    /\ UNCHANGED << status, retries, pending, index, wakeup, scheduler, req, history >>

\* The status RunForJob writes before it returns: a wait node may ask for parked,
\* and a plan that does not compile is an error without a status.
RunStatus(s) ==
    /\ run[s].at = "status"
    /\ \E st \in CASE run[s].result = "completed" -> {"completed"}
                   [] run[s].result = "waiting"   -> Suspended
                   [] run[s].result = "error"     -> {"failed", status[run[s].job]}
                   [] OTHER                       -> {"failed"} :
          UpdateStatus(run[s].job, st)
    /\ run' = [run EXCEPT ![s].at = "append"]
    /\ UNCHANGED << wakeup, scheduler, stream, req, history >>

\* runJob adds the terminal event, also for a job that is only waiting, unless there
\* is one; another append may be faster, and the error is dropped.
RunJobAppend(s) ==
    LET j == run[s].job IN
    /\ run[s].at = "append"
    /\ run' = [run EXCEPT ![s].at = "settle"]
    /\ \/ ~ stream[j].terminal
          /\ stream' = [stream EXCEPT ![j].answered = FALSE, ![j].terminal = TRUE]
       \/ UNCHANGED stream
    /\ UNCHANGED << status, retries, pending, index, wakeup, scheduler, req, history >>

\* A StepFailure is retried if it says so; any other error is.
Retried(r) == r \notin {"completed", "permanent"}

\* Mutant of Settle: the job is retried once too often.
SettleOnceMore(s) ==
    LET j == run[s].job IN
    /\ run[s].at = "settle"
    /\ \/ Retried(run[s].result) /\ run[s].retry <= RetryMax /\ Requeue(j, run[s].retry)
       \/ Retried(run[s].result) /\ run[s].retry > RetryMax /\ UpdateStatus(j, "failed")
       \/ ~ Retried(run[s].result)
             /\ UpdateStatus(j, IF run[s].result = "completed" THEN "completed" ELSE "failed")
    /\ run' = [run EXCEPT ![s] = Idle]
    /\ limiter' = limiter - 1
    /\ UNCHANGED << wakeup, loop, woken, stream, req, history >>

\* The scheduler's verdict, after the backoff if there is one.
Settle(s) ==
    LET j == run[s].job IN
    /\ run[s].at = "settle"
    /\ \/ Retried(run[s].result) /\ run[s].retry < RetryMax /\ Requeue(j, run[s].retry)
       \/ Retried(run[s].result) /\ run[s].retry >= RetryMax /\ UpdateStatus(j, "failed")
       \/ ~ Retried(run[s].result)
             /\ UpdateStatus(j, IF run[s].result = "completed" THEN "completed" ELSE "failed")
    /\ run' = [run EXCEPT ![s] = Idle]
    /\ limiter' = limiter - 1
    /\ UNCHANGED << wakeup, loop, woken, stream, req, history >>

-----------------------------------------------------------------------------
(* Requests *)

At(c, where, j) == req' = [req EXCEPT ![c] = [at |-> where, job |-> j]]

\* NotifyReady drops the notification when the buffer is full.
Notify(j) == wakeup' = IF Len(wakeup) < WakeCap THEN Append(wakeup, j) ELSE wakeup

\* JobPause: a job that has ended is refused, any other is parked.
PauseCheck(c, j) ==
    /\ req[c].at = "idle"
    /\ status[j] \notin Finished \cup {"absent"}
    /\ At(c, "pause", j)
    /\ touched' = touched \cup {j}
    /\ UNCHANGED << status, retries, pending, index, wakeup, scheduler, run, stream, started, forced >>

PausePark(c) ==
    /\ req[c].at = "pause"
    /\ \E k \in Keys : SetParked(req[c].job, k)
    /\ At(c, "log", req[c].job)
    /\ UNCHANGED << wakeup, scheduler, run, stream, history >>

\* JobResume: by correlation key, or by the bare status when none is given.
\* The status of the job is not looked at.
ResumeByKey(c, j) ==
    /\ req[c].at = "idle"
    /\ status[j] # "absent"
    /\ \E k \in Keys :
          /\ WakeupJob(k)
          /\ touched' = touched \cup ({j, waitingByKey[k]} \cap Jobs)
    /\ At(c, "notify", j)
    /\ UNCHANGED << wakeup, scheduler, run, stream, started, forced >>

ResumeByStatus(c, j) ==
    /\ req[c].at = "idle"
    /\ status[j] # "absent"
    /\ UpdateStatus(j, "pending")
    /\ At(c, "notify", j)
    /\ touched' = touched \cup {j}
    /\ forced' = forced \cup {j}
    /\ UNCHANGED << wakeup, scheduler, run, stream, started >>

ResumeNotify(c) ==
    /\ req[c].at = "notify"
    /\ Notify(req[c].job)
    /\ At(c, "log", req[c].job)
    /\ UNCHANGED << status, retries, pending, index, scheduler, run, stream, history >>

\* Pause and resume end with an event, which is lost if another append is faster.
RequestLog(c) ==
    /\ req[c].at = "log"
    /\ \E lost \in BOOLEAN : stream' = [stream EXCEPT ![req[c].job].answered = @ /\ lost]
    /\ At(c, "done", NoJob)
    /\ UNCHANGED << status, retries, pending, index, wakeup, scheduler, run, history >>

\* JobSignal: the status is checked, wait_completed is appended unless it is the
\* last event already or another append is faster, the job becomes Pending and its
\* identifier is sent on.
SignalCheck(c, j) ==
    /\ req[c].at = "idle"
    /\ status[j] \in Suspended
    /\ At(c, "signal", j)
    /\ touched' = touched \cup {j}
    /\ UNCHANGED << status, retries, pending, index, wakeup, scheduler, run, stream, started, forced >>

SignalAppend(c) ==
    LET j == req[c].job IN
    /\ req[c].at = "signal"
    /\ \/ /\ stream[j].waited /\ ~ stream[j].answered
          /\ stream' = [stream EXCEPT ![j].answered = TRUE]
          /\ At(c, "signalled", j)
       \/ At(c, "done", NoJob) /\ UNCHANGED stream
    /\ UNCHANGED << status, retries, pending, index, wakeup, scheduler, run, history >>

SignalStatus(c) ==
    /\ req[c].at = "signalled"
    /\ UpdateStatus(req[c].job, "pending")
    /\ At(c, "signal_notify", req[c].job)
    /\ forced' = forced \cup {req[c].job}
    /\ UNCHANGED << wakeup, scheduler, run, stream, started, touched >>

SignalNotify(c) ==
    /\ req[c].at = "signal_notify"
    /\ Notify(req[c].job)
    /\ At(c, "done", NoJob)
    /\ UNCHANGED << status, retries, pending, index, scheduler, run, stream, history >>

-----------------------------------------------------------------------------
Loop == TakeToken \/ Receive \/ ClaimParkedJob \/ ClaimNextPending

Goroutine(s) == RunEvent(s) \/ RunStatus(s) \/ RunJobAppend(s) \/ Settle(s)

Request(c) ==
    \/ \E j \in Jobs : PauseCheck(c, j) \/ ResumeByKey(c, j) \/ ResumeByStatus(c, j) \/ SignalCheck(c, j)
    \/ PausePark(c) \/ ResumeNotify(c) \/ RequestLog(c)
    \/ SignalAppend(c) \/ SignalStatus(c) \/ SignalNotify(c)

Next ==
    \/ \E j \in Jobs : Create(j)
    \/ Loop
    \/ \E s \in Slots : Goroutine(s)
    \/ \E c \in Clients : Request(c)

\* The loop and the goroutines keep running, and every run ends: RunForJob has
\* step timeouts.  Nothing is assumed of the requests.
Fairness == WF_vars(Loop) /\ \A s \in Slots : WF_vars(Goroutine(s))

Spec == Init /\ [][Next]_vars /\ Fairness

-----------------------------------------------------------------------------
(* Properties *)

Statuses == {"absent", "pending", "running", "waiting", "parked", "completed", "failed"}

\* The shape of the store, the scheduler and the requests; the limiter counts the
\* goroutines and the loop's own token.
TypeOK ==
    /\ status \in [Jobs -> Statuses]
    /\ retries \in [Jobs -> Nat]
    /\ pending \in Seq(Jobs)
    /\ waiting \in [Jobs -> Keys \cup {NoKey}]
    /\ waitingByKey \in [Keys -> Jobs \cup {NoJob}]
    /\ wakeup \in Seq(Jobs)
    /\ Len(wakeup) <= WakeCap
    /\ limiter = Cardinality({s \in Slots : run[s] # Idle}) + (IF loop = "limiter" THEN 0 ELSE 1)
    /\ limiter <= MaxConcurrency
    /\ loop \in {"limiter", "receive", "woken", "claim"}
    /\ woken \in Jobs \cup {NoJob}
    /\ run \in [Slots -> [at : {"none", "run", "status", "append", "settle"},
                          job : Jobs \cup {NoJob}, retry : Nat,
                          result : Results \cup {"none"}]]
    /\ stream \in [Jobs -> [waited : BOOLEAN, answered : BOOLEAN, terminal : BOOLEAN]]
    /\ req \in [Clients -> [at : {"idle", "pause", "log", "notify", "signal", "signalled",
                                  "signal_notify", "done"}, job : Jobs \cup {NoJob}]]
    /\ started \in [Jobs -> Nat]
    /\ touched \subseteq Jobs
    /\ forced \subseteq Jobs

RunsOf(j) == { s \in Slots : run[s].job = j }

Queued(j) == \E i \in 1..Len(pending) : pending[i] = j

\* A Pending job is in the queue the scheduler claims from, unless a request
\* wrote the bare status: claiming, retrying, pausing and waking a job keep the
\* status map and the queue together, although entries of the queue go stale.
PendingQueued == \A j \in Jobs : status[j] = "pending" /\ j \notin forced => Queued(j)

\* A job that no request interferes with is run by one goroutine at a time, and
\* is not claimable while it runs.
RunAlone ==
    \A j \in Jobs \ touched :
        /\ Cardinality(RunsOf(j)) <= 1
        /\ RunsOf(j) # {} => status[j] # "pending"

\* A failing job is given up after its retries: no job that requests leave alone
\* is run more than RetryMax + 1 times.
RetriesBounded == \A j \in Jobs \ touched : started[j] <= RetryMax + 1

\* Retries stay bounded when requests interfere, although runs of a job then overlap
\* and write back the retry counts of their copies, also a lower one: a request adds
\* at most two series of RetryMax + 1 runs, by the status it writes and by the
\* notification it sends.
RunsBounded ==
    \A j \in Jobs :
        started[j] <= (RetryMax + 1) * (1 + 2 * Cardinality({c \in Clients : req[c].at # "idle"}))

\* Every job that is queued is eventually claimed, or a request takes it away.
EventuallyClaimed ==
    \A j \in Jobs : status[j] = "pending" /\ j \notin forced ~> status[j] # "pending" \/ j \in forced

\* Every job that requests leave alone ends: completed or failed for good.
EventuallyEnds ==
    \A j \in Jobs : status[j] = "pending" ~>
        \/ j \in touched
        \/ status[j] \in {"completed", "failed"} /\ RunsOf(j) = {}
=============================================================================
