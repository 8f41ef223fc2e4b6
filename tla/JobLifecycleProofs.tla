---------------------------- MODULE JobLifecycleProofs ----------------------------
(***************************************************************************)
(* Proofs about JobLifecycle: types, and that no execution reopens a       *)
(* settled job.  Settled is closed under every step but the appends of the *)
(* API: a lease of a completed stream is not selected, so nobody comes to  *)
(* the upsert; an append passes its check only for the holder, whose       *)
(* execution has nothing but a job_completed left; and an INSERT that      *)
(* still finds its version was checked by such an execution as well.       *)
(***************************************************************************)
EXTENDS JobLifecycle, TLAPS

-----------------------------------------------------------------------------
(* The inductive invariant *)

Results == {"none", "completed", "waiting", "failed", "error"}
StreamStatuses == {"pending", "waiting", "completed", "failed"}
Lasts == {"terminal", "answered", "other"}

Inserts == {"insert", "complete_insert", "fail_insert", "requeue_insert"}

Places ==
    {"idle", "reclaim", "reclaim_get", "reclaim_write", "claim", "upsert", "get", "mark", "run",
     "status", "complete", "complete_status", "fail", "fail_status", "requeue", "requeue_event",
     "ended", "cancel_status", "fallback_status"} \cup Inserts

StreamType == [status : StreamStatuses, last : Lasts, waited : BOOLEAN]

ClaimType == [lease : {"none", "live", "expired"}, holder : Workers \cup {NoWorker}]

WorkType ==
    [at : Places, job : Jobs \cup {NoJob}, retry : 0..MaxAttempts, cancelled : BOOLEAN,
     result : Results, ids : SUBSET Jobs, derived : Statuses \cup {"none"}]

ReqType == [at : {"idle", "list", "append", "status", "done"}, job : Jobs \cup {NoJob}]

\* A worker that is past the list of expired leases works on a job.
Positioned(x) ==
    /\ x.at \notin {"idle", "reclaim"} => x.job \in Jobs
    /\ x.at \in {"reclaim_get", "reclaim_write"} => x.derived \in Statuses
    /\ x.at = "status" => x.result # "none"
    /\ x.at = "insert" => x.result \in {"completed", "waiting", "failed"}

Typed ==
    /\ status \in [Jobs -> Statuses]
    /\ retries \in [Jobs -> 0..MaxAttempts]
    /\ cancel \subseteq Jobs
    /\ stream \in [Jobs -> StreamType]
    /\ fresh \in [Jobs -> SUBSET (Workers \cup Clients)]
    /\ ready \subseteq Jobs
    /\ claim \in [Jobs -> ClaimType]
    /\ work \in [Workers -> WorkType]
    /\ req \in [Clients -> ReqType]
    /\ faults \in 0..MaxFaults

Local ==
    /\ Typed
    /\ \A w \in Workers : Positioned(work[w])
    /\ \A c \in Clients : req[c].at \in {"list", "append", "status"} => req[c].job \in Jobs

\* The stores but for the records of the workers keep their types.
StoresTyped ==
    /\ status \in [Jobs -> Statuses]
    /\ retries \in [Jobs -> 0..MaxAttempts]
    /\ cancel \subseteq Jobs
    /\ stream \in [Jobs -> StreamType]
    /\ fresh \in [Jobs -> SUBSET (Workers \cup Clients)]
    /\ ready \subseteq Jobs
    /\ claim \in [Jobs -> ClaimType]
    /\ req \in [Clients -> ReqType]
    /\ faults \in 0..MaxFaults

-----------------------------------------------------------------------------
(* What each step does to the record of its worker *)

\* The record of w becomes r, the other workers are left alone.
Move(w, r) ==
    /\ r \in WorkType
    /\ Positioned(r)
    /\ work' = [work EXCEPT ![w] = r]

\* The types of the record of a worker.
LEMMA Fields ==
    ASSUME Typed, NEW w \in Workers
    PROVE  /\ work[w] \in WorkType
           /\ work[w].at \in Places
           /\ work[w].job \in Jobs \cup {NoJob}
           /\ work[w].retry \in 0..MaxAttempts
           /\ work[w].result \in Results
           /\ work[w].ids \subseteq Jobs
           /\ work[w].derived \in Statuses \cup {"none"}
BY DEF Typed, WorkType

\* The type of an idle worker.
LEMMA IdleType ==
    /\ Idle \in WorkType /\ Positioned(Idle)
    /\ Idle.at = "idle" /\ Idle.job = NoJob /\ Idle.result = "none" /\ Idle.derived = "none"
<1>1. "idle" \in Places /\ "none" \in Results /\ 0 \in 0..MaxAttempts
  BY JobLifecycleAssumption DEF Places, Results
<1> QED BY <1>1 DEF Idle, WorkType, Positioned

\* A typed record that works on a job in a place that asks for nothing more.
LEMMA Plain ==
    ASSUME NEW x, x.job \in Jobs,
           x.at \notin {"reclaim_get", "reclaim_write", "status", "insert"}
    PROVE  Positioned(x)
BY DEF Positioned

\* Goto changes the place only.
LEMMA GotoMove ==
    ASSUME Local, NEW w \in Workers, work[w].job \in Jobs, NEW at \in Places, Goto(w, at),
           at \in {"reclaim_get", "reclaim_write"} => work[w].derived \in Statuses,
           at = "status" => work[w].result # "none",
           at # "insert"
    PROVE  \E r : /\ Move(w, r)
                  /\ r.at = at /\ r.job = work[w].job /\ r.result = work[w].result
<1> DEFINE x == work[w]
           r == [x EXCEPT !.at = at]
<1>1. x \in WorkType /\ work \in [Workers -> WorkType]
  BY Fields DEF Local, Typed
<1>2. work' = [work EXCEPT ![w] = r]
  BY <1>1 DEF Goto
<1>3. /\ r \in WorkType /\ r.at = at /\ r.job = x.job /\ r.result = x.result
      /\ r.derived = x.derived
  <2> HIDE DEF x
  <2> QED BY <1>1 DEF WorkType
<1>4. Positioned(r)
  BY <1>3 DEF Positioned
<1> HIDE DEF r
<1> QED BY <1>2, <1>3, <1>4 DEF Move

\* Return keeps the job.
LEMMA ReturnedType ==
    ASSUME NEW x \in WorkType, x.job \in Jobs, NEW q
    PROVE  /\ Returned(x, q) \in WorkType
           /\ Positioned(Returned(x, q))
           /\ Returned(x, q).at = "ended"
           /\ Returned(x, q).job = x.job
<1> DEFINE e == IF q = "completed" THEN q ELSE "error"
<1>1. e \in Results /\ "ended" \in Places /\ 0 \in 0..MaxAttempts
  BY JobLifecycleAssumption DEF Results, Places
<1> HIDE DEF e
<1>2. Returned(x, q) = [x EXCEPT !.at = "ended", !.retry = 0, !.result = e]
  BY DEF Returned, e
<1> QED BY <1>1, <1>2 DEF WorkType, Positioned

\* A worker begins with a job, with and without its retry count.
Begins(w, p, j) == work' = [work EXCEPT ![w] = [Idle EXCEPT !.at = p, !.job = j]]
BeginsWith(w, p, j, n) == work' = [work EXCEPT ![w] = [Idle EXCEPT !.at = p, !.job = j, !.retry = n]]

\* The record of a worker that begins with a job.
LEMMA BeginMove ==
    ASSUME Local, NEW w \in Workers, NEW p \in {"upsert", "claim", "cancel_status", "fallback_status"},
           NEW j \in Jobs, Begins(w, p, j)
    PROVE  \E r : Move(w, r) /\ r.at = p /\ r.job = j
<1> DEFINE r == [Idle EXCEPT !.at = p, !.job = j]
<1>1. p \in Places /\ Idle \in WorkType
  BY IdleType DEF Places
<1>2. r \in WorkType
  BY <1>1 DEF WorkType
<1>3. r.at = p /\ r.job = j
  BY DEF Idle
<1> HIDE DEF r
<1>4. Positioned(r)
  BY <1>3, Plain
<1> QED BY <1>2, <1>3, <1>4 DEF Move, r, Begins

\* ... and one that keeps its retry count.
LEMMA BeginWithMove ==
    ASSUME Local, NEW w \in Workers, NEW p \in {"upsert", "claim", "cancel_status", "fallback_status"},
           NEW j \in Jobs, NEW n \in 0..MaxAttempts, BeginsWith(w, p, j, n)
    PROVE  \E r : Move(w, r) /\ r.at = p /\ r.job = j
<1> DEFINE r == [Idle EXCEPT !.at = p, !.job = j, !.retry = n]
<1>1. p \in Places /\ Idle \in WorkType
  BY IdleType DEF Places
<1>2. r \in WorkType
  BY <1>1 DEF WorkType
<1>3. r.at = p /\ r.job = j
  BY DEF Idle
<1> HIDE DEF r
<1>4. Positioned(r)
  BY <1>3, Plain
<1> QED BY <1>2, <1>3, <1>4 DEF Move, r, BeginsWith

\* The worker drops what it was doing.
LEMMA IdleMove ==
    ASSUME Local, NEW w \in Workers, work' = [work EXCEPT ![w] = Idle]
    PROVE  \E r : Move(w, r) /\ r.at = "idle"
BY IdleType DEF Move

\* The next job of the reclaim list.
LEMMA NextReclaimMove ==
    ASSUME Local, NEW w \in Workers, NextReclaim(w)
    PROVE  \E r : Move(w, r) /\ r.at = "reclaim"
<1> DEFINE s == work[w].ids
           r == [Idle EXCEPT !.at = "reclaim", !.ids = s]
<1>1. s \in SUBSET Jobs /\ "reclaim" \in Places /\ Idle \in WorkType
  BY Fields, IdleType DEF Local, Places
<1>2. work' = [work EXCEPT ![w] = r]
  BY DEF NextReclaim
<1> HIDE DEF s
<1>3. r \in WorkType /\ r.at = "reclaim"
  BY <1>1 DEF WorkType
<1> HIDE DEF r
<1>4. Positioned(r)
  BY <1>3 DEF Positioned
<1> QED BY <1>2, <1>3, <1>4 DEF Move

\* ReclaimEvents goes on with job j, or skips it.
LEMMA ReclaimEventsMove ==
    ASSUME Local, NEW w \in Workers, NEW j \in Jobs, ReclaimEvents(w, j)
    PROVE  \E r : Move(w, r) /\ r.at \in {"reclaim", "reclaim_get"}
<1> DEFINE x == work[w]
           s == work[w].ids \ {j}
           d == stream[j].status
<1>1. x \in WorkType /\ s \in SUBSET Jobs /\ d \in Statuses /\ "reclaim_get" \in Places
  <2>1. stream[j] \in StreamType
    BY DEF Local, Typed
  <2> QED BY <2>1, Fields DEF Local, StreamType, StreamStatuses, Statuses, Terminal, Places
<1>2. CASE d = "waiting"
  <2> DEFINE r == [x EXCEPT !.ids = s]
  <2>1. work' = [work EXCEPT ![w] = r] /\ x.at = "reclaim"
    BY <1>2 DEF ReclaimEvents
  <2> HIDE DEF s, x, d
  <2>2. r \in WorkType /\ r.at = x.at
    BY <1>1 DEF WorkType
  <2> HIDE DEF r
  <2>3. Positioned(r)
    BY <2>1, <2>2 DEF Positioned
  <2> QED BY <2>1, <2>2, <2>3 DEF Move
<1>3. CASE d # "waiting"
  <2> DEFINE r == [x EXCEPT !.ids = s, !.at = "reclaim_get", !.job = j, !.derived = d]
  <2>1. work' = [work EXCEPT ![w] = r]
    BY <1>3 DEF ReclaimEvents
  <2> HIDE DEF s, x, d
  <2>2. r \in WorkType /\ r.at = "reclaim_get" /\ r.job = j /\ r.derived = d
    BY <1>1 DEF WorkType
  <2> HIDE DEF r
  <2>3. Positioned(r)
    BY <1>1, <2>2 DEF Positioned
  <2> QED BY <2>1, <2>2, <2>3 DEF Move
<1> QED BY <1>2, <1>3

\* What AfterRun makes of the outcome of a run.
LEMMA AfterRunMove ==
    ASSUME Local, NEW w \in Workers, work[w].job \in Jobs, AfterRun(w)
    PROVE  \E r : /\ Move(w, r)
                  /\ r.at \in {"ended", "complete", "fail", "requeue"}
                  /\ work[w].result = "completed" => r.at = "complete"
<1> DEFINE x == work[w]
           q == IF x.result = "completed" THEN x.result ELSE "error"
           n == x.retry
<1>1. x \in WorkType /\ x.result \in Results /\ n \in 0..MaxAttempts /\ 0 \in 0..MaxAttempts
  BY Fields, JobLifecycleAssumption DEF Local
<1>2. q \in Results /\ {"complete", "fail", "requeue"} \subseteq Places
  BY <1>1 DEF Results, Places
<1>3. ASSUME NEW p \in {"complete", "fail", "requeue"}, NEW m \in 0..MaxAttempts, NEW r,
             r = [x EXCEPT !.at = p, !.retry = m, !.result = q], work' = [work EXCEPT ![w] = r]
      PROVE  Move(w, r) /\ r.at = p
  <2> HIDE DEF x, q, n
  <2>1. r \in WorkType /\ r.at = p /\ r.job = x.job
    BY <1>1, <1>2, <1>3 DEF WorkType
  <2>2. Positioned(r)
    BY <2>1, Plain DEF x
  <2> QED BY <1>3, <2>1, <2>2 DEF Move
<1>4. CASE x.result = "waiting" /\ Return(w, "waiting")
  <2>1. work' = [work EXCEPT ![w] = Returned(x, "waiting")]
    BY <1>4 DEF Return
  <2> QED BY <1>1, <1>4, <2>1, ReturnedType DEF Move
<1> DEFINE y == [x EXCEPT !.retry = 0, !.result = q]
<1>5. /\ [y EXCEPT !.at = "complete"] = [x EXCEPT !.at = "complete", !.retry = 0, !.result = q]
      /\ [y EXCEPT !.at = "fail"] = [x EXCEPT !.at = "fail", !.retry = 0, !.result = q]
      /\ [y EXCEPT !.at = "requeue", !.retry = n] = [x EXCEPT !.at = "requeue", !.retry = n, !.result = q]
  <2> HIDE DEF x, q, n
  <2> QED BY <1>1 DEF WorkType
<1>6. y = [x EXCEPT !.retry = 0, !.result = IF @ = "completed" THEN @ ELSE "error"]
  BY <1>1 DEF WorkType
<1>7. CASE x.result = "completed" /\ work' = [work EXCEPT ![w] = [y EXCEPT !.at = "complete"]]
  <2>1. work' = [work EXCEPT ![w] = [x EXCEPT !.at = "complete", !.retry = 0, !.result = q]]
    BY <1>5, <1>7
  <2> QED BY <1>1, <1>3, <2>1
<1>8. CASE /\ x.result \in {"failed", "error"}
           /\ work' = [work EXCEPT ![w] = IF n + 1 >= MaxAttempts THEN [y EXCEPT !.at = "fail"]
                                          ELSE [y EXCEPT !.at = "requeue", !.retry = n]]
  <2>1. \/ work' = [work EXCEPT ![w] = [x EXCEPT !.at = "fail", !.retry = 0, !.result = q]]
        \/ work' = [work EXCEPT ![w] = [x EXCEPT !.at = "requeue", !.retry = n, !.result = q]]
    BY <1>5, <1>8
  <2> QED BY <1>1, <1>3, <1>8, <2>1
<1> QED BY <1>4, <1>6, <1>7, <1>8 DEF AfterRun

-----------------------------------------------------------------------------
(* What a step does to the stores *)

\* The end of an execution leaves the lease rows without a holder.
LEMMA AbandonedEffect ==
    ASSUME Typed, NEW w \in Workers, claim' = Abandoned(w)
    PROVE  /\ claim' \in [Jobs -> ClaimType]
           /\ \A j \in Jobs : claim'[j].holder = IF claim[j].holder = w THEN NoWorker ELSE claim[j].holder
BY DEF Abandoned, Typed, ClaimType

\* A claim makes w the holder of j.
LEMMA GrantEffect ==
    ASSUME Typed, NEW w \in Workers, NEW j \in Jobs, Grant(w, j)
    PROVE  /\ claim' \in [Jobs -> ClaimType]
           /\ \A k \in Jobs : k # j => claim'[k] = claim[k]
<1> DEFINE r == [lease |-> "live", holder |-> w]
<1>1. r \in ClaimType
  BY DEF ClaimType
<1>2. claim \in [Jobs -> ClaimType] /\ claim' = [claim EXCEPT ![j] = r]
  BY DEF Typed, Grant
<1> HIDE DEF r
<1> QED BY <1>1, <1>2

\* A status that is written is one of the statuses.
LEMMA StatusTyped ==
    ASSUME Typed, NEW j \in Jobs, NEW s \in Statuses, UpdateStatus(j, s)
    PROVE  status' \in [Jobs -> Statuses]
BY DEF UpdateStatus, Typed

\* A status write with the context of the run.
LEMMA RunStatusTyped ==
    ASSUME Typed, NEW w \in Workers, work[w].job \in Jobs, NEW s \in Statuses, UpdateStatusRun(w, s)
    PROVE  status' \in [Jobs -> Statuses]
BY DEF UpdateStatusRun, Typed

\* Requeue keeps the retry count within its bound.
LEMMA RequeueTyped ==
    ASSUME Typed, NEW j \in Jobs, NEW n \in 0..MaxAttempts, Requeue(j, n)
    PROVE  status' \in [Jobs -> Statuses] /\ retries' \in [Jobs -> 0..MaxAttempts]
<1>1. Incremented(n) \in 0..MaxAttempts /\ "pending" \in Statuses
  BY JobLifecycleAssumption DEF Incremented, Statuses
<1> QED BY <1>1 DEF Requeue, Typed

\* A stored event changes one stream, and makes every read of it old.
LEMMA StoreEffect ==
    ASSUME Typed, NEW j \in Jobs, NEW s \in StreamStatuses, NEW l \in Lasts, Store(j, s, l)
    PROVE  /\ stream' \in [Jobs -> StreamType]
           /\ fresh' \in [Jobs -> SUBSET (Workers \cup Clients)]
           /\ stream'[j].status = s /\ stream'[j].last = l
           /\ \A k \in Jobs : k # j => stream'[k] = stream[k]
           /\ \A k \in Jobs : fresh'[k] \subseteq fresh[k]
<1> DEFINE b == stream[j].waited \/ s = "waiting"
           r == [status |-> s, last |-> l, waited |-> b]
<1>1. b \in BOOLEAN
  OBVIOUS
<1>2. stream' = [stream EXCEPT ![j] = r] /\ fresh' = [fresh EXCEPT ![j] = {}]
  BY DEF Store
<1> HIDE DEF b
<1>3. r \in StreamType /\ r.status = s /\ r.last = l
  BY <1>1 DEF StreamType
<1> HIDE DEF r
<1> QED BY <1>2, <1>3 DEF Typed

\* The INSERT of w adds its event to its job, or nothing.
LEMMA InsertEffect ==
    ASSUME Typed, NEW w \in Workers, work[w].job \in Jobs, NEW s \in StreamStatuses, AppendInsert(w, s)
    PROVE  /\ stream' \in [Jobs -> StreamType]
           /\ fresh' \in [Jobs -> SUBSET (Workers \cup Clients)]
           /\ \A k \in Jobs : \/ stream'[k] = stream[k]
                              \/ /\ k = work[w].job /\ w \in fresh[k]
                                 /\ stream'[k].status = s /\ stream'[k].last = Last(s)
           /\ \A k \in Jobs : fresh'[k] \subseteq fresh[k]
<1> DEFINE j == work[w].job
<1>1. Last(s) \in Lasts
  BY DEF Last, Lasts
<1>2. CASE w \in fresh[j] /\ ~work[w].cancelled /\ Store(j, s, Last(s))
  BY <1>1, <1>2, StoreEffect
<1>3. CASE fresh' = [fresh EXCEPT ![j] = @ \ {w}] /\ UNCHANGED stream
  BY <1>3 DEF Typed
<1> QED BY <1>2, <1>3 DEF AppendInsert

\* The check of an append by w: only the holder passes it.
LEMMA CheckEffect ==
    ASSUME Typed, NEW w \in Workers, work[w].job \in Jobs, NEW i, NEW o, AppendCheck(w, i, o)
    PROVE  /\ fresh' \in [Jobs -> SUBSET (Workers \cup Clients)]
           /\ \A k \in Jobs : fresh'[k] \subseteq fresh[k] \cup {w}
           /\ \/ work' = [work EXCEPT ![w] = i] /\ claim[work[w].job].holder = w
              \/ work' = [work EXCEPT ![w] = o]
<1> DEFINE j == work[w].job
<1>1. CASE /\ MayAppend(w)
           /\ fresh' = [fresh EXCEPT ![j] = @ \cup {w}]
           /\ work' = [work EXCEPT ![w] = i]
  <2>1. claim[j].holder = w
    BY <1>1 DEF MayAppend, Holds
  <2> QED BY <1>1, <2>1 DEF Typed
<1>2. CASE work' = [work EXCEPT ![w] = o] /\ UNCHANGED fresh
  BY <1>2 DEF Typed
<1> QED BY <1>1, <1>2 DEF AppendCheck

-----------------------------------------------------------------------------
(* The invariant and settled jobs *)

\* A typed move and typed stores.
LEMMA LocalMove ==
    ASSUME Local, NEW w \in Workers, NEW r, Move(w, r), StoresTyped', UNCHANGED req
    PROVE  Local'
<1>1. work' \in [Workers -> WorkType] /\ \A v \in Workers : Positioned(work'[v])
  BY DEF Local, Typed, Move
<1>2. \A v \in Workers : Positioned(work[v])'
  BY <1>1 DEF Positioned
<1> QED BY <1>1, <1>2 DEF Local, Typed, StoresTyped

\* What a move of w must not do to a settled job.
LEMMA SettledMove ==
    ASSUME Local, NEW w \in Workers, NEW j \in Jobs, NEW r, Move(w, r), Settled(j),
           stream'[j] = stream[j] \/ (stream'[j].status = "completed" /\ stream'[j].last = "terminal"),
           fresh'[j] \subseteq fresh[j] \cup {w},
           claim'[j].holder \in {claim[j].holder, NoWorker},
           ~(r.at = "upsert" /\ r.job = j),
           r.at \in Inserts /\ r.job = j /\ w \in fresh'[j] => claim[j].holder = w \/ Inserting(w, j),
           Over(work[w]) => Over(r) \/ (r.at = "idle" /\ claim'[j].holder # w)
    PROVE  Settled(j)'
<1>1. stream'[j].status = "completed" /\ stream'[j].last = "terminal"
  BY DEF Settled
<1>2. work'[w] = r /\ \A v \in Workers : v # w => work'[v] = work[v]
  BY DEF Move, Local, Typed
<1>3. ASSUME NEW v \in Workers
      PROVE  /\ ~(work'[v].at = "upsert" /\ work'[v].job = j)
             /\ claim'[j].holder = v \/ Inserting(v, j)' => Over(work'[v])
  <2>1. /\ ~(work[v].at = "upsert" /\ work[v].job = j)
        /\ claim[j].holder = v \/ Inserting(v, j) => Over(work[v])
    BY DEF Settled
  <2>2. claim'[j].holder = v => claim[j].holder = v
    BY JobLifecycleAssumption
  <2>3. CASE v = w
    <3>1. Inserting(w, j)' => r.at \in Inserts /\ r.job = j /\ w \in fresh'[j]
      BY <1>2 DEF Inserting, Inserts
    <3>2. r.at \in Inserts => r.at # "idle"
      BY DEF Inserts
    <3> QED BY <1>2, <2>1, <2>2, <2>3, <3>1, <3>2
  <2>4. CASE v # w
    <3>1. Inserting(v, j)' => Inserting(v, j)
      BY <1>2, <2>4 DEF Inserting
    <3> QED BY <1>2, <2>1, <2>2, <2>4, <3>1
  <2> QED BY <2>3, <2>4
<1>4. \A v \in Workers : /\ ~(work[v].at = "upsert" /\ work[v].job = j)'
                         /\ (claim[j].holder = v \/ Inserting(v, j))' => Over(work[v])'
  BY <1>3 DEF Over
<1> QED BY <1>1, <1>4 DEF Settled

\* A step that leaves the stream, the reads and the leases alone.
LEMMA QuietMove ==
    ASSUME Local, NEW w \in Workers, NEW r, Move(w, r), UNCHANGED << stream, fresh, claim >>,
           NEW j \in Jobs, Settled(j),
           r.at \notin Inserts, ~(r.at = "upsert" /\ r.job = j),
           Over(work[w]) => Over(r)
    PROVE  Settled(j)'
BY SettledMove

\* Steps that touch neither the workers, nor the stream of j, nor its holder.
LEMMA SettledStay ==
    ASSUME NEW j \in Jobs, Settled(j), UNCHANGED work, stream'[j] = stream[j],
           claim'[j].holder = claim[j].holder, fresh'[j] \cap Workers \subseteq fresh[j]
    PROVE  Settled(j)'
BY DEF Settled, Inserting, Over

\* Everything is idle at first.
LEMMA LocalInit == Init => Local
<1> SUFFICES ASSUME Init PROVE Local
  OBVIOUS
<1>1. Idle \in WorkType /\ Positioned(Idle)
  BY IdleType
<1>2. /\ [lease |-> "none", holder |-> NoWorker] \in ClaimType
      /\ [status |-> "pending", last |-> "other", waited |-> FALSE] \in StreamType
      /\ NoRequest \in ReqType /\ NoRequest.at = "idle"
  BY DEF ClaimType, StreamType, StreamStatuses, Lasts, ReqType, NoRequest
<1>3. /\ work \in [Workers -> WorkType] /\ claim \in [Jobs -> ClaimType]
      /\ stream \in [Jobs -> StreamType] /\ req \in [Clients -> ReqType]
      /\ fresh \in [Jobs -> SUBSET (Workers \cup Clients)]
  BY <1>1, <1>2 DEF Init
<1>4. status \in [Jobs -> Statuses] /\ retries \in [Jobs -> 0..MaxAttempts] /\ faults \in 0..MaxFaults
  BY JobLifecycleAssumption DEF Init, Statuses
<1>5. (\A w \in Workers : Positioned(work[w])) /\ \A c \in Clients : req[c].at = "idle"
  BY <1>1, <1>2 DEF Init
<1> QED BY <1>3, <1>4, <1>5 DEF Local, Typed, Init

\* No step of the claim loop reopens a settled job.
LEMMA ClaimKeeps ==
    ASSUME Local, NEW w \in Workers,
           \/ ReclaimList(w) \/ (\E k \in Jobs : ReclaimEvents(w, k)) \/ ReclaimGet(w) \/ ReclaimWrite(w)
           \/ ClaimSelect(w) \/ ClaimNextPendingForWorker(w) \/ ClaimJobSelect(w) \/ ClaimUpsert(w)
    PROVE  Local' /\ \A j \in Jobs : Settled(j) => Settled(j)'
<1>1. Typed /\ StoresTyped
  BY DEF Local, Typed, StoresTyped
<1>2. ASSUME NEW r, Move(w, r), r.at \notin Inserts \cup {"upsert"}, ~Over(work[w]),
             StoresTyped', UNCHANGED << stream, fresh, claim, req >>
      PROVE  Local' /\ \A j \in Jobs : Settled(j) => Settled(j)'
  BY <1>2, LocalMove, QuietMove
<1>3. /\ {"reclaim", "reclaim_get", "reclaim_write", "claim", "idle", "get"} \cap (Inserts \cup {"upsert"}) = {}
      /\ {"reclaim_write", "upsert", "get", "reclaim"} \subseteq Places
      /\ {"running", "pending"} \subseteq Statuses
      /\ work[w].at \notin {"idle", "reclaim"} => work[w].job \in Jobs
      /\ work[w].at \in {"reclaim_get", "reclaim_write"} => work[w].derived \in Statuses
      /\ work[w].at \in {"idle", "reclaim", "reclaim_get", "reclaim_write", "claim", "upsert"} => ~Over(work[w])
  BY DEF Inserts, Places, Statuses, Local, Positioned, Over
<1>4. CASE ReclaimList(w)
  <2> DEFINE s == {j \in Jobs : claim[j].lease = "expired" /\ status[j] \notin {"completed", "failed"}}
             x == work[w]
             r == [x EXCEPT !.at = "reclaim", !.ids = s]
  <2>1. s \in SUBSET Jobs /\ x \in WorkType /\ x.at = "idle"
    BY <1>1, <1>4, Fields DEF ReclaimList
  <2>2. work' = [work EXCEPT ![w] = r]
    BY <1>4 DEF ReclaimList
  <2> HIDE DEF s
  <2>3. r \in WorkType /\ r.at = "reclaim"
    <3> HIDE DEF x
    <3> QED BY <1>3, <2>1 DEF WorkType
  <2> HIDE DEF r
  <2>4. Move(w, r)
    BY <2>2, <2>3 DEF Move, Positioned
  <2>5. StoresTyped' /\ UNCHANGED << stream, fresh, claim, req >>
    BY <1>1, <1>4 DEF ReclaimList, StoresTyped
  <2> QED BY <1>2, <1>3, <2>1, <2>3, <2>4, <2>5
<1>5. ASSUME NEW k \in Jobs, ReclaimEvents(w, k)
      PROVE  Local' /\ \A j \in Jobs : Settled(j) => Settled(j)'
  <2>1. PICK r : Move(w, r) /\ r.at \in {"reclaim", "reclaim_get"}
    BY <1>5, ReclaimEventsMove
  <2>2. StoresTyped' /\ UNCHANGED << stream, fresh, claim, req >> /\ work[w].at = "reclaim"
    BY <1>1, <1>5 DEF ReclaimEvents, StoresTyped
  <2> QED BY <1>2, <1>3, <2>1, <2>2
<1>6. CASE ReclaimGet(w)
  <2>1. StoresTyped' /\ UNCHANGED << stream, fresh, claim, req >> /\ work[w].at = "reclaim_get"
    BY <1>1, <1>6 DEF ReclaimGet, StoresTyped
  <2>2. \E r : Move(w, r) /\ r.at \in {"reclaim", "reclaim_write"}
    <3>1. CASE Goto(w, "reclaim_write")
      BY <1>3, <2>1, <3>1, GotoMove
    <3>2. CASE NextReclaim(w)
      BY <3>2, NextReclaimMove
    <3> QED BY <1>6, <3>1, <3>2 DEF ReclaimGet
  <2> QED BY <1>2, <1>3, <2>1, <2>2
<1>7. CASE ReclaimWrite(w)
  <2>1. UNCHANGED << retries, cancel, stream, fresh, ready, claim, req, faults >>
        /\ work[w].at = "reclaim_write" /\ NextReclaim(w) /\ UpdateStatus(work[w].job, work[w].derived)
    BY <1>7 DEF ReclaimWrite
  <2>2. StoresTyped'
    BY <1>1, <1>3, <2>1, StatusTyped DEF StoresTyped
  <2>3. \E r : Move(w, r) /\ r.at = "reclaim"
    BY <2>1, NextReclaimMove
  <2> QED BY <1>2, <1>3, <2>1, <2>2, <2>3
<1>8. ASSUME NEW k \in Jobs, Claimable(k), NEW r, Move(w, r), r.at = "upsert", r.job = k, ~Over(work[w]),
             StoresTyped', UNCHANGED << stream, fresh, claim, req >>
      PROVE  Local' /\ \A j \in Jobs : Settled(j) => Settled(j)'
  <2>1. \A j \in Jobs : Settled(j) => j # k
    BY <1>8 DEF Settled, Claimable
  <2>2. "upsert" \notin Inserts
    BY DEF Inserts
  <2> QED BY <1>8, <2>1, <2>2, LocalMove, QuietMove
<1>9. CASE ClaimSelect(w)
  <2>1. StoresTyped' /\ UNCHANGED << stream, fresh, claim, req >> /\ work[w].at = "reclaim"
    BY <1>1, <1>9 DEF ClaimSelect, StoresTyped, Reclaimed
  <2>2. ASSUME NEW k \in Jobs, Claimable(k),
               work' = [work EXCEPT ![w] = [Idle EXCEPT !.at = "upsert", !.job = k]]
        PROVE  Local' /\ \A j \in Jobs : Settled(j) => Settled(j)'
    <3>1. Begins(w, "upsert", k)
      BY <2>2 DEF Begins
    <3>2. \E r : Move(w, r) /\ r.at = "upsert" /\ r.job = k
      BY <3>1, BeginMove
    <3> QED BY <1>3, <1>8, <2>1, <2>2, <3>2
  <2>3. CASE work' = [work EXCEPT ![w] = Idle]
    BY <1>2, <1>3, <2>1, <2>3, IdleMove
  <2> QED BY <1>9, <2>2, <2>3 DEF ClaimSelect
<1>10. CASE ClaimNextPendingForWorker(w)
  <2>1. UNCHANGED << retries, cancel, stream, fresh, ready, claim, req, faults >> /\ work[w].at = "reclaim"
    BY <1>10 DEF ClaimNextPendingForWorker, Reclaimed
  <2>2. ASSUME NEW k \in Jobs, UpdateStatus(k, "running"),
               work' = [work EXCEPT ![w] = [Idle EXCEPT !.at = "claim", !.job = k, !.retry = retries[k]]]
        PROVE  Local' /\ \A j \in Jobs : Settled(j) => Settled(j)'
    <3> DEFINE n == retries[k]
    <3>1. n \in 0..MaxAttempts /\ StoresTyped'
      BY <1>1, <1>3, <2>1, <2>2, StatusTyped DEF Typed, StoresTyped
    <3>2. BeginsWith(w, "claim", k, n)
      BY <2>2 DEF BeginsWith
    <3> HIDE DEF n
    <3>3. \E r : Move(w, r) /\ r.at = "claim"
      BY <3>1, <3>2, BeginWithMove
    <3> QED BY <1>2, <1>3, <2>1, <3>1, <3>3
  <2>3. CASE work' = [work EXCEPT ![w] = Idle] /\ UNCHANGED status
    <3>1. StoresTyped'
      BY <1>1, <2>1, <2>3 DEF StoresTyped
    <3> QED BY <1>2, <1>3, <2>1, <2>3, <3>1, IdleMove
  <2> QED BY <1>10, <2>2, <2>3 DEF ClaimNextPendingForWorker
<1>11. CASE ClaimJobSelect(w)
  <2>1. UNCHANGED << cancel, stream, fresh, ready, claim, req, faults >> /\ work[w].at = "claim"
        /\ work[w].job \in Jobs
    BY <1>3, <1>11 DEF ClaimJobSelect
  <2>2. CASE Claimable(work[w].job) /\ Goto(w, "upsert") /\ UNCHANGED << status, retries >>
    <3>1. \E r : Move(w, r) /\ r.at = "upsert" /\ r.job = work[w].job
      BY <1>3, <2>1, <2>2, GotoMove
    <3>2. StoresTyped'
      BY <1>1, <2>1, <2>2 DEF StoresTyped
    <3> QED BY <1>3, <1>8, <2>1, <2>2, <3>1, <3>2
  <2>3. CASE Requeue(work[w].job, work[w].retry) /\ work' = [work EXCEPT ![w] = Idle]
    <3>1. work[w].retry \in 0..MaxAttempts
      BY <1>1, Fields
    <3>2. StoresTyped'
      BY <1>1, <2>1, <2>3, <3>1, RequeueTyped DEF StoresTyped
    <3> QED BY <1>2, <1>3, <2>1, <2>3, <3>2, IdleMove
  <2> QED BY <1>11, <2>2, <2>3 DEF ClaimJobSelect
<1>12. CASE ClaimUpsert(w)
  <2>1. /\ UNCHANGED << status, retries, cancel, stream, fresh, ready, req, faults >>
        /\ work[w].at = "upsert" /\ work[w].job \in Jobs
        /\ Grant(w, work[w].job) /\ Goto(w, "get")
    BY <1>3, <1>12 DEF ClaimUpsert
  <2>2. PICK r : Move(w, r) /\ r.at = "get"
    BY <1>3, <2>1, GotoMove
  <2>3. claim' \in [Jobs -> ClaimType] /\ \A k \in Jobs : k # work[w].job => claim'[k] = claim[k]
    BY <1>1, <2>1, GrantEffect
  <2>4. Local'
    BY <1>1, <2>1, <2>2, <2>3, LocalMove DEF StoresTyped
  <2>5. ASSUME NEW j \in Jobs, Settled(j)
        PROVE  Settled(j)'
    <3>1. j # work[w].job
      BY <2>1, <2>5 DEF Settled
    <3> QED BY <1>3, <2>1, <2>2, <2>3, <2>5, <3>1, SettledMove
  <2> QED BY <2>4, <2>5
<1> QED BY <1>4, <1>5, <1>6, <1>7, <1>9, <1>10, <1>11, <1>12

\* A step of a worker that leaves the streams, the reads and the leases alone.
LEMMA QuietKeeps ==
    ASSUME Local, NEW w \in Workers, NEW r, Move(w, r), r.at \notin Inserts \cup {"upsert"},
           Over(work[w]) => Over(r), StoresTyped', UNCHANGED << stream, fresh, claim, req >>
    PROVE  Local' /\ \A j \in Jobs : Settled(j) => Settled(j)'
BY LocalMove, QuietMove

\* The end of an execution.
LEMMA EndKeeps ==
    ASSUME Local, NEW w \in Workers, work' = [work EXCEPT ![w] = Idle], claim' = Abandoned(w),
           UNCHANGED << stream, req >>, \A j \in Jobs : fresh'[j] \subseteq fresh[j],
           claim' \in [Jobs -> ClaimType] => StoresTyped'
    PROVE  Local' /\ \A j \in Jobs : Settled(j) => Settled(j)'
<1>1. PICK r : Move(w, r) /\ r.at = "idle"
  BY IdleMove
<1>2. /\ claim' \in [Jobs -> ClaimType]
      /\ \A j \in Jobs : claim'[j].holder = IF claim[j].holder = w THEN NoWorker ELSE claim[j].holder
  BY AbandonedEffect DEF Local
<1>3. \A j \in Jobs : claim'[j].holder # w /\ claim'[j].holder \in {claim[j].holder, NoWorker}
  BY <1>2, JobLifecycleAssumption
<1>4. "idle" \notin Inserts
  BY DEF Inserts
<1>5. ASSUME NEW j \in Jobs, Settled(j)
      PROVE  Settled(j)'
  BY <1>1, <1>3, <1>4, <1>5, SettledMove
<1> QED BY <1>1, <1>2, <1>5, LocalMove

\* The check of an append: only the holder comes to the INSERT, and the holder of a
\* settled job is over.
LEMMA CheckKeeps ==
    ASSUME Local, NEW w \in Workers, work[w].job \in Jobs, NEW i \in WorkType, NEW o \in WorkType,
           AppendCheck(w, i, o), Positioned(i), Positioned(o),
           i.at \in Inserts, i.job = work[w].job, o.at \notin Inserts \cup {"upsert"},
           Over(work[w]) => Over(i) /\ Over(o),
           UNCHANGED << status, retries, cancel, stream, ready, claim, req, faults >>
    PROVE  Local' /\ \A j \in Jobs : Settled(j) => Settled(j)'
<1>1. /\ fresh' \in [Jobs -> SUBSET (Workers \cup Clients)]
      /\ \A k \in Jobs : fresh'[k] \subseteq fresh[k] \cup {w}
      /\ \/ work' = [work EXCEPT ![w] = i] /\ claim[work[w].job].holder = w
         \/ work' = [work EXCEPT ![w] = o]
  BY CheckEffect DEF Local
<1>2. StoresTyped'
  BY <1>1 DEF Local, Typed, StoresTyped
<1>3. CASE work' = [work EXCEPT ![w] = i] /\ claim[work[w].job].holder = w
  <2>1. Move(w, i)
    BY <1>3 DEF Move
  <2>2. i.at # "upsert"
    BY DEF Inserts
  <2>3. ASSUME NEW j \in Jobs, Settled(j)
        PROVE  Settled(j)'
    BY <1>1, <1>3, <2>1, <2>2, <2>3, SettledMove
  <2> QED BY <1>2, <2>1, <2>3, LocalMove
<1>4. CASE work' = [work EXCEPT ![w] = o]
  <2>1. Move(w, o)
    BY <1>4 DEF Move
  <2>2. ASSUME NEW j \in Jobs, Settled(j)
        PROVE  Settled(j)'
    BY <1>1, <1>4, <2>1, <2>2, SettledMove
  <2> QED BY <1>2, <2>1, <2>2, LocalMove
<1> QED BY <1>1, <1>3, <1>4

\* An INSERT that finds its version adds a job_completed to a settled job.
LEMMA InsertKeeps ==
    ASSUME Local, NEW w \in Workers, work[w].job \in Jobs, work[w].at \in Inserts,
           NEW s \in StreamStatuses, AppendInsert(w, s), Over(work[w]) => s = "completed",
           NEW r, Move(w, r), r.at \notin Inserts \cup {"upsert"}, Over(work[w]) => Over(r),
           UNCHANGED << status, retries, cancel, ready, claim, req, faults >>
    PROVE  Local' /\ \A j \in Jobs : Settled(j) => Settled(j)'
<1>1. /\ stream' \in [Jobs -> StreamType]
      /\ fresh' \in [Jobs -> SUBSET (Workers \cup Clients)]
      /\ \A k \in Jobs : \/ stream'[k] = stream[k]
                         \/ /\ k = work[w].job /\ w \in fresh[k]
                            /\ stream'[k].status = s /\ stream'[k].last = Last(s)
      /\ \A k \in Jobs : fresh'[k] \subseteq fresh[k]
  BY InsertEffect DEF Local
<1>2. StoresTyped'
  BY <1>1 DEF Local, Typed, StoresTyped
<1>3. ASSUME NEW j \in Jobs, Settled(j)
      PROVE  Settled(j)'
  <2>1. ASSUME j = work[w].job, w \in fresh[j]
        PROVE  s = "completed" /\ Last(s) = "terminal"
    <3>1. Inserting(w, j)
      BY <2>1 DEF Inserting, Inserts
    <3> QED BY <1>3, <3>1 DEF Settled, Last, Terminal
  <2>2. stream'[j] = stream[j] \/ (stream'[j].status = "completed" /\ stream'[j].last = "terminal")
    BY <1>1, <2>1
  <2> QED BY <1>1, <1>3, <2>2, SettledMove
<1> QED BY <1>2, <1>3, LocalMove

-----------------------------------------------------------------------------
(* One lemma for each kind of step *)

\* Facts about the places of an execution.
LEMMA PlaceFacts ==
    ASSUME Local, NEW w \in Workers
    PROVE  /\ Typed /\ StoresTyped /\ work[w] \in WorkType
           /\ work[w].at \notin {"idle", "reclaim"} => work[w].job \in Jobs
           /\ work[w].at = "status" => work[w].result # "none"
           /\ work[w].at = "insert" => work[w].result \in {"completed", "waiting", "failed"}
           /\ work[w].at \in {"get", "mark", "run", "fail", "fail_insert", "fail_status", "requeue",
                              "requeue_event", "requeue_insert"} => ~Over(work[w])
           /\ work[w].at \in {"insert", "status"} /\ Over(work[w]) => work[w].result = "completed"
BY Fields DEF Local, Typed, StoresTyped, Positioned, Over

\* The places and statuses that the steps write.
LEMMA Names ==
    /\ {"mark", "run", "status", "complete_status", "fail_status", "requeue_event"} \subseteq Places
    /\ {"mark", "run", "status", "complete", "complete_status", "fail", "fail_status", "requeue",
        "requeue_event", "ended", "cancel_status", "fallback_status", "idle"}
          \cap (Inserts \cup {"upsert"}) = {}
    /\ Inserts \subseteq Places
    /\ {"running", "pending", "completed", "failed", "cancelled", "waiting"} \subseteq Statuses
    /\ {"pending", "waiting", "completed", "failed"} \subseteq StreamStatuses
    /\ {"completed", "waiting", "failed", "error"} \subseteq Results
BY DEF Places, Inserts, Statuses, Terminal, StreamStatuses, Results

\* A record whose place is one where an execution is over.
LEMMA OverPlace ==
    ASSUME NEW x, x.at \in {"complete", "complete_insert", "complete_status", "ended", "cancel_status",
                            "fallback_status"}
    PROVE  Over(x)
BY DEF Over

\* A run ends with a result, before its event or its status.
EndsAt(x, p, q) == [x EXCEPT !.at = p, !.result = q]

\* The type of the record of such a run.
LEMMA EndsAtType ==
    ASSUME NEW x \in WorkType, x.job \in Jobs, NEW p \in {"insert", "status"},
           NEW q \in {"completed", "waiting", "failed", "error"}, p = "insert" => q # "error"
    PROVE  /\ EndsAt(x, p, q) \in WorkType /\ Positioned(EndsAt(x, p, q))
           /\ EndsAt(x, p, q).at = p /\ EndsAt(x, p, q).job = x.job
<1> DEFINE r == EndsAt(x, p, q)
<1>1. p \in Places /\ q \in Results
  BY DEF Places, Inserts, Results
<1>2. r \in WorkType /\ r.at = p /\ r.job = x.job /\ r.result = q
  BY <1>1 DEF WorkType, EndsAt
<1> HIDE DEF r
<1>3. Positioned(r)
  BY <1>2 DEF Positioned
<1> QED BY <1>2, <1>3 DEF r

\* The first steps of an execution, up to the end of the run.
LEMMA RunKeeps ==
    ASSUME Local, NEW w \in Workers, ExecuteGet(w) \/ ExecuteMark(w) \/ RunForJob(w)
    PROVE  Local' /\ \A j \in Jobs : Settled(j) => Settled(j)'
<1> DEFINE x == work[w]
<1>1. CASE ExecuteGet(w)
  <2> DEFINE n == retries[x.job]
             r == [x EXCEPT !.at = "mark", !.retry = n]
  <2>1. x \in WorkType /\ x.at = "get" /\ x.job \in Jobs /\ ~Over(x) /\ "mark" \in Places
    BY <1>1, PlaceFacts, Names DEF ExecuteGet
  <2>2. n \in 0..MaxAttempts
    BY <2>1 DEF Local, Typed
  <2>3. work' = [work EXCEPT ![w] = r]
    BY <1>1 DEF ExecuteGet
  <2>4. r \in WorkType /\ r.at = "mark" /\ r.job = x.job
    <3> HIDE DEF x, n
    <3> QED BY <2>1, <2>2 DEF WorkType
  <2> HIDE DEF r
  <2>5. Move(w, r)
    BY <2>1, <2>3, <2>4, Plain DEF Move
  <2>6. StoresTyped' /\ UNCHANGED << stream, fresh, claim, req >>
    BY <1>1, PlaceFacts DEF ExecuteGet, StoresTyped
  <2> QED BY <2>1, <2>4, <2>5, <2>6, Names, QuietKeeps
<1>2. CASE ExecuteMark(w)
  <2>1. /\ x.at = "mark" /\ Goto(w, "run") /\ UpdateStatus(x.job, "running")
        /\ UNCHANGED << retries, cancel, stream, fresh, ready, claim, req, faults >>
    BY <1>2 DEF ExecuteMark
  <2>2. x.job \in Jobs /\ ~Over(x)
    BY <2>1, PlaceFacts
  <2>3. PICK r : Move(w, r) /\ r.at = "run"
    BY <2>1, <2>2, Names, GotoMove
  <2>4. StoresTyped'
    BY <2>1, <2>2, PlaceFacts, Names, StatusTyped DEF StoresTyped
  <2> QED BY <2>1, <2>2, <2>3, <2>4, Names, QuietKeeps
<1>3. CASE RunForJob(w)
  <2>1. /\ x.at = "run"
        /\ UNCHANGED << status, retries, cancel, stream, ready, claim, req, faults >>
    BY <1>3 DEF RunForJob
  <2>2. x.job \in Jobs /\ ~Over(x) /\ x \in WorkType
    BY <2>1, PlaceFacts
  <2>3. CASE Return(w, "error") /\ UNCHANGED fresh
    <3>1. work' = [work EXCEPT ![w] = Returned(x, "error")]
      BY <2>3 DEF Return
    <3>2. Move(w, Returned(x, "error")) /\ Returned(x, "error").at = "ended"
      BY <2>2, <3>1, ReturnedType DEF Move
    <3>3. StoresTyped'
      BY <2>1, <2>3, PlaceFacts DEF StoresTyped
    <3> QED BY <2>1, <2>2, <2>3, <3>2, <3>3, Names, QuietKeeps
  <2>5. CASE work' = [work EXCEPT ![w].at = "status", ![w].result = "error"] /\ UNCHANGED fresh
    <3> DEFINE r == EndsAt(x, "status", "error")
    <3>1. work' = [work EXCEPT ![w] = r]
      BY <2>5 DEF EndsAt
    <3>2. r \in WorkType /\ Positioned(r) /\ r.at = "status"
      BY <2>2, EndsAtType
    <3> HIDE DEF r
    <3>3. Move(w, r)
      BY <3>1, <3>2 DEF Move
    <3>4. StoresTyped'
      BY <2>1, <2>5, PlaceFacts DEF StoresTyped
    <3> QED BY <2>1, <2>2, <2>5, <3>2, <3>3, <3>4, Names, QuietKeeps
  <2>6. ASSUME NEW q \in {"completed", "waiting", "failed"},
               AppendCheck(w, [x EXCEPT !.at = "insert", !.result = q], [x EXCEPT !.at = "status", !.result = q])
        PROVE  Local' /\ \A j \in Jobs : Settled(j) => Settled(j)'
    <3> DEFINE i == EndsAt(x, "insert", q)
               o == EndsAt(x, "status", q)
    <3>1. i \in WorkType /\ Positioned(i) /\ i.at = "insert" /\ i.job = x.job
      BY <2>2, <2>6, EndsAtType
    <3>2. o \in WorkType /\ Positioned(o) /\ o.at = "status"
      BY <2>2, <2>6, EndsAtType
    <3>3. AppendCheck(w, i, o)
      BY <2>6 DEF EndsAt
    <3> HIDE DEF i, o
    <3>4. "insert" \in Inserts
      BY DEF Inserts
    <3> QED BY <2>1, <2>2, <3>1, <3>2, <3>3, <3>4, Names, CheckKeeps
  <2> QED BY <1>3, <2>3, <2>5, <2>6 DEF RunForJob
<1> QED BY <1>1, <1>2, <1>3

\* The record of a worker in another place.
At(x, p) == [x EXCEPT !.at = p]

\* The type of that record.
LEMMA AtType ==
    ASSUME NEW x \in WorkType, x.job \in Jobs,
           NEW p \in {"complete_insert", "complete_status", "fail_insert", "fail_status", "requeue_insert"}
    PROVE  /\ At(x, p) \in WorkType /\ Positioned(At(x, p))
           /\ At(x, p).at = p /\ At(x, p).job = x.job
<1> DEFINE r == At(x, p)
<1>1. p \in Places
  BY DEF Places, Inserts
<1>2. r \in WorkType /\ r.at = p /\ r.job = x.job
  BY <1>1 DEF WorkType, At
<1> HIDE DEF r
<1>3. Positioned(r)
  BY <1>2, Plain
<1> QED BY <1>2, <1>3 DEF r

\* Return is a move to the end.
LEMMA ReturnMove ==
    ASSUME Local, NEW w \in Workers, work[w].job \in Jobs, NEW q, Return(w, q)
    PROVE  \E r : Move(w, r) /\ r.at = "ended" /\ Over(r)
<1>1. work[w] \in WorkType
  BY PlaceFacts
<1>2. work' = [work EXCEPT ![w] = Returned(work[w], q)]
  BY DEF Return
<1>3. Move(w, Returned(work[w], q)) /\ Returned(work[w], q).at = "ended"
  BY <1>1, <1>2, ReturnedType DEF Move
<1> QED BY <1>3, OverPlace

\* The event and the status that the runner writes at the end of the run.
LEMMA OutcomeKeeps ==
    ASSUME Local, NEW w \in Workers, RunInsert(w) \/ RunStatus(w)
    PROVE  Local' /\ \A j \in Jobs : Settled(j) => Settled(j)'
<1> DEFINE x == work[w]
<1>1. CASE RunInsert(w)
  <2>1. /\ x.at = "insert" /\ AppendInsert(w, x.result) /\ Goto(w, "status")
        /\ UNCHANGED << status, retries, cancel, ready, claim, req, faults >>
    BY <1>1 DEF RunInsert
  <2>2. x.job \in Jobs /\ x.result \in {"completed", "waiting", "failed"} /\ x.at \in Inserts
    BY <2>1, PlaceFacts DEF Inserts
  <2>3. PICK r : Move(w, r) /\ r.at = "status" /\ r.result = x.result
    BY <2>1, <2>2, Names, GotoMove
  <2>4. Over(x) => x.result = "completed" /\ Over(r)
    BY <2>1, <2>3, PlaceFacts DEF Over
  <2>5. x.result \in StreamStatuses
    BY <2>2, Names
  <2> QED BY <2>1, <2>2, <2>3, <2>4, <2>5, Names, InsertKeeps
<1>2. CASE RunStatus(w)
  <2>1. /\ x.at = "status" /\ AfterRun(w)
        /\ UNCHANGED << retries, cancel, stream, fresh, ready, claim, req, faults >>
    BY <1>2 DEF RunStatus
  <2>2. x.job \in Jobs /\ x.result \in Results /\ x.result # "none"
    BY <2>1, PlaceFacts, Fields
  <2>3. PICK r : /\ Move(w, r) /\ r.at \in {"ended", "complete", "fail", "requeue"}
                 /\ x.result = "completed" => r.at = "complete"
    BY <2>1, <2>2, AfterRunMove
  <2>4. status' \in [Jobs -> Statuses]
    <3> DEFINE s == IF x.result = "error" THEN "failed" ELSE x.result
    <3>1. s \in Statuses
      BY <2>2 DEF Results, Statuses, Terminal
    <3>2. UpdateStatusRun(w, s) \/ UNCHANGED status
      BY <1>2 DEF RunStatus
    <3> HIDE DEF s
    <3>3. Typed
      BY PlaceFacts
    <3> QED BY <2>2, <3>1, <3>2, <3>3, RunStatusTyped DEF Typed
  <2>5. StoresTyped'
    BY <2>1, <2>4, PlaceFacts DEF StoresTyped
  <2>6. Over(x) => Over(r)
    BY <2>1, <2>3, PlaceFacts, OverPlace
  <2> QED BY <2>1, <2>3, <2>5, <2>6, Names, QuietKeeps
<1> QED BY <1>1, <1>2

\* The terminal event and the status that runJob adds.
LEMMA RunJobKeeps ==
    ASSUME Local, NEW w \in Workers, RunJobEvent(w) \/ RunJobInsert(w) \/ RunJobStatus(w)
    PROVE  Local' /\ \A j \in Jobs : Settled(j) => Settled(j)'
<1> DEFINE x == work[w]
<1>1. CASE RunJobEvent(w)
  <2> DEFINE p == IF x.at = "complete" THEN "complete_insert" ELSE "fail_insert"
             q == IF x.at = "complete" THEN "complete_status" ELSE "fail_status"
  <2>1. /\ x.at \in {"complete", "fail"}
        /\ \/ Goto(w, q) /\ UNCHANGED fresh
           \/ AppendCheck(w, [x EXCEPT !.at = p], [x EXCEPT !.at = q])
        /\ UNCHANGED << status, retries, cancel, stream, ready, claim, req, faults >>
    BY <1>1 DEF RunJobEvent
  <2>2. x.job \in Jobs /\ x \in WorkType /\ (Over(x) => x.at = "complete")
    BY <2>1, PlaceFacts
  <2>3. /\ p \in {"complete_insert", "fail_insert"} /\ q \in {"complete_status", "fail_status"}
        /\ Over(x) => p = "complete_insert" /\ q = "complete_status"
    BY <2>2
  <2> HIDE DEF p, q
  <2>4. CASE Goto(w, q) /\ UNCHANGED fresh
    <3>1. PICK r : Move(w, r) /\ r.at = q
      BY <2>2, <2>3, <2>4, Names, GotoMove
    <3>2. StoresTyped'
      BY <2>1, <2>4, PlaceFacts DEF StoresTyped
    <3>3. Over(x) => Over(r)
      BY <2>3, <3>1, OverPlace
    <3> QED BY <2>1, <2>3, <2>4, <3>1, <3>2, <3>3, Names, QuietKeeps
  <2>5. CASE AppendCheck(w, [x EXCEPT !.at = p], [x EXCEPT !.at = q])
    <3> DEFINE i == At(x, p)
               o == At(x, q)
    <3>1. AppendCheck(w, i, o)
      BY <2>5 DEF At
    <3>2. i \in WorkType /\ Positioned(i) /\ i.at = p /\ i.job = x.job
      BY <2>2, <2>3, AtType
    <3>3. o \in WorkType /\ Positioned(o) /\ o.at = q
      BY <2>2, <2>3, AtType
    <3> HIDE DEF i, o
    <3>4. p \in Inserts
      BY <2>3 DEF Inserts
    <3>5. Over(x) => Over(i) /\ Over(o)
      BY <2>3, <3>2, <3>3, OverPlace
    <3> QED BY <2>1, <2>2, <2>3, <3>1, <3>2, <3>3, <3>4, <3>5, Names, CheckKeeps
  <2> QED BY <2>1, <2>4, <2>5
<1>2. CASE RunJobInsert(w)
  <2> DEFINE s == IF x.at = "complete_insert" THEN "completed" ELSE "failed"
             q == IF x.at = "complete_insert" THEN "complete_status" ELSE "fail_status"
  <2>1. /\ x.at \in {"complete_insert", "fail_insert"} /\ AppendInsert(w, s) /\ Goto(w, q)
        /\ UNCHANGED << status, retries, cancel, ready, claim, req, faults >>
    BY <1>2 DEF RunJobInsert
  <2>2. x.job \in Jobs /\ x.at \in Inserts /\ (Over(x) => x.at = "complete_insert")
    BY <2>1, PlaceFacts DEF Inserts
  <2>3. /\ s \in StreamStatuses /\ q \in {"complete_status", "fail_status"}
        /\ Over(x) => s = "completed" /\ q = "complete_status"
    BY <2>2, Names
  <2> HIDE DEF s, q
  <2>4. PICK r : Move(w, r) /\ r.at = q
    BY <2>1, <2>2, <2>3, Names, GotoMove
  <2>5. Over(x) => Over(r)
    BY <2>3, <2>4, OverPlace
  <2> QED BY <2>1, <2>2, <2>3, <2>4, <2>5, Names, InsertKeeps
<1>3. CASE RunJobStatus(w)
  <2> DEFINE s == IF x.at = "complete_status" THEN "completed" ELSE "failed"
  <2>1. /\ x.at \in {"complete_status", "fail_status"} /\ UpdateStatusRun(w, s)
        /\ Return(w, x.result)
        /\ UNCHANGED << retries, cancel, stream, fresh, ready, claim, req, faults >>
    BY <1>3 DEF RunJobStatus
  <2>2. x.job \in Jobs /\ s \in Statuses
    BY <2>1, PlaceFacts, Names
  <2> HIDE DEF s
  <2>3. PICK r : Move(w, r) /\ r.at = "ended" /\ Over(r)
    BY <2>1, <2>2, ReturnMove
  <2>4. StoresTyped'
    BY <2>1, <2>2, PlaceFacts, RunStatusTyped DEF StoresTyped
  <2> QED BY <2>1, <2>3, <2>4, Names, QuietKeeps
<1> QED BY <1>1, <1>2, <1>3

\* A failed run that is put back.
LEMMA RequeueKeeps ==
    ASSUME Local, NEW w \in Workers,
           RunJobRequeue(w) \/ RunJobRequeueEvent(w) \/ RunJobRequeued(w)
    PROVE  Local' /\ \A j \in Jobs : Settled(j) => Settled(j)'
<1> DEFINE x == work[w]
<1>1. CASE RunJobRequeue(w)
  <2>1. x.at = "requeue" /\ UNCHANGED << cancel, stream, fresh, ready, claim, req, faults >>
    BY <1>1 DEF RunJobRequeue
  <2>2. x.job \in Jobs /\ ~Over(x) /\ x.retry \in 0..MaxAttempts /\ Typed
    BY <2>1, PlaceFacts, Fields
  <2>3. CASE Requeue(x.job, x.retry) /\ Goto(w, "requeue_event")
    <3>1. PICK r : Move(w, r) /\ r.at = "requeue_event"
      BY <2>2, <2>3, Names, GotoMove
    <3>2. StoresTyped'
      BY <2>1, <2>2, <2>3, PlaceFacts, RequeueTyped DEF StoresTyped
    <3> QED BY <2>1, <2>2, <3>1, <3>2, Names, QuietKeeps
  <2>4. CASE Return(w, "error") /\ UNCHANGED << status, retries >>
    <3>1. PICK r : Move(w, r) /\ r.at = "ended" /\ Over(r)
      BY <2>2, <2>4, ReturnMove
    <3>2. StoresTyped'
      BY <2>1, <2>4, PlaceFacts DEF StoresTyped
    <3> QED BY <2>1, <3>1, <3>2, Names, QuietKeeps
  <2> QED BY <1>1, <2>3, <2>4 DEF RunJobRequeue
<1>2. CASE RunJobRequeueEvent(w)
  <2> DEFINE i == At(x, "requeue_insert")
             o == Returned(x, "error")
  <2>1. /\ x.at = "requeue_event" /\ AppendCheck(w, i, o)
        /\ UNCHANGED << status, retries, cancel, stream, ready, claim, req, faults >>
    BY <1>2 DEF RunJobRequeueEvent, At
  <2>2. x.job \in Jobs /\ ~Over(x) /\ x \in WorkType
    BY <2>1, PlaceFacts
  <2>3. i \in WorkType /\ Positioned(i) /\ i.at = "requeue_insert" /\ i.job = x.job
    BY <2>2, AtType
  <2>4. o \in WorkType /\ Positioned(o) /\ o.at = "ended"
    BY <2>2, ReturnedType
  <2> HIDE DEF i, o
  <2>5. "requeue_insert" \in Inserts
    BY DEF Inserts
  <2> QED BY <2>1, <2>2, <2>3, <2>4, <2>5, Names, CheckKeeps
<1>3. CASE RunJobRequeued(w)
  <2>1. /\ x.at = "requeue_insert" /\ AppendInsert(w, "pending") /\ Return(w, "error")
        /\ UNCHANGED << status, retries, cancel, ready, claim, req, faults >>
    BY <1>3 DEF RunJobRequeued
  <2>2. x.job \in Jobs /\ ~Over(x) /\ x.at \in Inserts
    BY <2>1, PlaceFacts DEF Inserts
  <2>3. PICK r : Move(w, r) /\ r.at = "ended"
    BY <2>1, <2>2, ReturnMove
  <2> QED BY <2>1, <2>2, <2>3, Names, InsertKeeps
<1> QED BY <1>1, <1>2, <1>3

\* A fault is counted.
LEMMA FaultTyped ==
    ASSUME faults \in 0..MaxFaults, Fault
    PROVE  faults' \in 0..MaxFaults
BY JobLifecycleAssumption DEF Fault

\* A cancelled context, the end of executeJob, and a crash.
LEMMA EndingKeeps ==
    ASSUME Local, NEW w \in Workers,
           CancelPoll(w) \/ ExecuteEnded(w) \/ ExecuteStatus(w) \/ Crash(w)
    PROVE  Local' /\ \A j \in Jobs : Settled(j) => Settled(j)'
<1> DEFINE x == work[w]
<1>1. CASE CancelPoll(w)
  <2> DEFINE r == [x EXCEPT !.cancelled = TRUE]
  <2>1. /\ work' = [work EXCEPT ![w] = r] /\ x.at # "upsert"
        /\ UNCHANGED << status, retries, cancel, stream, fresh, ready, claim, req, faults >>
    BY <1>1 DEF CancelPoll
  <2>2. x \in WorkType /\ StoresTyped /\ Positioned(x)
    BY PlaceFacts DEF Local
  <2>3. r \in WorkType /\ r.at = x.at /\ r.job = x.job /\ r.result = x.result /\ r.derived = x.derived
    <3>1. TRUE \in BOOLEAN
      OBVIOUS
    <3> HIDE DEF x
    <3> QED BY <2>2, <3>1 DEF WorkType
  <2> HIDE DEF r
  <2>4. Move(w, r) /\ (Over(x) => Over(r))
    BY <2>1, <2>2, <2>3 DEF Move, Positioned, Over
  <2>5. StoresTyped'
    BY <2>1, <2>2 DEF StoresTyped
  <2>6. ASSUME NEW j \in Jobs, Settled(j)
        PROVE  Settled(j)'
    <3>1. r.at \in Inserts /\ r.job = j /\ w \in fresh[j] => Inserting(w, j)
      BY <2>3 DEF Inserting, Inserts
    <3> QED BY <2>1, <2>3, <2>4, <2>6, <3>1, SettledMove
  <2> QED BY <2>1, <2>4, <2>5, <2>6, LocalMove
<1>2. CASE ExecuteEnded(w)
  <2>1. x.at = "ended" /\ UNCHANGED << status, retries, cancel, stream, fresh, ready, req, faults >>
    BY <1>2 DEF ExecuteEnded
  <2>2. x.job \in Jobs /\ StoresTyped
    BY <2>1, PlaceFacts
  <2>3. ASSUME NEW p \in {"cancel_status", "fallback_status"}, Begins(w, p, x.job), UNCHANGED claim
        PROVE  Local' /\ \A j \in Jobs : Settled(j) => Settled(j)'
    <3>1. PICK r : Move(w, r) /\ r.at = p
      BY <2>2, <2>3, BeginMove
    <3>2. StoresTyped'
      BY <2>1, <2>2, <2>3 DEF StoresTyped
    <3>3. Over(r)
      BY <2>3, <3>1, OverPlace
    <3> QED BY <2>1, <2>3, <3>1, <3>2, <3>3, Names, QuietKeeps
  <2>4. CASE work' = [work EXCEPT ![w] = Idle] /\ claim' = Abandoned(w)
    <3>1. claim' \in [Jobs -> ClaimType] => StoresTyped'
      BY <2>1, <2>2 DEF StoresTyped
    <3> QED BY <2>1, <2>4, <3>1, EndKeeps
  <2> QED BY <1>2, <2>3, <2>4 DEF ExecuteEnded, Begins
<1>3. CASE ExecuteStatus(w)
  <2> DEFINE s == IF x.at = "cancel_status" THEN "cancelled" ELSE "failed"
  <2>1. /\ x.at \in {"cancel_status", "fallback_status"} /\ UpdateStatus(x.job, s)
        /\ work' = [work EXCEPT ![w] = Idle] /\ claim' = Abandoned(w)
        /\ UNCHANGED << retries, cancel, stream, fresh, ready, req, faults >>
    BY <1>3 DEF ExecuteStatus
  <2>2. x.job \in Jobs /\ s \in Statuses /\ StoresTyped /\ Typed
    BY <2>1, PlaceFacts, Names
  <2> HIDE DEF s
  <2>3. claim' \in [Jobs -> ClaimType] => StoresTyped'
    BY <2>1, <2>2, StatusTyped DEF StoresTyped
  <2> QED BY <2>1, <2>3, EndKeeps
<1>4. CASE Crash(w)
  <2>1. /\ work' = [work EXCEPT ![w] = Idle] /\ claim' = Abandoned(w) /\ Fault
        /\ fresh' = [j \in Jobs |-> fresh[j] \ {w}]
        /\ UNCHANGED << status, retries, cancel, stream, ready, req >>
    BY <1>4 DEF Crash
  <2>2. faults' \in 0..MaxFaults
    BY <2>1, FaultTyped DEF Local, Typed
  <2>3. /\ fresh' \in [Jobs -> SUBSET (Workers \cup Clients)]
        /\ \A j \in Jobs : fresh'[j] \subseteq fresh[j]
    BY <2>1 DEF Local, Typed
  <2>4. claim' \in [Jobs -> ClaimType] => StoresTyped'
    BY <2>1, <2>2, <2>3, PlaceFacts DEF StoresTyped
  <2> QED BY <2>1, <2>3, <2>4, EndKeeps
<1> QED BY <1>1, <1>2, <1>3, <1>4

\* The events of the nodes of a run: their execution holds the lease and is not over.
LEMMA NodeKeeps ==
    ASSUME Local, NEW w \in Workers, RunNodeEvent(w)
    PROVE  Local' /\ \A j \in Jobs : Settled(j) => Settled(j)'
<1> DEFINE k == work[w].job
           s == stream[k].status
<1>1. /\ work[w].at = "run" /\ claim[k].holder = w /\ Store(k, s, "other")
      /\ UNCHANGED << status, retries, cancel, ready, claim, work, req, faults >>
  BY DEF RunNodeEvent, MayAppend, Holds
<1>2. k \in Jobs /\ ~Over(work[w]) /\ Typed
  BY <1>1, PlaceFacts
<1>3. s \in StreamStatuses /\ "other" \in Lasts
  BY <1>2 DEF Typed, StreamType, Lasts
<1>4. /\ stream' \in [Jobs -> StreamType]
      /\ fresh' \in [Jobs -> SUBSET (Workers \cup Clients)]
      /\ \A j \in Jobs : j # k => stream'[j] = stream[j]
      /\ \A j \in Jobs : fresh'[j] \subseteq fresh[j]
  <2> HIDE DEF k, s
  <2> QED BY <1>1, <1>2, <1>3, StoreEffect
<1>5. Local'
  BY <1>1, <1>4 DEF Local, Typed, Positioned
<1>6. ASSUME NEW j \in Jobs, Settled(j)
      PROVE  Settled(j)'
  <2>1. j # k
    BY <1>1, <1>2, <1>6 DEF Settled
  <2> QED BY <1>1, <1>4, <1>6, <2>1, SettledStay
<1> QED BY <1>5, <1>6

\* The leases, the plan and the cancel request.
LEMMA OtherKeeps ==
    ASSUME Local, NEW k \in Jobs,
           \/ (\E w \in Workers : Heartbeat(w, k))
           \/ Expire(k) \/ PlanReady(k) \/ JobStop(k)
    PROVE  Local' /\ \A j \in Jobs : Settled(j) => Settled(j)'
<1>1. faults \in 0..MaxFaults /\ claim \in [Jobs -> ClaimType]
  BY DEF Local, Typed
<1>2. UNCHANGED << status, retries, stream, fresh, work, req >>
  BY DEF Heartbeat, Expire, PlanReady, JobStop
<1>3. faults' \in 0..MaxFaults
  BY <1>1, FaultTyped DEF Heartbeat, Expire, PlanReady, JobStop
<1>4. cancel' \subseteq Jobs /\ ready' \subseteq Jobs
  BY DEF Local, Typed, Heartbeat, Expire, PlanReady, JobStop
<1>5. ASSUME NEW l \in {"live", "expired"}, claim' = [claim EXCEPT ![k].lease = l]
      PROVE  /\ claim' \in [Jobs -> ClaimType]
             /\ \A j \in Jobs : claim'[j].holder = claim[j].holder
  BY <1>1, <1>5 DEF ClaimType
<1>6. \/ UNCHANGED claim
      \/ claim' = [claim EXCEPT ![k].lease = "live"]
      \/ claim' = [claim EXCEPT ![k].lease = "expired"]
  BY DEF Heartbeat, Expire, PlanReady, JobStop
<1>7. claim' \in [Jobs -> ClaimType] /\ \A j \in Jobs : claim'[j].holder = claim[j].holder
  BY <1>1, <1>5, <1>6
<1>8. Local'
  BY <1>2, <1>3, <1>4, <1>7 DEF Local, Typed, Positioned
<1>9. ASSUME NEW j \in Jobs, Settled(j)
      PROVE  Settled(j)'
  BY <1>2, <1>7, <1>9, SettledStay
<1> QED BY <1>8, <1>9

\* The request of client c becomes r.
LEMMA RequestTyped ==
    ASSUME Local, NEW c \in Clients, NEW r \in ReqType,
           r.at \in {"list", "append", "status"} => r.job \in Jobs,
           req' = [req EXCEPT ![c] = r]
    PROVE  /\ req' \in [Clients -> ReqType]
           /\ \A d \in Clients : req'[d].at \in {"list", "append", "status"} => req'[d].job \in Jobs
BY DEF Local, Typed

\* Typed stores and unchanged workers.
LEMMA LocalStay ==
    ASSUME Local, UNCHANGED work, StoresTyped',
           \A d \in Clients : req'[d].at \in {"list", "append", "status"} => req'[d].job \in Jobs
    PROVE  Local'
BY DEF Local, Typed, Positioned, StoresTyped

\* The steps of a signal up to its append.
LEMMA SignalKeeps ==
    ASSUME Local, NEW c \in Clients,
           \/ (\E k \in Jobs : SignalGet(c, k))
           \/ SignalList(c) \/ SignalStatus(c) \/ CrashApi(c)
    PROVE  Local' /\ \A j \in Jobs : Settled(j) => Settled(j)'
<1> DEFINE x == req[c]
<1>1. /\ x \in ReqType /\ StoresTyped /\ Typed
      /\ x.at \in {"list", "append", "status"} => x.job \in Jobs
  BY DEF Local, Typed, StoresTyped
<1>2. /\ NoRequest \in ReqType /\ NoRequest.at = "idle"
      /\ Arrived \in ReqType /\ Arrived.at = "done"
  BY DEF NoRequest, Arrived, ReqType
<1>3. /\ req' \in [Clients -> ReqType]
      /\ \A d \in Clients : req'[d].at \in {"list", "append", "status"} => req'[d].job \in Jobs
  <2>1. ASSUME NEW k \in Jobs, SignalGet(c, k)
        PROVE  \E r \in ReqType : /\ r.at \in {"list", "append", "status"} => r.job \in Jobs
                                  /\ req' = [req EXCEPT ![c] = r]
    <3> DEFINE r == [at |-> "list", job |-> k]
    <3>1. r \in ReqType /\ r.job \in Jobs
      BY DEF ReqType
    <3>2. req' = [req EXCEPT ![c] = r]
      BY <2>1 DEF SignalGet
    <3> HIDE DEF r
    <3> QED BY <3>1, <3>2
  <2>2. ASSUME req' = [req EXCEPT ![c].at = "append"], x.job \in Jobs
        PROVE  \E r \in ReqType : /\ r.at \in {"list", "append", "status"} => r.job \in Jobs
                                  /\ req' = [req EXCEPT ![c] = r]
    <3> DEFINE r == [x EXCEPT !.at = "append"]
    <3>1. req' = [req EXCEPT ![c] = r]
      BY <2>2
    <3>2. r \in ReqType /\ r.job \in Jobs
      <4> HIDE DEF x
      <4> QED BY <1>1, <2>2 DEF ReqType
    <3> HIDE DEF r
    <3> QED BY <3>1, <3>2
  <2>3. \/ \E k \in Jobs : SignalGet(c, k)
        \/ req' = [req EXCEPT ![c].at = "append"] /\ x.at = "list"
        \/ req' = [req EXCEPT ![c] = NoRequest]
        \/ req' = [req EXCEPT ![c] = Arrived]
    BY DEF SignalList, SignalStatus, CrashApi
  <2> QED BY <1>1, <1>2, <2>1, <2>2, <2>3, RequestTyped
<1>4. UNCHANGED << retries, cancel, stream, ready, claim, work >>
  BY DEF SignalGet, SignalList, SignalStatus, CrashApi
<1>5. status' \in [Jobs -> Statuses]
  <2>1. UNCHANGED status \/ (UpdateStatus(x.job, "pending") /\ x.at = "status")
    BY DEF SignalGet, SignalList, SignalStatus, CrashApi
  <2> HIDE DEF x
  <2> QED BY <1>1, <2>1, Names, StatusTyped DEF Typed
<1>6. faults' \in 0..MaxFaults
  BY <1>1, FaultTyped DEF StoresTyped, SignalGet, SignalList, SignalStatus, CrashApi
<1>7. /\ fresh' \in [Jobs -> SUBSET (Workers \cup Clients)]
      /\ \A j \in Jobs : fresh'[j] \cap Workers \subseteq fresh[j]
  <2>1. UNCHANGED fresh \/ (fresh' = [fresh EXCEPT ![x.job] = @ \cup {c}] /\ x.at = "list")
    BY DEF SignalGet, SignalList, SignalStatus, CrashApi
  <2>2. c \notin Workers
    BY JobLifecycleAssumption
  <2> HIDE DEF x
  <2> QED BY <1>1, <2>1, <2>2 DEF StoresTyped
<1>8. StoresTyped'
  BY <1>1, <1>3, <1>4, <1>5, <1>6, <1>7 DEF StoresTyped
<1>9. ASSUME NEW j \in Jobs, Settled(j)
      PROVE  Settled(j)'
  BY <1>4, <1>7, <1>9, SettledStay
<1> QED BY <1>3, <1>4, <1>8, <1>9, LocalStay

\* The appends of the API leave the other jobs settled.
LEMMA ApiAppendKeeps ==
    ASSUME Local, NEW k \in Jobs,
           \/ JobMessage(k)
           \/ \E c \in Clients : req[c].job = k /\ SignalAppend(c)
    PROVE  Local' /\ \A j \in Jobs : j # k /\ Settled(j) => Settled(j)'
<1>1. Typed /\ StoresTyped /\ "other" \in Lasts /\ "answered" \in Lasts /\ "pending" \in StreamStatuses
  BY DEF Local, Typed, StoresTyped, Lasts, StreamStatuses
<1>2. stream[k].status \in StreamStatuses
  BY <1>1 DEF Typed, StreamType
<1>3. UNCHANGED << status, retries, cancel, ready, claim, work >>
  BY DEF JobMessage, SignalAppend
<1>4. \/ \E s \in StreamStatuses, l \in Lasts : Store(k, s, l)
      \/ UNCHANGED << stream, fresh >>
  BY <1>1, <1>2 DEF JobMessage, SignalAppend
<1>5. /\ stream' \in [Jobs -> StreamType]
      /\ fresh' \in [Jobs -> SUBSET (Workers \cup Clients)]
      /\ \A j \in Jobs : j # k => stream'[j] = stream[j]
      /\ \A j \in Jobs : fresh'[j] \subseteq fresh[j]
  BY <1>1, <1>4, StoreEffect DEF Typed
<1>6. faults' \in 0..MaxFaults
  BY <1>1, FaultTyped DEF StoresTyped, JobMessage, SignalAppend
<1>7. /\ req' \in [Clients -> ReqType]
      /\ \A d \in Clients : req'[d].at \in {"list", "append", "status"} => req'[d].job \in Jobs
  <2>1. CASE JobMessage(k)
    BY <2>1 DEF JobMessage, Local, Typed
  <2>2. ASSUME NEW c \in Clients, req[c].job = k, SignalAppend(c)
        PROVE  /\ req' \in [Clients -> ReqType]
               /\ \A d \in Clients : req'[d].at \in {"list", "append", "status"} => req'[d].job \in Jobs
    <3> DEFINE x == req[c]
               r == [x EXCEPT !.at = "status"]
    <3>1. x \in ReqType /\ NoRequest \in ReqType /\ NoRequest.at = "idle" /\ x.job = k
      BY <1>1, <2>2 DEF Typed, NoRequest, ReqType
    <3>2. req' = [req EXCEPT ![c] = r] \/ req' = [req EXCEPT ![c] = NoRequest]
      BY <2>2 DEF SignalAppend
    <3>3. r \in ReqType /\ r.job \in Jobs
      <4> HIDE DEF x
      <4> QED BY <3>1 DEF ReqType
    <3> HIDE DEF r
    <3> QED BY <3>1, <3>2, <3>3, RequestTyped
  <2> QED BY <2>1, <2>2
<1>8. Local'
  BY <1>1, <1>3, <1>5, <1>6, <1>7, LocalStay DEF StoresTyped
<1>9. ASSUME NEW j \in Jobs, j # k, Settled(j)
      PROVE  Settled(j)'
  BY <1>3, <1>5, <1>9, SettledStay
<1> QED BY <1>8, <1>9

-----------------------------------------------------------------------------
(* The theorems *)

\* Every step keeps the invariant, and a settled job but for the appends of the API.
LEMMA StepKeeps ==
    ASSUME Local, [Next]_vars
    PROVE  Local' /\ SettledKept
<1>1. ASSUME Local' /\ \A j \in Jobs : Settled(j) => Settled(j)'
      PROVE  Local' /\ SettledKept
  BY <1>1 DEF SettledKept
<1>2. ASSUME NEW w \in Workers, WorkerStep(w) \/ RunNodeEvent(w) \/ CancelPoll(w) \/ Crash(w)
      PROVE  Local' /\ \A j \in Jobs : Settled(j) => Settled(j)'
  BY <1>2, ClaimKeeps, RunKeeps, OutcomeKeeps, RunJobKeeps, RequeueKeeps, EndingKeeps, NodeKeeps
     DEF WorkerStep
<1>3. ASSUME NEW k \in Jobs,
             (\E w \in Workers : Heartbeat(w, k)) \/ Expire(k) \/ PlanReady(k) \/ JobStop(k)
      PROVE  Local' /\ \A j \in Jobs : Settled(j) => Settled(j)'
  BY <1>3, OtherKeeps
<1>4. ASSUME NEW c \in Clients,
             (\E k \in Jobs : SignalGet(c, k)) \/ SignalList(c) \/ SignalStatus(c) \/ CrashApi(c)
      PROVE  Local' /\ \A j \in Jobs : Settled(j) => Settled(j)'
  BY <1>4, SignalKeeps
<1>5. ASSUME NEW k \in Jobs, JobMessage(k)
      PROVE  Local' /\ SettledKept
  BY <1>5, ApiAppendKeeps DEF SettledKept, ApiAppend
<1>6. ASSUME NEW c \in Clients, SignalAppend(c)
      PROVE  Local' /\ SettledKept
  <2>1. req[c].job \in Jobs
    BY <1>6 DEF Local, SignalAppend
  <2> QED BY <1>6, <2>1, ApiAppendKeeps DEF SettledKept, ApiAppend
<1>7. CASE UNCHANGED vars
  <2>1. Local'
    BY <1>7 DEF Local, Typed, Positioned, vars
  <2>2. ASSUME NEW j \in Jobs, Settled(j)
        PROVE  Settled(j)'
    BY <1>7, <2>2, SettledStay DEF vars
  <2> QED BY <1>1, <2>1, <2>2
<1>8. CASE Next
  BY <1>1, <1>2, <1>3, <1>4, <1>5, <1>6, <1>8 DEF Next
<1> QED BY <1>7, <1>8

\* The invariant holds of every behaviour.
LEMMA LocalInvariant == Spec => []Local
<1>1. Local /\ [Next]_vars => Local'
  BY StepKeeps
<1> QED BY LocalInit, <1>1, PTL DEF Spec

\* The stores, the leases, the workers and the requests keep their types, for any
\* number of jobs, workers, clients, attempts and faults.
THEOREM TypeCorrect == Spec => []TypeOK
<1>1. Local => TypeOK
  BY Fields DEF Local, Typed, TypeOK, StreamType, StreamStatuses, Lasts, ClaimType, ReqType
<1> QED BY LocalInvariant, <1>1, PTL

\* No claim, append, retry, reclaim, cancellation, crash or expired lease of any
\* number of workers reopens a job that is completed while nobody is in the window
\* of a claim or of an append to it: the API's unfenced appends are the only ones
\* that do.
THEOREM CompletedStaysFinal == Spec => CompletedFinal
<1>1. Local /\ [Next]_vars => [SettledKept]_vars
  BY StepKeeps
<1> QED BY LocalInvariant, <1>1, PTL DEF Spec, CompletedFinal
=============================================================================
