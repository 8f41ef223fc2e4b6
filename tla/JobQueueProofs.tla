--------------------------- MODULE JobQueueProofs ---------------------------
(***************************************************************************)
(* Proofs about JobQueue, for any jobs, priorities, keys, requests, limits *)
(* of concurrency, retries and buffer: the shape of the store and the      *)
(* count of the limiter, the agreement of status and queue, and that a job *)
(* which requests leave alone is run by one goroutine at a time, at most   *)
(* RetryMax + 1 times.                                                     *)
(***************************************************************************)
EXTENDS JobQueue, TLAPS, FiniteSetTheorems, SequenceTheorems

-----------------------------------------------------------------------------
(* Operators: the best candidate, and the queue without it *)

\* A nonempty set of natural numbers has a least element.
LEMMA LeastNat ==
    ASSUME NEW S \in SUBSET Nat, S # {}
    PROVE  \E n \in S : \A m \in S : n <= m
<1> DEFINE R == OpToRel(<, Nat)
<1>1. R = {ss \in Nat \X Nat : ss[1] < ss[2]}
  BY Zenon DEF OpToRel
<1>2. IsWellFoundedOn(R, Nat)
  BY NatLessThanWellFounded
<1> HIDE DEF R
<1>3. PICK n \in S : \A m \in S : << m, n >> \notin R
  BY <1>2, WFMin
<1>4. ASSUME NEW m \in S
      PROVE  n <= m
  <2>1. << m, n >> \in Nat \X Nat /\ << m, n >>[1] = m /\ << m, n >>[2] = n /\ << m, n >> \notin R
    BY <1>3
  <2>2. ~ (m < n)
    BY <1>1, <2>1
  <2> QED BY <2>2
<1> QED BY <1>3, <1>4

\* Among finitely many indices one has the highest priority, and of those the
\* first: the one with the fewest better ones has none.
LEMMA BestExists ==
    ASSUME NEW n \in Nat, NEW C \in SUBSET (1..n), C # {}, NEW p \in [C -> Int]
    PROVE  \E i \in C : \A k \in C : p[i] > p[k] \/ (p[i] = p[k] /\ i <= k)
<1> DEFINE Better(i) == {k \in C : p[k] > p[i] \/ (p[k] = p[i] /\ k < i)}
           N == {Cardinality(Better(i)) : i \in C}
<1>1. IsFiniteSet(C)
  <2>1. IsFiniteSet(1..n)
    BY FS_Interval
  <2> QED BY <2>1, FS_Subset
<1>2. ASSUME NEW i \in C
      PROVE  IsFiniteSet(Better(i)) /\ Cardinality(Better(i)) \in Nat
  <2>1. Better(i) \in SUBSET C
    OBVIOUS
  <2> HIDE DEF Better
  <2>2. IsFiniteSet(Better(i))
    BY <1>1, <2>1, FS_Subset
  <2> QED BY <2>2, FS_CardinalityType
<1>3. N \in SUBSET Nat /\ N # {}
  BY <1>2
<1>4. PICK i \in C : \A k \in C : Cardinality(Better(i)) <= Cardinality(Better(k))
  <2>1. PICK c \in N : \A m \in N : c <= m
    <3> HIDE DEF N
    <3> QED BY <1>3, LeastNat
  <2> HIDE DEF Better
  <2>2. PICK i \in C : c = Cardinality(Better(i))
    BY <2>1
  <2> QED BY <2>1, <2>2
<1>5. ASSUME NEW k \in Better(i)
      PROVE  FALSE
  <2>1. k \in C /\ k \in Int /\ i \in Int /\ k \notin Better(k)
    OBVIOUS
  <2>2. Better(k) \in SUBSET Better(i)
    <3> SUFFICES ASSUME NEW m \in Better(k)
                 PROVE  m \in Better(i)
      OBVIOUS
    <3>1. m \in C /\ m \in Int /\ p[m] \in Int /\ p[k] \in Int /\ p[i] \in Int
      OBVIOUS
    <3>2. (p[m] > p[k] \/ (p[m] = p[k] /\ m < k)) /\ (p[k] > p[i] \/ (p[k] = p[i] /\ k < i))
      OBVIOUS
    <3>3. p[m] > p[i] \/ (p[m] = p[i] /\ m < i)
      BY <2>1, <3>1, <3>2
    <3> QED BY <3>1, <3>3
  <2> HIDE DEF Better
  <2>3. /\ Cardinality(Better(k)) <= Cardinality(Better(i))
        /\ Cardinality(Better(i)) = Cardinality(Better(k)) => Better(i) = Better(k)
    BY <1>2, <2>2, FS_Subset
  <2>4. Cardinality(Better(i)) # Cardinality(Better(k))
    BY <1>5, <2>1, <2>3
  <2> QED BY <1>2, <1>4, <2>1, <2>3, <2>4
<1>6. \A k \in C : p[k] \in Int /\ k \in Int
  OBVIOUS
<1>7. \A k \in C : ~ (p[k] > p[i] \/ (p[k] = p[i] /\ k < i))
  BY <1>5
<1> QED BY <1>6, <1>7

\* An entry of the queue is only removed by its index.
LEMMA WithoutFacts ==
    ASSUME NEW S, NEW s \in Seq(S), NEW i \in 1..Len(s)
    PROVE  /\ Without(s, i) \in Seq(S)
           /\ \A k \in 1..Len(s) : k # i => \E m \in 1..Len(Without(s, i)) : Without(s, i)[m] = s[k]
<1> DEFINE a == SubSeq(s, 1, i - 1)
           b == SubSeq(s, i + 1, Len(s))
<1>1. /\ a \in Seq(S) /\ Len(a) = i - 1
      /\ \A k \in 1..(i - 1) : a[k] = s[k]
  OBVIOUS
<1>2. /\ b \in Seq(S) /\ Len(b) = Len(s) - i
      /\ \A k \in 1..(Len(s) - i) : b[k] = s[i + k]
  OBVIOUS
<1>3. Without(s, i) = a \o b
  BY DEF Without
<1> HIDE DEF a, b
<1>4. /\ a \o b \in Seq(S) /\ Len(a \o b) = Len(s) - 1
      /\ \A k \in 1..(i - 1) : (a \o b)[k] = s[k]
      /\ \A k \in 1..(Len(s) - i) : (a \o b)[(i - 1) + k] = s[i + k]
  <2>1. /\ a \o b \in Seq(S) /\ Len(a \o b) = Len(a) + Len(b)
        /\ \A k \in 1..(Len(a) + Len(b)) : (a \o b)[k] = IF k <= Len(a) THEN a[k] ELSE b[k - Len(a)]
    BY <1>1, <1>2, ConcatProperties
  <2>2. ASSUME NEW k \in 1..(i - 1)
        PROVE  (a \o b)[k] = s[k]
    BY <1>1, <1>2, <2>1
  <2>3. ASSUME NEW k \in 1..(Len(s) - i)
        PROVE  (a \o b)[(i - 1) + k] = s[i + k]
    <3>1. (i - 1) + k \in 1..(Len(a) + Len(b)) /\ ~ ((i - 1) + k <= Len(a)) /\ ((i - 1) + k) - Len(a) = k
      BY <1>1, <1>2
    <3> QED BY <1>2, <2>1, <3>1
  <2> QED BY <1>1, <1>2, <2>1, <2>2, <2>3
<1>5. ASSUME NEW k \in 1..Len(s), k # i
      PROVE  \E m \in 1..Len(a \o b) : (a \o b)[m] = s[k]
  <2>1. CASE k < i
    <3>1. k \in 1..(i - 1) /\ k \in 1..Len(a \o b)
      BY <1>4, <2>1
    <3> QED BY <1>4, <3>1
  <2>2. CASE k > i
    <3>1. k - i \in 1..(Len(s) - i) /\ (i - 1) + (k - i) \in 1..Len(a \o b) /\ i + (k - i) = k
      BY <1>4, <2>2
    <3> QED BY <1>4, <3>1
  <2> QED BY <1>5, <2>1, <2>2
<1> QED BY <1>3, <1>4, <1>5

-----------------------------------------------------------------------------
(* The inductive invariants *)

RunType ==
    [at : {"none", "run", "status", "append", "settle"}, job : Jobs \cup {NoJob}, retry : Nat,
     result : Results \cup {"none"}]

StreamType == [waited : BOOLEAN, answered : BOOLEAN, terminal : BOOLEAN]

\* The places of a request that addresses a job.
Addressed == {"pause", "log", "notify", "signal", "signalled", "signal_notify"}

RequestType == [at : {"idle", "done"} \cup Addressed, job : Jobs \cup {NoJob}]

Busy == {s \in Slots : run[s] # Idle}

StoreTyped ==
    /\ status \in [Jobs -> Statuses]
    /\ retries \in [Jobs -> Nat]
    /\ pending \in Seq(Jobs)
    /\ waiting \in [Jobs -> Keys \cup {NoKey}]
    /\ waitingByKey \in [Keys -> Jobs \cup {NoJob}]

HistoryTyped ==
    /\ stream \in [Jobs -> StreamType]
    /\ started \in [Jobs -> Nat]
    /\ touched \subseteq Jobs
    /\ forced \subseteq Jobs

\* Only jobs that a request has addressed are sent to the loop.
LoopTyped ==
    /\ loop \in {"limiter", "receive", "woken", "claim"}
    /\ woken \in Jobs \cup {NoJob}
    /\ wakeup \in Seq(Jobs)
    /\ Len(wakeup) <= WakeCap
    /\ \A i \in 1..Len(wakeup) : wakeup[i] \in touched
    /\ loop = "woken" => woken \in touched

RunTyped ==
    /\ run \in [Slots -> RunType]
    /\ \A s \in Slots : run[s].at # "none" => run[s].job \in Jobs
    /\ \A s \in Slots : run[s].at = "none" => run[s] = Idle

RequestTyped ==
    /\ req \in [Clients -> RequestType]
    /\ \A c \in Clients : req[c].at \in Addressed => req[c].job \in touched

\* A token is held by every goroutine, and by the loop until it has spawned one
\* or found nothing to run.
Counted ==
    /\ limiter = Cardinality(Busy) + (IF loop = "limiter" THEN 0 ELSE 1)
    /\ limiter <= MaxConcurrency

Typed == StoreTyped /\ HistoryTyped /\ LoopTyped /\ RunTyped /\ RequestTyped /\ Counted

-----------------------------------------------------------------------------
(* What a step does to the goroutines *)

\* The goroutine in slot s has these fields afterwards, the others are left alone.
RunMove(s, at, job, retry, result) ==
    /\ run' \in [Slots -> RunType]
    /\ run'[s].at = at
    /\ run'[s].job = job
    /\ run'[s].retry = retry
    /\ run'[s].result = result
    /\ \A t \in Slots : t # s => run'[t] = run[t]

\* A new record in slot s.
LEMMA RunMoveTo ==
    ASSUME RunTyped, NEW s \in Slots, NEW r \in RunType, run' = [run EXCEPT ![s] = r]
    PROVE  RunMove(s, r.at, r.job, r.retry, r.result) /\ run'[s] = r
BY DEF RunMove, RunTyped

\* Another place, with or without the result of the run.
LEMMA RunFieldMoves ==
    ASSUME RunTyped, NEW s \in Slots, NEW p \in {"none", "run", "status", "append", "settle"},
           NEW r \in Results
    PROVE  /\ run' = [run EXCEPT ![s].at = p]
                => RunMove(s, p, run[s].job, run[s].retry, run[s].result)
           /\ run' = [run EXCEPT ![s].result = r, ![s].at = p]
                => RunMove(s, p, run[s].job, run[s].retry, r)
<1>1. run \in [Slots -> RunType]
  BY DEF RunTyped
<1>2. ASSUME run' = [run EXCEPT ![s].at = p]
      PROVE  RunMove(s, p, run[s].job, run[s].retry, run[s].result)
  BY <1>1, <1>2 DEF RunMove, RunType
<1>3. ASSUME run' = [run EXCEPT ![s].result = r, ![s].at = p]
      PROVE  RunMove(s, p, run[s].job, run[s].retry, r)
  BY <1>1, <1>3 DEF RunMove, RunType
<1> QED BY <1>2, <1>3

\* A goroutine has a job.
LEMMA RunTypedMove ==
    ASSUME RunTyped, NEW s \in Slots, NEW at, NEW job, NEW retry, NEW result,
           RunMove(s, at, job, retry, result), at # "none", job \in Jobs
    PROVE  RunTyped'
<1> SUFFICES ASSUME NEW t \in Slots
             PROVE  /\ run'[t].at # "none" => run'[t].job \in Jobs
                    /\ run'[t].at = "none" => run'[t] = Idle
  BY DEF RunTyped, RunMove
<1>1. CASE t = s
  BY <1>1 DEF RunMove
<1>2. CASE t # s
  BY <1>2 DEF RunMove, RunTyped
<1> QED BY <1>1, <1>2

\* The end of a goroutine.
LEMMA RunTypedEnd ==
    ASSUME RunTyped, NEW s \in Slots, run' = [run EXCEPT ![s] = Idle]
    PROVE  RunTyped' /\ run'[s] = Idle /\ \A t \in Slots : t # s => run'[t] = run[t]
<1>1. Idle \in RunType /\ Idle.at = "none"
  BY DEF Idle, RunType
<1> HIDE DEF Idle
<1> QED BY <1>1 DEF RunTyped

\* The slots in use are finitely many.
LEMMA BusyFinite == IsFiniteSet(Busy) /\ Cardinality(Busy) \in Nat
<1>1. IsFiniteSet(Slots) /\ Busy \in SUBSET Slots
  BY FS_Interval, JobQueueAssumption DEF Slots, Busy
<1>2. IsFiniteSet(Busy)
  BY <1>1, FS_Subset
<1> QED BY <1>2, FS_CardinalityType

\* A goroutine that starts adds one, a goroutine that ends takes one off, and
\* one that goes on changes nothing.
LEMMA BusyChange ==
    ASSUME NEW s \in Slots, \A t \in Slots : t # s => run'[t] = run[t]
    PROVE  /\ run[s] = Idle /\ run'[s] # Idle => Cardinality(Busy') = Cardinality(Busy) + 1
           /\ run[s] # Idle /\ run'[s] = Idle => Cardinality(Busy') = Cardinality(Busy) - 1
           /\ run[s] # Idle /\ run'[s] # Idle => Busy' = Busy
<1>1. ASSUME run[s] = Idle, run'[s] # Idle
      PROVE  Cardinality(Busy') = Cardinality(Busy) + 1
  <2>1. Busy' = Busy \cup {s} /\ s \notin Busy
    BY <1>1 DEF Busy
  <2> HIDE DEF Busy
  <2> QED BY <2>1, BusyFinite, FS_AddElement
<1>2. ASSUME run[s] # Idle, run'[s] = Idle
      PROVE  Cardinality(Busy') = Cardinality(Busy) - 1
  <2>1. Busy' = Busy \ {s} /\ s \in Busy
    BY <1>2 DEF Busy
  <2> HIDE DEF Busy
  <2> QED BY <2>1, BusyFinite, FS_RemoveElement
<1>3. ASSUME run[s] # Idle, run'[s] # Idle
      PROVE  Busy' = Busy
  BY <1>3 DEF Busy
<1> QED BY <1>1, <1>2, <1>3

\* While the loop holds a token there is a slot for the goroutine it may spawn.
LEMMA FreeSlot ==
    ASSUME Counted, loop # "limiter"
    PROVE  \E s \in Slots : run[s] = Idle
<1> SUFFICES ASSUME \A s \in Slots : run[s] # Idle
             PROVE  FALSE
  OBVIOUS
<1>1. Busy = Slots
  BY DEF Busy
<1>2. Cardinality(Slots) = MaxConcurrency
  BY FS_Interval, JobQueueAssumption DEF Slots
<1> QED BY <1>1, <1>2, JobQueueAssumption DEF Counted

\* The best entry of the queue is an entry of a Pending job.
LEMMA BestIndex ==
    ASSUME StoreTyped, Candidates # {}
    PROVE  Best \in Candidates /\ Best \in 1..Len(pending) /\ pending[Best] \in Jobs
<1> DEFINE n == Len(pending)
           C == Candidates
           p == [i \in C |-> Priority[pending[i]]]
<1>1. pending \in Seq(Jobs) /\ n \in Nat
  BY DEF StoreTyped
<1>2. C \in SUBSET (1..n)
  BY DEF Candidates
<1>3. p \in [C -> Int]
  BY <1>1, <1>2, JobQueueAssumption
<1>4. \A i \in C : p[i] = Priority[pending[i]]
  OBVIOUS
<1> HIDE DEF n, C, p
<1>5. \E i \in C : \A k \in C : p[i] > p[k] \/ (p[i] = p[k] /\ i <= k)
  BY <1>1, <1>2, <1>3, BestExists DEF C
<1>6. \E i \in Candidates : \A k \in Candidates :
            \/ Priority[pending[i]] > Priority[pending[k]]
            \/ Priority[pending[i]] = Priority[pending[k]] /\ i <= k
  BY <1>4, <1>5 DEF C
<1>7. Best \in Candidates
  BY <1>6 DEF Best
<1> QED BY <1>1, <1>2, <1>7 DEF C, n

\* A spawn takes a free slot, for a copy of the job.
LEMMA SpawnEffect ==
    ASSUME Typed, loop # "limiter", NEW j \in Jobs, Spawn(j)
    PROVE  /\ \E s \in Slots : run[s] = Idle /\ RunMove(s, "run", j, retries[j], "none")
           /\ RunTyped'
           /\ Cardinality(Busy') = Cardinality(Busy) + 1
           /\ status' = [status EXCEPT ![j] = "running"]
           /\ started' = [started EXCEPT ![j] = started[j] + 1]
           /\ loop' = "limiter"
           /\ UNCHANGED << retries, wakeup, limiter, stream, req, touched, forced >>
<1> DEFINE s == CHOOSE s \in Slots : run[s] = Idle
           r == [at |-> "run", job |-> j, retry |-> retries[j], result |-> "none"]
<1>1. s \in Slots /\ run[s] = Idle
  BY FreeSlot DEF Typed
<1>2. /\ run' = [run EXCEPT ![s] = r]
      /\ status' = [status EXCEPT ![j] = "running"]
      /\ started' = [started EXCEPT ![j] = started[j] + 1]
      /\ loop' = "limiter"
      /\ UNCHANGED << retries, wakeup, limiter, stream, req, touched, forced >>
  BY DEF Spawn
<1>3. r \in RunType /\ r.at = "run" /\ r.job = j /\ r.retry = retries[j] /\ r.result = "none"
  BY DEF RunType, Typed, StoreTyped
<1>4. r # Idle
  BY <1>3 DEF Idle
<1> HIDE DEF s, r
<1>5. RunMove(s, r.at, r.job, r.retry, r.result) /\ run'[s] = r
  BY <1>1, <1>2, <1>3, RunMoveTo DEF Typed
<1>6. RunMove(s, "run", j, retries[j], "none")
  BY <1>3, <1>5
<1>7. RunTyped'
  BY <1>1, <1>6, RunTypedMove DEF Typed
<1>8. Cardinality(Busy') = Cardinality(Busy) + 1
  BY <1>1, <1>4, <1>5, BusyChange DEF RunMove
<1> QED BY <1>1, <1>2, <1>6, <1>7, <1>8

-----------------------------------------------------------------------------
(* What a step does to the store, the loop and the requests *)

\* The methods of the store keep its types.
LEMMA StoreOps ==
    ASSUME StoreTyped, NEW j \in Jobs, NEW n \in Nat, NEW k \in Keys, NEW st \in Statuses
    PROVE  /\ UpdateStatus(j, st) => StoreTyped'
           /\ Requeue(j, n) => StoreTyped'
           /\ SetParked(j, k) => StoreTyped'
           /\ WakeupJob(k) => StoreTyped'
<1>1. "pending" \in Statuses /\ "parked" \in Statuses
  BY DEF Statuses
<1>2. ASSUME UpdateStatus(j, st)
      PROVE  StoreTyped'
  BY <1>2 DEF UpdateStatus, StoreTyped, index
<1>3. ASSUME Requeue(j, n)
      PROVE  StoreTyped'
  <2>1. pending' \in Seq(Jobs)
    BY <1>3, AppendProperties DEF Requeue, StoreTyped
  <2> QED BY <1>1, <1>3, <2>1 DEF Requeue, StoreTyped, index
<1>4. ASSUME SetParked(j, k)
      PROVE  StoreTyped'
  BY <1>1, <1>4 DEF SetParked, StoreTyped
<1>5. ASSUME WakeupJob(k)
      PROVE  StoreTyped'
  <2> DEFINE m == waitingByKey[k]
  <2>1. CASE m = NoJob /\ UNCHANGED << status, retries, pending, index >>
    BY <2>1 DEF StoreTyped, index
  <2>2. CASE m # NoJob
    <3>1. m \in Jobs
      BY <2>2 DEF StoreTyped
    <3>2. /\ waitingByKey' = [waitingByKey EXCEPT ![k] = NoJob]
          /\ waiting' = [waiting EXCEPT ![m] = NoKey]
          /\ status' = [status EXCEPT ![m] = "pending"]
          /\ pending' = Append(pending, m)
          /\ UNCHANGED retries
      BY <1>5, <2>2 DEF WakeupJob
    <3> HIDE DEF m
    <3>3. pending' \in Seq(Jobs)
      BY <3>1, <3>2, AppendProperties DEF StoreTyped
    <3> QED BY <1>1, <3>1, <3>2, <3>3 DEF StoreTyped
  <2> QED BY <1>5, <2>1, <2>2 DEF WakeupJob
<1> QED BY <1>2, <1>3, <1>4, <1>5

\* A request moves to its next place, with a job that is touched.
LEMMA AtEffect ==
    ASSUME RequestTyped, HistoryTyped, touched \subseteq touched', NEW c \in Clients,
           NEW p \in {"idle", "done"} \cup Addressed, NEW j \in Jobs \cup {NoJob}, At(c, p, j),
           p \in Addressed => j \in touched'
    PROVE  RequestTyped'
<1> DEFINE r == [at |-> p, job |-> j]
<1>1. r \in RequestType /\ r.at = p /\ r.job = j
  BY DEF RequestType
<1>2. req' = [req EXCEPT ![c] = r]
  BY DEF At
<1> HIDE DEF r
<1> QED BY <1>1, <1>2 DEF RequestTyped

\* A notification is of a touched job, and is dropped when the buffer is full.
LEMMA NotifyEffect ==
    ASSUME LoopTyped, HistoryTyped, NEW j \in touched, Notify(j), UNCHANGED << loop, woken, touched >>
    PROVE  LoopTyped'
<1>1. j \in Jobs /\ wakeup \in Seq(Jobs)
  BY DEF HistoryTyped, LoopTyped
<1>2. CASE Len(wakeup) < WakeCap
  <2>1. wakeup' = Append(wakeup, j)
    BY <1>2 DEF Notify
  <2>2. /\ wakeup' \in Seq(Jobs) /\ Len(wakeup') = Len(wakeup) + 1
        /\ \A i \in 1..Len(wakeup) : wakeup'[i] = wakeup[i]
        /\ wakeup'[Len(wakeup) + 1] = j
    BY <1>1, <2>1, AppendProperties
  <2>3. ASSUME NEW i \in 1..Len(wakeup')
        PROVE  wakeup'[i] \in touched
    <3>1. Len(wakeup) \in Nat
      BY <1>1
    <3>2. i \in 1..Len(wakeup) \/ i = Len(wakeup) + 1
      BY <2>2, <3>1
    <3> QED BY <2>2, <3>2 DEF LoopTyped
  <2>4. Len(wakeup') <= WakeCap
    BY <1>1, <1>2, <2>2, JobQueueAssumption
  <2> QED BY <2>2, <2>3, <2>4 DEF LoopTyped
<1>3. CASE ~ (Len(wakeup) < WakeCap)
  BY <1>3 DEF Notify, LoopTyped
<1> QED BY <1>2, <1>3

\* Parts whose variables do not change; a job that was touched stays touched.
LEMMA KeptParts ==
    ASSUME Typed, touched \subseteq touched'
    PROVE  /\ UNCHANGED << status, retries, pending, waiting, waitingByKey >> => StoreTyped'
           /\ UNCHANGED << loop, woken, wakeup >> => LoopTyped'
           /\ UNCHANGED run => RunTyped'
           /\ UNCHANGED req => RequestTyped'
           /\ UNCHANGED << run, loop, limiter >> => Counted'
BY DEF Typed, StoreTyped, LoopTyped, RunTyped, RequestTyped, Counted, Busy

-----------------------------------------------------------------------------
(* Types *)

\* The store is empty and everything is idle at first.
LEMMA TypedInit == Init => Typed
<1> SUFFICES ASSUME Init PROVE Typed
  OBVIOUS
<1>1. StoreTyped
  BY EmptySeq DEF Init, StoreTyped, Statuses
<1>2. HistoryTyped
  BY DEF Init, HistoryTyped, StreamType
<1>3. LoopTyped
  BY EmptySeq, JobQueueAssumption DEF Init, LoopTyped
<1>4. RunTyped
  BY DEF Init, RunTyped, RunType, Idle
<1>5. RequestTyped
  BY DEF Init, RequestTyped, RequestType, Addressed
<1>6. Counted
  <2>1. Busy = {}
    BY DEF Init, Busy
  <2> QED BY <2>1, FS_EmptySet, JobQueueAssumption DEF Init, Counted
<1> QED BY <1>1, <1>2, <1>3, <1>4, <1>5, <1>6 DEF Typed

\* The loop and the creation of jobs keep the types and the count.
LEMMA TypedLoop ==
    ASSUME Typed, Loop \/ \E j \in Jobs : Create(j)
    PROVE  Typed'
<1>1. ASSUME NEW j \in Jobs, Create(j)
      PROVE  Typed'
  <2>1. pending' \in Seq(Jobs) /\ "pending" \in Statuses
    BY <1>1, AppendProperties DEF Create, Typed, StoreTyped, Statuses
  <2>2. StoreTyped'
    BY <1>1, <2>1 DEF Create, Typed, StoreTyped, index
  <2>3. HistoryTyped'
    BY <1>1 DEF Create, Typed, HistoryTyped, history
  <2> QED BY <1>1, <2>2, <2>3, KeptParts DEF Create, Typed, scheduler, history
<1>2. CASE TakeToken
  <2>1. HistoryTyped'
    BY <1>2 DEF TakeToken, Typed, HistoryTyped, history
  <2>2. LoopTyped'
    BY <1>2 DEF TakeToken, Typed, LoopTyped, history
  <2>3. Counted'
    <3>1. Busy' = Busy
      BY <1>2 DEF TakeToken, Busy
    <3> QED BY <1>2, <3>1, BusyFinite, JobQueueAssumption DEF TakeToken, Typed, Counted
  <2> QED BY <1>2, <2>1, <2>2, <2>3, KeptParts DEF TakeToken, Typed, index, history
<1>3. CASE Receive
  <2>1. HistoryTyped'
    BY <1>3 DEF Receive, Typed, HistoryTyped, history
  <2>2. LoopTyped'
    <3>1. CASE wakeup # << >> /\ woken' = Head(wakeup) /\ wakeup' = Tail(wakeup) /\ loop' = "woken"
      <4>1. wakeup \in Seq(Jobs) /\ Len(wakeup) \in Nat
        BY DEF Typed, LoopTyped
      <4>2. /\ Head(wakeup) = wakeup[1] /\ Tail(wakeup) \in Seq(Jobs)
            /\ Len(Tail(wakeup)) = Len(wakeup) - 1
            /\ \A i \in 1..Len(Tail(wakeup)) : Tail(wakeup)[i] = wakeup[i + 1]
        BY <3>1, <4>1, HeadTailProperties
      <4>3. Len(wakeup) >= 1
        BY <3>1, <4>1, EmptySeq
      <4>4. wakeup[1] \in touched /\ \A i \in 1..Len(Tail(wakeup)) : wakeup[i + 1] \in touched
        <5>1. 1 \in 1..Len(wakeup) /\ \A i \in 1..Len(Tail(wakeup)) : i + 1 \in 1..Len(wakeup)
          BY <4>1, <4>2, <4>3
        <5> QED BY <5>1 DEF Typed, LoopTyped
      <4>5. Len(Tail(wakeup)) <= WakeCap /\ woken' \in Jobs /\ touched' = touched
        BY <1>3, <3>1, <4>1, <4>2, <4>4, JobQueueAssumption DEF Receive, Typed, LoopTyped, HistoryTyped, history
      <4> QED BY <3>1, <4>2, <4>4, <4>5 DEF LoopTyped
    <3>2. CASE loop' = "claim" /\ UNCHANGED << woken, wakeup >>
      BY <1>3, <3>2 DEF Receive, Typed, LoopTyped, history
    <3> QED BY <1>3, <3>1, <3>2 DEF Receive
  <2>3. Counted'
    <3>1. Busy' = Busy
      BY <1>3 DEF Receive, Busy
    <3> QED BY <1>3, <3>1 DEF Receive, Typed, Counted
  <2> QED BY <1>3, <2>1, <2>2, <2>3, KeptParts DEF Receive, Typed, index, history
<1>4. ASSUME NEW j \in Jobs, Spawn(j), loop # "limiter", woken' \in {woken, NoJob},
             pending' \in Seq(Jobs),
             waiting' \in [Jobs -> Keys \cup {NoKey}], waitingByKey' \in [Keys -> Jobs \cup {NoJob}]
      PROVE  Typed'
  <2>1. /\ RunTyped' /\ Cardinality(Busy') = Cardinality(Busy) + 1
        /\ status' = [status EXCEPT ![j] = "running"]
        /\ started' = [started EXCEPT ![j] = started[j] + 1]
        /\ loop' = "limiter"
        /\ UNCHANGED << retries, wakeup, limiter, stream, req, touched, forced >>
    BY <1>4, SpawnEffect
  <2>2. StoreTyped'
    BY <1>4, <2>1 DEF Typed, StoreTyped, Statuses
  <2>3. HistoryTyped'
    BY <2>1 DEF Typed, HistoryTyped
  <2>4. LoopTyped'
    BY <1>4, <2>1 DEF Typed, LoopTyped
  <2>5. RequestTyped'
    BY <2>1 DEF Typed, RequestTyped
  <2>6. Counted'
    BY <1>4, <2>1, BusyFinite DEF Typed, Counted
  <2> QED BY <2>1, <2>2, <2>3, <2>4, <2>5, <2>6 DEF Typed
<1>5. CASE ClaimParkedJob
  <2>1. loop = "woken" /\ woken \in Jobs /\ woken' = NoJob
    BY <1>5 DEF ClaimParkedJob, Typed, LoopTyped, HistoryTyped
  <2>2. CASE status[woken] \in Suspended
    <3> DEFINE key == waiting[woken]
               map == [k \in Keys |-> IF k = key THEN NoJob ELSE waitingByKey[k]]
    <3>1. /\ waiting' = [waiting EXCEPT ![woken] = NoKey]
          /\ waitingByKey' = map
          /\ Spawn(woken) /\ pending' = pending
      BY <1>5, <2>2 DEF ClaimParkedJob
    <3>2. waiting' \in [Jobs -> Keys \cup {NoKey}] /\ pending' \in Seq(Jobs)
      BY <2>1, <3>1 DEF Typed, StoreTyped
    <3>3. map \in [Keys -> Jobs \cup {NoJob}]
      BY DEF Typed, StoreTyped
    <3> QED BY <1>4, <2>1, <3>1, <3>2, <3>3
  <2>3. CASE status[woken] \notin Suspended
    <3>1. /\ loop' = "claim"
          /\ UNCHANGED << status, retries, pending, waiting, waitingByKey, wakeup, limiter, run, stream, req,
                          started, touched, forced >>
      BY <1>5, <2>3 DEF ClaimParkedJob, index, history
    <3>2. HistoryTyped' /\ LoopTyped'
      BY <2>1, <3>1 DEF Typed, HistoryTyped, LoopTyped
    <3>3. Counted'
      BY <2>1, <3>1 DEF Typed, Counted, Busy
    <3> QED BY <3>1, <3>2, <3>3, KeptParts DEF Typed
  <2> QED BY <2>2, <2>3
<1>6. CASE ClaimNextPending
  <2>1. CASE Candidates # {}
    <3>1. Best \in 1..Len(pending) /\ pending[Best] \in Jobs /\ pending \in Seq(Jobs)
      BY <2>1, BestIndex DEF Typed, StoreTyped
    <3>2. /\ pending' = Without(pending, Best) /\ Spawn(pending[Best])
          /\ UNCHANGED << waiting, waitingByKey, woken >> /\ loop = "claim"
      BY <1>6, <2>1 DEF ClaimNextPending, index
    <3>3. pending' \in Seq(Jobs)
      BY <3>1, <3>2, WithoutFacts
    <3> QED BY <1>4, <3>1, <3>2, <3>3 DEF Typed, StoreTyped
  <2>2. CASE Candidates = {}
    <3>1. /\ loop = "claim" /\ loop' = "limiter" /\ limiter' = limiter - 1
          /\ UNCHANGED << status, retries, pending, waiting, waitingByKey, wakeup, woken, run, stream, req,
                          started, touched, forced >>
      BY <1>6, <2>2 DEF ClaimNextPending, index, history
    <3>2. HistoryTyped' /\ LoopTyped'
      BY <3>1 DEF Typed, HistoryTyped, LoopTyped
    <3>3. Counted'
      <4>1. Busy' = Busy
        BY <3>1 DEF Busy
      <4> QED BY <3>1, <4>1, BusyFinite, JobQueueAssumption DEF Typed, Counted
    <3> QED BY <3>1, <3>2, <3>3, KeptParts DEF Typed
  <2> QED BY <2>1, <2>2
<1> QED BY <1>1, <1>2, <1>3, <1>5, <1>6 DEF Loop

\* The goroutines keep the types, and give the token back at the end.
LEMMA TypedGoroutine ==
    ASSUME Typed, NEW s \in Slots, Goroutine(s)
    PROVE  Typed'
<1> DEFINE j == run[s].job
<1>1. ASSUME run[s].at # "none"
      PROVE  j \in Jobs /\ run[s] # Idle /\ run[s].retry \in Nat /\ run[s].result \in Results \cup {"none"}
  BY <1>1 DEF Typed, RunTyped, RunType, Idle
<1>2. ASSUME NEW at, NEW retry, NEW result, RunMove(s, at, j, retry, result), at # "none", run[s].at # "none",
             UNCHANGED << limiter, loop >>
      PROVE  RunTyped' /\ Counted'
  <2>1. RunTyped'
    BY <1>1, <1>2, RunTypedMove DEF Typed
  <2>2. run'[s] # Idle
    BY <1>2 DEF RunMove, Idle
  <2>3. Busy' = Busy
    BY <1>1, <1>2, <2>2, BusyChange DEF RunMove
  <2> QED BY <1>2, <2>1, <2>3 DEF Typed, Counted
<1>3. CASE RunEvent(s)
  <2>1. PICK r \in Results, silent \in BOOLEAN :
          /\ run' = [run EXCEPT ![s].result = r, ![s].at = IF r = "unready" THEN "settle" ELSE "status"]
          /\ stream' = [stream EXCEPT
                ![j].answered = stream[j].answered /\ silent,
                ![j].waited = stream[j].waited \/ r = "waiting",
                ![j].terminal = stream[j].terminal \/ r \in {"completed", "retryable", "permanent"}]
    BY <1>3 DEF RunEvent
  <2>2. PICK p \in {"settle", "status"} : run' = [run EXCEPT ![s].result = r, ![s].at = p]
    BY <2>1
  <2>3. run[s].at = "run" /\ j \in Jobs
    BY <1>1, <1>3 DEF RunEvent
  <2>4. /\ UNCHANGED << status, retries, pending, waiting, waitingByKey, wakeup, limiter, loop, woken, req,
                        started, touched, forced >>
    BY <1>3 DEF RunEvent, index, scheduler, history
  <2>5. RunMove(s, p, j, run[s].retry, r)
    BY <2>2, RunFieldMoves DEF Typed
  <2>6. RunTyped' /\ Counted'
    BY <1>2, <2>3, <2>4, <2>5
  <2>7. stream' \in [Jobs -> StreamType]
    <3> DEFINE a == stream[j].answered /\ silent
               b == stream[j].waited \/ r = "waiting"
               d == stream[j].terminal \/ r \in {"completed", "retryable", "permanent"}
    <3>1. a \in BOOLEAN /\ b \in BOOLEAN /\ d \in BOOLEAN
      OBVIOUS
    <3>2. stream \in [Jobs -> StreamType] /\ stream' = [stream EXCEPT ![j].answered = a, ![j].waited = b, ![j].terminal = d]
      BY <2>1 DEF Typed, HistoryTyped
    <3> HIDE DEF a, b, d
    <3> QED BY <2>3, <3>1, <3>2 DEF StreamType
  <2> QED BY <2>4, <2>6, <2>7, KeptParts DEF Typed, HistoryTyped
<1>4. CASE RunStatus(s)
  <2>1. run[s].at = "status" /\ j \in Jobs
    BY <1>1, <1>4 DEF RunStatus
  <2>2. PICK st \in Statuses : UpdateStatus(j, st)
    <3>1. status[j] \in Statuses /\ {"completed", "failed"} \cup Suspended \subseteq Statuses
      BY <2>1 DEF Typed, StoreTyped, Statuses, Suspended
    <3>2. CASE run[s].result = "completed"
      BY <1>4, <3>1, <3>2 DEF RunStatus
    <3>3. CASE run[s].result = "waiting"
      BY <1>4, <3>1, <3>3 DEF RunStatus
    <3>4. CASE run[s].result = "error"
      BY <1>4, <3>1, <3>4 DEF RunStatus
    <3>5. CASE run[s].result \notin {"completed", "waiting", "error"}
      BY <1>4, <3>1, <3>5 DEF RunStatus
    <3> QED BY <3>2, <3>3, <3>4, <3>5
  <2>3. StoreTyped'
    BY <2>1, <2>2, StoreOps DEF Typed, UpdateStatus, StoreTyped, index
  <2>4. /\ run' = [run EXCEPT ![s].at = "append"]
        /\ UNCHANGED << wakeup, limiter, loop, woken, stream, req, started, touched, forced >>
    BY <1>4 DEF RunStatus, scheduler, history
  <2>5. RunMove(s, "append", j, run[s].retry, run[s].result)
    <3>1. "error" \in Results
      BY DEF Results
    <3> QED BY <2>4, <3>1, RunFieldMoves DEF Typed
  <2>6. RunTyped' /\ Counted'
    BY <1>2, <2>1, <2>4, <2>5
  <2> QED BY <2>3, <2>4, <2>6, KeptParts DEF Typed, HistoryTyped
<1>5. CASE RunJobAppend(s)
  <2>1. run[s].at = "append" /\ j \in Jobs
    BY <1>1, <1>5 DEF RunJobAppend
  <2>2. /\ run' = [run EXCEPT ![s].at = "settle"]
        /\ UNCHANGED stream \/ stream' = [stream EXCEPT ![j].answered = FALSE, ![j].terminal = TRUE]
        /\ UNCHANGED << status, retries, pending, waiting, waitingByKey, wakeup, limiter, loop, woken, req,
                        started, touched, forced >>
    BY <1>5 DEF RunJobAppend, index, scheduler, history
  <2>3. RunMove(s, "settle", j, run[s].retry, run[s].result)
    <3>1. "error" \in Results
      BY DEF Results
    <3> QED BY <2>2, <3>1, RunFieldMoves DEF Typed
  <2>4. RunTyped' /\ Counted'
    BY <1>2, <2>1, <2>2, <2>3
  <2>5. stream' \in [Jobs -> StreamType]
    <3>1. PICK a \in BOOLEAN : UNCHANGED stream \/ stream' = [stream EXCEPT ![j].answered = a, ![j].terminal = TRUE]
      BY <2>2
    <3>2. stream \in [Jobs -> StreamType]
      BY DEF Typed, HistoryTyped
    <3> QED BY <2>1, <3>1, <3>2 DEF StreamType
  <2> QED BY <2>2, <2>4, <2>5, KeptParts DEF Typed, HistoryTyped
<1>6. CASE Settle(s)
  <2>1. run[s].at = "settle" /\ j \in Jobs /\ run[s] # Idle /\ run[s].retry \in Nat
    BY <1>1, <1>6 DEF Settle
  <2>2. StoreTyped'
    <3>1. {"completed", "failed"} \subseteq Statuses
      BY DEF Statuses
    <3>2. ASSUME NEW st \in Statuses, UpdateStatus(j, st)
          PROVE  StoreTyped'
      BY <2>1, <3>2 DEF Typed, UpdateStatus, StoreTyped, index
    <3>3. ASSUME Requeue(j, run[s].retry)
          PROVE  StoreTyped'
      <4>1. pending' \in Seq(Jobs) /\ "pending" \in Statuses
        BY <2>1, <3>3, AppendProperties DEF Requeue, Typed, StoreTyped, Statuses
      <4> QED BY <2>1, <3>3, <4>1 DEF Requeue, Typed, StoreTyped, index
    <3> QED BY <1>6, <3>1, <3>2, <3>3 DEF Settle
  <2>3. /\ run' = [run EXCEPT ![s] = Idle] /\ limiter' = limiter - 1
        /\ UNCHANGED << wakeup, loop, woken, stream, req, started, touched, forced >>
    BY <1>6 DEF Settle, history
  <2>4. RunTyped' /\ run'[s] = Idle /\ \A t \in Slots : t # s => run'[t] = run[t]
    BY <2>3, RunTypedEnd DEF Typed
  <2>5. Counted'
    <3>1. Cardinality(Busy') = Cardinality(Busy) - 1
      BY <2>1, <2>4, BusyChange
    <3> QED BY <2>3, <3>1, BusyFinite, JobQueueAssumption DEF Typed, Counted
  <2> QED BY <2>2, <2>3, <2>4, <2>5, KeptParts DEF Typed, HistoryTyped
<1> QED BY <1>3, <1>4, <1>5, <1>6 DEF Goroutine

\* The requests keep the types.
LEMMA TypedRequest ==
    ASSUME Typed, NEW c \in Clients, Request(c)
    PROVE  Typed'
<1>1. ASSUME req[c].at \in Addressed
      PROVE  req[c].job \in touched /\ req[c].job \in Jobs
  BY <1>1 DEF Typed, RequestTyped, HistoryTyped
<1>2. /\ {"pause", "log", "notify", "signal", "signalled", "signal_notify"} = Addressed
      /\ "done" \notin Addressed
      /\ {"pending", "parked"} \subseteq Statuses
  BY DEF Addressed, Statuses
<1>3. ASSUME NEW j \in Jobs, PauseCheck(c, j) \/ SignalCheck(c, j)
      PROVE  Typed'
  <2>1. PICK p \in Addressed : At(c, p, j)
    BY <1>2, <1>3 DEF PauseCheck, SignalCheck
  <2>2. /\ touched' = touched \cup {j}
        /\ UNCHANGED << status, retries, pending, waiting, waitingByKey, wakeup, limiter, loop, woken, run, stream,
                        started, forced >>
    BY <1>3 DEF PauseCheck, SignalCheck, index, scheduler
  <2>3. RequestTyped'
    BY <2>1, <2>2, AtEffect DEF Typed
  <2> QED BY <1>3, <2>2, <2>3, KeptParts DEF Typed, HistoryTyped
<1>4. CASE PausePark(c)
  <2>1. /\ req[c].job \in touched /\ req[c].job \in Jobs /\ At(c, "log", req[c].job)
        /\ UNCHANGED << wakeup, limiter, loop, woken, run, stream, started, touched, forced >>
    BY <1>1, <1>2, <1>4 DEF PausePark, scheduler, history
  <2>2. PICK k \in Keys : SetParked(req[c].job, k)
    BY <1>4 DEF PausePark
  <2>3. StoreTyped'
    BY <1>2, <2>1, <2>2 DEF Typed, SetParked, StoreTyped
  <2>4. RequestTyped'
    BY <1>2, <2>1, AtEffect DEF Typed
  <2> QED BY <2>1, <2>3, <2>4, KeptParts DEF Typed, HistoryTyped
<1>5. ASSUME NEW j \in Jobs, ResumeByKey(c, j)
      PROVE  Typed'
  <2>1. PICK k \in Keys : WakeupJob(k) /\ touched' = touched \cup ({j, waitingByKey[k]} \cap Jobs)
    BY <1>5 DEF ResumeByKey
  <2>2. At(c, "notify", j) /\ UNCHANGED << wakeup, limiter, loop, woken, run, stream, started, forced >>
    BY <1>5 DEF ResumeByKey, scheduler
  <2>3. StoreTyped'
    <3>1. 0 \in Nat
      OBVIOUS
    <3> QED BY <1>2, <2>1, <3>1, StoreOps DEF Typed
  <2>4. touched \subseteq touched' /\ j \in touched' /\ touched' \subseteq Jobs
    BY <2>1 DEF Typed, HistoryTyped
  <2>5. RequestTyped'
    BY <1>2, <2>2, <2>4, AtEffect DEF Typed
  <2> QED BY <2>2, <2>3, <2>4, <2>5, KeptParts DEF Typed, HistoryTyped
<1>6. ASSUME NEW j \in Jobs, ResumeByStatus(c, j)
      PROVE  Typed'
  <2>1. /\ UpdateStatus(j, "pending") /\ At(c, "notify", j)
        /\ touched' = touched \cup {j} /\ forced' = forced \cup {j}
        /\ UNCHANGED << wakeup, limiter, loop, woken, run, stream, started >>
    BY <1>6 DEF ResumeByStatus, scheduler
  <2>2. StoreTyped'
    BY <1>2, <2>1 DEF Typed, UpdateStatus, StoreTyped, index
  <2>3. RequestTyped'
    BY <1>2, <2>1, AtEffect DEF Typed
  <2> QED BY <1>6, <2>1, <2>2, <2>3, KeptParts DEF Typed, HistoryTyped
<1>7. CASE ResumeNotify(c) \/ SignalNotify(c)
  <2>1. /\ req[c].job \in touched /\ req[c].job \in Jobs /\ Notify(req[c].job)
        /\ UNCHANGED << status, retries, pending, waiting, waitingByKey, limiter, loop, woken, run, stream,
                        started, touched, forced >>
    BY <1>1, <1>2, <1>7 DEF ResumeNotify, SignalNotify, index, scheduler, history
  <2>2. At(c, "log", req[c].job) \/ At(c, "done", NoJob)
    BY <1>7 DEF ResumeNotify, SignalNotify
  <2>3. LoopTyped'
    BY <2>1, NotifyEffect DEF Typed
  <2>4. RequestTyped'
    BY <1>2, <2>1, <2>2, AtEffect DEF Typed
  <2> QED BY <2>1, <2>3, <2>4, KeptParts DEF Typed, HistoryTyped
<1>8. CASE RequestLog(c)
  <2> DEFINE j == req[c].job
  <2>1. /\ j \in Jobs /\ At(c, "done", NoJob)
        /\ UNCHANGED << status, retries, pending, waiting, waitingByKey, wakeup, limiter, loop, woken, run,
                        started, touched, forced >>
    BY <1>1, <1>2, <1>8 DEF RequestLog, index, scheduler, history
  <2>2. PICK lost \in BOOLEAN : stream' = [stream EXCEPT ![j].answered = stream[j].answered /\ lost]
    BY <1>8 DEF RequestLog
  <2>3. stream' \in [Jobs -> StreamType]
    <3> DEFINE a == stream[j].answered /\ lost
    <3>1. a \in BOOLEAN /\ stream \in [Jobs -> StreamType] /\ stream' = [stream EXCEPT ![j].answered = a]
      BY <2>2 DEF Typed, HistoryTyped
    <3> HIDE DEF a, j
    <3> QED BY <2>1, <3>1 DEF StreamType
  <2>4. RequestTyped'
    BY <1>2, <2>1, AtEffect DEF Typed
  <2> QED BY <2>1, <2>3, <2>4, KeptParts DEF Typed, HistoryTyped
<1>9. CASE SignalAppend(c)
  <2> DEFINE j == req[c].job
  <2>1. /\ j \in Jobs /\ j \in touched
        /\ UNCHANGED << status, retries, pending, waiting, waitingByKey, wakeup, limiter, loop, woken, run,
                        started, touched, forced >>
    BY <1>1, <1>2, <1>9 DEF SignalAppend, index, scheduler, history
  <2>2. \/ stream' = [stream EXCEPT ![j].answered = TRUE] /\ At(c, "signalled", j)
        \/ At(c, "done", NoJob) /\ UNCHANGED stream
    BY <1>9 DEF SignalAppend
  <2>3. stream' \in [Jobs -> StreamType]
    <3>1. stream \in [Jobs -> StreamType]
      BY DEF Typed, HistoryTyped
    <3> HIDE DEF j
    <3> QED BY <2>1, <2>2, <3>1 DEF StreamType
  <2>4. RequestTyped'
    BY <1>2, <2>1, <2>2, AtEffect DEF Typed
  <2> QED BY <2>1, <2>3, <2>4, KeptParts DEF Typed, HistoryTyped
<1>10. CASE SignalStatus(c)
  <2>1. /\ req[c].job \in touched /\ req[c].job \in Jobs /\ At(c, "signal_notify", req[c].job)
        /\ UpdateStatus(req[c].job, "pending") /\ forced' = forced \cup {req[c].job}
        /\ UNCHANGED << wakeup, limiter, loop, woken, run, stream, started, touched >>
    BY <1>1, <1>2, <1>10 DEF SignalStatus, scheduler
  <2>2. StoreTyped'
    BY <1>2, <2>1 DEF Typed, UpdateStatus, StoreTyped, index
  <2>3. RequestTyped'
    BY <1>2, <2>1, AtEffect DEF Typed
  <2> QED BY <2>1, <2>2, <2>3, KeptParts DEF Typed, HistoryTyped
<1> QED BY <1>3, <1>4, <1>5, <1>6, <1>7, <1>8, <1>9, <1>10 DEF Request

\* Every step keeps the types.
LEMMA TypedNext == Typed /\ [Next]_vars => Typed'
<1> SUFFICES ASSUME Typed, [Next]_vars
             PROVE  Typed'
  OBVIOUS
<1>1. CASE UNCHANGED vars
  BY <1>1, KeptParts DEF vars, Typed, HistoryTyped
<1> QED BY <1>1, TypedLoop, TypedGoroutine, TypedRequest DEF Next

\* The types, always.
LEMMA TypedInvariant == Spec => []Typed
BY TypedInit, TypedNext, PTL DEF Spec

\* The shape of the store, the scheduler and the requests, and the count of the
\* limiter: no token is lost or given back twice, so that at most MaxConcurrency
\* goroutines run and the loop never blocks with nothing running.
THEOREM QueueTypeCorrect == Spec => []TypeOK
<1>1. Typed => TypeOK
  BY DEF Typed, TypeOK, StoreTyped, HistoryTyped, LoopTyped, RunTyped, RequestTyped, Counted, Busy,
         RunType, StreamType, RequestType, Addressed
<1> QED BY <1>1, TypedInvariant, PTL

-----------------------------------------------------------------------------
(* Status and queue agree *)

\* An appended job is queued, and so is every job that was.
LEMMA AppendQueued ==
    ASSUME StoreTyped, NEW m \in Jobs, pending' = Append(pending, m), NEW j \in Jobs, Queued(j) \/ j = m
    PROVE  Queued(j)'
<1>1. pending \in Seq(Jobs) /\ Len(pending) \in Nat
  BY DEF StoreTyped
<1>2. /\ Len(pending') = Len(pending) + 1
      /\ \A i \in 1..Len(pending) : pending'[i] = pending[i]
      /\ pending'[Len(pending) + 1] = m
  BY <1>1, AppendProperties
<1>3. CASE j = m
  <2>1. Len(pending) + 1 \in 1..Len(pending')
    BY <1>1, <1>2
  <2> QED BY <1>2, <1>3, <2>1 DEF Queued
<1>4. CASE Queued(j)
  <2>1. PICK i \in 1..Len(pending) : pending[i] = j
    BY <1>4 DEF Queued
  <2>2. i \in 1..Len(pending') /\ pending'[i] = j
    BY <1>1, <1>2, <2>1
  <2> QED BY <2>2 DEF Queued
<1> QED BY <1>3, <1>4

\* A claim takes one entry of the job it claims and no other.
LEMMA ClaimQueued ==
    ASSUME StoreTyped, Candidates # {}, pending' = Without(pending, Best),
           NEW j \in Jobs, Queued(j), j # pending[Best]
    PROVE  Queued(j)'
<1>1. PICK k \in 1..Len(pending) : pending[k] = j
  BY DEF Queued
<1>2. k # Best /\ Best \in 1..Len(pending) /\ pending \in Seq(Jobs)
  BY <1>1, BestIndex DEF StoreTyped
<1>3. PICK m \in 1..Len(pending') : pending'[m] = j
  BY <1>1, <1>2, WithoutFacts
<1> QED BY <1>3 DEF Queued

\* No step makes a job Pending, or takes it from the queue, on one side only.
LEMMA QueuedNext == Typed /\ PendingQueued /\ [Next]_vars => PendingQueued'
<1> SUFFICES ASSUME Typed, PendingQueued, [Next]_vars, NEW j \in Jobs, status'[j] = "pending", j \notin forced'
             PROVE  Queued(j)'
  BY DEF PendingQueued
<1>1. ASSUME j \notin forced, status[j] = "pending"
      PROVE  Queued(j)
  BY <1>1 DEF PendingQueued
<1>2. ASSUME UNCHANGED pending, UNCHANGED forced \/ forced \subseteq forced', status'[j] = "pending" => status[j] = "pending"
      PROVE  Queued(j)'
  BY <1>1, <1>2 DEF Queued
<1>3. ASSUME NEW m \in Jobs, status' = [status EXCEPT ![m] = "pending"], pending' = Append(pending, m), UNCHANGED forced
      PROVE  Queued(j)'
  <2>1. Queued(j) \/ j = m
    BY <1>1, <1>3 DEF Typed, StoreTyped
  <2> QED BY <1>3, <2>1, AppendQueued DEF Typed
<1>4. ASSUME NEW m \in Jobs, Create(m)
      PROVE  Queued(j)'
  BY <1>3, <1>4 DEF Create, history
<1>5. CASE TakeToken \/ Receive
  BY <1>2, <1>5 DEF TakeToken, Receive, history
<1>6. ASSUME NEW m \in Jobs, Spawn(m)
      PROVE  j # m /\ status[j] = "pending" /\ UNCHANGED forced
  BY <1>6 DEF Spawn, Typed, StoreTyped
<1>7. CASE ClaimParkedJob
  <2>1. CASE status[woken] \in Suspended
    <3>1. woken \in Jobs /\ Spawn(woken) /\ UNCHANGED pending
      BY <1>7, <2>1 DEF ClaimParkedJob, Typed, LoopTyped, HistoryTyped
    <3>2. status[j] = "pending" /\ UNCHANGED forced
      BY <1>6, <3>1
    <3> QED BY <1>2, <3>1, <3>2
  <2>2. CASE status[woken] \notin Suspended
    BY <1>2, <1>7, <2>2 DEF ClaimParkedJob, history
  <2> QED BY <2>1, <2>2
<1>8. CASE ClaimNextPending
  <2>1. CASE Candidates # {}
    <3>1. pending[Best] \in Jobs
      BY <2>1, BestIndex DEF Typed
    <3>2. Spawn(pending[Best]) /\ pending' = Without(pending, Best)
      BY <1>8, <2>1 DEF ClaimNextPending
    <3>3. j # pending[Best] /\ Queued(j)
      BY <1>1, <1>6, <3>1, <3>2
    <3> QED BY <2>1, <3>2, <3>3, ClaimQueued DEF Typed
  <2>2. CASE Candidates = {}
    BY <1>2, <1>8, <2>2 DEF ClaimNextPending, history
  <2> QED BY <2>1, <2>2
<1>9. ASSUME NEW m \in Jobs, NEW st, UpdateStatus(m, st), st = "pending" => status[m] = "pending", UNCHANGED forced
      PROVE  Queued(j)'
  <2>1. status[j] = "pending"
    BY <1>9 DEF UpdateStatus, Typed, StoreTyped
  <2> QED BY <1>2, <1>9, <2>1 DEF UpdateStatus
<1>10. ASSUME NEW s \in Slots, Goroutine(s)
       PROVE  Queued(j)'
  <2>1. ASSUME run[s].at # "none"
        PROVE  run[s].job \in Jobs
    BY <2>1 DEF Typed, RunTyped
  <2>2. CASE RunEvent(s) \/ RunJobAppend(s)
    BY <1>2, <2>2 DEF RunEvent, RunJobAppend, history
  <2>3. CASE RunStatus(s)
    <3>1. run[s].job \in Jobs /\ UNCHANGED forced
      BY <2>1, <2>3 DEF RunStatus, history
    <3>2. PICK st \in {"completed", "failed", "waiting", "parked", status[run[s].job]} : UpdateStatus(run[s].job, st)
      <4>1. CASE run[s].result = "completed"
        BY <2>3, <4>1 DEF RunStatus
      <4>2. CASE run[s].result = "waiting"
        BY <2>3, <4>2 DEF RunStatus, Suspended
      <4>3. CASE run[s].result = "error"
        BY <2>3, <4>3 DEF RunStatus
      <4>4. CASE run[s].result \notin {"completed", "waiting", "error"}
        BY <2>3, <4>4 DEF RunStatus
      <4> QED BY <4>1, <4>2, <4>3, <4>4
    <3> QED BY <1>9, <3>1, <3>2
  <2>4. CASE Settle(s)
    <3>1. run[s].job \in Jobs /\ UNCHANGED forced
      BY <2>1, <2>4 DEF Settle, history
    <3>2. \/ Requeue(run[s].job, run[s].retry)
          \/ UpdateStatus(run[s].job, "failed")
          \/ UpdateStatus(run[s].job, "completed")
      BY <2>4 DEF Settle
    <3>3. CASE Requeue(run[s].job, run[s].retry)
      BY <1>3, <3>1, <3>3 DEF Requeue
    <3> QED BY <1>9, <3>1, <3>2, <3>3
  <2> QED BY <1>10, <2>2, <2>3, <2>4 DEF Goroutine
<1>11. ASSUME NEW c \in Clients, Request(c)
       PROVE  Queued(j)'
  <2>1. ASSUME req[c].at \in {"pause", "signalled"}
        PROVE  req[c].job \in Jobs
    BY <2>1 DEF Typed, RequestTyped, HistoryTyped, Addressed
  <2>2. ASSUME NEW m \in Jobs, PauseCheck(c, m) \/ SignalCheck(c, m)
        PROVE  Queued(j)'
    BY <1>2, <2>2 DEF PauseCheck, SignalCheck
  <2>3. CASE PausePark(c)
    <3>1. req[c].job \in Jobs /\ UNCHANGED << pending, forced >> /\ status' = [status EXCEPT ![req[c].job] = "parked"]
      BY <2>1, <2>3 DEF PausePark, SetParked, history
    <3>2. status[j] = "pending"
      BY <3>1 DEF Typed, StoreTyped
    <3> QED BY <1>2, <3>1, <3>2
  <2>4. ASSUME NEW m \in Jobs, ResumeByKey(c, m)
        PROVE  Queued(j)'
    <3>1. PICK k \in Keys : WakeupJob(k)
      BY <2>4 DEF ResumeByKey
    <3>2. UNCHANGED forced
      BY <2>4 DEF ResumeByKey
    <3>3. CASE waitingByKey[k] = NoJob
      BY <1>2, <3>1, <3>2, <3>3 DEF WakeupJob
    <3>4. CASE waitingByKey[k] # NoJob
      <4>1. waitingByKey[k] \in Jobs
        BY <3>4 DEF Typed, StoreTyped
      <4> QED BY <1>3, <3>1, <3>2, <3>4, <4>1 DEF WakeupJob
    <3> QED BY <3>3, <3>4
  <2>5. ASSUME NEW m \in Jobs, UpdateStatus(m, "pending"), forced' = forced \cup {m}
        PROVE  Queued(j)'
    <3>1. j # m
      BY <2>5
    <3>2. status[j] = "pending"
      BY <2>5, <3>1 DEF UpdateStatus, Typed, StoreTyped
    <3> QED BY <1>2, <2>5, <3>2 DEF UpdateStatus
  <2>6. ASSUME NEW m \in Jobs, ResumeByStatus(c, m)
        PROVE  Queued(j)'
    BY <2>5, <2>6 DEF ResumeByStatus
  <2>7. CASE SignalStatus(c)
    BY <2>1, <2>5, <2>7 DEF SignalStatus
  <2>8. CASE ResumeNotify(c) \/ SignalNotify(c) \/ RequestLog(c) \/ SignalAppend(c)
    BY <1>2, <2>8 DEF ResumeNotify, SignalNotify, RequestLog, SignalAppend, history
  <2> QED BY <1>11, <2>2, <2>3, <2>4, <2>6, <2>7, <2>8 DEF Request
<1>12. CASE UNCHANGED vars
  BY <1>2, <1>12 DEF vars
<1> QED BY <1>4, <1>5, <1>7, <1>8, <1>10, <1>11, <1>12 DEF Next, Loop

\* A Pending job whose status no request has forced is in the queue, through any
\* interleaving of claims, retries, pauses and wakeups.
THEOREM PendingAlwaysQueued == Spec => []PendingQueued
<1>1. Init => PendingQueued
  BY DEF Init, PendingQueued
<1> QED BY <1>1, TypedInvariant, QueuedNext, PTL DEF Spec

-----------------------------------------------------------------------------
(* Jobs that requests leave alone *)

\* The goroutine in slot s has run job j as often as its copy says.
RunOf(s, j) ==
    /\ run[s].at \in {"run", "status"} => status[j] = "running"
    /\ status[j] \notin {"absent", "pending"}
    /\ status[j] = "completed" => run[s].result = "completed"
    /\ run[s].retry = retries[j]
    /\ retries[j] <= RetryMax
    /\ started[j] = retries[j] + 1

\* One goroutine at most; each start is counted by a retry that was allowed.
Undisturbed(j) ==
    /\ \A s, t \in Slots : run[s].job = j /\ run[t].job = j => s = t
    /\ \A s \in Slots : run[s].job = j => RunOf(s, j)
    /\ status[j] = "pending" => retries[j] <= RetryMax /\ started[j] = retries[j]
    /\ status[j] = "absent" => retries[j] = 0 /\ started[j] = 0
    /\ started[j] <= RetryMax + 1

Alone == \A j \in Jobs \ touched : Undisturbed(j)

\* Job j is not the one a step is about.
LEMMA OtherJobs ==
    ASSUME NEW s \in Slots, \A t \in Slots : t # s => run'[t] = run[t],
           NEW j \in Jobs, run[s].job # j, run'[s].job # j, Undisturbed(j),
           status'[j] = status[j], retries'[j] = retries[j], started'[j] = started[j]
    PROVE  Undisturbed(j)'
<1>1. ASSUME NEW t \in Slots, run'[t].job = j
      PROVE  run'[t] = run[t]
  BY <1>1
<1>2. ASSUME NEW t \in Slots, run'[t].job = j
      PROVE  RunOf(t, j)'
  <2>1. run'[t] = run[t] /\ run[t].job = j
    BY <1>1, <1>2
  <2>2. RunOf(t, j)
    BY <2>1 DEF Undisturbed
  <2> QED BY <2>1, <2>2 DEF RunOf
<1>3. \A t, u \in Slots : run'[t].job = j /\ run'[u].job = j => t = u
  BY <1>1 DEF Undisturbed
<1> QED BY <1>2, <1>3 DEF Undisturbed

\* The same for a step that no goroutine takes.
LEMMA OtherSteps ==
    ASSUME UNCHANGED run, NEW j \in Jobs, Undisturbed(j),
           status'[j] = status[j], retries'[j] = retries[j], started'[j] = started[j]
    PROVE  Undisturbed(j)'
BY DEF Undisturbed, RunOf

\* Everything holds of jobs that are not created yet.
LEMMA AloneInit == Init => Alone
BY JobQueueAssumption DEF Init, Alone, Undisturbed, Idle

\* Creating a job and the loop.
LEMMA AloneLoop ==
    ASSUME Typed, Alone, Loop \/ \E m \in Jobs : Create(m)
    PROVE  Alone'
<1> SUFFICES ASSUME NEW j \in Jobs \ touched'
             PROVE  Undisturbed(j)'
  BY DEF Alone
<1>1. /\ status \in [Jobs -> Statuses] /\ retries \in [Jobs -> Nat] /\ started \in [Jobs -> Nat]
      /\ RetryMax \in Nat
  BY JobQueueAssumption DEF Typed, StoreTyped, HistoryTyped
<1>2. ASSUME NEW m \in Jobs, Create(m)
      PROVE  Undisturbed(j)'
  <2>1. /\ j \in Jobs \ touched /\ status[m] = "absent" /\ status' = [status EXCEPT ![m] = "pending"]
        /\ UNCHANGED << run, retries, started >>
    BY <1>2 DEF Create, history
  <2>2. Undisturbed(j)
    BY <2>1 DEF Alone
  <2>3. CASE j # m
    BY <1>1, <2>1, <2>2, <2>3, OtherSteps
  <2>4. CASE j = m
    <3>1. status'[j] = "pending" /\ retries'[j] = 0 /\ started'[j] = 0
      BY <1>1, <2>1, <2>2, <2>4 DEF Undisturbed
    <3>2. \A s \in Slots : run'[s].job # j
      BY <2>1, <2>2, <2>4 DEF Undisturbed, RunOf
    <3> QED BY <1>1, <3>1, <3>2 DEF Undisturbed
  <2> QED BY <2>3, <2>4
<1>3. CASE TakeToken \/ Receive
  BY <1>3, OtherSteps DEF TakeToken, Receive, history, Alone
<1>4. ASSUME NEW m \in Jobs, Spawn(m), loop # "limiter", m \in touched \/ status[m] = "pending"
      PROVE  Undisturbed(j)'
  <2>1. /\ status' = [status EXCEPT ![m] = "running"]
        /\ started' = [started EXCEPT ![m] = started[m] + 1]
        /\ UNCHANGED << retries, touched >>
    BY <1>4, SpawnEffect
  <2>2. PICK s \in Slots : run[s] = Idle /\ RunMove(s, "run", m, retries[m], "none")
    BY <1>4, SpawnEffect
  <2>3. j \notin touched /\ Undisturbed(j)
    BY <2>1 DEF Alone
  <2>4. run[s].job # j
    BY <2>2, JobQueueAssumption DEF Idle
  <2>5. CASE j # m
    <3>1. status'[j] = status[j] /\ retries'[j] = retries[j] /\ started'[j] = started[j]
      BY <1>1, <2>1, <2>5
    <3>2. run'[s].job # j /\ \A t \in Slots : t # s => run'[t] = run[t]
      BY <2>2, <2>5 DEF RunMove
    <3> QED BY <2>3, <2>4, <3>1, <3>2, OtherJobs
  <2>6. CASE j = m
    <3>1. status[j] = "pending" /\ retries[j] <= RetryMax /\ started[j] = retries[j]
      BY <1>4, <2>3, <2>6 DEF Undisturbed
    <3>2. \A t \in Slots : run[t].job # j
      BY <2>3, <3>1 DEF Undisturbed, RunOf
    <3>3. \A t \in Slots : run'[t].job = j => t = s
      BY <2>2, <3>2 DEF RunMove
    <3>4. status'[j] = "running" /\ retries'[j] = retries[j] /\ started'[j] = retries[j] + 1
      BY <1>1, <2>1, <2>6, <3>1
    <3>5. run'[s].retry = retries[j]
      BY <2>2, <2>6 DEF RunMove
    <3>6. RunOf(s, j)'
      BY <3>1, <3>4, <3>5 DEF RunOf
    <3>7. started'[j] <= RetryMax + 1
      BY <1>1, <3>1, <3>4
    <3> QED BY <3>3, <3>4, <3>6, <3>7 DEF Undisturbed
  <2> QED BY <2>5, <2>6
<1>5. CASE ClaimParkedJob
  <2>1. woken \in touched /\ woken \in Jobs /\ loop = "woken"
    BY <1>5 DEF ClaimParkedJob, Typed, LoopTyped, HistoryTyped
  <2>2. CASE status[woken] \in Suspended
    BY <1>4, <1>5, <2>1, <2>2 DEF ClaimParkedJob
  <2>3. CASE status[woken] \notin Suspended
    BY <1>5, <2>3, OtherSteps DEF ClaimParkedJob, history, Alone
  <2> QED BY <2>2, <2>3
<1>6. CASE ClaimNextPending
  <2>1. CASE Candidates # {}
    <3>1. pending[Best] \in Jobs /\ status[pending[Best]] = "pending"
      BY <2>1, BestIndex DEF Typed, Candidates
    <3> QED BY <1>4, <1>6, <2>1, <3>1 DEF ClaimNextPending
  <2>2. CASE Candidates = {}
    BY <1>6, <2>2, OtherSteps DEF ClaimNextPending, history, Alone
  <2> QED BY <2>1, <2>2
<1> QED BY <1>2, <1>3, <1>5, <1>6 DEF Loop

\* The statuses RunForJob may write.
LEMMA RunStatusChoices ==
    ASSUME NEW s \in Slots, RunStatus(s)
    PROVE  \E st : /\ UpdateStatus(run[s].job, st)
                   /\ st \in {"completed", "failed", "waiting", "parked", status[run[s].job]}
                   /\ st = "completed" => run[s].result = "completed" \/ status[run[s].job] = "completed"
<1>1. CASE run[s].result = "completed"
  BY <1>1 DEF RunStatus
<1>2. CASE run[s].result = "waiting"
  BY <1>2 DEF RunStatus, Suspended
<1>3. CASE run[s].result = "error"
  BY <1>3 DEF RunStatus
<1>4. CASE run[s].result \notin {"completed", "waiting", "error"}
  BY <1>4 DEF RunStatus
<1> QED BY <1>1, <1>2, <1>3, <1>4

\* The goroutine of a job is the only one that writes its status.
LEMMA AloneGoroutine ==
    ASSUME Typed, Alone, NEW s \in Slots, Goroutine(s)
    PROVE  Alone'
<1> SUFFICES ASSUME NEW j \in Jobs \ touched'
             PROVE  Undisturbed(j)'
  BY DEF Alone
<1> DEFINE m == run[s].job
<1>1. /\ status \in [Jobs -> Statuses] /\ retries \in [Jobs -> Nat] /\ started \in [Jobs -> Nat]
      /\ RetryMax \in Nat
  BY JobQueueAssumption DEF Typed, StoreTyped, HistoryTyped
<1>2. run[s].at # "none" => m \in Jobs /\ run[s].retry \in Nat
  BY DEF Typed, RunTyped, RunType
<1>3. UNCHANGED << touched, started >> /\ Undisturbed(j)
  BY DEF Goroutine, RunEvent, RunStatus, RunJobAppend, Settle, history, Alone
<1>4. ASSUME NEW at, NEW result, RunMove(s, at, m, run[s].retry, result), UNCHANGED retries,
             j # m => status'[j] = status[j],
             j = m => /\ at \in {"run", "status"} => status'[j] = "running"
                      /\ status'[j] \notin {"absent", "pending"}
                      /\ status'[j] = "completed" => result = "completed"
      PROVE  Undisturbed(j)'
  <2>1. /\ run'[s].at = at /\ run'[s].job = m /\ run'[s].retry = run[s].retry /\ run'[s].result = result
        /\ \A t \in Slots : t # s => run'[t] = run[t]
    BY <1>4 DEF RunMove
  <2>2. CASE j # m
    BY <1>3, <1>4, <2>1, <2>2, OtherJobs
  <2>3. CASE j = m
    <3>1. RunOf(s, j)
      BY <1>3, <2>3 DEF Undisturbed
    <3>2. RunOf(s, j)'
      BY <1>3, <1>4, <2>1, <2>3, <3>1 DEF RunOf
    <3>3. \A t \in Slots : run'[t].job = j => t = s
      BY <1>3, <2>1, <2>3 DEF Undisturbed
    <3>4. started'[j] <= RetryMax + 1
      BY <1>3 DEF Undisturbed
    <3>5. status'[j] \notin {"absent", "pending"}
      BY <1>4, <2>3
    <3> QED BY <3>2, <3>3, <3>4, <3>5 DEF Undisturbed
  <2> QED BY <2>2, <2>3
<1>5. ASSUME j = m
      PROVE  RunOf(s, j)
  BY <1>3, <1>5 DEF Undisturbed
<1>6. "error" \in Results
  BY DEF Results
<1>7. CASE RunEvent(s)
  <2>1. PICK r \in Results, p \in {"settle", "status"} : run' = [run EXCEPT ![s].result = r, ![s].at = p]
    BY <1>7 DEF RunEvent
  <2>2. RunMove(s, p, m, run[s].retry, r)
    BY <2>1, RunFieldMoves DEF Typed
  <2>3. run[s].at = "run" /\ UNCHANGED << status, retries >>
    BY <1>7 DEF RunEvent
  <2>4. j = m => status'[j] = "running"
    BY <1>5, <2>3 DEF RunOf
  <2> QED BY <1>4, <2>2, <2>3, <2>4
<1>8. CASE RunStatus(s)
  <2>1. /\ run[s].at = "status" /\ m \in Jobs /\ run' = [run EXCEPT ![s].at = "append"]
    BY <1>2, <1>8 DEF RunStatus
  <2>2. RunMove(s, "append", m, run[s].retry, run[s].result)
    BY <1>6, <2>1, RunFieldMoves DEF Typed
  <2>3. PICK st : /\ UpdateStatus(m, st)
                  /\ st \in {"completed", "failed", "waiting", "parked", status[m]}
                  /\ st = "completed" => run[s].result = "completed" \/ status[m] = "completed"
    BY <1>8, RunStatusChoices
  <2>4. UNCHANGED retries /\ (j # m => status'[j] = status[j]) /\ (j = m => status'[j] = st)
    BY <1>1, <2>1, <2>3 DEF UpdateStatus
  <2>5. j = m => st \notin {"absent", "pending"} /\ (st = "completed" => run[s].result = "completed")
    BY <1>5, <2>1, <2>3 DEF RunOf
  <2> QED BY <1>4, <2>2, <2>4, <2>5
<1>9. CASE RunJobAppend(s)
  <2>1. /\ run[s].at = "append" /\ run' = [run EXCEPT ![s].at = "settle"] /\ UNCHANGED << status, retries >>
    BY <1>9 DEF RunJobAppend
  <2>2. RunMove(s, "settle", m, run[s].retry, run[s].result)
    BY <1>6, <2>1, RunFieldMoves DEF Typed
  <2>3. j = m => status[j] \notin {"absent", "pending"} /\ (status[j] = "completed" => run[s].result = "completed")
    BY <1>5 DEF RunOf
  <2> QED BY <1>4, <2>1, <2>2, <2>3
<1>10. CASE Settle(s)
  <2>1. run[s].at = "settle" /\ m \in Jobs /\ run[s].retry \in Nat /\ run' = [run EXCEPT ![s] = Idle]
    BY <1>2, <1>10 DEF Settle
  <2>2. run'[s] = Idle /\ \A t \in Slots : t # s => run'[t] = run[t]
    BY <2>1, RunTypedEnd DEF Typed
  <2>3. run'[s].job # j
    BY <2>2, JobQueueAssumption DEF Idle
  <2>4. \/ Requeue(m, run[s].retry) /\ run[s].retry < RetryMax
        \/ UpdateStatus(m, "failed")
        \/ UpdateStatus(m, "completed")
    BY <1>10 DEF Settle
  <2>5. CASE j # m
    <3>1. status'[j] = status[j] /\ retries'[j] = retries[j]
      BY <1>1, <2>1, <2>4, <2>5 DEF Requeue, UpdateStatus
    <3> QED BY <1>3, <2>2, <2>3, <2>5, <3>1, OtherJobs
  <2>6. CASE j = m
    <3>1. RunOf(s, j) /\ started'[j] = started[j]
      BY <1>3, <1>5, <2>6
    <3>2. \A t \in Slots : run'[t].job # j
      BY <1>3, <2>2, <2>3, <2>6 DEF Undisturbed
    <3>3. CASE Requeue(m, run[s].retry) /\ run[s].retry < RetryMax
      <4>1. status'[j] = "pending" /\ retries'[j] = run[s].retry + 1
        BY <1>1, <2>6, <3>3 DEF Requeue
      <4>2. retries'[j] <= RetryMax /\ started'[j] = retries'[j] /\ started'[j] <= RetryMax + 1
        BY <1>1, <2>1, <3>1, <3>3, <4>1 DEF RunOf
      <4> QED BY <3>2, <4>1, <4>2 DEF Undisturbed
    <3>4. CASE UpdateStatus(m, "failed") \/ UpdateStatus(m, "completed")
      <4>1. status'[j] \in {"failed", "completed"}
        BY <1>1, <2>6, <3>4 DEF UpdateStatus
      <4>2. started'[j] <= RetryMax + 1
        BY <1>3, <3>1 DEF Undisturbed
      <4> QED BY <3>2, <4>1, <4>2 DEF Undisturbed
    <3> QED BY <2>4, <3>3, <3>4
  <2> QED BY <2>5, <2>6
<1> QED BY <1>7, <1>8, <1>9, <1>10 DEF Goroutine

\* A request changes the status of touched jobs only.
LEMMA RequestTouches ==
    ASSUME Typed, NEW c \in Clients, Request(c), NEW j \in Jobs, j \notin touched'
    PROVE  /\ j \notin touched /\ status'[j] = status[j] /\ retries'[j] = retries[j]
           /\ started'[j] = started[j] /\ UNCHANGED run
<1>1. /\ status \in [Jobs -> Statuses] /\ retries \in [Jobs -> Nat] /\ started \in [Jobs -> Nat]
  BY DEF Typed, StoreTyped, HistoryTyped
<1>2. ASSUME req[c].at \in Addressed
      PROVE  req[c].job \in touched /\ req[c].job \in Jobs
  BY <1>2 DEF Typed, RequestTyped, HistoryTyped
<1>3. ASSUME NEW m \in Jobs, PauseCheck(c, m) \/ SignalCheck(c, m)
      PROVE  j \notin touched /\ UNCHANGED << status, retries, started, run >>
  BY <1>3 DEF PauseCheck, SignalCheck
<1>4. CASE PausePark(c)
  <2>1. req[c].job \in touched /\ req[c].job \in Jobs
    BY <1>2, <1>4 DEF PausePark, Addressed
  <2>2. status' = [status EXCEPT ![req[c].job] = "parked"] /\ UNCHANGED << retries, started, touched, run >>
    BY <1>4 DEF PausePark, SetParked, history
  <2> QED BY <1>1, <2>1, <2>2
<1>5. ASSUME NEW m \in Jobs, ResumeByKey(c, m)
      PROVE  j \notin touched /\ status'[j] = status[j] /\ UNCHANGED << retries, started, run >>
  <2>1. PICK k \in Keys : WakeupJob(k) /\ touched' = touched \cup ({m, waitingByKey[k]} \cap Jobs)
    BY <1>5 DEF ResumeByKey
  <2>2. UNCHANGED << retries, started, run >> /\ j \notin touched /\ j # waitingByKey[k]
    BY <1>5, <2>1 DEF ResumeByKey, WakeupJob
  <2>3. status' = status \/ status' = [status EXCEPT ![waitingByKey[k]] = "pending"]
    BY <2>1 DEF WakeupJob
  <2> QED BY <1>1, <2>2, <2>3
<1>6. ASSUME NEW m \in Jobs, ResumeByStatus(c, m)
      PROVE  j \notin touched /\ status'[j] = status[j] /\ UNCHANGED << retries, started, run >>
  BY <1>1, <1>6 DEF ResumeByStatus, UpdateStatus
<1>7. CASE SignalStatus(c)
  <2>1. req[c].job \in touched /\ req[c].job \in Jobs
    BY <1>2, <1>7 DEF SignalStatus, Addressed
  <2>2. status' = [status EXCEPT ![req[c].job] = "pending"] /\ UNCHANGED << retries, started, touched, run >>
    BY <1>7 DEF SignalStatus, UpdateStatus
  <2> QED BY <1>1, <2>1, <2>2
<1>8. CASE ResumeNotify(c) \/ SignalNotify(c) \/ RequestLog(c) \/ SignalAppend(c)
  BY <1>8 DEF ResumeNotify, SignalNotify, RequestLog, SignalAppend, history
<1> QED BY <1>3, <1>4, <1>5, <1>6, <1>7, <1>8 DEF Request

\* Every step keeps undisturbed jobs in order.
LEMMA AloneNext == Typed /\ Alone /\ [Next]_vars => Alone'
<1> SUFFICES ASSUME Typed, Alone, [Next]_vars
             PROVE  Alone'
  OBVIOUS
<1>1. ASSUME NEW c \in Clients, Request(c)
      PROVE  Alone'
  <2> SUFFICES ASSUME NEW j \in Jobs \ touched'
               PROVE  Undisturbed(j)'
    BY DEF Alone
  <2>1. /\ j \notin touched /\ status'[j] = status[j] /\ retries'[j] = retries[j]
        /\ started'[j] = started[j] /\ UNCHANGED run
    BY <1>1, RequestTouches
  <2>2. Undisturbed(j)
    BY <2>1 DEF Alone
  <2> QED BY <2>1, <2>2, OtherSteps
<1>2. CASE UNCHANGED vars
  BY <1>2, OtherSteps DEF vars, Alone
<1> QED BY <1>1, <1>2, AloneLoop, AloneGoroutine DEF Next

\* Undisturbed jobs are in order, always.
LEMMA AloneInvariant == Spec => []Alone
BY TypedInvariant, AloneInit, AloneNext, PTL DEF Spec

\* A job that no request touches is run by one goroutine at a time and cannot be
\* claimed again while it runs.
THEOREM OneRunAtATime == Spec => []RunAlone
<1>1. ASSUME Alone
      PROVE  RunAlone
  <2> SUFFICES ASSUME NEW j \in Jobs \ touched
               PROVE  Cardinality(RunsOf(j)) <= 1 /\ (RunsOf(j) # {} => status[j] # "pending")
    BY DEF RunAlone
  <2>1. Undisturbed(j)
    BY <1>1 DEF Alone
  <2>2. CASE RunsOf(j) = {}
    BY <2>2, FS_EmptySet
  <2>3. CASE RunsOf(j) # {}
    <3>1. PICK s \in Slots : s \in RunsOf(j)
      BY <2>3 DEF RunsOf
    <3>2. RunsOf(j) = {s}
      BY <2>1, <3>1 DEF Undisturbed, RunsOf
    <3>3. status[j] # "pending"
      BY <2>1, <3>1 DEF Undisturbed, RunOf, RunsOf
    <3>4. Cardinality(RunsOf(j)) = 1
      BY <3>2, FS_Singleton
    <3> QED BY <3>3, <3>4
  <2> QED BY <2>2, <2>3
<1> QED BY <1>1, AloneInvariant, PTL

\* A failing job that no request touches is given up after RetryMax retries.
THEOREM RetriesAreBounded == Spec => []RetriesBounded
<1>1. Alone => RetriesBounded
  BY DEF Alone, Undisturbed, RetriesBounded
<1> QED BY <1>1, AloneInvariant, PTL
=============================================================================
