----------------------------- MODULE EventStore -----------------------------
(***************************************************************************)
(* The job event store of internal/runtime/jobstore: versioned append,     *)
(* leases and attempt fencing.                                             *)
(*                                                                         *)
(* The processes are the executions of a job, each identified by the       *)
(* attempt_id its Claim generated, and the API writers, which append       *)
(* without an attempt_id.  A call is split where another process may       *)
(* interleave: between the queries of the PostgreSQL store, and between    *)
(* the read-locked attempt check and the write-locked append of the        *)
(* in-memory store.  A process that crashes simply takes no further step.  *)
(*                                                                         *)
(* Time is abstracted to the one bit the code reads off it: whether the    *)
(* lease of a job has expired.  A lease may expire at any moment, since a  *)
(* process may be paused for longer than any lease.                        *)
(***************************************************************************)
EXTENDS Naturals, Sequences

CONSTANTS Jobs,          \* job identifiers
          Attempts,      \* attempt identifiers, each generated by one Claim
          Workers,       \* worker identifiers
          WorkerOf,      \* the worker that generates an attempt identifier
          Types,         \* event types
          Terminal,      \* job_completed, job_failed and job_cancelled
          APIWriters,    \* processes that append without an attempt_id
          Backend,       \* "postgres" or "memory"
          MaxVersion,    \* bound on the length of a log
          NoAttempt      \* the attempt of a job that was never claimed

ASSUME EventStoreAssumption ==
    /\ WorkerOf \in [Attempts -> Workers]
    /\ Attempts \cap APIWriters = {}
    /\ NoAttempt \notin Attempts
    /\ Terminal \subseteq Types
    /\ Backend \in {"postgres", "memory"}
    /\ MaxVersion \in Nat
    /\ Jobs # {}

Procs == Attempts \cup APIWriters

\* The empty prev_hash of a first event; hashes are positive.
GenesisHash == 0

VARIABLES
    log,        \* log[j]: the events of job j, index = version
    claims,     \* claims[j]: the lease row of job j
    pc,         \* pc[p]: where process p is in its current call
    target,     \* target[p]: the job p works on
    expected,   \* expected[p]: the version p read and passes to Append
    prev,       \* prev[p]: the predecessor hash p's Append has read
    epoch,      \* history: epoch[a] is the rank of a's claim, 0 before it
    lastEpoch,  \* history: the number of claims granted so far
    nextHash,   \* the hash the next stored event gets (all hashes differ)
    acked       \* history: the appends that were reported successful

vars == << log, claims, pc, target, expected, prev, epoch, lastEpoch, nextHash, acked >>

Version(j) == Len(log[j])

\* claims row absent: modelled as the expired lease of NoAttempt.
Unclaimed == [attempt |-> NoAttempt, live |-> FALSE]

HashAt(j, v) == IF v = 0 THEN GenesisHash ELSE log[j][v].hash

\* Both queries and the in-memory scan: the last event is not a terminal one
\* and no unexpired lease exists.
Claimable(j) ==
    /\ log[j] # << >>
    /\ log[j][Version(j)].type \notin Terminal
    /\ ~ claims[j].live

Init ==
    /\ log = [j \in Jobs |-> << >>]
    /\ claims = [j \in Jobs |-> Unclaimed]
    /\ pc = [p \in Procs |-> IF p \in Attempts THEN "unclaimed" ELSE "idle"]
    /\ target = [p \in Procs |-> CHOOSE j \in Jobs : TRUE]
    /\ expected = [p \in Procs |-> 0]
    /\ prev = [p \in Procs |-> GenesisHash]
    /\ epoch = [a \in Attempts |-> 0]
    /\ lastEpoch = 0
    /\ nextHash = 1
    /\ acked = {}

-----------------------------------------------------------------------------
(* Claim and ClaimJob *)

\* The lease row of j becomes a's, with a full lease; a executes j from here.
Grant(a, j) ==
    /\ claims' = [claims EXCEPT ![j] = [attempt |-> a, live |-> TRUE]]
    /\ lastEpoch' = lastEpoch + 1
    /\ epoch' = [epoch EXCEPT ![a] = lastEpoch + 1]
    /\ target' = [target EXCEPT ![a] = j]
    /\ pc' = [pc EXCEPT ![a] = "idle"]
    /\ UNCHANGED << log, expected, prev, nextHash, acked >>

\* postgres: the SELECT that finds a claimable job.
ClaimSelect(a, j) ==
    /\ Backend = "postgres"
    /\ pc[a] = "unclaimed"
    /\ Claimable(j)
    /\ target' = [target EXCEPT ![a] = j]
    /\ pc' = [pc EXCEPT ![a] = "selected"]
    /\ UNCHANGED << log, claims, expected, prev, epoch, lastEpoch, nextHash, acked >>

\* postgres: the upsert of the lease row, which looks at nothing but the job.
ClaimUpsert(a) ==
    /\ pc[a] = "selected"
    /\ Grant(a, target[a])

\* Mutant of ClaimLocked: the lease of another worker is not looked at.
ClaimLockedBlind(a, j) ==
    /\ Backend = "memory"
    /\ pc[a] = "unclaimed"
    /\ log[j] # << >>
    /\ Grant(a, j)

\* memory: select and grant under one lock.
ClaimLocked(a, j) ==
    /\ Backend = "memory"
    /\ pc[a] = "unclaimed"
    /\ Claimable(j)
    /\ Grant(a, j)

-----------------------------------------------------------------------------
(* Leases *)

\* The lease duration passes without a heartbeat.
Expire(j) ==
    /\ claims[j].live
    /\ claims' = [claims EXCEPT ![j].live = FALSE]
    /\ UNCHANGED << log, pc, target, expected, prev, epoch, lastEpoch, nextHash, acked >>

\* postgres renews the row of this very attempt, expired or not; memory
\* renews an unexpired row of this worker, whichever attempt it carries.
Renewable(a) ==
    LET c == claims[target[a]] IN
    IF Backend = "postgres"
    THEN c.attempt = a
    ELSE c.live /\ c.attempt # NoAttempt /\ WorkerOf[c.attempt] = WorkerOf[a]

Heartbeat(a) ==
    /\ pc[a] \notin {"unclaimed", "selected"}
    /\ Renewable(a)
    /\ claims' = [claims EXCEPT ![target[a]].live = TRUE]
    /\ UNCHANGED << log, pc, target, expected, prev, epoch, lastEpoch, nextHash, acked >>

-----------------------------------------------------------------------------
(* Append *)

\* The caller reads the log (ListEvents) and calls Append with its version.
\* An API writer chooses its job here and has no attempt to check.
BeginAppend(p, j) ==
    /\ pc[p] = "idle"
    /\ p \in Attempts => j = target[p]
    /\ Version(j) < MaxVersion
    /\ target' = [target EXCEPT ![p] = j]
    /\ expected' = [expected EXCEPT ![p] = Version(j)]
    /\ pc' = [pc EXCEPT ![p] = IF p \in Attempts THEN "fence" ELSE "compare"]
    /\ UNCHANGED << log, claims, prev, epoch, lastEpoch, nextHash, acked >>

\* Mutant of HoldsLease: any unexpired lease will do.
SomeLeaseHeld(a) == claims[target[a]].live

\* The attempt_id in the context is the one of the unexpired lease.
HoldsLease(a) ==
    /\ claims[target[a]].attempt = a
    /\ claims[target[a]].live

AppendFence(a) ==
    /\ pc[a] = "fence"
    /\ pc' = [pc EXCEPT ![a] = IF HoldsLease(a) THEN "compare" ELSE "idle"]
    /\ UNCHANGED << log, claims, target, expected, prev, epoch, lastEpoch, nextHash, acked >>

\* Mutant of StoredEvent: hash and prev_hash are swapped.
StoredEventSwapped(p, type, prevHash) ==
    [type |-> type, writer |-> p, prev |-> nextHash, hash |-> prevHash]

\* The event p stores at the end of its job's log.
StoredEvent(p, type, prevHash) ==
    [type |-> type, writer |-> p, prev |-> prevHash, hash |-> nextHash]

\* p's event becomes version expected[p] + 1 and the caller is told so.
Store(p, type, prevHash) ==
    /\ log' = [log EXCEPT ![target[p]] = Append(@, StoredEvent(p, type, prevHash))]
    /\ nextHash' = nextHash + 1
    /\ acked' = acked \cup {<< p, target[p], expected[p] + 1 >>}
    /\ pc' = [pc EXCEPT ![p] = "idle"]
    /\ UNCHANGED << claims, target, expected, prev, epoch, lastEpoch >>

\* ErrVersionMismatch.
Mismatch(p) ==
    /\ pc' = [pc EXCEPT ![p] = "idle"]
    /\ UNCHANGED << log, claims, target, expected, prev, epoch, lastEpoch, nextHash, acked >>

\* postgres: MAX(version) against the expected version, then the hash of the
\* event at that version.  Rows never change, so the two reads are one step.
AppendCompare(p) ==
    /\ Backend = "postgres"
    /\ pc[p] = "compare"
    /\ \/ /\ Version(target[p]) = expected[p]
          /\ prev' = [prev EXCEPT ![p] = HashAt(target[p], expected[p])]
          /\ pc' = [pc EXCEPT ![p] = "insert"]
          /\ UNCHANGED << log, claims, target, expected, epoch, lastEpoch, nextHash, acked >>
       \/ Version(target[p]) # expected[p] /\ Mismatch(p)

\* Mutant of VersionFree: (job_id, version) is not unique.
VersionNotUnique(p) == pc[p] = "insert"

\* postgres: the INSERT; (job_id, version) is unique, and no version is ever
\* skipped, so the row goes in exactly when version expected[p] is the last.
VersionFree(p) == Version(target[p]) = expected[p]

AppendInsert(p) ==
    /\ pc[p] = "insert"
    /\ \/ /\ VersionFree(p)
          /\ \E type \in Types : Store(p, type, prev[p])
       \/ ~ VersionFree(p) /\ Mismatch(p)

\* memory: compare and append under the write lock.
AppendLocked(p) ==
    /\ Backend = "memory"
    /\ pc[p] = "compare"
    /\ \/ /\ Version(target[p]) = expected[p]
          /\ \E type \in Types :
                Store(p, type, HashAt(target[p], Version(target[p])))
       \/ Version(target[p]) # expected[p] /\ Mismatch(p)

-----------------------------------------------------------------------------
Next ==
    \/ \E a \in Attempts, j \in Jobs : ClaimSelect(a, j) \/ ClaimLocked(a, j)
    \/ \E a \in Attempts : ClaimUpsert(a) \/ Heartbeat(a) \/ AppendFence(a)
    \/ \E j \in Jobs : Expire(j)
    \/ \E p \in Procs, j \in Jobs : BeginAppend(p, j)
    \/ \E p \in Procs : AppendCompare(p) \/ AppendInsert(p) \/ AppendLocked(p)

Spec == Init /\ [][Next]_vars

-----------------------------------------------------------------------------
(* Properties *)

Event == [type : Types, writer : Procs, prev : Nat, hash : Nat]

\* The shape of the store's tables and of the processes' local state.
TypeOK ==
    /\ log \in [Jobs -> Seq(Event)]
    /\ claims \in [Jobs -> [attempt : Attempts \cup {NoAttempt}, live : BOOLEAN]]
    /\ pc \in [Procs -> {"unclaimed", "selected", "idle", "fence", "compare", "insert"}]
    /\ target \in [Procs -> Jobs]
    /\ expected \in [Procs -> Nat]
    /\ prev \in [Procs -> Nat]
    /\ epoch \in [Attempts -> Nat]
    /\ lastEpoch \in Nat
    /\ nextHash \in Nat \ {0}
    /\ acked \subseteq (Procs \X Jobs \X Nat)

\* Every stored event carries the hash of its predecessor, although the
\* PostgreSQL Append reads that hash several queries before its INSERT.
ChainIntact ==
    \A j \in Jobs : \A v \in 1..Version(j) : log[j][v].prev = HashAt(j, v - 1)

\* An Append reported as successful stays in the log at the version it was
\* given: no two callers are told they won the same version.
AckedDurable ==
    \A x \in acked :
        /\ x[3] \in 1..Version(x[2])
        /\ log[x[2]][x[3]].writer = x[1]

\* Fencing as replay needs it: once an attempt has written to a job's log, no
\* attempt that was granted the lease before it writes there again.  The check
\* of the attempt_id and the insertion are not atomic, so this rests on the
\* version comparison as well.
AttemptOrder ==
    \A j \in Jobs : \A i, k \in 1..Version(j) :
        LET early == log[j][i].writer
            late  == log[j][k].writer
        IN  i < k /\ {early, late} \subseteq Attempts => epoch[early] <= epoch[late]

\* A lease is granted only for a job that is neither finished nor leased, as
\* the interface comment of ClaimJob states it.
GrantOnlyClaimable ==
    [][\A j \in Jobs : claims'[j].attempt # claims[j].attempt => Claimable(j)]_vars

Log == INSTANCE EventLog WITH Writers <- Procs

\* The store implements the append-only, hash-chained log.
LogRefinement == Log!Spec
=============================================================================
