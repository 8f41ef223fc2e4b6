-------------------------- MODULE EventStoreProofs --------------------------
(***************************************************************************)
(* Proofs about EventStore, for every number of jobs, attempts and API     *)
(* writers, every log length and both back ends.                           *)
(***************************************************************************)
EXTENDS EventStore, TLAPS

\* An attempt that was granted the lease of a job.
Granted(a) == pc[a] \notin {"unclaimed", "selected"}

\* The attempt in the lease row was granted that lease, and no attempt on the
\* same job was granted one later.
HolderNewest ==
    \A j \in Jobs : claims[j].attempt \in Attempts =>
        /\ Granted(claims[j].attempt)
        /\ target[claims[j].attempt] = j
        /\ \A b \in Attempts :
              Granted(b) /\ target[b] = j => epoch[b] <= epoch[claims[j].attempt]

EpochBound == \A a \in Attempts : epoch[a] <= lastEpoch

\* An attempt writes only to the job it was granted.
WriterGranted ==
    \A j \in Jobs : \A i \in 1..Version(j) :
        log[j][i].writer \in Attempts =>
            /\ Granted(log[j][i].writer)
            /\ target[log[j][i].writer] = j

\* A version that was read is not ahead of the log.
ExpectedBehind ==
    \A p \in Procs : pc[p] \in {"fence", "compare", "insert"} =>
        expected[p] <= Version(target[p])

\* The attempts that wrote the part of the log a fenced attempt has read were
\* granted their leases no later than it.
FencedNewest ==
    \A a \in Attempts : pc[a] \in {"compare", "insert"} =>
        \A i \in 1..expected[a] :
            log[target[a]][i].writer \in Attempts =>
                epoch[log[target[a]][i].writer] <= epoch[a]

\* The predecessor hash read before the INSERT is still the right one.
PrevRead ==
    \A p \in Procs : pc[p] = "insert" => prev[p] = HashAt(target[p], expected[p])

IInv ==
    /\ TypeOK
    /\ HolderNewest
    /\ EpochBound
    /\ WriterGranted
    /\ ExpectedBehind
    /\ FencedNewest
    /\ PrevRead
    /\ ChainIntact
    /\ AckedDurable
    /\ AttemptOrder

-----------------------------------------------------------------------------
\* Appending changes no earlier element of a sequence.
LEMMA AppendFacts ==
    ASSUME NEW S, NEW s \in Seq(S), NEW e \in S
    PROVE  /\ Append(s, e) \in Seq(S)
           /\ Len(s) \in Nat
           /\ Len(Append(s, e)) = Len(s) + 1
           /\ \A i \in 1..Len(s) : Append(s, e)[i] = s[i]
           /\ Append(s, e)[Len(s) + 1] = e
  OBVIOUS

\* What a successful Append to job t does to the logs.
LEMMA StoreFacts ==
    ASSUME TypeOK, NEW p \in Procs, NEW type \in Types, NEW h \in Nat,
           NEW t \in Jobs, t = target[p], Store(p, type, h)
    PROVE  /\ log' \in [Jobs -> Seq(Event)]
           /\ \A j \in Jobs : \A i \in 1..Len(log[j]) : log'[j][i] = log[j][i]
           /\ \A j \in Jobs : j # t => log'[j] = log[j]
           /\ Len(log'[t]) = Len(log[t]) + 1
           /\ log'[t] = Append(log[t], StoredEvent(p, type, h))
           /\ log'[t][Len(log[t]) + 1] = StoredEvent(p, type, h)
           /\ StoredEvent(p, type, h) \in Event
  <1>1. StoredEvent(p, type, h) \in Event
    BY DEF TypeOK, StoredEvent, Event
  <1>2. \A j \in Jobs : log[j] \in Seq(Event)
    BY DEF TypeOK
  <1>3. log'[t] = Append(log[t], StoredEvent(p, type, h))
    BY DEF TypeOK, Store
  <1>4. \A j \in Jobs : j # t => log'[j] = log[j]
    BY DEF TypeOK, Store
  <1>5. /\ log'[t] \in Seq(Event)
        /\ Len(log'[t]) = Len(log[t]) + 1
        /\ \A i \in 1..Len(log[t]) : log'[t][i] = log[t][i]
        /\ log'[t][Len(log[t]) + 1] = StoredEvent(p, type, h)
    BY <1>1, <1>2, <1>3, AppendFacts
  <1>6. log' \in [Jobs -> Seq(Event)]
    BY <1>2, <1>4, <1>5 DEF TypeOK, Store
  <1> QED
    BY <1>1, <1>3, <1>4, <1>5, <1>6

LEMMA HashAtType ==
    ASSUME TypeOK, NEW j \in Jobs, NEW v \in 0..Version(j)
    PROVE  HashAt(j, v) \in Nat
  <1>1. log[j] \in Seq(Event)
    BY DEF TypeOK
  <1>2. CASE v = 0
    BY <1>2 DEF HashAt, GenesisHash
  <1>3. CASE v # 0
    <2>1. v \in 1..Len(log[j])
      BY <1>1, <1>3 DEF Version
    <2>2. log[j][v] \in Event
      BY <1>1, <2>1
    <2> QED
      BY <1>3, <2>2 DEF HashAt, Event
  <1> QED
    BY <1>2, <1>3

-----------------------------------------------------------------------------
\* Granting a lease preserves the invariant: the new holder is the newest.
LEMMA GrantInv ==
    ASSUME IInv, NEW a \in Attempts, NEW j \in Jobs, ~ Granted(a), Grant(a, j)
    PROVE  IInv'
  <1> USE EventStoreAssumption DEF Procs
  <1>1. TypeOK'
    BY DEF IInv, TypeOK, Grant
  <1>2. /\ epoch'[a] = lastEpoch + 1
        /\ \A b \in Attempts : b # a => epoch'[b] = epoch[b]
        /\ \A b \in Attempts : b # a => (Granted(b)' <=> Granted(b))
        /\ \A b \in Procs : b # a => pc'[b] = pc[b] /\ target'[b] = target[b]
        /\ Granted(a)'
        /\ target'[a] = j
        /\ pc'[a] = "idle"
    BY DEF IInv, TypeOK, Grant, Granted
  <1>3. EpochBound'
    BY <1>2 DEF IInv, TypeOK, EpochBound, Grant
  <1>4. HolderNewest'
    <2> SUFFICES ASSUME NEW k \in Jobs, claims'[k].attempt \in Attempts
                 PROVE  /\ Granted(claims[k].attempt)'
                        /\ target'[claims'[k].attempt] = k
                        /\ \A b \in Attempts : Granted(b)' /\ target'[b] = k
                              => epoch'[b] <= epoch'[claims'[k].attempt]
      BY DEF HolderNewest
    <2>1. CASE k = j
      <3>1. claims'[k].attempt = a
        BY <2>1 DEF IInv, TypeOK, Grant
      <3>2. \A b \in Attempts : epoch'[b] <= lastEpoch + 1
        <4>1. /\ lastEpoch \in Nat
              /\ \A b \in Attempts : epoch[b] \in Nat /\ epoch[b] <= lastEpoch
          BY DEF IInv, TypeOK, EpochBound
        <4> QED
          BY <1>2, <4>1
      <3> QED
        BY <1>2, <2>1, <3>1, <3>2
    <2>2. CASE k # j
      <3>1. claims'[k] = claims[k] /\ claims[k].attempt # a
        BY <2>2 DEF IInv, TypeOK, Grant, HolderNewest
      <3> QED
        BY <1>2, <2>2, <3>1 DEF IInv, HolderNewest
    <2> QED
      BY <2>1, <2>2
  <1>5. WriterGranted'
    <2> SUFFICES ASSUME NEW k \in Jobs, NEW i \in 1..Version(k),
                        log[k][i].writer \in Attempts
                 PROVE  /\ Granted(log[k][i].writer)'
                        /\ target'[log[k][i].writer] = k
      BY DEF WriterGranted, Version, Grant
    <2>1. Granted(log[k][i].writer) /\ target[log[k][i].writer] = k
      BY DEF IInv, WriterGranted
    <2>2. log' = log /\ log[k][i].writer # a
      BY <2>1 DEF Grant
    <2> QED
      BY <1>2, <2>1, <2>2 DEF Granted
  <1>6. ExpectedBehind'
    BY <1>2 DEF IInv, ExpectedBehind, Version, Grant
  <1>7. FencedNewest'
    <2> SUFFICES ASSUME NEW b \in Attempts, pc'[b] \in {"compare", "insert"},
                        NEW i \in 1..expected[b],
                        log[target[b]][i].writer \in Attempts, b # a
                 PROVE  epoch'[log[target[b]][i].writer] <= epoch'[b]
      BY <1>2 DEF FencedNewest, Grant
    <2>1. i \in 1..Version(target[b]) /\ pc[b] \in {"compare", "insert"}
      BY <1>2 DEF IInv, TypeOK, ExpectedBehind, Version
    <2>2. log[target[b]][i].writer # a
      BY <2>1 DEF IInv, TypeOK, WriterGranted
    <2> QED
      BY <1>2, <2>1, <2>2 DEF IInv, FencedNewest
  <1>8. PrevRead' /\ ChainIntact' /\ AckedDurable'
    BY <1>2 DEF IInv, PrevRead, ChainIntact, AckedDurable, HashAt, Version, Grant
  <1>9. AttemptOrder'
    <2> SUFFICES ASSUME NEW k \in Jobs, NEW i \in 1..Version(k), NEW m \in 1..Version(k),
                        i < m, {log[k][i].writer, log[k][m].writer} \subseteq Attempts
                 PROVE  epoch'[log[k][i].writer] <= epoch'[log[k][m].writer]
      BY DEF AttemptOrder, Version, Grant
    <2>1. log[k][i].writer # a /\ log[k][m].writer # a
      BY DEF IInv, WriterGranted
    <2> QED
      BY <1>2, <2>1 DEF IInv, AttemptOrder
  <1> QED
    BY <1>1, <1>3, <1>4, <1>5, <1>6, <1>7, <1>8, <1>9 DEF IInv

\* Storing an event preserves the invariant when the process passed the fence,
\* the expected version is the last one, and the hash is the last event's.
LEMMA StoreInv ==
    ASSUME IInv, NEW p \in Procs, NEW type \in Types, NEW h \in Nat,
           NEW t \in Jobs, t = target[p], NEW n \in Nat \ {0}, n = expected[p] + 1,
           pc[p] \in {"compare", "insert"},
           Version(t) = expected[p],
           h = HashAt(t, expected[p]),
           Store(p, type, h)
    PROVE  IInv'
  <1> USE DEF Procs
  <1>0. TypeOK /\ expected[p] \in Nat /\ expected[p] = n - 1 /\ Len(log[t]) = n - 1
    <2>1. TypeOK /\ expected[p] \in Nat
      BY DEF IInv, TypeOK
    <2> QED
      BY <2>1 DEF Version
  <1>1. /\ log' \in [Jobs -> Seq(Event)]
        /\ \A j \in Jobs : \A i \in 1..Version(j) : log'[j][i] = log[j][i]
        /\ \A j \in Jobs : j # t => log'[j] = log[j]
        /\ Version(t)' = n
        /\ log'[t][n].writer = p
        /\ log'[t][n].prev = h
    <2>1. Len(log[t]) + 1 = n
      BY <1>0
    <2>2. /\ log' \in [Jobs -> Seq(Event)]
          /\ \A j \in Jobs : \A i \in 1..Len(log[j]) : log'[j][i] = log[j][i]
          /\ \A j \in Jobs : j # t => log'[j] = log[j]
          /\ Len(log'[t]) = Len(log[t]) + 1
          /\ log'[t][Len(log[t]) + 1] = StoredEvent(p, type, h)
      BY <1>0, StoreFacts
    <2>3. StoredEvent(p, type, h).writer = p /\ StoredEvent(p, type, h).prev = h
      BY DEF StoredEvent
    <2> HIDE DEF Procs
    <2> QED
      BY <2>1, <2>2, <2>3 DEF Version
  <1>2. UNCHANGED << claims, target, expected, prev, epoch, lastEpoch >>
    BY DEF Store
  <1>3. /\ pc'[p] = "idle"
        /\ \A q \in Procs : q # p => pc'[q] = pc[q]
        /\ \A a \in Attempts : Granted(a)' <=> Granted(a)
    BY <1>0 DEF TypeOK, Store, Granted
  <1>4. \A j \in Jobs : /\ Version(j) \in Nat
                        /\ Version(j) <= Version(j)'
                        /\ j # t => Version(j)' = Version(j)
    BY <1>0, <1>1 DEF TypeOK, Version
  <1>n. \A j \in Jobs : Version(j)' \in Nat
    BY <1>1 DEF Version
  <1>new. \A j \in Jobs : \A i \in 1..Version(j)' :
             i \notin 1..Version(j) => j = t /\ i = n
    <2> SUFFICES ASSUME NEW j \in Jobs, NEW i \in 1..Version(j)', i \notin 1..Version(j)
                 PROVE  j = t /\ i = n
      OBVIOUS
    <2>1. j = t
      BY <1>4
    <2>2. Version(j)' = n /\ Version(j) = n - 1
      BY <1>0, <1>1, <2>1
    <2>3. i = n
      BY <2>2
    <2> QED
      BY <2>1, <2>3
  <1>5. TypeOK'
    <2>1. << p, t, n >> \in Procs \X Jobs \X Nat
      OBVIOUS
    <2>2. acked' \subseteq (Procs \X Jobs \X Nat)
      BY <1>0, <2>1 DEF TypeOK, Store
    <2>3. pc' \in [Procs -> {"unclaimed", "selected", "idle", "fence", "compare", "insert"}]
      BY <1>0 DEF TypeOK, Store
    <2>4. nextHash' \in Nat \ {0}
      BY <1>0 DEF TypeOK, Store
    <2> QED
      BY <1>0, <1>1, <1>2, <2>2, <2>3, <2>4 DEF TypeOK
  <1>6. HolderNewest' /\ EpochBound'
    BY <1>2, <1>3 DEF IInv, TypeOK, HolderNewest, EpochBound
  <1>7. WriterGranted'
    <2> SUFFICES ASSUME NEW j \in Jobs, NEW i \in 1..Version(j)',
                        log'[j][i].writer \in Attempts
                 PROVE  /\ pc'[log'[j][i].writer] \notin {"unclaimed", "selected"}
                        /\ target[log'[j][i].writer] = j
      BY <1>2 DEF WriterGranted, Granted
    <2>1. CASE i \in 1..Version(j)
      <3>1. log'[j][i] = log[j][i]
        BY <1>1, <2>1
      <3>2. Granted(log[j][i].writer) /\ target[log[j][i].writer] = j
        BY <2>1, <3>1 DEF IInv, WriterGranted
      <3> QED
        BY <1>3, <3>1, <3>2 DEF Granted
    <2>2. CASE ~ (i \in 1..Version(j))
      <3>1. j = t /\ i = n
        BY <1>new, <2>2
      <3>2. log'[j][i].writer = p
        BY <1>1, <3>1
      <3> QED
        BY <1>3, <3>1, <3>2
    <2> QED
      BY <2>1, <2>2
  <1>8. ExpectedBehind'
    <2> SUFFICES ASSUME NEW q \in Procs, q # p, pc[q] \in {"fence", "compare", "insert"},
                        NEW u \in Jobs, u = target[q]
                 PROVE  expected[q] <= Version(u)'
      BY <1>0, <1>2, <1>3 DEF TypeOK, ExpectedBehind, Version
    <2>1. expected[q] <= Version(u) /\ expected[q] \in Nat
      BY <1>0 DEF IInv, TypeOK, ExpectedBehind
    <2> QED
      BY <1>4, <1>n, <2>1
  <1>9. FencedNewest'
    <2> SUFFICES ASSUME NEW b \in Attempts, b # p, pc[b] \in {"compare", "insert"},
                        NEW i \in 1..expected[b],
                        log'[target[b]][i].writer \in Attempts
                 PROVE  epoch[log'[target[b]][i].writer] <= epoch[b]
      BY <1>2, <1>3 DEF FencedNewest
    <2>1. i \in 1..Version(target[b]) /\ target[b] \in Jobs
      BY <1>0, <1>4 DEF IInv, TypeOK, ExpectedBehind
    <2> QED
      BY <1>1, <2>1 DEF IInv, FencedNewest
  <1>10. \A j \in Jobs : \A v \in 0..Version(j) : HashAt(j, v)' = HashAt(j, v)
    BY <1>1, <1>4 DEF HashAt
  <1>11. PrevRead'
    <2> SUFFICES ASSUME NEW q \in Procs, q # p, pc[q] = "insert"
                 PROVE  prev[q] = HashAt(target[q], expected[q])'
      BY <1>2, <1>3 DEF PrevRead
    <2>1. expected[q] \in 0..Version(target[q]) /\ target[q] \in Jobs
      BY <1>0, <1>4 DEF IInv, TypeOK, ExpectedBehind
    <2>2. prev[q] = HashAt(target[q], expected[q])
      BY DEF IInv, PrevRead
    <2> QED
      BY <1>2, <1>10, <2>1, <2>2 DEF HashAt
  <1>12. ChainIntact'
    <2> SUFFICES ASSUME NEW j \in Jobs, NEW v \in 1..Version(j)'
                 PROVE  log'[j][v].prev = HashAt(j, v - 1)'
      BY DEF ChainIntact
    <2>1. CASE v \in 1..Version(j)
      <3>1. v - 1 \in 0..Version(j)
        BY <1>4, <2>1
      <3>2. log[j][v].prev = HashAt(j, v - 1)
        BY <2>1 DEF IInv, ChainIntact
      <3> QED
        BY <1>1, <1>10, <2>1, <3>1, <3>2
    <2>2. CASE ~ (v \in 1..Version(j))
      <3>1. j = t /\ v = n
        BY <1>new, <2>2
      <3>2. log'[j][v].prev = h
        BY <1>1, <3>1
      <3>3. v - 1 \in 0..Version(j) /\ v - 1 = expected[p]
        BY <1>0, <1>n, <3>1
      <3>4. HashAt(j, v - 1)' = HashAt(j, v - 1)
        BY <1>10, <3>3
      <3> QED
        BY <3>1, <3>2, <3>3, <3>4
    <2> QED
      BY <2>1, <2>2
  <1>13. AckedDurable'
    <2> SUFFICES ASSUME NEW x \in acked'
                 PROVE  /\ x[3] \in 1..Version(x[2])'
                        /\ log'[x[2]][x[3]].writer = x[1]
      BY DEF AckedDurable
    <2>1. CASE x \in acked
      <3>1. /\ x[2] \in Jobs /\ x[3] \in Nat
            /\ x[3] \in 1..Version(x[2])
            /\ log[x[2]][x[3]].writer = x[1]
        BY <1>0, <2>1 DEF IInv, TypeOK, AckedDurable
      <3>2. Version(x[2]) \in Nat /\ Version(x[2])' \in Nat /\ Version(x[2]) <= Version(x[2])'
        BY <1>4, <1>5, <3>1 DEF TypeOK, Version
      <3> QED
        BY <1>1, <3>1, <3>2
    <2>2. CASE x = << p, t, n >>
      <3>1. x[1] = p /\ x[2] = t /\ x[3] = n
        BY <2>2
      <3>2. n \in 1..n
        OBVIOUS
      <3> QED
        BY <1>1, <3>1, <3>2
    <2> QED
      BY <2>1, <2>2 DEF Store
  <1>14. AttemptOrder'
    <2> SUFFICES ASSUME NEW j \in Jobs, NEW i \in 1..Version(j)', NEW k \in 1..Version(j)',
                        i < k, {log'[j][i].writer, log'[j][k].writer} \subseteq Attempts
                 PROVE  epoch[log'[j][i].writer] <= epoch[log'[j][k].writer]
      BY <1>2 DEF AttemptOrder
    <2>1. CASE k \in 1..Version(j)
      <3>1. i \in 1..Version(j)
        BY <1>4, <2>1
      <3> QED
        BY <1>1, <2>1, <3>1 DEF IInv, AttemptOrder
    <2>2. CASE ~ (k \in 1..Version(j))
      <3>1. j = t /\ k = n
        BY <1>new, <2>2
      <3>2. i \in 1..expected[p] /\ i \in 1..Version(j)
        BY <1>0, <1>n, <3>1
      <3>3. log'[j][k].writer = p /\ log'[j][i] = log[j][i]
        BY <1>1, <3>1, <3>2
      <3> QED
        BY <3>1, <3>2, <3>3 DEF IInv, FencedNewest
    <2> QED
      BY <2>1, <2>2
  <1> QED
    BY <1>5, <1>6, <1>7, <1>8, <1>9, <1>11, <1>12, <1>13, <1>14 DEF IInv

-----------------------------------------------------------------------------
\* The actions that move one process and the lease flags only: the log, the
\* history of grants and the attempts in the lease rows stay as they are, and
\* no process gets past a check that it had not passed before.
LEMMA QuietInv ==
    ASSUME IInv, NEW p \in Procs,
           NEW c \in {"unclaimed", "selected", "idle", "fence", "compare", "insert"},
           UNCHANGED << log, epoch, lastEpoch, nextHash, acked >>,
           pc' = [pc EXCEPT ![p] = c],
           target' \in [Procs -> Jobs], expected' \in [Procs -> Nat], prev' \in [Procs -> Nat],
           claims' = claims,
           \A q \in Procs : q # p => /\ target'[q] = target[q]
                                     /\ expected'[q] = expected[q]
                                     /\ prev'[q] = prev[q],
           p \in Attempts /\ Granted(p) => /\ c \notin {"unclaimed", "selected"}
                                           /\ target'[p] = target[p],
           p \in Attempts /\ ~ Granted(p) => c \in {"unclaimed", "selected"},
           c \in {"fence", "compare", "insert"} => expected'[p] <= Version(target'[p]),
           p \in Attempts /\ c \in {"compare", "insert"} =>
              \A i \in 1..expected'[p] :
                 log[target'[p]][i].writer \in Attempts =>
                    epoch[log[target'[p]][i].writer] <= epoch[p],
           c = "insert" => prev'[p] = HashAt(target'[p], expected'[p])
    PROVE  IInv'
  <1>0. TypeOK
    BY DEF IInv
  <1>1. TypeOK'
    BY <1>0 DEF TypeOK
  <1>2. pc'[p] = c /\ \A q \in Procs : q # p => pc'[q] = pc[q]
    BY <1>0 DEF TypeOK
  <1>3. \A a \in Attempts : /\ (pc'[a] \notin {"unclaimed", "selected"}) <=> Granted(a)
                            /\ Granted(a) => target'[a] = target[a]
    BY <1>2 DEF Granted, Procs
  <1>4. HolderNewest' /\ EpochBound'
    BY <1>3 DEF IInv, HolderNewest, EpochBound, Granted
  <1>5. WriterGranted'
    BY <1>3 DEF IInv, WriterGranted, Granted, Version
  <1>6. ExpectedBehind'
    BY <1>2 DEF IInv, ExpectedBehind, Version
  <1>7. FencedNewest'
    BY <1>2 DEF IInv, FencedNewest, Procs
  <1>8. PrevRead'
    BY <1>2 DEF IInv, PrevRead, HashAt
  <1>9. ChainIntact' /\ AckedDurable' /\ AttemptOrder'
    BY DEF IInv, ChainIntact, AckedDurable, AttemptOrder, HashAt, Version
  <1> QED
    BY <1>1, <1>4, <1>5, <1>6, <1>7, <1>8, <1>9 DEF IInv

\* Expiry and renewal change only the live flag of a lease.
LEMMA LeaseInv ==
    ASSUME IInv, NEW j \in Jobs, NEW live \in BOOLEAN,
           claims' = [claims EXCEPT ![j].live = live],
           UNCHANGED << log, pc, target, expected, prev, epoch, lastEpoch, nextHash, acked >>
    PROVE  IInv'
  <1>1. TypeOK' /\ \A k \in Jobs : claims'[k].attempt = claims[k].attempt
    BY DEF IInv, TypeOK
  <1>2. HolderNewest' /\ EpochBound' /\ WriterGranted' /\ ExpectedBehind' /\ FencedNewest'
    BY <1>1 DEF IInv, HolderNewest, EpochBound, WriterGranted, ExpectedBehind, FencedNewest,
                Granted, Version
  <1>3. PrevRead' /\ ChainIntact' /\ AckedDurable' /\ AttemptOrder'
    BY DEF IInv, PrevRead, ChainIntact, AckedDurable, AttemptOrder, HashAt, Version
  <1> QED
    BY <1>1, <1>2, <1>3 DEF IInv

LEMMA MismatchInv ==
    ASSUME IInv, NEW p \in Procs, pc[p] \in {"compare", "insert"}, Mismatch(p)
    PROVE  IInv'
  <1>1. TypeOK /\ (p \in Attempts => Granted(p))
    BY DEF IInv, Granted
  <1> QED
    BY <1>1, QuietInv DEF Mismatch, TypeOK

-----------------------------------------------------------------------------
LEMMA InitInv == Init => IInv
  <1> SUFFICES ASSUME Init PROVE IInv
    OBVIOUS
  <1>1. (CHOOSE j \in Jobs : TRUE) \in Jobs
    BY EventStoreAssumption
  <1>2. << >> \in Seq(Event) /\ \A j \in Jobs : log[j] = << >> /\ Version(j) = 0
    BY DEF Init, Version
  <1>3. TypeOK
    <2>1. log \in [Jobs -> Seq(Event)]
      BY <1>2 DEF Init
    <2>2. claims \in [Jobs -> [attempt : Attempts \cup {NoAttempt}, live : BOOLEAN]]
      BY DEF Init, Unclaimed
    <2>3. pc \in [Procs -> {"unclaimed", "selected", "idle", "fence", "compare", "insert"}]
      BY DEF Init
    <2>4. target \in [Procs -> Jobs]
      BY <1>1 DEF Init
    <2>5. expected \in [Procs -> Nat] /\ prev \in [Procs -> Nat] /\ epoch \in [Attempts -> Nat]
      BY DEF Init, GenesisHash
    <2>6. lastEpoch \in Nat /\ nextHash \in Nat \ {0} /\ acked \subseteq (Procs \X Jobs \X Nat)
      BY DEF Init
    <2> QED
      BY <2>1, <2>2, <2>3, <2>4, <2>5, <2>6 DEF TypeOK
  <1>4. HolderNewest
    BY EventStoreAssumption DEF Init, HolderNewest, Unclaimed
  <1>5. EpochBound
    BY DEF Init, EpochBound
  <1>6. \A p \in Procs : pc[p] \in {"unclaimed", "idle"}
    BY DEF Init
  <1>7. ExpectedBehind /\ FencedNewest /\ PrevRead
    BY <1>6 DEF ExpectedBehind, FencedNewest, PrevRead, Procs
  <1>8. WriterGranted /\ ChainIntact /\ AttemptOrder
    BY <1>2 DEF WriterGranted, ChainIntact, AttemptOrder
  <1>9. AckedDurable
    BY DEF Init, AckedDurable
  <1> QED
    BY <1>3, <1>4, <1>5, <1>7, <1>8, <1>9 DEF IInv

\* Appending at the compared version: the event is stored by a process that is
\* past the fence, with the hash of the last event.
LEMMA AppendedInv ==
    ASSUME IInv, NEW p \in Procs, NEW type \in Types, NEW h \in Nat,
           pc[p] \in {"compare", "insert"},
           Version(target[p]) = expected[p],
           h = HashAt(target[p], expected[p]),
           Store(p, type, h)
    PROVE  IInv'
  <1>1. expected[p] \in Nat /\ target[p] \in Jobs
    BY DEF IInv, TypeOK
  <1> QED
    BY <1>1, StoreInv

\* Each action preserves the invariant.
LEMMA NextInv == IInv /\ [Next]_vars => IInv'
  <1> SUFFICES ASSUME IInv, [Next]_vars PROVE IInv'
    OBVIOUS
  <1>0. TypeOK /\ Attempts \subseteq Procs
    BY DEF IInv, Procs
  <1>1. ASSUME NEW a \in Attempts, NEW j \in Jobs, ClaimSelect(a, j)
        PROVE  IInv'
    <2>1. ~ Granted(a) /\ target' \in [Procs -> Jobs]
      BY <1>0, <1>1 DEF ClaimSelect, Granted, TypeOK
    <2>2. \A q \in Procs : q # a => target'[q] = target[q]
      BY <1>0, <1>1 DEF ClaimSelect, TypeOK
    <2> QED
      BY <1>0, <1>1, <2>1, <2>2, QuietInv DEF ClaimSelect, TypeOK
  <1>2. ASSUME NEW a \in Attempts, NEW j \in Jobs, ClaimLocked(a, j)
        PROVE  IInv'
    BY <1>2, GrantInv DEF ClaimLocked, Granted
  <1>3. ASSUME NEW a \in Attempts, ClaimUpsert(a)
        PROVE  IInv'
    <2>1. target[a] \in Jobs
      BY <1>0 DEF TypeOK
    <2> QED
      BY <1>3, <2>1, GrantInv DEF ClaimUpsert, Granted
  <1>4. ASSUME NEW a \in Attempts, Heartbeat(a)
        PROVE  IInv'
    <2>1. target[a] \in Jobs
      BY <1>0 DEF TypeOK
    <2> QED
      BY <1>4, <2>1, LeaseInv DEF Heartbeat
  <1>5. ASSUME NEW a \in Attempts, AppendFence(a)
        PROVE  IInv'
    <2>1. Granted(a) /\ target[a] \in Jobs /\ expected[a] \in Nat
      BY <1>0, <1>5 DEF AppendFence, Granted, TypeOK
    <2>2. CASE HoldsLease(a)
      <3>1. expected[a] <= Version(target[a])
        BY <1>0, <1>5 DEF AppendFence, IInv, ExpectedBehind
      <3>2. Version(target[a]) \in Nat
        BY <1>0, <2>1 DEF TypeOK, Version
      <3>3. \A i \in 1..expected[a] :
               log[target[a]][i].writer \in Attempts =>
                  epoch[log[target[a]][i].writer] <= epoch[a]
        <4> SUFFICES ASSUME NEW i \in 1..expected[a], log[target[a]][i].writer \in Attempts
                     PROVE  epoch[log[target[a]][i].writer] <= epoch[a]
          OBVIOUS
        <4>1. i \in 1..Version(target[a])
          BY <2>1, <3>1, <3>2
        <4>2. /\ Granted(log[target[a]][i].writer)
              /\ target[log[target[a]][i].writer] = target[a]
          BY <2>1, <4>1 DEF IInv, WriterGranted
        <4> QED
          BY <2>1, <2>2, <4>2 DEF IInv, HolderNewest, HoldsLease
      <3> QED
        BY <1>0, <1>5, <2>1, <2>2, <3>1, <3>3, QuietInv DEF AppendFence, TypeOK
    <2>3. CASE ~ HoldsLease(a)
      BY <1>0, <1>5, <2>1, <2>3, QuietInv DEF AppendFence, TypeOK
    <2> QED
      BY <2>2, <2>3
  <1>6. ASSUME NEW j \in Jobs, Expire(j)
        PROVE  IInv'
    BY <1>6, LeaseInv DEF Expire
  <1>7. ASSUME NEW p \in Procs, NEW j \in Jobs, BeginAppend(p, j)
        PROVE  IInv'
    <2>1. /\ target' \in [Procs -> Jobs] /\ target'[p] = j
          /\ \A q \in Procs : q # p => target'[q] = target[q]
      BY <1>0, <1>7 DEF BeginAppend, TypeOK
    <2>2. Version(j) \in Nat
      BY <1>0 DEF TypeOK, Version
    <2>3. /\ expected' \in [Procs -> Nat] /\ expected'[p] = Version(j)
          /\ \A q \in Procs : q # p => expected'[q] = expected[q]
      BY <1>0, <1>7, <2>2 DEF BeginAppend, TypeOK
    <2>4. p \in Attempts => Granted(p) /\ target'[p] = target[p]
      BY <1>7, <2>1 DEF BeginAppend, Granted
    <2>5. expected'[p] <= Version(target'[p])
      BY <2>1, <2>2, <2>3
    <2>6. CASE p \in Attempts
      BY <1>0, <1>7, <2>1, <2>3, <2>4, <2>5, <2>6, QuietInv DEF BeginAppend, TypeOK
    <2>7. CASE p \notin Attempts
      BY <1>0, <1>7, <2>1, <2>3, <2>5, <2>7, QuietInv DEF BeginAppend, TypeOK
    <2> QED
      BY <2>6, <2>7
  <1>8. ASSUME NEW p \in Procs, AppendCompare(p)
        PROVE  IInv'
    <2>1. CASE Version(target[p]) # expected[p]
      BY <1>8, <2>1, MismatchInv DEF AppendCompare
    <2>2. CASE Version(target[p]) = expected[p]
      <3>1. target[p] \in Jobs /\ expected[p] \in Nat /\ expected[p] <= Version(target[p])
        BY <1>0, <2>2 DEF TypeOK
      <3>2. HashAt(target[p], expected[p]) \in Nat
        BY <1>0, <2>2, <3>1, HashAtType
      <3>3. /\ prev' \in [Procs -> Nat] /\ prev'[p] = HashAt(target[p], expected[p])
            /\ \A q \in Procs : q # p => prev'[q] = prev[q]
        BY <1>0, <1>8, <2>2, <3>2 DEF AppendCompare, TypeOK
      <3>4. p \in Attempts => Granted(p)
        BY <1>8 DEF AppendCompare, Granted
      <3>5. p \in Attempts =>
              \A i \in 1..expected[p] :
                 log[target[p]][i].writer \in Attempts =>
                    epoch[log[target[p]][i].writer] <= epoch[p]
        BY <1>8 DEF AppendCompare, IInv, FencedNewest
      <3>6. /\ pc' = [pc EXCEPT ![p] = "insert"]
            /\ UNCHANGED << log, claims, target, expected, epoch, lastEpoch, nextHash, acked >>
        BY <1>8, <2>2 DEF AppendCompare
      <3> QED
        BY <1>0, <3>1, <3>3, <3>4, <3>5, <3>6, QuietInv DEF TypeOK
    <2> QED
      BY <2>1, <2>2
  <1>9. ASSUME NEW p \in Procs, AppendInsert(p)
        PROVE  IInv'
    <2>1. CASE VersionFree(p)
      <3>1. prev[p] \in Nat /\ prev[p] = HashAt(target[p], expected[p])
        BY <1>0, <1>9 DEF AppendInsert, TypeOK, IInv, PrevRead
      <3> QED
        BY <1>9, <2>1, <3>1, AppendedInv DEF AppendInsert, VersionFree
    <2>2. CASE ~ VersionFree(p)
      BY <1>9, <2>2, MismatchInv DEF AppendInsert
    <2> QED
      BY <2>1, <2>2
  <1>10. ASSUME NEW p \in Procs, AppendLocked(p)
         PROVE  IInv'
    <2>1. CASE Version(target[p]) = expected[p]
      <3>1. target[p] \in Jobs /\ expected[p] \in Nat
        BY <1>0 DEF TypeOK
      <3>2. HashAt(target[p], expected[p]) \in Nat
        BY <1>0, <2>1, <3>1, HashAtType
      <3>3. PICK type \in Types : Store(p, type, HashAt(target[p], expected[p]))
        BY <1>10, <2>1 DEF AppendLocked
      <3> QED
        BY <1>10, <2>1, <3>2, <3>3, AppendedInv DEF AppendLocked
    <2>2. CASE Version(target[p]) # expected[p]
      BY <1>10, <2>2, MismatchInv DEF AppendLocked
    <2> QED
      BY <2>1, <2>2
  <1>11. CASE UNCHANGED vars
    BY <1>11 DEF IInv, vars, TypeOK, HolderNewest, EpochBound, WriterGranted, ExpectedBehind,
                 FencedNewest, PrevRead, ChainIntact, AckedDurable, AttemptOrder,
                 Granted, HashAt, Version
  <1> QED
    BY <1>1, <1>2, <1>3, <1>4, <1>5, <1>6, <1>7, <1>8, <1>9, <1>10, <1>11 DEF Next

\* The invariant holds in every behaviour.
LEMMA Inductive == Spec => []IInv
  BY InitInv, NextInv, PTL DEF Spec

\* The state of the store and of its callers keeps its type.
THEOREM TypeCorrect == Spec => []TypeOK
  <1>1. IInv => TypeOK
    BY DEF IInv
  <1> QED
    BY <1>1, Inductive, PTL

\* pgstore.go and memory_store.go Append: no superseded attempt writes after a
\* newer one, although the attempt check and the insertion are separate steps
\* and two PostgreSQL claims may both be granted.
THEOREM FencingOrder == Spec => []AttemptOrder
  <1>1. IInv => AttemptOrder
    BY DEF IInv
  <1> QED
    BY <1>1, Inductive, PTL

\* An append that was acknowledged is never lost or given away.
THEOREM AcknowledgedDurable == Spec => []AckedDurable
  <1>1. IInv => AckedDurable
    BY DEF IInv
  <1> QED
    BY <1>1, Inductive, PTL

\* The hash chain that proof export and verification rely on is never broken.
THEOREM HashChain == Spec => []ChainIntact
  <1>1. IInv => ChainIntact
    BY DEF IInv
  <1> QED
    BY <1>1, Inductive, PTL

-----------------------------------------------------------------------------
\* A successful Append is a step of the abstract log.
LEMMA StoreRefines ==
    ASSUME IInv, NEW p \in Procs, NEW type \in Types, NEW h \in Nat,
           Version(target[p]) = expected[p],
           h = HashAt(target[p], expected[p]),
           Store(p, type, h)
    PROVE  Log!Next
  <1>1. PICK t \in Jobs : t = target[p]
    BY DEF IInv, TypeOK
  <1>2. TypeOK /\ log[t] \in Seq(Event)
    BY DEF IInv, TypeOK
  <1>3. /\ Len(log'[t]) = Len(log[t]) + 1
        /\ log'[t] = Append(log[t], StoredEvent(p, type, h))
        /\ log'[t][Len(log[t]) + 1] = StoredEvent(p, type, h)
        /\ StoredEvent(p, type, h) \in Event
    BY <1>1, <1>2, StoreFacts
  <1>4. log' = [log EXCEPT ![t] = Append(@, StoredEvent(p, type, h))]
    BY <1>1 DEF Store
  <1>5. h = Log!TipHash(t)
    <2>1. CASE log[t] = << >>
      BY <1>1, <2>1 DEF HashAt, Version, Log!TipHash, GenesisHash, Log!GenesisHash
    <2>2. CASE log[t] # << >>
      <3>1. Len(log[t]) # 0
        BY <1>2, <2>2
      <3> QED
        BY <1>1, <2>2, <3>1 DEF HashAt, Version, Log!TipHash
    <2> QED
      BY <2>1, <2>2
  <1>6. StoredEvent(p, type, h).prev = h /\ StoredEvent(p, type, h) \in Log!Event
    BY <1>3 DEF StoredEvent, Event, Log!Event
  <1>7. Log!AppendEvent(t)
    BY <1>3, <1>4, <1>5, <1>6 DEF Log!AppendEvent
  <1> QED
    BY <1>7 DEF Log!Next

LEMMA NextRefines == IInv /\ [Next]_vars => [Log!Next]_log
  <1> SUFFICES ASSUME IInv, Next, log' # log PROVE Log!Next
    BY DEF vars
  <1>1. PICK p \in Procs : AppendCompare(p) \/ AppendInsert(p) \/ AppendLocked(p)
    BY DEF Next, ClaimSelect, ClaimLocked, ClaimUpsert, Grant, Heartbeat, AppendFence, Expire,
           BeginAppend
  <1>2. target[p] \in Jobs /\ expected[p] \in Nat /\ TypeOK
    BY DEF IInv, TypeOK
  <1>3. CASE AppendInsert(p)
    <2>1. prev[p] \in Nat /\ prev[p] = HashAt(target[p], expected[p])
      BY <1>3 DEF AppendInsert, IInv, TypeOK, PrevRead
    <2> QED
      BY <1>3, <2>1, StoreRefines DEF AppendInsert, VersionFree, Mismatch
  <1>4. CASE AppendLocked(p)
    <2>1. Version(target[p]) = expected[p]
      BY <1>4 DEF AppendLocked, Mismatch
    <2>2. HashAt(target[p], expected[p]) \in Nat
      BY <1>2, <2>1, HashAtType
    <2>3. PICK type \in Types : Store(p, type, HashAt(target[p], expected[p]))
      BY <1>4, <2>1 DEF AppendLocked
    <2> QED
      BY <2>1, <2>2, <2>3, StoreRefines
  <1>5. CASE AppendCompare(p)
    BY <1>5 DEF AppendCompare, Mismatch
  <1> QED
    BY <1>1, <1>3, <1>4, <1>5

\* Both back ends implement the append-only, hash-chained log.
THEOREM Implements == Spec => LogRefinement
  <1>1. Init => Log!Init
    BY DEF Init, Log!Init
  <1> QED
    BY <1>1, NextRefines, Inductive, PTL DEF Spec, LogRefinement, Log!Spec

-----------------------------------------------------------------------------
\* The in-memory store selects and grants under one lock: no attempt is between.
NoneSelected == \A a \in Attempts : pc[a] # "selected"

LEMMA NoneSelectedStep ==
    ASSUME Backend = "memory", TypeOK, NoneSelected, [Next]_vars
    PROVE  NoneSelected'
<1> USE DEF NoneSelected, TypeOK, Procs
<1>1. ASSUME NEW a \in Attempts, NEW j \in Jobs, ClaimSelect(a, j) \/ ClaimLocked(a, j)
      PROVE  NoneSelected'
  BY <1>1 DEF ClaimSelect, ClaimLocked, Grant
<1>2. ASSUME NEW a \in Attempts, ClaimUpsert(a) \/ Heartbeat(a) \/ AppendFence(a)
      PROVE  NoneSelected'
  BY <1>2 DEF ClaimUpsert, Heartbeat, AppendFence
<1>3. ASSUME NEW j \in Jobs, Expire(j)
      PROVE  NoneSelected'
  BY <1>3 DEF Expire
<1>4. ASSUME NEW p \in Procs, NEW j \in Jobs, BeginAppend(p, j)
      PROVE  NoneSelected'
  BY <1>4 DEF BeginAppend
<1>5. ASSUME NEW p \in Procs, AppendCompare(p) \/ AppendInsert(p) \/ AppendLocked(p)
      PROVE  NoneSelected'
  BY <1>5 DEF AppendCompare, AppendInsert, AppendLocked, Store, Mismatch
<1>6. CASE UNCHANGED vars
  BY <1>6 DEF vars
<1> QED
  BY <1>1, <1>2, <1>3, <1>4, <1>5, <1>6 DEF Next

\* Only a grant changes the attempt of a lease row.
LEMMA GrantStep ==
    ASSUME Backend = "memory", TypeOK, NoneSelected, Next,
           NEW i \in Jobs, claims'[i].attempt # claims[i].attempt
    PROVE  Claimable(i)
<1>1. ASSUME NEW a \in Attempts, NEW j \in Jobs, ClaimSelect(a, j) \/ ClaimLocked(a, j)
      PROVE  Claimable(i)
  <2>1. Claimable(j) /\ claims' = [claims EXCEPT ![j] = [attempt |-> a, live |-> TRUE]]
    BY <1>1 DEF ClaimSelect, ClaimLocked, Grant
  <2>2. i = j
    BY <2>1 DEF TypeOK
  <2> QED
    BY <2>1, <2>2
<1>2. ASSUME NEW a \in Attempts, ClaimUpsert(a) \/ Heartbeat(a) \/ AppendFence(a)
      PROVE  Claimable(i)
  <2>1. ~ ClaimUpsert(a)
    BY DEF ClaimUpsert, NoneSelected
  <2>2. ~ Heartbeat(a)
    <3>1. SUFFICES ASSUME Heartbeat(a) PROVE FALSE
      OBVIOUS
    <3>2. claims' = [claims EXCEPT ![target[a]].live = TRUE]
      BY <3>1 DEF Heartbeat
    <3>3. claims'[i].attempt = claims[i].attempt
      <4>1. claims \in [Jobs -> [attempt : Attempts \cup {NoAttempt}, live : BOOLEAN]]
        BY DEF TypeOK
      <4>2. CASE i = target[a]
        BY <3>2, <4>1, <4>2
      <4>3. CASE i # target[a]
        BY <3>2, <4>1, <4>3
      <4> QED
        BY <4>2, <4>3
    <3> QED
      BY <3>3
  <2> QED
    BY <1>2, <2>1, <2>2 DEF AppendFence
<1>3. ASSUME NEW j \in Jobs, Expire(j)
      PROVE  Claimable(i)
  BY <1>3 DEF Expire, TypeOK
<1>4. \A p \in Procs, j \in Jobs : ~ BeginAppend(p, j)
  BY DEF BeginAppend
<1>5. \A p \in Procs : ~ (AppendCompare(p) \/ AppendInsert(p) \/ AppendLocked(p))
  BY DEF AppendCompare, AppendInsert, AppendLocked, Store, Mismatch
<1> QED
  BY <1>1, <1>2, <1>3, <1>4, <1>5 DEF Next

\* In memory a lease is granted only for a job that is neither finished nor leased,
\* for any number of jobs, attempts and writers.  (PostgreSQL selects and upserts in
\* two queries, and does not have the property.)
THEOREM MemoryGrants ==
    ASSUME Backend = "memory"
    PROVE  Spec => GrantOnlyClaimable
<1>1. Init => NoneSelected
  BY DEF Init, NoneSelected, Procs
<1>2. TypeOK /\ NoneSelected /\ [Next]_vars => NoneSelected'
  BY NoneSelectedStep
<1>3. TypeOK /\ NoneSelected /\ [Next]_vars
        => [\A j \in Jobs : claims'[j].attempt # claims[j].attempt => Claimable(j)]_vars
  BY GrantStep
<1> QED
  BY <1>1, <1>2, <1>3, TypeCorrect, PTL DEF Spec, GrantOnlyClaimable
====
