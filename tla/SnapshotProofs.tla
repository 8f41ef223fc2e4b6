--------------------------- MODULE SnapshotProofs ---------------------------
(***************************************************************************)
(* What holds of snapshots for any number of workers and runs, any streams *)
(* and any number of rounds of the snapshot loops; and what the contexts   *)
(* of resumed runs are, by induction over the events (by least             *)
(* counterexample: a set of numbers that contains 0 and is closed under    *)
(* successor is Nat).                                                      *)
(***************************************************************************)
EXTENDS Snapshot, TLAPS, NaturalsInduction, WellFoundedInduction

\* What a snapshot loop has read is behind the stream, and its label between.
ReadsBehind ==
    \A w \in Workers :
        /\ snap[w].at = "version" => snap[w].upto <= len
        /\ snap[w].at = "create" => snap[w].upto <= snap[w].label /\ snap[w].label <= len

\* The snapshot that a deletion means to keep is there, or a later one.
DeleteKeeps ==
    \A w \in Workers : snap[w].at = "delete" =>
        \E u \in Versions : u >= snap[w].label /\ snaps[u] # None

IInv == TypeOK /\ NothingTwice /\ ReadsBehind /\ DeleteKeeps

\* Rows, with the condition in the open.
Advances == \A v \in Versions : snaps[v] # None => \E u \in Versions : u >= v /\ snaps'[u] # None

LEMMA InitIInv == Init => IInv
<1> SUFFICES ASSUME Init PROVE IInv
  OBVIOUS
<1> USE SnapshotAssumption
<1>1. len \in 1..Len(stream) /\ stream \in Streams
  BY DEF Init
<1>2. TypeOK
  BY <1>1 DEF Init, TypeOK, NoSnap, NoReplay, Versions
<1>3. NothingTwice /\ ReadsBehind /\ DeleteKeeps
  BY DEF Init, NothingTwice, ReadsBehind, DeleteKeeps, Rows, NoSnap, Versions
<1> QED
  BY <1>2, <1>3 DEF IInv

\* The local state of a snapshot loop and of a run.
SnapState == [at : {"idle", "version", "create", "latest", "delete"}, upto : Versions, label : Versions]
ReplayState == [at : {"idle", "events", "built"}, upto : Versions \cup {None}, label : Versions, seen : Versions]

\* Every step keeps the types.
LEMMA TypeStep == ASSUME TypeOK, [Next]_vars PROVE TypeOK'
<1> USE SnapshotAssumption DEF TypeOK, Versions
<1>0. len \in Nat /\ len <= MaxEvents /\ Len(stream) \in Nat
  OBVIOUS
<1>1. CASE AppendEvent
  BY <1>0, <1>1 DEF AppendEvent
<1>2. ASSUME NEW w \in Workers, SnapshotBuild(w) PROVE TypeOK'
  BY <1>0, <1>2 DEF SnapshotBuild
<1>3. ASSUME NEW w \in Workers, SnapshotVersion(w) PROVE TypeOK'
  <2>1. [at |-> "create", upto |-> snap[w].upto, label |-> len] \in SnapState
    BY <1>0 DEF SnapState
  <2>2. snap' \in [Workers -> SnapState]
    BY <1>3, <2>1 DEF SnapshotVersion, SnapState
  <2> QED
    BY <1>3, <2>2 DEF SnapshotVersion, SnapState
<1>4. ASSUME NEW w \in Workers, CreateSnapshot(w) PROVE TypeOK'
  BY <1>0, <1>4 DEF CreateSnapshot, NoSnap
<1>5. ASSUME NEW w \in Workers, SnapshotLatest(w) PROVE TypeOK'
  <2>1. PICK v \in Versions : snap' = [snap EXCEPT ![w] = [at |-> "delete", upto |-> 0, label |-> v]]
    BY <1>5 DEF SnapshotLatest
  <2>2. [at |-> "delete", upto |-> 0, label |-> v] \in SnapState
    BY DEF SnapState
  <2>3. snap' \in [Workers -> SnapState]
    BY <2>1, <2>2 DEF SnapState
  <2> QED
    BY <1>5, <2>3 DEF SnapshotLatest, SnapState
<1>6. ASSUME NEW w \in Workers, DeleteSnapshotsBefore(w) PROVE TypeOK'
  BY <1>0, <1>6 DEF DeleteSnapshotsBefore, NoSnap
<1>7. ASSUME NEW w \in Workers, SnapshotGiveUp(w) PROVE TypeOK'
  BY <1>0, <1>7 DEF SnapshotGiveUp, NoSnap
<1>8. ASSUME NEW r \in Runs, GetLatestSnapshot(r) PROVE TypeOK'
  <2>1. PICK x \in ReplayState : replay' = [replay EXCEPT ![r] = x]
    <3>1. CASE replay' = [replay EXCEPT ![r] = [at |-> "events", upto |-> None, label |-> 0, seen |-> 0]]
      <4>1. [at |-> "events", upto |-> None, label |-> 0, seen |-> 0] \in ReplayState
        BY DEF ReplayState
      <4> QED
        BY <3>1, <4>1
    <3>2. ASSUME NEW v \in Versions,
                 replay' = [replay EXCEPT ![r] =
                             [at |-> "events", upto |-> snaps[v], label |-> v, seen |-> 0]]
          PROVE  \E x \in ReplayState : replay' = [replay EXCEPT ![r] = x]
      <4>1. [at |-> "events", upto |-> snaps[v], label |-> v, seen |-> 0] \in ReplayState
        BY DEF ReplayState
      <4> QED
        BY <3>2, <4>1
    <3> QED
      BY <1>8, <3>1, <3>2 DEF GetLatestSnapshot
  <2> QED
    BY <1>8, <2>1 DEF GetLatestSnapshot, ReplayState
<1>9. ASSUME NEW r \in Runs, ListEvents(r) PROVE TypeOK'
  <2>1. [at |-> "built", upto |-> replay[r].upto, label |-> replay[r].label, seen |-> len]
          \in ReplayState
    BY <1>0 DEF ReplayState
  <2>2. replay' \in [Runs -> ReplayState]
    BY <1>9, <2>1 DEF ListEvents, ReplayState
  <2> QED
    BY <1>9, <2>2 DEF ListEvents, ReplayState
<1>10. ASSUME NEW r \in Runs, ReplayDone(r) PROVE TypeOK'
  BY <1>0, <1>10 DEF ReplayDone, NoReplay
<1>11. CASE UNCHANGED vars
  BY <1>11 DEF vars
<1> QED
  BY <1>1, <1>2, <1>3, <1>4, <1>5, <1>6, <1>7, <1>8, <1>9, <1>10, <1>11 DEF Next

\* Every step keeps NothingTwice and what it rests on.
LEMMA BehindStep ==
    ASSUME TypeOK, NothingTwice, ReadsBehind, [Next]_vars
    PROVE  NothingTwice' /\ ReadsBehind'
<1> USE SnapshotAssumption DEF TypeOK, Versions, NothingTwice, ReadsBehind, Rows
<1>0. len \in Nat /\ len <= MaxEvents /\ Len(stream) \in Nat
  OBVIOUS
<1>1. CASE AppendEvent
  BY <1>0, <1>1 DEF AppendEvent
<1>2. ASSUME NEW w \in Workers, SnapshotBuild(w) PROVE NothingTwice' /\ ReadsBehind'
  BY <1>0, <1>2 DEF SnapshotBuild
<1>3. ASSUME NEW w \in Workers, SnapshotVersion(w) PROVE NothingTwice' /\ ReadsBehind'
  BY <1>0, <1>3 DEF SnapshotVersion
<1>4. ASSUME NEW w \in Workers, CreateSnapshot(w) PROVE NothingTwice' /\ ReadsBehind'
  BY <1>0, <1>4 DEF CreateSnapshot, NoSnap
<1>5. ASSUME NEW w \in Workers, SnapshotLatest(w) PROVE NothingTwice' /\ ReadsBehind'
  BY <1>0, <1>5 DEF SnapshotLatest
<1>6. ASSUME NEW w \in Workers, DeleteSnapshotsBefore(w) PROVE NothingTwice' /\ ReadsBehind'
  BY <1>0, <1>6 DEF DeleteSnapshotsBefore, NoSnap
<1>7. ASSUME NEW w \in Workers, SnapshotGiveUp(w) PROVE NothingTwice' /\ ReadsBehind'
  BY <1>0, <1>7 DEF SnapshotGiveUp, NoSnap
<1>8. ASSUME NEW r \in Runs, GetLatestSnapshot(r) \/ ListEvents(r) \/ ReplayDone(r)
      PROVE  NothingTwice' /\ ReadsBehind'
  BY <1>0, <1>8 DEF GetLatestSnapshot, ListEvents, ReplayDone
<1>9. CASE UNCHANGED vars
  BY <1>9 DEF vars
<1> QED
  BY <1>1, <1>2, <1>3, <1>4, <1>5, <1>6, <1>7, <1>8, <1>9 DEF Next

\* No step takes the latest snapshot back: only a deletion removes rows, and it
\* leaves the one it was told to keep, or a later one.
LEMMA AdvanceStep == ASSUME TypeOK, DeleteKeeps, [Next]_vars PROVE Advances
<1> USE SnapshotAssumption DEF TypeOK, Versions, Advances
<1>1. ASSUME NEW w \in Workers, CreateSnapshot(w) PROVE Advances
  BY <1>1 DEF CreateSnapshot
<1>2. ASSUME NEW w \in Workers, DeleteSnapshotsBefore(w) PROVE Advances
  <2>1. PICK u \in Versions : u >= snap[w].label /\ snaps[u] # None
    BY <1>2 DEF DeleteSnapshotsBefore, DeleteKeeps
  <2>2. snaps'[u] # None
    BY <1>2, <2>1 DEF DeleteSnapshotsBefore
  <2>3. ASSUME NEW v \in Versions, snaps[v] # None
        PROVE  \E x \in Versions : x >= v /\ snaps'[x] # None
    <3>1. CASE v < snap[w].label
      BY <2>1, <2>2, <3>1
    <3>2. CASE ~(v < snap[w].label)
      BY <1>2, <2>3, <3>2 DEF DeleteSnapshotsBefore
    <3> QED
      BY <3>1, <3>2
  <2> QED
    BY <2>3
<1>3. CASE UNCHANGED snaps
  BY <1>3
<1> QED
  BY <1>1, <1>2, <1>3 DEF Next, vars, AppendEvent, SnapshotBuild, SnapshotVersion, SnapshotLatest,
     SnapshotGiveUp, GetLatestSnapshot, ListEvents, ReplayDone

\* A deletion that is under way keeps what it must, since rows only advance.
LEMMA DeleteStep == ASSUME TypeOK, DeleteKeeps, Advances, [Next]_vars PROVE DeleteKeeps'
<1> USE SnapshotAssumption DEF TypeOK, Versions, DeleteKeeps
<1>1. ASSUME NEW w \in Workers, snap'[w] = snap[w], snap[w].at = "delete"
      PROVE  \E u \in Versions : u >= snap'[w].label /\ snaps'[u] # None
  <2>1. PICK u \in Versions : u >= snap[w].label /\ snaps[u] # None
    BY <1>1
  <2>2. PICK x \in Versions : x >= u /\ snaps'[x] # None
    BY <2>1 DEF Advances
  <2> QED
    BY <1>1, <2>1, <2>2
<1>2. ASSUME NEW w \in Workers, SnapshotLatest(w) PROVE DeleteKeeps'
  <2>1. PICK v \in Versions : IsLatest(v) /\ snap' = [snap EXCEPT ![w] = [at |-> "delete", upto |-> 0, label |-> v]]
    BY <1>2 DEF SnapshotLatest
  <2>2. snaps' = snaps /\ snaps[v] # None
    BY <1>2, <2>1 DEF SnapshotLatest, IsLatest, Rows
  <2> QED
    BY <1>1, <2>1, <2>2
<1>3. ASSUME NEW w \in Workers,
             \/ SnapshotBuild(w) \/ SnapshotVersion(w) \/ CreateSnapshot(w)
             \/ DeleteSnapshotsBefore(w) \/ SnapshotGiveUp(w)
      PROVE  DeleteKeeps'
  <2>1. snap'[w].at # "delete" /\ \A y \in Workers : y # w => snap'[y] = snap[y]
    BY <1>3 DEF SnapshotBuild, SnapshotVersion, CreateSnapshot, DeleteSnapshotsBefore, SnapshotGiveUp, NoSnap
  <2> QED
    BY <1>1, <2>1
<1>4. CASE UNCHANGED snap
  BY <1>1, <1>4
<1> QED
  BY <1>2, <1>3, <1>4 DEF Next, vars, AppendEvent, GetLatestSnapshot, ListEvents, ReplayDone

LEMMA StepIInv == ASSUME IInv, [Next]_vars PROVE IInv'
  BY TypeStep, BehindStep, AdvanceStep, DeleteStep DEF IInv

LEMMA Always == Spec => []IInv
  BY InitIInv, StepIInv, PTL DEF Spec

\* The snapshot table and the reads of loops and runs keep their types.
THEOREM SnapshotTypeCorrect == Spec => []TypeOK
<1>1. IInv => TypeOK
  BY DEF IInv
<1> QED
  BY <1>1, Always, PTL

\* However many workers take snapshots, none is labelled with fewer events than it
\* was built from, or with more than the stream has: replay applies no event twice.
THEOREM NeverTwice == Spec => []NothingTwice
<1>1. IInv => NothingTwice
  BY DEF IInv
<1> QED
  BY <1>1, Always, PTL

\* However the snapshot loops of the workers interleave, their deletions never take
\* the version back from which a job can resume.
THEOREM LatestNeverBack == Spec => LatestAdvances
<1>1. ASSUME IInv, [Next]_vars
      PROVE  [\A v \in Rows : \E u \in Versions : u >= v /\ snaps'[u] # None]_vars
  BY <1>1, AdvanceStep DEF IInv, Advances, Rows
<1> QED
  BY <1>1, Always, PTL DEF Spec, LatestAdvances

-----------------------------------------------------------------------------
(* Induction, and what FoldLeft computes *)

\* A nonempty set of natural numbers has a least element.
LEMMA LeastNumber ==
    ASSUME NEW S \in SUBSET Nat, S # {}
    PROVE  \E n \in S : \A m \in S : n <= m
<1> DEFINE R == OpToRel(<, Nat)
<1>1. R = {ss \in Nat \X Nat : ss[1] < ss[2]}
  BY Zenon DEF OpToRel
<1>2. IsWellFoundedOn(R, Nat)
  BY NatLessThanWellFounded
<1> HIDE DEF R
<1>3. PICK n \in S : \A m \in S : << m, n >> \notin R
  BY <1>2, WFMin
<1>4. ASSUME NEW m \in S
      PROVE  n <= m
  <2>1. /\ << m, n >> \in Nat \X Nat /\ << m, n >> \notin R
        /\ << m, n >>[1] = m /\ << m, n >>[2] = n
    BY <1>3
  <2>2. ~ (m < n)
    BY <1>1, <2>1
  <2> QED
    BY <2>2
<1> QED
  BY <1>3, <1>4


LEMMA MaxFacts ==
    ASSUME NEW b \in Nat, NEW S \in SUBSET (0..b), S # {}
    PROVE  Max(S) \in S /\ \A m \in S : Max(S) >= m
<1> DEFINE T == {k \in Nat : k <= b /\ b - k \in S}
<1>1. T # {}
  <2>1. PICK x \in S : x \in 0..b
    OBVIOUS
  <2>2. b - x \in Nat /\ b - x <= b /\ b - (b - x) = x
    BY <2>1
  <2> QED
    BY <2>1, <2>2
<1>2. PICK k \in T : \A l \in T : k <= l
  BY <1>1, LeastNumber
<1>3. ASSUME NEW m \in S PROVE b - k >= m
  <2>1. m \in 0..b
    OBVIOUS
  <2>2. b - m \in Nat /\ b - m <= b /\ b - (b - m) = m
    BY <2>1
  <2>3. b - m \in T
    BY <2>2
  <2>4. k <= b - m /\ k \in Nat
    BY <1>2, <2>3
  <2> QED
    BY <2>1, <2>4
<1>4. b - k \in S /\ \A m \in S : b - k >= m
  BY <1>2, <1>3
<1>5. \E x \in S : \A m \in S : x >= m
  BY <1>4
<1> QED
  BY <1>5 DEF Max

LEMMA Induction ==
    ASSUME NEW S \in SUBSET Nat, 0 \in S, \A k \in S : k + 1 \in S
    PROVE  S = Nat
<1> SUFFICES ASSUME Nat \ S # {} PROVE FALSE
  OBVIOUS
<1>1. PICK n \in Nat \ S : \A m \in Nat \ S : n <= m
  BY LeastNumber
<1>2. n # 0 /\ n - 1 \in Nat /\ ~ (n <= n - 1) /\ (n - 1) + 1 = n
  BY <1>1
<1>3. n - 1 \in S
  BY <1>1, <1>2
<1> QED
  BY <1>1, <1>2, <1>3

\* The function that FoldLeft is defined by: the result for a set d of positions
\* of s is the event at the highest of them applied to the result for the rest.
Fold(c, s, f, d) == IF d = {} THEN c ELSE LET x == Max(d) IN ApplyEvent(f[d \ {x}], s[x])
Folded(c, s) == CHOOSE f : f = [d \in SUBSET DOMAIN s |-> Fold(c, s, f, d)]

\* Without its highest position, a set of positions up to k + 1 goes up to k.
LEMMA HighestOut ==
    ASSUME NEW k \in Nat, NEW d \in SUBSET (1..(k + 1)), d # {}
    PROVE  Max(d) \in d /\ d \ {Max(d)} \subseteq 1..k
<1>1. d \in SUBSET (0..(k + 1)) /\ k + 1 \in Nat
  OBVIOUS
<1>2. Max(d) \in d /\ \A m \in d : Max(d) >= m
  BY <1>1, MaxFacts
<1>3. ASSUME NEW m \in d, m # Max(d) PROVE m \in 1..k
  <2>1. m \in 1..(k + 1) /\ Max(d) \in 1..(k + 1) /\ Max(d) >= m
    BY <1>2
  <2> QED
    BY <1>3, <2>1
<1> QED
  BY <1>2, <1>3

LEMMA FoldExists ==
    ASSUME NEW c, NEW s, NEW n \in Nat, DOMAIN s = 1..n
    PROVE  \E f : f = [d \in SUBSET DOMAIN s |-> Fold(c, s, f, d)]
<1> DEFINE Solves(f, k) == \A d \in SUBSET DOMAIN s : d \subseteq 1..k => f[d] = Fold(c, s, f, d)
           S == {k \in Nat : \E f : Solves(f, k)}
<1>1. 0 \in S
  <2> DEFINE f == [d \in SUBSET DOMAIN s |-> c]
  <2>1. \A d \in SUBSET DOMAIN s : d \subseteq 1..0 => d = {} /\ f[d] = c
    OBVIOUS
  <2>2. Solves(f, 0)
    BY <2>1 DEF Fold
  <2> QED
    BY <2>2
<1>2. ASSUME NEW k \in S PROVE k + 1 \in S
  <2>1. PICK f : Solves(f, k)
    OBVIOUS
  <2> DEFINE g == [d \in SUBSET DOMAIN s |-> Fold(c, s, f, d)]
  <2>2. ASSUME NEW d \in SUBSET DOMAIN s, d \subseteq 1..(k + 1) PROVE g[d] = Fold(c, s, g, d)
    <3>1. CASE d = {}
      BY <3>1 DEF Fold
    <3>2. CASE d # {}
      <4> DEFINE e == d \ {Max(d)}
      <4>1. e \in SUBSET DOMAIN s /\ e \subseteq 1..k
        BY <2>2, <3>2, HighestOut
      <4>2. g[e] = f[e]
        BY <2>1, <4>1
      <4> QED
        BY <3>2, <4>2 DEF Fold
    <3> QED
      BY <3>1, <3>2
  <2> HIDE DEF g
  <2>3. Solves(g, k + 1)
    BY <2>2
  <2> QED
    BY <2>3
<1> HIDE DEF Solves
<1>3. S = Nat
  <2>1. S \in SUBSET Nat
    OBVIOUS
  <2> HIDE DEF S
  <2> QED
    BY <1>1, <1>2, <2>1, Induction
<1>4. PICK f : Solves(f, n)
  BY <1>3
<1>5. \A d \in SUBSET DOMAIN s : f[d] = Fold(c, s, f, d)
  BY <1>4 DEF Solves
<1> DEFINE g == [d \in SUBSET DOMAIN s |-> f[d]]
<1>6. ASSUME NEW d \in SUBSET DOMAIN s PROVE f[d] = Fold(c, s, g, d)
  <2>1. CASE d = {}
    BY <1>5, <2>1 DEF Fold
  <2>2. CASE d # {}
    <3>1. d \ {Max(d)} \in SUBSET DOMAIN s
      OBVIOUS
    <3> QED
      BY <1>5, <2>2, <3>1 DEF Fold
  <2> QED
    BY <2>1, <2>2
<1>7. g = [d \in SUBSET DOMAIN s |-> Fold(c, s, g, d)]
  BY <1>6
<1> QED
  BY <1>7

\* f[i] is the context after the first i events of s.
Trace(f, c, s) == f[0] = c /\ \A i \in 1..Len(s) : f[i] = ApplyEvent(f[i - 1], s[i])

LEMMA TraceExists ==
    ASSUME NEW c, NEW s \in Seq(Event)
    PROVE  \E f : Trace(f, c, s) /\ f[Len(s)] = FoldLeft(ApplyEvent, c, s)
<1> DEFINE n == Len(s)
           h == Folded(c, s)
           f == [i \in 0..n |-> h[1..i]]
<1>1. n \in Nat /\ DOMAIN s = 1..n
  OBVIOUS
<1>2. FoldLeft(ApplyEvent, c, s) = h[1..n]
  <2>1. FoldLeft(ApplyEvent, c, s) = Folded(c, s)[DOMAIN s]
    BY DEF FoldLeft, MapThenFoldSet, Folded, Fold
  <2> QED
    BY <1>1, <2>1
<1>3. \A d \in SUBSET (1..n) : h[d] = Fold(c, s, h, d)
  <2>1. \E g : g = [d \in SUBSET DOMAIN s |-> Fold(c, s, g, d)]
    BY <1>1, FoldExists
  <2>2. h = [d \in SUBSET DOMAIN s |-> Fold(c, s, h, d)]
    BY <2>1 DEF Folded
  <2> HIDE DEF h, n
  <2> QED
    BY <1>1, <2>2
<1> HIDE DEF h, n
<1>4. f[0] = c
  <2>1. 1..0 = {} /\ 1..0 \in SUBSET (1..n)
    BY <1>1
  <2>2. h[1..0] = c
    BY <1>3, <2>1 DEF Fold
  <2> QED
    BY <1>1, <2>2
<1>5. ASSUME NEW i \in 1..n PROVE f[i] = ApplyEvent(f[i - 1], s[i])
  <2> DEFINE d == 1..i
  <2>1. d \in SUBSET (1..n) /\ d # {} /\ i \in Nat /\ i - 1 \in 0..n /\ i \in 0..n
    BY <1>1
  <2>2. Max(d) = i
    <3>1. d \in SUBSET (0..i) /\ i \in d
      BY <2>1
    <3>2. Max(d) \in d /\ \A m \in d : Max(d) >= m
      BY <2>1, <3>1, MaxFacts
    <3> QED
      BY <3>1, <3>2
  <2>3. d \ {i} = 1..(i - 1)
    BY <2>1
  <2>4. h[d] = ApplyEvent(h[d \ {i}], s[i])
    BY <1>3, <2>1, <2>2 DEF Fold
  <2> QED
    BY <2>1, <2>3, <2>4
<1>6. f[n] = h[1..n]
  BY <1>1
<1> HIDE DEF f
<1>7. Trace(f, c, s)
  BY <1>4, <1>5 DEF Trace, n
<1> QED
  BY <1>2, <1>6, <1>7 DEF n

\* FoldLeft over the beginning of s is found in the trace of s.
LEMMA TraceFold ==
    ASSUME NEW c, NEW s \in Seq(Event), NEW f, Trace(f, c, s),
           NEW t \in Seq(Event), Len(t) <= Len(s), \A i \in 1..Len(t) : t[i] = s[i]
    PROVE  FoldLeft(ApplyEvent, c, t) = f[Len(t)]
<1>1. PICK g : Trace(g, c, t) /\ g[Len(t)] = FoldLeft(ApplyEvent, c, t)
  BY TraceExists
<1> DEFINE S == {k \in Nat : k <= Len(t) => g[k] = f[k]}
<1>2. 0 \in S
  BY <1>1 DEF Trace
<1>3. ASSUME NEW k \in S PROVE k + 1 \in S
  <2> SUFFICES ASSUME k + 1 <= Len(t) PROVE g[k + 1] = f[k + 1]
    OBVIOUS
  <2>1. k + 1 \in 1..Len(t) /\ k + 1 \in 1..Len(s) /\ (k + 1) - 1 = k /\ g[k] = f[k]
    OBVIOUS
  <2>2. g[k + 1] = ApplyEvent(g[k], t[k + 1])
    BY <1>1, <2>1 DEF Trace
  <2>3. f[k + 1] = ApplyEvent(f[k], s[k + 1])
    BY <2>1 DEF Trace
  <2> QED
    BY <2>1, <2>2, <2>3
<1>4. S = Nat
  <2>1. S \in SUBSET Nat
    OBVIOUS
  <2> HIDE DEF S
  <2> QED
    BY <1>2, <1>3, <2>1, Induction
<1> QED
  BY <1>1, <1>4

-----------------------------------------------------------------------------
(* One event, field by field *)

Adds(set, if, n) == IF if THEN set \cup {n} ELSE set

EndsNode(e) == (e.type = "node_finished" /\ e.ok) \/ e.type = "wait_completed"

\* d is the context c after event e: every field depends on the same field before
\* it, but for a write to a map that is not allocated.
Applied(d, c, e) ==
    /\ d.plan <=> (c.plan \/ e.type = "plan_generated")
    /\ d.cursor = IF EndsNode(e) THEN e.node ELSE c.cursor
    /\ d.nodes = Adds(c.nodes, EndsNode(e), e.node)
    /\ d.commands = Adds(c.commands, e.type \in {"command_committed", "wait_completed"}, e.node)
    /\ d.invocations = Adds(c.invocations, e.type = "tool_invocation_finished" /\ e.ok, e.node)
    /\ d.pending = IF e.type = "tool_invocation_started" THEN c.pending \cup {e.node}
                   ELSE IF e.type = "tool_invocation_finished" THEN c.pending \ {e.node} ELSE c.pending
    /\ d.changes = IF e.type = "state_changed" THEN Append(c.changes, e.node) ELSE c.changes
    /\ d.approved = Adds(c.approved, e.type = "wait_completed" /\ e.ok, e.node)
    /\ d.wait = IF e.type = "job_waiting" /\ e.ok THEN e.node
                ELSE IF e.type = "wait_completed" THEN None ELSE c.wait
    /\ d.memory = IF e.type = "job_waiting" /\ e.ok THEN e.node ELSE c.memory
    /\ d.recorded = IF e.type \in Recorded /\ e.type \notin c.nilMaps
                    THEN [c.recorded EXCEPT ![e.type] = @ \cup {e.node}] ELSE c.recorded
    /\ d.phase = c.phase
    /\ d.nilMaps = c.nilMaps
    /\ d.panic <=> (e.type \in c.nilMaps)

\* A context is its fields.
LEMMA SameContext ==
    ASSUME NEW c \in ReplayContext, NEW d \in ReplayContext,
           d.plan = c.plan, d.cursor = c.cursor, d.nodes = c.nodes, d.commands = c.commands,
           d.invocations = c.invocations, d.pending = c.pending, d.changes = c.changes,
           d.approved = c.approved, d.wait = c.wait, d.memory = c.memory,
           d.recorded = c.recorded, d.phase = c.phase, d.nilMaps = c.nilMaps, d.panic = c.panic
    PROVE  d = c
  BY DEF ReplayContext

LEMMA ApplyIs ==
    ASSUME NEW c \in ReplayContext, ~ c.panic, NEW e \in Event
    PROVE  ApplyEvent(c, e) \in ReplayContext /\ Applied(ApplyEvent(c, e), c, e)
<1>1. /\ c.nilMaps \subseteq Recorded /\ c.plan \in BOOLEAN /\ c.panic = FALSE
      /\ e.ok \in BOOLEAN /\ e.node \in NodeIDs
      /\ c.recorded \in [Recorded -> SUBSET NodeIDs]
      /\ c.nodes \cup {e.node} \in SUBSET NodeIDs /\ c.commands \cup {e.node} \in SUBSET NodeIDs
      /\ c.invocations \cup {e.node} \in SUBSET NodeIDs /\ c.approved \cup {e.node} \in SUBSET NodeIDs
      /\ c.pending \cup {e.node} \in SUBSET NodeIDs /\ c.pending \ {e.node} \in SUBSET NodeIDs
      /\ Append(c.changes, e.node) \in Seq(NodeIDs) /\ None \in NodeIDs
  <2>1. c.changes \in Seq(NodeIDs) /\ e.node \in NodeIDs
    BY DEF ReplayContext, Event
  <2>2. Append(c.changes, e.node) \in Seq(NodeIDs) /\ None \in NodeIDs
    BY <2>1 DEF NodeIDs
  <2> QED
    BY <2>1, <2>2 DEF ReplayContext, Event
<1>2. CASE e.type = "tool_invocation_started"
  <2>1. ApplyEvent(c, e) = [c EXCEPT !.pending = @ \cup {e.node}]
    BY <1>1, <1>2 DEF ApplyEvent, Recorded, StoredAsIs
  <2>2. e.type \notin Recorded
    BY <1>2 DEF Recorded, StoredAsIs
  <2>3. ApplyEvent(c, e) \in ReplayContext
    BY <1>1, <2>1 DEF ReplayContext
  <2>4. Applied(ApplyEvent(c, e), c, e)
    BY <1>1, <1>2, <2>1, <2>2 DEF Applied, Adds, EndsNode, ReplayContext
  <2> QED
    BY <2>3, <2>4
<1>3. CASE e.type = "tool_invocation_finished"
  <2>1. ApplyEvent(c, e) = [c EXCEPT !.pending = @ \ {e.node}, !.invocations = IF e.ok THEN @ \cup {e.node} ELSE @]
    BY <1>1, <1>3 DEF ApplyEvent, Recorded, StoredAsIs
  <2>2. e.type \notin Recorded
    BY <1>3 DEF Recorded, StoredAsIs
  <2>3. ApplyEvent(c, e) \in ReplayContext
    BY <1>1, <2>1 DEF ReplayContext
  <2>4. Applied(ApplyEvent(c, e), c, e)
    BY <1>1, <1>3, <2>1, <2>2 DEF Applied, Adds, EndsNode, ReplayContext
  <2> QED
    BY <2>3, <2>4
<1>4. CASE e.type = "plan_generated"
  <2>1. ApplyEvent(c, e) = [c EXCEPT !.plan = TRUE]
    BY <1>1, <1>4 DEF ApplyEvent, Recorded, StoredAsIs
  <2>2. e.type \notin Recorded
    BY <1>4 DEF Recorded, StoredAsIs
  <2>3. ApplyEvent(c, e) \in ReplayContext
    BY <1>1, <2>1 DEF ReplayContext
  <2>4. Applied(ApplyEvent(c, e), c, e)
    BY <1>1, <1>4, <2>1, <2>2 DEF Applied, Adds, EndsNode, ReplayContext
  <2> QED
    BY <2>3, <2>4
<1>5. CASE e.type = "node_finished" /\ e.ok
  <2>1. ApplyEvent(c, e) = [c EXCEPT !.nodes = @ \cup {e.node}, !.cursor = e.node]
    BY <1>1, <1>5 DEF ApplyEvent, Recorded, StoredAsIs
  <2>2. e.type \notin Recorded
    BY <1>5 DEF Recorded, StoredAsIs
  <2>3. ApplyEvent(c, e) \in ReplayContext
    BY <1>1, <2>1 DEF ReplayContext
  <2>4. Applied(ApplyEvent(c, e), c, e)
    BY <1>1, <1>5, <2>1, <2>2 DEF Applied, Adds, EndsNode, ReplayContext
  <2> QED
    BY <2>3, <2>4
<1>6. CASE e.type = "command_committed"
  <2>1. ApplyEvent(c, e) = [c EXCEPT !.commands = @ \cup {e.node}]
    BY <1>1, <1>6 DEF ApplyEvent, Recorded, StoredAsIs
  <2>2. e.type \notin Recorded
    BY <1>6 DEF Recorded, StoredAsIs
  <2>3. ApplyEvent(c, e) \in ReplayContext
    BY <1>1, <2>1 DEF ReplayContext
  <2>4. Applied(ApplyEvent(c, e), c, e)
    BY <1>1, <1>6, <2>1, <2>2 DEF Applied, Adds, EndsNode, ReplayContext
  <2> QED
    BY <2>3, <2>4
<1>7. CASE e.type = "state_changed"
  <2>1. ApplyEvent(c, e) = [c EXCEPT !.changes = Append(@, e.node)]
    BY <1>1, <1>7 DEF ApplyEvent, Recorded, StoredAsIs
  <2>2. e.type \notin Recorded
    BY <1>7 DEF Recorded, StoredAsIs
  <2>3. ApplyEvent(c, e) \in ReplayContext
    BY <1>1, <2>1 DEF ReplayContext
  <2>4. Applied(ApplyEvent(c, e), c, e)
    BY <1>1, <1>7, <2>1, <2>2 DEF Applied, Adds, EndsNode, ReplayContext
  <2> QED
    BY <2>3, <2>4
<1>8. CASE e.type = "job_waiting" /\ e.ok
  <2>1. ApplyEvent(c, e) = [c EXCEPT !.wait = e.node, !.memory = e.node]
    BY <1>1, <1>8 DEF ApplyEvent, Recorded, StoredAsIs
  <2>2. e.type \notin Recorded
    BY <1>8 DEF Recorded, StoredAsIs
  <2>3. ApplyEvent(c, e) \in ReplayContext
    BY <1>1, <2>1 DEF ReplayContext
  <2>4. Applied(ApplyEvent(c, e), c, e)
    BY <1>1, <1>8, <2>1, <2>2 DEF Applied, Adds, EndsNode, ReplayContext
  <2> QED
    BY <2>3, <2>4
<1>9. CASE e.type = "wait_completed"
  <2>1. ApplyEvent(c, e) = [c EXCEPT !.nodes = @ \cup {e.node}, !.cursor = e.node, !.wait = None,
                                    !.commands = @ \cup {e.node},
                                    !.approved = IF e.ok THEN @ \cup {e.node} ELSE @]
    BY <1>1, <1>9 DEF ApplyEvent, Recorded, StoredAsIs
  <2>2. e.type \notin Recorded
    BY <1>9 DEF Recorded, StoredAsIs
  <2>3. ApplyEvent(c, e) \in ReplayContext
    BY <1>1, <2>1 DEF ReplayContext
  <2>4. Applied(ApplyEvent(c, e), c, e)
    BY <1>1, <1>9, <2>1, <2>2 DEF Applied, Adds, EndsNode, ReplayContext
  <2> QED
    BY <2>3, <2>4
<1>10. CASE e.type \in Recorded /\ e.type \notin c.nilMaps
  <2> DEFINE r == [c.recorded EXCEPT ![e.type] = @ \cup {e.node}]
  <2>1. ApplyEvent(c, e) = [c EXCEPT !.recorded = r]
    BY <1>1, <1>10 DEF ApplyEvent, Recorded, StoredAsIs, RecordEffect, ReplayContext
  <2>2. r \in [Recorded -> SUBSET NodeIDs]
    BY <1>1, <1>10
  <2> HIDE DEF r
  <2>3. r = [c.recorded EXCEPT ![e.type] = @ \cup {e.node}]
    BY DEF r
  <2>4. ~ EndsNode(e) /\ e.type \notin {"command_committed", "wait_completed", "plan_generated", "job_waiting",
          "tool_invocation_started", "tool_invocation_finished", "state_changed"}
    BY <1>10 DEF EndsNode, Recorded, StoredAsIs
  <2>5. ApplyEvent(c, e) \in ReplayContext
    BY <1>1, <2>1, <2>2 DEF ReplayContext
  <2>6. Applied(ApplyEvent(c, e), c, e)
    BY <1>1, <1>10, <2>1, <2>2, <2>3, <2>4 DEF Applied, Adds, ReplayContext
  <2> QED
    BY <2>5, <2>6
<1>11. CASE e.type \in Recorded /\ e.type \in c.nilMaps
  <2>1. ApplyEvent(c, e) = [c EXCEPT !.panic = TRUE]
    BY <1>1, <1>11 DEF ApplyEvent, Recorded, StoredAsIs, RecordEffect
  <2>2. ~ EndsNode(e) /\ e.type \notin {"command_committed", "wait_completed", "plan_generated", "job_waiting",
          "tool_invocation_started", "tool_invocation_finished", "state_changed"}
    BY <1>11 DEF EndsNode, Recorded, StoredAsIs
  <2>3. ApplyEvent(c, e) \in ReplayContext
    BY <1>1, <2>1 DEF ReplayContext
  <2>4. Applied(ApplyEvent(c, e), c, e)
    BY <1>1, <1>11, <2>1, <2>2 DEF Applied, Adds, ReplayContext
  <2> QED
    BY <2>3, <2>4
<1>12. CASE \/ e.type \in {"job_created", "job_completed", "job_failed", "job_cancelled", "job_requeued"}
           \/ (e.type \in {"node_finished", "job_waiting"} /\ ~ e.ok)
  <2>1. ApplyEvent(c, e) = c
    BY <1>1, <1>12 DEF ApplyEvent, Recorded, StoredAsIs
  <2>2. e.type \notin Recorded
    BY <1>12 DEF Recorded, StoredAsIs
  <2>3. ApplyEvent(c, e) \in ReplayContext
    BY <1>1, <2>1 DEF ReplayContext
  <2>4. Applied(ApplyEvent(c, e), c, e)
    BY <1>1, <1>12, <2>1, <2>2 DEF Applied, Adds, EndsNode, ReplayContext
  <2> QED
    BY <2>3, <2>4
<1>13. \/ e.type \in {"job_created", "plan_generated", "tool_invocation_started",
                   "tool_invocation_finished", "command_committed", "node_finished",
                   "state_changed", "job_waiting", "wait_completed", "job_completed",
                   "job_failed", "job_cancelled", "job_requeued"}
      \/ e.type \in Recorded
  BY DEF Event
<1> QED
  BY <1>1, <1>2, <1>3, <1>4, <1>5, <1>6, <1>7, <1>8, <1>9, <1>10, <1>11, <1>12, <1>13

-----------------------------------------------------------------------------
(* Two contexts that take the same events *)

\* d claims nothing that c does not.
Below(d, c) ==
    \/ d.panic
    \/ /\ d.plan => c.plan
       /\ d.nodes \subseteq c.nodes /\ d.commands \subseteq c.commands
       /\ d.invocations \subseteq c.invocations /\ d.approved \subseteq c.approved
       /\ Len(d.changes) <= Len(c.changes)

\* d and c agree on all that comes from events.
Like(d, c) ==
    \/ d.panic
    \/ /\ d.plan <=> c.plan
       /\ d.cursor = c.cursor /\ d.nodes = c.nodes /\ d.commands = c.commands
       /\ d.invocations = c.invocations /\ d.pending = c.pending /\ d.changes = c.changes
       /\ d.approved = c.approved /\ d.wait = c.wait /\ d.memory = c.memory
       /\ d.recorded = c.recorded

\* A context of the stream alone, in which every map is allocated.
Full(c) == c \in ReplayContext /\ c.nilMaps = {} /\ ~ c.panic /\ c.phase = "planning"

LEMMA EmptyFull == Full(EmptyContext) /\ ~ EmptyContext.plan
<1>1. [k \in Recorded |-> {}] \in [Recorded -> SUBSET NodeIDs] /\ None \in NodeIDs
  BY DEF NodeIDs
<1>2. << >> \in Seq(NodeIDs)
  OBVIOUS
<1> QED
  BY <1>1, <1>2 DEF Full, EmptyContext, ReplayContext

LEMMA FullStep ==
    ASSUME NEW c, Full(c), NEW e \in Event
    PROVE  Full(ApplyEvent(c, e)) /\ (c.plan => ApplyEvent(c, e).plan)
  BY ApplyIs DEF Full, Applied

LEMMA PanicStep ==
    ASSUME NEW c \in ReplayContext, c.panic, NEW e
    PROVE  ApplyEvent(c, e) = c
  BY DEF ApplyEvent

LEMMA BelowStep ==
    ASSUME NEW c, Full(c), NEW d \in ReplayContext, NEW e \in Event, Below(d, c)
    PROVE  /\ Below(d, ApplyEvent(c, e))
           /\ ApplyEvent(d, e) \in ReplayContext /\ Below(ApplyEvent(d, e), ApplyEvent(c, e))
<1>1. CASE d.panic
  BY <1>1, PanicStep DEF Below
<1>2. CASE ~ d.panic
  <2> DEFINE x == ApplyEvent(c, e)
             y == ApplyEvent(d, e)
  <2>1. x \in ReplayContext /\ Applied(x, c, e) /\ y \in ReplayContext /\ Applied(y, d, e)
    BY <1>2, ApplyIs DEF Full
  <2> HIDE DEF x, y
  <2>2. /\ c.changes \in Seq(NodeIDs) /\ d.changes \in Seq(NodeIDs) /\ e.node \in NodeIDs
        /\ Len(d.changes) <= Len(c.changes)
    BY <1>2 DEF ReplayContext, Full, Event, Below
  <2>3. /\ Len(Append(c.changes, e.node)) = Len(c.changes) + 1
        /\ Len(Append(d.changes, e.node)) = Len(d.changes) + 1
        /\ Len(c.changes) \in Nat /\ Len(d.changes) \in Nat
    BY <2>2
  <2>4. Len(d.changes) <= Len(x.changes) /\ Len(y.changes) <= Len(x.changes)
    BY <2>1, <2>2, <2>3 DEF Applied
  <2>5. /\ d.nodes \subseteq x.nodes /\ y.nodes \subseteq x.nodes
        /\ d.commands \subseteq x.commands /\ y.commands \subseteq x.commands
        /\ d.invocations \subseteq x.invocations /\ y.invocations \subseteq x.invocations
        /\ d.approved \subseteq x.approved /\ y.approved \subseteq x.approved
    BY <1>2, <2>1 DEF Applied, Adds, Below
  <2>6. (d.plan => x.plan) /\ (y.plan => x.plan)
    BY <1>2, <2>1 DEF Applied, Below
  <2>7. Below(d, x) /\ Below(y, x) /\ y \in ReplayContext
    BY <2>1, <2>4, <2>5, <2>6 DEF Below
  <2> QED
    BY <2>7 DEF x, y
<1> QED
  BY <1>1, <1>2

LEMMA LikeStep ==
    ASSUME NEW c, Full(c), NEW d \in ReplayContext, NEW e \in Event, Like(d, c)
    PROVE  Like(ApplyEvent(d, e), ApplyEvent(c, e))
<1>1. CASE d.panic
  BY <1>1, PanicStep DEF Like
<1>2. CASE ~ d.panic
  <2> DEFINE x == ApplyEvent(c, e)
             y == ApplyEvent(d, e)
  <2>1. x \in ReplayContext /\ Applied(x, c, e) /\ y \in ReplayContext /\ Applied(y, d, e) /\ c.nilMaps = {}
    BY <1>2, ApplyIs DEF Full
  <2> HIDE DEF x, y
  <2>2. CASE e.type \in d.nilMaps
    <3>1. y.panic
      BY <2>1, <2>2 DEF Applied
    <3> QED
      BY <3>1 DEF Like, x, y
  <2>3. CASE e.type \notin d.nilMaps
    <3>0. d.recorded = c.recorded
      BY <1>2 DEF Like
    <3>1. y.recorded = x.recorded
      BY <2>1, <2>3, <3>0 DEF Applied
    <3>2. /\ y.cursor = x.cursor /\ y.nodes = x.nodes /\ y.commands = x.commands
          /\ y.invocations = x.invocations /\ y.pending = x.pending /\ y.changes = x.changes
          /\ y.approved = x.approved /\ y.wait = x.wait /\ y.memory = x.memory
      <4>1. /\ d.cursor = c.cursor /\ d.nodes = c.nodes /\ d.commands = c.commands
            /\ d.invocations = c.invocations /\ d.pending = c.pending /\ d.changes = c.changes
            /\ d.approved = c.approved /\ d.wait = c.wait /\ d.memory = c.memory
        BY <1>2 DEF Like
      <4> QED
        BY <2>1, <4>1 DEF Applied
    <3>3. y.plan <=> x.plan
      BY <1>2, <2>1 DEF Applied, Like
    <3> QED
      BY <3>1, <3>2, <3>3 DEF Like, x, y
  <2> QED
    BY <2>2, <2>3
<1> QED
  BY <1>1, <1>2

\* Along the stream contexts stay full, and what was below one of them stays so.
LEMMA FullTrace ==
    ASSUME NEW s \in Seq(Event), NEW g, Trace(g, EmptyContext, s)
    PROVE  \A i \in 0..Len(s) : Full(g[i])
<1> DEFINE S == {k \in Nat : k <= Len(s) => Full(g[k])}
<1>1. 0 \in S
  BY EmptyFull DEF Trace
<1>2. ASSUME NEW k \in S PROVE k + 1 \in S
  <2> SUFFICES ASSUME k + 1 <= Len(s) PROVE Full(g[k + 1])
    OBVIOUS
  <2>1. k + 1 \in 1..Len(s) /\ (k + 1) - 1 = k /\ Full(g[k])
    OBVIOUS
  <2>2. g[k + 1] = ApplyEvent(g[k], s[k + 1]) /\ s[k + 1] \in Event
    BY <2>1 DEF Trace
  <2> QED
    BY <2>1, <2>2, FullStep
<1>3. S = Nat
  <2>1. S \in SUBSET Nat
    OBVIOUS
  <2> HIDE DEF S
  <2> QED
    BY <1>1, <1>2, <2>1, Induction
<1> QED
  BY <1>3

LEMMA SkipTrace ==
    ASSUME NEW s \in Seq(Event), NEW g, Trace(g, EmptyContext, s),
           NEW m \in Nat, NEW v \in Nat, m <= v, v <= Len(s),
           NEW d \in ReplayContext, Below(d, g[m])
    PROVE  Below(d, g[v])
<1> DEFINE S == {k \in Nat : m + k <= Len(s) => Below(d, g[m + k])}
<1>1. 0 \in S
  OBVIOUS
<1>2. ASSUME NEW k \in S PROVE k + 1 \in S
  <2> SUFFICES ASSUME m + (k + 1) <= Len(s) PROVE Below(d, g[m + (k + 1)])
    OBVIOUS
  <2> DEFINE j == m + k
  <2>1. /\ j + 1 \in 1..Len(s) /\ j \in 0..Len(s) /\ (j + 1) - 1 = j /\ m + (k + 1) = j + 1
        /\ Below(d, g[j])
    OBVIOUS
  <2> HIDE DEF j
  <2>2. g[j + 1] = ApplyEvent(g[j], s[j + 1]) /\ s[j + 1] \in Event
    BY <2>1 DEF Trace
  <2>3. Full(g[j])
    BY <2>1, FullTrace
  <2>4. Below(d, g[j + 1])
    BY <2>1, <2>2, <2>3, BelowStep
  <2> QED
    BY <2>1, <2>4
<1>3. S = Nat
  <2>1. S \in SUBSET Nat
    OBVIOUS
  <2> HIDE DEF S
  <2> QED
    BY <1>1, <1>2, <2>1, Induction
<1>4. v - m \in Nat /\ m + (v - m) = v
  OBVIOUS
<1>5. v - m \in S
  BY <1>3, <1>4
<1> QED
  BY <1>4, <1>5

\* The events after version v, applied to d.
LEMMA IncrementalTrace ==
    ASSUME NEW s \in Seq(Event), NEW g, Trace(g, EmptyContext, s),
           NEW v \in Nat, NEW t \in Seq(Event), v + Len(t) <= Len(s),
           \A i \in 1..Len(t) : t[i] = s[v + i], NEW d \in ReplayContext
    PROVE  /\ FoldLeft(ApplyEvent, d, t) \in ReplayContext
           /\ Below(d, g[v]) => Below(FoldLeft(ApplyEvent, d, t), g[v + Len(t)])
           /\ Like(d, g[v]) => Like(FoldLeft(ApplyEvent, d, t), g[v + Len(t)])
<1>1. PICK h : Trace(h, d, t) /\ h[Len(t)] = FoldLeft(ApplyEvent, d, t)
  BY TraceExists
<1> DEFINE Good(k) == /\ h[k] \in ReplayContext
                      /\ Below(d, g[v]) => Below(h[k], g[v + k])
                      /\ Like(d, g[v]) => Like(h[k], g[v + k])
           S == {k \in Nat : k <= Len(t) => Good(k)}
<1>2. 0 \in S
  BY <1>1 DEF Trace
<1>3. ASSUME NEW k \in S PROVE k + 1 \in S
  <2> SUFFICES ASSUME k + 1 <= Len(t) PROVE Good(k + 1)
    OBVIOUS
  <2> DEFINE j == v + k
  <2>1. /\ k + 1 \in 1..Len(t) /\ (k + 1) - 1 = k /\ Good(k)
        /\ j + 1 \in 1..Len(s) /\ j \in 0..Len(s) /\ (j + 1) - 1 = j /\ v + (k + 1) = j + 1
    OBVIOUS
  <2>2. h[k] \in ReplayContext /\ (Below(d, g[v]) => Below(h[k], g[j])) /\ (Like(d, g[v]) => Like(h[k], g[j]))
    BY <2>1
  <2> HIDE DEF j
  <2>3. g[j + 1] = ApplyEvent(g[j], s[j + 1]) /\ s[j + 1] \in Event
    BY <2>1 DEF Trace
  <2>4. h[k + 1] = ApplyEvent(h[k], s[j + 1])
    BY <1>1, <2>1 DEF Trace
  <2>5. Full(g[j])
    BY <2>1, FullTrace
  <2>6. h[k + 1] \in ReplayContext
    <3>1. CASE h[k].panic
      BY <2>2, <2>4, <3>1, PanicStep
    <3>2. CASE ~ h[k].panic
      BY <2>2, <2>3, <2>4, <3>2, ApplyIs
    <3> QED
      BY <3>1, <3>2
  <2>7. Below(d, g[v]) => Below(h[k + 1], g[j + 1])
    BY <2>2, <2>3, <2>4, <2>5, BelowStep
  <2>8. Like(d, g[v]) => Like(h[k + 1], g[j + 1])
    BY <2>2, <2>3, <2>4, <2>5, LikeStep
  <2> QED
    BY <2>1, <2>6, <2>7, <2>8
<1> HIDE DEF Good
<1>4. S = Nat
  <2>1. S \in SUBSET Nat
    OBVIOUS
  <2> HIDE DEF S
  <2> QED
    BY <1>2, <1>3, <2>1, Induction
<1>5. Good(Len(t))
  BY <1>4
<1> QED
  BY <1>1, <1>5 DEF Good

-----------------------------------------------------------------------------
(* The contexts of a run *)

LEMMA PhaseFacts ==
    ASSUME NEW c, NEW last
    PROVE  PhaseAfter(c, last) \in {"planning", "executing", "job_completed", "job_failed",
                                    "job_cancelled", "job_waiting"}
  BY DEF PhaseAfter

\* The context of m events and the type of the last of them.
Built(c, last) == [c EXCEPT !.phase = PhaseAfter(c, last)]

LEMMA BuiltFacts ==
    ASSUME NEW c \in ReplayContext, NEW last, NEW d, d = Built(c, last)
    PROVE  /\ d \in ReplayContext
           /\ (d.plan <=> c.plan) /\ d.cursor = c.cursor /\ d.nodes = c.nodes /\ d.commands = c.commands
           /\ d.invocations = c.invocations /\ d.pending = c.pending /\ d.changes = c.changes
           /\ d.approved = c.approved /\ d.wait = c.wait /\ d.memory = c.memory
           /\ d.recorded = c.recorded /\ d.nilMaps = c.nilMaps /\ (d.panic <=> c.panic)
           /\ d.phase = PhaseAfter(c, last)
<1> DEFINE p == PhaseAfter(c, last)
<1>1. p \in {"planning", "executing", "job_completed", "job_failed", "job_cancelled", "job_waiting"}
  BY PhaseFacts
<1>2. d = [c EXCEPT !.phase = p]
  BY DEF Built
<1> HIDE DEF p
<1>3. d \in ReplayContext
  BY <1>1, <1>2 DEF ReplayContext
<1>4. /\ (d.plan <=> c.plan) /\ d.cursor = c.cursor /\ d.nodes = c.nodes /\ d.commands = c.commands
      /\ d.invocations = c.invocations /\ d.pending = c.pending /\ d.changes = c.changes
      /\ d.approved = c.approved /\ d.wait = c.wait /\ d.memory = c.memory
      /\ d.recorded = c.recorded /\ d.nilMaps = c.nilMaps /\ (d.panic <=> c.panic) /\ d.phase = p
  BY <1>2 DEF ReplayContext
<1> QED
  BY <1>3, <1>4 DEF p

\* BuildFromEvents on the beginning of s.
LEMMA BuildIs ==
    ASSUME NEW s \in Seq(Event), NEW g, Trace(g, EmptyContext, s),
           NEW t \in Seq(Event), Len(t) <= Len(s), \A i \in 1..Len(t) : t[i] = s[i]
    PROVE  /\ g[Len(t)].plan => Len(t) # 0 /\ BuildFromEvents(t) = Built(g[Len(t)], s[Len(t)].type)
           /\ ~ g[Len(t)].plan => BuildFromEvents(t) = None
<1>1. FoldLeft(ApplyEvent, EmptyContext, t) = g[Len(t)]
  BY TraceFold
<1>2. Len(t) = 0 => ~ g[Len(t)].plan
  BY EmptyFull DEF Trace
<1>3. Len(t) # 0 => t[Len(t)] = s[Len(t)]
  OBVIOUS
<1> QED
  BY <1>1, <1>2, <1>3 DEF BuildFromEvents, Built

\* What comes back from a stored snapshot.
LEMMA StoredIs ==
    ASSUME NEW c, Full(c), c.plan, NEW last, NEW x,
           x = DeserializeSnapshot(SerializeReplayContext(Built(c, last)))
    PROVE  /\ x \in ReplayContext /\ ~ x.panic /\ x.plan
           /\ Below(x, c) /\ Like(x, c) /\ x.phase = PhaseAfter(c, last)
<1> DEFINE b == Built(c, last)
           nil == {k \in Recorded : b.recorded[k] = {}}
           y == [b EXCEPT !.nilMaps = nil]
           back == y.nilMaps \cap StoredAsIs
<1>1. c \in ReplayContext /\ ~ c.panic /\ c.plan
  BY DEF Full, ReplayContext
<1>2. /\ b \in ReplayContext
      /\ (b.plan <=> c.plan) /\ b.cursor = c.cursor /\ b.nodes = c.nodes /\ b.commands = c.commands
      /\ b.invocations = c.invocations /\ b.pending = c.pending /\ b.changes = c.changes
      /\ b.approved = c.approved /\ b.wait = c.wait /\ b.memory = c.memory
      /\ b.recorded = c.recorded /\ (b.panic <=> c.panic) /\ b.phase = PhaseAfter(c, last)
  <2>1. PICK d : d = Built(c, last)
    OBVIOUS
  <2>2. /\ d \in ReplayContext
        /\ (d.plan <=> c.plan) /\ d.cursor = c.cursor /\ d.nodes = c.nodes /\ d.commands = c.commands
        /\ d.invocations = c.invocations /\ d.pending = c.pending /\ d.changes = c.changes
        /\ d.approved = c.approved /\ d.wait = c.wait /\ d.memory = c.memory
        /\ d.recorded = c.recorded /\ (d.panic <=> c.panic) /\ d.phase = PhaseAfter(c, last)
    BY <1>1, <2>1, BuiltFacts
  <2> QED
    BY <2>1, <2>2
<1>3. x = [y EXCEPT !.nilMaps = back]
  BY DEF DeserializeSnapshot, SerializeReplayContext
<1> HIDE DEF b
<1>4. nil \in SUBSET Recorded
  OBVIOUS
<1> HIDE DEF nil
<1>5. y \in ReplayContext
  BY <1>2, <1>4 DEF ReplayContext
<1>6. /\ (y.plan <=> b.plan) /\ y.cursor = b.cursor /\ y.nodes = b.nodes /\ y.commands = b.commands
      /\ y.invocations = b.invocations /\ y.pending = b.pending /\ y.changes = b.changes
      /\ y.approved = b.approved /\ y.wait = b.wait /\ y.memory = b.memory
      /\ y.recorded = b.recorded /\ (y.panic <=> b.panic) /\ y.phase = b.phase
  BY <1>2 DEF ReplayContext
<1> HIDE DEF y
<1>7. back \in SUBSET Recorded
  BY DEF Recorded
<1> HIDE DEF back
<1>8. x \in ReplayContext
  BY <1>3, <1>5, <1>7 DEF ReplayContext
<1>9. /\ (x.plan <=> y.plan) /\ x.cursor = y.cursor /\ x.nodes = y.nodes /\ x.commands = y.commands
      /\ x.invocations = y.invocations /\ x.pending = y.pending /\ x.changes = y.changes
      /\ x.approved = y.approved /\ x.wait = y.wait /\ x.memory = y.memory
      /\ x.recorded = y.recorded /\ (x.panic <=> y.panic) /\ x.phase = y.phase
  BY <1>3, <1>5 DEF ReplayContext
<1>10. Like(x, c)
  BY <1>1, <1>2, <1>6, <1>9 DEF Like
<1>11. Below(x, c)
  <2>1. Len(x.changes) <= Len(c.changes)
    <3>1. x.changes = c.changes /\ c.changes \in Seq(NodeIDs)
      BY <1>1, <1>2, <1>6, <1>9 DEF ReplayContext
    <3>2. Len(c.changes) \in Nat
      BY <3>1
    <3> QED
      BY <3>1, <3>2
  <2> QED
    BY <1>1, <1>2, <1>6, <1>9, <2>1 DEF Below
<1> QED
  BY <1>1, <1>2, <1>6, <1>8, <1>9, <1>10, <1>11

LEMMA StreamFacts ==
    ASSUME TypeOK
    PROVE  /\ stream \in Seq(Event) /\ Len(stream) \in Nat
           /\ len \in Nat /\ len <= Len(stream) /\ len <= MaxEvents /\ MaxEvents \in Nat
  BY SnapshotAssumption DEF TypeOK

\* The first m events, as a process reads them from the stored stream.
LEMMA ReadIs ==
    ASSUME TypeOK, NEW m \in Nat, m <= len
    PROVE  /\ SubSeq(log, 1, m) \in Seq(Event) /\ Len(SubSeq(log, 1, m)) = m
           /\ \A i \in 1..m : SubSeq(log, 1, m)[i] = stream[i]
<1>1. log \in Seq(Event) /\ Len(log) = len /\ \A i \in 1..len : log[i] = stream[i]
  BY StreamFacts DEF log
<1> HIDE DEF log
<1>2. len \in Nat
  BY StreamFacts
<1> QED
  BY <1>1, <1>2

\* A run that resumes: m events in the snapshot, v its label, k events read.
LEMMA ResumedIs ==
    ASSUME TypeOK, NEW g, Trace(g, EmptyContext, stream),
           NEW m \in Nat, NEW v \in Nat, NEW k \in Nat, m <= v, v <= k, k <= len,
           g[m].plan, NEW c, c = BuildFromSnapshot(m, v, SubSeq(log, 1, k))
    PROVE  /\ c \in ReplayContext /\ Below(c, g[k]) /\ g[k].plan
           /\ m = v => /\ Like(c, g[k])
                       /\ c.panic \/ c.phase = PhaseAfter(g[k], stream[k].type)
<1> DEFINE x == DeserializeSnapshot(SerializeReplayContext(BuildFromEvents(SubSeq(log, 1, m))))
           events == SubSeq(log, 1, k)
           t == SubSeq(events, v + 1, k)
           d == FoldLeft(ApplyEvent, x, t)
<1>1. /\ stream \in Seq(Event) /\ len \in Nat /\ len <= Len(stream) /\ Len(stream) \in Nat
      /\ m <= len /\ v <= len /\ k \in 0..Len(stream) /\ m \in 0..Len(stream)
  BY StreamFacts
<1>2. Full(g[m]) /\ Full(g[k])
  BY <1>1, FullTrace
<1>3. /\ x \in ReplayContext /\ ~ x.panic /\ x.plan /\ Below(x, g[m]) /\ Like(x, g[m])
      /\ x.phase = PhaseAfter(g[m], stream[m].type)
  <2> DEFINE r == SubSeq(log, 1, m)
  <2>1. r \in Seq(Event) /\ Len(r) = m /\ \A i \in 1..m : r[i] = stream[i]
    BY <1>1, ReadIs
  <2> HIDE DEF r
  <2>2. Len(r) <= Len(stream) /\ \A i \in 1..Len(r) : r[i] = stream[i]
    BY <1>1, <2>1
  <2>3. BuildFromEvents(r) = Built(g[m], stream[m].type)
    BY <1>1, <2>1, <2>2, BuildIs
  <2>4. x = DeserializeSnapshot(SerializeReplayContext(Built(g[m], stream[m].type)))
    BY <2>3 DEF r
  <2> HIDE DEF x
  <2> QED
    BY <1>2, <2>4, StoredIs
<1>4. events \in Seq(Event) /\ Len(events) = k /\ \A i \in 1..k : events[i] = stream[i]
  BY ReadIs
<1>5. c = IF t = << >> THEN x ELSE Built(d, t[Len(t)].type)
  <2>1. events[Len(events)] = events[Len(events)] /\ ~ (v > Len(events))
    BY <1>4
  <2>2. Len(events) = k
    BY <1>4
  <2> QED
    BY <2>1, <2>2 DEF BuildFromSnapshot, ApplyIncrementalEvents, Built
<1> HIDE DEF x, events
<1>6. /\ t \in Seq(Event) /\ Len(t) = k - v /\ v + Len(t) = k
      /\ \A i \in 1..Len(t) : t[i] = stream[v + i]
  <2>1. v + 1 \in 1..(k + 1)
    OBVIOUS
  <2> QED
    BY <1>4, <2>1
<1> HIDE DEF t
<1>7. Below(x, g[v])
  BY <1>1, <1>3, SkipTrace
<1>8. Below(x, g[k])
  BY <1>1, <1>3, SkipTrace
<1>9. g[k].plan
  BY <1>3, <1>8 DEF Below
<1>10. d \in ReplayContext /\ Below(d, g[k]) /\ (m = v => Like(d, g[k]))
  <2>1. v + Len(t) <= Len(stream)
    BY <1>1, <1>6
  <2>2. /\ d \in ReplayContext
        /\ Below(x, g[v]) => Below(d, g[v + Len(t)])
        /\ Like(x, g[v]) => Like(d, g[v + Len(t)])
    BY <1>1, <1>3, <1>6, <2>1, IncrementalTrace
  <2> HIDE DEF d
  <2> QED
    BY <1>3, <1>6, <1>7, <2>2
<1> HIDE DEF d
<1>11. CASE t = << >>
  <2>1. k = v /\ c = x
    BY <1>5, <1>6, <1>11
  <2> QED
    BY <1>3, <1>7, <1>9, <2>1
<1>12. CASE t # << >>
  <2>1. Len(t) # 0 /\ Len(t) \in Nat
    BY <1>6, <1>12
  <2>2. c = Built(d, t[Len(t)].type) /\ t[Len(t)] = stream[k]
    BY <1>5, <1>6, <1>12, <2>1
  <2>3. /\ c \in ReplayContext
        /\ (c.plan <=> d.plan) /\ c.cursor = d.cursor /\ c.nodes = d.nodes /\ c.commands = d.commands
        /\ c.invocations = d.invocations /\ c.pending = d.pending /\ c.changes = d.changes
        /\ c.approved = d.approved /\ c.wait = d.wait /\ c.memory = d.memory
        /\ c.recorded = d.recorded /\ (c.panic <=> d.panic)
        /\ c.phase = PhaseAfter(d, stream[k].type)
    BY <1>10, <2>2, BuiltFacts
  <2>4. Below(c, g[k])
    BY <1>10, <2>3 DEF Below
  <2>5. ASSUME m = v PROVE Like(c, g[k])
    BY <1>10, <2>3, <2>5 DEF Like
  <2>6. ASSUME m = v, ~ c.panic PROVE c.phase = PhaseAfter(g[k], stream[k].type)
    <3>1. d.plan <=> g[k].plan
      BY <1>10, <2>3, <2>6 DEF Like
    <3> QED
      BY <2>3, <3>1 DEF PhaseAfter
  <2> QED
    BY <1>9, <2>3, <2>4, <2>5, <2>6
<1> QED
  BY <1>11, <1>12

-----------------------------------------------------------------------------
(* What loops and runs hold *)

\* The first m events of s have a plan.
Planned(s, m) == BuildFromEvents(SubSeq(s, 1, m)) # None

\* Snapshots are of streams with a plan; a run has read at least the events its
\* snapshot is labelled with.
Resumable ==
    /\ \A v \in Rows : Planned(stream, snaps[v])
    /\ \A w \in Workers : snap[w].at \in {"version", "create"} => Planned(stream, snap[w].upto)
    /\ \A r \in Runs : (replay[r].at \in {"events", "built"} /\ replay[r].upto # None) =>
          Planned(stream, replay[r].upto) /\ replay[r].upto <= replay[r].label /\ replay[r].label <= len
    /\ \A r \in Runs : replay[r].at = "built" =>
          replay[r].seen <= len /\ (replay[r].upto # None => replay[r].label <= replay[r].seen)

LEMMA ResumableInit == Init => Resumable
  BY DEF Init, Resumable, Rows, NoSnap, NoReplay

LEMMA ResumableStep ==
    ASSUME TypeOK, NothingTwice, ReadsBehind, Resumable, [Next]_vars
    PROVE  Resumable'
<1> USE DEF Resumable
<1>0. /\ len \in Nat /\ snaps \in [Versions -> Versions \cup {None}]
      /\ snap \in [Workers -> SnapState] /\ replay \in [Runs -> ReplayState]
      /\ Versions \subseteq Nat /\ None \notin Versions
  BY StreamFacts, SnapshotAssumption DEF TypeOK, SnapState, ReplayState, Versions
<1>1. stream' = stream
  BY DEF Next, vars, AppendEvent, SnapshotBuild, SnapshotVersion, CreateSnapshot, SnapshotLatest,
     DeleteSnapshotsBefore, SnapshotGiveUp, GetLatestSnapshot, ListEvents, ReplayDone
<1>2. CASE AppendEvent
  <2>1. len' = len + 1 /\ snaps' = snaps /\ snap' = snap /\ replay' = replay
    BY <1>2 DEF AppendEvent
  <2>2. \A r \in Runs : replay[r].label \in Nat /\ replay[r].seen \in Nat
    BY <1>0 DEF ReplayState
  <2> QED
    BY <1>0, <1>1, <2>1, <2>2 DEF Rows
<1>3. ASSUME NEW w \in Workers, SnapshotBuild(w) PROVE Resumable'
  <2>1. Planned(stream, len)
    BY <1>3 DEF SnapshotBuild, Planned, log
  <2>2. /\ snap' = [snap EXCEPT ![w] = [at |-> "version", upto |-> len, label |-> 0]]
        /\ len' = len /\ snaps' = snaps /\ replay' = replay
    BY <1>3 DEF SnapshotBuild
  <2> QED
    BY <1>0, <1>1, <2>1, <2>2 DEF Rows
<1>4. ASSUME NEW w \in Workers, SnapshotVersion(w) PROVE Resumable'
  <2>1. /\ snap' = [snap EXCEPT ![w] = [at |-> "create", upto |-> snap[w].upto, label |-> len]]
        /\ len' = len /\ snaps' = snaps /\ replay' = replay /\ snap[w].at = "version"
    BY <1>4 DEF SnapshotVersion
  <2> QED
    BY <1>0, <1>1, <2>1 DEF Rows
<1>5. ASSUME NEW w \in Workers, CreateSnapshot(w) PROVE Resumable'
  <2>1. /\ snaps' = [snaps EXCEPT ![snap[w].label] = snap[w].upto]
        /\ len' = len /\ replay' = replay /\ snap[w].at = "create"
        /\ \A y \in Workers : snap'[y].at \in {"version", "create"} => snap'[y] = snap[y]
    BY <1>0, <1>5 DEF CreateSnapshot, NoSnap
  <2>2. \A v \in Rows' : v \in Versions /\ (snaps'[v] = snap[w].upto \/ (v \in Rows /\ snaps'[v] = snaps[v]))
    BY <1>0, <2>1 DEF Rows
  <2> QED
    BY <1>1, <2>1, <2>2
<1>6. ASSUME NEW w \in Workers, SnapshotLatest(w) \/ DeleteSnapshotsBefore(w) \/ SnapshotGiveUp(w)
      PROVE  Resumable'
  <2>1. /\ len' = len /\ replay' = replay
        /\ \A y \in Workers : snap'[y].at \in {"version", "create"} => snap'[y] = snap[y]
    BY <1>0, <1>6 DEF SnapshotLatest, DeleteSnapshotsBefore, SnapshotGiveUp, NoSnap
  <2>2. \A v \in Rows' : v \in Rows /\ snaps'[v] = snaps[v]
    BY <1>0, <1>6 DEF SnapshotLatest, DeleteSnapshotsBefore, SnapshotGiveUp, Rows
  <2> QED
    BY <1>1, <2>1, <2>2
<1>7. ASSUME NEW r \in Runs, GetLatestSnapshot(r) PROVE Resumable'
  <2>1. len' = len /\ snaps' = snaps /\ snap' = snap
    BY <1>7 DEF GetLatestSnapshot
  <2>2. CASE replay' = [replay EXCEPT ![r] = [at |-> "events", upto |-> None, label |-> 0, seen |-> 0]]
    BY <1>0, <1>1, <2>1, <2>2 DEF Rows
  <2>3. ASSUME NEW v \in Versions, IsLatest(v),
               replay' = [replay EXCEPT ![r] =
                           [at |-> "events", upto |-> snaps[v], label |-> v, seen |-> 0]]
        PROVE  Resumable'
    <3>1. v \in Rows /\ Planned(stream, snaps[v]) /\ snaps[v] <= v /\ v <= len
      BY <2>3 DEF IsLatest, NothingTwice
    <3> QED
      BY <1>0, <1>1, <2>1, <2>3, <3>1 DEF Rows
  <2> QED
    BY <1>7, <2>2, <2>3 DEF GetLatestSnapshot
<1>8. ASSUME NEW r \in Runs, ListEvents(r) PROVE Resumable'
  <2>1. /\ replay' = [replay EXCEPT ![r] = [at |-> "built", upto |-> replay[r].upto,
                                             label |-> replay[r].label, seen |-> len]]
        /\ len' = len /\ snaps' = snaps /\ snap' = snap /\ replay[r].at = "events"
    BY <1>8 DEF ListEvents
  <2> QED
    BY <1>0, <1>1, <2>1 DEF Rows
<1>9. ASSUME NEW r \in Runs, ReplayDone(r) PROVE Resumable'
  <2>1. /\ replay' = [replay EXCEPT ![r] = NoReplay] /\ len' = len /\ snaps' = snaps /\ snap' = snap
    BY <1>9 DEF ReplayDone
  <2> QED
    BY <1>0, <1>1, <2>1 DEF Rows, NoReplay
<1>10. CASE UNCHANGED vars
  BY <1>10 DEF vars, Rows
<1> QED
  BY <1>2, <1>3, <1>4, <1>5, <1>6, <1>7, <1>8, <1>9, <1>10 DEF Next

LEMMA AlwaysResumable == Spec => []Resumable
<1>1. IInv /\ Resumable /\ [Next]_vars => Resumable'
  BY ResumableStep DEF IInv
<1> QED
  BY <1>1, ResumableInit, Always, PTL DEF Spec

\* Both contexts of a run in terms of the trace of the stream.
LEMMA RunContexts ==
    ASSUME TypeOK, Resumable, NEW r \in Runs, replay[r].at = "built",
           NEW g, Trace(g, EmptyContext, stream), NEW k, k = replay[r].seen
    PROVE  /\ k \in Nat /\ k <= len /\ Full(g[k])
           /\ g[k].plan => FullContext(r) = Built(g[k], stream[k].type)
           /\ ~ g[k].plan => FullContext(r) = None
           /\ replay[r].upto = None => Context(r) = FullContext(r)
           /\ replay[r].upto # None =>
                /\ Context(r) \in ReplayContext /\ Below(Context(r), g[k]) /\ g[k].plan
                /\ replay[r].upto = replay[r].label =>
                     /\ Like(Context(r), g[k])
                     /\ Context(r).panic \/ Context(r).phase = PhaseAfter(g[k], stream[k].type)
<1>1. /\ k \in Nat /\ k <= len /\ stream \in Seq(Event) /\ len \in Nat /\ len <= Len(stream)
      /\ k \in 0..Len(stream)
  <2>1. replay[r].seen \in Versions /\ Versions \subseteq Nat
    BY SnapshotAssumption DEF TypeOK, Versions
  <2>2. k \in Nat /\ k <= len
    BY <2>1 DEF Resumable
  <2>3. stream \in Seq(Event) /\ len \in Nat /\ len <= Len(stream) /\ Len(stream) \in Nat
    BY StreamFacts
  <2> QED
    BY <2>2, <2>3
<1>2. Full(g[k])
  BY <1>1, FullTrace
<1>3. /\ g[k].plan => FullContext(r) = Built(g[k], stream[k].type)
      /\ ~ g[k].plan => FullContext(r) = None
  <2> DEFINE t == SubSeq(log, 1, k)
  <2>1. t \in Seq(Event) /\ Len(t) = k /\ \A i \in 1..k : t[i] = stream[i]
    BY <1>1, ReadIs
  <2>2. FullContext(r) = BuildFromEvents(t)
    BY DEF FullContext
  <2> HIDE DEF t
  <2>3. Len(t) <= Len(stream) /\ \A i \in 1..Len(t) : t[i] = stream[i]
    BY <1>1, <2>1
  <2> QED
    BY <1>1, <2>1, <2>2, <2>3, BuildIs
<1>4. replay[r].upto = None => Context(r) = FullContext(r)
  BY DEF Context, FullContext
<1>5. ASSUME replay[r].upto # None
      PROVE  /\ Context(r) \in ReplayContext /\ Below(Context(r), g[k]) /\ g[k].plan
             /\ replay[r].upto = replay[r].label =>
                     /\ Like(Context(r), g[k])
                     /\ Context(r).panic \/ Context(r).phase = PhaseAfter(g[k], stream[k].type)
  <2> DEFINE m == replay[r].upto
             v == replay[r].label
             c == Context(r)
  <2>1. m \in Nat /\ v \in Nat
    BY <1>5, SnapshotAssumption DEF TypeOK, Versions
  <2>2. Planned(stream, m) /\ m <= v /\ v <= k
    BY <1>5 DEF Resumable
  <2>3. c = BuildFromSnapshot(m, v, SubSeq(log, 1, k))
    BY <1>5 DEF Context
  <2> HIDE DEF m, v, c
  <2>4. g[m].plan
    <3> DEFINE t == SubSeq(stream, 1, m)
    <3>1. m <= Len(stream)
      BY <1>1, <2>1, <2>2
    <3>2. t \in Seq(Event) /\ Len(t) = m /\ \A i \in 1..m : t[i] = stream[i]
      BY <1>1, <2>1, <3>1
    <3>3. BuildFromEvents(t) # None
      BY <2>2 DEF Planned
    <3> HIDE DEF t
    <3>4. Len(t) <= Len(stream) /\ \A i \in 1..Len(t) : t[i] = stream[i]
      BY <3>1, <3>2
    <3> QED
      BY <1>1, <3>2, <3>3, <3>4, BuildIs
  <2>5. /\ c \in ReplayContext /\ Below(c, g[k]) /\ g[k].plan
        /\ m = v => Like(c, g[k]) /\ (c.panic \/ c.phase = PhaseAfter(g[k], stream[k].type))
    BY <1>1, <2>1, <2>2, <2>3, <2>4, ResumedIs
  <2> QED
    BY <2>5 DEF m, v, c
<1> QED
  BY <1>1, <1>2, <1>3, <1>4, <1>5

\* A context without its nil maps.
LEMMA NoNil ==
    ASSUME NEW c \in ReplayContext, NEW d, d = [c EXCEPT !.nilMaps = {}]
    PROVE  /\ d \in ReplayContext
           /\ (d.plan <=> c.plan) /\ d.cursor = c.cursor /\ d.nodes = c.nodes /\ d.commands = c.commands
           /\ d.invocations = c.invocations /\ d.pending = c.pending /\ d.changes = c.changes
           /\ d.approved = c.approved /\ d.wait = c.wait /\ d.memory = c.memory
           /\ d.recorded = c.recorded /\ d.nilMaps = {} /\ (d.panic <=> c.panic) /\ d.phase = c.phase
<1>1. d \in ReplayContext
  BY DEF ReplayContext
<1>2. /\ d.plan = c.plan /\ d.cursor = c.cursor /\ d.nodes = c.nodes /\ d.commands = c.commands
      /\ d.invocations = c.invocations /\ d.pending = c.pending /\ d.changes = c.changes
      /\ d.approved = c.approved /\ d.wait = c.wait /\ d.memory = c.memory
      /\ d.recorded = c.recorded /\ d.nilMaps = {} /\ d.panic = c.panic /\ d.phase = c.phase
  BY DEF ReplayContext
<1> QED
  BY <1>1, <1>2

\* A context that agrees with the one of the stream, phase included, is the same.
LEMMA LikeSame ==
    ASSUME NEW c, Full(c), NEW last, NEW d \in ReplayContext, ~ d.panic, Like(d, c),
           d.phase = PhaseAfter(c, last)
    PROVE  [d EXCEPT !.nilMaps = {}] = Built(c, last)
<1>1. PICK x : x = [d EXCEPT !.nilMaps = {}]
  OBVIOUS
<1>2. PICK y : y = Built(c, last)
  OBVIOUS
<1>3. c \in ReplayContext /\ c.nilMaps = {} /\ ~ c.panic
  BY DEF Full
<1>4. /\ y \in ReplayContext
      /\ (y.plan <=> c.plan) /\ y.cursor = c.cursor /\ y.nodes = c.nodes /\ y.commands = c.commands
      /\ y.invocations = c.invocations /\ y.pending = c.pending /\ y.changes = c.changes
      /\ y.approved = c.approved /\ y.wait = c.wait /\ y.memory = c.memory
      /\ y.recorded = c.recorded /\ y.nilMaps = c.nilMaps /\ (y.panic <=> c.panic)
      /\ y.phase = PhaseAfter(c, last)
  BY <1>2, <1>3, BuiltFacts
<1>5. /\ x \in ReplayContext
      /\ (x.plan <=> d.plan) /\ x.cursor = d.cursor /\ x.nodes = d.nodes /\ x.commands = d.commands
      /\ x.invocations = d.invocations /\ x.pending = d.pending /\ x.changes = d.changes
      /\ x.approved = d.approved /\ x.wait = d.wait /\ x.memory = d.memory
      /\ x.recorded = d.recorded /\ x.nilMaps = {} /\ (x.panic <=> d.panic) /\ x.phase = d.phase
  BY <1>1, NoNil
<1>6. (x.plan <=> y.plan) /\ (x.panic <=> y.panic)
  BY <1>3, <1>4, <1>5 DEF Like
<1>7. x.plan = y.plan /\ x.panic = y.panic
  BY <1>4, <1>5, <1>6 DEF ReplayContext
<1>8. /\ x.cursor = y.cursor /\ x.nodes = y.nodes /\ x.commands = y.commands
      /\ x.invocations = y.invocations /\ x.pending = y.pending /\ x.changes = y.changes
      /\ x.approved = y.approved /\ x.wait = y.wait /\ x.memory = y.memory
      /\ x.recorded = y.recorded /\ x.phase = y.phase /\ x.nilMaps = y.nilMaps
  BY <1>3, <1>4, <1>5 DEF Like
<1>9. x = y
  BY <1>4, <1>5, <1>7, <1>8, SameContext
<1> QED
  BY <1>1, <1>2, <1>9

\* Snapshot and rest together are the stream: for any streams, workers and runs,
\* what a run builds from the latest snapshot and the events behind it is what
\* BuildFromEvents makes of the whole stream, field by field, when no event came
\* between the two reads of the snapshot loop and no write hits a map stored empty.
THEOREM ResumeIsExact == Spec => []SnapshotExact
<1>1. ASSUME TypeOK, Resumable PROVE SnapshotExact
  <2> SUFFICES ASSUME NEW r \in Runs, replay[r].at = "built", replay[r].upto \in {None, replay[r].label}
               PROVE  \/ Context(r) = None \/ Context(r).panic
                      \/ [Context(r) EXCEPT !.nilMaps = {}] = FullContext(r)
    BY DEF SnapshotExact
  <2>1. PICK g : Trace(g, EmptyContext, stream)
    BY <1>1, StreamFacts, TraceExists
  <2>2. PICK k : k = replay[r].seen
    OBVIOUS
  <2>3. Full(g[k])
    BY <1>1, <2>1, <2>2, RunContexts
  <2>4. CASE replay[r].upto = None
    <3>1. CASE g[k].plan
      <4>1. Context(r) = Built(g[k], stream[k].type)
        BY <1>1, <2>1, <2>2, <2>4, <3>1, RunContexts
      <4>2. PICK c : c = Built(g[k], stream[k].type)
        OBVIOUS
      <4>3. c \in ReplayContext /\ c.nilMaps = {}
        BY <2>3, <4>2, BuiltFacts DEF Full
      <4>4. [c EXCEPT !.nilMaps = {}] = c
        BY <4>3 DEF ReplayContext
      <4> QED
        BY <1>1, <2>1, <2>2, <2>4, <4>1, <4>2, <4>4, RunContexts
    <3>2. CASE ~ g[k].plan
      BY <1>1, <2>1, <2>2, <2>4, <3>2, RunContexts
    <3> QED
      BY <3>1, <3>2
  <2>5. CASE replay[r].upto # None
    <3>1. /\ Context(r) \in ReplayContext /\ g[k].plan /\ Like(Context(r), g[k])
          /\ Context(r).panic \/ Context(r).phase = PhaseAfter(g[k], stream[k].type)
          /\ FullContext(r) = Built(g[k], stream[k].type)
      BY <1>1, <2>1, <2>2, <2>5, RunContexts
    <3> QED
      BY <2>3, <3>1, LikeSame
  <2> QED
    BY <2>4, <2>5
<1>2. IInv => TypeOK
  BY DEF IInv
<1> QED
  BY <1>1, <1>2, Always, AlwaysResumable, PTL

\* Whatever the two reads of a snapshot loop missed, a resumed run holds no node,
\* command, invocation or approval that the stream does not say, and no state change
\* more often than it was recorded.
THEOREM ResumeIsSound == Spec => []ReplaySound
<1>1. ASSUME TypeOK, Resumable PROVE ReplaySound
  <2> SUFFICES ASSUME NEW r \in Runs, NEW c, c = Context(r), NEW f, f = FullContext(r),
                      replay[r].at = "built", c # None, ~ c.panic
               PROVE  /\ f # None
                      /\ c.nodes \subseteq f.nodes /\ c.commands \subseteq f.commands
                      /\ c.invocations \subseteq f.invocations /\ c.approved \subseteq f.approved
                      /\ Len(c.changes) <= Len(f.changes)
    BY DEF ReplaySound
  <2>1. PICK g : Trace(g, EmptyContext, stream)
    BY <1>1, StreamFacts, TraceExists
  <2>2. PICK k : k = replay[r].seen
    OBVIOUS
  <2>3. Full(g[k]) /\ g[k].plan /\ f = Built(g[k], stream[k].type)
    BY <1>1, <2>1, <2>2, RunContexts
  <2>4. g[k] \in ReplayContext
    BY <2>3 DEF Full
  <2>5. /\ f \in ReplayContext /\ f.nodes = g[k].nodes /\ f.commands = g[k].commands
        /\ f.invocations = g[k].invocations /\ f.approved = g[k].approved
        /\ f.changes = g[k].changes
    BY <2>3, <2>4, BuiltFacts
  <2>6. f # None
    BY <2>5, SnapshotAssumption
  <2>7. CASE replay[r].upto = None
    <3>1. c = f
      BY <1>1, <2>1, <2>2, <2>7, RunContexts
    <3>2. Len(f.changes) \in Nat
      BY <2>5 DEF ReplayContext
    <3> QED
      BY <2>6, <3>1, <3>2
  <2>8. CASE replay[r].upto # None
    <3>1. Below(c, g[k])
      BY <1>1, <2>1, <2>2, <2>8, RunContexts
    <3> QED
      BY <2>5, <2>6, <3>1 DEF Below
  <2> QED
    BY <2>7, <2>8
<1>2. IInv => TypeOK
  BY DEF IInv
<1> QED
  BY <1>1, <1>2, Always, AlwaysResumable, PTL
=============================================================================
