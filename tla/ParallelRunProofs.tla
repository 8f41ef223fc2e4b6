-------------------------- MODULE ParallelRunProofs --------------------------
(***************************************************************************)
(* Proofs about ParallelRun, for any number of nodes, plans and attempts:  *)
(* Kahn's order and the levels are what they are meant to be for every     *)
(* graph, a step gets the results of its predecessors, what is recorded    *)
(* happened, and a completed job has run all its steps.                    *)
(*                                                                         *)
(* Induction is by least counterexample: a set of numbers that contains 0  *)
(* and is closed under successor is Nat.                                   *)
(***************************************************************************)
EXTENDS ParallelRun, TLAPS, FiniteSetTheorems

-----------------------------------------------------------------------------
(* Numbers *)

\* A nonempty set of natural numbers has a least element.
LEMMA LeastNumber ==
    ASSUME NEW S \in SUBSET Nat, S # {}
    PROVE  \E n \in S : \A m \in S : n <= m
<1> DEFINE R == OpToRel(<, Nat)
<1>1. R = {ss \in Nat \X Nat : ss[1] < ss[2]}
  BY Zenon DEF OpToRel
<1>2. IsWellFoundedOn(R, Nat)
  BY NatLessThanWellFounded
<1> HIDE DEF R
<1>3. PICK n \in S : \A m \in S : << m, n >> \notin R
  BY <1>2, WFMin
<1>4. ASSUME NEW m \in S
      PROVE  n <= m
  <2>1. /\ << m, n >> \in Nat \X Nat /\ << m, n >> \notin R
        /\ << m, n >>[1] = m /\ << m, n >>[2] = n
    BY <1>3
  <2>2. ~ (m < n)
    BY <1>1, <2>1
  <2> QED
    BY <2>2
<1> QED
  BY <1>3, <1>4

LEMMA MinFacts ==
    ASSUME NEW S \in SUBSET Nat, S # {}
    PROVE  Min(S) \in S /\ \A m \in S : Min(S) <= m
<1>1. \E n \in S : \A m \in S : n <= m
  BY LeastNumber
<1> QED
  BY <1>1 DEF Min

LEMMA MaxFacts ==
    ASSUME NEW b \in Nat, NEW S \in SUBSET (0..b), S # {}
    PROVE  Max(S) \in S /\ \A m \in S : Max(S) >= m
<1> DEFINE T == {k \in Nat : k <= b /\ b - k \in S}
<1>1. T # {}
  <2>1. PICK x \in S : x \in 0..b
    OBVIOUS
  <2>2. b - x \in Nat /\ b - x <= b /\ b - (b - x) = x
    BY <2>1
  <2> QED
    BY <2>1, <2>2
<1>2. PICK k \in T : \A l \in T : k <= l
  BY <1>1, LeastNumber
<1>3. ASSUME NEW m \in S PROVE b - k >= m
  <2>1. m \in 0..b
    OBVIOUS
  <2>2. b - m \in Nat /\ b - m <= b /\ b - (b - m) = m
    BY <2>1
  <2>3. b - m \in T
    BY <2>2
  <2>4. k <= b - m /\ k \in Nat
    BY <1>2, <2>3
  <2> QED
    BY <2>1, <2>4
<1>4. b - k \in S /\ \A m \in S : b - k >= m
  BY <1>2, <1>3
<1>5. \E x \in S : \A m \in S : x >= m
  BY <1>4
<1> QED
  BY <1>5 DEF Max

LEMMA Induction ==
    ASSUME NEW S \in SUBSET Nat, 0 \in S, \A k \in S : k + 1 \in S
    PROVE  S = Nat
<1> SUFFICES ASSUME Nat \ S # {} PROVE FALSE
  OBVIOUS
<1>1. PICK n \in Nat \ S : \A m \in Nat \ S : n <= m
  BY LeastNumber
<1>2. n # 0 /\ n - 1 \in Nat /\ ~ (n <= n - 1) /\ (n - 1) + 1 = n
  BY <1>1
<1>3. n - 1 \in S
  BY <1>1, <1>2
<1> QED
  BY <1>1, <1>2, <1>3
-----------------------------------------------------------------------------
(* Kahn's algorithm *)

LEMMA NodesFacts ==
    /\ N \in Nat \ {0}
    /\ Nodes \subseteq Nat /\ Nodes # {} /\ 0 \notin Nodes
    /\ IsFiniteSet(Nodes) /\ Cardinality(Nodes) = N
    /\ \A n \in Nodes : n <= N
<1>1. N \in Nat \ {0}
  BY ParallelRunAssumption
<1>2. IsFiniteSet(1..N) /\ Cardinality(1..N) = N
  BY <1>1, FS_Interval
<1> QED
  BY <1>1, <1>2 DEF Nodes

\* One step of the recursion: the list of what is left after seen, from the
\* lists f of what is left later.
Rest(p, f, seen) ==
    IF Ready(p, seen) = {} THEN << >>
    ELSE << Min(Ready(p, seen)) >> \o f[seen \cup {Min(Ready(p, seen))}]

LEMMA ReadyFacts ==
    ASSUME NEW p, NEW seen \in SUBSET Nodes, Ready(p, seen) # {}
    PROVE  /\ Min(Ready(p, seen)) \in Nodes \ seen
           /\ Preds(p, Min(Ready(p, seen))) \subseteq seen
           /\ \A n \in Ready(p, seen) : Min(Ready(p, seen)) <= n
           /\ seen \cup {Min(Ready(p, seen))} \in SUBSET Nodes
<1>1. Ready(p, seen) \in SUBSET Nat
  BY NodesFacts DEF Ready
<1>2. Min(Ready(p, seen)) \in Ready(p, seen) /\ \A n \in Ready(p, seen) : Min(Ready(p, seen)) <= n
  BY <1>1, MinFacts
<1>3. Min(Ready(p, seen)) \in Nodes \ seen /\ Preds(p, Min(Ready(p, seen))) \subseteq seen
  BY <1>2 DEF Ready
<1> QED
  BY <1>2, <1>3

Left(seen) == Cardinality(Nodes \ seen)

LEMMA LeftFacts ==
    ASSUME NEW seen \in SUBSET Nodes
    PROVE  /\ Left(seen) \in Nat /\ Left(seen) <= N
           /\ \A n \in Nodes \ seen : Left(seen \cup {n}) + 1 = Left(seen)
<1>1. IsFiniteSet(Nodes \ seen) /\ Left(seen) <= N
  <2>1. Nodes \ seen \in SUBSET Nodes
    OBVIOUS
  <2> QED
    BY <2>1, NodesFacts, FS_Subset DEF Left
<1>2. Left(seen) \in Nat
  BY <1>1, FS_CardinalityType DEF Left
<1>3. ASSUME NEW n \in Nodes \ seen PROVE Left(seen \cup {n}) + 1 = Left(seen)
  <2>1. Nodes \ (seen \cup {n}) = (Nodes \ seen) \ {n}
    OBVIOUS
  <2>2. Cardinality((Nodes \ seen) \ {n}) = Cardinality(Nodes \ seen) - 1
    BY <1>1, FS_RemoveElement
  <2> QED
    BY <1>2, <2>1, <2>2 DEF Left
<1> QED
  BY <1>1, <1>2, <1>3

\* The recursion has a solution: the lists for the sets with few nodes left give
\* those for the sets with one more.
LEMMA OrderExists ==
    ASSUME NEW p
    PROVE  \E f : f = [seen \in SUBSET Nodes |-> Rest(p, f, seen)]
<1> DEFINE Solves(f, k) == \A seen \in SUBSET Nodes : Left(seen) < k => f[seen] = Rest(p, f, seen)
           S == {k \in Nat : \E f : Solves(f, k)}
<1>1. 0 \in S
  <2>1. \A seen \in SUBSET Nodes : ~ (Left(seen) < 0)
    BY LeftFacts
  <2> QED
    BY <2>1
<1>2. ASSUME NEW k \in S PROVE k + 1 \in S
  <2>1. PICK f : Solves(f, k)
    OBVIOUS
  <2> DEFINE g == [seen \in SUBSET Nodes |-> Rest(p, f, seen)]
  <2>2. ASSUME NEW seen \in SUBSET Nodes, Left(seen) < k + 1 PROVE g[seen] = Rest(p, g, seen)
    <3>1. CASE Ready(p, seen) = {}
      BY <3>1 DEF Rest
    <3>2. CASE Ready(p, seen) # {}
      <4> DEFINE n == Min(Ready(p, seen))
                 next == seen \cup {n}
      <4>1. n \in Nodes \ seen /\ next \in SUBSET Nodes
        BY <3>2, ReadyFacts
      <4> HIDE DEF n
      <4>2. Left(next) < k
        <5>1. Left(next) + 1 = Left(seen) /\ Left(next) \in Nat /\ Left(seen) \in Nat
          BY <4>1, LeftFacts
        <5> QED
          BY <2>2, <5>1
      <4>3. g[next] = f[next]
        BY <2>1, <4>1, <4>2
      <4>4. Rest(p, g, seen) = << n >> \o g[next] /\ Rest(p, f, seen) = << n >> \o f[next]
        BY <3>2 DEF Rest, n
      <4> QED
        BY <4>3, <4>4
    <3> QED
      BY <3>1, <3>2
  <2> HIDE DEF g
  <2>3. Solves(g, k + 1)
    BY <2>2
  <2> QED
    BY <2>3
<1> HIDE DEF Solves
<1>3. S = Nat
  <2>1. S \in SUBSET Nat
    OBVIOUS
  <2> HIDE DEF S
  <2> QED
    BY <1>1, <1>2, <2>1, Induction
<1>4. N + 1 \in Nat
  BY NodesFacts
<1>5. PICK f : Solves(f, N + 1)
  BY <1>3, <1>4
<1>6. \A seen \in SUBSET Nodes : f[seen] = Rest(p, f, seen)
  <2>1. \A seen \in SUBSET Nodes : Left(seen) < N + 1
    BY LeftFacts, NodesFacts
  <2> QED
    BY <1>5, <2>1 DEF Solves
<1> DEFINE g == [seen \in SUBSET Nodes |-> f[seen]]
<1>7. ASSUME NEW seen \in SUBSET Nodes PROVE f[seen] = Rest(p, g, seen)
  <2>1. CASE Ready(p, seen) = {}
    BY <1>6, <2>1 DEF Rest
  <2>2. CASE Ready(p, seen) # {}
    <3> DEFINE next == seen \cup {Min(Ready(p, seen))}
    <3>1. g[next] = f[next]
      BY <2>2, ReadyFacts
    <3> QED
      BY <1>6, <2>2, <3>1 DEF Rest
  <2> QED
    BY <2>1, <2>2
<1>8. g = [seen \in SUBSET Nodes |-> Rest(p, g, seen)]
  BY <1>7
<1> QED
  BY <1>8

\* The lists that TopoOrder is the first of.
Lists(p) == CHOOSE f : f = [seen \in SUBSET Nodes |-> Rest(p, f, seen)]

LEMMA OrderEquation ==
    ASSUME NEW p
    PROVE  /\ TopoOrder(p) = Lists(p)[{}]
           /\ \A seen \in SUBSET Nodes : Lists(p)[seen] = Rest(p, Lists(p), seen)
<1>1. TopoOrder(p) = Lists(p)[{}]
  BY DEF TopoOrder, Lists, Rest
<1>2. Lists(p) = [seen \in SUBSET Nodes |-> Rest(p, Lists(p), seen)]
  BY OrderExists DEF Lists
<1> QED
  BY <1>1, <1>2

\* The elements of s in front of position i.
Ahead(s, i) == {s[j] : j \in 1..(i - 1)}

\* s lists what can be listed after seen: always the smallest node that is ready,
\* until none is.
IsOrder(p, seen, s) ==
    /\ s \in Seq(Nodes)
    /\ \A i \in 1..Len(s) : /\ s[i] \in Ready(p, seen \cup Ahead(s, i))
                            /\ \A n \in Ready(p, seen \cup Ahead(s, i)) : s[i] <= n
    /\ Ready(p, seen \cup Ahead(s, Len(s) + 1)) = {}

LEMMA OrderCons ==
    ASSUME NEW p, NEW seen \in SUBSET Nodes, Ready(p, seen) # {}, NEW n, n = Min(Ready(p, seen)),
           NEW t, IsOrder(p, seen \cup {n}, t)
    PROVE  IsOrder(p, seen, << n >> \o t)
<1> DEFINE s == << n >> \o t
<1>1. n \in Nodes /\ n \in Ready(p, seen) /\ \A m \in Ready(p, seen) : n <= m
  BY ReadyFacts DEF Ready
<1>2. t \in Seq(Nodes) /\ Len(t) \in Nat
  BY DEF IsOrder
<1>3. /\ s \in Seq(Nodes) /\ Len(s) = Len(t) + 1 /\ s[1] = n
      /\ \A i \in 1..Len(t) : s[i + 1] = t[i]
  BY <1>1, <1>2
<1> HIDE DEF s
<1>4. Ahead(s, 1) = {}
  BY DEF Ahead
<1>5. ASSUME NEW i \in 1..(Len(t) + 1)
      PROVE  seen \cup Ahead(s, i + 1) = (seen \cup {n}) \cup Ahead(t, i)
  <2>1. ASSUME NEW x \in Ahead(s, i + 1) PROVE x \in {n} \cup Ahead(t, i)
    <3>1. PICK j \in 1..i : x = s[j]
      BY <1>2 DEF Ahead
    <3>2. CASE j = 1
      BY <1>3, <3>1, <3>2
    <3>3. CASE j # 1
      <4>1. j - 1 \in 1..Len(t) /\ j - 1 \in 1..(i - 1) /\ (j - 1) + 1 = j
        BY <1>2, <3>1, <3>3
      <4>2. x = t[j - 1]
        BY <1>3, <3>1, <4>1
      <4> QED
        BY <4>1, <4>2 DEF Ahead
    <3> QED
      BY <3>2, <3>3
  <2>2. n \in Ahead(s, i + 1)
    <3>1. 1 \in 1..((i + 1) - 1)
      BY <1>2
    <3> QED
      BY <1>3, <3>1 DEF Ahead
  <2>3. ASSUME NEW x \in Ahead(t, i) PROVE x \in Ahead(s, i + 1)
    <3>1. PICK j \in 1..(i - 1) : x = t[j]
      BY DEF Ahead
    <3>2. j \in 1..Len(t) /\ j + 1 \in 1..((i + 1) - 1)
      BY <1>2, <3>1
    <3>3. x = s[j + 1]
      BY <1>3, <3>1, <3>2
    <3> QED
      BY <3>2, <3>3 DEF Ahead
  <2> QED
    BY <2>1, <2>2, <2>3
<1>6. ASSUME NEW i \in 1..Len(s)
      PROVE  /\ s[i] \in Ready(p, seen \cup Ahead(s, i))
             /\ \A m \in Ready(p, seen \cup Ahead(s, i)) : s[i] <= m
  <2>1. CASE i = 1
    <3>1. seen \cup Ahead(s, i) = seen
      BY <1>4, <2>1
    <3> QED
      BY <1>1, <1>3, <2>1, <3>1
  <2>2. CASE i # 1
    <3> DEFINE j == i - 1
    <3>1. j \in 1..Len(t) /\ j + 1 = i /\ j \in 1..(Len(t) + 1)
      BY <1>2, <1>3, <2>2
    <3> HIDE DEF j
    <3>2. s[i] = t[j] /\ seen \cup Ahead(s, i) = (seen \cup {n}) \cup Ahead(t, j)
      BY <1>3, <1>5, <3>1
    <3> QED
      BY <3>1, <3>2 DEF IsOrder
  <2> QED
    BY <2>1, <2>2
<1>7. Ready(p, seen \cup Ahead(s, Len(s) + 1)) = {}
  <2>1. Len(t) + 1 \in 1..(Len(t) + 1)
    BY <1>2
  <2>2. seen \cup Ahead(s, Len(s) + 1) = (seen \cup {n}) \cup Ahead(t, Len(t) + 1)
    BY <1>3, <1>5, <2>1
  <2> QED
    BY <2>2 DEF IsOrder
<1>8. IsOrder(p, seen, s)
  BY <1>3, <1>6, <1>7 DEF IsOrder
<1> QED
  BY <1>8 DEF s

LEMMA OrderNil ==
    ASSUME NEW p, NEW seen \in SUBSET Nodes, Ready(p, seen) = {}
    PROVE  IsOrder(p, seen, << >>)
<1>1. Len(<< >>) = 0 /\ << >> \in Seq(Nodes)
  OBVIOUS
<1>2. Ahead(<< >>, 1) = {}
  BY DEF Ahead
<1>3. seen \cup Ahead(<< >>, Len(<< >>) + 1) = seen
  BY <1>1, <1>2
<1>4. 1..Len(<< >>) = {}
  BY <1>1
<1> QED
  BY <1>1, <1>3, <1>4 DEF IsOrder

\* Kahn's algorithm with a sorted queue, for every graph.
LEMMA KahnOrder ==
    ASSUME NEW p
    PROVE  IsOrder(p, {}, TopoOrder(p))
<1> DEFINE Good(k) == \A seen \in SUBSET Nodes : Left(seen) < k => IsOrder(p, seen, Lists(p)[seen])
           S == {k \in Nat : Good(k)}
<1>1. 0 \in S
  <2>1. \A seen \in SUBSET Nodes : ~ (Left(seen) < 0)
    BY LeftFacts
  <2> QED
    BY <2>1
<1>2. ASSUME NEW k \in S PROVE k + 1 \in S
  <2>1. ASSUME NEW seen \in SUBSET Nodes, Left(seen) < k + 1
        PROVE  IsOrder(p, seen, Lists(p)[seen])
    <3>0. Lists(p)[seen] = Rest(p, Lists(p), seen)
      BY OrderEquation
    <3>1. CASE Ready(p, seen) = {}
      BY <3>0, <3>1, OrderNil DEF Rest
    <3>2. CASE Ready(p, seen) # {}
      <4> DEFINE n == Min(Ready(p, seen))
                 next == seen \cup {n}
      <4>1. n \in Nodes \ seen /\ next \in SUBSET Nodes
        BY <3>2, ReadyFacts
      <4>2. Lists(p)[seen] = << n >> \o Lists(p)[next]
        BY <3>0, <3>2 DEF Rest
      <4> HIDE DEF n
      <4>3. Left(next) < k
        <5>1. Left(next) + 1 = Left(seen) /\ Left(next) \in Nat /\ Left(seen) \in Nat
          BY <4>1, LeftFacts
        <5> QED
          BY <2>1, <5>1
      <4>4. IsOrder(p, next, Lists(p)[next])
        BY <4>1, <4>3
      <4>5. n = Min(Ready(p, seen))
        BY DEF n
      <4> QED
        BY <3>2, <4>2, <4>4, <4>5, OrderCons
    <3> QED
      BY <3>1, <3>2
  <2> QED
    BY <2>1
<1> HIDE DEF Good
<1>3. S = Nat
  <2>1. S \in SUBSET Nat
    OBVIOUS
  <2> HIDE DEF S
  <2> QED
    BY <1>1, <1>2, <2>1, Induction
<1>4. N + 1 \in Nat /\ Left({}) < N + 1 /\ {} \in SUBSET Nodes
  BY LeftFacts, NodesFacts
<1>5. Good(N + 1)
  BY <1>3, <1>4
<1> QED
  BY <1>4, <1>5, OrderEquation DEF Good

\* Every node is listed at most once, after its predecessors; the nodes that are
\* not listed wait for each other.
LEMMA OrderFacts ==
    ASSUME NEW p
    PROVE  /\ TopoOrder(p) \in Seq(Nodes)
           /\ Len(TopoOrder(p)) \in Nat /\ Len(TopoOrder(p)) <= N
           /\ \A i, j \in 1..Len(TopoOrder(p)) : TopoOrder(p)[i] = TopoOrder(p)[j] => i = j
           /\ \A i \in 1..Len(TopoOrder(p)) : \A m \in Preds(p, TopoOrder(p)[i]) :
                 \E j \in 1..Len(TopoOrder(p)) : j < i /\ TopoOrder(p)[j] = m
           /\ Len(TopoOrder(p)) = N => \A n \in Nodes : \E i \in 1..N : TopoOrder(p)[i] = n
           /\ Len(TopoOrder(p)) # N =>
                \E S \in (SUBSET Nodes) \ {{}} : \A n \in S : Preds(p, n) \cap S # {}
<1> DEFINE o == TopoOrder(p)
<1>0. IsOrder(p, {}, o)
  BY KahnOrder
<1> HIDE DEF o
<1>1. o \in Seq(Nodes) /\ Len(o) \in Nat /\ o \in [1..Len(o) -> Nodes]
  BY <1>0 DEF IsOrder
<1>2. \A i \in 1..Len(o) : o[i] \notin Ahead(o, i) /\ Preds(p, o[i]) \subseteq Ahead(o, i)
  BY <1>0 DEF IsOrder, Ready
<1>3. \A i, j \in 1..Len(o) : j < i => o[j] # o[i]
  <2> SUFFICES ASSUME NEW i \in 1..Len(o), NEW j \in 1..Len(o), j < i PROVE o[j] # o[i]
    OBVIOUS
  <2>1. j \in 1..(i - 1)
    BY <1>1
  <2>2. o[j] \in Ahead(o, i)
    BY <2>1 DEF Ahead
  <2> QED
    BY <1>2, <2>2
<1>4. \A i, j \in 1..Len(o) : o[i] = o[j] => i = j
  BY <1>1, <1>3
<1>5. o \in Injection(1..Len(o), Nodes)
  BY <1>1, <1>4 DEF Injection, IsInjective
<1>6. IsFiniteSet(1..Len(o)) /\ Cardinality(1..Len(o)) = Len(o)
  BY <1>1, FS_Interval
<1>7. Len(o) <= N /\ (Len(o) = N => o \in Surjection(1..Len(o), Nodes))
  BY <1>5, <1>6, NodesFacts, FS_Injection
<1>8. Len(o) = N => \A n \in Nodes : \E i \in 1..N : o[i] = n
  BY <1>7 DEF Surjection
<1>9. ASSUME NEW i \in 1..Len(o), NEW m \in Preds(p, o[i])
      PROVE  \E j \in 1..Len(o) : j < i /\ o[j] = m
  <2>1. PICK j \in 1..(i - 1) : m = o[j]
    BY <1>2 DEF Ahead
  <2>2. j \in 1..Len(o) /\ j < i
    BY <1>1, <2>1
  <2> QED
    BY <2>1, <2>2
<1>10. ASSUME Len(o) # N
       PROVE  \E S \in (SUBSET Nodes) \ {{}} : \A n \in S : Preds(p, n) \cap S # {}
  <2> DEFINE all == Ahead(o, Len(o) + 1)
             S == Nodes \ all
  <2>1. all = {o[j] : j \in 1..Len(o)}
    BY <1>1 DEF Ahead
  <2>2. Ready(p, all) = {}
    <3>1. {} \cup all = all
      OBVIOUS
    <3> QED
      BY <1>0, <3>1 DEF IsOrder
  <2>3. S # {}
    <3> SUFFICES ASSUME S = {} PROVE FALSE
      OBVIOUS
    <3>1. \A n \in Nodes : \E j \in 1..Len(o) : o[j] = n
      BY <2>1
    <3>2. o \in Surjection(1..Len(o), Nodes)
      BY <1>1, <3>1 DEF Surjection
    <3>3. Cardinality(1..Len(o)) = Cardinality(Nodes)
      BY <1>5, <3>2, NodesFacts, FS_Injection
    <3> QED
      BY <1>6, <1>10, <3>3, NodesFacts
  <2> HIDE DEF all
  <2>4. \A n \in S : Preds(p, n) \cap S # {}
    BY <2>2 DEF Ready, Preds
  <2> QED
    BY <2>3, <2>4
<1> QED
  BY <1>1, <1>4, <1>7, <1>8, <1>9, <1>10 DEF o

\* The position of a node in the order of a plan that compiles.
LEMMA PositionFacts ==
    ASSUME NEW p, Compiles(p)
    PROVE  /\ \A n \in Nodes : Position(p, n) \in 1..N /\ TopoOrder(p)[Position(p, n)] = n
           /\ \A i \in 1..N : TopoOrder(p)[i] \in Nodes /\ Position(p, TopoOrder(p)[i]) = i
           /\ \A n \in Nodes : \A m \in Preds(p, n) : Position(p, m) < Position(p, n)
<1> DEFINE o == TopoOrder(p)
<1>1. Len(o) = N /\ o \in Seq(Nodes)
  BY OrderFacts DEF Compiles
<1>2. \A n \in Nodes : \E i \in 1..N : o[i] = n
  BY <1>1, OrderFacts
<1>3. \A n \in Nodes : Position(p, n) \in 1..N /\ o[Position(p, n)] = n
  BY <1>2 DEF Position
<1>4. \A i, j \in 1..N : o[i] = o[j] => i = j
  BY <1>1, OrderFacts
<1>5. \A i \in 1..N : o[i] \in Nodes
  BY <1>1
<1>6. \A i \in 1..N : \A m \in Preds(p, o[i]) : \E j \in 1..N : j < i /\ o[j] = m
  <2>1. \A i \in 1..Len(o) : \A m \in Preds(p, o[i]) : \E j \in 1..Len(o) : j < i /\ o[j] = m
    BY OrderFacts
  <2> HIDE DEF o
  <2> QED
    BY <1>1, <2>1
<1> HIDE DEF o
<1>7. \A i \in 1..N : Position(p, o[i]) = i
  BY <1>3, <1>4, <1>5
<1>8. ASSUME NEW n \in Nodes, NEW m \in Preds(p, n) PROVE Position(p, m) < Position(p, n)
  <2>1. PICK j \in 1..N : j < Position(p, n) /\ o[j] = m
    BY <1>3, <1>6
  <2>2. Position(p, m) = j
    BY <1>7, <2>1
  <2> QED
    BY <2>1, <2>2
<1> QED
  BY <1>3, <1>5, <1>7, <1>8 DEF o

\* No set of nodes of such a plan is a cycle: its first node has no predecessor in it.
LEMMA CompilesAcyclic ==
    ASSUME NEW p, Compiles(p), NEW S \in SUBSET Nodes, S # {}
    PROVE  \E n \in S : Preds(p, n) \cap S = {}
<1> DEFINE T == {Position(p, n) : n \in S}
<1>1. T \in SUBSET Nat /\ T # {}
  <2>1. \A n \in S : Position(p, n) \in Nat
    BY PositionFacts, NodesFacts
  <2> QED
    BY <2>1
<1>2. PICK k \in T : \A l \in T : k <= l
  BY <1>1, LeastNumber
<1>3. PICK n \in S : k = Position(p, n)
  BY <1>2
<1>4. ASSUME NEW m \in Preds(p, n) \cap S PROVE FALSE
  <2>1. Position(p, m) < Position(p, n) /\ Position(p, m) \in T
    BY PositionFacts
  <2>2. Position(p, n) <= Position(p, m) /\ Position(p, m) \in Nat /\ Position(p, n) \in Nat
    BY <1>1, <1>2, <1>3, <2>1
  <2> QED
    BY <2>1, <2>2
<1> QED
  BY <1>4
-----------------------------------------------------------------------------
(* Levels *)

\* One step of the recursion: the level of n from the levels f of its predecessors.
Height(p, f, n) == IF Preds(p, n) = {} THEN 0 ELSE 1 + Max({f[m] : m \in Preds(p, n)})

LEMMA HeightAgrees ==
    ASSUME NEW p, NEW n, NEW f, NEW g, \A m \in Preds(p, n) : f[m] = g[m]
    PROVE  Height(p, f, n) = Height(p, g, n)
<1>1. {f[m] : m \in Preds(p, n)} = {g[m] : m \in Preds(p, n)}
  OBVIOUS
<1> QED
  BY <1>1 DEF Height

LEMMA LevelExists ==
    ASSUME NEW p, Compiles(p)
    PROVE  \E f : f = [n \in Nodes |-> Height(p, f, n)]
<1> DEFINE Solves(f, k) == \A n \in Nodes : Position(p, n) < k => f[n] = Height(p, f, n)
           S == {k \in Nat : \E f : Solves(f, k)}
<1>0. /\ \A n \in Nodes : Position(p, n) \in Nat /\ Position(p, n) < N + 1 /\ ~ (Position(p, n) < 0)
      /\ \A n \in Nodes : \A m \in Preds(p, n) : m \in Nodes /\ Position(p, m) < Position(p, n)
  <2>1. \A n \in Nodes : Position(p, n) \in 1..N
    BY PositionFacts
  <2>2. \A n \in Nodes : Position(p, n) \in Nat /\ Position(p, n) < N + 1 /\ ~ (Position(p, n) < 0)
    BY <2>1, NodesFacts
  <2> QED
    BY <2>2, PositionFacts DEF Preds
<1>1. 0 \in S
  BY <1>0
<1>2. ASSUME NEW k \in S PROVE k + 1 \in S
  <2>1. PICK f : Solves(f, k)
    OBVIOUS
  <2> DEFINE g == [n \in Nodes |-> Height(p, f, n)]
  <2>2. ASSUME NEW n \in Nodes, Position(p, n) < k + 1 PROVE g[n] = Height(p, g, n)
    <3>1. ASSUME NEW m \in Preds(p, n) PROVE f[m] = g[m]
      <4>1. m \in Nodes /\ Position(p, m) < k
        BY <1>0, <2>2
      <4> QED
        BY <2>1, <4>1
    <3>2. Height(p, f, n) = Height(p, g, n)
      BY <3>1, HeightAgrees
    <3> QED
      BY <3>2
  <2> HIDE DEF g
  <2>3. Solves(g, k + 1)
    BY <2>2
  <2> QED
    BY <2>3
<1> HIDE DEF Solves
<1>3. S = Nat
  <2>1. S \in SUBSET Nat
    OBVIOUS
  <2> HIDE DEF S
  <2> QED
    BY <1>1, <1>2, <2>1, Induction
<1>4. PICK f : Solves(f, N + 1)
  <2>1. N + 1 \in Nat
    BY NodesFacts
  <2> QED
    BY <1>3, <2>1
<1>5. \A n \in Nodes : f[n] = Height(p, f, n)
  BY <1>0, <1>4 DEF Solves
<1> DEFINE g == [n \in Nodes |-> f[n]]
<1>6. ASSUME NEW n \in Nodes PROVE f[n] = Height(p, g, n)
  <2>1. \A m \in Preds(p, n) : f[m] = g[m]
    BY <1>0
  <2> HIDE DEF g
  <2> QED
    BY <1>5, <2>1, HeightAgrees
<1>7. g = [n \in Nodes |-> Height(p, g, n)]
  BY <1>6
<1> QED
  BY <1>7

LEMMA LevelEquation ==
    ASSUME NEW p, Compiles(p)
    PROVE  \A n \in Nodes : LevelOf(p)[n] = Height(p, LevelOf(p), n)
<1>1. LevelOf(p) = CHOOSE f : f = [n \in Nodes |-> Height(p, f, n)]
  BY DEF LevelOf, Height
<1>2. LevelOf(p) = [n \in Nodes |-> Height(p, LevelOf(p), n)]
  BY <1>1, LevelExists
<1> QED
  BY <1>2

\* A node whose predecessors have levels below b is one above the highest of them.
LEMMA HeightFacts ==
    ASSUME NEW p, NEW n \in Nodes, NEW f, NEW b \in Nat,
           \A m \in Preds(p, n) : f[m] \in Nat /\ f[m] < b
    PROVE  /\ Height(p, f, n) \in Nat /\ Height(p, f, n) <= b
           /\ \A m \in Preds(p, n) : f[m] < Height(p, f, n)
           /\ Height(p, f, n) > 0 => \E m \in Preds(p, n) : f[m] + 1 = Height(p, f, n)
<1>1. CASE Preds(p, n) = {}
  BY <1>1 DEF Height
<1>2. CASE Preds(p, n) # {}
  <2> DEFINE S == {f[m] : m \in Preds(p, n)}
  <2>1. S \in SUBSET (0..b) /\ S # {}
    BY <1>2
  <2>2. Max(S) \in S /\ \A x \in S : Max(S) >= x
    BY <2>1, MaxFacts
  <2>3. PICK m \in Preds(p, n) : Max(S) = f[m]
    BY <2>2
  <2>4. Height(p, f, n) = 1 + f[m]
    BY <1>2, <2>3 DEF Height
  <2>5. \A l \in Preds(p, n) : f[m] >= f[l]
    BY <2>2, <2>3
  <2> HIDE DEF S
  <2>6. f[m] \in Nat /\ f[m] < b
    BY <2>3
  <2>7. Height(p, f, n) \in Nat /\ Height(p, f, n) <= b
    BY <2>4, <2>6
  <2>8. ASSUME NEW l \in Preds(p, n) PROVE f[l] < Height(p, f, n)
    <3>1. f[l] \in Nat /\ f[m] >= f[l]
      BY <2>5
    <3> QED
      BY <2>4, <2>6, <3>1
  <2>9. f[m] + 1 = Height(p, f, n)
    BY <2>4, <2>6
  <2> QED
    BY <2>7, <2>8, <2>9
<1> QED
  BY <1>1, <1>2

\* The level of a node of a plan that compiles is the length of the longest path to it.
LEMMA LevelFacts ==
    ASSUME NEW p, Compiles(p)
    PROVE  \A n \in Nodes :
              /\ LevelOf(p)[n] \in Nat /\ LevelOf(p)[n] < Position(p, n)
              /\ \A m \in Preds(p, n) : LevelOf(p)[m] < LevelOf(p)[n]
              /\ LevelOf(p)[n] > 0 => \E m \in Preds(p, n) : LevelOf(p)[m] + 1 = LevelOf(p)[n]
<1> DEFINE L == LevelOf(p)
           Low(n) == L[n] \in Nat /\ L[n] < Position(p, n)
           S == {k \in Nat : \A n \in Nodes : Position(p, n) < k => Low(n)}
<1>0. /\ \A n \in Nodes : Position(p, n) \in Nat \ {0} /\ Position(p, n) < N + 1
      /\ \A n \in Nodes : \A m \in Preds(p, n) : m \in Nodes /\ Position(p, m) < Position(p, n)
  <2>1. \A n \in Nodes : Position(p, n) \in 1..N
    BY PositionFacts
  <2>2. \A n \in Nodes : Position(p, n) \in Nat \ {0} /\ Position(p, n) < N + 1
    BY <2>1, NodesFacts
  <2> QED
    BY <2>2, PositionFacts DEF Preds
<1>1. \A n \in Nodes : L[n] = Height(p, L, n)
  BY LevelEquation
<1> HIDE DEF L
<1>2. ASSUME NEW n \in Nodes, \A m \in Preds(p, n) : Low(m)
      PROVE  /\ Low(n)
             /\ \A m \in Preds(p, n) : L[m] < L[n]
             /\ L[n] > 0 => \E m \in Preds(p, n) : L[m] + 1 = L[n]
  <2> DEFINE b == Position(p, n) - 1
  <2>1. b \in Nat /\ b < Position(p, n)
    BY <1>0
  <2>2. ASSUME NEW m \in Preds(p, n) PROVE L[m] \in Nat /\ L[m] < b
    <3>1. Position(p, m) \in Nat /\ Position(p, n) \in Nat /\ Position(p, m) < Position(p, n)
      BY <1>0
    <3> QED
      BY <1>2, <3>1
  <2> HIDE DEF b
  <2>3. /\ L[n] \in Nat /\ L[n] <= b
        /\ \A m \in Preds(p, n) : L[m] < L[n]
        /\ L[n] > 0 => \E m \in Preds(p, n) : L[m] + 1 = L[n]
    BY <1>1, <2>1, <2>2, HeightFacts
  <2>4. L[n] < Position(p, n)
    BY <1>0, <2>1, <2>3
  <2> QED
    BY <2>3, <2>4
<1>3. 0 \in S
  BY <1>0
<1>4. ASSUME NEW k \in S PROVE k + 1 \in S
  <2>1. ASSUME NEW n \in Nodes, Position(p, n) < k + 1 PROVE Low(n)
    <3>1. ASSUME NEW m \in Preds(p, n) PROVE Low(m)
      <4>1. m \in Nodes /\ Position(p, m) < k
        BY <1>0, <2>1
      <4> QED
        BY <4>1
    <3> QED
      BY <1>2, <3>1
  <2> QED
    BY <2>1
<1> HIDE DEF Low
<1>5. S = Nat
  <2>1. S \in SUBSET Nat
    OBVIOUS
  <2> HIDE DEF S
  <2> QED
    BY <1>3, <1>4, <2>1, Induction
<1>6. \A n \in Nodes : Low(n)
  <2>1. N + 1 \in Nat
    BY NodesFacts
  <2> QED
    BY <1>0, <1>5, <2>1
<1>7. \A n \in Nodes : \A m \in Preds(p, n) : Low(m)
  BY <1>0, <1>6
<1> QED
  BY <1>2, <1>6, <1>7 DEF L, Low
-----------------------------------------------------------------------------
(* The invariant *)

RunType ==
    [at : {"idle", "next", "level", "siblings", "finish", "checkpoint", "step_failed", "error"},
     mode : {"loop", "advance"}, done : SUBSET Nodes, results : SUBSET Nodes,
     commands : SUBSET Nodes, ok : SUBSET Nodes, bad : SUBSET Nodes, left : SUBSET Nodes]

\* The step or the level under way.
Batch == run.left \cup run.ok \cup run.bad

\* Where an attempt is, and what it has at hand there.
Flow ==
    /\ run.at \notin {"idle", "error"} => Compiles(plan)
    /\ run.at = "next" => run.ok = {} /\ run.bad = {}
    /\ run.at \in {"level", "finish", "checkpoint"} => Batch # {}
    /\ run.at \in {"siblings", "finish"} => run.left \subseteq run.ok
    /\ run.at \in {"finish", "checkpoint"} => run.bad = {}
    /\ run.at = "finish" => run.left # {}
    /\ run.at = "checkpoint" => run.left = {}
    /\ run.at = "level" => run.left \cap plan.waits = {}

\* The nodes that may be recorded as finished.
Happened ==
    {n \in Nodes : IF n \in plan.waits THEN policy => n \in committed
                                       ELSE n \in succeeded}

Records ==
    /\ finished \subseteq Happened
    /\ committed \ plan.waits \subseteq succeeded
    /\ job = "waiting" => awaits \in plan.waits
    /\ run.commands \subseteq committed
    /\ run.at \in {"level", "siblings", "finish"} => run.ok \subseteq Happened

\* In the run loop the payload has the results of all that is done.
Inputs ==
    /\ run.mode = "loop" => run.done \subseteq run.results
    /\ run.mode = "loop" /\ run.at = "finish" => run.ok \subseteq run.results
    /\ run.at = "level" => \A n \in run.left : Preds(plan, n) \subseteq run.results

\* The checkpoints of these runs stand for steps that are finished.
Safe == ~parallel \/ Aligned

\* With the nodes of B finished, all the nodes up to the last of them are.
Covers(p, F, B) ==
    \A n \in B : \A m \in Nodes : Position(p, m) <= Position(p, n) => m \in F \cup B

Progress ==
    Safe => /\ run.done \subseteq finished
            /\ cursor.node # 0 => Prefix(cursor.node) \subseteq finished
            /\ run.at \in {"level", "finish", "checkpoint"} => Covers(plan, finished, Batch)
            /\ run.at \in {"finish", "checkpoint"} => run.ok \ run.left \subseteq finished
            /\ job = "completed" => finished = Nodes

IInv == TypeOK /\ Flow /\ Records /\ Inputs /\ Progress
-----------------------------------------------------------------------------
(* The next step and the next level *)

LEMMA NextStepFacts ==
    ASSUME Compiles(plan), NEW done \in SUBSET Nodes, done # Nodes
    PROVE  /\ NextStep(done) \in Nodes \ done
           /\ \A m \in Nodes : Position(plan, m) < Position(plan, NextStep(done)) => m \in done
<1> DEFINE o == TopoOrder(plan)
           S == {k \in 1..N : o[k] \notin done}
           i == Min(S)
<1>1. /\ \A n \in Nodes : Position(plan, n) \in 1..N /\ o[Position(plan, n)] = n
      /\ \A k \in 1..N : o[k] \in Nodes /\ Position(plan, o[k]) = k
  BY PositionFacts
<1>2. S \in SUBSET Nat /\ S # {}
  <2>1. PICK n \in Nodes : n \notin done
    OBVIOUS
  <2>2. Position(plan, n) \in S
    BY <1>1, <2>1
  <2> QED
    BY <2>2, NodesFacts
<1>3. i \in S /\ \A k \in S : i <= k
  BY <1>2, MinFacts
<1>4. NextStep(done) = o[i]
  BY DEF NextStep
<1> HIDE DEF i, o
<1>5. o[i] \in Nodes \ done /\ Position(plan, o[i]) = i /\ i \in 1..N
  BY <1>1, <1>3
<1>6. ASSUME NEW m \in Nodes, Position(plan, m) < i PROVE m \in done
  <2>1. Position(plan, m) \in 1..N /\ o[Position(plan, m)] = m
    BY <1>1
  <2>2. Position(plan, m) \notin S
    BY <1>3, <1>5, <1>6, <2>1, NodesFacts
  <2> QED
    BY <2>1, <2>2
<1> QED
  BY <1>4, <1>5, <1>6

\* Where levels follow one another, the nodes of a level are listed in their order.
LEMMA AlignedOrder ==
    ASSUME Compiles(plan), Aligned, NEW m \in Nodes, NEW n \in Nodes,
           LevelOf(plan)[m] = LevelOf(plan)[n], Position(plan, m) < Position(plan, n)
    PROVE  m < n
<1> DEFINE o == TopoOrder(plan)
           i == Position(plan, m)
<1>1. /\ \A l \in Nodes : Position(plan, l) \in 1..N /\ o[Position(plan, l)] = l
      /\ \A k \in 1..N : o[k] \in Nodes /\ Position(plan, o[k]) = k
  BY PositionFacts
<1>2. IsOrder(plan, {}, o) /\ Len(o) = N
  BY KahnOrder DEF Compiles
<1> HIDE DEF o
<1>3. \A l \in Ready(plan, {} \cup Ahead(o, i)) : m <= l
  BY <1>1, <1>2 DEF IsOrder
<1>4. ASSUME NEW l \in Nodes PROVE l \in Ahead(o, i) <=> Position(plan, l) < i
  <2>1. i \in Nat /\ N \in Nat /\ Position(plan, l) \in 1..N /\ i \in 1..N
    BY <1>1, NodesFacts
  <2>2. ASSUME l \in Ahead(o, i) PROVE Position(plan, l) < i
    <3>1. PICK j \in 1..(i - 1) : l = o[j]
      BY <2>2 DEF Ahead
    <3>2. j \in 1..N /\ j < i
      BY <2>1, <3>1
    <3> QED
      BY <1>1, <3>1, <3>2
  <2>3. ASSUME Position(plan, l) < i PROVE l \in Ahead(o, i)
    <3>1. Position(plan, l) \in 1..(i - 1)
      BY <2>1, <2>3
    <3> QED
      BY <1>1, <3>1 DEF Ahead
  <2> QED
    BY <2>2, <2>3
<1>5. n \notin Ahead(o, i)
  <2>1. i \in Nat /\ Position(plan, n) \in Nat
    BY <1>1, NodesFacts
  <2> QED
    BY <1>4, <2>1
<1>6. ASSUME NEW q \in Preds(plan, n) PROVE q \in Ahead(o, i)
  <2>1. q \in Nodes /\ LevelOf(plan)[q] < LevelOf(plan)[m]
    BY LevelFacts DEF Preds
  <2>2. LevelOf(plan)[q] \in Nat /\ LevelOf(plan)[m] \in Nat
    BY <2>1, LevelFacts
  <2>3. ~ (i < Position(plan, q))
    BY <2>1, <2>2 DEF Aligned
  <2>4. i # Position(plan, q)
    BY <1>1, <2>1, <2>2
  <2>5. i \in Nat /\ Position(plan, q) \in Nat
    BY <1>1, <2>1, NodesFacts
  <2> QED
    BY <1>4, <2>1, <2>3, <2>4, <2>5
<1>7. n \in Ready(plan, {} \cup Ahead(o, i))
  BY <1>5, <1>6 DEF Ready
<1>8. m # n /\ m \in Nat /\ n \in Nat
  <2>1. Position(plan, m) \in Nat
    BY <1>1, NodesFacts
  <2> QED
    BY <2>1, NodesFacts
<1> QED
  BY <1>3, <1>7, <1>8

\* What is left of the lowest level, or the next step: ready to run, and where
\* checkpoints are sound, all that comes before it is done.
LEMMA BatchFacts ==
    ASSUME Compiles(plan), parallel \in BOOLEAN, NEW done \in SUBSET Nodes, done # Nodes,
           NEW B, B = NextRunnableBatch(done)
    PROVE  /\ B \in SUBSET (Nodes \ done) /\ Min(B) \in B
           /\ \A n \in B : Preds(plan, n) \subseteq done
           /\ Safe => Covers(plan, done, B)
           /\ Safe => \A m \in Nodes : Position(plan, m) < Position(plan, Min(B)) => m \in done
<1>0. \A n \in Nodes : Position(plan, n) \in Nat
  BY PositionFacts, NodesFacts
<1>1. CASE ~ parallel
  <2> DEFINE s == NextStep(done)
  <2>1. B = {s}
    BY <1>1 DEF NextRunnableBatch
  <2>2. s \in Nodes \ done /\ \A m \in Nodes : Position(plan, m) < Position(plan, s) => m \in done
    BY NextStepFacts
  <2>3. \A m \in Nodes : Position(plan, m) = Position(plan, s) => m = s
    BY <2>2, PositionFacts
  <2> HIDE DEF s
  <2>4. Min(B) = s
    <3>1. B \in SUBSET Nat /\ B # {}
      BY <2>1, <2>2, NodesFacts
    <3> QED
      BY <2>1, <3>1, MinFacts
  <2>5. Preds(plan, s) \subseteq done
    BY <2>2, PositionFacts DEF Preds
  <2>6. Covers(plan, done, B)
    <3> SUFFICES ASSUME NEW m \in Nodes, Position(plan, m) <= Position(plan, s)
                 PROVE  m \in done \cup B
      BY <2>1 DEF Covers
    <3>1. Position(plan, m) < Position(plan, s) \/ Position(plan, m) = Position(plan, s)
      BY <1>0, <2>2
    <3> QED
      BY <2>1, <2>2, <2>3, <3>1
  <2> QED
    BY <2>1, <2>2, <2>4, <2>5, <2>6
<1>2. CASE parallel
  <2> DEFINE L == LevelOf(plan)
             S == {L[n] : n \in Nodes \ done}
             lowest == Min(S)
  <2>1. \A n \in Nodes : L[n] \in Nat
    BY LevelFacts
  <2>2. S \in SUBSET Nat /\ S # {}
    BY <2>1
  <2>3. lowest \in S /\ \A x \in S : lowest <= x
    BY <2>2, MinFacts
  <2>4. B = {n \in Nodes \ done : L[n] = lowest}
    BY <1>2 DEF NextRunnableBatch
  <2>5. \A n \in Nodes \ done : lowest <= L[n]
    BY <2>3
  <2>6. PICK x \in Nodes \ done : L[x] = lowest
    BY <2>3
  <2>7. lowest \in Nat
    BY <2>2, <2>3
  <2> HIDE DEF lowest, S
  <2>8. B \in SUBSET (Nodes \ done) /\ B # {} /\ B \in SUBSET Nat
    BY <2>4, <2>6, NodesFacts
  <2>9. Min(B) \in B /\ \A n \in B : Min(B) <= n
    BY <2>8, MinFacts
  <2>10. ASSUME NEW n \in B, NEW m \in Preds(plan, n) PROVE m \in done
    <3>1. m \in Nodes /\ n \in Nodes /\ L[n] = lowest
      BY <2>4 DEF Preds
    <3>2. L[m] < L[n]
      BY <3>1, LevelFacts
    <3> QED
      BY <2>1, <2>5, <2>7, <3>1, <3>2
  <2>11. ASSUME Safe, NEW n \in B, NEW m \in Nodes \ done, Position(plan, m) < Position(plan, n)
         PROVE  m \in B /\ m < n
    <3>1. Aligned /\ n \in Nodes /\ L[n] = lowest
      BY <1>2, <2>4, <2>11 DEF Safe
    <3>2. L[m] <= L[n]
      BY <2>11, <3>1 DEF Aligned
    <3>3. L[m] = lowest
      BY <2>1, <2>5, <2>7, <3>1, <3>2
    <3> QED
      BY <2>4, <2>11, <3>1, <3>3, AlignedOrder
  <2>12. ASSUME Safe PROVE Covers(plan, done, B)
    <3> SUFFICES ASSUME NEW n \in B, NEW m \in Nodes \ done, Position(plan, m) <= Position(plan, n)
                 PROVE  m \in B
      BY DEF Covers
    <3>1. n \in Nodes
      BY <2>8
    <3>2. CASE Position(plan, m) = Position(plan, n)
      BY <3>1, <3>2, PositionFacts
    <3>3. CASE Position(plan, m) # Position(plan, n)
      <4>1. Position(plan, m) < Position(plan, n)
        BY <1>0, <3>1, <3>3
      <4> QED
        BY <2>11, <2>12, <4>1
    <3> QED
      BY <3>2, <3>3
  <2>13. ASSUME Safe, NEW m \in Nodes, Position(plan, m) < Position(plan, Min(B)) PROVE m \in done
    <3> SUFFICES ASSUME m \notin done PROVE FALSE
      OBVIOUS
    <3>1. m \in B /\ m < Min(B)
      BY <2>9, <2>11, <2>13
    <3>2. m \in Nat /\ Min(B) \in Nat
      BY <2>8, <2>9, <3>1
    <3> QED
      BY <2>9, <3>1, <3>2
  <2> QED
    BY <2>8, <2>9, <2>10, <2>12, <2>13
<1> QED
  BY <1>1, <1>2

LEMMA DueFacts ==
    ASSUME TypeOK, Compiles(plan), run.done # Nodes
    PROVE  /\ Due \in Nodes \ run.done
           /\ Preds(plan, Due) \subseteq run.done
           /\ Safe => Covers(plan, run.done, {Due})
<1>0. parallel \in BOOLEAN /\ run.done \in SUBSET Nodes
  BY DEF TypeOK
<1>1. /\ Due \in Nodes \ run.done
      /\ Preds(plan, Due) \subseteq run.done
      /\ Safe => \A m \in Nodes : Position(plan, m) < Position(plan, Due) => m \in run.done
  <2>1. CASE run.mode = "advance"
    <3>1. Due = NextStep(run.done)
      BY <2>1 DEF Due
    <3>2. /\ NextStep(run.done) \in Nodes \ run.done
          /\ \A m \in Nodes : Position(plan, m) < Position(plan, NextStep(run.done)) => m \in run.done
      BY <1>0, NextStepFacts
    <3>3. Preds(plan, Due) \subseteq run.done
      BY <3>1, <3>2, PositionFacts DEF Preds
    <3> QED
      BY <3>1, <3>2, <3>3
  <2>2. CASE run.mode # "advance"
    <3> DEFINE B == NextRunnableBatch(run.done)
    <3>1. Due = Min(B)
      BY <2>2 DEF Due
    <3> HIDE DEF B
    <3>2. B = NextRunnableBatch(run.done)
      BY DEF B
    <3> QED
      BY <1>0, <3>1, <3>2, BatchFacts
  <2> QED
    BY <2>1, <2>2
<1>2. ASSUME Safe, NEW m \in Nodes, Position(plan, m) <= Position(plan, Due)
      PROVE  m \in run.done \cup {Due}
  <2>1. Position(plan, m) \in Nat /\ Position(plan, Due) \in Nat
    BY <1>1, PositionFacts, NodesFacts
  <2>2. CASE Position(plan, m) = Position(plan, Due)
    BY <1>1, <2>2, PositionFacts
  <2>3. CASE Position(plan, m) # Position(plan, Due)
    BY <1>1, <1>2, <2>1, <2>3
  <2> QED
    BY <2>2, <2>3
<1> QED
  BY <1>1, <1>2 DEF Covers
-----------------------------------------------------------------------------
(* The steps *)

LEMMA ConfigKept ==
    ASSUME UNCHANGED config
    PROVE  /\ plan' = plan /\ parallel' = parallel /\ policy' = policy
           /\ Safe' <=> Safe
<1>1. plan' = plan /\ parallel' = parallel /\ policy' = policy
  BY DEF config
<1>2. Aligned' <=> Aligned
  BY <1>1 DEF Aligned
<1> QED
  BY <1>1, <1>2 DEF Safe

\* What happened stays so.
LEMMA HappenedGrows ==
    ASSUME UNCHANGED config, committed \subseteq committed', succeeded \subseteq succeeded'
    PROVE  Happened \subseteq Happened'
  BY ConfigKept DEF Happened

LEMMA RunFields ==
    ASSUME TypeOK
    PROVE  /\ run \in RunType
           /\ run.at \in {"idle", "next", "level", "siblings", "finish", "checkpoint",
                          "step_failed", "error"}
           /\ run.mode \in {"loop", "advance"}
           /\ run.done \in SUBSET Nodes /\ run.results \in SUBSET Nodes
           /\ run.commands \in SUBSET Nodes /\ run.ok \in SUBSET Nodes
           /\ run.bad \in SUBSET Nodes /\ run.left \in SUBSET Nodes
  BY DEF TypeOK, RunType

LEMMA NoRunFields ==
    /\ NoRun \in RunType
    /\ NoRun.at = "idle" /\ NoRun.mode = "loop" /\ NoRun.done = {} /\ NoRun.results = {}
    /\ NoRun.commands = {} /\ NoRun.ok = {} /\ NoRun.bad = {} /\ NoRun.left = {}
  BY DEF NoRun, RunType

\* The stream keeps its nodes; the job and what it waits for agree.
JobTyped ==
    /\ job \in {"pending", "waiting", "completed", "failed"}
    /\ awaits \in 0..N /\ (awaits # 0 <=> job = "waiting")

\* The attempt ends, at most the state of the job changes.
LEMMA StopStep ==
    ASSUME IInv, UNCHANGED << config, finished, payload, committed, begun, cursor,
                              attempts, calls, succeeded >>,
           run' = NoRun, JobTyped', job' = "waiting" => awaits' \in plan.waits,
           job' = "completed" => job = "completed" \/ (Safe => finished = Nodes)
    PROVE  IInv'
<1>1. TypeOK /\ Flow /\ Records /\ Inputs /\ Progress
  BY DEF IInv
<1>2. plan' = plan /\ parallel' = parallel /\ policy' = policy /\ (Safe' <=> Safe)
  BY ConfigKept
<1>3. TypeOK'
  <2>1. run' \in RunType
    BY NoRunFields
  <2> QED
    BY <1>1, <1>2, <2>1 DEF TypeOK, JobTyped, RunType
<1>4. Flow'
  BY NoRunFields DEF Flow
<1>5. Records'
  <2>1. Happened \subseteq Happened'
    BY HappenedGrows
  <2> QED
    BY <1>1, <1>2, <2>1, NoRunFields DEF Records
<1>6. Inputs'
  BY NoRunFields DEF Inputs
<1>7. Progress'
  BY <1>1, <1>2, NoRunFields DEF Progress, Prefix
<1> QED
  BY <1>3, <1>4, <1>5, <1>6, <1>7 DEF IInv

\* The attempt goes to an error.
LEMMA FailStep ==
    ASSUME IInv, UNCHANGED << config, finished, payload, committed, cursor, attempts, succeeded >>,
           run.at # "idle", NEW at \in {"error", "step_failed"}, Goto(at),
           at = "step_failed" => Compiles(plan),
           JobTyped', job' \in {job, "failed"}, awaits' \in {awaits, 0},
           calls' \in [Nodes -> Nat], begun' \subseteq Nodes
    PROVE  IInv'
<1>1. TypeOK /\ Flow /\ Records /\ Inputs /\ Progress
  BY DEF IInv
<1>2. plan' = plan /\ parallel' = parallel /\ policy' = policy /\ (Safe' <=> Safe)
  BY ConfigKept
<1>3. run' = [run EXCEPT !.at = at]
  BY DEF Goto
<1>4. /\ run' \in RunType /\ run'.at = at /\ run'.mode = run.mode
      /\ run'.done = run.done /\ run'.results = run.results /\ run'.commands = run.commands
  <2>1. run \in RunType
    BY <1>1, RunFields
  <2> QED
    BY <1>3, <2>1 DEF RunType
<1>5. TypeOK'
  BY <1>1, <1>2, <1>4 DEF TypeOK, JobTyped, RunType
<1>6. Flow'
  BY <1>2, <1>4 DEF Flow
<1>7. Records'
  <2>1. Happened \subseteq Happened'
    BY HappenedGrows
  <2>2. committed \subseteq Nodes
    BY <1>1 DEF TypeOK
  <2>3. job' = "waiting" => awaits' \in plan.waits
    BY <1>1 DEF Records, JobTyped
  <2> QED
    BY <1>1, <1>2, <1>4, <2>1, <2>2, <2>3 DEF Records
<1>8. Inputs'
  BY <1>1, <1>4 DEF Inputs
<1>9. Progress'
  BY <1>1, <1>2, <1>4 DEF Progress, Prefix
<1> QED
  BY <1>5, <1>6, <1>7, <1>8, <1>9 DEF IInv

LEMMA EndSteps ==
    ASSUME IInv, Complete \/ RunJobError \/ Crash \/ Wait
    PROVE  IInv'
<1>1. TypeOK /\ Flow /\ Records /\ Progress
  BY DEF IInv
<1>2. UNCHANGED << config, finished, payload, committed, begun, cursor,
                   attempts, calls, succeeded >> /\ run' = NoRun
  BY DEF Complete, RunJobError, Crash, Wait, stream, history
<1>3. JobTyped /\ N \in Nat
  BY <1>1, NodesFacts DEF TypeOK, JobTyped
<1>4. CASE Complete
  <2>1. JobTyped' /\ job' = "completed"
    BY <1>3, <1>4 DEF Complete, JobTyped
  <2>2. Safe => finished = Nodes
    BY <1>1, <1>4 DEF Complete, Progress, TypeOK
  <2> QED
    BY <1>2, <2>1, <2>2, StopStep
<1>5. CASE RunJobError
  <2>1. JobTyped' /\ job' \in {"pending", "failed"}
    BY <1>3, <1>5 DEF RunJobError, JobTyped
  <2> QED
    BY <1>2, <2>1, StopStep
<1>6. CASE Crash
  <2>1. job' = job /\ awaits' = awaits
    BY <1>6 DEF Crash, stream, history
  <2>2. JobTyped' /\ (job' = "waiting" => awaits' \in plan.waits)
    BY <1>1, <1>3, <2>1 DEF JobTyped, Records
  <2> QED
    BY <1>2, <2>1, <2>2, StopStep
<1>7. CASE Wait
  <2>1. job' = "waiting" /\ awaits' = Due /\ Due \in plan.waits /\ run.at = "next" /\ run.done # Nodes
    BY <1>7 DEF Wait, Sequential
  <2>2. Due \in Nodes
    BY <1>1, <2>1, DueFacts DEF Flow
  <2>3. JobTyped'
    BY <2>1, <2>2, NodesFacts DEF JobTyped, Nodes
  <2> QED
    BY <1>2, <2>1, <2>3, StopStep
<1> QED
  BY <1>4, <1>5, <1>6, <1>7

LEMMA ErrorSteps ==
    ASSUME IInv, Refuse \/ WriteTerminalFailed \/ LevelFailed
    PROVE  IInv'
<1>1. TypeOK
  BY DEF IInv
<1>2. /\ UNCHANGED << config, finished, payload, committed, begun, cursor,
                      attempts, calls, succeeded >>
      /\ run.at # "idle" /\ Goto("error")
      /\ UNCHANGED << job, awaits >> \/ (job' = "failed" /\ awaits' = 0)
  BY DEF Refuse, WriteTerminalFailed, LevelFailed, Sequential, stream, history
<1>3. JobTyped'
  BY <1>1, <1>2, NodesFacts DEF TypeOK, JobTyped
<1>4. calls' \in [Nodes -> Nat] /\ begun' \subseteq Nodes
  BY <1>1, <1>2 DEF TypeOK
<1> QED
  BY <1>2, <1>3, <1>4, FailStep

\* What the events and the history of a step of node n may become.
Kept(n) ==
    /\ committed \subseteq committed' /\ committed' \subseteq committed \cup {n}
    /\ succeeded \subseteq succeeded' /\ succeeded' \subseteq Nodes
    /\ begun' \subseteq Nodes
    /\ calls' \in [Nodes -> Nat]

LEMMA SuccessFacts ==
    ASSUME TypeOK, NEW n \in Nodes, StepSucceeds(n)
    PROVE  Kept(n) /\ n \in succeeded'
<1>1. calls \in [Nodes -> Nat] /\ succeeded \subseteq Nodes /\ begun \subseteq Nodes
  BY DEF TypeOK
<1>2. calls' \in [Nodes -> Nat]
  BY <1>1 DEF StepSucceeds, history
<1>3. succeeded \subseteq succeeded' /\ succeeded' \subseteq Nodes /\ n \in succeeded'
  BY <1>1 DEF StepSucceeds, history
<1>4. begun' \subseteq Nodes /\ committed \subseteq committed' /\ committed' \subseteq committed \cup {n}
  BY <1>1 DEF StepSucceeds
<1> QED
  BY <1>2, <1>3, <1>4 DEF Kept

LEMMA FailureFacts ==
    ASSUME TypeOK, NEW n \in Nodes, StepFails(n)
    PROVE  Kept(n) /\ UNCHANGED << committed, succeeded >>
<1>1. calls \in [Nodes -> Nat] /\ succeeded \subseteq Nodes /\ begun \subseteq Nodes
  BY DEF TypeOK
<1>2. calls' \in [Nodes -> Nat]
  BY <1>1 DEF StepFails
<1>3. begun' \subseteq Nodes /\ UNCHANGED << committed, succeeded >>
  BY <1>1 DEF StepFails
<1> QED
  BY <1>1, <1>2, <1>3 DEF Kept

\* The attempt has the result of the step that is due, or needs none.
LEMMA TakeStep ==
    ASSUME IInv, run.at = "next", run.done # Nodes,
           UNCHANGED << config, finished, payload, cursor, attempts, job, awaits >>,
           committed \subseteq committed', committed' \subseteq committed \cup {Due},
           calls' \in [Nodes -> Nat], begun' \subseteq Nodes,
           succeeded \subseteq succeeded', succeeded' \subseteq Nodes,
           committed' \ plan.waits \subseteq succeeded',
           Due \in Happened',
           NEW results \in {run.results, run.results \cup {Due}},
           run.mode = "loop" => Due \in results,
           run' = [run EXCEPT !.at = "finish", !.ok = {Due}, !.left = {Due}, !.results = results]
    PROVE  IInv'
<1>1. TypeOK /\ Flow /\ Records /\ Inputs /\ Progress
  BY DEF IInv
<1>2. plan' = plan /\ parallel' = parallel /\ policy' = policy /\ (Safe' <=> Safe)
  BY ConfigKept
<1>3. Compiles(plan) /\ run.bad = {}
  BY <1>1 DEF Flow
<1>4. Due \in Nodes \ run.done /\ (Safe => Covers(plan, run.done, {Due}))
  BY <1>1, <1>3, DueFacts
<1> DEFINE d == Due
<1>5. /\ run' \in RunType /\ run'.at = "finish" /\ run'.mode = run.mode
      /\ run'.done = run.done /\ run'.results = results /\ run'.commands = run.commands
      /\ run'.ok = {d} /\ run'.left = {d} /\ run'.bad = {}
  <2>1. run \in RunType /\ d \in Nodes /\ results \in SUBSET Nodes
    BY <1>1, <1>4, RunFields
  <2> HIDE DEF d
  <2>2. run' = [run EXCEPT !.at = "finish", !.ok = {d}, !.left = {d}, !.results = results]
    BY DEF d
  <2>3. {d} \in SUBSET Nodes
    BY <2>1
  <2>4. run' \in RunType
    BY <2>1, <2>2, <2>3 DEF RunType
  <2>5. /\ run'.at = "finish" /\ run'.mode = run.mode
        /\ run'.done = run.done /\ run'.results = results /\ run'.commands = run.commands
        /\ run'.ok = {d} /\ run'.left = {d} /\ run'.bad = run.bad
    BY <2>1, <2>2 DEF RunType
  <2> QED
    BY <1>3, <2>4, <2>5
<1>6. d \in Nodes /\ (Safe => Covers(plan, run.done, {d})) /\ d \in Happened'
      /\ committed' \subseteq committed \cup {d} /\ (run.mode = "loop" => d \in results)
  BY <1>4
<1> HIDE DEF d
<1>7. TypeOK'
  BY <1>1, <1>2, <1>5, <1>6 DEF TypeOK, RunType
<1>8. Flow'
  BY <1>2, <1>3, <1>5 DEF Flow, Batch
<1>9. Records'
  <2>1. Happened \subseteq Happened'
    BY HappenedGrows
  <2> QED
    BY <1>1, <1>2, <1>5, <1>6, <2>1 DEF Records
<1>10. Inputs'
  BY <1>1, <1>5, <1>6 DEF Inputs
<1>11. Progress'
  <2>1. Batch' = {d}
    BY <1>5 DEF Batch
  <2>2. Safe => Covers(plan', finished', Batch')
    BY <1>1, <1>2, <1>6, <2>1 DEF Covers, Progress
  <2> QED
    BY <1>1, <1>2, <1>5, <2>2 DEF Progress, Prefix
<1> QED
  BY <1>7, <1>8, <1>9, <1>10, <1>11 DEF IInv

LEMMA SequentialSteps ==
    ASSUME IInv, Inject \/ PassWait \/ RunStep
    PROVE  IInv'
<1>1. TypeOK /\ Flow /\ Records
  BY DEF IInv
<1>2. run.at = "next" /\ run.done # Nodes /\ Compiles(plan) /\ UNCHANGED config
  BY <1>1 DEF Inject, PassWait, RunStep, Sequential, Flow
<1>3. Due \in Nodes
  BY <1>1, <1>2, DueFacts
<1>4. plan' = plan /\ policy' = policy
  BY <1>2, ConfigKept
<1>5. /\ calls \in [Nodes -> Nat] /\ committed \subseteq Nodes
      /\ run.mode \in {"loop", "advance"}
      /\ begun \subseteq Nodes /\ succeeded \subseteq Nodes
      /\ committed \ plan.waits \subseteq succeeded
      /\ run.commands \subseteq committed
  BY <1>1, RunFields DEF TypeOK, Records
<1>6. CASE Inject
  <2>1. /\ UNCHANGED << finished, payload, cursor, attempts, job, awaits,
                        committed, begun, calls, succeeded >>
        /\ Due \in run.commands
        /\ run' = [run EXCEPT !.at = "finish", !.ok = {Due}, !.left = {Due},
                              !.results = run.results \cup {Due}]
    BY <1>6 DEF Inject, stream, history
  <2>2. Due \in Happened'
    BY <1>3, <1>4, <1>5, <2>1 DEF Happened
  <2> QED
    BY <1>2, <1>4, <1>5, <2>1, <2>2, TakeStep
<1>7. CASE PassWait
  <2>1. /\ UNCHANGED << finished, payload, cursor, attempts, job, awaits,
                        committed, begun, calls, succeeded >>
        /\ Due \in plan.waits /\ ~ policy /\ run.mode # "loop"
        /\ run' = [run EXCEPT !.at = "finish", !.ok = {Due}, !.left = {Due}]
    BY <1>7 DEF PassWait, MayRun, stream, history
  <2>2. run' = [run EXCEPT !.at = "finish", !.ok = {Due}, !.left = {Due}, !.results = run.results]
    <3>1. run \in RunType
      BY <1>1, RunFields
    <3> QED
      BY <2>1, <3>1 DEF RunType
  <2>3. Due \in Happened'
    BY <1>3, <1>4, <2>1 DEF Happened
  <2> QED
    BY <1>2, <1>4, <1>5, <2>1, <2>2, <2>3, TakeStep
<1>8. CASE RunStep
  <2>1. UNCHANGED << finished, payload, cursor, attempts, job, awaits >> /\ Due \notin plan.waits
    BY <1>8 DEF RunStep
  <2>2. CASE /\ StepSucceeds(Due)
             /\ run' = [run EXCEPT !.at = "finish", !.ok = {Due}, !.left = {Due},
                                   !.results = run.results \cup {Due}]
    <3>1. Kept(Due) /\ Due \in succeeded'
      BY <1>1, <1>3, <2>2, SuccessFacts
    <3>2. Due \in Happened'
      BY <1>3, <1>4, <2>1, <3>1 DEF Happened
    <3>3. committed' \ plan.waits \subseteq succeeded'
      BY <1>5, <3>1 DEF Kept
    <3> QED
      BY <1>2, <2>1, <2>2, <3>1, <3>2, <3>3, TakeStep DEF Kept
  <2>3. CASE StepFails(Due) /\ Goto("step_failed")
    <3>1. JobTyped'
      BY <1>1, <2>1 DEF TypeOK, JobTyped
    <3>2. Kept(Due) /\ UNCHANGED << committed, succeeded >>
      BY <1>1, <1>3, <2>3, FailureFacts
    <3> QED
      BY <1>2, <2>1, <2>3, <3>1, <3>2, FailStep DEF Kept
  <2> QED
    BY <1>8, <2>2, <2>3 DEF RunStep
<1> QED
  BY <1>6, <1>7, <1>8

\* A new attempt.
LEMMA StartStep ==
    ASSUME IInv, Start
    PROVE  IInv'
<1>1. TypeOK /\ Flow /\ Records /\ Inputs /\ Progress
  BY DEF IInv
<1>2. /\ UNCHANGED << config, finished, payload, committed, begun, job, awaits, cursor,
                      calls, succeeded >>
      /\ attempts < MaxAttempts /\ attempts' = attempts + 1
  BY DEF Start, stream, history
<1>3. plan' = plan /\ parallel' = parallel /\ policy' = policy /\ (Safe' <=> Safe)
  BY <1>2, ConfigKept
<1>4. /\ finished \subseteq Nodes /\ payload \subseteq Nodes /\ committed \subseteq Nodes
      /\ cursor \in [node : 0..N, results : SUBSET Nodes] /\ cursor.results \subseteq Nodes
      /\ attempts \in 0..MaxAttempts /\ MaxAttempts \in Nat /\ begun \subseteq Nodes
  BY <1>1, ParallelRunAssumption DEF TypeOK
<1>5. /\ run' \in RunType
      /\ run'.ok = {} /\ run'.bad = {} /\ run'.left = {}
      /\ (run'.at = "next" /\ Compiles(plan)) \/ run'.at = "error"
      /\ run'.commands \subseteq committed
      /\ run'.mode = "loop" => run'.done = {}
      /\ Safe => run'.done \subseteq finished
  <2>1. CASE ~ Compiles(plan)
    <3>1. run' = [NoRun EXCEPT !.at = "error"]
      BY <2>1 DEF Start
    <3> QED
      BY <3>1 DEF NoRun, RunType
  <2>2. CASE Compiles(plan) /\ cursor.node # 0
    <3> DEFINE q == finished \cup Prefix(cursor.node)
    <3>1. run' = [NoRun EXCEPT !.at = "next", !.mode = "advance", !.results = cursor.results,
                               !.done = q]
      BY <2>2 DEF Start
    <3>2. cursor.node \in Nodes
      BY <1>4, <2>2 DEF Nodes
    <3>3. Position(plan, cursor.node) \in 1..N /\ \A i \in 1..N : TopoOrder(plan)[i] \in Nodes
      BY <2>2, <3>2, PositionFacts
    <3>4. Prefix(cursor.node) \subseteq Nodes
      <4>1. \A i \in 1..Position(plan, cursor.node) : i \in 1..N
        BY <3>3, NodesFacts
      <4> QED
        BY <3>3, <4>1 DEF Prefix
    <3>5. q \in SUBSET Nodes /\ (Safe => q \subseteq finished)
      BY <1>1, <1>4, <2>2, <3>4 DEF Progress
    <3> HIDE DEF q
    <3> QED
      BY <1>4, <2>2, <3>1, <3>5 DEF NoRun, RunType
  <2>3. CASE Compiles(plan) /\ cursor.node = 0
    <3>1. \/ run' = [NoRun EXCEPT !.at = "next", !.mode = "advance", !.results = payload,
                                  !.done = finished, !.commands = committed]
          \/ run' = [NoRun EXCEPT !.at = "next"]
      BY <2>3 DEF Start
    <3> QED
      BY <1>4, <2>3, <3>1 DEF NoRun, RunType
  <2> QED
    BY <2>1, <2>2, <2>3
<1>6. TypeOK'
  BY <1>1, <1>2, <1>3, <1>4, <1>5 DEF TypeOK, RunType
<1>7. Flow'
  BY <1>3, <1>5 DEF Flow
<1>8. Records'
  <2>1. Happened \subseteq Happened'
    BY <1>2, HappenedGrows
  <2> QED
    BY <1>1, <1>2, <1>3, <1>5, <2>1 DEF Records
<1>9. Inputs'
  BY <1>5 DEF Inputs
<1>10. Progress'
  BY <1>1, <1>2, <1>3, <1>5 DEF Progress, Prefix
<1> QED
  BY <1>6, <1>7, <1>8, <1>9, <1>10 DEF IInv

\* A signal answers the wait of the job.
LEMMA SignalStep ==
    ASSUME IInv, Signal
    PROVE  IInv'
<1>1. TypeOK /\ Flow /\ Records /\ Inputs /\ Progress
  BY DEF IInv
<1>2. /\ UNCHANGED << config, payload, begun, cursor, run, attempts, calls, succeeded >>
      /\ job = "waiting" /\ run.at = "idle" /\ job' = "pending" /\ awaits' = 0
      /\ finished' = finished \cup {awaits} /\ committed' = committed \cup {awaits}
  BY DEF Signal, history
<1>3. plan' = plan /\ parallel' = parallel /\ policy' = policy /\ (Safe' <=> Safe)
  BY <1>2, ConfigKept
<1>4. awaits \in Nodes /\ awaits \in plan.waits /\ N \in Nat
  BY <1>1, <1>2, NodesFacts DEF TypeOK, Records, Nodes
<1>5. TypeOK'
  BY <1>1, <1>2, <1>3, <1>4 DEF TypeOK
<1>6. Flow'
  BY <1>2 DEF Flow
<1>7. Records'
  <2>1. Happened \subseteq Happened'
    BY <1>2, HappenedGrows
  <2>2. awaits \in Happened'
    BY <1>2, <1>3, <1>4 DEF Happened
  <2> QED
    BY <1>1, <1>2, <1>3, <1>4, <2>1, <2>2 DEF Records
<1>8. Inputs'
  BY <1>1, <1>2 DEF Inputs
<1>9. Progress'
  BY <1>1, <1>2, <1>3 DEF Progress, Prefix
<1> QED
  BY <1>5, <1>6, <1>7, <1>8, <1>9 DEF IInv

\* The level that runs next is what is left of the lowest one.
LEMMA LevelStartStep ==
    ASSUME IInv, LevelStart
    PROVE  IInv'
<1>1. TypeOK /\ Flow /\ Records /\ Inputs /\ Progress
  BY DEF IInv
<1> DEFINE B == NextRunnableBatch(run.done)
<1>2. /\ UNCHANGED << config, finished, payload, committed, begun, job, awaits, cursor,
                      attempts, calls, succeeded >>
      /\ run.at = "next" /\ run.mode = "loop" /\ run.done # Nodes
      /\ run' = [run EXCEPT !.at = "level", !.left = B] /\ B \cap plan.waits = {}
  BY DEF LevelStart, Sequential, stream, history
<1>3. plan' = plan /\ parallel' = parallel /\ policy' = policy /\ (Safe' <=> Safe)
  BY <1>2, ConfigKept
<1>4. run \in RunType /\ run.ok = {} /\ run.bad = {} /\ Compiles(plan) /\ run.done \in SUBSET Nodes
  BY <1>1, <1>2, RunFields DEF Flow
<1>5. /\ B \in SUBSET Nodes /\ B # {}
      /\ \A n \in B : Preds(plan, n) \subseteq run.done
      /\ Safe => Covers(plan, run.done, B)
  <2>1. parallel \in BOOLEAN
    BY <1>1 DEF TypeOK
  <2>2. B = NextRunnableBatch(run.done)
    OBVIOUS
  <2> HIDE DEF B
  <2> QED
    BY <1>2, <1>4, <2>1, <2>2, BatchFacts
<1> HIDE DEF B
<1>6. run' \in RunType
  BY <1>2, <1>4, <1>5 DEF RunType
<1>7. /\ run'.at = "level" /\ run'.mode = "loop" /\ run'.done = run.done
      /\ run'.results = run.results /\ run'.commands = run.commands
      /\ run'.ok = {} /\ run'.bad = {} /\ run'.left = B
  BY <1>2, <1>4 DEF RunType
<1>8. TypeOK'
  BY <1>1, <1>2, <1>3, <1>6 DEF TypeOK, RunType
<1>9. Flow'
  BY <1>2, <1>3, <1>4, <1>5, <1>7 DEF Flow, Batch
<1>10. Records'
  <2>1. Happened \subseteq Happened'
    BY <1>2, HappenedGrows
  <2> QED
    BY <1>1, <1>2, <1>3, <1>7, <2>1 DEF Records
<1>11. Inputs'
  BY <1>1, <1>2, <1>3, <1>5, <1>7 DEF Inputs, Preds
<1>12. Progress'
  <2>1. Batch' = B
    BY <1>7 DEF Batch
  <2>2. Safe => Covers(plan', finished', Batch')
    BY <1>1, <1>2, <1>3, <1>5, <2>1 DEF Covers, Progress
  <2> QED
    BY <1>1, <1>2, <1>3, <1>7, <2>2 DEF Progress, Prefix
<1> QED
  BY <1>8, <1>9, <1>10, <1>11, <1>12 DEF IInv

\* A step of the level ends: the level is the same, one more of it has a result or has failed.
LEMMA LevelStepStep ==
    ASSUME IInv, NEW n \in Nodes, LevelStep(n)
    PROVE  IInv'
<1>1. TypeOK /\ Flow /\ Records /\ Inputs /\ Progress
  BY DEF IInv
<1>2. /\ UNCHANGED << config, finished, payload, job, awaits, cursor, attempts >>
      /\ run.at = "level" /\ n \in run.left
  BY DEF LevelStep
<1>3. plan' = plan /\ parallel' = parallel /\ policy' = policy /\ (Safe' <=> Safe)
  BY <1>2, ConfigKept
<1>4. run \in RunType /\ calls \in [Nodes -> Nat] /\ committed \subseteq Nodes /\ Compiles(plan)
  BY <1>1, <1>2, RunFields DEF TypeOK, Flow
<1>5. Kept(n)
  BY <1>1, SuccessFacts, FailureFacts DEF LevelStep
<1>6. /\ run' \in RunType /\ run'.at = "level" /\ run'.mode = run.mode
      /\ run'.done = run.done /\ run'.results = run.results /\ run'.commands = run.commands
      /\ run'.left = run.left \ {n}
      /\ Batch' = Batch
      /\ \/ n \in succeeded' /\ run'.ok = run.ok \cup {n}
         \/ committed' = committed /\ run'.ok = run.ok
  <2>1. CASE /\ StepSucceeds(n)
             /\ run' = [run EXCEPT !.left = run.left \ {n}, !.ok = run.ok \cup {n}]
    <3>1. run' \in RunType
      BY <1>4, <2>1 DEF RunType
    <3>2. /\ run'.at = run.at /\ run'.mode = run.mode /\ run'.bad = run.bad
          /\ run'.done = run.done /\ run'.results = run.results /\ run'.commands = run.commands
          /\ run'.left = run.left \ {n} /\ run'.ok = run.ok \cup {n}
      BY <1>4, <2>1 DEF RunType
    <3>3. n \in succeeded'
      BY <1>1, <2>1, SuccessFacts
    <3> QED
      BY <1>2, <3>1, <3>2, <3>3 DEF Batch
  <2>2. CASE /\ StepFails(n)
             /\ run' = [run EXCEPT !.left = run.left \ {n}, !.bad = run.bad \cup {n}]
    <3>1. run' \in RunType
      BY <1>4, <2>2 DEF RunType
    <3>2. /\ run'.at = run.at /\ run'.mode = run.mode /\ run'.bad = run.bad \cup {n}
          /\ run'.done = run.done /\ run'.results = run.results /\ run'.commands = run.commands
          /\ run'.left = run.left \ {n} /\ run'.ok = run.ok
      BY <1>4, <2>2 DEF RunType
    <3>3. committed' = committed
      BY <1>1, <2>2, FailureFacts
    <3> QED
      BY <1>2, <3>1, <3>2, <3>3 DEF Batch
  <2> QED
    BY <2>1, <2>2 DEF LevelStep
<1>7. n \notin plan.waits
  BY <1>1, <1>2 DEF Flow
<1>8. TypeOK'
  BY <1>1, <1>2, <1>3, <1>5, <1>6 DEF TypeOK, RunType, Kept
<1>9. Flow'
  BY <1>1, <1>2, <1>3, <1>4, <1>6 DEF Flow
<1>10. Records'
  <2>1. Happened \subseteq Happened'
    BY <1>2, <1>5, HappenedGrows DEF Kept
  <2>2. n \in succeeded' => n \in Happened'
    BY <1>3, <1>7 DEF Happened
  <2>3. run'.ok \subseteq Happened'
    BY <1>1, <1>2, <1>6, <2>1, <2>2 DEF Records
  <2>4. committed' \ plan.waits \subseteq succeeded'
    BY <1>1, <1>5, <1>6 DEF Records, Kept
  <2>5. run'.commands \subseteq committed'
    BY <1>1, <1>5, <1>6 DEF Records, Kept
  <2> QED
    BY <1>1, <1>2, <1>3, <1>6, <2>1, <2>3, <2>4, <2>5 DEF Records
<1>11. Inputs'
  BY <1>1, <1>2, <1>3, <1>6 DEF Inputs, Preds
<1>12. Progress'
  <2>1. Safe => Covers(plan', finished', Batch')
    BY <1>1, <1>2, <1>3, <1>6 DEF Covers, Progress
  <2> QED
    BY <1>1, <1>2, <1>3, <1>6, <2>1 DEF Progress, Prefix
<1> QED
  BY <1>8, <1>9, <1>10, <1>11, <1>12 DEF IInv

\* All steps of the level have ended.
LEMMA LevelJoinStep ==
    ASSUME IInv, LevelJoin
    PROVE  IInv'
<1>1. TypeOK /\ Flow /\ Records /\ Inputs /\ Progress
  BY DEF IInv
<1>2. /\ UNCHANGED << config, finished, payload, committed, begun, job, awaits, cursor,
                      attempts, calls, succeeded >>
      /\ run.at = "level" /\ run.left = {}
  BY DEF LevelJoin, stream, history
<1>3. plan' = plan /\ parallel' = parallel /\ policy' = policy /\ (Safe' <=> Safe)
  BY <1>2, ConfigKept
<1>4. run \in RunType /\ Compiles(plan)
  BY <1>1, <1>2, RunFields DEF Flow
<1>5. /\ run' \in RunType /\ run'.mode = run.mode /\ run'.done = run.done
      /\ run'.commands = run.commands /\ run'.ok = run.ok /\ run'.left = run.ok
      /\ \/ run'.at = "siblings" /\ run'.results = run.results
         \/ /\ run'.at = "finish" /\ run'.results = run.results \cup run.ok
            /\ run.bad = {} /\ run'.bad = {}
  <2>1. CASE run.bad = {}
    <3>1. run' = [run EXCEPT !.at = "finish", !.left = run.ok, !.results = run.results \cup run.ok]
      BY <2>1 DEF LevelJoin
    <3>2. run' \in RunType
      BY <1>4, <3>1 DEF RunType
    <3> QED
      BY <1>4, <2>1, <3>1, <3>2 DEF RunType
  <2>2. CASE run.bad # {}
    <3>1. run' = [run EXCEPT !.at = "siblings", !.left = run.ok]
      BY <2>2 DEF LevelJoin
    <3>2. run' \in RunType
      BY <1>4, <3>1 DEF RunType
    <3> QED
      BY <1>4, <3>1, <3>2 DEF RunType
  <2> QED
    BY <2>1, <2>2
<1>6. run'.at = "finish" => Batch' = run.ok /\ Batch = run.ok
  BY <1>2, <1>5 DEF Batch
<1>7. TypeOK'
  BY <1>1, <1>2, <1>3, <1>5 DEF TypeOK, RunType
<1>8. Flow'
  BY <1>1, <1>2, <1>3, <1>4, <1>5, <1>6 DEF Flow
<1>9. Records'
  <2>1. Happened \subseteq Happened'
    BY <1>2, HappenedGrows
  <2> QED
    BY <1>1, <1>2, <1>3, <1>5, <2>1 DEF Records
<1>10. Inputs'
  BY <1>1, <1>5 DEF Inputs
<1>11. Progress'
  <2>1. Safe /\ run'.at = "finish" => Covers(plan', finished', Batch')
    BY <1>1, <1>2, <1>3, <1>6 DEF Covers, Progress
  <2> QED
    BY <1>1, <1>2, <1>3, <1>5, <2>1 DEF Progress, Prefix
<1> QED
  BY <1>7, <1>8, <1>9, <1>10, <1>11 DEF IInv

\* A sibling of a failed step is recorded.
LEMMA SiblingStep ==
    ASSUME IInv, NEW n \in Nodes, SiblingFinished(n)
    PROVE  IInv'
<1>1. TypeOK /\ Flow /\ Records /\ Inputs /\ Progress
  BY DEF IInv
<1>2. /\ UNCHANGED << config, committed, begun, job, awaits, cursor, attempts, calls, succeeded >>
      /\ run.at = "siblings" /\ n \in run.left /\ finished' = finished \cup {n}
      /\ payload' = run.results \cup {n}
      /\ run' = [run EXCEPT !.left = run.left \ {n}]
  BY DEF SiblingFinished, history
<1>3. plan' = plan /\ parallel' = parallel /\ policy' = policy /\ (Safe' <=> Safe)
  BY <1>2, ConfigKept
<1>4. run \in RunType /\ Compiles(plan) /\ run.results \in SUBSET Nodes /\ run.left \subseteq run.ok
  BY <1>1, <1>2, RunFields DEF Flow
<1>5. run' \in RunType
  BY <1>2, <1>4 DEF RunType
<1>6. /\ run'.at = "siblings" /\ run'.mode = run.mode /\ run'.done = run.done
      /\ run'.results = run.results /\ run'.commands = run.commands
      /\ run'.ok = run.ok /\ run'.left = run.left \ {n}
  BY <1>2, <1>4 DEF RunType
<1>7. TypeOK'
  BY <1>1, <1>2, <1>3, <1>4, <1>5 DEF TypeOK, RunType
<1>8. Flow'
  BY <1>3, <1>4, <1>6 DEF Flow
<1>9. Records'
  <2>1. Happened \subseteq Happened'
    BY <1>2, HappenedGrows
  <2>2. finished' \subseteq Happened'
    BY <1>1, <1>2, <1>4, <2>1 DEF Records
  <2> QED
    BY <1>1, <1>2, <1>3, <1>6, <2>1, <2>2 DEF Records
<1>10. Inputs'
  BY <1>1, <1>6 DEF Inputs
<1>11. Progress'
  <2>1. finished \subseteq finished' /\ finished' \subseteq Nodes
    BY <1>1, <1>2 DEF TypeOK
  <2> QED
    BY <1>1, <1>2, <1>3, <1>6, <2>1 DEF Progress, Prefix
<1> QED
  BY <1>7, <1>8, <1>9, <1>10, <1>11 DEF IInv

\* A step is recorded as finished.
LEMMA NodeFinishedStep ==
    ASSUME IInv, NodeFinished
    PROVE  IInv'
<1>1. TypeOK /\ Flow /\ Records /\ Inputs /\ Progress
  BY DEF IInv
<1> DEFINE n == Min(run.left)
           left == run.left \ {n}
           at == IF left = {} THEN "checkpoint" ELSE "finish"
<1>2. /\ UNCHANGED << config, committed, begun, job, awaits, cursor, attempts, calls, succeeded >>
      /\ run.at = "finish" /\ finished' = finished \cup {n} /\ payload' = run.results
      /\ run' = [run EXCEPT !.at = at, !.left = left, !.done = run.done \cup {n}]
  BY DEF NodeFinished, history
<1>3. plan' = plan /\ parallel' = parallel /\ policy' = policy /\ (Safe' <=> Safe)
  BY <1>2, ConfigKept
<1>4. /\ run \in RunType /\ Compiles(plan) /\ run.results \in SUBSET Nodes /\ run.done \in SUBSET Nodes
      /\ run.left \in SUBSET Nodes /\ run.left \subseteq run.ok /\ run.left # {} /\ run.bad = {}
  BY <1>1, <1>2, RunFields DEF Flow
<1>5. n \in run.left /\ n \in Nodes
  <2>1. run.left \in SUBSET Nat
    BY <1>4, NodesFacts
  <2> QED
    BY <1>4, <2>1, MinFacts
<1>6. /\ left = run.left \ {n} /\ at \in {"finish", "checkpoint"}
      /\ at = "checkpoint" <=> left = {}
  OBVIOUS
<1> HIDE DEF n, left, at
<1>7. run' \in RunType
  BY <1>2, <1>4, <1>5, <1>6 DEF RunType
<1>8. /\ run'.at = at /\ run'.mode = run.mode /\ run'.done = run.done \cup {n}
      /\ run'.results = run.results /\ run'.commands = run.commands
      /\ run'.ok = run.ok /\ run'.left = left /\ run'.bad = {}
  BY <1>2, <1>4 DEF RunType
<1>9. Batch' = run.ok /\ Batch = run.ok /\ run.ok # {}
  BY <1>4, <1>6, <1>8 DEF Batch
<1>10. TypeOK'
  BY <1>1, <1>2, <1>3, <1>4, <1>5, <1>7 DEF TypeOK, RunType
<1>11. Flow'
  BY <1>3, <1>4, <1>6, <1>8, <1>9 DEF Flow
<1>12. Records'
  <2>1. Happened \subseteq Happened'
    BY <1>2, HappenedGrows
  <2>2. finished' \subseteq Happened' /\ run.ok \subseteq Happened'
    BY <1>1, <1>2, <1>4, <1>5, <2>1 DEF Records
  <2> QED
    BY <1>1, <1>2, <1>3, <1>8, <2>2 DEF Records
<1>13. Inputs'
  BY <1>1, <1>2, <1>4, <1>5, <1>6, <1>8 DEF Inputs
<1>14. Progress'
  <2>1. finished \subseteq finished' /\ finished' \subseteq Nodes
    BY <1>1, <1>2, <1>5 DEF TypeOK
  <2>2. Safe => Covers(plan', finished', Batch')
    BY <1>1, <1>2, <1>3, <1>9, <2>1 DEF Covers, Progress
  <2> QED
    BY <1>1, <1>2, <1>3, <1>6, <1>8, <2>1, <2>2 DEF Progress, Prefix
<1> QED
  BY <1>10, <1>11, <1>12, <1>13, <1>14 DEF IInv

\* The checkpoint stands for the steps up to the last one of the batch, which are finished.
LEMMA CheckpointStep ==
    ASSUME IInv, Checkpoint
    PROVE  IInv'
<1>1. TypeOK /\ Flow /\ Records /\ Inputs /\ Progress
  BY DEF IInv
<1> DEFINE P == {Position(plan, n) : n \in run.ok}
           last == Max(P)
           node == TopoOrder(plan)[last]
<1>2. /\ UNCHANGED << config, finished, payload, committed, begun, job, awaits,
                      attempts, calls, succeeded >>
      /\ run.at = "checkpoint" /\ cursor' = [node |-> node, results |-> run.results]
  BY DEF Checkpoint, stream, history
<1>3. plan' = plan /\ parallel' = parallel /\ policy' = policy /\ (Safe' <=> Safe)
  BY <1>2, ConfigKept
<1>4. /\ run \in RunType /\ Compiles(plan) /\ run.results \in SUBSET Nodes /\ run.ok \in SUBSET Nodes
      /\ run.left = {} /\ run.bad = {} /\ run.ok # {} /\ Batch = run.ok
  BY <1>1, <1>2, RunFields DEF Flow, Batch
<1>5. /\ node \in run.ok /\ Position(plan, node) = last /\ last \in 1..N
  <2>1. \A n \in run.ok : Position(plan, n) \in 1..N /\ TopoOrder(plan)[Position(plan, n)] = n
    BY <1>4, PositionFacts
  <2>2. P \in SUBSET (0..N) /\ P # {} /\ N \in Nat
    BY <1>4, <2>1, NodesFacts
  <2>3. last \in P
    <3> HIDE DEF P
    <3> QED
      BY <2>2, MaxFacts
  <2>4. PICK n \in run.ok : last = Position(plan, n)
    BY <2>3
  <2> QED
    BY <2>1, <2>4
<1> HIDE DEF P, last, node
<1>6. Safe => Prefix(node) \subseteq finished
  <2> SUFFICES ASSUME Safe, NEW i \in 1..last PROVE TopoOrder(plan)[i] \in finished
    BY <1>5 DEF Prefix
  <2>1. i \in 1..N /\ i <= last /\ i \in Nat
    BY <1>5, NodesFacts
  <2>2. TopoOrder(plan)[i] \in Nodes /\ Position(plan, TopoOrder(plan)[i]) = i
    BY <1>4, <2>1, PositionFacts
  <2>3. Covers(plan, finished, run.ok) /\ run.ok \subseteq finished
    BY <1>1, <1>2, <1>4 DEF Progress
  <2> QED
    BY <1>5, <2>1, <2>2, <2>3 DEF Covers
<1>7. /\ run' \in RunType /\ run'.at = "next" /\ run'.mode = run.mode
      /\ run'.ok = {} /\ run'.bad = {}
      /\ run'.commands \subseteq committed
      /\ \/ run.mode = "advance" /\ run'.done = finished
         \/ /\ run'.done = run.done /\ run'.results = run.results
  <2>1. CASE run.mode = "advance"
    <3>1. run' = [NoRun EXCEPT !.at = "next", !.mode = "advance", !.done = finished,
                               !.results = payload, !.commands = committed]
      BY <2>1 DEF Checkpoint
    <3>2. finished \subseteq Nodes /\ payload \subseteq Nodes /\ committed \subseteq Nodes
      BY <1>1 DEF TypeOK
    <3> QED
      BY <2>1, <3>1, <3>2 DEF NoRun, RunType
  <2>2. CASE run.mode # "advance"
    <3>1. run' = [run EXCEPT !.at = "next", !.ok = {}]
      BY <2>2 DEF Checkpoint
    <3>2. run.commands \subseteq committed
      BY <1>1 DEF Records
    <3> QED
      BY <1>4, <3>1, <3>2 DEF RunType
  <2> QED
    BY <2>1, <2>2
<1>8. TypeOK'
  <2>1. node \in 0..N
    BY <1>4, <1>5 DEF Nodes
  <2> QED
    BY <1>1, <1>2, <1>3, <1>4, <1>7, <2>1 DEF TypeOK, RunType
<1>9. Flow'
  BY <1>3, <1>4, <1>7 DEF Flow
<1>10. Records'
  <2>1. Happened \subseteq Happened'
    BY <1>2, HappenedGrows
  <2> QED
    BY <1>1, <1>2, <1>3, <1>7, <2>1 DEF Records
<1>11. Inputs'
  BY <1>1, <1>7 DEF Inputs
<1>12. Progress'
  <2>1. cursor'.node = node
    BY <1>2
  <2>2. Safe => Prefix(cursor.node)' \subseteq finished
    BY <1>3, <1>6, <2>1 DEF Prefix
  <2> QED
    BY <1>1, <1>2, <1>3, <1>7, <2>2 DEF Progress
<1> QED
  BY <1>8, <1>9, <1>10, <1>11, <1>12 DEF IInv

LEMMA InitInv ==
    ASSUME Init
    PROVE  IInv
<1>1. /\ finished = {} /\ payload = {} /\ committed = {} /\ begun = {} /\ job = "pending" /\ awaits = 0
      /\ cursor = [node |-> 0, results |-> {}] /\ attempts = 0 /\ run = NoRun
      /\ calls = [n \in Nodes |-> 0] /\ succeeded = {}
      /\ plan \in Plans /\ parallel \in BOOLEAN /\ policy \in BOOLEAN
  BY DEF Init
<1>2. TypeOK
  <2>1. run \in RunType /\ N \in Nat /\ MaxAttempts \in Nat
    BY <1>1, NoRunFields, ParallelRunAssumption
  <2> QED
    BY <1>1, <2>1 DEF TypeOK, RunType
<1>3. Flow /\ Records /\ Inputs /\ Progress
  BY <1>1, NoRunFields DEF Flow, Records, Inputs, Progress
<1> QED
  BY <1>2, <1>3 DEF IInv

LEMMA StutterInv ==
    ASSUME IInv, UNCHANGED vars
    PROVE  IInv'
<1>1. UNCHANGED << config, finished, payload, committed, begun, job, awaits, cursor, run,
                   attempts, calls, succeeded >>
  BY DEF vars, stream, history
<1>2. plan' = plan /\ parallel' = parallel /\ policy' = policy /\ (Safe' <=> Safe)
  BY <1>1, ConfigKept
<1>3. TypeOK /\ Flow /\ Records /\ Inputs /\ Progress
  BY DEF IInv
<1>4. TypeOK'
  BY <1>1, <1>2, <1>3 DEF TypeOK
<1>5. Batch' = Batch
  BY <1>1 DEF Batch
<1>6. Flow'
  BY <1>1, <1>2, <1>3, <1>5 DEF Flow
<1>7. Records'
  <2>1. Happened \subseteq Happened'
    BY <1>1, HappenedGrows
  <2> QED
    BY <1>1, <1>2, <1>3, <2>1 DEF Records
<1>8. Inputs'
  BY <1>1, <1>2, <1>3 DEF Inputs, Preds
<1>9. Progress'
  BY <1>1, <1>2, <1>3, <1>5 DEF Progress, Prefix
<1> QED
  BY <1>4, <1>6, <1>7, <1>8, <1>9 DEF IInv

LEMMA NextInv ==
    ASSUME IInv, [Next]_vars
    PROVE  IInv'
<1>1. CASE Start
  BY <1>1, StartStep
<1>2. CASE Complete \/ RunJobError \/ Crash \/ Wait
  BY <1>2, EndSteps
<1>3. CASE Signal
  BY <1>3, SignalStep
<1>4. CASE Refuse \/ WriteTerminalFailed \/ LevelFailed
  BY <1>4, ErrorSteps
<1>5. CASE Inject \/ PassWait \/ RunStep
  BY <1>5, SequentialSteps
<1>6. CASE LevelStart
  BY <1>6, LevelStartStep
<1>7. CASE LevelJoin
  BY <1>7, LevelJoinStep
<1>8. CASE \E n \in Nodes : LevelStep(n) \/ SiblingFinished(n)
  BY <1>8, LevelStepStep, SiblingStep
<1>9. CASE NodeFinished
  BY <1>9, NodeFinishedStep
<1>10. CASE Checkpoint
  BY <1>10, CheckpointStep
<1>11. CASE UNCHANGED vars
  BY <1>11, StutterInv
<1> QED
  BY <1>1, <1>2, <1>3, <1>4, <1>5, <1>6, <1>7, <1>8, <1>9, <1>10, <1>11 DEF Next

\* Every state of the specification satisfies the invariant.
THEOREM InvariantHolds == Spec => []IInv
<1>1. Init => IInv
  BY InitInv
<1>2. IInv /\ [Next]_vars => IInv'
  BY NextInv
<1> QED
  BY <1>1, <1>2, PTL DEF Spec

-----------------------------------------------------------------------------
(* What the invariant gives *)

\* The stream, the checkpoint and the attempt keep their types: every checkpoint
\* names a node of the plan, and a job waits exactly while it names the node it
\* waits at.
THEOREM ParallelTypeCorrect == Spec => []TypeOK
<1>1. IInv => TypeOK
  BY DEF IInv
<1> QED
  BY <1>1, InvariantHolds, PTL

\* TopoOrder and LevelGroups for every plan over any number of nodes: Kahn's
\* algorithm lists all nodes exactly when the plan has no cycle, its order respects
\* every edge, and a level is one more than the highest level before it.
THEOREM PlanIsSound == Spec => []PlanSound
<1> DEFINE cyclic == \E S \in (SUBSET Nodes) \ {{}} : \A n \in S : Preds(plan, n) \cap S # {}
           o == TopoOrder(plan)
<1>1. TypeOK => PlanSound
  <2> SUFFICES ASSUME TypeOK PROVE PlanSound
    OBVIOUS
  <2>1. plan.edges \subseteq Nodes \X Nodes
    BY ParallelRunAssumption DEF TypeOK
  <2>2. ASSUME Compiles(plan) PROVE ~ cyclic
    BY <2>2, CompilesAcyclic
  <2>3. ASSUME ~ Compiles(plan) PROVE cyclic
    BY <2>3, OrderFacts DEF Compiles
  <2>4. ASSUME Compiles(plan) PROVE ToSet(o) = Nodes
    <3>1. o \in Seq(Nodes) /\ Len(o) = N /\ DOMAIN o = 1..N
      BY <2>4, OrderFacts DEF Compiles
    <3>2. \A n \in Nodes : \E i \in 1..N : o[i] = n
      BY <2>4, PositionFacts
    <3> HIDE DEF o
    <3> QED
      BY <3>1, <3>2 DEF ToSet
  <2>5. ASSUME Compiles(plan), NEW e \in plan.edges
        PROVE  /\ \E i, j \in 1..N : i < j /\ o[i] = e[1] /\ o[j] = e[2]
               /\ LevelOf(plan)[e[1]] < LevelOf(plan)[e[2]]
    <3>1. e[1] \in Nodes /\ e[2] \in Nodes /\ e = << e[1], e[2] >>
      BY <2>1, <2>5
    <3>2. e[1] \in Preds(plan, e[2])
      BY <2>5, <3>1 DEF Preds
    <3>3. LevelOf(plan)[e[1]] < LevelOf(plan)[e[2]]
      BY <2>5, <3>1, <3>2, LevelFacts
    <3>4. /\ Position(plan, e[1]) \in 1..N /\ o[Position(plan, e[1])] = e[1]
          /\ Position(plan, e[2]) \in 1..N /\ o[Position(plan, e[2])] = e[2]
          /\ Position(plan, e[1]) < Position(plan, e[2])
      BY <2>5, <3>1, <3>2, PositionFacts
    <3> HIDE DEF o
    <3> QED
      BY <3>3, <3>4
  <2>6. ASSUME Compiles(plan), NEW n \in Nodes, LevelOf(plan)[n] > 0
        PROVE  \E m \in Preds(plan, n) : LevelOf(plan)[m] + 1 = LevelOf(plan)[n]
    BY <2>6, LevelFacts
  <2> QED
    BY <2>2, <2>3, <2>4, <2>5, <2>6 DEF PlanSound, Compiles
<1> QED
  BY <1>1, ParallelTypeCorrect, PTL

\* What the stream records as finished happened: the node's tool has succeeded,
\* whichever events of its calls were lost; in a parallel level that failed only the
\* siblings that succeeded are recorded.
THEOREM RecordedHappened == Spec => []FinishedIsReal
<1>1. IInv => FinishedIsReal
  BY DEF IInv, Records, Happened, FinishedIsReal
<1> QED
  BY <1>1, InvariantHolds, PTL

\* A job is completed only with every node of its plan finished, in sequential runs
\* of every plan, and in parallel runs of the plans whose topological order lists
\* the levels one after the other, across checkpoints, crashes and retries.
THEOREM CompletedHasRun == Spec => []CompletedRanAll
<1>1. IInv => CompletedRanAll
  BY DEF IInv, Progress, Safe, CompletedRanAll
<1> QED
  BY <1>1, InvariantHolds, PTL

\* A step of node m calls no other tool.
LEMMA OnlyItsCall ==
    ASSUME TypeOK, NEW m \in Nodes, StepSucceeds(m) \/ StepFails(m),
           NEW n \in Nodes, calls'[n] # calls[n]
    PROVE  n = m
<1>1. calls \in [Nodes -> Nat]
  BY DEF TypeOK
<1>2. calls' = calls \/ calls' = [calls EXCEPT ![m] = @ + 1]
  BY DEF StepSucceeds, StepFails, history
<1> QED
  BY <1>1, <1>2

\* A step that calls the tool of n.
LEMMA InputsStep ==
    ASSUME IInv, Next, policy, NEW n \in Nodes, calls'[n] # calls[n]
    PROVE  Preds(plan, n) \subseteq run.results
<1>1. TypeOK /\ Flow /\ Inputs
  BY DEF IInv
<1>2. CASE RunStep
  <2>1. /\ run.at = "next" /\ run.done # Nodes /\ run.mode = "loop"
        /\ StepSucceeds(Due) \/ StepFails(Due)
    BY <1>2 DEF RunStep, Sequential, MayRun
  <2>2. Compiles(plan)
    BY <1>1, <2>1 DEF Flow
  <2>3. Due \in Nodes /\ Preds(plan, Due) \subseteq run.done
    BY <1>1, <2>1, <2>2, DueFacts
  <2>4. n = Due
    BY <1>1, <2>1, <2>3, OnlyItsCall
  <2> QED
    BY <1>1, <2>1, <2>3, <2>4 DEF Inputs
<1>3. CASE \E m \in Nodes : LevelStep(m)
  <2>1. PICK m \in Nodes : LevelStep(m)
    BY <1>3
  <2>2. n = m
    BY <1>1, <2>1, OnlyItsCall DEF LevelStep
  <2> QED
    BY <1>1, <2>1, <2>2 DEF LevelStep, Inputs
<1>4. ~ UNCHANGED history
  BY DEF history
<1> QED
  BY <1>2, <1>3, <1>4
  DEF Next, Start, Complete, RunJobError, Crash, Signal, Inject, Refuse, Wait, PassWait,
      WriteTerminalFailed, LevelStart, LevelJoin, LevelFailed, SiblingFinished, NodeFinished, Checkpoint

\* Under a replay policy no tool is called before the results of all the nodes it
\* depends on are in the payload, in the sequential loop and in parallel levels.
THEOREM InputsBefore == Spec => InputsFirst
<1>1. IInv /\ [Next]_vars =>
        [policy => \A n \in Nodes : calls'[n] # calls[n] => Preds(plan, n) \subseteq run.results]_vars
  BY InputsStep
<1> QED
  BY <1>1, InvariantHolds, PTL DEF Spec, InputsFirst
====
