------------------------------ MODULE TreeProofs -----------------------------
(* Lists of entries and the trees they stand for, for any names, entries and   *)
(* lists: the walks over a list agree on the path of every entry; a tree        *)
(* written as a list is nested, names no path twice, and is read back as it is;  *)
(* what a sort keeps, and that the sorted list and the C4 ID depend on the tree  *)
(* alone; what diffTree writes is a tree again, and applyPatchTree undoes        *)
(* diffTree.                                                                     *)
EXTENDS Patch, FiniteSetTheorems, SequenceTheorems, WellFoundedInduction, TLAPS

Walk == INSTANCE FoldFacts WITH Op <- LAMBDA c, acc, e : PathStep(acc, e)
ValidateWalk == INSTANCE FoldFacts WITH Op <- LAMBDA c, acc, e : ValidateStep(acc, e)

-----------------------------------------------------------------------------
(* Orders.                                                                   *)

\* Some number below the next one has what another number at most n has: the
\* last one.
LEMMA LastNumber ==
  ASSUME NEW n \in Nat, NEW T \in SUBSET (1..n), T # {}
  PROVE  \E x \in T : \A y \in T : y <= x
<1> DEFINE U == {m \in Nat : m = 0 \/ \A S \in SUBSET (1..m) :
                                S # {} => \E x \in S : \A y \in S : y <= x}
<1>1. 0 \in U
  OBVIOUS
<1>2. ASSUME NEW m \in Nat, m \in U
      PROVE  m + 1 \in U
  <2> SUFFICES ASSUME NEW S \in SUBSET (1..(m + 1)), S # {}
               PROVE  \E x \in S : \A y \in S : y <= x
    OBVIOUS
  <2>1. CASE m + 1 \in S
    BY <2>1
  <2>2. CASE m + 1 \notin S
    <3>1. S \in SUBSET (1..m)
      BY <2>2
    <3>2. m # 0
      <4>1. m = 0 => 1..m = {}
        OBVIOUS
      <4> QED
        BY <3>1, <4>1
    <3> QED
      BY <1>2, <3>1, <3>2
  <2> QED
    BY <2>1, <2>2
<1>3. Nat \subseteq U
  <2> HIDE DEF U
  <2> QED
    BY <1>1, <1>2, Walk!NatInSet
<1>4. n # 0
  <2>1. n = 0 => 1..n = {}
    OBVIOUS
  <2> QED
    BY <2>1
<1> QED
  BY <1>3, <1>4

\* order has, of a finite set with a strict total order in which Before[i] is
\* what comes before i, at each place an element with that many before it.
Ordering(order, S, Before) ==
  /\ IsFiniteSet(S)
  /\ Before \in [S -> SUBSET S]
  /\ \A i \in S : i \notin Before[i]
  /\ \A i, j \in S : i \in Before[j] => Before[i] \subseteq Before[j]
  /\ \A i, j \in S : i = j \/ i \in Before[j] \/ j \in Before[i]
  /\ order = [k \in 1..Cardinality(S) |-> order[k]]
  /\ \A k \in 1..Cardinality(S) :
       (\E i \in S : Cardinality(Before[i]) = k - 1)
         => order[k] \in S /\ Cardinality(Before[order[k]]) = k - 1

\* o lists S, every element once.
Enumerating(o, S) ==
  /\ o \in Seq(S)
  /\ \A i \in S : \E k \in 1..Len(o) : o[k] = i
  /\ \A k, m \in 1..Len(o) : o[k] = o[m] => k = m

\* The counts of what comes before are 0 to n - 1, each once: InOrder lists the
\* set, in order.
LEMMA Enumerates ==
  ASSUME NEW order, NEW S, NEW Before, Ordering(order, S, Before)
  PROVE  /\ Enumerating(order, S)
         /\ \A k, m \in 1..Len(order) : k < m <=> order[k] \in Before[order[m]]
<1> USE DEF Ordering
<1> DEFINE n == Cardinality(S)
           rank == [i \in S |-> Cardinality(Before[i])]
<1>1. n \in Nat
  BY FS_CardinalityType
<1>2. ASSUME NEW i \in S, NEW j \in S, i \in Before[j]
      PROVE  Cardinality(Before[i]) < Cardinality(Before[j])
  <2>1. IsFiniteSet(Before[j]) /\ IsFiniteSet(Before[i])
    BY FS_Subset
  <2>2. Before[i] \in SUBSET Before[j] /\ Before[i] # Before[j]
    BY <1>2
  <2>3. /\ Cardinality(Before[i]) <= Cardinality(Before[j])
        /\ Cardinality(Before[j]) # Cardinality(Before[i])
    BY <2>1, <2>2, FS_Subset
  <2> QED
    BY <2>1, <2>3, FS_CardinalityType
<1>3. ASSUME NEW i \in S
      PROVE  Cardinality(Before[i]) \in 0..(n - 1)
  <2>1. IsFiniteSet(Before[i])
    BY FS_Subset
  <2>2. Before[i] \in SUBSET S /\ Before[i] # S
    OBVIOUS
  <2>3. Cardinality(Before[i]) <= n /\ n # Cardinality(Before[i])
    BY <2>1, <2>2, FS_Subset
  <2> QED
    BY <1>1, <2>1, <2>3, FS_CardinalityType
<1>4. rank \in Injection(S, 0..(n - 1))
  <2>1. \A i \in S : Cardinality(Before[i]) \in Int
    BY <1>3
  <2>2. \A i, j \in S : rank[i] = rank[j] => i = j
    BY <1>2, <2>1
  <2> QED
    BY <1>3, <2>2 DEF Injection, IsInjective
<1>5. IsFiniteSet(0..(n - 1)) /\ Cardinality(0..(n - 1)) = n
  <2> HIDE DEF n
  <2>1. 0 \in Int /\ n - 1 \in Int
    BY <1>1
  <2>2. /\ IsFiniteSet(0..(n - 1))
        /\ Cardinality(0..(n - 1)) = IF 0 > n - 1 THEN 0 ELSE (n - 1) - 0 + 1
    BY ONLY <2>1, FS_Interval
  <2> QED
    BY <1>1, <2>2
<1>6. rank \in Surjection(S, 0..(n - 1))
  <2> HIDE DEF rank, n
  <2> QED
    BY <1>4, <1>5, FS_Injection DEF n
<1>7. ASSUME NEW k \in 1..n
      PROVE  \E i \in S : Cardinality(Before[i]) = k - 1
  <2>1. k - 1 \in 0..(n - 1)
    BY <1>1
  <2>2. PICK i \in S : rank[i] = k - 1
    <3> HIDE DEF rank, n
    <3> QED
      BY <1>6, <2>1 DEF Surjection
  <2> QED
    BY <2>2
<1>8. \A k \in 1..n : order[k] \in S /\ Cardinality(Before[order[k]]) = k - 1
  BY <1>7
<1>9. order \in [1..n -> S]
  BY <1>8
<1>10. ASSUME NEW i \in S
       PROVE  \E k \in 1..n : order[k] = i
  <2> DEFINE k == Cardinality(Before[i]) + 1
  <2>1. k \in 1..n /\ k - 1 = Cardinality(Before[i])
    BY <1>1, <1>3
  <2>2. order[k] \in S /\ Cardinality(Before[order[k]]) = Cardinality(Before[i])
    BY <1>8, <2>1
  <2>3. \A j \in S : Cardinality(Before[j]) \in Int
    BY <1>3
  <2>4. order[k] = i
    BY <1>2, <2>2, <2>3
  <2> QED
    BY <2>1, <2>4
<1>11. ASSUME NEW k \in 1..n, NEW m \in 1..n
       PROVE  k < m <=> order[k] \in Before[order[m]]
  <2>1. /\ order[k] \in S /\ Cardinality(Before[order[k]]) = k - 1
        /\ order[m] \in S /\ Cardinality(Before[order[m]]) = m - 1
    BY <1>8
  <2>2. order[k] \in Before[order[m]] => k - 1 < m - 1
    BY <1>2, <2>1
  <2>3. order[m] \in Before[order[k]] => m - 1 < k - 1
    BY <1>2, <2>1
  <2>4. order[k] = order[m] => k - 1 = m - 1
    BY <2>1
  <2>5. \/ order[k] = order[m] \/ order[k] \in Before[order[m]]
        \/ order[m] \in Before[order[k]]
    BY <2>1
  <2>6. k \in Int /\ m \in Int
    BY <1>1
  <2> QED
    BY <2>2, <2>3, <2>4, <2>5, <2>6
<1>12. \A k, m \in 1..n : order[k] = order[m] => k = m
  <2>1. \A k \in 1..n : order[k] \in S /\ k \in Int
    BY <1>1, <1>9
  <2> HIDE DEF n
  <2>2. \A k, m \in 1..n : order[k] = order[m] => ~(k < m) /\ ~(m < k)
    BY <1>11, <2>1
  <2>3. \A k, m \in 1..n : k < m \/ k = m \/ m < k
    BY <2>1
  <2> QED
    BY <2>2, <2>3
<1>13. order \in Seq(S) /\ Len(order) = n
  <2> HIDE DEF n
  <2> QED
    BY ONLY <1>1, <1>9
<1> HIDE DEF n
<1> QED
  BY <1>10, <1>11, <1>12, <1>13 DEF Enumerating

LEMMA GreatestIs ==
  ASSUME NEW T \in SUBSET Nat, NEW x \in T, \A y \in T : x >= y
  PROVE  Max(T) = x
BY Walk!MaxIs DEF Max, Walk!Max

LEMMA MinOfTwo ==
  ASSUME NEW a \in Nat, NEW b \in Nat, a <= b
  PROVE  Min({a, b}) = a /\ Min({b, a}) = a
<1>1. {a, b} = {b, a}
  OBVIOUS
<1>2. \A x \in {a, b} : (\A y \in {a, b} : x <= y) <=> x = a
  OBVIOUS
<1>3. Min({a, b}) = a
  BY <1>2 DEF Min
<1> QED
  BY <1>1, <1>3

\* The numbers to n, in order, and a sequence of which all is kept.
LEMMA NumbersTo ==
  ASSUME NEW n \in Nat
  PROVE  /\ Cardinality(1..n) = n
         /\ \A S \in SUBSET (1..n) : IsFiniteSet(S)
<1>1. 1 \in Int /\ n \in Int
  OBVIOUS
<1>2. IsFiniteSet(1..n) /\ Cardinality(1..n) = IF 1 > n THEN 0 ELSE n - 1 + 1
  BY ONLY <1>1, FS_Interval
<1>3. Cardinality(1..n) = n
  BY <1>2
<1>4. \A S \in SUBSET (1..n) : IsFiniteSet(S)
  BY <1>2, FS_Subset
<1> QED
  BY <1>3, <1>4

LEMMA AllInOrder ==
  ASSUME NEW n \in Nat
  PROVE  InOrder(1..n, <) = [k \in 1..n |-> k]
<1>1. Cardinality(1..n) = n
  BY NumbersTo
<1>2. ASSUME NEW i \in 1..n
      PROVE  Cardinality({j \in 1..n : j < i}) = i - 1
  <2>1. {j \in 1..n : j < i} = 1..(i - 1)
    OBVIOUS
  <2>2. i \in Int /\ i - 1 \in Int /\ 1 \in Int /\ i >= 1
    OBVIOUS
  <2>3. Cardinality(1..(i - 1)) = i - 1
    BY <2>2, FS_Interval
  <2> QED
    BY <2>1, <2>3
<1>3. ASSUME NEW k \in 1..n
      PROVE  (CHOOSE i \in 1..n : Cardinality({j \in 1..n : j < i}) = k - 1) = k
  <2>1. \A i \in 1..n : Cardinality({j \in 1..n : j < i}) = k - 1 <=> i = k
    BY <1>2
  <2> QED
    BY <2>1
<1> QED
  BY <1>1, <1>3 DEF InOrder

LEMMA KeptAll ==
  ASSUME NEW V, NEW s \in Seq(V)
  PROVE  Kept(s, 1..Len(s)) = s
<1>1. PICK n \in Nat : n = Len(s)
  BY LenProperties
<1> DEFINE order == [k \in 1..n |-> k]
<1>2. order \in Seq(Nat) /\ Len(order) = n /\ \A k \in 1..n : order[k] = k
  OBVIOUS
<1>3. s = [k \in 1..n |-> s[k]]
  BY <1>1
<1> HIDE DEF order
<1>4. Pick(s, order) = s
  BY <1>2, <1>3 DEF Pick
<1>5. InOrder(1..n, <) = order
  BY AllInOrder DEF order
<1> QED
  BY <1>1, <1>4, <1>5 DEF Kept

-----------------------------------------------------------------------------
(* The walks that compute paths.                                             *)

IsList(es) ==
  /\ es \in Seq(Range(es))
  /\ \A i \in 1..Len(es) : es[i].name \in Names /\ es[i].depth \in Nat

\* j is the last entry before i that is one level up, a directory, and nothing
\* between them is shallower than i.
IsParent(es, j, i) ==
  /\ j \in 1..(i - 1)
  /\ IsDir(es[j])
  /\ es[j].depth = es[i].depth - 1
  /\ \A m \in (j + 1)..(i - 1) : es[m].depth >= es[i].depth

HasPath(es, paths, i) ==
  \/ es[i].depth = 0 /\ paths[i] = <<es[i].name>>
  \/ \E j \in 1..(i - 1) : IsParent(es, j, i) /\ paths[i] = Append(paths[j], es[i].name)

\* The paths of the entries: an entry's is that of its parent and its name.
PathsOf(es, paths) ==
  /\ paths \in Seq(Seq(Names))
  /\ Len(paths) = Len(es)
  /\ \A i \in 1..Len(es) : HasPath(es, paths, i)

\* The tree index finds that parent, and none for an entry at the root.
LEMMA ParentFound ==
  ASSUME NEW es, IsList(es), NEW i \in 1..Len(es)
  PROVE  /\ es[i].depth = 0 => ParentIn(Shape(es), i) = 0
         /\ \A j : IsParent(es, j, i) => ParentIn(Shape(es), i) = j
<1> DEFINE near == {j \in 1..(i - 1) :
                      /\ IsDir(es[j])
                      /\ es[j].depth = es[i].depth - 1
                      /\ \A k \in j..(i - 1) : es[k].depth >= es[i].depth - 1}
<1>1. DOMAIN es = 1..Len(es) /\ Len(es) \in Nat /\ i \in Nat
  BY DEF IsList
<1>2. \A k \in 1..i : es[k].depth \in Nat
  BY <1>1 DEF IsList
<1>3. ParentIn(Shape(es), i) = IF near = {} THEN 0 ELSE Max(near)
  <2>1. \A k \in 1..i : Shape(es)[k].dir = IsDir(es[k]) /\ Shape(es)[k].depth = es[k].depth
    BY <1>1 DEF Shape
  <2>2. \A j \in 1..(i - 1) : \A k \in j..(i - 1) : k \in 1..i /\ j \in 1..i
    BY <1>1
  <2>3. i \in 1..i
    BY <1>1
  <2>4. near = {j \in 1..(i - 1) :
                  /\ Shape(es)[j].dir
                  /\ Shape(es)[j].depth = Shape(es)[i].depth - 1
                  /\ \A k \in j..(i - 1) : Shape(es)[k].depth >= Shape(es)[i].depth - 1}
    BY <2>1, <2>2, <2>3
  <2> HIDE DEF near
  <2> QED
    BY <2>4 DEF ParentIn
<1>4. ASSUME es[i].depth = 0
      PROVE  near = {}
  BY <1>1, <1>2, <1>4
<1>5. ASSUME NEW j, IsParent(es, j, i)
      PROVE  near # {} /\ Max(near) = j
  <2>1. /\ j \in 1..(i - 1) /\ IsDir(es[j]) /\ es[j].depth = es[i].depth - 1
        /\ \A m \in (j + 1)..(i - 1) : es[m].depth >= es[i].depth
    BY <1>5 DEF IsParent
  <2>2. \A k \in j..(i - 1) : k \in 1..i /\ (k = j \/ k \in (j + 1)..(i - 1))
    BY <1>1, <2>1
  <2>3. \A k \in j..(i - 1) : es[k].depth >= es[i].depth - 1
    <3>1. i \in 1..i /\ es[i].depth \in Nat
      BY <1>1, <1>2
    <3> QED
      BY <1>2, <2>1, <2>2, <3>1
  <2>4. j \in near
    BY <2>1, <2>3
  <2>5. ASSUME NEW k \in near
        PROVE  j >= k
    <3>1. k \in 1..(i - 1) /\ es[k].depth = es[i].depth - 1
      OBVIOUS
    <3>2. es[i].depth \in Nat
      BY <1>1, <1>2
    <3>3. k \notin (j + 1)..(i - 1)
      BY <2>1, <3>1, <3>2
    <3> QED
      BY <1>1, <2>1, <3>1, <3>3
  <2>6. near \in SUBSET Nat
    BY <1>1
  <2> HIDE DEF near
  <2> QED
    BY <2>4, <2>5, <2>6, GreatestIs
<1> QED
  BY <1>3, <1>4, <1>5

\* So there is one sequence of paths.
LEMMA OnePaths ==
  ASSUME NEW es, IsList(es), NEW p, NEW q, NEW n \in Nat, n <= Len(es),
         \A i \in 1..n : HasPath(es, p, i) /\ HasPath(es, q, i)
  PROVE  \A i \in 1..n : p[i] = q[i]
<1> DEFINE S == {k \in Nat : k <= n => \A i \in 1..k : p[i] = q[i]}
<1>1. Len(es) \in Nat
  BY DEF IsList
<1>2. 0 \in S
  OBVIOUS
<1>3. ASSUME NEW k \in Nat, k \in S
      PROVE  k + 1 \in S
  <2> SUFFICES ASSUME k + 1 <= n
               PROVE  p[k + 1] = q[k + 1]
    BY <1>3
  <2>1. \A j \in 1..k : p[j] = q[j]
    BY <1>3
  <2>2. k + 1 \in 1..n /\ k + 1 \in 1..Len(es) /\ (k + 1) - 1 = k
    BY <1>1
  <2>3. HasPath(es, p, k + 1) /\ HasPath(es, q, k + 1)
    BY <2>2
  <2>4. CASE es[k + 1].depth = 0
    <3>1. \A j : ~IsParent(es, j, k + 1)
      <4>1. ASSUME NEW j, IsParent(es, j, k + 1) PROVE FALSE
        <5>1. j \in 1..k /\ es[j].depth = es[k + 1].depth - 1
          BY <2>2, <4>1 DEF IsParent
        <5>2. es[j].depth \in Nat
          BY <1>1, <2>2, <5>1 DEF IsList
        <5> QED
          BY <2>4, <5>1, <5>2
      <4> QED
        BY <4>1
    <3> QED
      BY <2>3, <3>1 DEF HasPath
  <2>5. CASE es[k + 1].depth # 0
    <3>1. PICK i \in 1..k : IsParent(es, i, k + 1) /\ p[k + 1] = Append(p[i], es[k + 1].name)
      BY <2>2, <2>3, <2>5 DEF HasPath
    <3>2. PICK j \in 1..k : IsParent(es, j, k + 1) /\ q[k + 1] = Append(q[j], es[k + 1].name)
      BY <2>2, <2>3, <2>5 DEF HasPath
    <3>3. i = j
      BY <2>2, <3>1, <3>2, ParentFound
    <3> QED
      BY <2>1, <3>1, <3>2, <3>3
  <2> QED
    BY <2>4, <2>5
<1>4. Nat \subseteq S
  <2> HIDE DEF S
  <2> QED
    BY <1>2, <1>3, Walk!NatInSet
<1> QED
  BY <1>4

\* What EntryPaths has after the first k entries of a nested list: their paths,
\* and a stack whose prefixes are the paths of the directories that are still
\* open, each the last of its depth.
IsOpen(es, k, d, j) ==
  /\ j \in 1..k
  /\ IsDir(es[j])
  /\ es[j].depth = d - 1
  /\ \A m \in (j + 1)..k : es[m].depth >= d

Walked(es, acc, k) ==
  /\ acc = [stack |-> acc.stack, paths |-> acc.paths]
  /\ acc.stack \in Seq(Names)
  /\ acc.paths \in Seq(Seq(Names))
  /\ Len(acc.paths) = k
  /\ Len(acc.stack) = IF k = 0 THEN 0 ELSE es[k].depth + (IF IsDir(es[k]) THEN 1 ELSE 0)
  /\ \A i \in 1..k : HasPath(es, acc.paths, i)
  /\ \A d \in 1..Len(acc.stack) :
       \E j \in 1..k : IsOpen(es, k, d, j) /\ SubSeq(acc.stack, 1, d) = acc.paths[j]

\* A nested list never goes deeper than the open directories.
LEMMA DepthIsOpen ==
  ASSUME NEW es, IsList(es), Nested(es), NEW k \in 1..Len(es), NEW acc,
         Walked(es, acc, k - 1)
  PROVE  es[k].depth \in Nat /\ es[k].depth <= Len(acc.stack)
<1>1. Len(es) \in Nat /\ es[k].depth \in Nat /\ Len(acc.stack) \in Nat
  BY DEF IsList, Walked
<1>2. \/ es[k].depth = 0
      \/ k > 1 /\ es[k].depth <= es[k - 1].depth + (IF IsDir(es[k - 1]) THEN 1 ELSE 0)
  BY DEF Nested
<1>3. k > 1 => Len(acc.stack) = es[k - 1].depth + (IF IsDir(es[k - 1]) THEN 1 ELSE 0)
  BY <1>1 DEF Walked
<1> QED
  BY <1>1, <1>2, <1>3

\* One step of EntryPaths.
LEMMA PathStepWalks ==
  ASSUME NEW es, IsList(es), Nested(es), NEW k \in 1..Len(es), NEW acc,
         Walked(es, acc, k - 1)
  PROVE  Walked(es, PathStep(acc, es[k]), k)
<1> DEFINE e == es[k]
           d == e.depth
           up == SubSeq(acc.stack, 1, d)
           path == Append(up, e.name)
           next == PathStep(acc, e)
<1>1. Len(es) \in Nat /\ k \in Nat /\ e.name \in Names /\ d \in Nat
      /\ acc.stack \in Seq(Names) /\ Len(acc.stack) \in Nat /\ d <= Len(acc.stack)
  <2>1. Len(es) \in Nat /\ k \in Nat /\ e.name \in Names
    BY DEF IsList
  <2>2. acc.stack \in Seq(Names) /\ Len(acc.stack) \in Nat
    BY DEF Walked
  <2>3. d \in Nat /\ d <= Len(acc.stack)
    BY DepthIsOpen
  <2> QED
    BY <2>1, <2>2, <2>3
<1>2. Min({Len(acc.stack), d}) = d
  BY <1>1, MinOfTwo
<1>3. next = [stack |-> IF IsDir(e) THEN path ELSE up, paths |-> Append(acc.paths, path)]
  BY <1>2 DEF PathStep
<1>4. up \in Seq(Names) /\ Len(up) = d /\ \A i \in 1..d : up[i] = acc.stack[i]
  BY <1>1
<1> HIDE DEF up
<1>5. path \in Seq(Names) /\ Len(path) = d + 1 /\ path[d + 1] = e.name
      /\ \A i \in 1..d : path[i] = up[i]
  BY <1>1, <1>4
<1> HIDE DEF path
<1> DEFINE stack == IF IsDir(e) THEN path ELSE up
           paths == Append(acc.paths, path)
<1>6. stack \in Seq(Names) /\ Len(stack) = d + (IF IsDir(e) THEN 1 ELSE 0)
  BY <1>4, <1>5
<1>7. /\ paths \in Seq(Seq(Names)) /\ Len(paths) = k /\ paths[k] = path
      /\ \A i \in 1..(k - 1) : paths[i] = acc.paths[i]
  BY <1>1, <1>5 DEF Walked
<1> HIDE DEF paths
<1>8. \A c \in 1..d : SubSeq(stack, 1, c) = SubSeq(acc.stack, 1, c)
  BY <1>1, <1>4, <1>5
<1>9. ASSUME NEW c \in 1..Len(acc.stack)
      PROVE  \E j \in 1..(k - 1) :
               IsOpen(es, k - 1, c, j) /\ SubSeq(acc.stack, 1, c) = acc.paths[j]
  BY DEF Walked
<1>10. \A i \in 1..k : HasPath(es, paths, i)
  <2>1. \A i \in 1..(k - 1) : HasPath(es, acc.paths, i)
    BY DEF Walked
  <2>2. ASSUME NEW i \in 1..(k - 1)
        PROVE  HasPath(es, paths, i)
    <3>1. \A j \in 1..(i - 1) : j \in 1..(k - 1)
      BY <1>1
    <3> QED
      BY <1>7, <2>1, <3>1 DEF HasPath
  <2>3. HasPath(es, paths, k)
    <3>1. CASE d = 0
      <4>1. path = <<e.name>>
        BY <1>4, <1>5, <3>1
      <4> QED
        BY <1>7, <3>1, <4>1 DEF HasPath
    <3>2. CASE d # 0
      <4>1. d \in 1..Len(acc.stack)
        BY <1>1, <3>2
      <4>2. PICK j \in 1..(k - 1) :
              IsOpen(es, k - 1, d, j) /\ SubSeq(acc.stack, 1, d) = acc.paths[j]
        BY <1>9, <4>1
      <4>3. IsParent(es, j, k)
        BY <4>2 DEF IsOpen, IsParent
      <4>4. paths[k] = Append(paths[j], e.name)
        BY <1>7, <4>2 DEF path, up
      <4> QED
        BY <4>3, <4>4 DEF HasPath
    <3> QED
      BY <3>1, <3>2
  <2> QED
    BY <1>1, <2>2, <2>3
<1>11. ASSUME NEW c \in 1..Len(stack)
       PROVE  \E j \in 1..k : IsOpen(es, k, c, j) /\ SubSeq(stack, 1, c) = paths[j]
  <2>1. CASE c <= d
    <3>1. c \in 1..d /\ c \in 1..Len(acc.stack)
      BY <1>1, <1>6, <2>1
    <3>2. PICK j \in 1..(k - 1) :
            IsOpen(es, k - 1, c, j) /\ SubSeq(acc.stack, 1, c) = acc.paths[j]
      BY <1>9, <3>1
    <3>3. IsOpen(es, k, c, j)
      <4>1. \A m \in (j + 1)..k : m = k \/ m \in (j + 1)..(k - 1)
        BY <1>1
      <4> QED
        BY <1>1, <2>1, <3>2, <4>1 DEF IsOpen
    <3>4. SubSeq(stack, 1, c) = paths[j]
      BY <1>7, <1>8, <3>1, <3>2
    <3> QED
      BY <1>1, <3>3, <3>4
  <2>2. CASE ~(c <= d)
    <3>1. c = d + 1 /\ IsDir(e)
      BY <1>1, <1>6, <2>2
    <3>2. SubSeq(stack, 1, c) = path
      BY <1>5, <3>1, SubSeqFull
    <3>3. IsOpen(es, k, c, k)
      BY <1>1, <3>1 DEF IsOpen
    <3> QED
      BY <1>1, <1>7, <3>2, <3>3
  <2> QED
    BY <2>1, <2>2
<1>12. next.stack = stack /\ next.paths = paths
       /\ next = [stack |-> stack, paths |-> paths]
  BY <1>3 DEF paths
<1> HIDE DEF next, stack, d
<1>13. Len(stack) = IF k = 0 THEN 0 ELSE es[k].depth + (IF IsDir(es[k]) THEN 1 ELSE 0)
  BY <1>1, <1>6 DEF d
<1> HIDE DEF e
<1>14. Walked(es, next, k)
  BY <1>6, <1>7, <1>10, <1>11, <1>12, <1>13 DEF Walked
<1> QED
  BY <1>14 DEF next, e

\* On a nested list Validate's step is the same: no level is missing, so its
\* stack has no blank to skip and nothing to pad.
LEMMA ValidateStepSame ==
  ASSUME NEW es, IsList(es), Nested(es), NEW k \in 1..Len(es), NEW acc,
         Walked(es, acc, k - 1)
  PROVE  ValidateStep(acc, es[k]) = PathStep(acc, es[k])
<1> DEFINE d == es[k].depth
           up == SubSeq(acc.stack, 1, d)
<1>1. d \in Nat /\ d <= Len(acc.stack) /\ es[k].name \in Names
  BY DepthIsOpen DEF IsList
<1>2. acc.stack \in Seq(Names) /\ Len(acc.stack) \in Nat
  BY DEF Walked
<1>3. Min({Len(acc.stack), d}) = d
  BY <1>1, <1>2, MinOfTwo
<1>4. up \in Seq(Names) /\ Len(up) = d
  BY <1>1, <1>2
<1> HIDE DEF up
<1>5. Kept(up, {i \in DOMAIN up : up[i] # Blank}) = up
  <2>1. DOMAIN up = 1..Len(up) /\ \A i \in DOMAIN up : up[i] \in Names
    BY <1>4
  <2>2. {i \in DOMAIN up : up[i] # Blank} = 1..Len(up)
    BY <2>1, NamesAssumption DEF Blank
  <2> QED
    BY <1>4, <2>2, KeptAll
<1>6. [i \in 1..(d - Len(up)) |-> Blank] = <<>>
  <2>1. d - Len(up) = 0
    BY <1>1, <1>4
  <2> QED
    BY <2>1
<1>7. (up \o <<>>) \o <<es[k].name>> = Append(up, es[k].name)
  BY <1>1, <1>4, ConcatEmptySeq, AppendIsConcat
<1>8. ValidateStep(acc, es[k]) =
        [stack |-> IF IsDir(es[k]) THEN Append(up, es[k].name) ELSE up,
         paths |-> Append(acc.paths, Append(up, es[k].name))]
  BY <1>3, <1>5, <1>6, <1>7 DEF ValidateStep, up
<1>9. PathStep(acc, es[k]) =
        [stack |-> IF IsDir(es[k]) THEN Append(up, es[k].name) ELSE up,
         paths |-> Append(acc.paths, Append(up, es[k].name))]
  BY <1>3 DEF PathStep, up
<1> QED
  BY <1>8, <1>9

\* A walk over a nested list by either step ends with the paths of all entries.
LEMMA WalkEnds ==
  ASSUME NEW es, IsList(es), Nested(es), NEW a, a[0] = NoPaths,
         \/ \A k \in 1..Len(es) : a[k] = PathStep(a[k - 1], es[k])
         \/ \A k \in 1..Len(es) : a[k] = ValidateStep(a[k - 1], es[k])
  PROVE  PathsOf(es, a[Len(es)].paths)
<1> DEFINE S == {k \in Nat : k <= Len(es) => Walked(es, a[k], k)}
<1>1. Len(es) \in Nat
  BY DEF IsList
<1>2. 0 \in S
  <2>1. <<>> \in Seq(Names) /\ <<>> \in Seq(Seq(Names)) /\ Len(<<>>) = 0
    BY EmptySeq
  <2>2. Walked(es, NoPaths, 0)
    BY <2>1 DEF Walked, NoPaths
  <2> QED
    BY <2>2
<1>3. ASSUME NEW k \in Nat, k \in S
      PROVE  k + 1 \in S
  <2> SUFFICES ASSUME k + 1 <= Len(es)
               PROVE  Walked(es, a[k + 1], k + 1)
    OBVIOUS
  <2>1. k + 1 \in 1..Len(es) /\ (k + 1) - 1 = k /\ Walked(es, a[k], k)
    BY <1>1, <1>3
  <2>2. a[k + 1] = PathStep(a[k], es[k + 1])
    BY <2>1, ValidateStepSame
  <2> QED
    BY <2>1, <2>2, PathStepWalks
<1>4. Nat \subseteq S
  <2> HIDE DEF S
  <2> QED
    BY <1>2, <1>3, Walk!NatInSet
<1>5. Walked(es, a[Len(es)], Len(es))
  BY <1>1, <1>4
<1> QED
  BY <1>5 DEF Walked, PathsOf

LEMMA EntryPathsArePaths ==
  ASSUME NEW es, IsList(es), Nested(es)
  PROVE  PathsOf(es, EntryPaths(es))
<1>1. es \in Seq(Range(es))
  BY DEF IsList
<1>2. PICK a : /\ a[0] = NoPaths
               /\ \A k \in 1..Len(es) : a[k] = PathStep(a[k - 1], es[k])
               /\ Walk!Fold(0, NoPaths, es) = a[Len(es)]
  BY <1>1, Walk!FoldWalk
<1>3. EntryPaths(es) = a[Len(es)].paths
  BY <1>2 DEF EntryPaths, FoldLeft, MapThenFoldSet, Max,
              Walk!Fold, Walk!FoldLeft, Walk!MapThenFoldSet, Walk!Max
<1> QED
  BY <1>2, <1>3, WalkEnds

LEMMA ValidatePathsArePaths ==
  ASSUME NEW es, IsList(es), Nested(es)
  PROVE  PathsOf(es, ValidatePaths(es))
<1>1. es \in Seq(Range(es))
  BY DEF IsList
<1>2. PICK a : /\ a[0] = NoPaths
               /\ \A k \in 1..Len(es) : a[k] = ValidateStep(a[k - 1], es[k])
               /\ ValidateWalk!Fold(0, NoPaths, es) = a[Len(es)]
  BY <1>1, ValidateWalk!FoldWalk
<1>3. ValidatePaths(es) = a[Len(es)].paths
  BY <1>2 DEF ValidatePaths, FoldLeft, MapThenFoldSet, Max,
              ValidateWalk!Fold, ValidateWalk!FoldLeft, ValidateWalk!MapThenFoldSet, ValidateWalk!Max
<1> QED
  BY <1>2, <1>3, WalkEnds

LEMMA PathsUnique ==
  ASSUME NEW es, IsList(es), NEW p, NEW q, PathsOf(es, p), PathsOf(es, q)
  PROVE  p = q
<1>1. Len(es) \in Nat
  BY DEF IsList
<1>2. \A i \in 1..Len(es) : HasPath(es, p, i) /\ HasPath(es, q, i)
  BY DEF PathsOf
<1>3. \A i \in 1..Len(es) : p[i] = q[i]
  BY <1>1, <1>2, OnePaths
<1> QED
  BY <1>3, SeqEqual DEF PathsOf

\* The tree index gives every entry of a nested list that same path.
LEMMA IndexPaths ==
  ASSUME NEW es, IsList(es), Nested(es)
  PROVE  BuildIndex(es).pathOf = EntryPaths(es)
<1> DEFINE s == Shape(es)
           n == Len(es)
           P == EntryPaths(es)
           By(path) == [i \in 1..n |->
                          IF ParentIn(s, i) = 0 THEN <<s[i].name>>
                          ELSE Append(path[ParentIn(s, i)], s[i].name)]
           path == CHOOSE path : path = By(path)
<1>1. es \in Seq(Range(es)) /\ n \in Nat /\ DOMAIN es = 1..n
  BY DEF IsList
<1>2. Len(s) = n /\ \A i \in 1..n : s[i].name = es[i].name
  <2>1. s = [i \in 1..n |-> [name |-> es[i].name, depth |-> es[i].depth, dir |-> IsDir(es[i])]]
    BY <1>1 DEF Shape
  <2> QED
    BY <1>1, <2>1
<1>3. PathsOf(es, P)
  BY EntryPathsArePaths
<1>4. ASSUME NEW i \in 1..n
      PROVE  \/ es[i].depth = 0 /\ ParentIn(s, i) = 0
             \/ \E j \in 1..(i - 1) : IsParent(es, j, i) /\ ParentIn(s, i) = j
  <2>1. HasPath(es, P, i)
    BY <1>3 DEF PathsOf
  <2> QED
    BY <2>1, ParentFound DEF HasPath
<1>5. ASSUME NEW q, q = By(q)
      PROVE  \A i \in 1..n : HasPath(es, q, i)
  <2> SUFFICES ASSUME NEW i \in 1..n PROVE HasPath(es, q, i)
    OBVIOUS
  <2>1. q[i] = IF ParentIn(s, i) = 0 THEN <<es[i].name>>
               ELSE Append(q[ParentIn(s, i)], es[i].name)
    <3>1. By(q)[i] = IF ParentIn(s, i) = 0 THEN <<es[i].name>>
                     ELSE Append(q[ParentIn(s, i)], es[i].name)
      BY <1>2
    <3> QED
      BY <1>5, <3>1
  <2>2. \A j \in 1..(i - 1) : j # 0
    OBVIOUS
  <2> HIDE DEF s, n
  <2> QED
    BY <1>4, <2>1, <2>2 DEF HasPath
<1>6. P = By(P)
  <2>1. P \in Seq(Seq(Names)) /\ Len(P) = n
    BY <1>3 DEF PathsOf
  <2>2. ASSUME NEW i \in 1..n
        PROVE  P[i] = By(P)[i]
    <3>1. HasPath(es, P, i)
      BY <1>3 DEF PathsOf
    <3>2. \A j \in 1..(i - 1) : j # 0
      OBVIOUS
    <3>3. P[i] = IF ParentIn(s, i) = 0 THEN <<es[i].name>>
                 ELSE Append(P[ParentIn(s, i)], es[i].name)
      <4> HIDE DEF s, P
      <4>1. CASE es[i].depth = 0 /\ P[i] = <<es[i].name>>
        BY <4>1, ParentFound DEF s, n
      <4>2. CASE \E j \in 1..(i - 1) : IsParent(es, j, i) /\ P[i] = Append(P[j], es[i].name)
        BY <3>2, <4>2, ParentFound DEF s, n
      <4> QED
        BY <3>1, <4>1, <4>2 DEF HasPath
    <3> QED
      BY <1>2, <3>3
  <2>3. P = [i \in 1..n |-> P[i]]
    <3> HIDE DEF P, n
    <3> QED
      BY <2>1
  <2> HIDE DEF P, s
  <2> QED
    BY <2>2, <2>3
<1>7. path = By(path)
  <2> HIDE DEF By, P
  <2> QED
    BY <1>6
<1>8. \A i \in 1..n : path[i] = P[i]
  <2>1. \A i \in 1..n : HasPath(es, path, i) /\ HasPath(es, P, i)
    <3> HIDE DEF path, By, P
    <3> QED
      BY <1>3, <1>5, <1>7 DEF PathsOf
  <2> HIDE DEF path, P
  <2> QED
    BY <1>1, <2>1, OnePaths
<1>9. BuildIndex(es).pathOf = [i \in 1..n |-> path[i]]
  BY <1>2 DEF BuildIndex, IndexOf
<1>10. P = [i \in 1..n |-> P[i]]
  <2>1. P \in Seq(Seq(Names)) /\ Len(P) = n
    BY <1>3 DEF PathsOf
  <2> HIDE DEF P, n
  <2> QED
    BY <2>1
<1> HIDE DEF path, P
<1> QED
  BY <1>8, <1>9, <1>10 DEF P

-----------------------------------------------------------------------------
(* Paths.                                                                    *)

\* Every path at or above a path is one, and what is above it is above the
\* other.
LEMMA AboveIsPath ==
  ASSUME NEW p, IsPath(p), NEW d \in Above(p)
  PROVE  IsPath(d) /\ Above(d) \subseteq Above(p)
<1>1. PICK k \in 1..Len(p) : d = SubSeq(p, 1, k)
  BY DEF Above
<1>2. p \in Seq(Names) /\ Len(p) \in Nat /\ k \in Nat
  BY DEF IsPath
<1>3. /\ d \in Seq(Names) /\ Len(d) = k
      /\ \A i \in 1..k : d[i] = p[i]
  BY <1>1, <1>2
<1>4. IsPath(d)
  BY <1>1, <1>2, <1>3 DEF IsPath
<1>5. ASSUME NEW j \in 1..Len(d)
      PROVE  SubSeq(d, 1, j) = SubSeq(p, 1, j)
  BY <1>1, <1>2, <1>3
<1> QED
  BY <1>1, <1>2, <1>3, <1>4, <1>5 DEF Above

LEMMA PathSize ==
  ASSUME NEW p, IsPath(p)
  PROVE  p \in Seq(Names) /\ Len(p) \in Nat /\ Len(p) \in 1..Len(p)
<1>1. p \in Seq(Names) /\ Len(p) \in Nat /\ Len(p) # 0
  BY DEF IsPath
<1> QED
  BY <1>1

LEMMA AboveSelf ==
  ASSUME NEW p, IsPath(p)
  PROVE  p \in Above(p)
<1>1. p \in Seq(Names) /\ Len(p) \in 1..Len(p)
  BY PathSize
<1> QED
  BY <1>1, SubSeqFull DEF Above

LEMMA StrictlyAboveStrict ==
  ASSUME NEW p, IsPath(p), NEW d \in StrictlyAbove(p)
  PROVE  IsPath(d) /\ StrictlyAbove(d) \subseteq StrictlyAbove(p)
<1>1. d \in Above(p) /\ d # p
  BY DEF StrictlyAbove
<1>2. IsPath(d) /\ Above(d) \subseteq Above(p)
  BY <1>1, AboveIsPath
<1>3. p \notin Above(d)
  <2>1. PICK k \in 1..Len(p) : d = SubSeq(p, 1, k)
    BY <1>1 DEF Above
  <2>2. p \in Seq(Names) /\ Len(p) \in Nat /\ k \in Nat
    BY DEF IsPath
  <2>3. k # Len(p)
    BY <1>1, <2>1, <2>2
  <2>4. Len(d) = k
    BY <2>1, <2>2
  <2>5. \A j \in 1..Len(d) : Len(SubSeq(d, 1, j)) = j
    BY <2>4, <1>2 DEF IsPath
  <2> QED
    BY <2>2, <2>3, <2>4, <2>5 DEF Above
<1> QED
  BY <1>2, <1>3 DEF StrictlyAbove

\* Of two paths at or above a third, one is at or above the other.
LEMMA AboveIsChain ==
  ASSUME NEW p, IsPath(p), NEW d \in Above(p), NEW t \in Above(p)
  PROVE  t \in Above(d) \/ d \in StrictlyAbove(t)
<1>1. PICK k \in 1..Len(p) : d = SubSeq(p, 1, k)
  BY DEF Above
<1>2. PICK m \in 1..Len(p) : t = SubSeq(p, 1, m)
  BY DEF Above
<1>3. p \in Seq(Names) /\ Len(p) \in Nat
  BY DEF IsPath
<1>4. /\ Len(d) = k /\ Len(t) = m
      /\ \A j \in 1..k : SubSeq(d, 1, j) = SubSeq(p, 1, j)
      /\ \A j \in 1..m : SubSeq(t, 1, j) = SubSeq(p, 1, j)
  BY <1>1, <1>2, <1>3
<1>5. CASE m <= k
  BY <1>2, <1>4, <1>5 DEF Above
<1>6. CASE k < m
  BY <1>1, <1>4, <1>6 DEF Above, StrictlyAbove
<1> QED
  BY <1>3, <1>5, <1>6

\* Above a path outside S there is a first one outside S.
LEMMA FirstOutside ==
  ASSUME NEW p, IsPath(p), NEW S, p \notin S
  PROVE  \E m \in Above(p) : m \notin S /\ StrictlyAbove(m) \subseteq S
<1> DEFINE T == {k \in 1..Len(p) : SubSeq(p, 1, k) \notin S}
<1>1. p \in Seq(Names) /\ Len(p) \in Nat \ {0} /\ T \subseteq Nat
  BY DEF IsPath
<1>2. PICK n \in 1..Len(p) : SubSeq(p, 1, n) = p
  BY <1>1, SubSeqFull
<1>3. n \in T
  BY <1>2
<1>4. PICK x \in T : \A y \in T : ~(<<y, x>> \in OpToRel(<, Nat))
  <2> HIDE DEF T
  <2> QED
    BY <1>1, <1>3, NatLessThanWellFounded, WFMin
<1>5. \A y \in T : ~(y < x)
  BY <1>1, <1>4 DEF OpToRel
<1> DEFINE m == SubSeq(p, 1, x)
<1>6. m \in Above(p) /\ m \notin S
  BY DEF Above
<1>7. Len(m) = x /\ \A j \in 1..x : SubSeq(m, 1, j) = SubSeq(p, 1, j)
  BY <1>1
<1>8. ASSUME NEW d \in StrictlyAbove(m)
      PROVE  d \in S
  <2>1. PICK j \in 1..x : d = SubSeq(p, 1, j)
    BY <1>7 DEF StrictlyAbove, Above
  <2>2. j # x
    BY <2>1 DEF StrictlyAbove
  <2> QED
    BY <1>1, <1>5, <2>1, <2>2
<1> QED
  BY <1>6, <1>8

-----------------------------------------------------------------------------
(* Finite sets of paths.                                                     *)

LEMMA ImageFinite ==
  ASSUME NEW S, IsFiniteSet(S), NEW f, DOMAIN f = S, f = [x \in S |-> f[x]]
  PROVE  IsFiniteSet({f[x] : x \in S})
<1> DEFINE T == {f[x] : x \in S}
<1>1. f \in Surjection(S, T)
  BY DEF Surjection
<1> HIDE DEF T
<1> QED
  BY <1>1, FS_Surjection DEF T

LEMMA AboveFinite ==
  ASSUME NEW p, IsPath(p)
  PROVE  IsFiniteSet(Above(p)) /\ IsFiniteSet(StrictlyAbove(p))
<1> DEFINE f == [k \in 1..Len(p) |-> SubSeq(p, 1, k)]
<1>1. Len(p) \in Nat
  BY DEF IsPath
<1>2. IsFiniteSet(1..Len(p))
  BY <1>1, NumbersTo
<1>3. Above(p) = {f[k] : k \in 1..Len(p)}
  BY DEF Above
<1>4. DOMAIN f = 1..Len(p) /\ f = [k \in 1..Len(p) |-> f[k]]
  OBVIOUS
<1> HIDE DEF f
<1>5. IsFiniteSet(Above(p))
  BY <1>2, <1>3, <1>4, ImageFinite
<1> QED
  BY <1>5, FS_Difference DEF StrictlyAbove

LEMMA DirsFinite ==
  ASSUME NEW D, IsFiniteSet(D), \A p \in D : IsPath(p)
  PROVE  IsFiniteSet(UNION {StrictlyAbove(p) : p \in D})
<1> DEFINE f == [p \in D |-> StrictlyAbove(p)]
           T == {StrictlyAbove(p) : p \in D}
<1>1. DOMAIN f = D /\ f = [p \in D |-> f[p]] /\ T = {f[p] : p \in D}
  OBVIOUS
<1> HIDE DEF f
<1>2. \A S \in T : IsFiniteSet(S)
  BY AboveFinite
<1> HIDE DEF T
<1>3. IsFiniteSet(T)
  BY <1>1, ImageFinite
<1> QED
  BY <1>2, <1>3, FS_UNION DEF T

-----------------------------------------------------------------------------
(* A tree as a list.                                                         *)

\* Whatever has a parent in its list, or needs none, is nested.
LEMMA ParentsNest ==
  ASSUME NEW s, IsList(s),
         \A k \in 1..Len(s) : s[k].depth = 0 \/ \E m : IsParent(s, m, k)
  PROVE  Nested(s)
<1> SUFFICES ASSUME NEW k \in 1..Len(s), s[k].depth # 0
             PROVE  /\ k > 1
                    /\ s[k].depth <= s[k - 1].depth + (IF IsDir(s[k - 1]) THEN 1 ELSE 0)
  BY DEF Nested
<1>1. PICK m : IsParent(s, m, k)
  OBVIOUS
<1>2. Len(s) \in Nat /\ m \in 1..(k - 1) /\ k - 1 \in 1..Len(s)
  BY <1>1 DEF IsParent, IsList
<1>3. s[m].depth \in Nat /\ s[k].depth \in Nat /\ s[k - 1].depth \in Nat
  <2>1. m \in 1..Len(s)
    BY <1>2
  <2> QED
    BY <1>2, <2>1 DEF IsList
<1>4. CASE m = k - 1
  BY <1>1, <1>2, <1>3, <1>4 DEF IsParent
<1>5. CASE m # k - 1
  <2>1. k - 1 \in (m + 1)..(k - 1)
    BY <1>2, <1>5
  <2>2. s[k - 1].depth >= s[k].depth
    BY <1>1, <2>1 DEF IsParent
  <2> QED
    BY <1>2, <1>3, <2>2
<1> QED
  BY <1>4, <1>5

\* PathLess is the order of the paths with zeros after them, element by element.
At(p, k) == IF k \in 1..Len(p) THEN p[k] ELSE 0

ParallelTo(p, q, k) == \A m \in 1..k : At(p, m) = At(q, m)

Lex(p, q) == \E k \in Nat : At(p, k + 1) < At(q, k + 1) /\ ParallelTo(p, q, k)

LEMMA PathElements ==
  ASSUME NEW p, IsPath(p)
  PROVE  /\ p \in Seq(Names) /\ Len(p) \in Nat \ {0}
         /\ \A k \in 1..Len(p) : At(p, k) = p[k] /\ p[k] \in Nat \ {0} /\ p[k] \in Names
         /\ \A k \in Nat : k > Len(p) => At(p, k) = 0
         /\ \A k \in Nat : At(p, k) \in Nat
<1>1. p \in Seq(Names) /\ Len(p) \in Nat \ {0}
  BY DEF IsPath
<1>2. \A k \in 1..Len(p) : p[k] \in Names
  BY <1>1
<1>3. \A k \in 1..Len(p) : p[k] \in Nat \ {0}
  BY <1>2, NamesAssumption
<1> QED
  BY <1>1, <1>2, <1>3 DEF At

LEMMA PathLessIsLex ==
  ASSUME NEW p, NEW q, IsPath(p), IsPath(q)
  PROVE  PathLess(p, q) <=> Lex(p, q)
<1> DEFINE a == Len(p)
           b == Len(q)
           min == Min({a, b})
<1>1. /\ a \in Nat \ {0} /\ b \in Nat \ {0}
      /\ min \in Nat /\ min <= a /\ min <= b /\ (min = a \/ min = b)
  <2>1. a \in Nat \ {0} /\ b \in Nat \ {0}
    BY PathElements
  <2>2. a <= b \/ b <= a
    BY <2>1
  <2> QED
    BY <2>1, <2>2, MinOfTwo
<1>2. PathLess(p, q) <=> \/ p \in StrictlyAbove(q)
                         \/ \E k \in 1..min : p[k] < q[k] /\ \A m \in 1..(k - 1) : p[m] = q[m]
  BY DEF PathLess
<1> HIDE DEF min
<1>3. ASSUME p \in StrictlyAbove(q)
      PROVE  Lex(p, q)
  <2>1. PICK k \in 1..b : p = SubSeq(q, 1, k)
    BY <1>3 DEF StrictlyAbove, Above
  <2>2. q \in Seq(Names)
    BY PathElements
  <2>3. a = k /\ (\A m \in 1..k : p[m] = q[m]) /\ k # b
    <3>1. k = b => p = q
      BY <2>1, <2>2, SubSeqFull
    <3> QED
      BY <1>1, <1>3, <2>1, <2>2, <3>1 DEF StrictlyAbove
  <2>4. At(p, k + 1) = 0 /\ At(q, k + 1) \in Nat \ {0}
    <3>1. k + 1 \in Nat /\ k + 1 > a /\ k + 1 \in 1..b
      BY <1>1, <2>1, <2>3
    <3> QED
      BY <3>1, PathElements
  <2>5. ParallelTo(p, q, k)
    <3>1. \A m \in 1..k : m \in 1..a /\ m \in 1..b
      BY <1>1, <2>1, <2>3
    <3> QED
      BY <2>3, <3>1 DEF ParallelTo, At
  <2>6. k \in Nat /\ At(p, k + 1) < At(q, k + 1)
    BY <1>1, <2>4
  <2> QED
    BY <2>5, <2>6 DEF Lex
<1>4. ASSUME NEW k \in 1..min, p[k] < q[k], \A m \in 1..(k - 1) : p[m] = q[m]
      PROVE  Lex(p, q)
  <2> DEFINE j == k - 1
  <2>1. j \in Nat /\ j + 1 = k /\ k \in 1..a /\ k \in 1..b
    BY <1>1
  <2>2. At(p, j + 1) < At(q, j + 1)
    BY <1>4, <2>1 DEF At
  <2>3. \A m \in 1..j : m \in 1..a /\ m \in 1..b
    BY <1>1, <2>1
  <2>4. ParallelTo(p, q, j)
    BY <1>4, <2>3 DEF ParallelTo, At
  <2> HIDE DEF j
  <2> QED
    BY <2>1, <2>2, <2>4 DEF Lex
<1>5. ASSUME Lex(p, q)
      PROVE  \/ p \in StrictlyAbove(q)
             \/ \E k \in 1..min : p[k] < q[k] /\ \A m \in 1..(k - 1) : p[m] = q[m]
  <2>1. PICK j \in Nat : At(p, j + 1) < At(q, j + 1) /\ ParallelTo(p, q, j)
    BY <1>5 DEF Lex
  <2> DEFINE k == j + 1
  <2>2. k \in Nat /\ k >= 1 /\ k - 1 = j /\ \A m \in 1..j : At(p, m) = At(q, m)
    BY <2>1 DEF ParallelTo
  <2>3. k \in 1..b
    <3>1. At(p, k) \in Nat /\ At(q, k) \in Nat /\ (k > b => At(q, k) = 0)
      BY <2>2, PathElements
    <3> QED
      BY <1>1, <2>1, <2>2, <3>1
  <2>4. CASE k <= a
    <3>1. k \in 1..a /\ k \in 1..min
      BY <1>1, <2>2, <2>3, <2>4
    <3>2. p[k] < q[k]
      BY <2>1, <2>3, <3>1 DEF At
    <3>3. \A m \in 1..(k - 1) : m \in 1..a /\ m \in 1..b /\ m \in 1..j
      BY <1>1, <2>2, <2>3, <2>4
    <3>4. \A m \in 1..(k - 1) : p[m] = q[m]
      BY <2>2, <3>3 DEF At
    <3> QED
      BY <3>1, <3>2, <3>4
  <2>5. CASE k > a
    <3>1. k = a + 1
      <4> SUFFICES ASSUME k # a + 1 PROVE FALSE
        OBVIOUS
      <4>1. a + 1 \in 1..j /\ a + 1 \in Nat /\ a + 1 > a /\ a + 1 \in 1..b
        BY <1>1, <2>2, <2>3, <2>5
      <4>2. At(p, a + 1) = 0 /\ At(q, a + 1) # 0
        BY <4>1, PathElements
      <4> QED
        BY <2>2, <4>1, <4>2
    <3>2. \A m \in 1..a : m \in 1..b /\ m \in 1..j
      BY <1>1, <2>2, <2>3, <3>1
    <3>3. \A m \in 1..a : p[m] = q[m]
      BY <2>2, <3>2 DEF At
    <3>4. a \in 1..b /\ a # b
      BY <1>1, <2>2, <2>3, <3>1
    <3>5. p = SubSeq(q, 1, a)
      <4>1. p \in Seq(Names) /\ q \in Seq(Names)
        BY PathElements
      <4>2. SubSeq(q, 1, a) \in Seq(Names) /\ Len(SubSeq(q, 1, a)) = a
            /\ \A m \in 1..a : SubSeq(q, 1, a)[m] = q[m]
        BY <1>1, <3>4, <4>1
      <4> QED
        BY <3>3, <4>1, <4>2, SeqEqual
    <3>6. p # q
      BY <3>4
    <3> QED
      BY <3>4, <3>5, <3>6 DEF StrictlyAbove, Above
  <2> QED
    BY <1>1, <2>2, <2>4, <2>5
<1> QED
  BY <1>2, <1>3, <1>4, <1>5

\* It is a strict total order.
LEMMA LexOrder ==
  ASSUME NEW p, NEW q, NEW r, IsPath(p), IsPath(q), IsPath(r)
  PROVE  /\ ~Lex(p, p)
         /\ Lex(p, q) /\ Lex(q, r) => Lex(p, r)
         /\ p = q \/ Lex(p, q) \/ Lex(q, p)
<1>1. \A k \in Nat : At(p, k) \in Nat /\ At(q, k) \in Nat /\ At(r, k) \in Nat
  BY PathElements
<1>2. ~Lex(p, p)
  <2>1. \A k \in Nat : ~(At(p, k + 1) < At(p, k + 1))
    BY <1>1
  <2> QED
    BY <2>1 DEF Lex
<1>3. ASSUME Lex(p, q), Lex(q, r)
      PROVE  Lex(p, r)
  <2>1. PICK i \in Nat : At(p, i + 1) < At(q, i + 1) /\ ParallelTo(p, q, i)
    BY <1>3 DEF Lex
  <2>2. PICK j \in Nat : At(q, j + 1) < At(r, j + 1) /\ ParallelTo(q, r, j)
    BY <1>3 DEF Lex
  <2>3. /\ i + 1 \in Nat /\ j + 1 \in Nat
        /\ At(p, i + 1) \in Nat /\ At(q, i + 1) \in Nat /\ At(r, i + 1) \in Nat
        /\ At(p, j + 1) \in Nat /\ At(q, j + 1) \in Nat /\ At(r, j + 1) \in Nat
    BY <1>1
  <2>4. CASE i < j
    <3>1. i + 1 \in 1..j /\ \A m \in 1..i : m \in 1..j
      BY <2>4
    <3>2. At(p, i + 1) < At(r, i + 1) /\ ParallelTo(p, r, i)
      BY <2>1, <2>2, <3>1 DEF ParallelTo
    <3> QED
      BY <3>2 DEF Lex
  <2>5. CASE i = j
    <3>1. At(p, i + 1) < At(r, i + 1)
      BY <2>1, <2>2, <2>3, <2>5
    <3>2. ParallelTo(p, r, i)
      BY <2>1, <2>2, <2>5 DEF ParallelTo
    <3> QED
      BY <3>1, <3>2 DEF Lex
  <2>6. CASE j < i
    <3>1. j + 1 \in 1..i /\ \A m \in 1..j : m \in 1..i
      BY <2>6
    <3>2. At(p, j + 1) < At(r, j + 1) /\ ParallelTo(p, r, j)
      BY <2>1, <2>2, <3>1 DEF ParallelTo
    <3> QED
      BY <3>2 DEF Lex
  <2> QED
    BY <2>4, <2>5, <2>6
<1>4. ASSUME ~Lex(p, q), ~Lex(q, p)
      PROVE  p = q
  <2> DEFINE T == {k \in Nat : ParallelTo(p, q, k)}
  <2>1. 0 \in T
    BY DEF ParallelTo
  <2>2. ASSUME NEW k \in Nat, k \in T
        PROVE  k + 1 \in T
    <3>1. ParallelTo(p, q, k) /\ ParallelTo(q, p, k)
      BY <2>2 DEF ParallelTo
    <3>2. ~(At(p, k + 1) < At(q, k + 1)) /\ ~(At(q, k + 1) < At(p, k + 1))
      BY <1>4, <3>1 DEF Lex
    <3>3. At(p, k + 1) \in Nat /\ At(q, k + 1) \in Nat
      BY <1>1
    <3>4. At(p, k + 1) = At(q, k + 1)
      BY <3>2, <3>3
    <3>5. \A m \in 1..(k + 1) : m = k + 1 \/ m \in 1..k
      OBVIOUS
    <3>6. ParallelTo(p, q, k + 1)
      BY <3>1, <3>4, <3>5 DEF ParallelTo
    <3> QED
      BY <3>6
  <2>3. Nat \subseteq T
    <3> HIDE DEF T
    <3> QED
      BY <2>1, <2>2, Walk!NatInSet
  <2>4. \A k \in Nat \ {0} : At(p, k) = At(q, k)
    <3> SUFFICES ASSUME NEW k \in Nat \ {0} PROVE At(p, k) = At(q, k)
      OBVIOUS
    <3>1. k \in T /\ k \in 1..k
      BY <2>3
    <3> QED
      BY <3>1 DEF ParallelTo
  <2>5. /\ p \in Seq(Names) /\ Len(p) \in Nat \ {0}
        /\ q \in Seq(Names) /\ Len(q) \in Nat \ {0}
        /\ \A k \in 1..Len(p) : At(p, k) = p[k] /\ At(p, k) # 0
        /\ \A k \in 1..Len(q) : At(q, k) = q[k] /\ At(q, k) # 0
        /\ \A k \in Nat : k > Len(p) => At(p, k) = 0
        /\ \A k \in Nat : k > Len(q) => At(q, k) = 0
    <3>1. p \in Seq(Names) /\ Len(p) \in Nat \ {0} /\ q \in Seq(Names) /\ Len(q) \in Nat \ {0}
      BY PathElements
    <3>2. \A k \in 1..Len(p) : At(p, k) = p[k] /\ p[k] \in Nat \ {0}
      BY PathElements
    <3>3. \A k \in 1..Len(q) : At(q, k) = q[k] /\ q[k] \in Nat \ {0}
      BY PathElements
    <3>4. (\A k \in Nat : k > Len(p) => At(p, k) = 0) /\ (\A k \in Nat : k > Len(q) => At(q, k) = 0)
      BY PathElements
    <3> QED
      BY <3>1, <3>2, <3>3, <3>4
  <2>6. Len(p) = Len(q)
    <3>1. ~(Len(p) < Len(q))
      <4> SUFFICES ASSUME Len(p) < Len(q) PROVE FALSE
        OBVIOUS
      <4>1. Len(q) \in 1..Len(q)
        BY <2>5
      <4> QED
        BY <2>4, <2>5, <4>1
    <3>2. ~(Len(q) < Len(p))
      <4> SUFFICES ASSUME Len(q) < Len(p) PROVE FALSE
        OBVIOUS
      <4>1. Len(p) \in 1..Len(p)
        BY <2>5
      <4> QED
        BY <2>4, <2>5, <4>1
    <3> QED
      BY <2>5, <3>1, <3>2
  <2>7. \A k \in 1..Len(p) : p[k] = q[k]
    BY <2>4, <2>5, <2>6
  <2> QED
    BY <2>5, <2>6, <2>7, SeqEqual
<1> QED
  BY <1>2, <1>3, <1>4

\* All paths between a directory and a path in it are longer than the
\* directory's.
LEMMA BetweenIsBelow ==
  ASSUME NEW p, NEW q, NEW r, IsPath(p), IsPath(q), IsPath(r),
         Lex(q, r), Lex(r, p), q = SubSeq(p, 1, Len(p) - 1)
  PROVE  Len(r) >= Len(p)
<1> DEFINE n == Len(p) - 1
<1>1. /\ p \in Seq(Names) /\ Len(p) \in Nat \ {0} /\ Len(q) \in Nat /\ Len(r) \in Nat
      /\ n \in Nat /\ n + 1 = Len(p)
  BY PathElements
<1>2. Len(q) = n /\ \A k \in 1..n : At(q, k) = At(p, k)
  <2>1. Len(q) = n /\ \A k \in 1..n : q[k] = p[k]
    BY <1>1
  <2>2. \A k \in 1..n : k \in 1..Len(p) /\ k \in 1..Len(q)
    BY <1>1, <2>1
  <2> QED
    BY <2>1, <2>2 DEF At
<1>3. PICK k \in Nat : At(q, k + 1) < At(r, k + 1) /\ ParallelTo(q, r, k)
  BY DEF Lex
<1> HIDE DEF n
<1>4. ~(k + 1 <= n)
  <2> SUFFICES ASSUME k + 1 <= n PROVE FALSE
    OBVIOUS
  <2>1. k + 1 \in 1..n /\ \A m \in 1..k : m \in 1..n
    BY <1>1
  <2>2. At(p, k + 1) < At(r, k + 1) /\ ParallelTo(p, r, k)
    BY <1>2, <1>3, <2>1 DEF ParallelTo
  <2>3. Lex(p, r)
    BY <2>2 DEF Lex
  <2>4. Lex(p, p)
    BY <2>3, LexOrder
  <2> QED
    BY <2>4, LexOrder
<1>5. ~(k + 1 > Len(r))
  <2>1. k + 1 > Len(r) => At(r, k + 1) = 0
    BY PathElements
  <2>2. At(q, k + 1) \in Nat
    <3>1. k + 1 \in Nat
      OBVIOUS
    <3> HIDE DEF n
    <3> QED
      BY <3>1, PathElements
  <2> QED
    BY <1>3, <2>1, <2>2
<1> QED
  BY <1>1, <1>4, <1>5

\* The paths of a tree, in order.
PathsInOrder(t) == InOrder(DOMAIN t, PathLess)

LEMMA PathsEnumerated ==
  ASSUME NEW t, WellFormed(t)
  PROVE  /\ Enumerating(PathsInOrder(t), DOMAIN t)
         /\ \A k, m \in 1..Len(PathsInOrder(t)) :
              k < m <=> Lex(PathsInOrder(t)[k], PathsInOrder(t)[m])
<1> DEFINE D == DOMAIN t
           order == PathsInOrder(t)
           Pos(k) == CHOOSE p \in D : Cardinality({q \in D : PathLess(q, p)}) = k - 1
           Before == [p \in D |-> {q \in D : PathLess(q, p)}]
<1>1. IsFiniteSet(D) /\ \A p \in D : IsPath(p)
  BY DEF WellFormed
<1>2. order = [k \in 1..Cardinality(D) |-> Pos(k)]
  BY DEF InOrder, PathsInOrder
<1>3. /\ Before \in [D -> SUBSET D]
      /\ \A p, q \in D : q \in Before[p] <=> PathLess(q, p)
      /\ \A p \in D : Before[p] = {q \in D : PathLess(q, p)}
  OBVIOUS
<1> HIDE DEF order, Before
<1>4. ASSUME NEW k \in 1..Cardinality(D), NEW p \in D, Cardinality(Before[p]) = k - 1
      PROVE  order[k] \in D /\ Cardinality(Before[order[k]]) = k - 1
  <2>1. Cardinality({q \in D : PathLess(q, p)}) = k - 1
    BY <1>3, <1>4
  <2>2. Pos(k) \in D /\ Cardinality({q \in D : PathLess(q, Pos(k))}) = k - 1
    BY <2>1
  <2> HIDE DEF Pos
  <2> QED
    BY <1>2, <1>3, <2>2
<1> HIDE DEF Pos, D
<1>5. order = [k \in 1..Cardinality(D) |-> order[k]]
  BY <1>2
<1>6. \A p, q \in D : q \in Before[p] <=> Lex(q, p)
  BY <1>1, <1>3, PathLessIsLex
<1>7. \A p \in D : p \notin Before[p]
  BY <1>1, <1>6, LexOrder
<1>8. \A p, q \in D : p = q \/ p \in Before[q] \/ q \in Before[p]
  BY <1>1, <1>6, LexOrder
<1>9. ASSUME NEW p \in D, NEW q \in D, p \in Before[q]
      PROVE  Before[p] \subseteq Before[q]
  <2> SUFFICES ASSUME NEW r \in Before[p] PROVE r \in Before[q]
    OBVIOUS
  <2>1. r \in D
    BY <1>3
  <2>2. Lex(r, p) /\ Lex(p, q)
    BY <1>6, <1>9, <2>1
  <2>3. Lex(r, q)
    BY <1>1, <2>1, <2>2, LexOrder
  <2> QED
    BY <1>6, <2>1, <2>3
<1>10. Ordering(order, D, Before)
  BY <1>1, <1>3, <1>4, <1>5, <1>7, <1>8, <1>9 DEF Ordering
<1>11. /\ Enumerating(order, D)
       /\ \A k, m \in 1..Len(order) : k < m <=> order[k] \in Before[order[m]]
  BY <1>10, Enumerates
<1>12. \A k \in 1..Len(order) : order[k] \in D
  BY <1>11 DEF Enumerating
<1> QED
  BY <1>6, <1>11, <1>12 DEF order, D

\* The last name of a path.
LEMMA LastOfPath ==
  ASSUME NEW p, IsPath(p)
  PROVE  Last(p) = p[Len(p)] /\ Last(p) \in Names
<1>1. Last(p) = p[Len(p)]
  BY DEF Last
<1>2. Len(p) \in 1..Len(p) /\ p[Len(p)] \in Names
  BY PathElements
<1> QED
  BY <1>1, <1>2

LEMMA RootPath ==
  ASSUME NEW p, IsPath(p), Len(p) = 1
  PROVE  p = <<Last(p)>>
<1> DEFINE w == Last(p)
<1>1. w = p[1] /\ w \in Names
  BY LastOfPath
<1>2. p \in Seq(Names)
  BY DEF IsPath
<1> HIDE DEF w
<1>3. <<w>> \in Seq(Names) /\ Len(<<w>>) = 1 /\ <<w>>[1] = w
  BY <1>1
<1>4. p = <<w>>
  BY <1>1, <1>2, <1>3
<1> QED
  BY <1>4 DEF w

\* Any other path is that of a directory and a name.
LEMMA PathAndName ==
  ASSUME NEW p, IsPath(p), Len(p) # 1
  PROVE  LET q == SubSeq(p, 1, Len(p) - 1)
         IN /\ IsPath(q)
            /\ q \in StrictlyAbove(p)
            /\ Len(q) = Len(p) - 1
            /\ Last(q) \in DirNames
            /\ p = Append(q, Last(p))
<1> DEFINE n == Len(p)
           q == SubSeq(p, 1, n - 1)
           w == Last(p)
<1>1. w = p[n] /\ w \in Names
  BY LastOfPath
<1>2. p \in Seq(Names) /\ n \in Nat /\ n - 1 \in 1..n /\ n - 1 # n /\ 1..(n - 1) \subseteq 1..n
  <2>1. p \in Seq(Names) /\ n \in Nat \ {0} /\ n # 1
    BY PathElements
  <2> HIDE DEF n
  <2> QED
    BY <2>1
<1> HIDE DEF n, w
<1>3. /\ q \in Seq(Names) /\ Len(q) = n - 1
      /\ \A i \in 1..(n - 1) : q[i] = p[i]
  BY <1>2 DEF n
<1>4. IsPath(q) /\ q \in StrictlyAbove(p)
  <2>1. q \in Above(p)
    BY <1>2 DEF Above, n
  <2>2. q # p
    BY <1>2, <1>3 DEF n
  <2> HIDE DEF q
  <2>3. q \in StrictlyAbove(p)
    BY <2>1, <2>2 DEF StrictlyAbove
  <2> QED
    BY <2>1, <2>3, AboveIsPath
<1> HIDE DEF q
<1>5. Last(q) \in DirNames
  <2>1. Last(q) = p[n - 1]
    BY <1>2, <1>3 DEF Last
  <2>2. p[n - 1] \in DirNames
    BY <1>2 DEF IsPath, n
  <2> QED
    BY <2>1, <2>2
<1>6. p = Append(q, w)
  <2>1. /\ Append(q, w) \in Seq(Names) /\ Len(Append(q, w)) = n
        /\ \A i \in 1..(n - 1) : Append(q, w)[i] = q[i]
        /\ Append(q, w)[n] = w
    BY <1>1, <1>2, <1>3
  <2> DEFINE r == Append(q, w)
  <2> HIDE DEF r
  <2>2. \A i \in 1..n : r[i] = p[i]
    BY <1>1, <1>2, <1>3, <2>1 DEF r
  <2>3. r \in Seq(Names) /\ Len(r) = Len(p)
    BY <2>1 DEF r, n
  <2>4. r = p
    BY <1>2, <2>2, <2>3 DEF n
  <2> QED
    BY <2>4 DEF r
<1> QED
  BY <1>3, <1>4, <1>5, <1>6 DEF n, q, w

\* The list of a tree is clean, and reading it gives the tree again.
LEMMA ListingIsClean ==
  ASSUME NEW t, WellFormed(t)
  PROVE  LET order == PathsInOrder(t)
         IN /\ IsList(Listing(t))
            /\ Clean(Listing(t))
            /\ Len(Listing(t)) = Len(order)
            /\ EntryPaths(Listing(t)) = order
            /\ \A k \in 1..Len(order) : Listing(t)[k] = t[order[k]]
<1> DEFINE o == PathsInOrder(t)
           s == Listing(t)
           n == Len(o)
<1>1. /\ Enumerating(o, DOMAIN t)
      /\ \A k, m \in 1..n : k < m <=> Lex(o[k], o[m])
  BY PathsEnumerated
<1>2. s = [k \in 1..n |-> EntryAtDepth(t[o[k]], Len(o[k]) - 1)]
  BY DEF Listing, PathsInOrder
<1> HIDE DEF o
<1>3. /\ o \in Seq(DOMAIN t) /\ n \in Nat
      /\ \A k \in 1..n : o[k] \in DOMAIN t
      /\ \A p \in DOMAIN t : \E k \in 1..n : o[k] = p
      /\ \A k, m \in 1..n : o[k] = o[m] => k = m
  BY <1>1 DEF Enumerating
<1>4. \A k \in 1..n : /\ IsPath(o[k]) /\ StrictlyAbove(o[k]) \subseteq DOMAIN t
                      /\ IsEntry(t[o[k]])
                      /\ t[o[k]].name = Last(o[k]) /\ t[o[k]].depth = Len(o[k]) - 1
  BY <1>3 DEF WellFormed
<1>5. ASSUME NEW e, IsEntry(e)
      PROVE  EntryAtDepth(e, e.depth) = e
  <2>1. e = [f \in DOMAIN e |-> e[f]]
    BY <1>5 DEF IsEntry
  <2> QED
    BY <2>1 DEF EntryAtDepth
<1>6. \A k \in 1..n : s[k] = t[o[k]]
  BY <1>2, <1>4, <1>5
<1> HIDE DEF s
<1>7. s = [k \in 1..n |-> s[k]]
  BY <1>2
<1>8. \A k \in 1..n : s[k].name \in Names /\ s[k].depth \in Nat
  BY <1>4, <1>6 DEF IsEntry
<1>9. IsList(s) /\ Len(s) = n
  <2>1. \A k \in 1..n : s[k] \in Range(s)
    BY <1>7 DEF Range
  <2>2. s \in Seq(Range(s)) /\ Len(s) = n
    BY <1>3, <1>7, <2>1
  <2> QED
    BY <1>8, <2>2 DEF IsList
<1>10. ASSUME NEW k \in 1..n
       PROVE  HasPath(s, o, k) /\ (s[k].depth = 0 \/ \E m : IsParent(s, m, k))
  <2> DEFINE p == o[k]
             l == Len(p)
             w == Last(p)
             q == SubSeq(p, 1, l - 1)
  <2>1. IsPath(p) /\ StrictlyAbove(p) \subseteq DOMAIN t
        /\ s[k].name = w /\ s[k].depth = l - 1
    BY <1>4, <1>6
  <2>2. l \in Nat \ {0}
    BY <2>1, PathElements
  <2>3. l = 1 => p = <<w>>
    BY <2>1, RootPath
  <2>4. l # 1 => /\ IsPath(q) /\ q \in StrictlyAbove(p) /\ Len(q) = l - 1
                 /\ Last(q) \in DirNames /\ p = Append(q, w)
    BY <2>1, PathAndName
  <2>5. \A r \in 1..n : Lex(o[r], p) => r < k
    BY <1>1
  <2>6. \A r \in 1..n : r < k => Lex(o[r], p)
    BY <1>1
  <2>7. o[k] = p /\ Len(p) = l
    OBVIOUS
  <2> HIDE DEF p, l, w, q
  <2>8. CASE l = 1
    <3>1. s[k].depth = 0
      BY <2>1, <2>8
    <3>2. o[k] = <<s[k].name>>
      BY <2>1, <2>3, <2>7, <2>8
    <3> QED
      BY <3>1, <3>2 DEF HasPath
  <2>9. CASE l # 1
    <3>1. PICK m \in 1..n : o[m] = q
      BY <1>3, <2>1, <2>4, <2>9
    <3>2. Lex(q, p) /\ m < k
      <4>1. PathLess(q, p)
        BY <2>4, <2>9 DEF PathLess
      <4>2. Lex(q, p)
        BY <2>1, <2>4, <2>9, <4>1, PathLessIsLex
      <4> QED
        BY <2>5, <3>1, <4>2
    <3>3. m \in 1..(k - 1)
      BY <1>3, <3>2
    <3>4. s[m].name = Last(q) /\ s[m].depth = Len(q) - 1
      BY <1>4, <1>6, <3>1
    <3>5. IsDir(s[m])
      BY <2>4, <2>9, <3>4 DEF IsDir
    <3>6. ASSUME NEW r \in (m + 1)..(k - 1)
          PROVE  s[r].depth >= s[k].depth
      <4>1. r \in 1..n /\ m < r /\ r < k
        <5>1. n \in Nat
          BY <1>3
        <5> HIDE DEF n
        <5> QED
          BY <3>3, <5>1
      <4>2. IsPath(o[r]) /\ s[r].depth = Len(o[r]) - 1
        BY <1>4, <1>6, <4>1
      <4>3. Lex(q, o[r]) /\ Lex(o[r], p)
        BY <1>1, <2>6, <3>1, <4>1
      <4>4. Len(o[r]) >= l
        BY <2>1, <2>4, <2>7, <2>9, <4>2, <4>3, BetweenIsBelow DEF q
      <4>5. Len(o[r]) \in Nat
        BY <4>2 DEF IsPath
      <4> QED
        BY <2>1, <2>2, <4>2, <4>4, <4>5
    <3>7. s[m].depth = s[k].depth - 1
      BY <2>1, <2>2, <2>4, <2>9, <3>4
    <3>8. IsParent(s, m, k)
      BY <3>3, <3>5, <3>6, <3>7 DEF IsParent
    <3>9. o[k] = Append(o[m], s[k].name)
      BY <2>1, <2>4, <2>7, <2>9, <3>1
    <3> QED
      BY <3>3, <3>8, <3>9 DEF HasPath
  <2> QED
    BY <2>8, <2>9
<1>11. o \in Seq(Seq(Names))
  <2>1. \A k \in 1..n : o[k] \in Seq(Names)
    BY <1>4 DEF IsPath
  <2>2. o = [k \in 1..n |-> o[k]] /\ n \in Nat
    BY <1>3
  <2> HIDE DEF n
  <2> QED
    BY <2>1, <2>2
<1>12. PathsOf(s, o)
  BY <1>9, <1>10, <1>11 DEF PathsOf
<1>13. Nested(s)
  BY <1>9, <1>10, ParentsNest
<1>14. EntryPaths(s) = o /\ ValidatePaths(s) = o
  BY <1>9, <1>12, <1>13, EntryPathsArePaths, ValidatePathsArePaths, PathsUnique
<1>15. IsInjective(o)
  <2>1. DOMAIN o = 1..n
    BY <1>3
  <2> QED
    BY <1>3, <2>1 DEF IsInjective
<1>16. Clean(s)
  BY <1>13, <1>14, <1>15 DEF Clean, Validate
<1> QED
  BY <1>6, <1>9, <1>14, <1>16 DEF s, o
-----------------------------------------------------------------------------
(* A clean list as a tree.                                                   *)

LEMMA AboveOne ==
  ASSUME NEW x \in Names
  PROVE  Above(<<x>>) = {<<x>>}
<1>1. <<x>> \in Seq(Names) /\ Len(<<x>>) = 1 /\ <<x>>[1] = x
  OBVIOUS
<1>2. SubSeq(<<x>>, 1, 1) = <<x>>
  BY <1>1, SubSeqFull
<1>3. 1..Len(<<x>>) = {1}
  BY <1>1
<1> QED
  BY <1>2, <1>3 DEF Above

LEMMA AboveAppend ==
  ASSUME NEW p \in Seq(Names), NEW x \in Names
  PROVE  Above(Append(p, x)) = Above(p) \cup {Append(p, x)}
<1> DEFINE q == Append(p, x)
           n == Len(p)
<1>1. /\ q \in Seq(Names) /\ n \in Nat /\ Len(q) = n + 1
      /\ \A k \in 1..n : q[k] = p[k]
  BY AppendProperties
<1>2. SubSeq(q, 1, n + 1) = q
  BY <1>1, SubSeqFull
<1> HIDE DEF q
<1>3. ASSUME NEW k \in 1..n
      PROVE  SubSeq(q, 1, k) = SubSeq(p, 1, k)
  BY <1>1
<1>4. 1..Len(q) = 1..n \cup {n + 1}
  BY <1>1
<1>5. Above(q) = {SubSeq(q, 1, k) : k \in 1..n} \cup {SubSeq(q, 1, n + 1)}
  BY <1>4 DEF Above
<1>6. {SubSeq(q, 1, k) : k \in 1..n} = Above(p)
  BY <1>3 DEF Above
<1> QED
  BY <1>2, <1>5, <1>6 DEF q

\* Every directory above an entry comes before it in the list.
LEMMA AncestorFirst ==
  ASSUME NEW es, IsList(es), NEW P, PathsOf(es, P), NEW i \in 1..Len(es),
         NEW q \in StrictlyAbove(P[i])
  PROVE  \E j \in 1..(i - 1) : P[j] = q /\ IsDir(es[j])
<1> DEFINE n == Len(es)
           Fine(k) == \A a \in StrictlyAbove(P[k]) :
                        \E j \in 1..(k - 1) : P[j] = a /\ IsDir(es[j])
           S == {k \in Nat : \A m \in 1..k : m <= n => Fine(m)}
<1>1. n \in Nat
  BY DEF IsList
<1>a. \A k \in 1..n : P[k] \in Seq(Names) /\ HasPath(es, P, k)
  BY <1>1 DEF PathsOf
<1>b. \A k \in 1..n : es[k].name \in Names
  BY DEF IsList
<1>2. 0 \in S
  OBVIOUS
<1>3. ASSUME NEW k \in Nat, k \in S
      PROVE  k + 1 \in S
  <2>1. ASSUME k + 1 <= n
        PROVE  Fine(k + 1)
    <3> DEFINE m == k + 1
    <3>1. m \in 1..n
      BY <1>1, <2>1
    <3> HIDE DEF m
    <3>2. CASE P[m] = <<es[m].name>>
      BY <1>b, <3>1, <3>2, AboveOne DEF StrictlyAbove, m
    <3>3. ASSUME NEW j \in 1..(m - 1), IsParent(es, j, m), P[m] = Append(P[j], es[m].name)
          PROVE  Fine(m)
      <4>1. j \in 1..n /\ j \in 1..k /\ j <= n /\ 1..(j - 1) \subseteq 1..(m - 1)
        BY <1>1, <3>1, <3>3 DEF m
      <4>2. IsDir(es[j])
        BY <3>3 DEF IsParent
      <4>3. P[j] \in Seq(Names) /\ es[m].name \in Names
        BY <1>a, <1>b, <3>1, <4>1
      <4>4. StrictlyAbove(P[m]) \subseteq Above(P[j])
        BY <3>3, <4>3, AboveAppend DEF StrictlyAbove
      <4>5. Fine(j)
        BY <1>3, <4>1
      <4>6. Above(P[j]) \subseteq StrictlyAbove(P[j]) \cup {P[j]}
        BY DEF StrictlyAbove
      <4> QED
        BY <3>3, <4>1, <4>2, <4>4, <4>5, <4>6
    <3>4. HasPath(es, P, m)
      BY <1>a, <3>1
    <3> QED
      BY <3>2, <3>3, <3>4 DEF HasPath, m
  <2>2. \A m \in 1..(k + 1) : m \in 1..k \/ m = k + 1
    OBVIOUS
  <2> HIDE DEF Fine
  <2> QED
    BY <1>3, <2>1, <2>2
<1>4. Nat \subseteq S
  <2> HIDE DEF S
  <2> QED
    BY <1>2, <1>3, Walk!NatInSet
<1>5. Fine(i)
  <2>1. i \in Nat /\ i \in 1..i /\ i <= n
    BY <1>1
  <2> HIDE DEF Fine
  <2> QED
    BY <1>4, <2>1
<1> QED
  BY <1>5

LEMMA PathsOfClean ==
  ASSUME NEW es, IsList(es), Clean(es)
  PROVE  LET P == EntryPaths(es)
         IN /\ Nested(es)
            /\ PathsOf(es, P)
            /\ ValidatePaths(es) = P
            /\ P \in Seq(Seq(Names)) /\ Len(P) = Len(es) /\ Len(es) \in Nat
            /\ DOMAIN P = 1..Len(es)
            /\ \A i, j \in 1..Len(es) : P[i] = P[j] => i = j
<1> DEFINE P == EntryPaths(es)
<1>1. Nested(es) /\ IsInjective(ValidatePaths(es))
  BY DEF Clean, Validate
<1>2. PathsOf(es, P) /\ ValidatePaths(es) = P
  BY <1>1, EntryPathsArePaths, ValidatePathsArePaths, PathsUnique
<1>3. P \in Seq(Seq(Names)) /\ Len(P) = Len(es) /\ Len(es) \in Nat
  BY <1>2 DEF PathsOf, IsList
<1>4. DOMAIN P = 1..Len(es)
  BY <1>3
<1>5. \A i, j \in 1..Len(es) : P[i] = P[j] => i = j
  BY <1>1, <1>2, <1>4 DEF IsInjective
<1> QED
  BY <1>1, <1>2, <1>3, <1>4, <1>5

\* buildPatchTree keeps every entry of a clean list, at its path: no node comes
\* again, and none comes after one below it.
LEMMA TreeOfClean ==
  ASSUME NEW es, IsList(es), Clean(es)
  PROVE  LET P == EntryPaths(es)
             t == BuildPatchTree(es)
         IN /\ t = [p \in DOMAIN t |-> t[p]]
            /\ DOMAIN t = {P[i] : i \in 1..Len(es)}
            /\ \A i \in 1..Len(es) : t[P[i]] = es[i]
<1> DEFINE P == EntryPaths(es)
           t == BuildPatchTree(es)
           n == Len(es)
           live == {i \in 1..n : ~\E j \in (i + 1)..n : P[j] \in Above(P[i])}
           At0(p) == CHOOSE i \in live : P[i] = p
<1>1. /\ PathsOf(es, P)
      /\ n \in Nat
      /\ \A i, j \in 1..n : P[i] = P[j] => i = j
  BY PathsOfClean
<1> HIDE DEF P
<1>2. ASSUME NEW i \in 1..n, NEW j \in (i + 1)..n
      PROVE  P[j] \notin Above(P[i])
  <2>1. j \in 1..n /\ i # j
    BY <1>1
  <2>2. P[j] # P[i]
    BY <1>1, <2>1
  <2>3. ASSUME P[j] \in StrictlyAbove(P[i])
        PROVE  FALSE
    <3>a. \A q \in StrictlyAbove(P[i]) : \E k \in 1..(i - 1) : P[k] = q /\ IsDir(es[k])
      BY <1>1, AncestorFirst
    <3>1. PICK k \in 1..(i - 1) : P[k] = P[j]
      BY <2>3, <3>a
    <3>2. k \in 1..n /\ k # j
      BY <1>1, <3>1
    <3> QED
      BY <1>1, <2>1, <3>1, <3>2
  <2> QED
    BY <2>2, <2>3 DEF StrictlyAbove
<1>3. live = 1..n
  BY <1>2
<1>4. t = [p \in {P[i] : i \in live} |-> es[At0(p)]]
  BY DEF BuildPatchTree, P
<1> HIDE DEF t, live
<1>5. \A i \in 1..n : At0(P[i]) = i
  BY <1>1, <1>3
<1> HIDE DEF At0
<1>6. \A i \in 1..n : t[P[i]] = es[i]
  BY <1>3, <1>4, <1>5
<1> QED
  BY <1>3, <1>4, <1>6 DEF P, t

\* A tree written as a list is read back as it is.
LEMMA ReadsBack ==
  ASSUME NEW t, WellFormed(t)
  PROVE  BuildPatchTree(Listing(t)) = t
<1> DEFINE o == PathsInOrder(t)
           s == Listing(t)
           u == BuildPatchTree(s)
           n == Len(s)
<1>1. /\ IsList(s) /\ Clean(s) /\ n = Len(o) /\ EntryPaths(s) = o
      /\ \A k \in 1..Len(o) : s[k] = t[o[k]]
  BY ListingIsClean
<1>2. /\ u = [p \in DOMAIN u |-> u[p]]
      /\ DOMAIN u = {o[i] : i \in 1..n}
      /\ \A i \in 1..n : u[o[i]] = s[i]
  <2>1. LET P == EntryPaths(s)
        IN /\ u = [p \in DOMAIN u |-> u[p]]
           /\ DOMAIN u = {P[i] : i \in 1..n}
           /\ \A i \in 1..n : u[P[i]] = s[i]
    BY <1>1, TreeOfClean
  <2> HIDE DEF o, s, u, n
  <2> QED
    BY <1>1, <2>1
<1>3. /\ \A k \in 1..Len(o) : o[k] \in DOMAIN t
      /\ \A p \in DOMAIN t : \E k \in 1..Len(o) : o[k] = p
  BY PathsEnumerated DEF Enumerating
<1>4. t = [p \in DOMAIN t |-> t[p]]
  BY DEF WellFormed
<1> HIDE DEF o, s, u
<1>5. DOMAIN u = DOMAIN t
  <2>1. DOMAIN u \subseteq DOMAIN t
    BY <1>1, <1>2, <1>3
  <2>2. \A p \in DOMAIN t : p \in DOMAIN u
    BY <1>1, <1>2, <1>3
  <2> QED
    BY <2>1, <2>2
<1>6. \A p \in DOMAIN t : u[p] = t[p]
  BY <1>1, <1>2, <1>3
<1> QED
  BY <1>2, <1>4, <1>5, <1>6 DEF u, s
\* A path ends in the name of its entry and is one longer than its depth.
LEMMA PathLast ==
  ASSUME NEW es, IsList(es), NEW P, PathsOf(es, P), NEW i \in 1..Len(es)
  PROVE  /\ P[i] \in Seq(Names)
         /\ Len(P[i]) = es[i].depth + 1
         /\ Last(P[i]) = es[i].name
<1> DEFINE n == Len(es)
           Long(k) == Len(P[k]) = es[k].depth + 1
           S == {k \in Nat : \A m \in 1..k : m <= n => Long(m)}
<1>1. n \in Nat
  BY DEF IsList
<1>a. \A k \in 1..n : P[k] \in Seq(Names) /\ HasPath(es, P, k)
  BY <1>1 DEF PathsOf
<1>b. \A k \in 1..n : es[k].name \in Names /\ es[k].depth \in Nat
  BY DEF IsList
<1>c. ASSUME NEW k \in 1..n
      PROVE  \/ es[k].depth = 0 /\ Len(P[k]) = 1 /\ Last(P[k]) = es[k].name
             \/ /\ Last(P[k]) = es[k].name
                /\ \E j \in 1..(k - 1) : /\ es[j].depth = es[k].depth - 1
                                         /\ Len(P[k]) = Len(P[j]) + 1
  <2> DEFINE x == es[k].name
  <2>1. x \in Names
    BY <1>b
  <2>2. CASE es[k].depth = 0 /\ P[k] = <<x>>
    <3> HIDE DEF x
    <3>1. Len(<<x>>) = 1 /\ Last(<<x>>) = x
      BY DEF Last
    <3> QED
      BY <2>2, <3>1 DEF x
  <2>3. ASSUME NEW j \in 1..(k - 1), IsParent(es, j, k), P[k] = Append(P[j], x)
        PROVE  /\ Last(P[k]) = x
               /\ es[j].depth = es[k].depth - 1
               /\ Len(P[k]) = Len(P[j]) + 1
    <3>1. P[j] \in Seq(Names)
      <4>1. j \in 1..n
        BY <1>1
      <4> QED
        BY <1>a, <4>1
    <3> DEFINE q == P[j]
    <3> HIDE DEF x, q
    <3>2. q \in Seq(Names) /\ P[k] = Append(q, x)
      BY <2>3, <3>1 DEF x, q
    <3>3. Len(P[k]) = Len(q) + 1 /\ P[k][Len(q) + 1] = x
      BY <2>1, <3>2
    <3> QED
      BY <2>3, <3>3 DEF Last, IsParent, q
  <2> QED
    BY <1>a, <2>2, <2>3 DEF HasPath
<1>2. 0 \in S
  OBVIOUS
<1>3. ASSUME NEW k \in Nat, k \in S
      PROVE  k + 1 \in S
  <2>1. ASSUME k + 1 <= n
        PROVE  Long(k + 1)
    <3> DEFINE m == k + 1
    <3>1. m \in 1..n
      BY <1>1, <2>1
    <3>2. \A j \in 1..(m - 1) : j \in 1..k /\ j <= n /\ j \in 1..n
      BY <1>1, <2>1
    <3>3. \A j \in 1..(m - 1) : Long(j) /\ es[j].depth \in Nat
      BY <1>3, <1>b, <3>2
    <3>4. \/ es[m].depth = 0 /\ Len(P[m]) = 1
          \/ \E j \in 1..(m - 1) : es[j].depth = es[m].depth - 1 /\ Len(P[m]) = Len(P[j]) + 1
      <4> HIDE DEF m
      <4> QED
        BY <1>c, <3>1
    <3>5. es[m].depth \in Nat
      BY <1>b, <3>1
    <3> HIDE DEF m
    <3>6. Long(m)
      <4>1. CASE es[m].depth = 0 /\ Len(P[m]) = 1
        BY <4>1
      <4>2. ASSUME NEW j \in 1..(m - 1), es[j].depth = es[m].depth - 1, Len(P[m]) = Len(P[j]) + 1
            PROVE  Long(m)
        <5>1. Len(P[j]) = es[j].depth + 1 /\ es[j].depth \in Nat
          BY <3>3
        <5> QED
          BY <3>5, <4>2, <5>1
      <4> QED
        BY <3>4, <4>1, <4>2
    <3> QED
      BY <3>6 DEF m
  <2>2. \A m \in 1..(k + 1) : m \in 1..k \/ m = k + 1
    OBVIOUS
  <2> HIDE DEF Long
  <2> QED
    BY <1>3, <2>1, <2>2
<1>4. Nat \subseteq S
  <2> HIDE DEF S
  <2> QED
    BY <1>2, <1>3, Walk!NatInSet
<1>5. Long(i)
  <2>1. i \in Nat /\ i \in 1..i /\ i <= n
    BY <1>1
  <2> HIDE DEF Long
  <2> QED
    BY <1>4, <2>1
<1> QED
  BY <1>a, <1>c, <1>5

LEMMA EntriesAreList ==
  ASSUME NEW es, HasEntries(es)
  PROVE  IsList(es)
BY DEF HasEntries, IsList, IsEntry

LEMMA CleanPaths ==
  ASSUME NEW es, HasEntries(es), Clean(es), NEW i \in 1..Len(es)
  PROVE  IsPath(EntryPaths(es)[i])
<1> DEFINE P == EntryPaths(es)
           p == P[i]
<1>1. IsList(es) /\ PathsOf(es, P) /\ Len(es) \in Nat
  BY EntriesAreList, PathsOfClean
<1> HIDE DEF P
<1>2. /\ p \in Seq(Names) /\ Len(p) = es[i].depth + 1
      /\ \A q \in StrictlyAbove(p) : \E j \in 1..(i - 1) : P[j] = q /\ IsDir(es[j])
  <2>1. p \in Seq(Names) /\ Len(p) = es[i].depth + 1
    BY <1>1, PathLast
  <2>2. \A q \in StrictlyAbove(p) : \E j \in 1..(i - 1) : P[j] = q /\ IsDir(es[j])
    BY <1>1, AncestorFirst
  <2> QED
    BY <2>1, <2>2
<1>3. \A j \in 1..(i - 1) : j \in 1..Len(es)
  BY <1>1
<1>4. \A j \in 1..(i - 1) : Last(P[j]) = es[j].name
  BY <1>1, <1>3, PathLast
<1>5. es[i].depth \in Nat
  BY <1>1 DEF IsList
<1> HIDE DEF p
<1>6. ASSUME NEW k \in 1..(Len(p) - 1)
      PROVE  p[k] \in DirNames
  <2> DEFINE q == SubSeq(p, 1, k)
  <2>1. /\ q \in Seq(Names) /\ Len(q) = k /\ q[k] = p[k] /\ k \in 1..Len(p)
    BY <1>2
  <2>2. q \in Above(p) /\ q # p
    <3>1. q \in Above(p)
      BY <2>1 DEF Above
    <3>2. Len(p) \in Nat /\ k # Len(p)
      BY <1>2
    <3> HIDE DEF q
    <3> QED
      BY <2>1, <3>1, <3>2
  <2> HIDE DEF q
  <2>3. q \in StrictlyAbove(p)
    BY <2>2 DEF StrictlyAbove
  <2>4. PICK j \in 1..(i - 1) : P[j] = q /\ IsDir(es[j])
    BY <1>2, <2>3
  <2>5. Last(q) = es[j].name /\ Last(q) = p[k]
    BY <1>4, <2>1, <2>4 DEF Last
  <2>6. es[j].name \in DirNames
    BY <1>3, <2>4 DEF HasEntries, IsDir
  <2> QED
    BY <2>5, <2>6
<1>7. p # <<>>
  BY <1>2, <1>5
<1> QED
  BY <1>2, <1>6, <1>7 DEF IsPath, p, P

\* The tree of a clean list.
LEMMA CleanIsTree ==
  ASSUME NEW es, HasEntries(es), Clean(es)
  PROVE  WellFormed(BuildPatchTree(es))
<1> DEFINE P == EntryPaths(es)
           t == BuildPatchTree(es)
           n == Len(es)
<1>1. IsList(es) /\ PathsOf(es, P) /\ n \in Nat
  BY EntriesAreList, PathsOfClean
<1>2. /\ t = [p \in DOMAIN t |-> t[p]]
      /\ DOMAIN t = {P[i] : i \in 1..n}
      /\ \A i \in 1..n : t[P[i]] = es[i]
  BY <1>1, TreeOfClean
<1>3. \A i \in 1..n : IsPath(P[i])
  BY CleanPaths
<1> HIDE DEF P, t
<1>4. \A i \in 1..n : StrictlyAbove(P[i]) \subseteq DOMAIN t
  <2> SUFFICES ASSUME NEW i \in 1..n, NEW q \in StrictlyAbove(P[i]) PROVE q \in DOMAIN t
    OBVIOUS
  <2>1. PICK j \in 1..(i - 1) : P[j] = q /\ IsDir(es[j])
    <3>1. \E j \in 1..(i - 1) : P[j] = q /\ IsDir(es[j])
      BY <1>1, AncestorFirst
    <3> QED
      BY <3>1
  <2>2. j \in 1..n
    BY <1>1
  <2> QED
    BY <1>2, <2>1, <2>2
<1>5. ASSUME NEW i \in 1..n
      PROVE  /\ IsEntry(t[P[i]])
             /\ t[P[i]].name = Last(P[i])
             /\ t[P[i]].depth = Len(P[i]) - 1
  <2>1. /\ Len(P[i]) = es[i].depth + 1 /\ Last(P[i]) = es[i].name
        /\ es[i].depth \in Nat
    BY <1>1, PathLast DEF IsList
  <2> QED
    BY <1>2, <2>1 DEF HasEntries
<1>6. IsFiniteSet(DOMAIN t)
  <2> DEFINE f == [i \in 1..n |-> P[i]]
  <2>1. IsFiniteSet(1..n)
    BY <1>1, FS_Interval
  <2>2. f = [i \in 1..n |-> f[i]] /\ \A i \in 1..n : f[i] = P[i]
    OBVIOUS
  <2> HIDE DEF f
  <2>3. IsFiniteSet({f[i] : i \in 1..n})
    BY <2>1, <2>2, ImageFinite
  <2>4. {f[i] : i \in 1..n} = {P[i] : i \in 1..n}
    BY <2>2
  <2> QED
    BY <1>2, <2>3, <2>4
<1> QED
  BY <1>2, <1>3, <1>4, <1>5, <1>6 DEF WellFormed, t


Emitting == INSTANCE FoldFacts WITH Op <- Emit

-----------------------------------------------------------------------------
(* Lists of indices.                                                         *)

LEMMA NumbersInOrder ==
  ASSUME NEW n \in Nat, NEW S \in SUBSET (1..n)
  PROVE  /\ Enumerating(InOrder(S, <), S)
         /\ \A k, m \in 1..Len(InOrder(S, <)) :
              k < m <=> InOrder(S, <)[k] < InOrder(S, <)[m]
<1> DEFINE order == InOrder(S, <)
           Place(k) == CHOOSE i \in S : Cardinality({j \in S : j < i}) = k - 1
           Before == [i \in S |-> {j \in S : j < i}]
<1>1. \A i \in S : i \in Int
  OBVIOUS
<1>2. IsFiniteSet(S)
  BY NumbersTo
<1>3. order = [k \in 1..Cardinality(S) |-> Place(k)]
  BY DEF InOrder
<1>4. /\ Before \in [S -> SUBSET S]
      /\ \A i, j \in S : j \in Before[i] <=> j < i
      /\ \A i \in S : Before[i] = {j \in S : j < i}
  OBVIOUS
<1> HIDE DEF order, Before
<1>5. ASSUME NEW k \in 1..Cardinality(S), NEW i \in S, Cardinality(Before[i]) = k - 1
      PROVE  order[k] \in S /\ Cardinality(Before[order[k]]) = k - 1
  <2>1. Cardinality({j \in S : j < i}) = k - 1
    BY <1>4, <1>5
  <2>2. Place(k) \in S /\ Cardinality({j \in S : j < Place(k)}) = k - 1
    BY <2>1
  <2> HIDE DEF Place
  <2> QED
    BY <1>3, <1>4, <2>2
<1> HIDE DEF Place
<1>6. order = [k \in 1..Cardinality(S) |-> order[k]]
  BY <1>3
<1>7. /\ \A i \in S : i \notin Before[i]
      /\ \A i, j \in S : i \in Before[j] => Before[i] \subseteq Before[j]
      /\ \A i, j \in S : i = j \/ i \in Before[j] \/ j \in Before[i]
  <2>1. \A i \in S : i \notin Before[i]
    BY ONLY <1>1, <1>4
  <2>2. \A i, j \in S : i = j \/ i \in Before[j] \/ j \in Before[i]
    BY ONLY <1>1, <1>4
  <2>3. ASSUME NEW i \in S, NEW j \in S, i \in Before[j]
        PROVE  Before[i] \subseteq Before[j]
    <3> SUFFICES ASSUME NEW x \in Before[i] PROVE x \in Before[j]
      OBVIOUS
    <3>1. x \in S /\ x < i /\ i < j
      BY <1>4, <2>3
    <3>2. x \in Int /\ i \in Int /\ j \in Int
      BY <1>1, <3>1
    <3> QED
      BY <1>4, <3>1, <3>2
  <2> QED
    BY ONLY <2>1, <2>2, <2>3
<1>8. Ordering(order, S, Before)
  BY ONLY <1>2, <1>4, <1>5, <1>6, <1>7 DEF Ordering
<1>9. /\ Enumerating(order, S)
      /\ \A k, m \in 1..Len(order) : k < m <=> order[k] \in Before[order[m]]
  BY <1>8, Enumerates
<1>10. \A k \in 1..Len(order) : order[k] \in S
  BY <1>9 DEF Enumerating
<1>11. \A k, m \in 1..Len(order) : k < m <=> order[k] < order[m]
  BY <1>4, <1>9, <1>10
<1> QED
  BY <1>9, <1>11 DEF order

\* Siblings with different names stand in one order.
LEMMA SiblingOrder ==
  ASSUME NEW a, NEW b, NEW c, a.name \in Int, b.name \in Int, c.name \in Int
  PROVE  /\ ~SiblingLess(a, a)
         /\ SiblingLess(a, b) /\ SiblingLess(b, c) => SiblingLess(a, c)
         /\ a.name = b.name \/ SiblingLess(a, b) \/ SiblingLess(b, a)
<1> DEFINE x == a.name
           y == b.name
           z == c.name
<1>1. x \in Int /\ y \in Int /\ z \in Int
  OBVIOUS
<1>2. /\ SiblingLess(a, a) <=> x < x
      /\ SiblingLess(a, b) <=> IF IsDir(a) = IsDir(b) THEN x < y ELSE IsDir(b)
      /\ SiblingLess(b, a) <=> IF IsDir(b) = IsDir(a) THEN y < x ELSE IsDir(a)
      /\ SiblingLess(b, c) <=> IF IsDir(b) = IsDir(c) THEN y < z ELSE IsDir(c)
      /\ SiblingLess(a, c) <=> IF IsDir(a) = IsDir(c) THEN x < z ELSE IsDir(c)
  BY DEF SiblingLess
<1>3. /\ a.name = x /\ b.name = y /\ IsDir(a) \in BOOLEAN /\ IsDir(b) \in BOOLEAN
      /\ IsDir(c) \in BOOLEAN
  BY DEF IsDir
<1> HIDE DEF x, y, z
<1>4. /\ ~(x < x) /\ (x < y /\ y < z => x < z)
      /\ x < y \/ x = y \/ y < x
  BY ONLY <1>1
<1> QED
  BY ONLY <1>2, <1>3, <1>4

LEMMA RankedInOrder ==
  ASSUME NEW es, IsList(es), NEW S \in SUBSET (1..Len(es)),
         \A a, b \in S : es[a].name = es[b].name => a = b
  PROVE  /\ Enumerating(Ranked(es, S), S)
         /\ \A k, m \in 1..Len(Ranked(es, S)) :
              k < m <=> SiblingLess(es[Ranked(es, S)[k]], es[Ranked(es, S)[m]])
<1> DEFINE order == Ranked(es, S)
           Less(a, b) == SiblingLess(es[a], es[b])
           Place(k) == CHOOSE i \in S : Cardinality({j \in S : Less(j, i)}) = k - 1
           Before == [i \in S |-> {j \in S : Less(j, i)}]
<1>1. \A i \in S : es[i].name \in Int
  <2>1. \A i \in S : es[i].name \in Names
    BY DEF IsList
  <2>2. Names \subseteq Int
    BY ONLY NamesAssumption
  <2> QED
    BY ONLY <2>1, <2>2
<1>2. IsFiniteSet(S)
  <2>1. Len(es) \in Nat
    BY DEF IsList
  <2> QED
    BY <2>1, NumbersTo
<1>3. order = [k \in 1..Cardinality(S) |-> Place(k)]
  BY DEF Ranked, InOrder
<1>4. /\ \A i \in S : ~Less(i, i)
      /\ \A i, j, k \in S : Less(i, j) /\ Less(j, k) => Less(i, k)
      /\ \A i, j \in S : es[i].name = es[j].name \/ Less(i, j) \/ Less(j, i)
  BY ONLY <1>1, SiblingOrder
<1>5. \A i, j \in S : i = j \/ Less(i, j) \/ Less(j, i)
  <2> HIDE DEF Less
  <2> QED
    BY <1>4
<1> HIDE DEF Less
<1>6. /\ Before \in [S -> SUBSET S]
      /\ \A i, j \in S : j \in Before[i] <=> Less(j, i)
      /\ \A i \in S : Before[i] = {j \in S : Less(j, i)}
  OBVIOUS
<1> HIDE DEF order, Before
<1>7. ASSUME NEW k \in 1..Cardinality(S), NEW i \in S, Cardinality(Before[i]) = k - 1
      PROVE  order[k] \in S /\ Cardinality(Before[order[k]]) = k - 1
  <2>1. Cardinality({j \in S : Less(j, i)}) = k - 1
    BY <1>6, <1>7
  <2>2. Place(k) \in S /\ Cardinality({j \in S : Less(j, Place(k))}) = k - 1
    BY <2>1
  <2> HIDE DEF Place
  <2> QED
    BY <1>3, <1>6, <2>2
<1> HIDE DEF Place
<1>8. order = [k \in 1..Cardinality(S) |-> order[k]]
  BY <1>3
<1>9. /\ \A i \in S : i \notin Before[i]
      /\ \A i, j \in S : i \in Before[j] => Before[i] \subseteq Before[j]
      /\ \A i, j \in S : i = j \/ i \in Before[j] \/ j \in Before[i]
  BY <1>4, <1>5, <1>6
<1>10. Ordering(order, S, Before)
  BY ONLY <1>2, <1>6, <1>7, <1>8, <1>9 DEF Ordering
<1>11. /\ Enumerating(order, S)
       /\ \A k, m \in 1..Len(order) : k < m <=> order[k] \in Before[order[m]]
  BY <1>10, Enumerates
<1>12. \A k \in 1..Len(order) : order[k] \in S
  BY <1>11 DEF Enumerating
<1>13. \A k, m \in 1..Len(order) : k < m <=> Less(order[k], order[m])
  BY <1>6, <1>11, <1>12
<1>14. /\ Enumerating(order, S)
       /\ \A k, m \in 1..Len(order) : k < m <=> SiblingLess(es[order[k]], es[order[m]])
  BY <1>11, <1>13 DEF Less
<1> QED
  BY <1>14 DEF order

-----------------------------------------------------------------------------
(* processLevel.                                                             *)

Results(n) == [used : SUBSET (1..n), out : Seq(1..n)]

Processes(n) == [0..n -> [SUBSET (1..n) -> Results(n)]]

\* What is found in p stands after p, and of one name one entry is kept.
LEMMA LevelIsAfter ==
  ASSUME NEW es, IsList(es), NEW p \in 0..Len(es), NEW used
  PROVE  LET level == LevelOf(es, p, used)
             kept == LastOfName(es, level)
         IN /\ level \in SUBSET ((p + 1)..Len(es)) /\ kept \in SUBSET level
            /\ level \in SUBSET (1..Len(es)) /\ level \cap used = {}
            /\ \A a, b \in kept : es[a].name = es[b].name => a = b
<1> DEFINE level == LevelOf(es, p, used)
           kept == LastOfName(es, level)
<1>1. Len(es) \in Nat
  BY DEF IsList
<1>2. level \in SUBSET ((p + 1)..Len(es)) /\ level \cap used = {}
  BY DEF LevelOf
<1>3. level \in SUBSET (1..Len(es))
  <2>1. (p + 1)..Len(es) \subseteq 1..Len(es)
    BY <1>1
  <2> QED
    BY <1>2, <2>1
<1> HIDE DEF level
<1>4. kept \in SUBSET level
  BY DEF LastOfName
<1>5. ASSUME NEW a \in kept, NEW b \in kept, es[a].name = es[b].name
      PROVE  a = b
  <2>1. a \in level /\ b \in level /\ ~(b > a) /\ ~(a > b)
    BY <1>5 DEF LastOfName
  <2>2. a \in Int /\ b \in Int
    BY <1>1, <1>3, <2>1
  <2> QED
    BY <2>1, <2>2
<1> QED
  BY <1>2, <1>3, <1>4, <1>5 DEF level

\* ProcessLevel is a walk over what it keeps.
LEMMA LevelWalk ==
  ASSUME NEW es, IsList(es), NEW p \in 0..Len(es), NEW used, NEW process,
         p = 0 \/ IsDir(es[p])
  PROVE  LET level == LevelOf(es, p, used)
             kept == LastOfName(es, level)
             seq == Ranked(es, kept)
         IN \E a : /\ a[0] = [used |-> used \cup (level \ kept), out |-> <<>>]
                   /\ \A k \in 1..Len(seq) : a[k] = Emit(process, a[k - 1], seq[k])
                   /\ ProcessLevel(es, process, p, used) = a[Len(seq)]
<1> DEFINE level == LevelOf(es, p, used)
           kept == LastOfName(es, level)
           seq == Ranked(es, kept)
           base == [used |-> used \cup (level \ kept), out |-> <<>>]
<1>1. /\ kept \in SUBSET (1..Len(es))
      /\ \A a, b \in kept : es[a].name = es[b].name => a = b
  <2>1. kept \in SUBSET level /\ level \in SUBSET (1..Len(es))
    BY LevelIsAfter
  <2>2. \A a, b \in kept : es[a].name = es[b].name => a = b
    BY LevelIsAfter
  <2> QED
    BY <2>1, <2>2
<1>2. seq \in Seq(kept)
  <2> HIDE DEF kept
  <2> QED
    BY <1>1, RankedInOrder DEF Enumerating
<1>3. ProcessLevel(es, process, p, used) = Emitting!Fold(process, base, seq)
  BY DEF ProcessLevel, FoldLeft, MapThenFoldSet, Max,
         Emitting!Fold, Emitting!FoldLeft, Emitting!MapThenFoldSet, Emitting!Max
<1> HIDE DEF seq, base, kept
<1>4. PICK a : /\ a[0] = base
               /\ \A k \in 1..Len(seq) : a[k] = Emit(process, a[k - 1], seq[k])
               /\ Emitting!Fold(process, base, seq) = a[Len(seq)]
  BY <1>2, Emitting!FoldWalk
<1> QED
  BY <1>3, <1>4 DEF seq, base, kept

LEMMA EmitTyped ==
  ASSUME NEW n \in Nat, NEW process \in Processes(n), NEW acc \in Results(n), NEW c \in 1..n
  PROVE  Emit(process, acc, c) \in Results(n)
<1> DEFINE u == acc.used \cup {c}
           sub == process[c][u]
<1>1. acc.used \in SUBSET (1..n) /\ acc.out \in Seq(1..n)
  BY DEF Results
<1>2. u \in SUBSET (1..n) /\ c \in 0..n
  BY <1>1
<1>3. sub \in Results(n)
  <2> HIDE DEF u
  <2> QED
    BY <1>2 DEF Processes
<1> HIDE DEF sub
<1>4. sub.used \in SUBSET (1..n) /\ sub.out \in Seq(1..n)
  BY <1>3 DEF Results
<1>5. (acc.out \o <<c>>) \o sub.out \in Seq(1..n)
  BY <1>1, <1>4
<1>6. Emit(process, acc, c) = [used |-> sub.used, out |-> (acc.out \o <<c>>) \o sub.out]
  BY DEF Emit, sub
<1> QED
  BY <1>4, <1>5, <1>6 DEF Results

\* It only calls itself for later entries: what other processes do does not
\* matter to it.
LEMMA ProcessLocal ==
  ASSUME NEW es, IsList(es), NEW f \in Processes(Len(es)), NEW g,
         NEW p \in 0..Len(es), NEW used \in SUBSET (1..Len(es)),
         \A c \in (p + 1)..Len(es) : \A u \in SUBSET (1..Len(es)) : f[c][u] = g[c][u]
  PROVE  /\ ProcessLevel(es, f, p, used) \in Results(Len(es))
         /\ ProcessLevel(es, f, p, used) = ProcessLevel(es, g, p, used)
<1> DEFINE n == Len(es)
           level == LevelOf(es, p, used)
           kept == LastOfName(es, level)
           seq == Ranked(es, kept)
           base == [used |-> used \cup (level \ kept), out |-> <<>>]
<1>1. n \in Nat
  BY DEF IsList
<1>2. CASE p # 0 /\ ~IsDir(es[p])
  <2>1. /\ ProcessLevel(es, f, p, used) = [used |-> used, out |-> <<>>]
        /\ ProcessLevel(es, g, p, used) = [used |-> used, out |-> <<>>]
    BY <1>2 DEF ProcessLevel
  <2>2. [used |-> used, out |-> <<>>] \in Results(n)
    BY EmptySeq DEF Results
  <2> QED
    BY <2>1, <2>2
<1>3. CASE p = 0 \/ IsDir(es[p])
  <2>1. /\ level \in SUBSET ((p + 1)..n) /\ kept \in SUBSET level
        /\ level \in SUBSET (1..n)
    BY LevelIsAfter
  <2>2. /\ kept \in SUBSET (1..n) /\ kept \in SUBSET ((p + 1)..n)
        /\ \A a, b \in kept : es[a].name = es[b].name => a = b
    <3>1. \A a, b \in kept : es[a].name = es[b].name => a = b
      BY LevelIsAfter
    <3> QED
      BY <2>1, <3>1
  <2>3. PICK a : /\ a[0] = base
                 /\ \A k \in 1..Len(seq) : a[k] = Emit(f, a[k - 1], seq[k])
                 /\ ProcessLevel(es, f, p, used) = a[Len(seq)]
    BY ONLY IsList(es), <1>3, LevelWalk
  <2>4. PICK b : /\ b[0] = base
                 /\ \A k \in 1..Len(seq) : b[k] = Emit(g, b[k - 1], seq[k])
                 /\ ProcessLevel(es, g, p, used) = b[Len(seq)]
    BY ONLY IsList(es), <1>3, LevelWalk
  <2>5. base \in Results(n)
    <3>1. used \cup (level \ kept) \in SUBSET (1..n)
      BY <2>1
    <3> QED
      BY <3>1, EmptySeq DEF Results
  <2> HIDE DEF base, kept, level
  <2>6. seq \in Seq(kept)
    BY <2>2, RankedInOrder DEF Enumerating
  <2> HIDE DEF seq
  <2>7. Len(seq) \in Nat /\ \A k \in 1..Len(seq) : seq[k] \in 1..n /\ seq[k] \in (p + 1)..n
    <3>1. Len(seq) \in Nat /\ \A k \in 1..Len(seq) : seq[k] \in kept
      BY ONLY <2>6
    <3> QED
      BY ONLY <2>2, <3>1
  <2> DEFINE S == {k \in Nat : k <= Len(seq) => a[k] \in Results(n) /\ a[k] = b[k]}
  <2>8. 0 \in S
    BY <2>3, <2>4, <2>5
  <2>9. ASSUME NEW k \in Nat, k \in S
        PROVE  k + 1 \in S
    <3> SUFFICES ASSUME k + 1 <= Len(seq)
                 PROVE  a[k + 1] \in Results(n) /\ a[k + 1] = b[k + 1]
      OBVIOUS
    <3> DEFINE c == seq[k + 1]
               u == a[k].used \cup {c}
    <3>1. k + 1 \in 1..Len(seq) /\ (k + 1) - 1 = k /\ a[k] \in Results(n) /\ a[k] = b[k]
      BY <2>7, <2>9
    <3>2. a[k + 1] = Emit(f, a[k], c) /\ b[k + 1] = Emit(g, a[k], c)
      BY <2>3, <2>4, <3>1
    <3>3. c \in 1..n /\ c \in (p + 1)..n
      BY <2>7, <3>1
    <3>4. u \in SUBSET (1..n)
      BY <3>1, <3>3 DEF Results
    <3> HIDE DEF c, n
    <3>5. f[c][u] = g[c][u]
      BY <3>3, <3>4 DEF n
    <3>6. Emit(f, a[k], c) = Emit(g, a[k], c)
      <4> HIDE DEF u
      <4>1. /\ Emit(f, a[k], c) = [used |-> f[c][u].used,
                                   out |-> (a[k].out \o <<c>>) \o f[c][u].out]
            /\ Emit(g, a[k], c) = [used |-> g[c][u].used,
                                   out |-> (a[k].out \o <<c>>) \o g[c][u].out]
        BY DEF Emit, u
      <4> QED
        BY <3>5, <4>1
    <3>7. Emit(f, a[k], c) \in Results(n)
      <4>1. f \in Processes(n)
        BY DEF n
      <4> QED
        BY <1>1, <3>1, <3>3, <4>1, EmitTyped
    <3> QED
      BY <3>2, <3>6, <3>7
  <2>10. Nat \subseteq S
    <3> HIDE DEF S
    <3> QED
      BY <2>8, <2>9, Walk!NatInSet
  <2> QED
    BY <2>3, <2>4, <2>7, <2>10
<1> QED
  BY <1>2, <1>3

\* So there is one function that is what each call of processLevel does: found
\* from the last entry to the first.
Solves(es, f, m) ==
  /\ f \in Processes(Len(es))
  /\ \A p \in 0..Len(es) : p >= m =>
       \A used \in SUBSET (1..Len(es)) : f[p][used] = ProcessLevel(es, f, p, used)

LEMMA SolveNext ==
  ASSUME NEW es, IsList(es), NEW m \in 0..Len(es), NEW f, Solves(es, f, m + 1)
  PROVE  \E g : Solves(es, g, m)
<1> DEFINE n == Len(es)
           level == [used \in SUBSET (1..n) |-> ProcessLevel(es, f, m, used)]
           g == [f EXCEPT ![m] = level]
<1>1. n \in Nat
  BY DEF IsList
<1>2. f \in Processes(n)
  BY DEF Solves
<1>3. \A used \in SUBSET (1..n) : ProcessLevel(es, f, m, used) \in Results(n)
  BY <1>2, ProcessLocal
<1>4. /\ level \in [SUBSET (1..n) -> Results(n)]
      /\ \A used \in SUBSET (1..n) : level[used] = ProcessLevel(es, f, m, used)
  BY <1>3
<1> HIDE DEF level
<1>5. /\ g \in Processes(n) /\ g[m] = level
      /\ \A p \in 0..n : p # m => g[p] = f[p]
  BY <1>2, <1>4 DEF Processes
<1> HIDE DEF g
<1>6. ASSUME NEW p \in 0..n, p >= m, NEW used \in SUBSET (1..n)
      PROVE  ProcessLevel(es, f, p, used) = ProcessLevel(es, g, p, used)
  <2>1. \A c \in (p + 1)..n : c \in 0..n /\ c # m
    BY <1>1, <1>6
  <2>2. \A c \in (p + 1)..n : \A u \in SUBSET (1..n) : f[c][u] = g[c][u]
    BY <1>5, <2>1
  <2> QED
    BY <1>2, <2>2, ProcessLocal
<1>7. ASSUME NEW p \in 0..n, p >= m, NEW used \in SUBSET (1..n)
      PROVE  g[p][used] = ProcessLevel(es, f, p, used)
  <2>1. CASE p = m
    BY <1>4, <1>5, <2>1
  <2>2. CASE p # m
    <3>1. p >= m + 1
      BY <1>1, <1>7, <2>2
    <3> QED
      BY <1>5, <2>2, <3>1 DEF Solves
  <2> QED
    BY <2>1, <2>2
<1>8. Solves(es, g, m)
  BY <1>5, <1>6, <1>7 DEF Solves
<1> QED
  BY <1>8

LEMMA Solvable ==
  ASSUME NEW es, IsList(es)
  PROVE  \E f : Solves(es, f, 0)
<1> DEFINE n == Len(es)
           S == {k \in Nat : k <= n + 1 => \E f : Solves(es, f, n + 1 - k)}
<1>1. n \in Nat
  BY DEF IsList
<1>2. 0 \in S
  <2> DEFINE f == [p \in 0..n |-> [used \in SUBSET (1..n) |-> [used |-> used, out |-> <<>>]]]
  <2>1. \A used \in SUBSET (1..n) : [used |-> used, out |-> <<>>] \in Results(n)
    BY EmptySeq DEF Results
  <2>2. f \in Processes(n)
    BY <2>1 DEF Processes
  <2>3. \A p \in 0..n : ~(p >= n + 1 - 0)
    BY <1>1
  <2> HIDE DEF f
  <2>4. Solves(es, f, n + 1 - 0)
    BY <2>2, <2>3 DEF Solves
  <2> QED
    BY <2>4
<1>3. ASSUME NEW k \in Nat, k \in S
      PROVE  k + 1 \in S
  <2> SUFFICES ASSUME k + 1 <= n + 1
               PROVE  \E f : Solves(es, f, n + 1 - (k + 1))
    OBVIOUS
  <2> HIDE DEF n
  <2>1. /\ n + 1 - (k + 1) \in 0..n
        /\ n + 1 - k = (n + 1 - (k + 1)) + 1
    BY <1>1
  <2>2. PICK f : Solves(es, f, n + 1 - k)
    BY <1>1, <1>3
  <2> DEFINE m == n + 1 - (k + 1)
  <2>3. m \in 0..Len(es) /\ Solves(es, f, m + 1)
    BY <2>1, <2>2 DEF n
  <2> HIDE DEF m
  <2>4. \E g : Solves(es, g, m)
    BY <2>3, SolveNext
  <2> QED
    BY <2>4 DEF m
<1>4. Nat \subseteq S
  <2> HIDE DEF S
  <2> QED
    BY <1>2, <1>3, Walk!NatInSet
<1>5. n + 1 \in S /\ n + 1 - (n + 1) = 0
  BY <1>1, <1>4
<1> QED
  BY <1>1, <1>5

IsProcess(es, g) ==
  g = [p \in 0..Len(es) |->
         [used \in SUBSET (1..Len(es)) |-> ProcessLevel(es, g, p, used)]]

LEMMA SolvedOnce ==
  ASSUME NEW es, IsList(es), NEW f, Solves(es, f, 0), NEW g, IsProcess(es, g)
  PROVE  g = f
<1> DEFINE n == Len(es)
           S == {k \in Nat : \A p \in 0..n : p > n - k =>
                               \A used \in SUBSET (1..n) : f[p][used] = g[p][used]}
<1>1. n \in Nat
  BY DEF IsList
<1>2. f \in Processes(n)
  BY DEF Solves
<1>3. 0 \in S
  BY <1>1
<1>4. ASSUME NEW k \in Nat, k \in S
      PROVE  k + 1 \in S
  <2> SUFFICES ASSUME NEW p \in 0..n, p > n - (k + 1), NEW used \in SUBSET (1..n)
               PROVE  f[p][used] = g[p][used]
    OBVIOUS
  <2>1. \A c \in (p + 1)..n : c \in 0..n /\ c > n - k
    BY <1>1
  <2>2. \A c \in (p + 1)..n : \A u \in SUBSET (1..n) : f[c][u] = g[c][u]
    BY <1>4, <2>1
  <2>3. ProcessLevel(es, f, p, used) = ProcessLevel(es, g, p, used)
    BY <1>2, <2>2, ProcessLocal
  <2>4. p >= 0
    BY <1>1
  <2>5. f[p][used] = ProcessLevel(es, f, p, used)
    BY <2>4 DEF Solves
  <2>6. g[p][used] = ProcessLevel(es, g, p, used)
    BY DEF IsProcess
  <2> QED
    BY <2>3, <2>5, <2>6
<1>5. Nat \subseteq S
  <2> HIDE DEF S
  <2> QED
    BY <1>3, <1>4, Walk!NatInSet
<1>6. n + 1 \in S
  <2>1. n + 1 \in Nat
    BY <1>1
  <2> HIDE DEF S
  <2> QED
    BY <1>5, <2>1
<1>7. \A p \in 0..n : \A used \in SUBSET (1..n) : f[p][used] = g[p][used]
  BY <1>1, <1>6
<1>8. f = [p \in 0..n |-> [used \in SUBSET (1..n) |-> f[p][used]]]
  BY <1>2 DEF Processes
<1>9. g = [p \in 0..n |-> [used \in SUBSET (1..n) |-> g[p][used]]]
  BY DEF IsProcess
<1> QED
  BY <1>7, <1>8, <1>9

\* What SortOrder returns.
LEMMA SortOrderIs ==
  ASSUME NEW es, IsList(es)
  PROVE  \E f : /\ Solves(es, f, 0)
                /\ SortOrder(es) = f[0][{}].out \o InOrder(1..Len(es) \ f[0][{}].used, <)
<1> DEFINE n == Len(es)
           By(g) == [p \in 0..n |-> [used \in SUBSET (1..n) |-> ProcessLevel(es, g, p, used)]]
           process == CHOOSE g : g = By(g)
<1>1. PICK f : Solves(es, f, 0)
  BY Solvable
<1>2. f = By(f)
  <2>1. f \in Processes(n)
    BY <1>1 DEF Solves
  <2>2. f = [p \in 0..n |-> [used \in SUBSET (1..n) |-> f[p][used]]]
    BY <2>1 DEF Processes
  <2>3. \A p \in 0..n : \A used \in SUBSET (1..n) : f[p][used] = ProcessLevel(es, f, p, used)
    <3>1. \A p \in 0..n : p >= 0
      OBVIOUS
    <3> QED
      BY <1>1, <3>1 DEF Solves
  <2> QED
    BY <2>2, <2>3
<1>3. process = By(process)
  <2> HIDE DEF By
  <2> QED
    BY <1>2
<1>4. process = f
  <2>1. IsProcess(es, process)
    <3> HIDE DEF process
    <3> QED
      BY <1>3 DEF IsProcess
  <2> HIDE DEF process
  <2> QED
    BY ONLY IsList(es), <1>1, <2>1, SolvedOnce
<1>5. SortOrder(es) = process[0][{}].out \o InOrder(1..n \ process[0][{}].used, <)
  BY DEF SortOrder
<1> HIDE DEF process
<1> QED
  BY <1>1, <1>4, <1>5

LEMMA WiderSeq ==
  ASSUME NEW S, NEW T, S \subseteq T, NEW s \in Seq(S)
  PROVE  s \in Seq(T) /\ \A k \in 1..Len(s) : s[k] \in S
<1>1. /\ Len(s) \in Nat /\ s = [k \in 1..Len(s) |-> s[k]]
      /\ \A k \in 1..Len(s) : s[k] \in S
  OBVIOUS
<1>2. \A k \in 1..Len(s) : s[k] \in T
  BY <1>1
<1>3. [k \in 1..Len(s) |-> s[k]] \in Seq(T)
  BY ONLY <1>1, <1>2
<1> QED
  BY ONLY <1>1, <1>3

LEMMA SortOrderTyped ==
  ASSUME NEW es, IsList(es)
  PROVE  SortOrder(es) \in Seq(1..Len(es))
<1> DEFINE n == Len(es)
<1>1. n \in Nat
  BY DEF IsList
<1>2. PICK f : /\ Solves(es, f, 0)
               /\ SortOrder(es) = f[0][{}].out \o InOrder(1..n \ f[0][{}].used, <)
  BY SortOrderIs
<1>3. f[0][{}] \in Results(n)
  <2>1. f \in Processes(n)
    BY <1>2 DEF Solves
  <2>2. 0 \in 0..n /\ {} \in SUBSET (1..n)
    BY <1>1
  <2> HIDE DEF n
  <2> QED
    BY ONLY <2>1, <2>2 DEF Processes
<1> DEFINE out == f[0][{}].out
           rest == 1..n \ f[0][{}].used
           tail == InOrder(rest, <)
<1>4. out \in Seq(1..n) /\ rest \in SUBSET (1..n)
  BY <1>3 DEF Results
<1> HIDE DEF out, rest
<1>5. tail \in Seq(rest)
  BY <1>1, <1>4, NumbersInOrder DEF Enumerating
<1>6. SortOrder(es) = out \o tail
  BY <1>2 DEF out, rest
<1> HIDE DEF tail
<1>7. tail \in Seq(1..n)
  BY <1>4, <1>5, WiderSeq
<1>8. out \o tail \in Seq(1..n)
  BY <1>4, <1>7
<1> QED
  BY <1>6, <1>8

-----------------------------------------------------------------------------
(* The lists that mutators make of a list.                                   *)

\* A function over 1..n whose values have a name and a depth is a list.
LEMMA ListOver ==
  ASSUME NEW n \in Nat, NEW s, s = [k \in 1..n |-> s[k]],
         \A k \in 1..n : s[k].name \in Names /\ s[k].depth \in Nat
  PROVE  IsList(s) /\ Len(s) = n
<1>1. \A k \in 1..n : s[k] \in Range(s)
  BY DEF Range
<1>2. s \in Seq(Range(s)) /\ Len(s) = n
  BY <1>1
<1> QED
  BY <1>2 DEF IsList

LEMMA PickIsList ==
  ASSUME NEW es, IsList(es), NEW order \in Seq(1..Len(es))
  PROVE  /\ IsList(Pick(es, order))
         /\ Len(Pick(es, order)) = Len(order)
         /\ \A k \in 1..Len(order) : Pick(es, order)[k] = es[order[k]]
<1> DEFINE s == Pick(es, order)
<1>1. Len(order) \in Nat /\ \A k \in 1..Len(order) : order[k] \in 1..Len(es)
  OBVIOUS
<1>2. \A i \in 1..Len(es) : es[i].name \in Names /\ es[i].depth \in Nat
  BY DEF IsList
<1>3. /\ s = [k \in 1..Len(order) |-> es[order[k]]]
      /\ \A k \in 1..Len(order) : s[k] = es[order[k]]
  BY DEF Pick
<1> HIDE DEF s
<1>4. s = [k \in 1..Len(order) |-> s[k]]
  BY <1>3
<1>5. \A k \in 1..Len(order) : s[k].name \in Names /\ s[k].depth \in Nat
  BY <1>1, <1>2, <1>3
<1>6. IsList(s) /\ Len(s) = Len(order)
  BY <1>1, <1>4, <1>5, ListOver
<1> QED
  BY <1>3, <1>6 DEF s

LEMMA SortIsList ==
  ASSUME NEW es, IsList(es)
  PROVE  /\ IsList(SortEntries(es))
         /\ \A k \in 1..Len(SortEntries(es)) :
              \E i \in 1..Len(es) : SortEntries(es)[k] = es[i]
<1>1. CASE es = <<>>
  <2>1. SortEntries(es) = es /\ \A k \in 1..Len(es) : k \in 1..Len(es)
    BY <1>1 DEF SortEntries
  <2> QED
    BY <2>1
<1>2. CASE es # <<>>
  <2> DEFINE order == SortOrder(es)
  <2>1. order \in Seq(1..Len(es))
    BY SortOrderTyped
  <2>2. SortEntries(es) = Pick(es, order)
    BY <1>2 DEF SortEntries
  <2> HIDE DEF order
  <2>3. \A k \in 1..Len(order) : order[k] \in 1..Len(es)
    BY <2>1
  <2> QED
    BY <2>1, <2>2, <2>3, PickIsList
<1> QED
  BY <1>1, <1>2

-----------------------------------------------------------------------------
(* What a sort leaves out.                                                   *)

\* A later entry at i's depth has i's name.
Overridden(es, i) ==
  \E j \in (i + 1)..Len(es) : es[j].name = es[i].name /\ es[j].depth = es[i].depth

\* What a call of processLevel used it has put out, or it is overridden.
Accounted(es, used, result) ==
  \A i \in result.used :
    \/ i \in used
    \/ \E k \in 1..Len(result.out) : result.out[k] = i
    \/ Overridden(es, i)

Between(s, c, t) == (s \o <<c>>) \o t
Occurs(s, c) == \E m \in 1..Len(s) : s[m] = c

LEMMA OneBetween ==
  ASSUME NEW V, NEW s \in Seq(V), NEW t \in Seq(V), NEW c \in V
  PROVE  /\ \A k \in 1..Len(s) : Occurs(Between(s, c, t), s[k])
         /\ Occurs(Between(s, c, t), c)
         /\ \A k \in 1..Len(t) : Occurs(Between(s, c, t), t[k])
<1> DEFINE h == s \o <<c>>
           out == h \o t
<1>1. <<c>> \in Seq(V) /\ Len(<<c>>) = 1 /\ <<c>>[1] = c /\ Len(s) \in Nat /\ Len(t) \in Nat
  OBVIOUS
<1>2. /\ h \in Seq(V) /\ Len(h) = Len(s) + 1
      /\ \A k \in 1..Len(s) : h[k] = s[k]
      /\ h[Len(s) + 1] = c
  BY <1>1
<1> HIDE DEF h
<1>3. /\ Len(out) = Len(h) + Len(t)
      /\ \A k \in 1..Len(h) : out[k] = h[k]
      /\ \A k \in 1..Len(t) : out[Len(h) + k] = t[k]
  BY <1>1, <1>2
<1> HIDE DEF out
<1>4. \A k \in 1..Len(h) : k \in 1..Len(out)
  BY <1>1, <1>2, <1>3
<1>5. \A k \in 1..Len(s) : k \in 1..Len(h)
  BY <1>1, <1>2
<1>6. Len(s) + 1 \in 1..Len(h)
  BY <1>1, <1>2
<1>7. \A k \in 1..Len(t) : Len(h) + k \in 1..Len(out)
  BY <1>1, <1>2, <1>3
<1>8. \A k \in 1..Len(s) : k \in 1..Len(out) /\ out[k] = s[k]
  BY <1>2, <1>3, <1>4, <1>5
<1>9. Len(s) + 1 \in 1..Len(out) /\ out[Len(s) + 1] = c
  BY <1>2, <1>3, <1>4, <1>6
<1>10. \A k \in 1..Len(t) : Len(h) + k \in 1..Len(out) /\ out[Len(h) + k] = t[k]
  BY <1>3, <1>7
<1>11. Between(s, c, t) = out
  BY DEF Between, out, h
<1> QED
  BY <1>8, <1>9, <1>10, <1>11 DEF Occurs

LEMMA EmitAccounts ==
  ASSUME NEW es, NEW used, NEW f \in Processes(Len(es)), NEW acc \in Results(Len(es)),
         NEW c \in 1..Len(es), Len(es) \in Nat, Accounted(es, used, acc),
         \A u \in SUBSET (1..Len(es)) : Accounted(es, u, f[c][u])
  PROVE  Accounted(es, used, Emit(f, acc, c))
<1> DEFINE n == Len(es)
           u == acc.used \cup {c}
           sub == f[c][u]
           out == Between(acc.out, c, sub.out)
           next == Emit(f, acc, c)
<1>1. acc.used \in SUBSET (1..n) /\ acc.out \in Seq(1..n)
  BY DEF Results
<1>2. u \in SUBSET (1..n) /\ c \in 0..n
  BY <1>1
<1>3. sub \in Results(n) /\ Accounted(es, u, sub)
  <2> HIDE DEF u
  <2> QED
    BY <1>2 DEF Processes
<1>4. next.used = sub.used /\ next.out = out
  BY DEF Emit, Between
<1> HIDE DEF sub, next
<1>5. sub.out \in Seq(1..n)
  BY <1>3 DEF Results
<1>6. /\ \A k \in 1..Len(acc.out) : Occurs(out, acc.out[k])
      /\ Occurs(out, c)
      /\ \A k \in 1..Len(sub.out) : Occurs(out, sub.out[k])
  <2> DEFINE s == acc.out
             t == sub.out
             V == 1..n
  <2>1. s \in Seq(V) /\ t \in Seq(V) /\ c \in V
    BY <1>1, <1>5
  <2> HIDE DEF s, t, V
  <2>2. /\ \A k \in 1..Len(s) : Occurs(Between(s, c, t), s[k])
        /\ Occurs(Between(s, c, t), c)
        /\ \A k \in 1..Len(t) : Occurs(Between(s, c, t), t[k])
    BY ONLY <2>1, OneBetween, SMT
  <2> QED
    BY <2>2 DEF s, t
<1> HIDE DEF out
<1>7. ASSUME NEW i \in next.used, i \notin used, ~Overridden(es, i)
      PROVE  Occurs(out, i)
  <2>1. CASE \E k \in 1..Len(sub.out) : sub.out[k] = i
    BY <1>6, <2>1
  <2>2. CASE i = c
    BY <1>6, <2>2
  <2>3. CASE i \in acc.used
    <3>1. PICK k \in 1..Len(acc.out) : acc.out[k] = i
      BY <1>7, <2>3 DEF Accounted
    <3> QED
      BY <1>6, <3>1
  <2>4. i \in u \/ \E k \in 1..Len(sub.out) : sub.out[k] = i
    BY <1>3, <1>4, <1>7 DEF Accounted
  <2> QED
    BY <2>1, <2>2, <2>3, <2>4
<1> QED
  BY <1>4, <1>7 DEF Accounted, Occurs, next

\* A level is the walk over what is kept of it; what is not is overridden by
\* what is.
LEMMA LevelAccounts ==
  ASSUME NEW es, IsList(es), NEW f \in Processes(Len(es)), NEW p \in 0..Len(es),
         NEW used \in SUBSET (1..Len(es)),
         \A c \in (p + 1)..Len(es) : \A u \in SUBSET (1..Len(es)) : Accounted(es, u, f[c][u])
  PROVE  Accounted(es, used, ProcessLevel(es, f, p, used))
<1> DEFINE n == Len(es)
           level == LevelOf(es, p, used)
           kept == LastOfName(es, level)
           seq == Ranked(es, kept)
           base == [used |-> used \cup (level \ kept), out |-> <<>>]
<1>1. n \in Nat
  BY DEF IsList
<1>2. CASE p # 0 /\ ~IsDir(es[p])
  <2>1. ProcessLevel(es, f, p, used) = [used |-> used, out |-> <<>>]
    BY <1>2 DEF ProcessLevel
  <2> QED
    BY <2>1 DEF Accounted
<1>3. CASE p = 0 \/ IsDir(es[p])
  <2>1. /\ level \in SUBSET ((p + 1)..n) /\ kept \in SUBSET level
        /\ level \in SUBSET (1..n)
    BY LevelIsAfter
  <2>2. /\ kept \in SUBSET (1..n) /\ kept \in SUBSET ((p + 1)..n)
        /\ \A a, b \in kept : es[a].name = es[b].name => a = b
    <3>1. \A a, b \in kept : es[a].name = es[b].name => a = b
      BY LevelIsAfter
    <3> QED
      BY <2>1, <3>1
  <2>3. PICK a : /\ a[0] = base
                 /\ \A k \in 1..Len(seq) : a[k] = Emit(f, a[k - 1], seq[k])
                 /\ ProcessLevel(es, f, p, used) = a[Len(seq)]
    BY ONLY IsList(es), <1>3, LevelWalk
  <2>4. \A i, j \in level : es[i].depth = es[j].depth
    BY DEF LevelOf
  <2>5. ASSUME NEW i \in level, i \notin kept
        PROVE  Overridden(es, i)
    <3>1. PICK j \in level : j > i /\ es[j].name = es[i].name
      BY <2>5 DEF LastOfName
    <3>2. j \in (i + 1)..n /\ es[j].depth = es[i].depth
      <4>1. i \in 1..n /\ j \in 1..n
        BY <2>1
      <4> QED
        BY <1>1, <2>4, <3>1, <4>1
    <3> QED
      BY <3>1, <3>2 DEF Overridden
  <2>6. base \in Results(n) /\ Accounted(es, used, base)
    <3>1. used \cup (level \ kept) \in SUBSET (1..n)
      BY <2>1
    <3>2. base \in Results(n)
      BY <3>1, EmptySeq DEF Results
    <3>3. base.used = used \cup (level \ kept)
      OBVIOUS
    <3> HIDE DEF base, level, kept
    <3>4. \A i \in base.used : i \in used \/ Overridden(es, i)
      BY <2>5, <3>3
    <3> QED
      BY <3>2, <3>4 DEF Accounted
  <2> HIDE DEF base, kept, level
  <2>7. seq \in Seq(kept)
    BY <2>2, RankedInOrder DEF Enumerating
  <2> HIDE DEF seq
  <2>8. Len(seq) \in Nat /\ \A k \in 1..Len(seq) : seq[k] \in 1..n /\ seq[k] \in (p + 1)..n
    <3>1. Len(seq) \in Nat /\ \A k \in 1..Len(seq) : seq[k] \in kept
      BY ONLY <2>7
    <3> QED
      BY ONLY <2>2, <3>1
  <2> DEFINE S == {k \in Nat : k <= Len(seq) => a[k] \in Results(n) /\ Accounted(es, used, a[k])}
  <2>9. 0 \in S
    BY <2>3, <2>6
  <2>10. ASSUME NEW k \in Nat, k \in S
         PROVE  k + 1 \in S
    <3> SUFFICES ASSUME k + 1 <= Len(seq)
                 PROVE  a[k + 1] \in Results(n) /\ Accounted(es, used, a[k + 1])
      OBVIOUS
    <3> DEFINE c == seq[k + 1]
    <3>1. k + 1 \in 1..Len(seq) /\ (k + 1) - 1 = k
          /\ a[k] \in Results(n) /\ Accounted(es, used, a[k])
      BY <2>8, <2>10
    <3>2. a[k + 1] = Emit(f, a[k], c)
      BY <2>3, <3>1
    <3>3. c \in 1..n /\ c \in (p + 1)..n
      BY <2>8, <3>1
    <3> HIDE DEF c
    <3>4. \A u \in SUBSET (1..n) : Accounted(es, u, f[c][u])
      BY <3>3
    <3>5. Emit(f, a[k], c) \in Results(n)
      BY <1>1, <3>1, <3>3, EmitTyped
    <3>6. Accounted(es, used, Emit(f, a[k], c))
      BY <1>1, <3>1, <3>3, <3>4, EmitAccounts
    <3> QED
      BY <3>2, <3>5, <3>6
  <2>11. Nat \subseteq S
    <3> HIDE DEF S
    <3> QED
      BY <2>9, <2>10, Walk!NatInSet
  <2> QED
    BY <2>3, <2>8, <2>11
<1> QED
  BY <1>2, <1>3

\* Each entry is in the sorted list or overridden, in any list.
LEMMA SortLosesOnly ==
  ASSUME NEW es, IsList(es), NEW i \in 1..Len(es)
  PROVE  \/ \E k \in 1..Len(SortEntries(es)) : SortEntries(es)[k] = es[i]
         \/ Overridden(es, i)
<1> DEFINE n == Len(es)
<1>1. n \in Nat
  BY DEF IsList
<1>2. PICK f : /\ Solves(es, f, 0)
               /\ SortOrder(es) = f[0][{}].out \o InOrder(1..n \ f[0][{}].used, <)
  BY SortOrderIs
<1>3. f \in Processes(n)
  BY <1>2 DEF Solves
<1> DEFINE Good(p) == \A u \in SUBSET (1..n) : Accounted(es, u, f[p][u])
           S == {k \in Nat : \A p \in 0..n : p > n - k => Good(p)}
<1>4. 0 \in S
  BY <1>1
<1>5. ASSUME NEW k \in Nat, k \in S
      PROVE  k + 1 \in S
  <2> SUFFICES ASSUME NEW p \in 0..n, p > n - (k + 1), NEW u \in SUBSET (1..n)
               PROVE  Accounted(es, u, f[p][u])
    OBVIOUS
  <2>1. \A c \in (p + 1)..n : c \in 0..n /\ c > n - k
    BY <1>1
  <2>2. \A c \in (p + 1)..n : Good(c)
    BY <1>5, <2>1
  <2>3. Accounted(es, u, ProcessLevel(es, f, p, u))
    BY <1>3, <2>2, LevelAccounts
  <2>4. p >= 0
    BY <1>1
  <2> QED
    BY <1>2, <2>3, <2>4 DEF Solves
<1>6. Nat \subseteq S
  <2> HIDE DEF S
  <2> QED
    BY <1>4, <1>5, Walk!NatInSet
<1>7. Good(0)
  <2>1. n + 1 \in S
    <3>1. n + 1 \in Nat
      BY <1>1
    <3> HIDE DEF S
    <3> QED
      BY <1>6, <3>1
  <2> HIDE DEF Good
  <2> QED
    BY <1>1, <2>1
<1>8. f[0][{}] \in Results(n) /\ Accounted(es, {}, f[0][{}])
  <2>1. 0 \in 0..n /\ {} \in SUBSET (1..n)
    BY <1>1
  <2> HIDE DEF n
  <2> QED
    BY <1>3, <1>7, <2>1 DEF Processes, n
<1> DEFINE r == f[0][{}]
           rest == 1..n \ r.used
           tail == InOrder(rest, <)
           order == SortOrder(es)
<1>9. r.out \in Seq(1..n) /\ rest \in SUBSET (1..n)
  BY <1>8 DEF Results
<1>10. order = r.out \o tail
  BY <1>2
<1> HIDE DEF r, S, Good
<1>11. Enumerating(tail, rest)
  BY <1>1, <1>9, NumbersInOrder
<1> HIDE DEF rest, tail, order
<1>12. tail \in Seq(rest) /\ \A x \in rest : \E k \in 1..Len(tail) : tail[k] = x
  BY <1>11 DEF Enumerating
<1>13. tail \in Seq(1..n)
  BY <1>9, <1>12, WiderSeq
<1>14. /\ order \in Seq(1..n) /\ Len(order) = Len(r.out) + Len(tail)
       /\ Len(r.out) \in Nat /\ Len(tail) \in Nat
       /\ \A k \in 1..Len(r.out) : order[k] = r.out[k]
       /\ \A k \in 1..Len(tail) : order[Len(r.out) + k] = tail[k]
  BY <1>9, <1>10, <1>13
<1>15. (\E k \in 1..Len(order) : order[k] = i) \/ Overridden(es, i)
  <2>1. CASE i \in r.used
    <3>1. (\E k \in 1..Len(r.out) : r.out[k] = i) \/ Overridden(es, i)
      BY <1>8, <2>1 DEF Accounted, r
    <3>2. \A k \in 1..Len(r.out) : k \in 1..Len(order)
      BY <1>14
    <3> QED
      BY <1>14, <3>1, <3>2
  <2>2. CASE i \notin r.used
    <3>1. i \in rest
      BY <2>2 DEF rest
    <3>2. PICK k \in 1..Len(tail) : tail[k] = i
      BY <1>12, <3>1
    <3>3. Len(r.out) + k \in 1..Len(order) /\ order[Len(r.out) + k] = i
      BY <1>14, <3>2, SMTT(30)
    <3> QED
      BY <3>3
  <2> QED
    BY <2>1, <2>2
<1>16. es # <<>>
  BY <1>1
<1>17. SortEntries(es) = Pick(es, order)
  BY <1>16 DEF SortEntries, order
<1>18. /\ Len(Pick(es, order)) = Len(order)
       /\ \A k \in 1..Len(order) : Pick(es, order)[k] = es[order[k]]
  BY <1>14, PickIsList
<1> QED
  BY <1>15, <1>17, <1>18

LEMMA KeptIsList ==
  ASSUME NEW es, IsList(es), NEW S \in SUBSET (1..Len(es))
  PROVE  /\ IsList(Kept(es, S))
         /\ \A k \in 1..Len(Kept(es, S)) : \E i \in S : Kept(es, S)[k] = es[i]
<1> DEFINE order == InOrder(S, <)
<1>1. Len(es) \in Nat
  BY DEF IsList
<1>2. order \in Seq(S)
  BY <1>1, NumbersInOrder DEF Enumerating
<1>3. Kept(es, S) = Pick(es, order)
  BY DEF Kept
<1> HIDE DEF order
<1>4. order \in Seq(1..Len(es)) /\ \A k \in 1..Len(order) : order[k] \in S
  BY <1>2, WiderSeq
<1> QED
  BY <1>3, <1>4, PickIsList

-----------------------------------------------------------------------------
(* What stands below an entry of a nested list.                              *)

DepthIn(es, p) == IF p = 0 THEN 0 ELSE es[p].depth + 1

\* What follows entry p and is deeper, up to the first that is not; everything
\* for p = 0.
Below(es, p) ==
  {j \in (p + 1)..Len(es) : \A k \in (p + 1)..j : es[k].depth >= DepthIn(es, p)}

Span(es, c) == {c} \cup Below(es, c)

Blocks(es, K) == UNION {Span(es, c) : c \in K}

Kids(es, p) == {j \in Below(es, p) : es[j].depth = DepthIn(es, p)}

\* No two siblings have one name.
Distinct(es) ==
  \A p \in 0..Len(es) : \A a, b \in Kids(es, p) : es[a].name = es[b].name => a = b

LEMMA BelowFacts ==
  ASSUME NEW es, IsList(es), NEW p \in 0..Len(es), NEW j \in Below(es, p)
  PROVE  /\ j \in 1..Len(es)
         /\ p < j
         /\ es[j].depth >= DepthIn(es, p)
         /\ \A k \in (p + 1)..j : k \in Below(es, p)
<1>1. Len(es) \in Nat /\ p \in Nat
  BY DEF IsList
<1>2. j \in (p + 1)..Len(es) /\ \A k \in (p + 1)..j : es[k].depth >= DepthIn(es, p)
  BY DEF Below
<1>3. j \in 1..Len(es) /\ p < j /\ j \in (p + 1)..j
  BY <1>1, <1>2
<1>4. ASSUME NEW k \in (p + 1)..j
      PROVE  k \in Below(es, p)
  <2>1. k \in (p + 1)..Len(es) /\ \A x \in (p + 1)..k : x \in (p + 1)..j
    BY <1>1, <1>2
  <2> QED
    BY <1>2, <2>1 DEF Below
<1> QED
  BY <1>2, <1>3, <1>4

LEMMA DepthsAre ==
  ASSUME NEW es, IsList(es)
  PROVE  /\ Len(es) \in Nat
         /\ \A j \in 1..Len(es) : es[j].depth \in Nat
         /\ \A p \in 0..Len(es) : DepthIn(es, p) \in Nat
<1>1. Len(es) \in Nat /\ \A j \in 1..Len(es) : es[j].depth \in Nat
  BY DEF IsList
<1>2. ASSUME NEW p \in 0..Len(es)
      PROVE  DepthIn(es, p) \in Nat
  <2>1. p # 0 => p \in 1..Len(es)
    BY <1>1
  <2> QED
    BY <1>1, <2>1 DEF DepthIn
<1> QED
  BY <1>1, <1>2

LEMMA BelowNested ==
  ASSUME NEW es, IsList(es), NEW p \in 0..Len(es), NEW c \in Below(es, p)
  PROVE  Below(es, c) \subseteq Below(es, p) /\ Span(es, c) \subseteq Below(es, p)
<1> SUFFICES ASSUME NEW j \in Below(es, c)
             PROVE  j \in Below(es, p)
  BY DEF Span
<1>1. Len(es) \in Nat /\ p \in Nat
  BY DEF IsList
<1>2. c \in 1..Len(es) /\ p < c /\ es[c].depth >= DepthIn(es, p)
      /\ \A k \in (p + 1)..c : k \in Below(es, p)
  BY BelowFacts
<1>3. c \in 0..Len(es) /\ c # 0
  BY <1>1, <1>2
<1>4. j \in 1..Len(es) /\ c < j
  BY <1>3, BelowFacts
<1>5. \A k \in (c + 1)..j : es[k].depth >= es[c].depth + 1
  BY <1>3 DEF Below, DepthIn
<1>6. \A k \in (p + 1)..j : k \in (p + 1)..c \/ k \in (c + 1)..j
  BY <1>1, <1>2, <1>4
<1>7. \A k \in (p + 1)..c : es[k].depth >= DepthIn(es, p)
  BY BelowFacts
<1>8. \A k \in (c + 1)..j : es[k].depth >= DepthIn(es, p)
  <2> SUFFICES ASSUME NEW k \in (c + 1)..j
               PROVE  es[k].depth >= DepthIn(es, p)
    OBVIOUS
  <2>1. k \in 1..Len(es)
    BY <1>1, <1>2, <1>4
  <2>2. es[k].depth \in Nat /\ es[c].depth \in Nat /\ DepthIn(es, p) \in Nat
    BY <1>2, <2>1, DepthsAre
  <2> QED
    BY <1>2, <1>5, <2>2
<1>9. j \in (p + 1)..Len(es)
  BY <1>1, <1>2, <1>4
<1> QED
  BY <1>6, <1>7, <1>8, <1>9 DEF Below

\* Each entry below p is a kid of p or below one.
LEMMA KidOver ==
  ASSUME NEW es, IsList(es), Nested(es), NEW p \in 0..Len(es), NEW j \in Below(es, p)
  PROVE  \E c \in Kids(es, p) : j \in Span(es, c)
<1> DEFINE n == Len(es)
           d == DepthIn(es, p)
           T == {c \in 1..j : c > p /\ es[c].depth = d}
<1>1. n \in Nat /\ p \in Nat /\ d \in Nat
  BY DepthsAre
<1>2. j \in 1..n /\ p < j /\ \A k \in (p + 1)..j : k \in Below(es, p)
  BY BelowFacts
<1>3. \A k \in (p + 1)..j : k \in 1..n /\ es[k].depth \in Nat /\ es[k].depth >= d
  <2> SUFFICES ASSUME NEW k \in (p + 1)..j
               PROVE  k \in 1..n /\ es[k].depth \in Nat /\ es[k].depth >= d
    OBVIOUS
  <2>1. k \in 1..n /\ es[k].depth >= d
    BY <1>2, BelowFacts
  <2> QED
    BY <2>1, DepthsAre
<1>4. p + 1 \in (p + 1)..j
  BY <1>1, <1>2
<1>5. es[p + 1].depth = d
  <2>1. p + 1 \in 1..n /\ es[p + 1].depth \in Nat /\ es[p + 1].depth >= d
    BY <1>3, <1>4
  <2>2. \/ es[p + 1].depth = 0
        \/ p + 1 > 1 /\ es[p + 1].depth <= es[p].depth + (IF IsDir(es[p]) THEN 1 ELSE 0)
    <3>1. (p + 1) - 1 = p
      BY <1>1
    <3> QED
      BY <2>1, <3>1 DEF Nested
  <2>3. CASE es[p + 1].depth = 0
    BY <1>1, <2>1, <2>3
  <2>4. CASE es[p + 1].depth # 0
    <3>1. p # 0 /\ p \in 1..n
      BY <1>1, <2>2, <2>4
    <3>2. d = es[p].depth + 1 /\ es[p].depth \in Nat
      BY <3>1, DepthsAre DEF DepthIn
    <3> QED
      BY <2>1, <2>2, <2>4, <3>2
  <2> QED
    BY <2>3, <2>4
<1>6. p + 1 \in T
  BY <1>1, <1>2, <1>5
<1>7. j \in Nat
  BY <1>1, <1>2
<1>8. PICK c \in T : \A y \in T : y <= c
  <2> HIDE DEF T
  <2>1. T \in SUBSET (1..j)
    BY DEF T
  <2> QED
    BY <1>6, <1>7, <2>1, LastNumber
<1>9. c \in (p + 1)..j /\ es[c].depth = d
  BY <1>1, <1>7, <1>8
<1>10. c \in Kids(es, p)
  BY <1>2, <1>9 DEF Kids
<1>11. j \in Span(es, c)
  <2>1. CASE c = j
    BY <2>1 DEF Span
  <2>2. CASE c # j
    <3>1. c \in 1..n /\ c # 0 /\ es[c].depth \in Nat
      BY <1>1, <1>3, <1>9
    <3>2. ASSUME NEW k \in (c + 1)..j
          PROVE  es[k].depth >= es[c].depth + 1
      <4>1. k \in (p + 1)..j /\ k \in 1..j /\ k > p /\ ~(k <= c)
        BY <1>1, <1>7, <1>9
      <4>2. es[k].depth # d
        BY <1>8, <4>1
      <4>3. es[k].depth \in Nat /\ es[k].depth >= d
        BY <1>3, <4>1
      <4> QED
        BY <1>1, <1>9, <4>2, <4>3
    <3>3. j \in (c + 1)..n
      BY <1>1, <1>2, <1>9, <2>2
    <3> QED
      BY <3>1, <3>2, <3>3 DEF Span, Below, DepthIn
  <2> QED
    BY <2>1, <2>2
<1> QED
  BY <1>10, <1>11

\* A kid of p ends what is below the kids before it.
LEMMA KidsApart ==
  ASSUME NEW es, IsList(es), NEW p \in 0..Len(es),
         NEW a \in Kids(es, p), NEW b \in Kids(es, p), a # b
  PROVE  Span(es, a) \cap Span(es, b) = {}
<1>1. /\ Len(es) \in Nat /\ p \in Nat /\ DepthIn(es, p) \in Nat
      /\ a \in 1..Len(es) /\ b \in 1..Len(es)
      /\ es[a].depth = DepthIn(es, p) /\ es[b].depth = DepthIn(es, p)
  BY BelowFacts, DepthsAre DEF Kids
<1>2. ASSUME NEW x \in 1..Len(es), NEW y \in 1..Len(es), x < y,
             es[x].depth = es[y].depth, es[x].depth \in Nat, NEW j \in Span(es, x)
      PROVE  j < y
  <2>1. CASE j = x
    BY <1>2, <2>1
  <2>2. CASE j \in Below(es, x)
    <3>1. x \in 0..Len(es) /\ x # 0
      BY <1>1
    <3>2. j \in 1..Len(es) /\ \A k \in (x + 1)..j : es[k].depth >= es[x].depth + 1
      BY <2>2, <3>1, BelowFacts DEF Below, DepthIn
    <3>3. y \notin (x + 1)..j
      BY <1>2, <3>2
    <3> QED
      BY <1>1, <1>2, <3>2, <3>3
  <2> QED
    BY <2>1, <2>2 DEF Span
<1>3. ASSUME NEW x \in 1..Len(es), NEW j \in Span(es, x)
      PROVE  j >= x /\ j \in Int
  <2>1. x \in 0..Len(es)
    BY <1>1
  <2>2. j \in Below(es, x) => j \in 1..Len(es) /\ x < j
    BY <2>1, BelowFacts
  <2> QED
    BY <1>1, <2>2 DEF Span
<1>4. ASSUME NEW j \in Span(es, a), j \in Span(es, b)
      PROVE  FALSE
  <2>1. j >= a /\ j >= b /\ j \in Int
    BY <1>1, <1>3, <1>4
  <2>2. CASE a < b
    <3>1. j < b
      BY <1>1, <1>2, <2>2
    <3> QED
      BY <1>1, <2>1, <3>1
  <2>3. CASE b < a
    <3>1. j < a
      BY <1>1, <1>2, <1>4, <2>3
    <3> QED
      BY <1>1, <2>1, <3>1
  <2> QED
    BY <1>1, <2>2, <2>3
<1> QED
  BY <1>4

\* Where one kid of q is below c, all are.
LEMMA KidsTogether ==
  ASSUME NEW es, IsList(es), NEW c \in 1..Len(es), NEW q \in 0..Len(es),
         NEW i \in Below(es, c), i \in Kids(es, q)
  PROVE  Kids(es, q) \subseteq Below(es, c)
<1>1. Len(es) \in Nat /\ c \in 0..Len(es) /\ c # 0 /\ q \in Nat
  BY DepthsAre
<1>2. i \in 1..Len(es) /\ c < i /\ es[i].depth >= es[c].depth + 1
      /\ \A k \in (c + 1)..i : k \in Below(es, c)
  BY <1>1, BelowFacts DEF DepthIn
<1>3. q < i /\ es[i].depth = DepthIn(es, q)
      /\ \A k \in (q + 1)..i : es[k].depth >= DepthIn(es, q)
  BY BelowFacts DEF Kids, Below
<1>4. es[c].depth \in Nat /\ es[i].depth \in Nat
  BY <1>2, DepthsAre
<1>5. c \notin (q + 1)..i
  BY <1>2, <1>3, <1>4
<1>6. q = c \/ q \in (c + 1)..i
  BY <1>1, <1>2, <1>3, <1>5
<1>7. q = c \/ q \in Below(es, c)
  BY <1>2, <1>6
<1>8. Below(es, q) \subseteq Below(es, c)
  BY <1>1, <1>7, BelowNested
<1> QED
  BY <1>8 DEF Kids

-----------------------------------------------------------------------------
(* Sorted lists of indices.                                                  *)

\* In out parents come before what is below them, what is below an entry
\* stands together, and siblings stand in their order.
Orderly(es, out) ==
  \A k, m \in 1..Len(out) : k < m =>
    /\ out[k] \notin Below(es, out[m])
    /\ \A r \in 1..Len(out) :
         m < r /\ out[r] \in Below(es, out[k]) => out[m] \in Below(es, out[k])
    /\ \A p \in 0..Len(es) :
         out[k] \in Kids(es, p) /\ out[m] \in Kids(es, p) => SiblingLess(es[out[k]], es[out[m]])

Lists(es, out, S) == Enumerating(out, S) /\ Orderly(es, out)

\* Two sorted lists make one, when all of the second goes after the first.
Follows(es, X, Y) ==
  /\ X \cap Y = {}
  /\ \A i \in X, j \in Y : i \notin Below(es, j)
  /\ \A i \in X : (Y \cap Below(es, i) = {}) \/ (X = {i} /\ Y \subseteq Below(es, i))
  /\ \A i \in X, j \in Y, p \in 0..Len(es) :
       i \in Kids(es, p) /\ j \in Kids(es, p) => SiblingLess(es[i], es[j])

LEMMA ConcatParts ==
  ASSUME NEW X, NEW Y, NEW x \in Seq(X), NEW y \in Seq(Y)
  PROVE  /\ x \o y \in Seq(X \cup Y)
         /\ Len(x) \in Nat /\ Len(y) \in Nat
         /\ Len(x \o y) = Len(x) + Len(y)
         /\ \A k \in 1..Len(x) : (x \o y)[k] = x[k] /\ x[k] \in X
         /\ \A k \in 1..(Len(x) + Len(y)) : k > Len(x) =>
              /\ k - Len(x) \in 1..Len(y)
              /\ (x \o y)[k] = y[k - Len(x)]
              /\ y[k - Len(x)] \in Y
         /\ \A k \in 1..Len(y) : k + Len(x) \in 1..(Len(x) + Len(y))
                                 /\ (x \o y)[k + Len(x)] = y[k]
<1>1. x \in Seq(X \cup Y) /\ y \in Seq(X \cup Y)
  BY WiderSeq
<1>2. Len(x) \in Nat /\ Len(y) \in Nat
  OBVIOUS
<1>3. /\ x \o y \in Seq(X \cup Y)
      /\ Len(x \o y) = Len(x) + Len(y)
      /\ \A k \in 1..(Len(x) + Len(y)) :
           (x \o y)[k] = IF k <= Len(x) THEN x[k] ELSE y[k - Len(x)]
  BY <1>1, ConcatProperties
<1>4. \A k \in 1..Len(x) : (x \o y)[k] = x[k]
  BY <1>2, <1>3
<1>5. \A k \in 1..Len(x) : x[k] \in X
  BY WiderSeq
<1>6. \A k \in 1..Len(y) : y[k] \in Y
  BY WiderSeq
<1>7. \A k \in 1..(Len(x) + Len(y)) : k > Len(x) =>
        k - Len(x) \in 1..Len(y) /\ (x \o y)[k] = y[k - Len(x)]
  BY <1>2, <1>3
<1>8. \A k \in 1..Len(y) : k + Len(x) \in 1..(Len(x) + Len(y))
                           /\ k + Len(x) > Len(x) /\ (k + Len(x)) - Len(x) = k
  BY <1>2
<1> QED
  BY <1>2, <1>3, <1>4, <1>5, <1>6, <1>7, <1>8

LEMMA Join ==
  ASSUME NEW es, NEW X, NEW Y, NEW x, NEW y,
         Lists(es, x, X), Lists(es, y, Y), Follows(es, X, Y)
  PROVE  Lists(es, x \o y, X \cup Y)
<1> DEFINE z == x \o y
           a == Len(x)
           b == Len(y)
<1>1. x \in Seq(X) /\ y \in Seq(Y)
  BY DEF Lists, Enumerating
<1>2. /\ z \in Seq(X \cup Y) /\ a \in Nat /\ b \in Nat /\ Len(z) = a + b
      /\ \A k \in 1..a : z[k] = x[k] /\ x[k] \in X
      /\ \A k \in 1..(a + b) : k > a =>
           k - a \in 1..b /\ z[k] = y[k - a] /\ y[k - a] \in Y
      /\ \A k \in 1..b : k + a \in 1..(a + b) /\ z[k + a] = y[k]
  BY <1>1, ConcatParts
<1> HIDE DEF z, a, b
<1>3. \A k \in 1..(a + b) : k <= a => k \in 1..a
  BY <1>2
<1>4. Enumerating(z, X \cup Y)
  <2>1. ASSUME NEW i \in X \cup Y
        PROVE  \E k \in 1..(a + b) : z[k] = i
    <3>1. CASE i \in X
      <4>1. PICK k \in 1..a : x[k] = i
        BY <3>1 DEF Lists, Enumerating, a
      <4>2. k \in 1..(a + b)
        BY <1>2
      <4> QED
        BY <1>2, <4>1, <4>2
    <3>2. CASE i \in Y
      <4>1. PICK k \in 1..b : y[k] = i
        BY <3>2 DEF Lists, Enumerating, b
      <4> QED
        BY <1>2, <4>1
    <3> QED
      BY <3>1, <3>2
  <2>2. ASSUME NEW k \in 1..(a + b), NEW m \in 1..(a + b), z[k] = z[m]
        PROVE  k = m
    <3>1. X \cap Y = {}
      BY DEF Follows
    <3>2. CASE k <= a /\ m <= a
      <4>1. k \in 1..a /\ m \in 1..a /\ x[k] = x[m]
        BY <1>2, <1>3, <2>2, <3>2
      <4> QED
        BY <4>1 DEF Lists, Enumerating, a
    <3>3. CASE k > a /\ m > a
      <4>1. k - a \in 1..b /\ m - a \in 1..b /\ y[k - a] = y[m - a]
        BY <1>2, <2>2, <3>3
      <4>2. k - a = m - a
        BY <4>1 DEF Lists, Enumerating, b
      <4> QED
        BY <1>2, <4>2
    <3>4. k <= a /\ m > a => FALSE
      BY <1>2, <1>3, <2>2, <3>1
    <3>5. m <= a /\ k > a => FALSE
      BY <1>2, <1>3, <2>2, <3>1
    <3>6. (k <= a \/ k > a) /\ (m <= a \/ m > a)
      BY <1>2
    <3> QED
      BY <3>2, <3>3, <3>4, <3>5, <3>6
  <2> QED
    BY <1>2, <2>1, <2>2 DEF Enumerating
<1>5. ASSUME NEW k \in 1..(a + b), NEW m \in 1..(a + b), k < m
      PROVE  /\ z[k] \notin Below(es, z[m])
             /\ \A r \in 1..(a + b) :
                  m < r /\ z[r] \in Below(es, z[k]) => z[m] \in Below(es, z[k])
             /\ \A p \in 0..Len(es) :
                  z[k] \in Kids(es, p) /\ z[m] \in Kids(es, p) => SiblingLess(es[z[k]], es[z[m]])
  <2>1. (k <= a \/ k > a) /\ (m <= a \/ m > a)
    BY <1>2
  <2>2. CASE m <= a
    <3>1. k \in 1..a /\ m \in 1..a /\ z[k] = x[k] /\ z[m] = x[m] /\ x[k] \in X /\ x[m] \in X
      BY <1>2, <1>3, <1>5, <2>2
    <3>2. /\ x[k] \notin Below(es, x[m])
          /\ \A r \in 1..a : m < r /\ x[r] \in Below(es, x[k]) => x[m] \in Below(es, x[k])
          /\ \A p \in 0..Len(es) :
               x[k] \in Kids(es, p) /\ x[m] \in Kids(es, p) => SiblingLess(es[x[k]], es[x[m]])
      BY <1>5, <3>1 DEF Lists, Orderly, a
    <3>3. ASSUME NEW r \in 1..(a + b), m < r, z[r] \in Below(es, z[k])
          PROVE  z[m] \in Below(es, z[k])
      <4>1. CASE r <= a
        <5>1. r \in 1..a /\ z[r] = x[r]
          BY <1>2, <1>3, <4>1
        <5> QED
          BY <3>1, <3>2, <3>3, <5>1
      <4>2. CASE r > a
        <5>1. z[r] \in Y
          BY <1>2, <4>2
        <5>2. X = {x[k]}
          BY <3>1, <3>3, <5>1 DEF Follows
        <5>3. x[m] = x[k]
          BY <3>1, <5>2
        <5>4. m = k
          BY <3>1, <5>3 DEF Lists, Enumerating, a
        <5> QED
          BY <1>2, <1>5, <5>4
      <4> QED
        BY <1>2, <4>1, <4>2
    <3> QED
      BY <3>1, <3>2, <3>3
  <2>3. CASE k <= a /\ m > a
    <3>1. k \in 1..a /\ z[k] = x[k] /\ x[k] \in X /\ z[m] \in Y
      BY <1>2, <1>3, <2>3
    <3>2. ASSUME NEW r \in 1..(a + b), m < r, z[r] \in Below(es, z[k])
          PROVE  z[m] \in Below(es, z[k])
      <4>1. r > a
        BY <1>2, <2>3, <3>2
      <4>2. z[r] \in Y
        BY <1>2, <4>1
      <4>3. Y \subseteq Below(es, z[k])
        BY <3>1, <3>2, <4>2 DEF Follows
      <4> QED
        BY <3>1, <4>3
    <3> QED
      BY <3>1, <3>2 DEF Follows
  <2>4. CASE k > a
    <3>1. m > a
      BY <1>2, <1>5, <2>4
    <3>2. /\ k - a \in 1..b /\ m - a \in 1..b /\ k - a < m - a
          /\ z[k] = y[k - a] /\ z[m] = y[m - a]
      BY <1>2, <1>5, <2>4, <3>1
    <3>3. /\ y[k - a] \notin Below(es, y[m - a])
          /\ \A r \in 1..b : m - a < r /\ y[r] \in Below(es, y[k - a])
                               => y[m - a] \in Below(es, y[k - a])
          /\ \A p \in 0..Len(es) :
               y[k - a] \in Kids(es, p) /\ y[m - a] \in Kids(es, p)
                 => SiblingLess(es[y[k - a]], es[y[m - a]])
      <4> DEFINE k1 == k - a
                 m1 == m - a
      <4>1. k1 \in 1..b /\ m1 \in 1..b /\ k1 < m1
        BY <3>2
      <4> HIDE DEF k1, m1
      <4>2. /\ y[k1] \notin Below(es, y[m1])
            /\ \A r \in 1..b : m1 < r /\ y[r] \in Below(es, y[k1]) => y[m1] \in Below(es, y[k1])
            /\ \A p \in 0..Len(es) :
                 y[k1] \in Kids(es, p) /\ y[m1] \in Kids(es, p) => SiblingLess(es[y[k1]], es[y[m1]])
        BY <4>1 DEF Lists, Orderly, b
      <4> QED
        BY <4>2 DEF k1, m1
    <3>4. ASSUME NEW r \in 1..(a + b), m < r, z[r] \in Below(es, z[k])
          PROVE  z[m] \in Below(es, z[k])
      <4>1. r > a /\ m - a < r - a
        BY <1>2, <3>1, <3>4
      <4>2. r - a \in 1..b /\ z[r] = y[r - a]
        BY <1>2, <4>1
      <4> QED
        BY <3>2, <3>3, <3>4, <4>1, <4>2
    <3> QED
      BY <3>2, <3>3, <3>4
  <2> QED
    BY <2>1, <2>2, <2>3, <2>4
<1>6. Orderly(es, z)
  BY <1>2, <1>5 DEF Orderly
<1> QED
  BY <1>4, <1>6 DEF Lists, z

LEMMA ListsNone ==
  ASSUME NEW es
  PROVE  Lists(es, <<>>, {})
<1>1. <<>> \in Seq({}) /\ Len(<<>>) = 0 /\ 1..0 = {}
  BY EmptySeq
<1> QED
  BY <1>1 DEF Lists, Enumerating, Orderly

LEMMA ListsOne ==
  ASSUME NEW es, NEW c
  PROVE  Lists(es, <<c>>, {c})
<1>1. <<c>> \in Seq({c}) /\ Len(<<c>>) = 1 /\ <<c>>[1] = c /\ 1..1 = {1}
  OBVIOUS
<1>2. Enumerating(<<c>>, {c})
  BY <1>1 DEF Enumerating
<1>3. \A k, m \in 1..Len(<<c>>) : ~(k < m)
  BY <1>1
<1> QED
  BY <1>2, <1>3 DEF Lists, Orderly

-----------------------------------------------------------------------------
(* processLevel lists what is below an entry.                                *)

\* Whatever is unused after what is below p comes after an unused entry that is
\* no deeper than p.
Fenced(es, p, used) ==
  \A j \in (p + 1)..Len(es) : j \notin used /\ j \notin Below(es, p) =>
    \E i \in (p + 1)..j : i \notin used /\ i \notin Below(es, p) /\ es[i].depth < DepthIn(es, p)

Sorts(es, process, p) ==
  \A used \in SUBSET (1..Len(es)) :
    used \cap Below(es, p) = {} /\ Fenced(es, p, used) =>
      /\ process[p][used].used = used \cup Below(es, p)
      /\ Lists(es, process[p][used].out, Below(es, p))

\* Then processLevel finds the kids of p, all of them and no other.
LEMMA LevelIsKids ==
  ASSUME NEW es, IsList(es), NEW p \in 0..Len(es), NEW used \in SUBSET (1..Len(es)),
         used \cap Below(es, p) = {}, Fenced(es, p, used)
  PROVE  LevelOf(es, p, used) = Kids(es, p)
<1> DEFINE n == Len(es)
           d == DepthIn(es, p)
           unused == (p + 1)..n \ used
           Ends(i) == \E j \in unused : j < i /\ es[j].depth < d
<1>1. n \in Nat /\ p \in Nat /\ d \in Nat
  BY DepthsAre
<1>2. LevelOf(es, p, used) = {i \in unused : es[i].depth = d /\ ~Ends(i)}
  BY DEF LevelOf, DepthIn
<1>3. ASSUME NEW i \in Kids(es, p)
      PROVE  i \in unused /\ es[i].depth = d /\ ~Ends(i)
  <2>1. i \in Below(es, p) /\ es[i].depth = d
    BY DEF Kids
  <2>2. i \in 1..n /\ p < i /\ \A k \in (p + 1)..i : es[k].depth >= d
    BY <2>1, BelowFacts DEF Below
  <2>3. i \in unused
    BY <1>1, <2>1, <2>2
  <2>4. ASSUME NEW j \in unused, j < i, es[j].depth < d
        PROVE  FALSE
    <3>1. j \in (p + 1)..i /\ j \in 1..n
      BY <1>1, <2>2, <2>4
    <3>2. es[j].depth \in Nat
      BY <3>1, DepthsAre
    <3> QED
      BY <1>1, <2>2, <2>4, <3>1, <3>2
  <2> QED
    BY <2>1, <2>3, <2>4
<1>4. ASSUME NEW i \in unused, es[i].depth = d, ~Ends(i)
      PROVE  i \in Kids(es, p)
  <2>1. CASE i \in Below(es, p)
    BY <1>4, <2>1 DEF Kids
  <2>2. CASE i \notin Below(es, p)
    <3>1. PICK j \in (p + 1)..i : j \notin used /\ j \notin Below(es, p) /\ es[j].depth < d
      BY <2>2 DEF Fenced
    <3>2. j \in unused /\ (j < i \/ j = i)
      BY <1>1, <3>1
    <3>3. j # i
      BY <1>1, <1>4, <3>1
    <3> QED
      BY <1>4, <3>1, <3>2, <3>3
  <2> QED
    BY <2>1, <2>2
<1> HIDE DEF unused, Ends, d
<1> QED
  BY <1>2, <1>3, <1>4 DEF Kids, d

LEMMA DistinctKept ==
  ASSUME NEW es, IsList(es), Distinct(es), NEW p \in 0..Len(es)
  PROVE  LastOfName(es, Kids(es, p)) = Kids(es, p)
<1>1. \A i \in Kids(es, p) : i \in Int
  BY BelowFacts DEF Kids
<1>2. \A i, j \in Kids(es, p) : es[j].name = es[i].name => ~(j > i)
  BY <1>1 DEF Distinct
<1> QED
  BY <1>2 DEF LastOfName

\* The call for a kid c of p, after those for the kids in K, which are less.
KidCall(es, p, used, c, K) ==
  /\ p \in 0..Len(es)
  /\ used \in SUBSET (1..Len(es))
  /\ used \cap Below(es, p) = {}
  /\ Fenced(es, p, used)
  /\ c \in Kids(es, p)
  /\ K \in SUBSET (Kids(es, p) \ {c})
  /\ \A x \in K : SiblingLess(es[x], es[c])

\* In it c is fenced again.
LEMMA KidFenced ==
  ASSUME NEW es, IsList(es), Nested(es), NEW p, NEW used, NEW c, NEW K, NEW u,
         KidCall(es, p, used, c, K), u = (used \cup Blocks(es, K)) \cup {c}
  PROVE  /\ u \in SUBSET (1..Len(es))
         /\ u \cap Below(es, c) = {}
         /\ Fenced(es, c, u)
<1> USE DEF KidCall
<1> DEFINE n == Len(es)
           D == UNION {Span(es, x) : x \in K}
<1>a. u = (used \cup D) \cup {c}
  BY DEF Blocks
<1>1. n \in Nat /\ p \in Nat /\ DepthIn(es, p) \in Nat
  BY DepthsAre
<1>2. \A x \in Kids(es, p) : /\ x \in 1..n /\ x \in 0..n /\ x # 0 /\ p < x
                             /\ x \in Below(es, p) /\ es[x].depth = DepthIn(es, p)
                             /\ Below(es, x) \subseteq Below(es, p)
                             /\ Span(es, x) \subseteq Below(es, p)
                             /\ x \in Span(es, x)
  <2> SUFFICES ASSUME NEW x \in Kids(es, p)
               PROVE  /\ x \in 1..n /\ x \in 0..n /\ x # 0 /\ p < x
                      /\ x \in Below(es, p) /\ es[x].depth = DepthIn(es, p)
                      /\ Below(es, x) \subseteq Below(es, p)
                      /\ Span(es, x) \subseteq Below(es, p)
                      /\ x \in Span(es, x)
    OBVIOUS
  <2>1. x \in Below(es, p) /\ es[x].depth = DepthIn(es, p)
    BY DEF Kids
  <2>2. x \in 1..n /\ p < x
    BY <2>1, BelowFacts
  <2>3. Below(es, x) \subseteq Below(es, p) /\ Span(es, x) \subseteq Below(es, p)
    BY <2>1, BelowNested
  <2> QED
    BY <1>1, <2>1, <2>2, <2>3 DEF Span
<1>3. D \subseteq Below(es, p)
  BY <1>2
<1>4. D \cap Span(es, c) = {}
  <2>1. \A x \in K : Span(es, x) \cap Span(es, c) = {}
    BY KidsApart
  <2> QED
    BY <2>1
<1>5. Below(es, p) \subseteq 1..n
  BY BelowFacts
<1>6. u = (used \cup D) \cup {c}
  BY <1>a
<1> HIDE DEF D
<1>7. c \notin Below(es, c)
  BY <1>2, BelowFacts
<1>8. Fenced(es, c, u)
  <2> SUFFICES ASSUME NEW j \in (c + 1)..n, j \notin u, j \notin Below(es, c)
               PROVE  \E i \in (c + 1)..j : /\ i \notin u /\ i \notin Below(es, c)
                                            /\ es[i].depth < DepthIn(es, c)
    BY DEF Fenced
  <2>1. j \in 1..n /\ c < j /\ j \notin Span(es, c)
    BY <1>2 DEF Span
  <2>a. DepthIn(es, c) = DepthIn(es, p) + 1
    BY <1>2 DEF DepthIn
  <2>2. CASE j \in Below(es, p)
    <3>1. PICK k \in Kids(es, p) : j \in Span(es, k)
      BY <2>2, KidOver
    <3>2. k # c
      BY <2>1, <3>1
    <3>3. k \notin K
      BY <1>6, <3>1 DEF D
    <3>4. k \notin u
      <4>1. k \notin used
        BY <1>2
      <4>2. k \notin D
        <5>1. \A x \in K : Span(es, x) \cap Span(es, k) = {}
          BY <3>3, KidsApart
        <5> QED
          BY <1>2, <5>1 DEF D
      <4> QED
        BY <1>6, <3>2, <4>1, <4>2
    <3>5. k \notin Below(es, c)
      <4>1. Span(es, k) \cap Span(es, c) = {}
        BY <3>2, KidsApart
      <4> QED
        BY <1>2, <4>1 DEF Span
    <3>6. c < k
      <4>1. k \in 1..n /\ c \in 1..n
        BY <1>2
      <4>2. ~(k < c)
        <5> SUFFICES ASSUME k < c PROVE FALSE
          OBVIOUS
        <5>1. j \in Below(es, k) \/ j = k
          BY <3>1 DEF Span
        <5>2. j # k
          BY <2>1, <4>1
        <5>3. c \in (k + 1)..j
          BY <2>1, <4>1
        <5>4. c \in Below(es, k)
          BY <1>2, <5>1, <5>2, <5>3, BelowFacts
        <5>5. Span(es, k) \cap Span(es, c) = {}
          BY <3>2, KidsApart
        <5> QED
          BY <1>2, <5>4, <5>5 DEF Span
      <4> QED
        BY <3>2, <4>1, <4>2
    <3>7. k <= j
      <4>1. j \in Below(es, k) => k < j
        BY <1>2, BelowFacts
      <4>2. j \in Below(es, k) \/ j = k
        BY <3>1 DEF Span
      <4> QED
        BY <1>2, <2>1, <4>1, <4>2
    <3>8. k \in (c + 1)..j /\ es[k].depth < DepthIn(es, c)
      BY <1>1, <1>2, <2>a, <3>6, <3>7
    <3> QED
      BY <3>4, <3>5, <3>8
  <2>3. CASE j \notin Below(es, p)
    <3>1. j \in (p + 1)..n /\ j \notin used
      BY <1>1, <1>2, <1>6, <2>1
    <3>2. PICK i \in (p + 1)..j : i \notin used /\ i \notin Below(es, p)
                                  /\ es[i].depth < DepthIn(es, p)
      BY <2>3, <3>1 DEF Fenced
    <3>3. i \notin (p + 1)..c
      BY <1>2, <3>2, BelowFacts
    <3>4. i \in (c + 1)..j
      BY <1>1, <1>2, <2>1, <3>2, <3>3
    <3>5. i \notin u /\ i \notin Below(es, c)
      BY <1>2, <1>3, <1>6, <3>2
    <3>6. es[i].depth < DepthIn(es, c)
      <4>1. i \in 1..n
        BY <1>1, <2>1, <3>2
      <4>2. es[i].depth \in Nat
        BY <4>1, DepthsAre
      <4> QED
        BY <1>1, <2>a, <3>2, <4>2
    <3> QED
      BY <3>4, <3>5, <3>6
  <2> QED
    BY <2>2, <2>3
<1>9. u \in SUBSET (1..n)
  BY <1>2, <1>3, <1>5, <1>6
<1>10. u \cap Below(es, c) = {}
  <2>1. D \cap Below(es, c) = {}
    BY <1>4 DEF Span
  <2>2. used \cap Below(es, c) = {}
    BY <1>2
  <2> QED
    BY <1>6, <1>7, <2>1, <2>2
<1> QED
  BY <1>8, <1>9, <1>10

\* What a kid and all below it make goes after the kids that are less.
LEMMA KidFollows ==
  ASSUME NEW es, IsList(es), NEW p, NEW used, NEW c, NEW K, KidCall(es, p, used, c, K)
  PROVE  /\ Follows(es, {c}, Below(es, c))
         /\ Follows(es, Blocks(es, K), Span(es, c))
<1> USE DEF KidCall
<1> DEFINE n == Len(es)
           D == UNION {Span(es, x) : x \in K}
<1>1. Blocks(es, K) = D
  BY DEF Blocks
<1>2. n \in Nat /\ \A x \in Kids(es, p) : x \in 1..n /\ x \in 0..n
  BY BelowFacts, DepthsAre DEF Kids
<1>3. ASSUME NEW x \in Kids(es, p), NEW i \in Span(es, x)
      PROVE  /\ i \in 1..n /\ i \in 0..n /\ i \in Int /\ i >= x
             /\ Below(es, i) \subseteq Span(es, x)
             /\ \A k \in Below(es, i) : k > i
  <2>1. x \in 0..n
    BY <1>2
  <2>2. i = x \/ i \in Below(es, x)
    BY DEF Span
  <2>3. i \in 1..n /\ i >= x
    BY <1>2, <2>1, <2>2, BelowFacts
  <2>4. i \in 0..n
    BY <1>2, <2>3
  <2>5. Below(es, i) \subseteq Below(es, x)
    BY <2>1, <2>2, BelowNested
  <2>6. \A k \in Below(es, i) : k > i
    BY <2>4, BelowFacts
  <2> QED
    BY <2>3, <2>4, <2>5, <2>6 DEF Span
<1>4. ASSUME NEW x \in Kids(es, p), NEW i \in Span(es, x), NEW q \in 0..n, i \in Kids(es, q),
             NEW y \in Kids(es, p), x # y, NEW j \in Span(es, y), j \in Kids(es, q)
      PROVE  i = x
  <2> SUFFICES ASSUME i # x PROVE FALSE
    OBVIOUS
  <2>1. i \in Below(es, x) /\ x \in 1..n
    BY <1>2 DEF Span
  <2>2. Kids(es, q) \subseteq Below(es, x)
    BY <1>4, <2>1, KidsTogether
  <2>3. j \in Span(es, x)
    BY <1>4, <2>2 DEF Span
  <2> QED
    BY <1>4, <2>3, KidsApart
<1>5. Follows(es, {c}, Below(es, c))
  <2>1. c \in 1..n /\ c \in 0..n /\ c \in Span(es, c) /\ c \in Int
    BY <1>2 DEF Span
  <2>2. c \notin Below(es, c)
    BY <2>1, BelowFacts
  <2>3. ASSUME NEW j \in Below(es, c)
        PROVE  c \notin Below(es, j)
    <3>1. j \in Span(es, c) /\ j > c
      BY <2>1, BelowFacts DEF Span
    <3> QED
      BY <1>3, <2>1, <3>1
  <2>4. ASSUME NEW j \in Below(es, c), NEW q \in 0..n, c \in Kids(es, q), j \in Kids(es, q)
        PROVE  FALSE
    <3>1. Kids(es, q) \subseteq Below(es, c)
      BY <2>1, <2>4, KidsTogether
    <3> QED
      BY <2>2, <2>4, <3>1
  <2> QED
    BY <2>2, <2>3, <2>4 DEF Follows
<1>6. Follows(es, D, Span(es, c))
  <2>1. \A x \in K : x \in Kids(es, p) /\ x # c /\ Span(es, x) \cap Span(es, c) = {}
    BY KidsApart
  <2>2. D \cap Span(es, c) = {}
    BY <2>1
  <2>3. \A i \in D, j \in Span(es, c) : i \notin Below(es, j)
    BY <1>3, <2>2
  <2>4. \A i \in D : Span(es, c) \cap Below(es, i) = {}
    <3> SUFFICES ASSUME NEW x \in K, NEW i \in Span(es, x)
                 PROVE  Span(es, c) \cap Below(es, i) = {}
      OBVIOUS
    <3>1. Below(es, i) \subseteq Span(es, x)
      BY <1>3, <2>1
    <3> QED
      BY <2>1, <3>1
  <2>5. ASSUME NEW x \in K, NEW i \in Span(es, x), NEW j \in Span(es, c), NEW q \in 0..n,
               i \in Kids(es, q), j \in Kids(es, q)
        PROVE  SiblingLess(es[i], es[j])
    <3>1. i = x
      BY <1>4, <2>1, <2>5
    <3>2. j = c
      BY <1>4, <2>1, <2>5
    <3> QED
      BY <3>1, <3>2
  <2> QED
    BY <2>2, <2>3, <2>4, <2>5 DEF Follows
<1> HIDE DEF D
<1> QED
  BY <1>1, <1>5, <1>6

LEMMA EmitSorts ==
  ASSUME NEW es, IsList(es), Nested(es), NEW p, NEW used, NEW c, NEW K,
         KidCall(es, p, used, c, K), NEW process, Sorts(es, process, c), NEW acc,
         acc.used = used \cup Blocks(es, K), Lists(es, acc.out, Blocks(es, K))
  PROVE  /\ Emit(process, acc, c).used = used \cup (Blocks(es, K) \cup Span(es, c))
         /\ Lists(es, Emit(process, acc, c).out, Blocks(es, K) \cup Span(es, c))
<1> DEFINE D == Blocks(es, K)
<1> HIDE DEF D
<1>1. acc.used = used \cup D /\ Lists(es, acc.out, D)
  BY DEF D
<1> DEFINE u == acc.used \cup {c}
           sub == process[c][u]
           out == sub.out
<1>2. u = (used \cup D) \cup {c} /\ u = (used \cup Blocks(es, K)) \cup {c}
  BY DEF D
<1> HIDE DEF u
<1>3. u \in SUBSET (1..Len(es)) /\ u \cap Below(es, c) = {} /\ Fenced(es, c, u)
  BY <1>2, KidFenced
<1>4. sub.used = u \cup Below(es, c) /\ Lists(es, out, Below(es, c))
  BY <1>3 DEF Sorts
<1> HIDE DEF sub
<1>5. /\ Emit(process, acc, c).used = sub.used
      /\ Emit(process, acc, c).out = (acc.out \o <<c>>) \o out
  BY DEF Emit, sub, u
<1> HIDE DEF out
<1>6. sub.used = used \cup (D \cup Span(es, c))
  BY <1>2, <1>4 DEF Span
<1>7. Follows(es, {c}, Below(es, c)) /\ Follows(es, D, Span(es, c))
  BY KidFollows DEF D
<1>8. Lists(es, <<c>> \o out, Span(es, c))
  BY <1>4, <1>7, ListsOne, Join DEF Span
<1>9. Lists(es, acc.out \o (<<c>> \o out), D \cup Span(es, c))
  BY <1>1, <1>7, <1>8, Join
<1>10. (acc.out \o <<c>>) \o out = acc.out \o (<<c>> \o out)
  <2> DEFINE V == D \cup Span(es, c)
             s == acc.out
  <2>1. s \in Seq(D) /\ out \in Seq(Below(es, c))
    BY <1>1, <1>4 DEF Lists, Enumerating
  <2>2. D \subseteq V /\ Below(es, c) \subseteq V /\ c \in V
    BY DEF Span
  <2> HIDE DEF V, s
  <2>3. s \in Seq(V) /\ out \in Seq(V) /\ <<c>> \in Seq(V)
    BY <2>1, <2>2, WiderSeq
  <2>4. (s \o <<c>>) \o out = s \o (<<c>> \o out)
    BY <2>3, ConcatAssociative
  <2> QED
    BY <2>4 DEF s
<1> QED
  BY <1>5, <1>6, <1>9, <1>10 DEF D

LEMMA NothingBelowFile ==
  ASSUME NEW es, IsList(es), Nested(es), NEW p \in 1..Len(es), ~IsDir(es[p])
  PROVE  Below(es, p) = {}
<1> SUFFICES ASSUME NEW j \in Below(es, p) PROVE FALSE
  OBVIOUS
<1>1. Len(es) \in Nat /\ es[p].depth \in Nat /\ p \in 0..Len(es) /\ p # 0 /\ (p + 1) - 1 = p
  BY DepthsAre
<1>2. p < j /\ j \in 1..Len(es) /\ \A k \in (p + 1)..j : k \in Below(es, p)
  BY <1>1, BelowFacts
<1>3. p + 1 \in (p + 1)..j /\ p + 1 \in 1..Len(es)
  BY <1>1, <1>2
<1>4. es[p + 1].depth >= es[p].depth + 1
  BY <1>1, <1>2, <1>3, BelowFacts DEF DepthIn
<1>5. es[p + 1].depth = 0 \/ es[p + 1].depth <= es[p].depth + 0
  BY <1>1, <1>3 DEF Nested
<1>6. es[p + 1].depth \in Nat
  BY <1>3, DepthsAre
<1> QED
  BY <1>1, <1>4, <1>5, <1>6

LEMMA ProcessSorts ==
  ASSUME NEW es, IsList(es), Nested(es), Distinct(es), NEW process, Solves(es, process, 0),
         NEW p \in 0..Len(es), \A c \in (p + 1)..Len(es) : Sorts(es, process, c)
  PROVE  Sorts(es, process, p)
<1> SUFFICES ASSUME NEW used \in SUBSET (1..Len(es)),
                    used \cap Below(es, p) = {}, Fenced(es, p, used)
             PROVE  /\ process[p][used].used = used \cup Below(es, p)
                    /\ Lists(es, process[p][used].out, Below(es, p))
  BY DEF Sorts
<1>1. Len(es) \in Nat /\ p \in Nat
  BY DepthsAre
<1>2. process[p][used] = ProcessLevel(es, process, p, used)
  <2>1. p >= 0
    BY <1>1
  <2> QED
    BY <2>1 DEF Solves
<1>3. CASE p # 0 /\ ~IsDir(es[p])
  <2>1. ProcessLevel(es, process, p, used) = [used |-> used, out |-> <<>>]
    BY <1>3 DEF ProcessLevel
  <2>2. p \in 1..Len(es)
    BY <1>1, <1>3
  <2>3. Below(es, p) = {}
    BY <1>3, <2>2, NothingBelowFile
  <2> QED
    BY <1>2, <2>1, <2>3, ListsNone
<1>4. CASE p = 0 \/ IsDir(es[p])
  <2> DEFINE level == LevelOf(es, p, used)
             kept == LastOfName(es, level)
             kids == Kids(es, p)
             seq == Ranked(es, kids)
             base == [used |-> used \cup (level \ kept), out |-> <<>>]
  <2>1. level = kids /\ kept = kids
    BY LevelIsKids, DistinctKept
  <2>2. \E a : /\ a[0] = base
               /\ \A k \in 1..Len(Ranked(es, kept)) :
                    a[k] = Emit(process, a[k - 1], Ranked(es, kept)[k])
               /\ ProcessLevel(es, process, p, used) = a[Len(Ranked(es, kept))]
    BY ONLY IsList(es), <1>4, LevelWalk
  <2>3. base.used = used /\ base.out = <<>>
    BY <2>1
  <2> HIDE DEF level, kept, base
  <2>4. PICK a : /\ a[0].used = used /\ a[0].out = <<>>
                 /\ \A k \in 1..Len(seq) : a[k] = Emit(process, a[k - 1], seq[k])
                 /\ ProcessLevel(es, process, p, used) = a[Len(seq)]
    <3> HIDE DEF kids
    <3> QED
      BY ONLY <2>1, <2>2, <2>3
  <2>5. kids \in SUBSET (1..Len(es)) /\ \A c \in kids : c \in (p + 1)..Len(es)
    <3>1. \A c \in kids : c \in 1..Len(es) /\ p < c
      BY BelowFacts DEF Kids
    <3> QED
      BY <1>1, <3>1
  <2>6. /\ Enumerating(seq, kids)
        /\ \A k, m \in 1..Len(seq) : k < m <=> SiblingLess(es[seq[k]], es[seq[m]])
    <3>1. \A x, y \in kids : es[x].name = es[y].name => x = y
      BY DEF Distinct
    <3> HIDE DEF kids
    <3> QED
      BY ONLY IsList(es), <2>5, <3>1, RankedInOrder
  <2> HIDE DEF seq
  <2>7. Len(seq) \in Nat /\ \A k \in 1..Len(seq) : seq[k] \in kids
    <3> HIDE DEF kids
    <3> QED
      BY <2>6 DEF Enumerating
  <2> DEFINE First(k) == {seq[x] : x \in 1..k}
             Done(k) == Blocks(es, First(k))
             T == {k \in Nat : k <= Len(seq) =>
                     a[k].used = used \cup Done(k) /\ Lists(es, a[k].out, Done(k))}
  <2>8. 0 \in T
    <3>1. First(0) = {}
      OBVIOUS
    <3>2. Done(0) = {}
      BY <3>1 DEF Blocks
    <3> HIDE DEF Done
    <3>3. a[0].used = used \cup Done(0) /\ Lists(es, a[0].out, Done(0))
      BY <2>4, <3>2, ListsNone
    <3> QED
      BY <3>3
  <2>9. ASSUME NEW k \in Nat, k \in T
        PROVE  k + 1 \in T
    <3> SUFFICES ASSUME k + 1 <= Len(seq)
                 PROVE  /\ a[k + 1].used = used \cup Done(k + 1)
                        /\ Lists(es, a[k + 1].out, Done(k + 1))
      OBVIOUS
    <3> DEFINE c == seq[k + 1]
               K == First(k)
               D == Done(k)
    <3>1. k + 1 \in 1..Len(seq) /\ (k + 1) - 1 = k /\ k <= Len(seq)
      BY <2>7
    <3>2. a[k].used = used \cup D /\ Lists(es, a[k].out, D)
      BY <2>9, <3>1
    <3>3. a[k + 1] = Emit(process, a[k], c)
      BY <2>4, <3>1
    <3>4. c \in kids /\ Sorts(es, process, c)
      BY <2>5, <2>7, <3>1
    <3>5. \A x \in 1..k : x \in 1..Len(seq) /\ x < k + 1
      BY <2>7, <3>1
    <3>6. \A x \in 1..k : seq[x] \in kids /\ seq[x] # c /\ SiblingLess(es[seq[x]], es[c])
      <4>1. \A x \in 1..k : seq[x] \in kids /\ SiblingLess(es[seq[x]], es[c])
        BY <2>6, <2>7, <3>1, <3>5
      <4>2. \A x \in 1..k : seq[x] = c => x = k + 1
        BY <2>6, <3>1, <3>5 DEF Enumerating
      <4> QED
        BY <3>5, <4>1, <4>2
    <3>7. K \in SUBSET (kids \ {c}) /\ \A x \in K : SiblingLess(es[x], es[c])
      BY <3>6
    <3>8. First(k + 1) = K \cup {c}
      <4>1. 1..(k + 1) = 1..k \cup {k + 1}
        OBVIOUS
      <4> QED
        BY <4>1
    <3>9. Done(k + 1) = D \cup Span(es, c)
      <4> HIDE DEF c
      <4> QED
        BY <3>8 DEF Blocks
    <3>10. D = Blocks(es, K)
      OBVIOUS
    <3> HIDE DEF c, D, K, Done
    <3>11. /\ Emit(process, a[k], c).used = used \cup (D \cup Span(es, c))
           /\ Lists(es, Emit(process, a[k], c).out, D \cup Span(es, c))
      <4>1. KidCall(es, p, used, c, K)
        BY <3>4, <3>7 DEF KidCall
      <4> DEFINE acc == a[k]
      <4>2. acc.used = used \cup Blocks(es, K) /\ Lists(es, acc.out, Blocks(es, K))
        BY <3>2, <3>10
      <4>3. Sorts(es, process, c)
        BY <3>4
      <4> HIDE DEF acc
      <4>4. /\ Emit(process, acc, c).used = used \cup (Blocks(es, K) \cup Span(es, c))
            /\ Lists(es, Emit(process, acc, c).out, Blocks(es, K) \cup Span(es, c))
        BY ONLY IsList(es), Nested(es), <4>1, <4>2, <4>3, EmitSorts
      <4> QED
        BY <3>10, <4>4 DEF acc
    <3> QED
      BY <3>3, <3>9, <3>11
  <2>10. Nat \subseteq T
    <3> HIDE DEF T
    <3> QED
      BY <2>8, <2>9, Walk!NatInSet
  <2>11. Done(Len(seq)) = Below(es, p)
    <3>1. First(Len(seq)) = kids
      <4>1. /\ \A k \in 1..Len(seq) : seq[k] \in kids
            /\ \A c \in kids : \E k \in 1..Len(seq) : seq[k] = c
        <5> HIDE DEF kids
        <5> QED
          BY <2>6, <2>7 DEF Enumerating
      <4> HIDE DEF kids
      <4> QED
        BY ONLY <4>1
    <3>2. \A x \in kids : Span(es, x) \subseteq Below(es, p)
      BY BelowNested DEF Kids
    <3>3. \A j \in Below(es, p) : \E x \in kids : j \in Span(es, x)
      BY KidOver
    <3> HIDE DEF kids, First
    <3> QED
      BY <3>1, <3>2, <3>3 DEF Blocks
  <2>12. Len(seq) \in T
    BY <2>7, <2>10
  <2> HIDE DEF Done
  <2>13. a[Len(seq)].used = used \cup Below(es, p) /\ Lists(es, a[Len(seq)].out, Below(es, p))
    BY <2>7, <2>11, <2>12
  <2> QED
    BY <1>2, <2>4, <2>13
<1> QED
  BY <1>3, <1>4

\* SortOrder lists all indices, sorted.
LEMMA SortOrderLists ==
  ASSUME NEW es, IsList(es), Nested(es), Distinct(es)
  PROVE  Lists(es, SortOrder(es), 1..Len(es))
<1> DEFINE n == Len(es)
<1>1. n \in Nat
  BY DepthsAre
<1>2. PICK f : /\ Solves(es, f, 0)
               /\ SortOrder(es) = f[0][{}].out \o InOrder(1..n \ f[0][{}].used, <)
  BY SortOrderIs
<1> DEFINE T == {k \in Nat : \A p \in 0..n : p > n - k => Sorts(es, f, p)}
<1>3. 0 \in T
  BY <1>1
<1>4. ASSUME NEW k \in Nat, k \in T
      PROVE  k + 1 \in T
  <2> SUFFICES ASSUME NEW p \in 0..n, p > n - (k + 1)
               PROVE  Sorts(es, f, p)
    OBVIOUS
  <2>1. \A c \in (p + 1)..n : c \in 0..n /\ c > n - k
    BY <1>1
  <2>2. \A c \in (p + 1)..n : Sorts(es, f, c)
    BY <1>4, <2>1
  <2> QED
    BY <1>2, <2>2, ProcessSorts
<1>5. Nat \subseteq T
  <2> HIDE DEF T
  <2> QED
    BY <1>3, <1>4, Walk!NatInSet
<1>6. Sorts(es, f, 0)
  <2>1. n + 1 \in T /\ 0 \in 0..n /\ 0 > n - (n + 1)
    <3>1. n + 1 \in Nat
      BY <1>1
    <3>2. n + 1 \in T
      <4> HIDE DEF T
      <4> QED
        BY <1>5, <3>1
    <3> QED
      BY <1>1, <3>2
  <2> QED
    BY <2>1
<1>7. Below(es, 0) = 1..n
  <2>1. \A j \in 1..n : \A k \in 1..j : k \in 1..n
    BY <1>1
  <2>2. \A j \in 1..n : \A k \in 1..j : es[k].depth >= 0
    <3>1. \A k \in 1..n : es[k].depth >= 0
      BY DepthsAre
    <3> QED
      BY <2>1, <3>1
  <2>3. 0 + 1 = 1
    OBVIOUS
  <2> QED
    BY <2>2, <2>3 DEF Below, DepthIn
<1>8. f[0][{}].used = 1..n /\ Lists(es, f[0][{}].out, 1..n)
  <2>1. {} \in SUBSET (1..n) /\ {} \cap Below(es, 0) = {}
    OBVIOUS
  <2>2. Fenced(es, 0, {})
    <3>1. \A j \in (0 + 1)..n : j \in Below(es, 0)
      BY <1>7
    <3> QED
      BY <3>1 DEF Fenced
  <2>3. /\ f[0][{}].used = {} \cup Below(es, 0)
        /\ Lists(es, f[0][{}].out, Below(es, 0))
    BY ONLY <1>6, <2>1, <2>2 DEF Sorts
  <2> QED
    BY <1>7, <2>3
<1> DEFINE out == f[0][{}].out
           tail == InOrder({}, <)
<1>9. SortOrder(es) = out \o tail
  <2>1. 1..n \ f[0][{}].used = {}
    BY <1>8
  <2> QED
    BY <1>2, <2>1
<1>10. tail = <<>>
  <2>1. {} \in SUBSET (1..0) /\ 0 \in Nat
    OBVIOUS
  <2>2. tail \in Seq({})
    BY ONLY <2>1, NumbersInOrder DEF Enumerating
  <2> HIDE DEF tail
  <2> QED
    BY <2>2
<1>11. out \in Seq(1..n)
  BY <1>8 DEF Lists, Enumerating
<1> HIDE DEF out, tail
<1>12. out \o <<>> = out
  BY <1>11, ConcatEmptySeq
<1> QED
  BY <1>8, <1>9, <1>10, <1>12 DEF out

-----------------------------------------------------------------------------
(* The entries of a nested list have parents, and those give the paths.       *)

\* Each entry is a kid of one entry, its parent, or of the root.
LEMMA KidOfParent ==
  ASSUME NEW es, IsList(es), Nested(es), NEW p \in 0..Len(es), NEW i \in Kids(es, p)
  PROVE  /\ i \in 1..Len(es)
         /\ p = 0 => es[i].depth = 0
         /\ p # 0 => IsParent(es, p, i)
<1>1. Len(es) \in Nat /\ i \in Below(es, p) /\ es[i].depth = DepthIn(es, p)
  BY DepthsAre DEF Kids
<1>2. /\ i \in 1..Len(es) /\ p < i
      /\ \A k \in (p + 1)..i : es[k].depth >= DepthIn(es, p)
  BY <1>1, BelowFacts DEF Below
<1>3. ASSUME p # 0
      PROVE  IsParent(es, p, i)
  <2>1. p \in 1..Len(es) /\ p \in 1..(i - 1)
    BY <1>1, <1>2, <1>3
  <2>2. IsDir(es[p])
    BY <1>1, <2>1, NothingBelowFile
  <2>3. es[p].depth \in Nat /\ es[i].depth = es[p].depth + 1
    BY <1>1, <1>3, <2>1, DepthsAre DEF DepthIn
  <2>4. \A m \in (p + 1)..(i - 1) : m \in (p + 1)..i
    BY <1>1, <1>2
  <2> QED
    BY <1>1, <1>2, <2>1, <2>2, <2>3, <2>4 DEF IsParent
<1> QED
  BY <1>1, <1>2, <1>3 DEF DepthIn

LEMMA ParentOfKid ==
  ASSUME NEW es, IsList(es), NEW i \in 1..Len(es), NEW p, IsParent(es, p, i)
  PROVE  p \in 1..Len(es) /\ p < i /\ i \in Kids(es, p) /\ es[i].depth # 0
<1>1. /\ Len(es) \in Nat
      /\ p \in 1..(i - 1) /\ es[p].depth = es[i].depth - 1
      /\ \A m \in (p + 1)..(i - 1) : es[m].depth >= es[i].depth
  BY DepthsAre DEF IsParent
<1>2. p \in 1..Len(es) /\ p # 0 /\ p < i
  BY <1>1
<1>3. es[p].depth \in Nat /\ es[i].depth \in Nat
  BY <1>2, DepthsAre
<1>4. \A m \in (p + 1)..i : m = i \/ m \in (p + 1)..(i - 1)
  BY <1>1
<1>5. es[i].depth = DepthIn(es, p)
  BY <1>1, <1>2, <1>3 DEF DepthIn
<1>6. \A m \in (p + 1)..i : es[m].depth >= DepthIn(es, p)
  BY <1>1, <1>3, <1>4, <1>5
<1>7. i \in (p + 1)..Len(es)
  BY <1>1, <1>2
<1> QED
  BY <1>1, <1>2, <1>3, <1>5, <1>6, <1>7 DEF Kids, Below

LEMMA AllBelowRoot ==
  ASSUME NEW es, IsList(es)
  PROVE  Below(es, 0) = 1..Len(es)
<1>1. Len(es) \in Nat /\ \A k \in 1..Len(es) : es[k].depth >= 0
  BY DepthsAre
<1>2. \A j \in 1..Len(es) : \A k \in 1..j : k \in 1..Len(es)
  BY <1>1
<1>3. 0 + 1 = 1
  OBVIOUS
<1> QED
  BY <1>1, <1>2, <1>3 DEF Below, DepthIn

LEMMA KidOfOne ==
  ASSUME NEW es, IsList(es), Nested(es), NEW i \in 1..Len(es)
  PROVE  \E p \in 0..Len(es) : i \in Kids(es, p) /\ p < i
<1>1. Len(es) \in Nat
  BY DepthsAre
<1>2. PathsOf(es, EntryPaths(es))
  BY EntryPathsArePaths
<1>3. CASE es[i].depth = 0
  <2>1. i \in Kids(es, 0)
    BY <1>3, AllBelowRoot DEF Kids, DepthIn
  <2> QED
    BY <1>1, <2>1
<1>4. CASE es[i].depth # 0
  <2>1. PICK j \in 1..(i - 1) : IsParent(es, j, i)
    BY <1>2, <1>4 DEF PathsOf, HasPath
  <2>2. j \in 1..Len(es) /\ j < i /\ i \in Kids(es, j)
    BY <2>1, ParentOfKid
  <2> QED
    BY <1>1, <2>2
<1> QED
  BY <1>3, <1>4

LEMMA PathOfKid ==
  ASSUME NEW es, IsList(es), Nested(es), NEW P, PathsOf(es, P),
         NEW p \in 0..Len(es), NEW i \in Kids(es, p)
  PROVE  /\ p = 0 => P[i] = <<es[i].name>>
         /\ p # 0 => P[i] = Append(P[p], es[i].name)
<1>1. i \in 1..Len(es) /\ (p = 0 => es[i].depth = 0) /\ (p # 0 => IsParent(es, p, i))
  BY KidOfParent
<1>2. HasPath(es, P, i)
  BY <1>1 DEF PathsOf
<1>3. CASE p = 0
  <2>1. \A j : ~IsParent(es, j, i)
    BY <1>1, <1>3, ParentOfKid
  <2> QED
    BY <1>2, <1>3, <2>1 DEF HasPath
<1>4. CASE p # 0
  <2>1. es[i].depth # 0
    BY <1>1, <1>4, ParentOfKid
  <2>2. PICK j : IsParent(es, j, i) /\ P[i] = Append(P[j], es[i].name)
    BY <1>2, <2>1 DEF HasPath
  <2>3. j = p
    BY <1>1, <1>4, <2>2, ParentFound
  <2> QED
    BY <1>4, <2>2, <2>3
<1> QED
  BY <1>3, <1>4

\* In a clean list no two siblings have one name.
LEMMA CleanIsDistinct ==
  ASSUME NEW es, IsList(es), Clean(es)
  PROVE  /\ Nested(es)
         /\ Distinct(es)
         /\ ValidatePaths(es) = EntryPaths(es)
         /\ \A i, j \in 1..Len(es) : EntryPaths(es)[i] = EntryPaths(es)[j] => i = j
<1> DEFINE P == EntryPaths(es)
<1>1. Nested(es) /\ IsInjective(ValidatePaths(es))
  BY DEF Clean, Validate
<1>2. PathsOf(es, P) /\ ValidatePaths(es) = P
  BY <1>1, EntryPathsArePaths, ValidatePathsArePaths, PathsUnique
<1> HIDE DEF P
<1>3. DOMAIN P = 1..Len(es)
  BY <1>2 DEF PathsOf
<1>4. \A i, j \in 1..Len(es) : P[i] = P[j] => i = j
  BY <1>1, <1>2, <1>3 DEF IsInjective
<1>5. ASSUME NEW p \in 0..Len(es), NEW a \in Kids(es, p), NEW b \in Kids(es, p),
             es[a].name = es[b].name
      PROVE  a = b
  <2>1. /\ p = 0 => P[a] = <<es[a].name>> /\ P[b] = <<es[b].name>>
        /\ p # 0 => P[a] = Append(P[p], es[a].name) /\ P[b] = Append(P[p], es[b].name)
    BY <1>1, <1>2, PathOfKid
  <2>2. a \in 1..Len(es) /\ b \in 1..Len(es)
    BY <1>1, KidOfParent
  <2> QED
    BY <1>4, <1>5, <2>1, <2>2
<1>6. Distinct(es)
  BY <1>5 DEF Distinct
<1> QED
  BY <1>1, <1>2, <1>4, <1>6 DEF P

-----------------------------------------------------------------------------
(* The sorted list of a clean list.                                          *)

\* A list of the entries of es in a sorted order.
LEMMA SortedParent ==
  ASSUME NEW es, IsList(es), Nested(es), NEW o, Lists(es, o, 1..Len(es)),
         NEW k \in 1..Len(o)
  PROVE  \/ Pick(es, o)[k].depth = 0 /\ o[k] \in Kids(es, 0)
         \/ \E m \in 1..(k - 1) : /\ IsParent(Pick(es, o), m, k)
                                  /\ o[k] \in Kids(es, o[m])
                                  /\ o[m] \in 1..Len(es)
<1> DEFINE s == Pick(es, o)
           n == Len(es)
<1>1. /\ o \in Seq(1..n)
      /\ \A i \in 1..n : \E m \in 1..Len(o) : o[m] = i
      /\ \A m, r \in 1..Len(o) : o[m] = o[r] => m = r
      /\ Orderly(es, o)
  BY DEF Lists, Enumerating
<1>2. Len(o) \in Nat /\ n \in Nat /\ \A m \in 1..Len(o) : o[m] \in 1..n
  BY <1>1, DepthsAre
<1>3. \A m \in 1..Len(o) : s[m] = es[o[m]]
  BY <1>1, PickIsList
<1> HIDE DEF s
<1>4. PICK p \in 0..n : o[k] \in Kids(es, p) /\ p < o[k]
  BY <1>2, KidOfOne
<1>5. CASE p = 0
  BY <1>3, <1>4, <1>5, KidOfParent DEF s
<1>6. CASE p # 0
  <2>1. p \in 1..n /\ o[k] \in Below(es, p) /\ IsParent(es, p, o[k])
    BY <1>2, <1>4, <1>6, KidOfParent DEF Kids
  <2>2. PICK m \in 1..Len(o) : o[m] = p
    BY <1>1, <2>1
  <2>3. m # k
    BY <1>2, <1>4, <2>2
  <2>4. ~(k < m)
    BY <1>1, <2>1, <2>2 DEF Orderly
  <2>5. m \in 1..(k - 1) /\ m < k
    BY <1>2, <2>3, <2>4
  <2>6. IsDir(es[p]) /\ es[p].depth = es[o[k]].depth - 1
    BY <2>1 DEF IsParent
  <2>7. ASSUME NEW r \in (m + 1)..(k - 1)
        PROVE  s[r].depth >= s[k].depth
    <3>1. r \in 1..Len(o) /\ m < r /\ r < k
      BY <1>2, <2>5
    <3>2. o[r] \in Below(es, p)
      BY <1>1, <2>1, <2>2, <2>5, <3>1 DEF Orderly
    <3>3. es[o[r]].depth >= DepthIn(es, p)
      BY <1>2, <3>2, BelowFacts
    <3>4. es[o[k]].depth = DepthIn(es, p)
      BY <1>4 DEF Kids
    <3> QED
      BY <1>3, <3>1, <3>3, <3>4
  <2>8. IsParent(s, m, k)
    BY <1>3, <2>2, <2>5, <2>6, <2>7 DEF IsParent
  <2> QED
    BY <1>4, <2>1, <2>2, <2>5, <2>8 DEF s
<1> QED
  BY <1>5, <1>6

\* It is clean, every entry has the path it had, and siblings stand in order.
LEMMA SortedIsClean ==
  ASSUME NEW es, IsList(es), Clean(es), NEW o, Lists(es, o, 1..Len(es))
  PROVE  /\ Clean(Pick(es, o))
         /\ Len(EntryPaths(Pick(es, o))) = Len(o)
         /\ \A k \in 1..Len(o) : EntryPaths(Pick(es, o))[k] = EntryPaths(es)[o[k]]
<1> DEFINE s == Pick(es, o)
           n == Len(es)
           P == EntryPaths(es)
           Q == [k \in 1..Len(o) |-> P[o[k]]]
<1>1. /\ o \in Seq(1..n)
      /\ \A m, r \in 1..Len(o) : o[m] = o[r] => m = r
  BY DEF Lists, Enumerating
<1>2. Len(o) \in Nat /\ n \in Nat /\ \A m \in 1..Len(o) : o[m] \in 1..n
  BY <1>1, DepthsAre
<1>3. IsList(s) /\ Len(s) = Len(o) /\ \A m \in 1..Len(o) : s[m] = es[o[m]]
  BY <1>1, PickIsList
<1>4. Nested(es) /\ PathsOf(es, P) /\ \A i, j \in 1..n : P[i] = P[j] => i = j
  BY CleanIsDistinct, EntryPathsArePaths
<1>5. \A i \in 1..n : P[i] \in Seq(Names)
  BY <1>4 DEF PathsOf
<1> HIDE DEF P
<1>6. Q \in Seq(Seq(Names)) /\ Len(Q) = Len(o) /\ \A k \in 1..Len(o) : Q[k] = P[o[k]]
  BY <1>2, <1>5
<1> HIDE DEF s, Q
<1>7. ASSUME NEW k \in 1..Len(o)
      PROVE  HasPath(s, Q, k) /\ (s[k].depth = 0 \/ \E m : IsParent(s, m, k))
  <2>1. CASE s[k].depth = 0 /\ o[k] \in Kids(es, 0)
    <3>1. 0 \in 0..n
      BY <1>2
    <3>2. P[o[k]] = <<es[o[k]].name>>
      BY <1>4, <2>1, <3>1, PathOfKid
    <3> QED
      BY <1>3, <1>6, <2>1, <3>2 DEF HasPath
  <2>2. ASSUME NEW m \in 1..(k - 1), IsParent(s, m, k), o[k] \in Kids(es, o[m]), o[m] \in 1..n
        PROVE  HasPath(s, Q, k)
    <3>1. o[m] \in 0..n /\ o[m] # 0 /\ m \in 1..Len(o)
      BY <1>2, <2>2
    <3>2. P[o[k]] = Append(P[o[m]], es[o[k]].name)
      BY <1>4, <2>2, <3>1, PathOfKid, SMTT(30)
    <3>3. Q[k] = Append(Q[m], s[k].name)
      BY <1>3, <1>6, <3>1, <3>2
    <3> QED
      BY <2>2, <3>3 DEF HasPath
  <2>3. \/ s[k].depth = 0 /\ o[k] \in Kids(es, 0)
        \/ \E m \in 1..(k - 1) : IsParent(s, m, k) /\ o[k] \in Kids(es, o[m]) /\ o[m] \in 1..n
    BY <1>4, SortedParent DEF s
  <2> QED
    BY <2>1, <2>2, <2>3
<1>8. Nested(s)
  BY <1>3, <1>7, ParentsNest
<1>9. PathsOf(s, Q)
  BY <1>3, <1>6, <1>7 DEF PathsOf
<1>10. EntryPaths(s) = Q /\ ValidatePaths(s) = Q
  BY <1>3, <1>8, <1>9, EntryPathsArePaths, ValidatePathsArePaths, PathsUnique
<1>11. IsInjective(Q)
  <2>1. DOMAIN Q = 1..Len(o)
    BY <1>6
  <2>2. \A k, m \in 1..Len(o) : Q[k] = Q[m] => k = m
    BY <1>1, <1>2, <1>4, <1>6
  <2> QED
    BY <2>1, <2>2 DEF IsInjective
<1> QED
  BY <1>6, <1>8, <1>10, <1>11 DEF Clean, Validate, s, P

\* Of it the old order is a sorted one.
LEMMA SiblingsInOrder ==
  ASSUME NEW es, IsList(es), Nested(es), NEW o, Lists(es, o, 1..Len(es)),
         NEW q \in 0..Len(o), NEW k \in Kids(Pick(es, o), q), NEW m \in Kids(Pick(es, o), q),
         k < m, Nested(Pick(es, o))
  PROVE  SiblingLess(Pick(es, o)[k], Pick(es, o)[m])
<1> DEFINE s == Pick(es, o)
<1>1. o \in Seq(1..Len(es)) /\ Orderly(es, o) /\ Len(es) \in Nat
  BY DepthsAre DEF Lists, Enumerating
<1>2. IsList(s) /\ Len(s) = Len(o) /\ \A x \in 1..Len(o) : s[x] = es[o[x]]
  BY <1>1, PickIsList
<1> HIDE DEF s
<1>3. ASSUME NEW x \in Kids(s, q)
      PROVE  /\ x \in 1..Len(o)
             /\ q = 0 => o[x] \in Kids(es, 0)
             /\ q # 0 => o[x] \in Kids(es, o[q]) /\ o[q] \in 1..Len(es)
  <2>1. x \in 1..Len(s) /\ (q = 0 => s[x].depth = 0) /\ (q # 0 => IsParent(s, q, x))
    BY <1>2, KidOfParent DEF s
  <2>2. \/ s[x].depth = 0 /\ o[x] \in Kids(es, 0)
        \/ \E r \in 1..(x - 1) : IsParent(s, r, x) /\ o[x] \in Kids(es, o[r]) /\ o[r] \in 1..Len(es)
    BY <1>2, <2>1, SortedParent DEF s
  <2>3. ASSUME q = 0 PROVE o[x] \in Kids(es, 0)
    <3>1. \A r : ~IsParent(s, r, x)
      BY <1>2, <2>1, <2>3, ParentOfKid
    <3> QED
      BY <2>2, <3>1
  <2>4. ASSUME q # 0 PROVE o[x] \in Kids(es, o[q]) /\ o[q] \in 1..Len(es)
    <3>1. IsParent(s, q, x) /\ s[x].depth # 0
      BY <1>2, <2>1, <2>4, ParentOfKid
    <3>2. PICK r : IsParent(s, r, x) /\ o[x] \in Kids(es, o[r]) /\ o[r] \in 1..Len(es)
      BY <2>2, <3>1
    <3>3. r = q
      BY <1>2, <2>1, <3>1, <3>2, ParentFound
    <3> QED
      BY <3>2, <3>3
  <2> QED
    BY <1>2, <2>1, <2>3, <2>4
<1>4. k \in 1..Len(o) /\ m \in 1..Len(o)
  BY <1>3 DEF s
<1>5. \E p \in 0..Len(es) : o[k] \in Kids(es, p) /\ o[m] \in Kids(es, p)
  <2>1. CASE q = 0
    <3>1. o[k] \in Kids(es, 0) /\ o[m] \in Kids(es, 0) /\ 0 \in 0..Len(es)
      BY <1>1, <1>3, <2>1 DEF s
    <3> QED
      BY <3>1
  <2>2. CASE q # 0
    <3>1. o[k] \in Kids(es, o[q]) /\ o[m] \in Kids(es, o[q]) /\ o[q] \in 0..Len(es)
      BY <1>1, <1>3, <2>2 DEF s
    <3> QED
      BY <3>1
  <2> QED
    BY <2>1, <2>2
<1>6. SiblingLess(es[o[k]], es[o[m]])
  BY <1>1, <1>4, <1>5 DEF Orderly
<1> QED
  BY <1>2, <1>4, <1>6 DEF s

\* A list in which siblings stand in order is in sorted order.
LEMMA InOrderAlready ==
  ASSUME NEW es, IsList(es), NEW o, o = [k \in 1..Len(es) |-> k],
         \A p \in 0..Len(es) : \A k, m \in Kids(es, p) : k < m => SiblingLess(es[k], es[m])
  PROVE  Lists(es, o, 1..Len(es))
<1> DEFINE n == Len(es)
<1>1. n \in Nat
  BY DepthsAre
<1>2. o \in Seq(1..n) /\ Len(o) = n /\ \A k \in 1..n : o[k] = k
  BY <1>1
<1>3. Enumerating(o, 1..n)
  BY <1>2 DEF Enumerating
<1>4. ASSUME NEW k \in 1..n, NEW m \in 1..n, k < m
      PROVE  /\ k \notin Below(es, m)
             /\ \A r \in 1..n : m < r /\ r \in Below(es, k) => m \in Below(es, k)
  <2>1. k \in 0..n /\ m \in 0..n
    BY <1>1
  <2>2. k \in Below(es, m) => m < k
    BY <2>1, BelowFacts
  <2>3. k \notin Below(es, m)
    BY <1>1, <1>4, <2>2
  <2>4. ASSUME NEW r \in 1..n, m < r, r \in Below(es, k)
        PROVE  m \in Below(es, k)
    <3>1. m \in (k + 1)..r
      BY <1>1, <1>4, <2>4
    <3> QED
      BY <2>1, <2>4, <3>1, BelowFacts
  <2> QED
    BY <2>3, <2>4
<1>5. Orderly(es, o)
  BY <1>2, <1>4 DEF Orderly
<1> QED
  BY <1>3, <1>5 DEF Lists

\* Two listings with the same relative order are the same.
LEMMA SameOrder ==
  ASSUME NEW S, NEW a, NEW b, Enumerating(a, S), Enumerating(b, S),
         \A k, m \in 1..Len(a), x, y \in 1..Len(b) :
           a[k] = b[x] /\ a[m] = b[y] /\ k < m => x < y
  PROVE  a = b
<1>1. /\ a \in Seq(S) /\ b \in Seq(S) /\ Len(a) \in Nat /\ Len(b) \in Nat
      /\ \A k \in 1..Len(a) : a[k] \in S
      /\ \A k \in 1..Len(b) : b[k] \in S
  BY DEF Enumerating
<1>2. /\ \A k, m \in 1..Len(a) : a[k] = a[m] => k = m
      /\ \A k, m \in 1..Len(b) : b[k] = b[m] => k = m
      /\ \A i \in S : \E k \in 1..Len(a) : a[k] = i
      /\ \A i \in S : \E k \in 1..Len(b) : b[k] = i
  BY DEF Enumerating
<1> DEFINE T == {k \in Nat : \A j \in 1..k :
                   (j \in 1..Len(a) <=> j \in 1..Len(b)) /\ (j \in 1..Len(a) => a[j] = b[j])}
<1>3. 0 \in T
  OBVIOUS
<1>4. ASSUME NEW k \in Nat, k \in T
      PROVE  k + 1 \in T
  <2> DEFINE j == k + 1
  <2>1. \A x \in 1..j : x = j \/ x \in 1..k
    OBVIOUS
  <2>2. \A x \in 1..k : (x \in 1..Len(a) <=> x \in 1..Len(b)) /\ (x \in 1..Len(a) => a[x] = b[x])
    BY <1>4
  <2> HIDE DEF T
  <2>3. ASSUME j \in 1..Len(a)
        PROVE  j \in 1..Len(b) /\ a[j] = b[j]
    <3>1. PICK x \in 1..Len(b) : b[x] = a[j]
      BY <1>1, <1>2, <2>3
    <3>2. x \notin 1..k
      <4>1. x \in 1..k => x \in 1..Len(a) /\ a[x] = a[j] /\ x # j
        BY <2>2, <3>1
      <4> QED
        BY <1>2, <2>3, <4>1
    <3>3. j <= x /\ j \in 1..Len(b)
      BY <1>1, <3>1, <3>2
    <3>4. PICK y \in 1..Len(a) : a[y] = b[j]
      BY <1>1, <1>2, <3>3
    <3>5. y \notin 1..k
      <4>1. y \in 1..k => y \in 1..Len(b) /\ b[y] = b[j] /\ y # j
        BY <2>2, <3>4
      <4> QED
        BY <1>2, <3>3, <4>1
    <3>6. j <= y
      BY <1>1, <3>4, <3>5
    <3>7. ~(j < y)
      <4>1. j < y => x < j
        BY <2>3, <3>1, <3>3, <3>4
      <4> QED
        BY <1>1, <3>1, <3>3, <4>1
    <3>8. y = j
      BY <1>1, <3>4, <3>6, <3>7
    <3> QED
      BY <3>3, <3>4, <3>8
  <2>4. ASSUME j \in 1..Len(b)
        PROVE  j \in 1..Len(a)
    <3>1. PICK y \in 1..Len(a) : a[y] = b[j]
      BY <1>1, <1>2, <2>4
    <3>2. y \notin 1..k
      <4>1. y \in 1..k => y \in 1..Len(b) /\ b[y] = b[j] /\ y # j
        BY <2>2, <3>1
      <4> QED
        BY <1>2, <2>4, <4>1
    <3> QED
      BY <1>1, <3>1, <3>2
  <2> QED
    BY <2>1, <2>2, <2>3, <2>4 DEF T
<1>5. Nat \subseteq T
  <2> HIDE DEF T
  <2> QED
    BY <1>3, <1>4, Walk!NatInSet
<1>6. \A k \in Nat \ {0} : (k \in 1..Len(a) <=> k \in 1..Len(b)) /\ (k \in 1..Len(a) => a[k] = b[k])
  <2>1. \A k \in Nat \ {0} : k \in T /\ k \in 1..k
    BY <1>5
  <2> QED
    BY <2>1
<1>7. Len(a) = Len(b)
  <2>1. Len(a) # 0 => Len(a) \in 1..Len(b)
    BY <1>1, <1>6
  <2>2. Len(b) # 0 => Len(b) \in 1..Len(a)
    BY <1>1, <1>6
  <2> QED
    BY <1>1, <2>1, <2>2
<1>8. \A k \in 1..Len(a) : a[k] = b[k]
  BY <1>1, <1>6
<1> QED
  BY <1>1, <1>7, <1>8, SeqEqual

\* Of two entries, one is below the other, or they are in the blocks of two
\* siblings.
Parted(es, i, j, p, a, b) ==
  /\ p \in 0..Len(es)
  /\ a \in Kids(es, p)
  /\ b \in Kids(es, p)
  /\ a # b
  /\ i \in Span(es, a)
  /\ j \in Span(es, b)

LEMMA PartedSomewhere ==
  ASSUME NEW es, IsList(es), Nested(es), NEW i \in 1..Len(es), NEW j \in 1..Len(es),
         i # j, i \notin Below(es, j), j \notin Below(es, i)
  PROVE  \E p, a, b : Parted(es, i, j, p, a, b)
<1> DEFINE n == Len(es)
           T == {q \in 1..(n + 1) : i \in Below(es, q - 1) /\ j \in Below(es, q - 1)}
<1>1. n \in Nat
  BY DepthsAre
<1>2. 1 \in T
  BY <1>1, AllBelowRoot
<1>3. n + 1 \in Nat /\ T \in SUBSET (1..(n + 1))
  BY <1>1
<1>4. PICK g \in T : \A y \in T : y <= g
  <2> HIDE DEF T
  <2> DEFINE m == n + 1
  <2>1. m \in Nat /\ T \in SUBSET (1..m) /\ T # {}
    BY <1>2, <1>3
  <2> HIDE DEF m
  <2> QED
    BY <2>1, LastNumber
<1> DEFINE p == g - 1
<1>5. g = p + 1 /\ p \in 0..n
  BY <1>1, <1>4
<1>6. i \in Below(es, p) /\ j \in Below(es, p)
  BY <1>4
<1> HIDE DEF p
<1>7. PICK a \in Kids(es, p) : i \in Span(es, a)
  BY <1>5, <1>6, KidOver
<1>8. PICK b \in Kids(es, p) : j \in Span(es, b)
  BY <1>5, <1>6, KidOver
<1>9. ASSUME a = b
      PROVE  FALSE
  <2>1. i \in Below(es, a) /\ j \in Below(es, a)
    BY <1>7, <1>8, <1>9 DEF Span
  <2>2. a \in 1..n /\ p < a
    BY <1>5, BelowFacts DEF Kids
  <2>3. (a + 1) - 1 = a /\ a + 1 \in 1..(n + 1)
    BY <1>1, <2>2
  <2>4. a + 1 \in T
    BY <2>1, <2>3
  <2>5. a + 1 <= g
    <3> HIDE DEF T
    <3> QED
      BY <1>4, <2>4
  <2> QED
    BY <1>1, <1>5, <2>2, <2>5
<1>10. Parted(es, i, j, p, a, b)
  BY <1>5, <1>7, <1>8, <1>9 DEF Parted
<1> QED
  BY <1>10

\* A sorted listing lists the block of the lesser sibling first.
LEMMA BlocksApart ==
  ASSUME NEW es, IsList(es), Nested(es), NEW o, Lists(es, o, 1..Len(es)),
         NEW k \in 1..Len(o), NEW m \in 1..Len(o), NEW p, NEW a, NEW b,
         Parted(es, o[k], o[m], p, a, b), SiblingLess(es[a], es[b]),
         ~SiblingLess(es[b], es[a])
  PROVE  k < m
<1>1. /\ p \in 0..Len(es) /\ a \in Kids(es, p) /\ b \in Kids(es, p) /\ a # b
      /\ o[k] \in Span(es, a) /\ o[m] \in Span(es, b)
  BY DEF Parted
<1>2. a \in 1..Len(es) /\ b \in 1..Len(es)
  BY <1>1, KidOfParent
<1>3. /\ o \in Seq(1..Len(es)) /\ Orderly(es, o) /\ Len(o) \in Nat
      /\ \A i \in 1..Len(es) : \E x \in 1..Len(o) : o[x] = i
      /\ \A x, y \in 1..Len(o) : o[x] = o[y] => x = y
  BY DEF Lists, Enumerating
<1>4. PICK x \in 1..Len(o) : o[x] = a
  BY <1>2, <1>3
<1>5. PICK y \in 1..Len(o) : o[y] = b
  BY <1>2, <1>3
<1>6. x < y
  <2>1. x # y
    BY <1>1, <1>4, <1>5
  <2>2. ~(y < x)
    BY <1>1, <1>3, <1>4, <1>5 DEF Orderly
  <2> QED
    BY <1>3, <2>1, <2>2
<1>7. y <= m
  <2>1. CASE o[m] = b
    BY <1>3, <1>5, <2>1
  <2>2. CASE o[m] \in Below(es, b)
    <3>1. ~(m < y)
      BY <1>3, <1>5, <2>2 DEF Orderly
    <3> QED
      BY <1>3, <3>1
  <2> QED
    BY <1>1, <2>1, <2>2 DEF Span
<1>8. ~(m < k)
  <2> SUFFICES ASSUME m < k PROVE FALSE
    OBVIOUS
  <2>1. x < k /\ y < k
    BY <1>3, <1>6, <1>7
  <2>2. o[k] \in Below(es, a)
    <3>1. x # k
      BY <1>3, <2>1
    <3> QED
      BY <1>1, <1>3, <1>4, <3>1 DEF Span
  <2>3. b \in Below(es, a)
    BY <1>3, <1>4, <1>5, <1>6, <2>1, <2>2 DEF Orderly
  <2>4. b \in Span(es, a) \cap Span(es, b)
    BY <2>3 DEF Span
  <2> QED
    BY <1>1, <2>4, KidsApart
<1>9. k # m
  <2>1. k = m => o[k] \in Span(es, a) \cap Span(es, b)
    BY <1>1
  <2> QED
    BY <1>1, <2>1, KidsApart
<1> QED
  BY <1>3, <1>8, <1>9

LEMMA OneSorting ==
  ASSUME NEW es, IsList(es), Nested(es), Distinct(es), NEW a, NEW b,
         Lists(es, a, 1..Len(es)), Lists(es, b, 1..Len(es))
  PROVE  a = b
<1> DEFINE n == Len(es)
<1>1. /\ Enumerating(a, 1..n) /\ Enumerating(b, 1..n)
      /\ Orderly(es, a) /\ Orderly(es, b)
      /\ n \in Nat
  BY DepthsAre DEF Lists
<1>2. /\ a \in Seq(1..n) /\ b \in Seq(1..n) /\ Len(a) \in Nat /\ Len(b) \in Nat
      /\ \A k \in 1..Len(a) : a[k] \in 1..n
      /\ \A k, m \in 1..Len(a) : a[k] = a[m] => k = m
  BY <1>1 DEF Enumerating
<1>3. ASSUME NEW k \in 1..Len(a), NEW m \in 1..Len(a), NEW x \in 1..Len(b), NEW y \in 1..Len(b),
             a[k] = b[x], a[m] = b[y], k < m
      PROVE  x < y
  <2>1. a[k] \in 1..n /\ a[m] \in 1..n /\ a[k] # a[m]
    <3>1. k \in Int /\ m \in Int /\ k # m
      BY <1>3
    <3>2. (\A r \in 1..Len(a) : a[r] \in 1..n) /\ (a[k] = a[m] => k = m)
      BY <1>2
    <3> QED
      BY <3>1, <3>2
  <2>2. x # y
    BY <1>3, <2>1
  <2>3. a[k] \notin Below(es, a[m])
    BY <1>1, <1>3 DEF Orderly
  <2>4. CASE a[m] \in Below(es, a[k])
    <3>1. ~(y < x)
      BY <1>1, <1>3, <2>4 DEF Orderly
    <3> QED
      BY <1>2, <2>2, <3>1
  <2>5. CASE a[m] \notin Below(es, a[k])
    <3>1. PICK p, c, d : Parted(es, a[k], a[m], p, c, d)
      BY <2>1, <2>3, <2>5, PartedSomewhere
    <3>2. p \in 0..n /\ c \in Kids(es, p) /\ d \in Kids(es, p) /\ c # d
      BY <3>1 DEF Parted
    <3>3. c \in 1..n /\ d \in 1..n /\ es[c].name # es[d].name
      BY <3>2, KidOfParent DEF Distinct
    <3>4. /\ SiblingLess(es[c], es[d]) \/ SiblingLess(es[d], es[c])
          /\ ~(SiblingLess(es[c], es[d]) /\ SiblingLess(es[d], es[c]))
      <4>1. es[c].name \in Int /\ es[d].name \in Int
        <5>1. Names \subseteq Int
          BY NamesAssumption
        <5> QED
          BY <3>3, <5>1 DEF IsList
      <4> DEFINE v == es[c]
                 w == es[d]
      <4>2. v.name \in Int /\ w.name \in Int /\ v.name # w.name
        BY <3>3, <4>1
      <4> HIDE DEF v, w
      <4>3. /\ SiblingLess(v, w) \/ SiblingLess(w, v)
            /\ ~(SiblingLess(v, w) /\ SiblingLess(w, v))
        BY ONLY <4>2, SiblingOrder
      <4> QED
        BY <4>3 DEF v, w
    <3>5. CASE SiblingLess(es[c], es[d])
      <4>1. Parted(es, b[x], b[y], p, c, d)
        BY <1>3, <3>1
      <4> QED
        BY <3>4, <3>5, <4>1, BlocksApart
    <3>6. CASE SiblingLess(es[d], es[c])
      <4>1. Parted(es, a[m], a[k], p, d, c)
        BY <3>1 DEF Parted
      <4>2. m < k
        BY <3>4, <3>6, <4>1, BlocksApart
      <4> QED
        BY <1>2, <1>3, <4>2
    <3> QED
      BY <3>4, <3>5, <3>6
  <2> QED
    BY <2>4, <2>5
<1> QED
  BY <1>1, <1>3, SameOrder

\* Sorting a clean list orders it; sorting it again does nothing.
LEMMA SortIsSorted ==
  ASSUME NEW es, IsList(es), Clean(es), es # <<>>
  PROVE  /\ SortEntries(es) = Pick(es, SortOrder(es))
         /\ Lists(es, SortOrder(es), 1..Len(es))
         /\ Clean(SortEntries(es))
         /\ \A p \in 0..Len(SortEntries(es)) : \A k, m \in Kids(SortEntries(es), p) :
              k < m => SiblingLess(SortEntries(es)[k], SortEntries(es)[m])
<1> DEFINE o == SortOrder(es)
<1>1. Nested(es) /\ Distinct(es)
  BY CleanIsDistinct
<1>2. Lists(es, o, 1..Len(es))
  BY <1>1, SortOrderLists
<1>3. SortEntries(es) = Pick(es, o)
  BY DEF SortEntries
<1> HIDE DEF o
<1>4. Clean(Pick(es, o)) /\ Nested(Pick(es, o))
  BY <1>2, SortedIsClean DEF Clean
<1>5. Len(Pick(es, o)) = Len(o)
  BY <1>2, PickIsList DEF Lists, Enumerating
<1>6. \A p \in 0..Len(o) : \A k, m \in Kids(Pick(es, o), p) :
        k < m => SiblingLess(Pick(es, o)[k], Pick(es, o)[m])
  BY <1>1, <1>2, <1>4, SiblingsInOrder
<1> QED
  BY <1>2, <1>3, <1>4, <1>5, <1>6 DEF o

LEMMA SortTwice ==
  ASSUME NEW es, IsList(es), Clean(es)
  PROVE  SortEntries(SortEntries(es)) = SortEntries(es)
<1>1. CASE es = <<>>
  BY <1>1 DEF SortEntries
<1>2. CASE es # <<>>
  <2> DEFINE s == SortEntries(es)
             id == [k \in 1..Len(s) |-> k]
  <2>1. IsList(s)
    BY SortIsList
  <2>2. /\ Clean(s)
        /\ \A p \in 0..Len(s) : \A k, m \in Kids(s, p) : k < m => SiblingLess(s[k], s[m])
    BY <1>2, SortIsSorted
  <2> HIDE DEF s
  <2>3. Lists(s, id, 1..Len(s))
    BY <2>1, <2>2, InOrderAlready
  <2>4. Nested(s) /\ Distinct(s)
    BY <2>1, <2>2, CleanIsDistinct
  <2>5. Lists(s, SortOrder(s), 1..Len(s))
    BY <2>1, <2>4, SortOrderLists
  <2>6. SortOrder(s) = id
    <3> HIDE DEF id
    <3> QED
      BY <2>1, <2>3, <2>4, <2>5, OneSorting
  <2>7. Pick(s, id) = s
    <3>1. s = [k \in 1..Len(s) |-> s[k]] /\ Len(s) \in Nat
      BY <2>1 DEF IsList
    <3>2. Len(id) = Len(s) /\ \A k \in 1..Len(s) : id[k] = k
      BY <3>1
    <3> HIDE DEF id
    <3>3. Pick(s, id) = [k \in 1..Len(s) |-> s[k]]
      BY <3>2 DEF Pick
    <3> QED
      BY <3>1, <3>3
  <2>8. SortEntries(s) = s
    BY <2>6, <2>7 DEF SortEntries
  <2> QED
    BY <2>8 DEF s
<1> QED
  BY <1>1, <1>2

\* Sorting moves lines, never entries between directories.
Unplaced(e) == [f \in DOMAIN e \ {"depth"} |-> e[f]]

LEMMA SortKeepsPaths ==
  ASSUME NEW es, IsList(es), Clean(es)
  PROVE  /\ \A k \in 1..Len(SortEntries(es)) : \E i \in 1..Len(es) :
              /\ SortEntries(es)[k] = es[i]
              /\ EntryPaths(SortEntries(es))[k] = EntryPaths(es)[i]
         /\ \A i \in 1..Len(es) : \E k \in 1..Len(SortEntries(es)) :
              /\ SortEntries(es)[k] = es[i]
              /\ EntryPaths(SortEntries(es))[k] = EntryPaths(es)[i]
<1>1. CASE es = <<>>
  BY <1>1 DEF SortEntries
<1>2. CASE es # <<>>
  <2> DEFINE o == SortOrder(es)
             s == Pick(es, o)
  <2>1. SortEntries(es) = s /\ Lists(es, o, 1..Len(es))
    BY <1>2, SortIsSorted
  <2> HIDE DEF o
  <2>2. /\ o \in Seq(1..Len(es))
        /\ \A i \in 1..Len(es) : \E k \in 1..Len(o) : o[k] = i
    BY <2>1 DEF Lists, Enumerating
  <2>3. Len(s) = Len(o) /\ \A k \in 1..Len(o) : s[k] = es[o[k]] /\ o[k] \in 1..Len(es)
    BY <2>2, PickIsList
  <2>4. \A k \in 1..Len(o) : EntryPaths(s)[k] = EntryPaths(es)[o[k]]
    BY <2>1, SortedIsClean
  <2>5. \A i \in 1..Len(es) : \E k \in 1..Len(o) :
          s[k] = es[i] /\ EntryPaths(s)[k] = EntryPaths(es)[i]
    <3> HIDE DEF s
    <3> QED
      BY <2>2, <2>3, <2>4
  <2> HIDE DEF s
  <2>6. \A k \in 1..Len(s) : \E i \in 1..Len(es) :
          s[k] = es[i] /\ EntryPaths(s)[k] = EntryPaths(es)[i]
    BY <2>3, <2>4
  <2> QED
    BY <2>1, <2>3, <2>5, <2>6
<1> QED
  BY <1>1, <1>2
-----------------------------------------------------------------------------
(* The order of a clean list by the paths of its entries.                    *)

\* What is below an entry in the list is below its path.
LEMMA BlockIsAbove ==
  ASSUME NEW es, IsList(es), Clean(es), NEW c \in 1..Len(es), NEW i \in 1..Len(es)
  PROVE  i \in Span(es, c) <=> EntryPaths(es)[c] \in Above(EntryPaths(es)[i])
<1> DEFINE n == Len(es)
           P == EntryPaths(es)
           Same(k) == k \in Span(es, c) <=> P[c] \in Above(P[k])
           S == {k \in Nat : \A m \in 1..k : m <= n => Same(m)}
<1>1. /\ n \in Nat /\ c \in 0..n /\ c # 0
      /\ Nested(es) /\ PathsOf(es, P)
      /\ \A k, m \in 1..n : P[k] = P[m] => k = m
      /\ \A k \in 1..n : es[k].depth \in Nat /\ es[k].name \in Names
  <2>1. /\ n \in Nat
        /\ Nested(es) /\ PathsOf(es, P)
        /\ \A k, m \in 1..n : P[k] = P[m] => k = m
        /\ \A k \in 1..n : es[k].depth \in Nat /\ es[k].name \in Names
    BY PathsOfClean DEF IsList
  <2> QED
    BY <2>1
<1> HIDE DEF P
<1>a. \A k \in 1..n : P[k] \in Seq(Names)
  BY <1>1 DEF PathsOf
<1>b. ASSUME NEW k \in 1..n, NEW p \in 1..n, k \in Kids(es, p)
      PROVE  /\ Above(P[k]) = Above(P[p]) \cup {P[k]}
             /\ k # c => (k \in Span(es, c) <=> p \in Span(es, c))
  <2>1. p \in 0..n /\ p # 0
    BY <1>1
  <2>2. P[k] = Append(P[p], es[k].name)
    BY <1>1, <1>b, <2>1, PathOfKid
  <2>3. Above(P[k]) = Above(P[p]) \cup {P[k]}
    BY <1>1, <1>a, <2>2, AboveAppend
  <2>4. k \in Below(es, p) /\ IsParent(es, p, k)
    BY <1>1, <1>b, <2>1, KidOfParent DEF Kids
  <2>5. ASSUME p \in Span(es, c)
        PROVE  k \in Span(es, c)
    <3>1. CASE p = c
      BY <2>4, <3>1 DEF Span
    <3>2. CASE p \in Below(es, c)
      BY <1>1, <2>4, <3>2, BelowNested DEF Span
    <3> QED
      BY <2>5, <3>1, <3>2 DEF Span
  <2>6. ASSUME k # c, k \in Span(es, c)
        PROVE  p \in Span(es, c)
    <3>1. k \in Below(es, c)
      BY <2>6 DEF Span
    <3>2. /\ c < k /\ es[k].depth >= DepthIn(es, c)
          /\ \A m \in (c + 1)..k : m \in Below(es, c)
      BY <1>1, <3>1, BelowFacts
    <3>3. es[k].depth >= es[c].depth + 1
      BY <1>1, <3>2 DEF DepthIn
    <3>4. p \in 1..(k - 1) /\ \A m \in (p + 1)..(k - 1) : es[m].depth >= es[k].depth
      BY <2>4 DEF IsParent
    <3>5. ~(p < c)
      <4>1. p < c => c \in (p + 1)..(k - 1)
        BY <1>1, <3>2
      <4> QED
        BY <1>1, <3>3, <3>4, <4>1
    <3>6. p = c \/ p \in (c + 1)..k
      BY <1>1, <3>4, <3>5
    <3> QED
      BY <3>2, <3>6 DEF Span
  <2> QED
    BY <2>3, <2>5, <2>6
<1>c. ASSUME NEW k \in 1..n, k \in Kids(es, 0)
      PROVE  Same(k)
  <2>1. P[k] = <<es[k].name>> /\ es[k].depth = 0
    BY <1>1, <1>c, PathOfKid, KidOfParent
  <2>2. Above(P[k]) = {P[k]}
    BY <1>1, <2>1, AboveOne
  <2>3. k \notin Below(es, c)
    <3>1. k \in Below(es, c) => es[k].depth >= DepthIn(es, c)
      BY <1>1, BelowFacts
    <3> QED
      BY <1>1, <2>1, <3>1 DEF DepthIn
  <2>4. P[c] = P[k] <=> c = k
    BY <1>1
  <2> QED
    BY <2>2, <2>3, <2>4 DEF Span
<1>2. 0 \in S
  OBVIOUS
<1>3. ASSUME NEW k \in Nat, k \in S
      PROVE  k + 1 \in S
  <2>1. ASSUME k + 1 <= n
        PROVE  Same(k + 1)
    <3> DEFINE m == k + 1
    <3>1. m \in 1..n /\ \A p \in 1..n : p < m => p \in 1..k /\ p <= n
      BY <1>1, <2>1
    <3>2. \A p \in 1..n : p < m => Same(p)
      <4> HIDE DEF Same, m
      <4> QED
        BY <1>3, <3>1
    <3> HIDE DEF m
    <3>3. PICK p \in 0..n : m \in Kids(es, p) /\ p < m
      BY <1>1, <3>1, KidOfOne
    <3>4. CASE p = 0
      BY <1>c, <3>1, <3>3, <3>4 DEF m
    <3>5. CASE p # 0
      <4>1. p \in 1..n
        BY <1>1, <3>5
      <4>2. Same(p)
        BY <3>2, <3>3, <4>1
      <4>3. /\ Above(P[m]) = Above(P[p]) \cup {P[m]}
            /\ m # c => (m \in Span(es, c) <=> p \in Span(es, c))
        BY <1>b, <3>1, <3>3, <4>1
      <4>4. P[c] = P[m] <=> c = m
        BY <1>1, <3>1
      <4>5. c \in Span(es, c)
        BY DEF Span
      <4>6. Same(m)
        BY <4>2, <4>3, <4>4, <4>5
      <4> QED
        BY <4>6 DEF m
    <3> QED
      BY <3>4, <3>5
  <2>2. \A m \in 1..(k + 1) : m \in 1..k \/ m = k + 1
    OBVIOUS
  <2> HIDE DEF Same
  <2> QED
    BY <1>3, <2>1, <2>2
<1>4. Nat \subseteq S
  <2> HIDE DEF S
  <2> QED
    BY <1>2, <1>3, Walk!NatInSet
<1>5. Same(i)
  <2>1. i \in Nat /\ i \in 1..i /\ i <= n
    BY <1>1
  <2> HIDE DEF Same
  <2> QED
    BY <1>4, <2>1
<1> QED
  BY <1>5 DEF P
\* Two lists of one tree: each has, at the path of every entry of the other,
\* that entry.
OneTree(s, u) ==
  /\ \A k \in 1..Len(s) : \E x \in 1..Len(u) :
       s[k] = u[x] /\ EntryPaths(s)[k] = EntryPaths(u)[x]
  /\ \A x \in 1..Len(u) : \E k \in 1..Len(s) :
       s[k] = u[x] /\ EntryPaths(s)[k] = EntryPaths(u)[x]

Siblings(s, p, c, d) == p \in 0..Len(s) /\ c \in Kids(s, p) /\ d \in Kids(s, p)

\* A clean list in which siblings stand in order.
IsSortedList(s) ==
  /\ IsList(s)
  /\ Clean(s)
  /\ \A p \in 0..Len(s) : \A k, m \in Kids(s, p) : k < m => SiblingLess(s[k], s[m])

LEMMA SiblingsAgree ==
  ASSUME NEW s, NEW u, IsList(s), IsList(u), Clean(s), Clean(u), OneTree(s, u),
         NEW p, NEW c, NEW d, Siblings(s, p, c, d), NEW x \in 1..Len(u), NEW y \in 1..Len(u),
         EntryPaths(s)[c] = EntryPaths(u)[x], EntryPaths(s)[d] = EntryPaths(u)[y]
  PROVE  \E q : Siblings(u, q, x, y)
<1> DEFINE P == EntryPaths(s)
           Q == EntryPaths(u)
<1>1. /\ Nested(s) /\ PathsOf(s, P) /\ Len(s) \in Nat
      /\ Nested(u) /\ PathsOf(u, Q) /\ Len(u) \in Nat
      /\ \A i, j \in 1..Len(u) : Q[i] = Q[j] => i = j
  BY PathsOfClean
<1>2. P[c] = Q[x] /\ P[d] = Q[y]
  OBVIOUS
<1> HIDE DEF P, Q
<1>3. p \in 0..Len(s) /\ c \in Kids(s, p) /\ d \in Kids(s, p)
  BY DEF Siblings
<1>4. /\ \A k \in 1..Len(s) : s[k].name \in Names /\ P[k] \in Seq(Names)
      /\ \A k \in 1..Len(u) : u[k].name \in Names /\ Q[k] \in Seq(Names)
  BY <1>1 DEF PathsOf, IsList
<1>5. c \in 1..Len(s) /\ d \in 1..Len(s)
  BY <1>1, <1>3, KidOfParent
<1>6. PICK a \in 0..Len(u) : x \in Kids(u, a)
  BY <1>1, KidOfOne
<1>7. PICK b \in 0..Len(u) : y \in Kids(u, b)
  BY <1>1, KidOfOne
<1>8. ASSUME NEW l, NEW R, IsList(l), Nested(l), PathsOf(l, R), NEW h \in 0..Len(l),
             NEW i \in Kids(l, h)
      PROVE  /\ h = 0 => Len(R[i]) = 1
             /\ h # 0 => /\ h \in 1..Len(l) /\ R[h] \in Seq(Names) /\ Len(R[h]) \in Nat
                         /\ Len(R[h]) # 0
                         /\ R[i] = Append(R[h], l[i].name) /\ l[i].name \in Names
                         /\ Len(R[i]) = Len(R[h]) + 1
  <2>1. i \in 1..Len(l) /\ (h = 0 => l[i].depth = 0)
    BY <1>8, KidOfParent
  <2>2. l[i].name \in Names
    BY <1>8, <2>1 DEF IsList
  <2>3. CASE h = 0
    <3>1. R[i] = <<l[i].name>>
      BY <1>8, <2>3, PathOfKid
    <3> DEFINE w == l[i].name
    <3> HIDE DEF w
    <3>2. Len(<<w>>) = 1
      OBVIOUS
    <3> QED
      BY <2>3, <3>1, <3>2 DEF w
  <2>4. CASE h # 0
    <3>1. h \in 1..Len(l) /\ Len(l) \in Nat
      BY <1>8, <2>4, DepthsAre
    <3>2. R[h] \in Seq(Names) /\ Len(R[h]) = l[h].depth + 1 /\ l[h].depth \in Nat
      BY <1>8, <3>1, PathLast, DepthsAre
    <3>3. R[i] = Append(R[h], l[i].name)
      BY <1>8, <2>4, PathOfKid
    <3> DEFINE w == l[i].name
               f == R[h]
    <3> HIDE DEF w, f
    <3>4. f \in Seq(Names) /\ w \in Names
      BY <2>2, <3>2 DEF f, w
    <3>5. Len(Append(f, w)) = Len(f) + 1 /\ Len(f) \in Nat
      BY <3>4
    <3>6. Len(f) # 0
      BY <3>2 DEF f
    <3> QED
      BY <2>4, <3>1, <3>3, <3>4, <3>5, <3>6 DEF f, w
  <2> QED
    BY <2>3, <2>4
<1>9. /\ p = 0 => Len(P[c]) = 1 /\ Len(P[d]) = 1
      /\ a = 0 => Len(Q[x]) = 1
      /\ b = 0 => Len(Q[y]) = 1
  BY <1>1, <1>3, <1>6, <1>7, <1>8
<1>10. p # 0 => /\ p \in 1..Len(s) /\ P[p] \in Seq(Names) /\ Len(P[p]) \in Nat /\ Len(P[p]) # 0
                /\ P[c] = Append(P[p], s[c].name) /\ s[c].name \in Names
                /\ P[d] = Append(P[p], s[d].name) /\ s[d].name \in Names
                /\ Len(P[c]) = Len(P[p]) + 1 /\ Len(P[d]) = Len(P[p]) + 1
  BY <1>1, <1>3, <1>8
<1>11. a # 0 => /\ a \in 1..Len(u) /\ Q[a] \in Seq(Names) /\ Len(Q[a]) \in Nat /\ Len(Q[a]) # 0
                /\ Q[x] = Append(Q[a], u[x].name) /\ u[x].name \in Names
                /\ Len(Q[x]) = Len(Q[a]) + 1
  BY <1>1, <1>6, <1>8, SMTT(30)
<1>12. b # 0 => /\ b \in 1..Len(u) /\ Q[b] \in Seq(Names) /\ Len(Q[b]) \in Nat /\ Len(Q[b]) # 0
                /\ Q[y] = Append(Q[b], u[y].name) /\ u[y].name \in Names
                /\ Len(Q[y]) = Len(Q[b]) + 1
  BY <1>1, <1>7, <1>8
<1>13. CASE p = 0
  <2>1. a = 0 /\ b = 0
    BY <1>2, <1>9, <1>11, <1>12, <1>13
  <2> QED
    BY <1>6, <1>7, <2>1 DEF Siblings
<1>14. CASE p # 0
  <2>1. a # 0 /\ b # 0
    BY <1>2, <1>9, <1>10, <1>14
  <2>2. ASSUME NEW f \in Seq(Names), NEW g \in Seq(Names), NEW v \in Names, NEW w \in Names,
               Append(f, v) = Append(g, w)
        PROVE  f = g
    <3>1. Len(f) + 1 = Len(g) + 1 /\ Len(f) \in Nat /\ Len(g) \in Nat
      <4>1. Len(Append(f, v)) = Len(f) + 1 /\ Len(Append(g, w)) = Len(g) + 1
        OBVIOUS
      <4> QED
        BY <2>2, <4>1
    <3>2. \A i \in 1..Len(f) : f[i] = g[i]
      <4>1. \A i \in 1..Len(f) : Append(f, v)[i] = f[i] /\ Append(g, w)[i] = g[i]
        BY <3>1
      <4> QED
        BY <2>2, <4>1
    <3> QED
      BY <3>1, <3>2, SeqEqual
  <2>3. P[p] = Q[a]
    <3>1. Append(P[p], s[c].name) = Append(Q[a], u[x].name)
      BY <1>2, <1>10, <1>11, <1>14, <2>1
    <3>2. /\ P[p] \in Seq(Names) /\ s[c].name \in Names
          /\ Q[a] \in Seq(Names) /\ u[x].name \in Names
      BY <1>10, <1>11, <1>14, <2>1
    <3> DEFINE f == P[p]
               g == Q[a]
               v == s[c].name
               w == u[x].name
    <3>3. f \in Seq(Names) /\ g \in Seq(Names) /\ v \in Names /\ w \in Names
          /\ Append(f, v) = Append(g, w)
      BY <3>1, <3>2
    <3> HIDE DEF f, g, v, w
    <3>4. f = g
      BY <2>2, <3>3
    <3> QED
      BY <3>4 DEF f, g
  <2>4. P[p] = Q[b]
    <3>1. Append(P[p], s[d].name) = Append(Q[b], u[y].name)
      BY <1>2, <1>10, <1>12, <1>14, <2>1
    <3>2. /\ P[p] \in Seq(Names) /\ s[d].name \in Names
          /\ Q[b] \in Seq(Names) /\ u[y].name \in Names
      BY <1>10, <1>12, <1>14, <2>1
    <3> DEFINE f == P[p]
               g == Q[b]
               v == s[d].name
               w == u[y].name
    <3>3. f \in Seq(Names) /\ g \in Seq(Names) /\ v \in Names /\ w \in Names
          /\ Append(f, v) = Append(g, w)
      BY <3>1, <3>2
    <3> HIDE DEF f, g, v, w
    <3>4. f = g
      BY <2>2, <3>3
    <3> QED
      BY <3>4 DEF f, g
  <2>5. a = b
    BY <1>1, <1>11, <1>12, <2>1, <2>3, <2>4
  <2> QED
    BY <1>6, <1>7, <2>5 DEF Siblings
<1> QED
  BY <1>13, <1>14

\* In a sorted list of one tree entries come in the order they have in another.
LEMMA SortedAgree ==
  ASSUME NEW s, NEW u, IsSortedList(s), IsSortedList(u), OneTree(s, u),
         NEW k \in 1..Len(s), NEW m \in 1..Len(s), k < m,
         NEW x \in 1..Len(u), NEW y \in 1..Len(u),
         EntryPaths(s)[k] = EntryPaths(u)[x], EntryPaths(s)[m] = EntryPaths(u)[y]
  PROVE  x < y
<1> DEFINE P == EntryPaths(s)
           Q == EntryPaths(u)
           ids == [i \in 1..Len(s) |-> i]
           idu == [i \in 1..Len(u) |-> i]
<1>1. /\ IsList(s) /\ Clean(s) /\ Nested(s) /\ PathsOf(s, P) /\ Len(s) \in Nat
      /\ IsList(u) /\ Clean(u) /\ Nested(u) /\ PathsOf(u, Q) /\ Len(u) \in Nat
      /\ \A i, j \in 1..Len(s) : P[i] = P[j] => i = j
      /\ \A i, j \in 1..Len(u) : Q[i] = Q[j] => i = j
  BY PathsOfClean DEF IsSortedList
<1>2. /\ Lists(s, ids, 1..Len(s)) /\ Lists(u, idu, 1..Len(u))
  BY InOrderAlready DEF IsSortedList
<1>3. /\ Len(ids) = Len(s) /\ \A i \in 1..Len(s) : ids[i] = i
      /\ Len(idu) = Len(u) /\ \A i \in 1..Len(u) : idu[i] = i
  BY <1>1
<1>4. P[k] = Q[x] /\ P[m] = Q[y]
  OBVIOUS
<1>5. /\ \A c, i \in 1..Len(s) : i \in Span(s, c) <=> P[c] \in Above(P[i])
      /\ \A c, i \in 1..Len(u) : i \in Span(u, c) <=> Q[c] \in Above(Q[i])
  BY <1>1, BlockIsAbove
<1>6. /\ \A i \in 1..Len(s) : \E z \in 1..Len(u) : s[i] = u[z] /\ P[i] = Q[z]
  BY DEF OneTree
<1> HIDE DEF P, Q, ids, idu
<1>7. x # y
  BY <1>1, <1>4
<1>8. k \notin Below(s, m)
  BY <1>1, BelowFacts
<1>9. CASE m \in Below(s, k)
  <2>1. y \in Span(u, x)
    <3>1. m \in Span(s, k)
      BY <1>9 DEF Span
    <3> QED
      BY <1>4, <1>5, <3>1
  <2>2. y \in Below(u, x)
    BY <1>7, <2>1 DEF Span
  <2> QED
    BY <1>1, <2>2, BelowFacts
<1>10. CASE m \notin Below(s, k)
  <2>1. PICK p, c, d : Parted(s, k, m, p, c, d)
    BY <1>1, <1>8, <1>10, PartedSomewhere
  <2>2. /\ p \in 0..Len(s) /\ c \in Kids(s, p) /\ d \in Kids(s, p) /\ c # d
        /\ k \in Span(s, c) /\ m \in Span(s, d)
    BY <2>1 DEF Parted
  <2>3. c \in 1..Len(s) /\ d \in 1..Len(s)
    BY <1>1, <2>2, KidOfParent
  <2>4. PICK v \in 1..Len(u) : s[c] = u[v] /\ P[c] = Q[v]
    BY <1>6, <2>3
  <2>5. PICK w \in 1..Len(u) : s[d] = u[w] /\ P[d] = Q[w]
    BY <1>6, <2>3
  <2>6. v # w
    BY <1>1, <2>2, <2>3, <2>4, <2>5
  <2>7. x \in Span(u, v) /\ y \in Span(u, w)
    BY <1>4, <1>5, <2>2, <2>3, <2>4, <2>5
  <2>8. PICK q : Siblings(u, q, v, w)
    <3>1. Siblings(s, p, c, d)
      BY <2>2 DEF Siblings
    <3>2. EntryPaths(s)[c] = EntryPaths(u)[v] /\ EntryPaths(s)[d] = EntryPaths(u)[w]
      BY <2>4, <2>5 DEF P, Q
    <3> QED
      BY <1>1, <3>1, <3>2, SiblingsAgree
  <2>9. Parted(u, idu[x], idu[y], q, v, w)
    BY <1>3, <2>6, <2>7, <2>8 DEF Parted, Siblings
  <2>10. Parted(s, ids[k], ids[m], p, c, d) /\ Parted(s, ids[m], ids[k], p, d, c)
    BY <1>3, <2>1 DEF Parted
  <2>11. /\ SiblingLess(s[c], s[d]) \/ SiblingLess(s[d], s[c])
         /\ ~(SiblingLess(s[c], s[d]) /\ SiblingLess(s[d], s[c]))
    <3> DEFINE e == s[c]
               f == s[d]
    <3>1. e.name \in Int /\ f.name \in Int
      <4>1. Names \subseteq Int
        BY NamesAssumption
      <4> QED
        BY <1>1, <2>3, <4>1 DEF IsList
    <3>2. e.name # f.name
      BY <1>1, <2>2, CleanIsDistinct DEF Distinct
    <3> HIDE DEF e, f
    <3>3. /\ SiblingLess(e, f) \/ SiblingLess(f, e)
          /\ ~(SiblingLess(e, f) /\ SiblingLess(f, e))
      BY ONLY <3>1, <3>2, SiblingOrder
    <3> QED
      BY <3>3 DEF e, f
  <2>12. SiblingLess(s[c], s[d])
    <3> SUFFICES ASSUME SiblingLess(s[d], s[c]), ~SiblingLess(s[c], s[d]) PROVE FALSE
      BY <2>11
    <3>1. m < k
      BY <1>1, <1>2, <1>3, <2>10, BlocksApart
    <3> QED
      BY <1>1, <3>1
  <2>13. SiblingLess(u[v], u[w]) /\ ~SiblingLess(u[w], u[v])
    BY <2>4, <2>5, <2>11, <2>12
  <2> QED
    BY <1>1, <1>2, <1>3, <2>9, <2>13, BlocksApart
<1> QED
  BY <1>9, <1>10

LEMMA SortGivesSorted ==
  ASSUME NEW es, IsList(es), Clean(es)
  PROVE  IsSortedList(SortEntries(es))
<1>1. IsList(SortEntries(es))
  BY SortIsList
<1>2. CASE es = <<>>
  <2>1. SortEntries(es) = es
    BY <1>2 DEF SortEntries
  <2>2. \A p \in 0..Len(es) : Kids(es, p) = {}
    <3>1. Len(es) = 0
      BY <1>2
    <3> QED
      BY <3>1, BelowFacts DEF Kids
  <2> QED
    BY <1>1, <2>1, <2>2 DEF IsSortedList
<1>3. CASE es # <<>>
  BY <1>1, <1>3, SortIsSorted DEF IsSortedList
<1> QED
  BY <1>2, <1>3

\* A tree has one sorted list.
LEMMA OneSortedList ==
  ASSUME NEW s, NEW u, IsSortedList(s), IsSortedList(u), OneTree(s, u)
  PROVE  s = u
<1> DEFINE P == EntryPaths(s)
           Q == EntryPaths(u)
           S == {P[i] : i \in 1..Len(s)}
<1>1. /\ P \in Seq(Seq(Names)) /\ Len(P) = Len(s) /\ Len(s) \in Nat
      /\ Q \in Seq(Seq(Names)) /\ Len(Q) = Len(u) /\ Len(u) \in Nat
      /\ \A i, j \in 1..Len(s) : P[i] = P[j] => i = j
      /\ \A i, j \in 1..Len(u) : Q[i] = Q[j] => i = j
      /\ IsList(s) /\ IsList(u)
  BY PathsOfClean DEF IsSortedList
<1>2. /\ \A k \in 1..Len(s) : \E x \in 1..Len(u) : s[k] = u[x] /\ P[k] = Q[x]
      /\ \A x \in 1..Len(u) : \E k \in 1..Len(s) : s[k] = u[x] /\ P[k] = Q[x]
  BY DEF OneTree
<1>3. ASSUME NEW k \in 1..Len(P), NEW m \in 1..Len(P), NEW x \in 1..Len(Q), NEW y \in 1..Len(Q),
             P[k] = Q[x] /\ P[m] = Q[y] /\ k < m
      PROVE  x < y
  BY <1>1, <1>3, SortedAgree
<1> HIDE DEF P, Q
<1>4. Enumerating(P, S)
  <2>1. P = [i \in 1..Len(s) |-> P[i]] /\ \A i \in 1..Len(s) : P[i] \in S
    BY <1>1
  <2> HIDE DEF S
  <2>2. P \in Seq(S)
    BY <1>1, <2>1
  <2>3. \A z \in S : \E i \in 1..Len(P) : P[i] = z
    BY <1>1 DEF S
  <2> QED
    BY <1>1, <2>2, <2>3 DEF Enumerating
<1>5. Enumerating(Q, S)
  <2>1. Q = [i \in 1..Len(u) |-> Q[i]]
    BY <1>1
  <2>2. \A i \in 1..Len(u) : Q[i] \in S
    BY <1>2
  <2>3. \A z \in S : \E i \in 1..Len(Q) : Q[i] = z
    <3>1. \A k \in 1..Len(s) : \E i \in 1..Len(Q) : Q[i] = P[k]
      BY <1>1, <1>2
    <3> QED
      BY <3>1
  <2> HIDE DEF S
  <2>4. Q \in Seq(S)
    BY <1>1, <2>1, <2>2
  <2> QED
    BY <1>1, <2>3, <2>4 DEF Enumerating
<1> HIDE DEF S
<1>6. P = Q
  BY <1>3, <1>4, <1>5, SameOrder
<1>7. Len(s) = Len(u)
  BY <1>1, <1>6
<1>8. \A k \in 1..Len(s) : s[k] = u[k]
  BY <1>1, <1>2, <1>6, <1>7
<1>9. s = [k \in 1..Len(s) |-> s[k]] /\ u = [k \in 1..Len(u) |-> u[k]]
  BY <1>1 DEF IsList
<1> QED
  BY <1>7, <1>8, <1>9
\* Clean lists of one tree are the same once they are sorted.
LEMMA SortOfTree ==
  ASSUME NEW es, NEW fs, IsList(es), IsList(fs), Clean(es), Clean(fs),
         BuildPatchTree(es) = BuildPatchTree(fs)
  PROVE  SortEntries(es) = SortEntries(fs)
<1> DEFINE P == EntryPaths(es)
           Q == EntryPaths(fs)
           t == BuildPatchTree(es)
           s == SortEntries(es)
           u == SortEntries(fs)
<1>1. /\ DOMAIN t = {P[i] : i \in 1..Len(es)}
      /\ \A i \in 1..Len(es) : t[P[i]] = es[i]
  BY TreeOfClean
<1>2. /\ DOMAIN t = {Q[i] : i \in 1..Len(fs)}
      /\ \A i \in 1..Len(fs) : t[Q[i]] = fs[i]
  <2> DEFINE v == BuildPatchTree(fs)
  <2>1. /\ DOMAIN v = {Q[i] : i \in 1..Len(fs)}
        /\ \A i \in 1..Len(fs) : v[Q[i]] = fs[i]
    BY TreeOfClean
  <2>2. v = t
    OBVIOUS
  <2> HIDE DEF v, t, Q
  <2> QED
    BY <2>1, <2>2
<1>3. /\ \A k \in 1..Len(s) : \E i \in 1..Len(es) : s[k] = es[i] /\ EntryPaths(s)[k] = P[i]
      /\ \A i \in 1..Len(es) : \E k \in 1..Len(s) : s[k] = es[i] /\ EntryPaths(s)[k] = P[i]
  BY SortKeepsPaths
<1>4. /\ \A k \in 1..Len(u) : \E i \in 1..Len(fs) : u[k] = fs[i] /\ EntryPaths(u)[k] = Q[i]
      /\ \A i \in 1..Len(fs) : \E k \in 1..Len(u) : u[k] = fs[i] /\ EntryPaths(u)[k] = Q[i]
  BY SortKeepsPaths
<1> HIDE DEF P, Q, t, s, u
<1>5. /\ \A i \in 1..Len(es) : \E j \in 1..Len(fs) : es[i] = fs[j] /\ P[i] = Q[j]
      /\ \A j \in 1..Len(fs) : \E i \in 1..Len(es) : es[i] = fs[j] /\ P[i] = Q[j]
  <2>1. ASSUME NEW i \in 1..Len(es)
        PROVE  \E j \in 1..Len(fs) : es[i] = fs[j] /\ P[i] = Q[j]
    <3>1. P[i] \in DOMAIN t
      BY <1>1
    <3>2. PICK j \in 1..Len(fs) : Q[j] = P[i]
      BY <1>2, <3>1
    <3> QED
      BY <1>1, <1>2, <3>2
  <2>2. ASSUME NEW j \in 1..Len(fs)
        PROVE  \E i \in 1..Len(es) : es[i] = fs[j] /\ P[i] = Q[j]
    <3>1. Q[j] \in DOMAIN t
      BY <1>2
    <3>2. PICK i \in 1..Len(es) : P[i] = Q[j]
      BY <1>1, <3>1
    <3> QED
      BY <1>1, <1>2, <3>2
  <2> QED
    BY <2>1, <2>2
<1>6. OneTree(s, u)
  <2>1. ASSUME NEW k \in 1..Len(s)
        PROVE  \E x \in 1..Len(u) : s[k] = u[x] /\ EntryPaths(s)[k] = EntryPaths(u)[x]
    <3>1. PICK i \in 1..Len(es) : s[k] = es[i] /\ EntryPaths(s)[k] = P[i]
      BY <1>3
    <3>2. PICK j \in 1..Len(fs) : es[i] = fs[j] /\ P[i] = Q[j]
      BY <1>5
    <3>3. PICK x \in 1..Len(u) : u[x] = fs[j] /\ EntryPaths(u)[x] = Q[j]
      BY <1>4
    <3> QED
      BY <3>1, <3>2, <3>3
  <2>2. ASSUME NEW x \in 1..Len(u)
        PROVE  \E k \in 1..Len(s) : s[k] = u[x] /\ EntryPaths(s)[k] = EntryPaths(u)[x]
    <3>1. PICK j \in 1..Len(fs) : u[x] = fs[j] /\ EntryPaths(u)[x] = Q[j]
      BY <1>4
    <3>2. PICK i \in 1..Len(es) : es[i] = fs[j] /\ P[i] = Q[j]
      BY <1>5
    <3>3. PICK k \in 1..Len(s) : s[k] = es[i] /\ EntryPaths(s)[k] = P[i]
      BY <1>3
    <3> QED
      BY <3>1, <3>2, <3>3
  <2> QED
    BY <2>1, <2>2 DEF OneTree
<1>7. IsSortedList(s) /\ IsSortedList(u)
  BY SortGivesSorted DEF s, u
<1> QED
  BY <1>6, <1>7, OneSortedList DEF s, u

LEMMA SortGivesTree ==
  ASSUME NEW es, IsList(es), Clean(es)
  PROVE  BuildPatchTree(SortEntries(es)) = BuildPatchTree(es)
<1> DEFINE P == EntryPaths(es)
           t == BuildPatchTree(es)
           s == SortEntries(es)
           v == BuildPatchTree(s)
<1>1. IsList(s) /\ Clean(s)
  BY SortGivesSorted DEF IsSortedList
<1>2. /\ t = [p \in DOMAIN t |-> t[p]]
      /\ DOMAIN t = {P[i] : i \in 1..Len(es)}
      /\ \A i \in 1..Len(es) : t[P[i]] = es[i]
  BY TreeOfClean
<1>3. /\ v = [p \in DOMAIN v |-> v[p]]
      /\ DOMAIN v = {EntryPaths(s)[i] : i \in 1..Len(s)}
      /\ \A i \in 1..Len(s) : v[EntryPaths(s)[i]] = s[i]
  BY <1>1, TreeOfClean
<1>4. /\ \A k \in 1..Len(s) : \E i \in 1..Len(es) : s[k] = es[i] /\ EntryPaths(s)[k] = P[i]
      /\ \A i \in 1..Len(es) : \E k \in 1..Len(s) : s[k] = es[i] /\ EntryPaths(s)[k] = P[i]
  BY SortKeepsPaths
<1> HIDE DEF P, t, s, v
<1>5. ASSUME NEW p \in DOMAIN t
      PROVE  p \in DOMAIN v /\ v[p] = t[p]
  <2>1. PICK i \in 1..Len(es) : P[i] = p
    BY <1>2
  <2>2. PICK k \in 1..Len(s) : s[k] = es[i] /\ EntryPaths(s)[k] = P[i]
    BY <1>4
  <2> QED
    BY <1>2, <1>3, <2>1, <2>2
<1>6. ASSUME NEW p \in DOMAIN v
      PROVE  p \in DOMAIN t
  <2>1. PICK k \in 1..Len(s) : EntryPaths(s)[k] = p
    BY <1>3
  <2>2. PICK i \in 1..Len(es) : EntryPaths(s)[k] = P[i]
    BY <1>4
  <2> QED
    BY <1>2, <2>1, <2>2
<1>7. DOMAIN v = DOMAIN t
  BY <1>5, <1>6
<1>8. v = t
  BY <1>2, <1>3, <1>5, <1>7
<1> QED
  BY <1>8 DEF v, t, s

-----------------------------------------------------------------------------
(* Sums over finite sets, whatever the order: as many pairs as they add up to. *)

\* As many pairs as the values of v on T add up to.
Units(T, v) == {u \in T \X Nat : u[2] < v[u[1]]}

Total(T, v) == Cardinality(Units(T, v))

LEMMA UnitsOfOne ==
  ASSUME NEW x, NEW v, v[x] \in Nat
  PROVE  IsFiniteSet(Units({x}, v)) /\ Total({x}, v) = v[x]
<1> DEFINE a == v[x]
           I == 0..(a - 1)
           U == Units({x}, v)
           f == [m \in I |-> <<x, m>>]
<1>1. a \in Nat /\ a - 1 \in Int
  OBVIOUS
<1>2. IsFiniteSet(I) /\ Cardinality(I) = a
  <2> DEFINE b == a - 1
  <2>1. 0 \in Int /\ b \in Int
    BY <1>1
  <2> HIDE DEF b
  <2>2. IsFiniteSet(0..b) /\ Cardinality(0..b) = IF 0 > b THEN 0 ELSE b - 0 + 1
    BY ONLY <2>1, FS_Interval
  <2>3. (IF 0 > b THEN 0 ELSE b - 0 + 1) = a
    BY <1>1 DEF b
  <2> QED
    BY <2>2, <2>3 DEF b
<1>3. \A u \in U : u[2] \in I /\ u = <<x, u[2]>>
  BY <1>1 DEF Units
<1>4. \A m \in I : <<x, m>> \in U
  BY <1>1 DEF Units
<1> HIDE DEF I, U, a
<1>5. f \in Bijection(I, U)
  <2>1. f \in [I -> U]
    BY <1>4
  <2>2. \A m, r \in I : f[m] = f[r] => m = r
    OBVIOUS
  <2>3. \A u \in U : \E m \in I : f[m] = u
    BY <1>3
  <2> HIDE DEF f
  <2> QED
    BY <2>1, <2>2, <2>3 DEF Bijection, Injection, Surjection, IsInjective
<1> QED
  <2>1. ExistsBijection(I, U)
    BY <1>5 DEF ExistsBijection
  <2> QED
    BY <1>2, <2>1, FS_Bijection DEF U, Total, a

LEMMA UnitsFinite ==
  ASSUME NEW T, IsFiniteSet(T), NEW v, \A x \in T : v[x] \in Nat
  PROVE  IsFiniteSet(Units(T, v)) /\ Total(T, v) \in Nat
<1> DEFINE f == [x \in T |-> Units({x}, v)]
           F == {f[x] : x \in T}
<1>1. IsFiniteSet(F)
  BY ImageFinite
<1>2. \A U \in F : IsFiniteSet(U)
  BY UnitsOfOne
<1>3. Units(T, v) = UNION F
  <2>1. \A u \in Units(T, v) : u[1] \in T /\ u \in Units({u[1]}, v)
    BY DEF Units
  <2>2. \A x \in T : \A u \in Units({x}, v) : u \in Units(T, v)
    BY DEF Units
  <2> QED
    BY <2>1, <2>2
<1>4. IsFiniteSet(Units(T, v))
  <2> HIDE DEF F
  <2> QED
    BY <1>1, <1>2, <1>3, FS_UNION
<1> QED
  BY <1>4, FS_CardinalityType DEF Total

LEMMA TotalNone ==
  ASSUME NEW v
  PROVE  Total({}, v) = 0
<1>1. Units({}, v) = {}
  BY DEF Units
<1> QED
  BY <1>1, FS_EmptySet DEF Total

\* One more element adds its value.
LEMMA TotalStep ==
  ASSUME NEW T, IsFiniteSet(T), NEW v, \A x \in T : v[x] \in Nat, NEW x \in T
  PROVE  Total(T, v) = v[x] + Total(T \ {x}, v)
<1> DEFINE R == T \ {x}
           A == Units({x}, v)
           B == Units(R, v)
<1>1. IsFiniteSet(R) /\ \A y \in R : v[y] \in Nat
  BY FS_RemoveElement
<1>2. IsFiniteSet(A) /\ Total({x}, v) = v[x] /\ v[x] \in Nat
  BY UnitsOfOne
<1>3. IsFiniteSet(B) /\ Total(R, v) \in Nat
  BY <1>1, UnitsFinite
<1>4. Units(T, v) = A \cup B
  BY DEF Units
<1>5. A \cap B = {}
  BY DEF Units
<1> HIDE DEF A, B
<1>6. Cardinality(A \cup B) = Cardinality(A) + Cardinality(B) - Cardinality({})
  BY <1>2, <1>3, <1>5, FS_Union
<1> QED
  BY <1>2, <1>3, <1>4, <1>6, FS_EmptySet DEF Total, A, B

\* Totals do not depend on what the elements are.
LEMMA TotalCarries ==
  ASSUME NEW S, IsFiniteSet(S), NEW v, \A x \in S : v[x] \in Nat, NEW T, NEW w,
         NEW h \in Bijection(S, T), \A x \in S : w[h[x]] = v[x]
  PROVE  Total(S, v) = Total(T, w)
<1> DEFINE A == Units(S, v)
           B == Units(T, w)
           f == [u \in A |-> <<h[u[1]], u[2]>>]
<1>1. /\ h \in [S -> T]
      /\ \A x, y \in S : h[x] = h[y] => x = y
      /\ \A y \in T : \E x \in S : h[x] = y
  BY DEF Bijection, Injection, Surjection, IsInjective
<1>2. \A u \in A : u[1] \in S /\ u[2] \in Nat /\ u[2] < v[u[1]] /\ u = <<u[1], u[2]>>
  BY DEF Units
<1>3. \A x \in S : \A m \in Nat : m < v[x] => <<x, m>> \in A
  BY DEF Units
<1>4. \A y \in T : \A m \in Nat : m < w[y] => <<y, m>> \in B
  BY DEF Units
<1>5. \A u \in B : u[1] \in T /\ u[2] \in Nat /\ u[2] < w[u[1]] /\ u = <<u[1], u[2]>>
  BY DEF Units
<1> HIDE DEF A, B
<1>6. ASSUME NEW u \in A
      PROVE  f[u] \in B /\ f[u] = <<h[u[1]], u[2]>>
  <2>1. h[u[1]] \in T /\ w[h[u[1]]] = v[u[1]]
    BY <1>1, <1>2
  <2>2. u[2] \in Nat /\ u[2] < w[h[u[1]]]
    BY <1>2, <2>1
  <2> QED
    BY <1>4, <2>1, <2>2
<1>7. \A u, z \in A : f[u] = f[z] => u = z
  <2> SUFFICES ASSUME NEW u \in A, NEW z \in A, f[u] = f[z] PROVE u = z
    OBVIOUS
  <2>1. h[u[1]] = h[z[1]] /\ u[2] = z[2]
    BY <1>6
  <2>2. u[1] = z[1]
    BY <1>1, <1>2, <2>1
  <2> QED
    BY <1>2, <2>1, <2>2
<1>8. \A z \in B : \E u \in A : f[u] = z
  <2> SUFFICES ASSUME NEW z \in B PROVE \E u \in A : f[u] = z
    OBVIOUS
  <2>1. PICK x \in S : h[x] = z[1]
    BY <1>1, <1>5
  <2>2. <<x, z[2]>> \in A
    BY <1>3, <1>5, <2>1
  <2>3. f[<<x, z[2]>>] = <<h[x], z[2]>>
    BY <2>2
  <2> QED
    BY <1>5, <2>1, <2>2, <2>3
<1>9. f \in Bijection(A, B)
  <2>1. f \in [A -> B]
    BY <1>6
  <2> HIDE DEF f
  <2> QED
    BY <1>7, <1>8, <2>1 DEF Bijection, Injection, Surjection, IsInjective
<1> QED
  <2>1. ExistsBijection(A, B)
    BY <1>9 DEF ExistsBijection
  <2>2. IsFiniteSet(A)
    BY UnitsFinite DEF A
  <2> QED
    BY <2>1, <2>2, FS_Bijection DEF Total, A, B

\* The sum of the code's loop, in whatever order it goes.
Sums(g, S, v) ==
  g = [T \in SUBSET S |->
         IF T = {} THEN 0
         ELSE v[CHOOSE x \in T : TRUE] + LineLen + g[T \ {CHOOSE x \in T : TRUE}]]

LEMMA SumIs ==
  ASSUME NEW S, IsFiniteSet(S), NEW v, \A x \in S : v[x] \in Nat
  PROVE  SumOver(S, LAMBDA k : v[k] + LineLen) = Total(S, [x \in S |-> v[x] + LineLen])
<1> DEFINE w == [x \in S |-> v[x] + LineLen]
           total == [T \in SUBSET S |-> Total(T, w)]
           g == CHOOSE g : Sums(g, S, v)
           U == {n \in Nat : \A T \in SUBSET S : Cardinality(T) = n => g[T] = Total(T, w)}
<1>1. \A x \in S : w[x] = v[x] + LineLen /\ w[x] \in Nat
  BY LineLenAssumption
<1>2. \A T \in SUBSET S : IsFiniteSet(T) /\ Cardinality(T) \in Nat
  BY FS_Subset, FS_CardinalityType
<1> HIDE DEF w
<1>3. ASSUME NEW T \in SUBSET S, T # {}
      PROVE  LET x == CHOOSE x \in T : TRUE
             IN  /\ x \in T
                 /\ Total(T, w) = v[x] + LineLen + Total(T \ {x}, w)
                 /\ Cardinality(T) = Cardinality(T \ {x}) + 1
  <2> DEFINE x == CHOOSE x \in T : TRUE
  <2>1. x \in T
    BY <1>3
  <2> HIDE DEF x
  <2>2. Total(T, w) = w[x] + Total(T \ {x}, w)
    BY <1>1, <1>2, <2>1, TotalStep
  <2>3. Cardinality(T \ {x}) = Cardinality(T) - 1
    BY <1>2, <2>1, FS_RemoveElement
  <2> QED
    BY <1>1, <1>2, <2>1, <2>2, <2>3 DEF x
<1>4. Sums(total, S, v)
  <2> DEFINE X(T) == CHOOSE x \in T : TRUE
             right == [T \in SUBSET S |->
                         IF T = {} THEN 0 ELSE v[X(T)] + LineLen + total[T \ {X(T)}]]
  <2>1. ASSUME NEW T \in SUBSET S
        PROVE  total[T] = right[T]
    <3>1. CASE T = {}
      BY <3>1, TotalNone
    <3>2. CASE T # {}
      <4>1. T \ {X(T)} \in SUBSET S
        OBVIOUS
      <4>2. Total(T, w) = v[X(T)] + LineLen + Total(T \ {X(T)}, w)
        BY <1>3, <3>2
      <4> HIDE DEF X
      <4> QED
        BY <3>2, <4>1, <4>2
    <3> QED
      BY <3>1, <3>2
  <2>2. total = right
    <3> HIDE DEF X
    <3> QED
      BY <2>1
  <2> QED
    BY <2>2 DEF Sums
<1>5. Sums(g, S, v)
  <2> HIDE DEF total
  <2> QED
    BY <1>4
<1>6. SumOver(S, LAMBDA k : v[k] + LineLen) = g[S]
  BY DEF SumOver, MapThenFoldSet, Sums
<1> HIDE DEF g
<1>7. 0 \in U
  <2>1. \A T \in SUBSET S : Cardinality(T) = 0 => T = {}
    BY <1>2, FS_EmptySet
  <2>2. g[{}] = 0
    BY <1>5 DEF Sums
  <2> QED
    BY <2>1, <2>2, TotalNone
<1>8. ASSUME NEW n \in Nat, n \in U
      PROVE  n + 1 \in U
  <2> SUFFICES ASSUME NEW T \in SUBSET S, Cardinality(T) = n + 1
               PROVE  g[T] = Total(T, w)
    OBVIOUS
  <2> DEFINE x == CHOOSE x \in T : TRUE
  <2>1. T # {}
    BY FS_EmptySet
  <2>2. /\ Total(T, w) = v[x] + LineLen + Total(T \ {x}, w)
        /\ Cardinality(T) = Cardinality(T \ {x}) + 1
    BY <1>3, <2>1
  <2>3. g[T] = v[x] + LineLen + g[T \ {x}]
    BY <1>5, <2>1 DEF Sums
  <2> HIDE DEF x
  <2>4. T \ {x} \in SUBSET S
    OBVIOUS
  <2>5. Cardinality(T \ {x}) = n
    BY <1>2, <2>2, <2>4
  <2>6. g[T \ {x}] = Total(T \ {x}, w)
    BY <1>8, <2>4, <2>5
  <2> QED
    BY <2>2, <2>3, <2>6
<1>9. Nat \subseteq U
  <2> HIDE DEF U
  <2> QED
    BY <1>7, <1>8, Walk!NatInSet
<1>10. g[S] = Total(S, w)
  <2>1. S \in SUBSET S
    OBVIOUS
  <2> QED
    BY <1>2, <1>9, <2>1
<1> QED
  BY <1>6, <1>10 DEF w

-----------------------------------------------------------------------------
(* Canonicalize: the values it computes solve the equations of propagation.   *)

Propagates(es, i) == IsDir(es[i]) /\ HasNullValues(es[i])

\* The size and the timestamp of entry i, from those of the entries after it.
SizeAt(es, size, i) ==
  IF ~Propagates(es, i) \/ es[i].size # NullSize THEN es[i].size
  ELSE IF \E k \in KidsOf(es, i) : size[k] = NullSize THEN NullSize
  ELSE SumOver(KidsOf(es, i), LAMBDA k : size[k] + LineLen)

StampAt(es, stamp, i) ==
  LET known == {stamp[k] : k \in KidsOf(es, i)}
  IN IF ~Propagates(es, i) \/ es[i].timestamp # NullTimestamp \/ KidsOf(es, i) = {}
     THEN es[i].timestamp
     ELSE IF NullTimestamp \in known THEN NullTimestamp
     ELSE Max(known)

Sizing == INSTANCE FoldFacts WITH Op <- SizeAt
Stamping == INSTANCE FoldFacts WITH Op <- StampAt

Sizes == Nat \cup {NullSize}

Measured(es) ==
  IsList(es) /\ \A i \in 1..Len(es) : es[i].size \in Sizes /\ es[i].timestamp \in Nat

LEMMA KidsAreLater ==
  ASSUME NEW es, IsList(es), NEW i \in 1..Len(es)
  PROVE  /\ IsFiniteSet(KidsOf(es, i)) /\ KidsOf(es, i) \in SUBSET (1..Len(es))
         /\ \A k \in KidsOf(es, i) : k \in 1..Len(es) /\ k > i
<1>1. Len(es) \in Nat
  BY DEF IsList
<1>2. \A k \in KidsOf(es, i) : k \in 1..Len(es) /\ k > i
  BY <1>1 DEF KidsOf
<1>3. KidsOf(es, i) \in SUBSET (1..Len(es))
  BY <1>2
<1> QED
  BY <1>1, <1>2, <1>3, NumbersTo

LEMMA SizesAreLater ==
  ASSUME NEW es, Measured(es)
  PROVE  Sizing!Later(es, Len(es), Sizes)
<1>1. IsList(es) /\ Len(es) \in Nat
  BY DEF Measured, IsList
<1> SUFFICES ASSUME NEW f, NEW g, NEW i \in 1..Len(es),
                    \A k \in 1..Len(es) : k > i => f[k] \in Sizes /\ g[k] = f[k]
             PROVE  SizeAt(es, f, i) \in Sizes /\ SizeAt(es, g, i) = SizeAt(es, f, i)
  BY DEF Sizing!Later
<1> DEFINE kids == KidsOf(es, i)
<1>2. \A k \in kids : f[k] \in Sizes /\ g[k] = f[k]
  BY <1>1, KidsAreLater
<1>3. IsFiniteSet(kids)
  BY <1>1, KidsAreLater
<1>4. CASE ~Propagates(es, i) \/ es[i].size # NullSize
  BY <1>4 DEF SizeAt, Measured
<1>5. CASE Propagates(es, i) /\ es[i].size = NullSize /\ \E k \in kids : f[k] = NullSize
  <2>1. \E k \in kids : g[k] = NullSize
    BY <1>2, <1>5
  <2>2. SizeAt(es, f, i) = NullSize
    BY <1>5 DEF SizeAt
  <2>3. SizeAt(es, g, i) = NullSize
    BY <1>5, <2>1 DEF SizeAt
  <2> QED
    BY <2>2, <2>3 DEF Sizes
<1>6. CASE Propagates(es, i) /\ es[i].size = NullSize /\ ~\E k \in kids : f[k] = NullSize
  <2>1. \A k \in kids : f[k] \in Nat /\ g[k] \in Nat /\ g[k] # NullSize
    BY <1>2, <1>6 DEF Sizes, NullSize
  <2>2. SizeAt(es, f, i) = SumOver(kids, LAMBDA k : f[k] + LineLen)
    BY <1>6 DEF SizeAt
  <2>3. SizeAt(es, g, i) = SumOver(kids, LAMBDA k : g[k] + LineLen)
    BY <1>6, <2>1 DEF SizeAt
  <2> DEFINE v == [k \in kids |-> f[k] + LineLen]
             w == [k \in kids |-> g[k] + LineLen]
  <2>4. v = w
    BY <1>2
  <2>5. \A k \in kids : v[k] \in Nat
    BY <2>1, LineLenAssumption
  <2> HIDE DEF kids
  <2>6. SumOver(kids, LAMBDA k : f[k] + LineLen) = Total(kids, v)
    BY <1>3, <2>1, SumIs
  <2>7. SumOver(kids, LAMBDA k : g[k] + LineLen) = Total(kids, w)
    BY <1>3, <2>1, SumIs
  <2> HIDE DEF v, w
  <2>8. Total(kids, v) \in Nat
    BY <1>3, <2>5, UnitsFinite
  <2> QED
    BY <2>2, <2>3, <2>4, <2>6, <2>7, <2>8 DEF Sizes
<1> QED
  BY <1>4, <1>5, <1>6

\* Among finitely many numbers there is a greatest.
LEMMA GreatestOf ==
  ASSUME NEW n \in Nat, NEW S \in SUBSET (1..n), S # {}, NEW f, \A k \in S : f[k] \in Nat
  PROVE  \E x \in S : \A y \in S : f[x] >= f[y]
<1> DEFINE U == {m \in Nat : \A T \in SUBSET S : T # {} /\ T \subseteq 1..m =>
                               \E x \in T : \A y \in T : f[x] >= f[y]}
<1>1. 0 \in U
  <2>1. 1..0 = {}
    OBVIOUS
  <2> QED
    BY <2>1
<1>2. ASSUME NEW m \in Nat, m \in U
      PROVE  m + 1 \in U
  <2>1. SUFFICES ASSUME NEW T \in SUBSET S, T # {}, T \subseteq 1..(m + 1)
                 PROVE  \E x \in T : \A y \in T : f[x] >= f[y]
    OBVIOUS
  <2> DEFINE A == T \ {m + 1}
  <2>2. A \in SUBSET S /\ A \subseteq 1..m /\ \A y \in T : y \in A \/ y = m + 1
    BY <2>1
  <2>3. A # {} => \E x \in A : \A y \in A : f[x] >= f[y]
    BY <1>2, <2>2
  <2>4. \A y \in T : f[y] \in Nat
    OBVIOUS
  <2>5. A \subseteq T /\ (m + 1 \notin T => A = T)
    OBVIOUS
  <2> HIDE DEF A, U
  <2>6. CASE A = {}
    <3>1. T = {m + 1}
      BY <2>1, <2>2, <2>6
    <3>2. f[m + 1] >= f[m + 1]
      BY <2>4, <3>1
    <3> QED
      BY <3>1, <3>2
  <2>7. CASE A # {} /\ m + 1 \notin T
    BY <2>3, <2>5, <2>7
  <2>8. CASE A # {} /\ m + 1 \in T
    <3>1. PICK x \in A : \A y \in A : f[x] >= f[y]
      BY <2>3, <2>8
    <3>2. x \in T /\ f[x] \in Nat /\ f[m + 1] \in Nat /\ \A y \in A : f[y] \in Nat
      BY <2>4, <2>5, <2>8
    <3>3. CASE f[x] >= f[m + 1]
      <4>1. \A y \in T : f[x] >= f[y]
        BY <2>2, <3>1, <3>3
      <4> QED
        BY <3>2, <4>1
    <3>4. CASE ~(f[x] >= f[m + 1])
      <4>1. \A y \in A : f[m + 1] >= f[y]
        BY <3>1, <3>2, <3>4
      <4>2. f[m + 1] >= f[m + 1]
        BY <3>2
      <4>3. \A y \in T : f[m + 1] >= f[y]
        BY <2>2, <4>1, <4>2
      <4> QED
        BY <2>8, <4>3
    <3> QED
      BY <3>3, <3>4
  <2> QED
    BY <2>6, <2>7, <2>8
<1>3. n \in U
  <2> HIDE DEF U
  <2> QED
    BY <1>1, <1>2, Walk!NatInSet
<1> QED
  BY <1>3

LEMMA StampsAreLater ==
  ASSUME NEW es, Measured(es)
  PROVE  Stamping!Later(es, Len(es), Nat)
<1>1. IsList(es) /\ Len(es) \in Nat
  BY DEF Measured, IsList
<1> SUFFICES ASSUME NEW f, NEW g, NEW i \in 1..Len(es),
                    \A k \in 1..Len(es) : k > i => f[k] \in Nat /\ g[k] = f[k]
             PROVE  StampAt(es, f, i) \in Nat /\ StampAt(es, g, i) = StampAt(es, f, i)
  BY DEF Stamping!Later
<1> DEFINE kids == KidsOf(es, i)
           known == {f[k] : k \in kids}
<1>2. \A k \in kids : f[k] \in Nat /\ g[k] = f[k]
  BY <1>1, KidsAreLater
<1>3. known = {g[k] : k \in kids}
  BY <1>2
<1>4. StampAt(es, g, i) = StampAt(es, f, i)
  BY <1>3 DEF StampAt
<1>5. ASSUME kids # {}
      PROVE  Max(known) \in Nat
  <2>1. kids \in SUBSET (1..Len(es))
    BY <1>1, KidsAreLater
  <2> HIDE DEF kids
  <2>2. PICK x \in kids : \A y \in kids : f[x] >= f[y]
    BY <1>1, <1>2, <1>5, <2>1, GreatestOf
  <2>3. known \in SUBSET Nat /\ f[x] \in known /\ \A y \in known : f[x] >= y
    BY <1>2, <2>2
  <2> HIDE DEF known
  <2>4. Max(known) = f[x]
    BY <2>3, GreatestIs
  <2> QED
    BY <1>2, <2>4
<1>6. es[i].timestamp \in Nat /\ NullTimestamp \in Nat
  BY DEF Measured, NullTimestamp
<1>7. StampAt(es, f, i) \in Nat
  BY <1>5, <1>6 DEF StampAt
<1> QED
  BY <1>4, <1>7

\* What Canonicalize computes: the sizes and timestamps solve the equations.
Solution(es, size, stamp) ==
  /\ size \in [1..Len(es) -> Sizes]
  /\ stamp \in [1..Len(es) -> Nat]
  /\ \A i \in 1..Len(es) : size[i] = SizeAt(es, size, i) /\ stamp[i] = StampAt(es, stamp, i)

LEMMA CanonicalizeSolves ==
  ASSUME NEW es, Measured(es)
  PROVE  \E size, stamp :
           /\ Solution(es, size, stamp)
           /\ Canonicalize(es) =
                [i \in 1..Len(es) |->
                   [name |-> es[i].name, depth |-> es[i].depth, mode |-> es[i].mode,
                    id |-> es[i].id, link |-> es[i].link,
                    size |-> size[i], timestamp |-> stamp[i]]]
<1> DEFINE n == Len(es)
           size == CHOOSE f : f = [i \in 1..n |-> SizeAt(es, f, i)]
           stamp == CHOOSE f : f = [i \in 1..n |-> StampAt(es, f, i)]
<1>1. n \in Nat /\ DOMAIN es = 1..n
  BY DEF Measured, IsList
<1>2. Canonicalize(es) =
        [i \in 1..n |->
           [name |-> es[i].name, depth |-> es[i].depth, mode |-> es[i].mode,
            id |-> es[i].id, link |-> es[i].link,
            size |-> size[i], timestamp |-> stamp[i]]]
  BY <1>1 DEF Canonicalize, SizeAt, StampAt, Propagates
<1>3. size = [i \in 1..n |-> SizeAt(es, size, i)]
  <2>1. NullSize \in Sizes
    BY DEF Sizes
  <2>2. \E f \in [1..n -> Sizes] : f = [i \in 1..n |-> SizeAt(es, f, i)]
    BY <1>1, <2>1, SizesAreLater, Sizing!LaterExists
  <2> QED
    BY <2>2
<1>4. stamp = [i \in 1..n |-> StampAt(es, stamp, i)]
  <2>1. 0 \in Nat /\ Stamping!Later(es, n, Nat)
    BY StampsAreLater
  <2>2. \E f \in [1..n -> Nat] : f = [i \in 1..n |-> StampAt(es, f, i)]
    <3> HIDE DEF n
    <3> QED
      BY <1>1, <2>1, Stamping!LaterExists
  <2> QED
    BY <2>2
<1> HIDE DEF size, stamp
<1>5. size \in [1..n -> Sizes]
  BY <1>1, <1>3, SizesAreLater, Sizing!LaterTyped
<1>6. stamp \in [1..n -> Nat]
  BY <1>1, <1>4, StampsAreLater, Stamping!LaterTyped
<1>7. \A i \in 1..n : size[i] = SizeAt(es, size, i) /\ stamp[i] = StampAt(es, stamp, i)
  BY <1>3, <1>4
<1> QED
  BY <1>2, <1>5, <1>6, <1>7, SMTT(30) DEF Solution

-----------------------------------------------------------------------------
(* Canonicalize depends on the tree alone.                                   *)

\* The scan for an entry's children finds what is one level below it.
LEMMA KidsAre ==
  ASSUME NEW es, IsList(es), NEW i \in 1..Len(es)
  PROVE  KidsOf(es, i) = Kids(es, i)
<1>1. Len(es) \in Nat /\ \A x \in 1..Len(es) : es[x].depth \in Nat
  BY DEF IsList
<1>2. DepthIn(es, i) = es[i].depth + 1 /\ es[i].depth \in Nat
  BY <1>1 DEF DepthIn
<1>3. \A j \in (i + 1)..Len(es) : \A x \in (i + 1)..j :
        es[x].depth > es[i].depth <=> es[x].depth >= DepthIn(es, i)
  BY <1>1, <1>2
<1> QED
  BY <1>2, <1>3 DEF KidsOf, Kids, Below

\* In a clean list they are those one name longer in their paths.
LEMMA KidsByPath ==
  ASSUME NEW es, IsList(es), Clean(es), NEW i \in 1..Len(es), NEW k \in 1..Len(es)
  PROVE  k \in KidsOf(es, i) <=>
           EntryPaths(es)[k] = Append(EntryPaths(es)[i], es[k].name)
<1> DEFINE P == EntryPaths(es)
<1>1. Len(es) \in Nat /\ Nested(es) /\ PathsOf(es, P)
      /\ \A a, b \in 1..Len(es) : P[a] = P[b] => a = b
  BY CleanIsDistinct, PathsOfClean
<1>2. KidsOf(es, i) = Kids(es, i)
  BY <1>1, KidsAre
<1> HIDE DEF P
<1>3. ASSUME k \in KidsOf(es, i)
      PROVE  P[k] = Append(P[i], es[k].name)
  <2>1. i \in 0..Len(es) /\ i # 0 /\ k \in Kids(es, i)
    BY <1>1, <1>2, <1>3
  <2> QED
    BY <1>1, <2>1, PathOfKid
<1>4. ASSUME P[k] = Append(P[i], es[k].name)
      PROVE  k \in KidsOf(es, i)
  <2>1. PICK p \in 0..Len(es) : k \in Kids(es, p)
    BY <1>1, KidOfOne
  <2>2. /\ P[i] \in Seq(Names) /\ Len(P[i]) \in Nat /\ Len(P[i]) # 0
        /\ es[k].name \in Names
    <3>1. P[i] \in Seq(Names) /\ Len(P[i]) = es[i].depth + 1
      BY <1>1, PathLast
    <3>2. es[i].depth \in Nat /\ es[k].name \in Names
      BY DEF IsList
    <3> QED
      BY <3>1, <3>2
  <2>3. p # 0
    <3> DEFINE b == P[i]
               x == es[k].name
    <3> SUFFICES ASSUME p = 0 PROVE FALSE
      OBVIOUS
    <3>1. Append(b, x) = <<x>>
      BY <1>1, <1>4, <2>1, PathOfKid
    <3>2. b \in Seq(Names) /\ x \in Names /\ Len(b) \in Nat /\ Len(b) # 0
      BY <2>2
    <3> HIDE DEF b, x
    <3>3. Len(Append(b, x)) = Len(b) + 1
      BY <3>2
    <3>4. Len(<<x>>) = 1
      OBVIOUS
    <3> QED
      BY <3>1, <3>2, <3>3, <3>4
  <2>4. p \in 1..Len(es)
    BY <1>1, <2>3
  <2>5. P[k] = Append(P[p], es[k].name) /\ P[p] \in Seq(Names)
    BY <1>1, <2>1, <2>3, <2>4, PathOfKid, PathLast
  <2>6. P[p] = P[i]
    <3> DEFINE a == P[p]
               b == P[i]
               x == es[k].name
    <3>1. a \in Seq(Names) /\ b \in Seq(Names) /\ x \in Names /\ Append(a, x) = Append(b, x)
      BY <1>4, <2>2, <2>5
    <3> HIDE DEF a, b, x
    <3>2. a = b
      BY <3>1, AppendInjective
    <3> QED
      BY <3>2 DEF a, b
  <2>7. p = i
    BY <1>1, <2>4, <2>6
  <2> QED
    BY <1>2, <2>1, <2>7
<1> QED
  BY <1>3, <1>4 DEF P

\* h takes each entry of es to the one of fs at the same path.
Matches(es, fs, h) ==
  /\ h \in [1..Len(es) -> 1..Len(fs)]
  /\ \A i \in 1..Len(es) : /\ EntryPaths(fs)[h[i]] = EntryPaths(es)[i]
                           /\ fs[h[i]] = es[i]
  /\ \A j \in 1..Len(fs) : \E i \in 1..Len(es) : h[i] = j

LEMMA MatchExists ==
  ASSUME NEW es, NEW fs, IsList(es), IsList(fs), Clean(es), Clean(fs),
         BuildPatchTree(es) = BuildPatchTree(fs)
  PROVE  \E h : Matches(es, fs, h)
<1> DEFINE P == EntryPaths(es)
           Q == EntryPaths(fs)
           n == Len(es)
           m == Len(fs)
           t == BuildPatchTree(es)
           h == [i \in 1..n |-> CHOOSE j \in 1..m : Q[j] = P[i]]
<1>1. /\ DOMAIN t = {P[i] : i \in 1..n}
      /\ \A i \in 1..n : t[P[i]] = es[i]
  BY TreeOfClean
<1>2. /\ DOMAIN t = {Q[j] : j \in 1..m}
      /\ \A j \in 1..m : t[Q[j]] = fs[j]
  <2> DEFINE v == BuildPatchTree(fs)
  <2>1. /\ DOMAIN v = {Q[j] : j \in 1..m}
        /\ \A j \in 1..m : v[Q[j]] = fs[j]
    BY TreeOfClean
  <2>2. v = t
    OBVIOUS
  <2> QED
    BY <2>1, <2>2
<1>3. \A a, b \in 1..m : Q[a] = Q[b] => a = b
  BY CleanIsDistinct
<1>4. /\ \A i \in 1..n : P[i] \in DOMAIN t
      /\ \A p \in DOMAIN t : \E i \in 1..n : P[i] = p
  BY <1>1
<1>5. /\ \A j \in 1..m : Q[j] \in DOMAIN t
      /\ \A p \in DOMAIN t : \E j \in 1..m : Q[j] = p
  BY <1>2
<1> HIDE DEF P, Q, t
<1>6. \A i \in 1..n : \E j \in 1..m : Q[j] = P[i]
  BY ONLY <1>4, <1>5
<1>7. \A i \in 1..n : h[i] \in 1..m /\ Q[h[i]] = P[i]
  BY <1>6
<1>8. h \in [1..n -> 1..m]
  BY <1>7
<1> HIDE DEF h
<1>9. \A i \in 1..n : fs[h[i]] = es[i]
  BY <1>1, <1>2, <1>7, ZenonT(30)
<1>10. ASSUME NEW j \in 1..m
       PROVE  \E i \in 1..n : h[i] = j
  <2>1. PICK i \in 1..n : P[i] = Q[j]
    BY <1>4, <1>5
  <2> QED
    BY <1>3, <1>7, <2>1
<1> QED
  BY <1>7, <1>8, <1>9, <1>10 DEF Matches, P, Q

LEMMA MatchedKids ==
  ASSUME NEW es, NEW fs, IsList(es), IsList(fs), Clean(es), Clean(fs),
         NEW h, Matches(es, fs, h), NEW i \in 1..Len(es)
  PROVE  [k \in KidsOf(es, i) |-> h[k]] \in Bijection(KidsOf(es, i), KidsOf(fs, h[i]))
<1> DEFINE P == EntryPaths(es)
           Q == EntryPaths(fs)
           A == KidsOf(es, i)
           B == KidsOf(fs, h[i])
           g == [k \in A |-> h[k]]
<1>1. /\ \A k \in 1..Len(es) : h[k] \in 1..Len(fs) /\ Q[h[k]] = P[k] /\ fs[h[k]] = es[k]
      /\ \A j \in 1..Len(fs) : \E k \in 1..Len(es) : h[k] = j
  BY DEF Matches
<1>2. \A a, b \in 1..Len(es) : P[a] = P[b] => a = b
  BY CleanIsDistinct
<1>3. \A k \in 1..Len(es) : k \in A <=> P[k] = Append(P[i], es[k].name)
  BY KidsByPath
<1>4. \A j \in 1..Len(fs) : j \in B <=> Q[j] = Append(Q[h[i]], fs[j].name)
  BY <1>1, KidsByPath
<1>5. (\A k \in A : k \in 1..Len(es)) /\ (\A j \in B : j \in 1..Len(fs))
  BY <1>1, KidsAreLater
<1> HIDE DEF P, Q, A, B
<1>6. \A k \in A : h[k] \in B
  BY <1>1, <1>3, <1>4, <1>5
<1>7. \A j \in B : \E k \in A : h[k] = j
  <2> SUFFICES ASSUME NEW j \in B PROVE \E k \in A : h[k] = j
    OBVIOUS
  <2>1. PICK k \in 1..Len(es) : h[k] = j
    BY <1>1, <1>5
  <2>2. P[k] = Append(P[i], es[k].name)
    BY <1>1, <1>4, <1>5, <2>1, ZenonT(30)
  <2> QED
    BY <1>3, <2>1, <2>2
<1>8. \A a, b \in A : h[a] = h[b] => a = b
  BY <1>1, <1>2, <1>5
<1>9. g \in Bijection(A, B)
  <2>1. g \in [A -> B] /\ \A k \in A : g[k] = h[k]
    BY <1>6
  <2> HIDE DEF g
  <2> QED
    BY <1>7, <1>8, <2>1 DEF Bijection, Injection, Surjection, IsInjective
<1> QED
  BY <1>9 DEF A, B, g

LEMMA SizeCarries ==
  ASSUME NEW es, NEW fs, IsList(es), NEW i \in 1..Len(es), NEW j, es[i] = fs[j],
         NEW h \in Bijection(KidsOf(es, i), KidsOf(fs, j)), NEW size, NEW other,
         \A k \in KidsOf(es, i) : size[k] \in Sizes /\ other[h[k]] = size[k]
  PROVE  SizeAt(es, size, i) = SizeAt(fs, other, j)
<1> DEFINE A == KidsOf(es, i)
           B == KidsOf(fs, j)
<1>1. /\ h \in [A -> B]
      /\ \A y \in B : \E x \in A : h[x] = y
  BY DEF Bijection, Injection, Surjection
<1>2. Propagates(es, i) = Propagates(fs, j)
  BY DEF Propagates
<1>3. (\E k \in A : size[k] = NullSize) <=> (\E k \in B : other[k] = NullSize)
  BY <1>1
<1>4. CASE ~Propagates(es, i) \/ es[i].size # NullSize
  BY <1>2, <1>4 DEF SizeAt
<1>5. CASE Propagates(es, i) /\ es[i].size = NullSize /\ \E k \in A : size[k] = NullSize
  <2>1. SizeAt(es, size, i) = NullSize
    BY <1>5 DEF SizeAt
  <2>2. SizeAt(fs, other, j) = NullSize
    BY <1>2, <1>3, <1>5 DEF SizeAt
  <2> QED
    BY <2>1, <2>2
<1>6. CASE Propagates(es, i) /\ es[i].size = NullSize /\ ~\E k \in A : size[k] = NullSize
  <2>1. \A k \in A : size[k] \in Nat
    BY <1>6 DEF Sizes
  <2>2. \A y \in B : other[y] \in Nat
    BY <1>1, <2>1
  <2>3. SizeAt(es, size, i) = SumOver(A, LAMBDA k : size[k] + LineLen)
    BY <1>6 DEF SizeAt
  <2>4. SizeAt(fs, other, j) = SumOver(B, LAMBDA k : other[k] + LineLen)
    BY <1>2, <1>3, <1>6 DEF SizeAt
  <2>5. IsFiniteSet(A)
    BY KidsAreLater
  <2> DEFINE v == [k \in A |-> size[k] + LineLen]
             w == [k \in B |-> other[k] + LineLen]
  <2>6. \A k \in A : v[k] \in Nat /\ h[k] \in B /\ w[h[k]] = v[k]
    BY <1>1, <2>1, LineLenAssumption
  <2>7. h \in Bijection(A, B) /\ ExistsBijection(A, B)
    BY DEF ExistsBijection
  <2> HIDE DEF A, B
  <2>8. IsFiniteSet(B)
    BY <2>5, <2>7, FS_Bijection
  <2>9. SumOver(A, LAMBDA k : size[k] + LineLen) = Total(A, v)
    BY <2>1, <2>5, SumIs
  <2>10. SumOver(B, LAMBDA k : other[k] + LineLen) = Total(B, w)
    BY <2>2, <2>8, SumIs
  <2> HIDE DEF v, w
  <2>11. Total(A, v) = Total(B, w)
    BY <2>5, <2>6, <2>7, TotalCarries
  <2> QED
    BY <2>3, <2>4, <2>9, <2>10, <2>11
<1> QED
  BY <1>4, <1>5, <1>6

LEMMA StampCarries ==
  ASSUME NEW es, NEW fs, NEW i, NEW j, es[i] = fs[j],
         NEW h \in Bijection(KidsOf(es, i), KidsOf(fs, j)), NEW stamp, NEW other,
         \A k \in KidsOf(es, i) : other[h[k]] = stamp[k]
  PROVE  StampAt(es, stamp, i) = StampAt(fs, other, j)
<1> DEFINE A == KidsOf(es, i)
           B == KidsOf(fs, j)
<1>1. /\ h \in [A -> B]
      /\ \A y \in B : \E x \in A : h[x] = y
  BY DEF Bijection, Injection, Surjection
<1>2. Propagates(es, i) = Propagates(fs, j)
  BY DEF Propagates
<1>3. {stamp[k] : k \in A} = {other[k] : k \in B}
  BY <1>1
<1>4. A = {} <=> B = {}
  BY <1>1
<1> QED
  BY <1>2, <1>3, <1>4 DEF StampAt

LEMMA SolutionsMatch ==
  ASSUME NEW es, NEW fs, Measured(es), IsList(fs), Clean(es), Clean(fs),
         NEW h, Matches(es, fs, h), NEW size, NEW stamp, NEW size2, NEW stamp2,
         Solution(es, size, stamp), Solution(fs, size2, stamp2)
  PROVE  \A i \in 1..Len(es) : size2[h[i]] = size[i] /\ stamp2[h[i]] = stamp[i]
<1> DEFINE n == Len(es)
           S == {k \in Nat : \A i \in 1..n : i > n - k =>
                               size2[h[i]] = size[i] /\ stamp2[h[i]] = stamp[i]}
<1>1. n \in Nat /\ IsList(es)
  BY DEF Measured, IsList
<1>2. 0 \in S
  <2>1. \A i \in 1..n : ~(i > n - 0)
    BY <1>1
  <2> QED
    BY <2>1
<1>3. ASSUME NEW m \in Nat, m \in S
      PROVE  m + 1 \in S
  <2> SUFFICES ASSUME NEW i \in 1..n, i > n - (m + 1)
               PROVE  size2[h[i]] = size[i] /\ stamp2[h[i]] = stamp[i]
    OBVIOUS
  <2> DEFINE A == KidsOf(es, i)
             j == h[i]
             g == [k \in A |-> h[k]]
  <2>1. \A k \in A : k \in 1..n /\ k > i
    BY <1>1, KidsAreLater
  <2>2. \A k \in A : size2[h[k]] = size[k] /\ stamp2[h[k]] = stamp[k]
    <3> SUFFICES ASSUME NEW k \in A
                 PROVE  size2[h[k]] = size[k] /\ stamp2[h[k]] = stamp[k]
      OBVIOUS
    <3>1. k \in 1..n /\ k > n - m
      BY <1>1, <2>1
    <3> QED
      BY <1>3, <3>1
  <2>3. j \in 1..Len(fs) /\ fs[j] = es[i]
    BY DEF Matches
  <2>4. g \in Bijection(A, KidsOf(fs, j))
    BY <1>1, MatchedKids
  <2>5. \A k \in A : size[k] \in Sizes /\ g[k] = h[k]
    BY <2>1 DEF Solution
  <2> HIDE DEF g, j
  <2>6. \A k \in A : size[k] \in Sizes /\ size2[g[k]] = size[k]
    BY <2>2, <2>5
  <2>7. \A k \in A : stamp2[g[k]] = stamp[k]
    BY <2>2, <2>5
  <2>8. SizeAt(es, size, i) = SizeAt(fs, size2, j)
    BY <1>1, <2>3, <2>4, <2>6, SizeCarries
  <2>9. StampAt(es, stamp, i) = StampAt(fs, stamp2, j)
    BY <2>3, <2>4, <2>7, StampCarries
  <2>10. /\ size[i] = SizeAt(es, size, i) /\ stamp[i] = StampAt(es, stamp, i)
         /\ size2[j] = SizeAt(fs, size2, j) /\ stamp2[j] = StampAt(fs, stamp2, j)
    BY <2>3 DEF Solution
  <2> QED
    BY <2>8, <2>9, <2>10 DEF j
<1>4. n \in S
  <2> HIDE DEF S
  <2> QED
    BY <1>1, <1>2, <1>3, Walk!NatInSet
<1>5. \A i \in 1..n : i > n - n
  BY <1>1
<1> QED
  BY <1>4, <1>5

\* The entries of es with these sizes and timestamps.
Revalued(es, size, stamp) ==
  [i \in 1..Len(es) |->
     [name |-> es[i].name, depth |-> es[i].depth, mode |-> es[i].mode,
      id |-> es[i].id, link |-> es[i].link,
      size |-> size[i], timestamp |-> stamp[i]]]

LEMMA RevaluedIsList ==
  ASSUME NEW es, Measured(es), NEW size, NEW stamp, Solution(es, size, stamp)
  PROVE  LET c == Revalued(es, size, stamp)
         IN /\ Measured(c) /\ IsList(c) /\ Len(c) = Len(es)
            /\ \A i \in 1..Len(es) :
                 /\ c[i].name = es[i].name /\ c[i].depth = es[i].depth
                 /\ IsDir(c[i]) = IsDir(es[i])
                 /\ c[i].size = size[i] /\ c[i].timestamp = stamp[i]
<1> DEFINE c == Revalued(es, size, stamp)
           n == Len(es)
<1>1. n \in Nat /\ \A i \in 1..n : es[i].name \in Names /\ es[i].depth \in Nat
  BY DEF Measured, IsList
<1>2. \A i \in 1..n : /\ c[i].name = es[i].name /\ c[i].depth = es[i].depth
                      /\ c[i].mode = es[i].mode
                      /\ c[i].size = size[i] /\ c[i].timestamp = stamp[i]
  BY DEF Revalued
<1>3. \A i \in 1..n : size[i] \in Sizes /\ stamp[i] \in Nat
  BY DEF Solution
<1>4. c = [i \in 1..n |-> c[i]]
  BY DEF Revalued
<1> HIDE DEF c
<1>5. IsList(c) /\ Len(c) = n
  <2>1. \A i \in 1..n : c[i].name \in Names /\ c[i].depth \in Nat
    BY <1>1, <1>2
  <2> HIDE DEF n
  <2> QED
    BY <1>1, <1>4, <2>1, ListOver
<1>6. Measured(c)
  BY <1>2, <1>3, <1>5 DEF Measured
<1>7. \A i \in 1..n : IsDir(c[i]) = IsDir(es[i])
  BY <1>2 DEF IsDir
<1> QED
  BY <1>2, <1>5, <1>6, <1>7 DEF c

\* Entries at the same depths and of the same kinds: es and c have the same tree.
Alike(es, c) ==
  /\ IsList(es) /\ IsList(c) /\ Len(c) = Len(es)
  /\ \A i \in 1..Len(es) : /\ c[i].name = es[i].name /\ c[i].depth = es[i].depth
                           /\ IsDir(c[i]) = IsDir(es[i])

LEMMA AlikePaths ==
  ASSUME NEW es, NEW c, Alike(es, c)
  PROVE  /\ Nested(es) => Nested(c)
         /\ \A P : PathsOf(es, P) => PathsOf(c, P)
         /\ \A i \in 1..Len(es) : KidsOf(c, i) = KidsOf(es, i)
<1>1. /\ Len(c) = Len(es) /\ Len(es) \in Nat
      /\ \A i \in 1..Len(es) : /\ c[i].name = es[i].name /\ c[i].depth = es[i].depth
                               /\ IsDir(c[i]) = IsDir(es[i])
  BY DEF Alike, IsList
<1>2. ASSUME Nested(es)
      PROVE  Nested(c)
  <2> SUFFICES ASSUME NEW i \in 1..Len(es)
               PROVE  \/ c[i].depth = 0
                      \/ i > 1 /\ c[i].depth <= c[i - 1].depth + (IF IsDir(c[i - 1]) THEN 1 ELSE 0)
    BY <1>1 DEF Nested
  <2>1. CASE i = 1
    <3>1. es[i].depth = 0
      BY <1>2, <2>1 DEF Nested
    <3> QED
      BY <1>1, <3>1
  <2>2. CASE i # 1
    <3>1. i - 1 \in 1..Len(es) /\ i > 1
      BY <1>1, <2>2
    <3> QED
      BY <1>1, <1>2, <3>1 DEF Nested
  <2> QED
    BY <2>1, <2>2
<1>3. ASSUME NEW P, PathsOf(es, P)
      PROVE  PathsOf(c, P)
  <2>1. P \in Seq(Seq(Names)) /\ Len(P) = Len(c)
    BY <1>1, <1>3 DEF PathsOf
  <2>2. ASSUME NEW i \in 1..Len(es)
        PROVE  HasPath(c, P, i)
    <3>1. HasPath(es, P, i)
      BY <1>3 DEF PathsOf
    <3>2. CASE es[i].depth = 0 /\ P[i] = <<es[i].name>>
      BY <1>1, <3>2 DEF HasPath
    <3>3. ASSUME NEW j \in 1..(i - 1), IsParent(es, j, i), P[i] = Append(P[j], es[i].name)
          PROVE  HasPath(c, P, i)
      <4>1. \A m \in j..(i - 1) : m \in 1..Len(es)
        BY <1>1
      <4>2. j \in 1..Len(es)
        BY <1>1
      <4>3. IsParent(c, j, i)
        BY <1>1, <3>3, <4>1, <4>2 DEF IsParent
      <4> QED
        BY <1>1, <3>3, <4>3 DEF HasPath
    <3> QED
      BY <3>1, <3>2, <3>3 DEF HasPath
  <2> QED
    BY <1>1, <2>1, <2>2 DEF PathsOf
<1>4. ASSUME NEW i \in 1..Len(es)
      PROVE  KidsOf(c, i) = KidsOf(es, i)
  <2>1. \A j \in (i + 1)..Len(es) : j \in 1..Len(es) /\ \A k \in (i + 1)..j : k \in 1..Len(es)
    BY <1>1
  <2>2. \A j \in (i + 1)..Len(es) :
          /\ c[j].depth = c[i].depth + 1 <=> es[j].depth = es[i].depth + 1
          /\ (\A k \in (i + 1)..j : c[k].depth > c[i].depth)
               <=> (\A k \in (i + 1)..j : es[k].depth > es[i].depth)
    BY <1>1, <2>1
  <2> QED
    BY <1>1, <2>2 DEF KidsOf
<1> QED
  BY <1>2, <1>3, <1>4

LEMMA AlikeClean ==
  ASSUME NEW es, NEW c, Alike(es, c), Clean(es)
  PROVE  Clean(c) /\ EntryPaths(c) = EntryPaths(es)
<1> DEFINE P == EntryPaths(es)
<1>1. IsList(es) /\ IsList(c) /\ Len(c) = Len(es)
  BY DEF Alike
<1>2. /\ Nested(es) /\ PathsOf(es, P) /\ ValidatePaths(es) = P
  BY <1>1, PathsOfClean
<1>3. Nested(c) /\ PathsOf(c, P)
  BY <1>2, AlikePaths
<1>4. EntryPaths(c) = P
  BY <1>1, <1>3, EntryPathsArePaths, PathsUnique
<1>5. ValidatePaths(c) = P
  BY <1>1, <1>3, ValidatePathsArePaths, PathsUnique
<1> QED
  BY <1>2, <1>3, <1>4, <1>5 DEF Clean, Validate

LEMMA CanonicalIs ==
  ASSUME NEW es, Measured(es)
  PROVE  \E size, stamp : /\ Solution(es, size, stamp)
                          /\ Canonicalize(es) = Revalued(es, size, stamp)
                          /\ Alike(es, Canonicalize(es))
                          /\ Measured(Canonicalize(es))
<1>1. PICK size, stamp : /\ Solution(es, size, stamp)
                         /\ Canonicalize(es) = Revalued(es, size, stamp)
  BY CanonicalizeSolves DEF Revalued
<1>2. IsList(es)
  BY DEF Measured
<1>3. Alike(es, Canonicalize(es)) /\ Measured(Canonicalize(es))
  BY <1>1, <1>2, RevaluedIsList DEF Alike
<1> QED
  BY <1>1, <1>3

\* Propagated values depend on the tree, not on the order of the list.
LEMMA CanonicalTree ==
  ASSUME NEW es, NEW fs, Measured(es), Measured(fs), Clean(es), Clean(fs),
         BuildPatchTree(es) = BuildPatchTree(fs)
  PROVE  BuildPatchTree(Canonicalize(es)) = BuildPatchTree(Canonicalize(fs))
<1> DEFINE c == Canonicalize(es)
           d == Canonicalize(fs)
           t == BuildPatchTree(c)
           u == BuildPatchTree(d)
           P == EntryPaths(es)
           Q == EntryPaths(fs)
           n == Len(es)
           m == Len(fs)
<1>1. IsList(es) /\ IsList(fs)
  BY DEF Measured
<1>2. PICK size, stamp : /\ Solution(es, size, stamp) /\ c = Revalued(es, size, stamp)
                         /\ Alike(es, c)
  BY CanonicalIs
<1>3. PICK size2, stamp2 : /\ Solution(fs, size2, stamp2) /\ d = Revalued(fs, size2, stamp2)
                           /\ Alike(fs, d)
  BY CanonicalIs
<1>4. IsList(c) /\ Clean(c) /\ EntryPaths(c) = P /\ Len(c) = n
  BY <1>2, AlikeClean DEF Alike
<1>5. IsList(d) /\ Clean(d) /\ EntryPaths(d) = Q /\ Len(d) = m
  BY <1>3, AlikeClean DEF Alike
<1>6. PICK h : Matches(es, fs, h)
  BY <1>1, MatchExists
<1>7. /\ \A i \in 1..n : /\ h[i] \in 1..m /\ Q[h[i]] = P[i] /\ fs[h[i]] = es[i]
      /\ \A j \in 1..m : \E i \in 1..n : h[i] = j
  BY <1>6 DEF Matches
<1>8. \A i \in 1..n : size2[h[i]] = size[i] /\ stamp2[h[i]] = stamp[i]
  BY <1>1, <1>2, <1>3, <1>6, SolutionsMatch
<1>9. \A i \in 1..n : d[h[i]] = c[i]
  BY <1>2, <1>3, <1>7, <1>8 DEF Revalued
<1>10. /\ t = [p \in DOMAIN t |-> t[p]] /\ DOMAIN t = {P[i] : i \in 1..n}
       /\ \A i \in 1..n : t[P[i]] = c[i]
  <2> DEFINE R == EntryPaths(c)
             k == Len(c)
  <2> HIDE DEF c
  <2>1. /\ t = [p \in DOMAIN t |-> t[p]] /\ DOMAIN t = {R[i] : i \in 1..k}
        /\ \A i \in 1..k : t[R[i]] = c[i]
    BY <1>4, TreeOfClean
  <2>2. R = P /\ k = n
    BY <1>4
  <2> HIDE DEF R, k, t, P, n
  <2> QED
    BY <2>1, <2>2
<1>11. /\ u = [p \in DOMAIN u |-> u[p]] /\ DOMAIN u = {Q[j] : j \in 1..m}
       /\ \A j \in 1..m : u[Q[j]] = d[j]
  <2> DEFINE R == EntryPaths(d)
             k == Len(d)
  <2> HIDE DEF d
  <2>1. /\ u = [p \in DOMAIN u |-> u[p]] /\ DOMAIN u = {R[i] : i \in 1..k}
        /\ \A i \in 1..k : u[R[i]] = d[i]
    BY <1>5, TreeOfClean
  <2>2. R = Q /\ k = m
    BY <1>5
  <2> HIDE DEF R, k, u, Q, m
  <2> QED
    BY <2>1, <2>2
<1> HIDE DEF c, d, t, u, P, Q, n, m
<1>12. DOMAIN t = DOMAIN u
  <2>1. \A i \in 1..n : P[i] \in DOMAIN u
    BY <1>7, <1>11
  <2>2. \A j \in 1..m : Q[j] \in DOMAIN t
    BY <1>7, <1>10
  <2> QED
    BY <1>10, <1>11, <2>1, <2>2
<1>13. \A i \in 1..n : u[P[i]] = t[P[i]]
  BY <1>7, <1>9, <1>10, <1>11
<1>14. \A p \in DOMAIN t : u[p] = t[p]
  BY <1>10, <1>13
<1>15. t = u
  BY <1>10, <1>11, <1>12, <1>14
<1> QED
  BY <1>15 DEF c, d, t, u

\* Manifests with one tree have one C4 ID.
LEMMA IDOfTree ==
  ASSUME NEW es, NEW fs, Measured(es), Measured(fs), Clean(es), Clean(fs),
         BuildPatchTree(es) = BuildPatchTree(fs)
  PROVE  ComputeC4ID(es) = ComputeC4ID(fs)
<1> DEFINE c == Canonicalize(es)
           d == Canonicalize(fs)
<1>1. IsList(c) /\ Clean(c)
  BY CanonicalIs, AlikeClean DEF Alike
<1>2. IsList(d) /\ Clean(d)
  BY CanonicalIs, AlikeClean DEF Alike
<1>3. BuildPatchTree(c) = BuildPatchTree(d)
  BY CanonicalTree
<1> HIDE DEF c, d
<1>4. SortEntries(c) = SortEntries(d)
  BY <1>1, <1>2, <1>3, SortOfTree
<1> QED
  BY <1>4 DEF ComputeC4ID, c, d

LEMMA SortedMeasured ==
  ASSUME NEW es, Measured(es)
  PROVE  Measured(SortEntries(es))
<1>1. /\ IsList(SortEntries(es))
      /\ \A k \in 1..Len(SortEntries(es)) :
           \E i \in 1..Len(es) : SortEntries(es)[k] = es[i]
  BY SortIsList DEF Measured
<1> QED
  BY <1>1 DEF Measured

LEMMA IDOfSorted ==
  ASSUME NEW es, Measured(es), Clean(es)
  PROVE  ComputeC4ID(SortEntries(es)) = ComputeC4ID(es)
<1>1. IsList(es)
  BY DEF Measured
<1>2. Clean(SortEntries(es))
  BY <1>1, SortGivesSorted DEF IsSortedList
<1> QED
  BY <1>1, <1>2, SortedMeasured, SortGivesTree, IDOfTree

\* Propagating again changes nothing.
LEMMA CanonicalTwice ==
  ASSUME NEW es, Measured(es)
  PROVE  Canonicalize(Canonicalize(es)) = Canonicalize(es)
<1> DEFINE c == Canonicalize(es)
           n == Len(es)
<1>1. PICK size, stamp : /\ Solution(es, size, stamp) /\ c = Revalued(es, size, stamp)
                         /\ Alike(es, c) /\ Measured(c)
  BY CanonicalIs
<1>2. PICK size2, stamp2 : Solution(c, size2, stamp2) /\ Canonicalize(c) = Revalued(c, size2, stamp2)
  <2> HIDE DEF c
  <2> QED
    BY <1>1, CanonicalIs
<1>3. Len(c) = n /\ n \in Nat
  BY <1>1 DEF Alike, Measured, IsList
<1>4. /\ c = [i \in 1..n |-> c[i]]
      /\ \A i \in 1..n :
           c[i] = [name |-> es[i].name, depth |-> es[i].depth, mode |-> es[i].mode,
                   id |-> es[i].id, link |-> es[i].link,
                   size |-> size[i], timestamp |-> stamp[i]]
  BY <1>1 DEF Revalued
<1> HIDE DEF c
<1>5. \A i \in 1..n : c[i].size = size[i] /\ c[i].timestamp = stamp[i] /\ IsDir(c[i]) = IsDir(es[i])
  <2>1. \A i \in 1..n : IsDir(c[i]) = IsDir(es[i])
    BY <1>1 DEF Alike
  <2>2. \A i \in 1..n : c[i].size = size[i] /\ c[i].timestamp = stamp[i]
    BY <1>4
  <2> QED
    BY <2>1, <2>2
<1>6. ASSUME NEW i \in 1..n
      PROVE  size[i] = SizeAt(c, size, i)
  <2>1. KidsOf(c, i) = KidsOf(es, i)
    BY <1>1, AlikePaths
  <2>2. CASE ~Propagates(c, i) \/ size[i] # NullSize
    BY <1>5, <2>2 DEF SizeAt
  <2>3. CASE Propagates(c, i) /\ size[i] = NullSize
    <3>1. size[i] = SizeAt(es, size, i)
      BY <1>1 DEF Solution
    <3>2. es[i].size = NullSize
      BY <2>3, <3>1 DEF SizeAt
    <3>3. Propagates(es, i)
      BY <1>5, <2>3, <3>2 DEF Propagates, HasNullValues
    <3>4. SizeAt(c, size, i) = SizeAt(es, size, i)
      BY <1>5, <2>1, <2>3, <3>2, <3>3 DEF SizeAt
    <3> QED
      BY <3>1, <3>4
  <2> QED
    BY <2>2, <2>3
<1>7. ASSUME NEW i \in 1..n
      PROVE  stamp[i] = StampAt(c, stamp, i)
  <2>1. KidsOf(c, i) = KidsOf(es, i)
    BY <1>1, AlikePaths
  <2>2. CASE ~Propagates(c, i) \/ stamp[i] # NullTimestamp \/ KidsOf(es, i) = {}
    BY <1>5, <2>1, <2>2 DEF StampAt
  <2>3. CASE Propagates(c, i) /\ stamp[i] = NullTimestamp /\ KidsOf(es, i) # {}
    <3>1. stamp[i] = StampAt(es, stamp, i)
      BY <1>1 DEF Solution
    <3>2. es[i].timestamp = NullTimestamp
      BY <2>3, <3>1 DEF StampAt
    <3>3. Propagates(es, i)
      BY <1>5, <2>3, <3>2 DEF Propagates, HasNullValues
    <3>4. StampAt(c, stamp, i) = StampAt(es, stamp, i)
      BY <1>5, <2>1, <2>3, <3>2, <3>3 DEF StampAt
    <3> QED
      BY <3>1, <3>4
  <2> QED
    BY <2>2, <2>3
<1>8. size2 = size
  <2>1. size = [i \in 1..n |-> SizeAt(c, size, i)]
    BY <1>1, <1>6 DEF Solution
  <2>2. size2 = [i \in 1..n |-> SizeAt(c, size2, i)]
    BY <1>2, <1>3 DEF Solution
  <2>3. Sizing!Later(c, n, Sizes)
    BY <1>1, <1>3, SizesAreLater
  <2> HIDE DEF n
  <2> QED
    BY <1>3, <2>1, <2>2, <2>3, Sizing!LaterOnce
<1>9. stamp2 = stamp
  <2>1. stamp = [i \in 1..n |-> StampAt(c, stamp, i)]
    BY <1>1, <1>7 DEF Solution
  <2>2. stamp2 = [i \in 1..n |-> StampAt(c, stamp2, i)]
    BY <1>2, <1>3 DEF Solution
  <2>3. Stamping!Later(c, n, Nat)
    BY <1>1, <1>3, StampsAreLater
  <2> HIDE DEF n
  <2> QED
    BY <1>3, <2>1, <2>2, <2>3, Stamping!LaterOnce
<1>10. Revalued(c, size, stamp) = c
  BY <1>3, <1>4 DEF Revalued
<1> QED
  BY <1>2, <1>8, <1>9, <1>10 DEF c

-----------------------------------------------------------------------------
(* The two walks.                                                            *)

\* In two trees the walk of diffTree compares a path as soon as all directories
\* above it are in both.
LEMMA ComparedInBoth ==
  ASSUME NEW old, NEW new, WellFormed(old), WellFormed(new), NEW p, IsPath(p),
         StrictlyAbove(p) \subseteq DOMAIN old \cap DOMAIN new
  PROVE  Compared(old, new, p)
<1> SUFFICES ASSUME NEW d \in StrictlyAbove(p)
             PROVE  IsDir(old[d]) /\ IsDir(new[d])
  BY DEF Compared
<1>1. PICK k \in 1..Len(p) : d = SubSeq(p, 1, k)
  BY DEF StrictlyAbove, Above
<1>2. p \in Seq(Names) /\ Len(p) \in Nat
  BY DEF IsPath
<1>3. k # Len(p)
  BY <1>1, <1>2, SubSeqFull DEF StrictlyAbove
<1>4. Last(d) = p[k]
  BY <1>1, <1>2 DEF Last
<1>5. Last(d) \in DirNames
  BY <1>2, <1>3, <1>4 DEF IsPath
<1> QED
  BY <1>5 DEF WellFormed, IsDir

\* What is compared is compared with all that is above it.
LEMMA ComparedAbove ==
  ASSUME NEW old, NEW new, NEW p, IsPath(p), Compared(old, new, p),
         NEW d \in StrictlyAbove(p)
  PROVE  Compared(old, new, d)
BY StrictlyAboveStrict DEF Compared

\* Whatever the new tree has and the old has not is in the patch, and only that
\* comes in as added.
LEMMA AddedIsNew ==
  ASSUME NEW old, NEW new, WellFormed(old), WellFormed(new)
  PROVE  Added(old, new) = DOMAIN new \ DOMAIN old
<1>1. ASSUME NEW p \in Added(old, new)
      PROVE  p \in DOMAIN new \ DOMAIN old
  <2>1. p \in DOMAIN new /\ \E d \in Above(p) : d \notin DOMAIN old
    BY DEF Added
  <2> QED
    BY <2>1 DEF WellFormed, StrictlyAbove
<1>2. ASSUME NEW p \in DOMAIN new \ DOMAIN old
      PROVE  p \in Added(old, new)
  <2>1. IsPath(p) /\ StrictlyAbove(p) \subseteq DOMAIN new
    BY DEF WellFormed
  <2>2. PICK d \in Above(p) : d \notin DOMAIN old /\ StrictlyAbove(d) \subseteq DOMAIN old
    BY <2>1, FirstOutside
  <2>3. IsPath(d) /\ StrictlyAbove(d) \subseteq DOMAIN new
    BY <2>1, <2>2, AboveIsPath, StrictlyAboveStrict DEF StrictlyAbove
  <2>4. Compared(old, new, d)
    BY <2>2, <2>3, ComparedInBoth
  <2> QED
    BY <2>2, <2>4 DEF Added
<1> QED
  BY <1>1, <1>2

\* What is gone is removed at its path or with a directory above it.
LEMMA RemovedIsGone ==
  ASSUME NEW old, NEW new, WellFormed(old), WellFormed(new),
         NEW p \in DOMAIN old \ DOMAIN new
  PROVE  Above(p) \cap Removed(old, new) # {}
<1>1. IsPath(p) /\ StrictlyAbove(p) \subseteq DOMAIN old
  BY DEF WellFormed
<1>2. PICK d \in Above(p) : d \notin DOMAIN new /\ StrictlyAbove(d) \subseteq DOMAIN new
  BY <1>1, FirstOutside
<1>3. IsPath(d) /\ d \in DOMAIN old /\ StrictlyAbove(d) \subseteq DOMAIN old
  BY <1>1, <1>2, AboveIsPath, StrictlyAboveStrict DEF StrictlyAbove
<1>4. Compared(old, new, d)
  BY <1>2, <1>3, ComparedInBoth
<1> QED
  BY <1>2, <1>3, <1>4 DEF Removed

\* Everything in a patch is compared or below something added.
LEMMA PatchEntries ==
  ASSUME NEW old, NEW new, WellFormed(old), WellFormed(new)
  PROVE  /\ DOMAIN PatchTree(old, new) = Added(old, new) \cup Removed(old, new)
                                           \cup Changed(old, new) \cup Enclosing(old, new)
         /\ \A p \in DOMAIN PatchTree(old, new) :
              /\ IsPath(p)
              /\ p \in DOMAIN new => PatchTree(old, new)[p] = new[p]
              /\ p \notin DOMAIN new => p \in DOMAIN old /\ PatchTree(old, new)[p] = old[p]
              /\ p \in DOMAIN old => Compared(old, new, p)
<1>1. \A p \in DOMAIN PatchTree(old, new) : p \in DOMAIN old \cup DOMAIN new
  BY DEF PatchTree, Added, Removed, Changed, Enclosing
<1>2. \A p \in DOMAIN PatchTree(old, new) : IsPath(p)
  BY <1>1 DEF WellFormed
<1>3. \A p \in Removed(old, new) \cup Changed(old, new) \cup Enclosing(old, new) :
        Compared(old, new, p)
  BY DEF Removed, Changed, Enclosing
<1> QED
  BY <1>1, <1>2, <1>3, AddedIsNew DEF PatchTree

\* buildPatchTree finds the directory of every entry of a patch: diffTree writes
\* all directories above what it writes, those of added trees included
\* (operations.cpp:246 follows a pointer to the directory unchecked).
THEOREM PatchIsTree ==
  ASSUME NEW old, NEW new, WellFormed(old), WellFormed(new)
  PROVE  WellFormed(PatchTree(old, new))
<1> DEFINE patch == PatchTree(old, new)
           added == Added(old, new)
           removed == Removed(old, new)
           changed == Changed(old, new)
           enclosing == Enclosing(old, new)
<1>1. DOMAIN patch = added \cup removed \cup changed \cup enclosing
  BY PatchEntries
<1>2. \A p \in DOMAIN patch :
        /\ IsPath(p)
        /\ p \in DOMAIN new => patch[p] = new[p]
        /\ p \notin DOMAIN new => p \in DOMAIN old /\ patch[p] = old[p]
        /\ p \in DOMAIN old => Compared(old, new, p)
  BY PatchEntries
<1>3. added = DOMAIN new \ DOMAIN old
  BY AddedIsNew
<1>a. patch = [p \in DOMAIN patch |-> patch[p]]
  BY DEF PatchTree
<1>b. IsFiniteSet(DOMAIN patch)
  <2>1. DOMAIN patch \subseteq DOMAIN old \cup DOMAIN new
    BY <1>2
  <2>2. IsFiniteSet(DOMAIN old \cup DOMAIN new)
    BY FS_Union DEF WellFormed
  <2> QED
    BY <2>1, <2>2, FS_Subset
<1> HIDE DEF patch, added, removed, changed, enclosing
<1> SUFFICES ASSUME NEW p \in DOMAIN patch
             PROVE  /\ IsPath(p)
                    /\ StrictlyAbove(p) \subseteq DOMAIN patch
                    /\ IsEntry(patch[p])
                    /\ patch[p].name = Last(p)
                    /\ patch[p].depth = Len(p) - 1
  BY <1>a, <1>b DEF WellFormed, patch
<1>4. IsEntry(patch[p]) /\ patch[p].name = Last(p) /\ patch[p].depth = Len(p) - 1
  BY <1>2 DEF WellFormed
<1>5. ASSUME NEW q \in DOMAIN patch, Compared(old, new, q), NEW d \in StrictlyAbove(q)
      PROVE  d \in DOMAIN patch
  <2>1. d \in DOMAIN old \cap DOMAIN new /\ IsDir(old[d])
    BY <1>5 DEF Compared
  <2>2. Compared(old, new, d)
    BY <1>2, <1>5, ComparedAbove
  <2>3. CASE ~EntriesIdentical(old[d], new[d])
    BY <1>1, <2>1, <2>2, <2>3 DEF Changed, changed
  <2>4. CASE EntriesIdentical(old[d], new[d])
    <3>1. PICK r \in added \cup removed \cup changed : r = q \/ q \in StrictlyAbove(r)
      BY <1>1 DEF Enclosing, enclosing, added, removed, changed
    <3>2. IsPath(r)
      BY <1>1, <1>2
    <3>3. d \in StrictlyAbove(r)
      BY <1>5, <3>1, <3>2, StrictlyAboveStrict
    <3>4. d \in enclosing
      BY <2>1, <2>2, <2>4, <3>3 DEF Enclosing, enclosing, added, removed, changed
    <3> QED
      BY <3>4, <1>1
  <2> QED
    BY <2>3, <2>4
<1>6. ASSUME NEW d \in StrictlyAbove(p)
      PROVE  d \in DOMAIN patch
  <2>1. CASE p \in DOMAIN old
    BY <1>2, <1>5, <2>1
  <2>2. CASE p \notin DOMAIN old
    <3>1. p \in DOMAIN new /\ p \in added
      BY <1>2, <1>3, <2>2
    <3>2. PICK t \in Above(p) : t \notin DOMAIN old /\ Compared(old, new, t)
      BY <3>1 DEF Added, added
    <3>3. IsPath(p) /\ IsPath(t) /\ d \in Above(p)
      BY <1>2, AboveIsPath DEF StrictlyAbove
    <3>4. d \in DOMAIN new /\ t \in DOMAIN new
      BY <3>1, <3>2 DEF WellFormed, StrictlyAbove
    <3>5. t \in DOMAIN patch
      BY <1>1, <1>3, <3>2, <3>4
    <3>6. CASE t \in Above(d)
      <4>1. d \in added
        BY <3>2, <3>4, <3>6 DEF Added, added
      <4> QED
        BY <4>1, <1>1
    <3>7. CASE d \in StrictlyAbove(t)
      BY <1>5, <3>2, <3>5, <3>7
    <3> QED
      BY <3>3, <3>6, <3>7, AboveIsChain
  <2> QED
    BY <2>1, <2>2
<1> QED
  BY <1>2, <1>4, <1>6

-----------------------------------------------------------------------------
(* ApplyPatch undoes PatchDiff.                                              *)

\* The walk of applyPatchTree comes to what the walk of diffTree compared, and
\* stops at what was added: sealed directories above a difference differ, so
\* they are in the patch and are not taken for removals.
LEMMA ReachedIsCompared ==
  ASSUME NEW old, NEW new, WellFormed(old), WellFormed(new), SealedTrees(old, new),
         NEW p \in DOMAIN PatchTree(old, new)
  PROVE  Reached(old, PatchTree(old, new), p) <=> Compared(old, new, p)
<1> DEFINE patch == PatchTree(old, new)
<1>1. DOMAIN patch = Added(old, new) \cup Removed(old, new)
                       \cup Changed(old, new) \cup Enclosing(old, new)
  BY PatchEntries
<1>2. \A q \in DOMAIN patch :
        /\ IsPath(q)
        /\ q \in DOMAIN new => patch[q] = new[q]
        /\ q \notin DOMAIN new => q \in DOMAIN old /\ patch[q] = old[q]
        /\ q \in DOMAIN old => Compared(old, new, q)
  BY PatchEntries
<1>3. StrictlyAbove(p) \subseteq DOMAIN patch
  BY PatchIsTree DEF WellFormed
<1>4. ASSUME Compared(old, new, p)
      PROVE  Reached(old, patch, p)
  <2> SUFFICES ASSUME NEW d \in StrictlyAbove(p)
               PROVE  /\ d \in DOMAIN old
                      /\ ~EntriesIdentical(old[d], patch[d])
                      /\ IsDir(patch[d])
    BY DEF Reached
  <2>1. d \in DOMAIN old \cap DOMAIN new /\ IsDir(old[d]) /\ IsDir(new[d])
    BY <1>4 DEF Compared
  <2>2. patch[d] = new[d]
    BY <1>2, <1>3, <2>1
  <2>3. PICK q \in Added(old, new) \cup Removed(old, new) \cup Changed(old, new) :
          d \in StrictlyAbove(q)
    <3>1. CASE p \in Enclosing(old, new)
      <4>1. PICK q \in Added(old, new) \cup Removed(old, new) \cup Changed(old, new) :
              p \in StrictlyAbove(q)
        BY <3>1 DEF Enclosing
      <4>2. IsPath(q)
        BY <1>1, <1>2
      <4> QED
        BY <4>1, <4>2, StrictlyAboveStrict
    <3>2. CASE p \notin Enclosing(old, new)
      BY <1>1, <3>2
    <3> QED
      BY <3>1, <3>2
  <2>4. q \in DOMAIN old \cup DOMAIN new
    BY DEF Added, Removed, Changed
  <2>5. ~(q \in DOMAIN old \cap DOMAIN new /\ EntriesIdentical(old[q], new[q]))
    BY <2>3, AddedIsNew DEF Removed, Changed
  <2>6. ~EntriesIdentical(old[d], new[d])
    BY <2>1, <2>3, <2>4, <2>5 DEF SealedTrees
  <2> QED
    BY <2>1, <2>2, <2>6
<1>5. ASSUME Reached(old, patch, p)
      PROVE  Compared(old, new, p)
  <2>1. CASE p \in DOMAIN old
    BY <1>2, <2>1
  <2>2. CASE p \notin DOMAIN old
    <3>1. p \in DOMAIN new
      BY <1>2, <2>2
    <3>2. StrictlyAbove(p) \subseteq DOMAIN old \cap DOMAIN new
      BY <1>5, <3>1 DEF Reached, WellFormed
    <3> QED
      BY <1>2, <3>2, ComparedInBoth
  <2> QED
    BY <2>1, <2>2
<1> QED
  BY <1>4, <1>5

\* applyPatchTree undoes diffTree: from the old tree and the patch it makes a
\* tree with the paths of the new one and its entry at each of them.
THEOREM ApplyUndoesDiff ==
  ASSUME NEW old, NEW new, WellFormed(old), WellFormed(new), SealedTrees(old, new)
  PROVE  LET result == ApplyPatchTree(old, PatchTree(old, new))
         IN /\ DOMAIN result = DOMAIN new
            /\ \A p \in DOMAIN new : /\ EntriesIdentical(result[p], new[p])
                                     /\ result[p].depth = new[p].depth
                                     /\ IsEntry(result[p])
<1> DEFINE patch == PatchTree(old, new)
           added == Added(old, new)
           removed == Removed(old, new)
           changed == Changed(old, new)
           enclosing == Enclosing(old, new)
           result == ApplyPatchTree(old, patch)
           reached == {p \in DOMAIN patch : Reached(old, patch, p)}
           grafted == reached \ DOMAIN old
           erased == {p \in reached \cap DOMAIN old : EntriesIdentical(old[p], patch[p])}
           clobbered == (reached \cap DOMAIN old) \ erased
           incoming == {p \in DOMAIN patch : Above(p) \cap grafted # {}} \cup clobbered
           staying == {p \in DOMAIN old : Above(p) \cap erased = {}}
<1>1. result = [p \in incoming \cup staying |-> IF p \in incoming THEN patch[p] ELSE old[p]]
  BY DEF ApplyPatchTree
<1>2. DOMAIN patch = added \cup removed \cup changed \cup enclosing
  BY PatchEntries
<1>3. added = DOMAIN new \ DOMAIN old
  BY AddedIsNew
<1>4. \A p \in DOMAIN patch :
        /\ p \in DOMAIN new => patch[p] = new[p]
        /\ p \notin DOMAIN new => p \in DOMAIN old /\ patch[p] = old[p]
        /\ p \in DOMAIN old => p \in reached
  <2>1. \A p \in DOMAIN patch :
          /\ IsPath(p)
          /\ p \in DOMAIN new => patch[p] = new[p]
          /\ p \notin DOMAIN new => p \in DOMAIN old /\ patch[p] = old[p]
          /\ p \in DOMAIN old => Compared(old, new, p)
    BY PatchEntries
  <2>2. \A p \in DOMAIN patch : Reached(old, patch, p) <=> Compared(old, new, p)
    BY ReachedIsCompared
  <2> QED
    BY <2>1, <2>2
<1>5. enclosing = {}
  <2> SUFFICES ASSUME NEW d \in enclosing
               PROVE  FALSE
    OBVIOUS
  <2>1. PICK q \in added \cup removed \cup changed : d \in StrictlyAbove(q)
    BY DEF Enclosing
  <2>2. q \in DOMAIN old \cup DOMAIN new
    BY DEF Added, Removed, Changed
  <2>3. ~(q \in DOMAIN old \cap DOMAIN new /\ EntriesIdentical(old[q], new[q]))
    BY <2>1, <1>3 DEF Removed, Changed
  <2> QED
    BY <2>1, <2>2, <2>3 DEF SealedTrees, Enclosing
<1>6. erased = removed
  <2>1. \A e : EntriesIdentical(e, e)
    BY DEF EntriesIdentical
  <2> QED
    BY <1>2, <1>3, <1>4, <1>5, <2>1 DEF Removed, Changed
<1>7. clobbered = changed
  BY <1>2, <1>3, <1>4, <1>5, <1>6 DEF Removed, Changed
<1>8. {p \in DOMAIN patch : Above(p) \cap grafted # {}} = added
  <2>1. ASSUME NEW p \in DOMAIN patch, NEW d \in Above(p), d \in grafted
        PROVE  p \in added
    BY <1>3, <1>4, <2>1 DEF WellFormed, StrictlyAbove
  <2>2. ASSUME NEW p \in added
        PROVE  Above(p) \cap grafted # {}
    <3>1. PICK d \in Above(p) : d \notin DOMAIN old /\ Compared(old, new, d)
      BY DEF Added
    <3>2. d \in DOMAIN new
      BY <1>3, <3>1 DEF WellFormed, StrictlyAbove
    <3>3. d \in DOMAIN patch
      BY <1>2, <1>3, <3>1, <3>2
    <3> QED
      BY <3>1, <3>3, ReachedIsCompared
  <2> QED
    BY <1>2, <2>1, <2>2
<1>9. incoming = added \cup changed
  BY <1>7, <1>8
<1>10. staying = DOMAIN old \cap DOMAIN new
  <2>1. ASSUME NEW p \in DOMAIN old \cap DOMAIN new
        PROVE  Above(p) \cap removed = {}
    BY DEF WellFormed, StrictlyAbove, Removed
  <2> QED
    BY <1>6, <2>1, RemovedIsGone
<1>11. ASSUME NEW p \in DOMAIN old \cap DOMAIN new, p \notin changed
       PROVE  EntriesIdentical(old[p], new[p])
  <2>1. IsPath(p) /\ StrictlyAbove(p) \subseteq DOMAIN old \cap DOMAIN new
    BY DEF WellFormed
  <2> QED
    BY <1>11, <2>1, ComparedInBoth DEF Changed
<1> HIDE DEF patch, added, removed, changed, enclosing, result, incoming, staying
<1>12. DOMAIN result = DOMAIN new
  BY <1>1, <1>3, <1>9, <1>10 DEF Changed, changed
<1>13. ASSUME NEW p \in DOMAIN new
       PROVE  /\ EntriesIdentical(result[p], new[p])
              /\ result[p].depth = new[p].depth
              /\ IsEntry(result[p])
  <2>1. CASE p \in incoming
    <3>1. result[p] = new[p]
      BY <1>1, <1>2, <1>4, <1>9, <2>1
    <3> QED
      BY <3>1 DEF EntriesIdentical, WellFormed
  <2>2. CASE p \notin incoming
    <3>1. p \in DOMAIN old /\ p \notin changed /\ result[p] = old[p]
      BY <1>1, <1>3, <1>9, <1>10, <2>2
    <3> QED
      BY <1>11, <3>1 DEF WellFormed
  <2> QED
    BY <2>1, <2>2
<1> QED
  BY <1>12, <1>13 DEF result, patch
-----------------------------------------------------------------------------
(* Applying a patch.                                                         *)

LEMMA DirectoryAbove ==
  ASSUME NEW p, IsPath(p), NEW d \in StrictlyAbove(p)
  PROVE  Last(d) \in DirNames
<1>1. PICK k \in 1..Len(p) : d = SubSeq(p, 1, k)
  BY DEF StrictlyAbove, Above
<1>2. p \in Seq(Names) /\ Len(p) \in Nat
  BY DEF IsPath
<1>3. k # Len(p)
  BY <1>1, <1>2, SubSeqFull DEF StrictlyAbove
<1>4. Last(d) = p[k]
  BY <1>1, <1>2 DEF Last
<1> QED
  BY <1>2, <1>3, <1>4 DEF IsPath

\* flattenPatchTree leaves nothing of a tree out.
LEMMA FlattenAll ==
  ASSUME NEW t, WellFormed(t)
  PROVE  Flatten(t) = Listing(t)
<1> DEFINE D == {q \in DOMAIN t : \A d \in StrictlyAbove(q) : IsDir(t[d])}
<1>1. \A q \in DOMAIN t : \A d \in StrictlyAbove(q) : d \in DOMAIN t /\ Last(d) \in DirNames
  BY DirectoryAbove DEF WellFormed
<1>2. \A d \in DOMAIN t : t[d].name = Last(d)
  BY DEF WellFormed
<1>3. D = DOMAIN t
  BY <1>1, <1>2 DEF IsDir
<1>4. t = [p \in DOMAIN t |-> t[p]]
  BY DEF WellFormed
<1>5. [p \in D |-> t[p]] = t
  BY <1>3, <1>4
<1> QED
  BY <1>5 DEF Flatten

LEMMA SameEntry ==
  ASSUME NEW e, NEW f, IsEntry(e), IsEntry(f), EntriesIdentical(e, f), e.depth = f.depth
  PROVE  e = f
<1>1. e = [name |-> e.name, depth |-> e.depth, mode |-> e.mode, timestamp |-> e.timestamp,
           size |-> e.size, id |-> e.id, link |-> e.link]
  BY DEF IsEntry
<1>2. f = [name |-> f.name, depth |-> f.depth, mode |-> f.mode, timestamp |-> f.timestamp,
           size |-> f.size, id |-> f.id, link |-> f.link]
  BY DEF IsEntry
<1> QED
  BY <1>1, <1>2 DEF EntriesIdentical

\* With the directories sealed applyPatchTree makes the new tree from the old.
LEMMA ApplyGivesNew ==
  ASSUME NEW old, NEW new, WellFormed(old), WellFormed(new), SealedTrees(old, new)
  PROVE  ApplyPatchTree(old, PatchTree(old, new)) = new
<1> DEFINE result == ApplyPatchTree(old, PatchTree(old, new))
<1>1. /\ DOMAIN result = DOMAIN new
      /\ \A p \in DOMAIN new : /\ EntriesIdentical(result[p], new[p])
                               /\ result[p].depth = new[p].depth
                               /\ IsEntry(result[p])
  BY ApplyUndoesDiff
<1>2. result = [p \in DOMAIN result |-> result[p]]
  BY DEF ApplyPatchTree
<1>3. new = [p \in DOMAIN new |-> new[p]] /\ \A p \in DOMAIN new : IsEntry(new[p])
  BY DEF WellFormed
<1> HIDE DEF result
<1>4. \A p \in DOMAIN new : result[p] = new[p]
  BY <1>1, <1>3, SameEntry
<1>5. result = new
  BY <1>1, <1>2, <1>3, <1>4
<1> QED
  BY <1>5 DEF result

\* The patch of two manifests is the list of the patch tree.
LEMMA DiffIsListing ==
  ASSUME NEW old, NEW new, HasEntries(old), Clean(old), HasEntries(new), Clean(new)
  PROVE  LET t == PatchTree(BuildPatchTree(old), BuildPatchTree(new))
         IN /\ WellFormed(t)
            /\ PatchDiff(old, new).patch = Listing(t)
<1>1. PatchDiff(old, new).patch = DiffTree(BuildPatchTree(old), BuildPatchTree(new))
  BY DEF PatchDiff
<1>2. WellFormed(BuildPatchTree(old)) /\ WellFormed(BuildPatchTree(new))
  BY CleanIsTree
<1> QED
  BY <1>1, <1>2, PatchIsTree DEF DiffTree

\* What ApplyPatch makes of the old manifest, in sorted form, and the patch is
\* the new manifest in sorted form.
LEMMA DiffApplies ==
  ASSUME NEW old, NEW new, HasEntries(old), Clean(old), HasEntries(new), Clean(new),
         SealedTrees(BuildPatchTree(old), BuildPatchTree(new))
  PROVE  ApplyPatch(SortEntries(old), PatchDiff(old, new).patch) = SortEntries(new)
<1> DEFINE s == BuildPatchTree(old)
           t == BuildPatchTree(new)
           p == PatchTree(s, t)
<1>1. WellFormed(s) /\ WellFormed(t) /\ SealedTrees(s, t)
  BY CleanIsTree
<1>2. IsList(old) /\ Clean(old) /\ IsList(new) /\ Clean(new)
  BY EntriesAreList
<1>3. WellFormed(p) /\ PatchDiff(old, new).patch = Listing(p)
  BY DiffIsListing
<1>4. BuildPatchTree(SortEntries(old)) = s
  BY <1>2, SortGivesTree
<1>5. ApplyPatchTree(s, p) = t
  BY <1>1, ApplyGivesNew
<1> HIDE DEF p
<1>6. BuildPatchTree(Listing(p)) = p
  BY <1>3, ReadsBack
<1>7. ApplyPatch(SortEntries(old), Listing(p)) = SortEntries(Flatten(t))
  BY <1>4, <1>5, <1>6 DEF ApplyPatch
<1>8. IsList(Listing(t)) /\ Clean(Listing(t)) /\ BuildPatchTree(Listing(t)) = t
  BY <1>1, ListingIsClean, ReadsBack
<1>9. SortEntries(Listing(t)) = SortEntries(new)
  BY <1>2, <1>8, SortOfTree
<1> QED
  BY <1>1, <1>3, <1>7, <1>9, FlattenAll

LEMMA ManifestMeasured ==
  ASSUME NEW m, HasEntries(m), Clean(m)
  PROVE  Measured(m)
<1>1. IsList(m)
  BY EntriesAreList
<1>2. \A i \in 1..Len(m) : m[i].size \in Sizes /\ m[i].timestamp \in Nat
  BY DEF HasEntries, IsEntry, Sizes
<1> QED
  BY <1>1, <1>2 DEF Measured
=============================================================================
