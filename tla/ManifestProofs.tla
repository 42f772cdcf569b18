--------------------------- MODULE ManifestProofs ---------------------------
(* One Manifest object, for any names, any entries the callers add and any    *)
(* bounds: the cached tree index is always that of the current entries, and    *)
(* all walks that compute full paths agree.                                    *)
EXTENDS Manifest, TreeProofs

\* Canonicalize writes sizes and timestamps only: no name, depth or kind of an
\* entry changes, which is all the tree index is built from.
LEMMA CanonicalizeKeepsShape ==
  ASSUME NEW es
  PROVE  Shape(Canonicalize(es)) = Shape(es)
<1> DEFINE c == Canonicalize(es)
<1>1. DOMAIN c = DOMAIN es
  BY DEF Canonicalize
<1>2. ASSUME NEW i \in DOMAIN es
      PROVE  /\ c[i].name = es[i].name
             /\ c[i].depth = es[i].depth
             /\ IsDir(c[i]) = IsDir(es[i])
  BY DEF Canonicalize, IsDir
<1> HIDE DEF c
<1>3. \A i \in DOMAIN es :
        [name |-> c[i].name, depth |-> c[i].depth, dir |-> IsDir(c[i])]
          = [name |-> es[i].name, depth |-> es[i].depth, dir |-> IsDir(es[i])]
  BY <1>2
<1> QED
  BY <1>1, <1>3 DEF Shape, c

\* A lookup leaves the index coherent: it builds the index or returns the
\* cached one, and changes no entry.
LEMMA LookupCoherent ==
  ASSUME IndexCoherent, Lookup
  PROVE  IndexCoherent'
<1>1. entries' = entries /\ index' = Index
  BY DEF Lookup
<1>2. Index = BuildIndex(entries)
  BY DEF Index, IndexCoherent
<1> QED
  BY <1>1, <1>2 DEF IndexCoherent

\* Canonicalize keeps the cached index, and the index it keeps is right.
LEMMA CanonicalizeCoherent ==
  ASSUME IndexCoherent, CanonicalizeManifest
  PROVE  IndexCoherent'
<1>1. entries' = Canonicalize(entries) /\ index' = index
  BY DEF CanonicalizeManifest
<1>2. BuildIndex(Canonicalize(entries)) = BuildIndex(entries)
  BY CanonicalizeKeepsShape DEF BuildIndex
<1> QED
  BY <1>1, <1>2 DEF IndexCoherent

\* No sequence of calls leaves a Manifest with an index built from other
\* entries than it now holds (ensureIndex, invalidateIndex in manifest.cpp).
THEOREM IndexAlwaysCoherent == Spec => []IndexCoherent
<1>1. Init => IndexCoherent
  BY DEF Init, IndexCoherent
<1>2. IndexCoherent /\ [Next]_vars => IndexCoherent'
  <2> SUFFICES ASSUME IndexCoherent, [Next]_vars
               PROVE  IndexCoherent'
    OBVIOUS
  <2>1. CASE Lookup
    BY <2>1, LookupCoherent
  <2>2. CASE InvalidateIndex
    BY <2>2 DEF InvalidateIndex, IndexCoherent
  <2>3. CASE \E e \in NewEntries : AddEntry(e)
    BY <2>3 DEF AddEntry, IndexCoherent
  <2>4. CASE \E i \in 1..Len(entries) : RemoveEntry(i)
    BY <2>4 DEF RemoveEntry, IndexCoherent
  <2>5. CASE \E i \in 1..Len(entries) :
               \E p \in 0..Len(entries), name \in NamesFor(i) : MoveEntry(i, p, name)
    BY <2>5 DEF MoveEntry, IndexCoherent
  <2>6. CASE SortManifest
    <3>1. entries = <<>> => UNCHANGED vars
      BY <2>6 DEF SortManifest, SortEntries, vars
    <3> QED
      BY <2>6, <3>1 DEF SortManifest, IndexCoherent, vars
  <2>7. CASE CanonicalizeManifest
    BY <2>7, CanonicalizeCoherent
  <2>8. CASE UNCHANGED vars
    BY <2>8 DEF vars, IndexCoherent
  <2> QED
    BY <2>1, <2>2, <2>3, <2>4, <2>5, <2>6, <2>7, <2>8 DEF Next
<1> QED
  BY <1>1, <1>2, PTL DEF Spec

-----------------------------------------------------------------------------
(* What stands above an entry.                                               *)

AboveIn(parent, above) ==
  above = [j \in DOMAIN parent |->
             IF parent[j] = 0 THEN {} ELSE {parent[j]} \cup above[parent[j]]]

\* The recursion ends, as a parent stands before its children.
LEMMA AboveExists ==
  ASSUME NEW n \in Nat, NEW parent \in [1..n -> Nat],
         \A j \in 1..n : parent[j] < j
  PROVE  \E above : AboveIn(parent, above)
<1> DEFINE Step(f, j) == IF parent[j] = 0 THEN {} ELSE {parent[j]} \cup f[parent[j]]
           Upto(k) == \E f \in [1..n -> SUBSET Nat] : \A j \in 1..k : f[j] = Step(f, j)
           S == {k \in Nat : k <= n => Upto(k)}
<1>1. Upto(0)
  <2>1. [j \in 1..n |-> {}] \in [1..n -> SUBSET Nat] /\ 1..0 = {}
    OBVIOUS
  <2> QED
    BY <2>1
<1>2. ASSUME NEW k \in Nat, k + 1 <= n, Upto(k)
      PROVE  Upto(k + 1)
  <2>1. PICK f \in [1..n -> SUBSET Nat] : \A j \in 1..k : f[j] = Step(f, j)
    BY <1>2
  <2>a. k + 1 <= n
    BY <1>2
  <2> DEFINE g == [f EXCEPT ![k + 1] = Step(f, k + 1)]
  <2>2. k + 1 \in 1..n /\ \A j \in 1..(k + 1) : j \in 1..n /\ (j = k + 1 \/ j \in 1..k)
    BY <2>a
  <2>3. \A j \in 1..(k + 1) : parent[j] \in Nat /\ parent[j] # k + 1
                                /\ (parent[j] # 0 => parent[j] \in 1..n)
    BY <2>2
  <2>4. Step(f, k + 1) \in SUBSET Nat
    <3>1. CASE parent[k + 1] = 0
      BY <3>1
    <3>2. CASE parent[k + 1] # 0
      <4>1. parent[k + 1] \in 1..n /\ parent[k + 1] \in Nat /\ k + 1 \in 1..(k + 1)
        BY <2>3, <3>2
      <4>2. f[parent[k + 1]] \in SUBSET Nat
        BY <2>1, <4>1
      <4> QED
        BY <3>2, <4>1, <4>2
    <3> QED
      BY <3>1, <3>2
  <2>5. g \in [1..n -> SUBSET Nat] /\ g[k + 1] = Step(f, k + 1)
        /\ \A j \in 1..n : j # k + 1 => g[j] = f[j]
    <3> HIDE DEF Step
    <3> QED
      BY <2>1, <2>2, <2>4
  <2> HIDE DEF g
  <2>6. \A j \in 1..(k + 1) : Step(g, j) = Step(f, j)
    BY <2>3, <2>5
  <2>7. \A j \in 1..(k + 1) : g[j] = Step(f, j)
    <3> HIDE DEF Step
    <3>1. \A j \in 1..k : j # k + 1
      OBVIOUS
    <3> QED
      BY <2>1, <2>2, <2>5, <3>1
  <2> HIDE DEF Step
  <2> QED
    BY <2>5, <2>6, <2>7
<1>3. Upto(n)
  <2> HIDE DEF Upto
  <2>1. 0 \in S /\ \A k \in Nat : k \in S => k + 1 \in S
    BY <1>1, <1>2
  <2>2. Nat \subseteq S
    <3> HIDE DEF S
    <3> QED
      BY <2>1, Walk!NatInSet
  <2> QED
    BY <2>2
<1>4. PICK f \in [1..n -> SUBSET Nat] : \A j \in 1..n : f[j] = Step(f, j)
  BY <1>3
<1>5. f = [j \in DOMAIN parent |-> Step(f, j)]
  <2> HIDE DEF Step
  <2>1. DOMAIN parent = 1..n /\ f = [j \in 1..n |-> f[j]]
    OBVIOUS
  <2> QED
    BY <1>4, <2>1
<1>6. AboveIn(parent, f)
  BY <1>5 DEF AboveIn
<1> QED
  BY <1>6

\* An entry's parent stands before it and is one level up.
LEMMA ParentIsAbove ==
  ASSUME NEW es, IsList(es), NEW i \in 1..Len(es)
  PROVE  LET p == ParentIn(Shape(es), i)
         IN /\ p \in Nat
            /\ p < i
            /\ p # 0 => es[p].depth = es[i].depth - 1
<1> DEFINE s == Shape(es)
           near == {j \in 1..(i - 1) :
                      /\ s[j].dir
                      /\ s[j].depth = s[i].depth - 1
                      /\ \A k \in j..(i - 1) : s[k].depth >= s[i].depth - 1}
<1>1. Len(es) \in Nat /\ i \in Nat /\ i # 0 /\ DOMAIN es = 1..Len(es)
  BY DEF IsList
<1>2. ParentIn(s, i) = IF near = {} THEN 0 ELSE Max(near)
  BY DEF ParentIn
<1>3. CASE near = {}
  BY <1>1, <1>2, <1>3
<1>4. CASE near # {}
  <2>1. near \in SUBSET (1..(i - 1)) /\ i - 1 \in Nat
    BY <1>1
  <2>2. \E x \in near : \A y \in near : y <= x
    <3> HIDE DEF near
    <3> QED
      BY <1>4, <2>1, LastNumber
  <2>3. PICK x \in near : \A y \in near : x >= y
    <3> HIDE DEF near
    <3>1. \A x, y \in near : x \in Int /\ y \in Int
      BY <2>1
    <3> QED
      BY <2>2, <3>1
  <2>4. Max(near) = x
    <3> HIDE DEF near
    <3>1. near \in SUBSET Nat
      BY <2>1
    <3> QED
      BY <2>3, <3>1, GreatestIs
  <2>5. x \in 1..(i - 1) /\ s[x].depth = s[i].depth - 1
    OBVIOUS
  <2>6. s[x].depth = es[x].depth /\ s[i].depth = es[i].depth
    BY <1>1, <2>5 DEF Shape
  <2> HIDE DEF near, s
  <2> QED
    BY <1>1, <1>2, <1>4, <2>4, <2>5, <2>6 DEF s
<1> QED
  BY <1>3, <1>4

\* So what is nested under an entry is deeper than it.
LEMMA DescendantsDeeper ==
  ASSUME NEW es, IsList(es), NEW i \in 1..Len(es),
         NEW j \in Descendants(BuildIndex(es), i)
  PROVE  j \in 1..Len(es) /\ es[j].depth > es[i].depth
<1> DEFINE n == Len(es)
           parent == BuildIndex(es).parent
           above == CHOOSE f : f = [k \in DOMAIN parent |->
                                      IF parent[k] = 0 THEN {} ELSE {parent[k]} \cup f[parent[k]]]
           T == {k \in Nat : \A x \in 1..n : x <= k =>
                                \A y \in 1..n : y \in above[x] => es[x].depth > es[y].depth}
<1>1. n \in Nat /\ DOMAIN es = 1..n
  BY DEF IsList
<1>2. parent = [k \in 1..n |-> ParentIn(Shape(es), k)]
  <2>1. Len(Shape(es)) = n
    BY <1>1 DEF Shape
  <2> QED
    BY <2>1 DEF BuildIndex, IndexOf
<1>3. j \in DOMAIN parent /\ i \in above[j]
  BY DEF Descendants
<1> HIDE DEF parent
<1>4. \A k \in 1..n : /\ parent[k] \in Nat
                      /\ parent[k] < k
                      /\ parent[k] # 0 => es[parent[k]].depth = es[k].depth - 1
  BY <1>2, ParentIsAbove
<1>5. parent \in [1..n -> Nat]
  BY <1>2, <1>4
<1>6. \E f : AboveIn(parent, f)
  BY <1>1, <1>4, <1>5, AboveExists
<1>7. above = [k \in DOMAIN parent |->
                 IF parent[k] = 0 THEN {} ELSE {parent[k]} \cup above[parent[k]]]
  BY <1>6 DEF AboveIn
<1> HIDE DEF above
<1>8. \A k \in 1..n : above[k] = IF parent[k] = 0 THEN {} ELSE {parent[k]} \cup above[parent[k]]
  <2>1. DOMAIN parent = 1..n
    BY <1>2
  <2> QED
    BY <1>7, <2>1
<1>9. 0 \in T
  OBVIOUS
<1>10. ASSUME NEW k \in Nat, k \in T
       PROVE  k + 1 \in T
  <2> SUFFICES ASSUME NEW x \in 1..n, x <= k + 1, NEW y \in 1..n, y \in above[x]
               PROVE  es[x].depth > es[y].depth
    OBVIOUS
  <2>1. parent[x] # 0 /\ (y = parent[x] \/ y \in above[parent[x]])
    BY <1>8
  <2>2. parent[x] \in 1..n /\ parent[x] <= k
    BY <1>1, <1>4, <2>1
  <2>3. es[parent[x]].depth = es[x].depth - 1
    BY <1>4, <2>1
  <2>4. es[x].depth \in Nat /\ es[y].depth \in Nat
    BY DEF IsList
  <2>5. y \in above[parent[x]] => es[parent[x]].depth > es[y].depth
    BY <1>10, <2>2
  <2> QED
    BY <2>1, <2>3, <2>4, <2>5
<1>11. Nat \subseteq T
  <2> HIDE DEF T
  <2> QED
    BY <1>9, <1>10, Walk!NatInSet
<1>12. j \in 1..n
  BY <1>2, <1>3
<1>13. j \in T
  BY <1>1, <1>11, <1>12
<1> QED
  BY <1>1, <1>3, <1>12, <1>13

\* In a nested list they are all that stands deeper after it, up to the first
\* entry that does not.
LEMMA DescendantsAreBelow ==
  ASSUME NEW es, IsList(es), Nested(es), NEW i \in 1..Len(es)
  PROVE  Descendants(BuildIndex(es), i) = Below(es, i)
<1> DEFINE n == Len(es)
           parent == BuildIndex(es).parent
           above == CHOOSE f : f = [k \in DOMAIN parent |->
                                      IF parent[k] = 0 THEN {} ELSE {parent[k]} \cup f[parent[k]]]
           T == {k \in Nat : \A x \in 1..n : x <= k => (i \in above[x] <=> x \in Below(es, i))}
<1>1. n \in Nat /\ DOMAIN es = 1..n /\ \A x \in 1..n : es[x].depth \in Nat
  BY DEF IsList
<1>2. parent = [k \in 1..n |-> ParentIn(Shape(es), k)]
  <2>1. Len(Shape(es)) = n
    BY <1>1 DEF Shape
  <2> QED
    BY <2>1 DEF BuildIndex, IndexOf
<1>3. Descendants(BuildIndex(es), i) = {x \in DOMAIN parent : i \in above[x]}
  BY DEF Descendants
<1> HIDE DEF parent
<1>4. \A k \in 1..n : parent[k] \in Nat /\ parent[k] < k
  BY <1>2, ParentIsAbove
<1>5. parent \in [1..n -> Nat]
  BY <1>2, <1>4
<1>6. \E f : AboveIn(parent, f)
  BY <1>1, <1>4, <1>5, AboveExists
<1>7. above = [k \in DOMAIN parent |->
                 IF parent[k] = 0 THEN {} ELSE {parent[k]} \cup above[parent[k]]]
  BY <1>6 DEF AboveIn
<1> HIDE DEF above
<1>8. \A k \in 1..n : above[k] = IF parent[k] = 0 THEN {} ELSE {parent[k]} \cup above[parent[k]]
  <2>1. DOMAIN parent = 1..n
    BY <1>2
  <2> QED
    BY <1>7, <2>1
<1>9. ASSUME NEW x \in 1..n
      PROVE  /\ parent[x] = 0 => es[x].depth = 0
             /\ parent[x] # 0 => IsParent(es, parent[x], x)
  <2>1. PICK p \in 0..n : x \in Kids(es, p)
    BY KidOfOne
  <2>2. (p = 0 => es[x].depth = 0) /\ (p # 0 => IsParent(es, p, x))
    BY <2>1, KidOfParent
  <2>3. ParentIn(Shape(es), x) = p
    BY <2>2, ParentFound
  <2> QED
    BY <1>2, <2>2, <2>3
<1>10. DepthIn(es, i) = es[i].depth + 1 /\ i \in 0..n /\ i # 0
  BY <1>1 DEF DepthIn
<1>11. \A x \in Below(es, i) :
         /\ x \in 1..n /\ i < x /\ es[x].depth >= es[i].depth + 1
         /\ \A k \in (i + 1)..x : k \in Below(es, i)
  BY <1>10, BelowFacts
<1>12. 0 \in T
  OBVIOUS
<1>13. ASSUME NEW k \in Nat, k \in T
       PROVE  k + 1 \in T
  <2> SUFFICES ASSUME NEW x \in 1..n, x <= k + 1
               PROVE  i \in above[x] <=> x \in Below(es, i)
    OBVIOUS
  <2>1. CASE parent[x] = 0
    <3>1. es[x].depth = 0
      BY <1>9, <2>1
    <3>2. x \notin Below(es, i)
      BY <1>1, <1>11, <3>1
    <3> QED
      BY <1>8, <2>1, <3>2
  <2>2. CASE parent[x] # 0
    <3> DEFINE p == parent[x]
    <3>1. IsParent(es, p, x)
      BY <1>9, <2>2
    <3>2. p \in 1..n /\ p < x /\ x \in Kids(es, p)
      BY <3>1, ParentOfKid
    <3>3. p <= k
      BY <1>1, <3>2
    <3> HIDE DEF p
    <3>4. i \in above[x] <=> i = p \/ p \in Below(es, i)
      <4>1. i \in above[x] <=> i = p \/ i \in above[p]
        BY <1>8, <2>2 DEF p
      <4>2. i \in above[p] <=> p \in Below(es, i)
        BY <1>13, <3>2, <3>3
      <4> QED
        BY <4>1, <4>2
    <3>5. x \in Below(es, p)
      BY <3>2 DEF Kids
    <3>6. i = p \/ p \in Below(es, i) => x \in Below(es, i)
      BY <1>10, <3>5, BelowNested
    <3>7. ASSUME x \in Below(es, i)
          PROVE  i = p \/ p \in Below(es, i)
      <4>1. i < x /\ es[x].depth >= es[i].depth + 1
        BY <1>11, <3>7
      <4>2. CASE p > i
        <5>1. p \in (i + 1)..x
          BY <1>1, <3>2, <4>2
        <5> QED
          BY <1>11, <3>7, <5>1
      <4>3. CASE p < i
        <5>1. IsDir(es[i])
          BY <3>7, NothingBelowFile
        <5>2. /\ es[p].depth = es[x].depth - 1
              /\ \A m \in (p + 1)..(x - 1) : es[m].depth >= es[x].depth
          BY <3>1 DEF IsParent
        <5>3. i \in (p + 1)..(x - 1)
          BY <1>1, <3>2, <4>1, <4>3
        <5>4. es[i].depth >= es[x].depth
          BY <5>2, <5>3
        <5> QED
          BY <1>1, <4>1, <5>4
      <4> QED
        BY <1>1, <3>2, <4>2, <4>3
    <3> QED
      BY <3>4, <3>6, <3>7
  <2> QED
    BY <2>1, <2>2
<1>14. Nat \subseteq T
  <2> HIDE DEF T
  <2> QED
    BY <1>12, <1>13, Walk!NatInSet
<1>15. ASSUME NEW x \in 1..n
       PROVE  i \in above[x] <=> x \in Below(es, i)
  <2>1. x \in T
    BY <1>1, <1>14
  <2> QED
    BY <1>1, <2>1
<1>16. DOMAIN parent = 1..n
  BY <1>2
<1> QED
  BY <1>3, <1>11, <1>15, <1>16

-----------------------------------------------------------------------------
(* The entries stay entries: a list of records with a name, a depth of 0 or     *)
(* more, and sizes and timestamps that are numbers or null.                  *)

Entries(es) == IsList(es) /\ \A i \in 1..Len(es) : IsEntry(es[i])

EntriesTyped == Entries(entries)

LEMMA EntryMoved ==
  ASSUME NEW e, IsEntry(e), NEW name \in Names, NEW d \in Nat
  PROVE  /\ IsEntry([e EXCEPT !.name = name, !.depth = d])
         /\ IsEntry([e EXCEPT !.depth = d])
<1> DEFINE x == [name |-> name, depth |-> d, mode |-> e.mode, timestamp |-> e.timestamp,
                 size |-> e.size, id |-> e.id, link |-> e.link]
           y == [name |-> e.name, depth |-> d, mode |-> e.mode, timestamp |-> e.timestamp,
                 size |-> e.size, id |-> e.id, link |-> e.link]
<1>1. e = [name |-> e.name, depth |-> e.depth, mode |-> e.mode, timestamp |-> e.timestamp,
           size |-> e.size, id |-> e.id, link |-> e.link]
  BY DEF IsEntry
<1>2. [e EXCEPT !.name = name, !.depth = d] = x
  <2> DEFINE u == [e EXCEPT !.name = name]
  <2>1. u = [name |-> name, depth |-> e.depth, mode |-> e.mode, timestamp |-> e.timestamp,
             size |-> e.size, id |-> e.id, link |-> e.link]
    BY <1>1
  <2>2. [e EXCEPT !.name = name, !.depth = d] = [u EXCEPT !.depth = d]
    BY <1>1
  <2> HIDE DEF u
  <2>3. [u EXCEPT !.depth = d] = x
    BY <2>1
  <2> QED
    BY <2>2, <2>3
<1>3. [e EXCEPT !.depth = d] = y
  BY <1>1
<1>4. IsEntry(x)
  BY DEF IsEntry
<1>5. IsEntry(y)
  BY DEF IsEntry
<1> QED
  BY <1>2, <1>3, <1>4, <1>5

\* A list of entries over 1..n.
LEMMA EntriesOver ==
  ASSUME NEW n \in Nat, NEW s, s = [k \in 1..n |-> s[k]], \A k \in 1..n : IsEntry(s[k])
  PROVE  Entries(s) /\ Len(s) = n
<1>1. \A k \in 1..n : s[k].name \in Names /\ s[k].depth \in Nat
  BY DEF IsEntry
<1>2. IsList(s) /\ Len(s) = n
  BY <1>1, ListOver
<1> QED
  BY <1>2 DEF Entries

\* A move shifts what is under an entry by as much as the entry: nothing gets
\* above the root.
LEMMA RelabelledTyped ==
  ASSUME EntriesTyped, IndexCoherent,
         NEW i \in 1..Len(entries), NEW depth \in Nat, NEW name \in Names
  PROVE  Entries(Relabelled(i, depth, name))
<1> DEFINE n == Len(entries)
           r == Relabelled(i, depth, name)
<1>1. n \in Nat
  BY DEF EntriesTyped, Entries, IsList
<1>2. \A j \in 1..n : IsEntry(entries[j]) /\ entries[j].depth \in Nat
  BY DEF EntriesTyped, Entries, IsEntry
<1>3. \A j \in Under(i) : entries[j].depth > entries[i].depth
  <2>1. Index = BuildIndex(entries)
    BY DEF Index, IndexCoherent
  <2>2. \A j \in Under(i) : j \in Descendants(BuildIndex(entries), i)
    BY <2>1 DEF Under
  <2> QED
    BY <2>2, DescendantsDeeper DEF EntriesTyped, Entries
<1>4. r = [j \in 1..n |-> r[j]]
  BY DEF Relabelled
<1>5. ASSUME NEW j \in 1..n
      PROVE  IsEntry(r[j])
  <2> DEFINE e == entries[j]
  <2>1. CASE j = i
    <3>1. r[j] = [e EXCEPT !.name = name, !.depth = depth]
      BY <2>1 DEF Relabelled
    <3>2. IsEntry(e)
      BY <1>2
    <3> HIDE DEF e, r
    <3>3. IsEntry([e EXCEPT !.name = name, !.depth = depth])
      BY <3>2, EntryMoved
    <3> QED
      BY <3>1, <3>3
  <2>2. CASE j # i /\ j \in Under(i)
    <3> DEFINE d == e.depth + (depth - entries[i].depth)
    <3>1. r[j] = [e EXCEPT !.depth = d]
      BY <2>2 DEF Relabelled
    <3>2. IsEntry(e) /\ e.name \in Names
      BY <1>2 DEF IsEntry
    <3>3. d \in Nat
      BY <1>2, <1>3, <2>2
    <3> HIDE DEF d, e, r
    <3>4. IsEntry([e EXCEPT !.depth = d])
      BY <3>2, <3>3, EntryMoved
    <3> QED
      BY <3>1, <3>4
  <2>3. CASE j # i /\ j \notin Under(i)
    <3>1. r[j] = e
      BY <2>3 DEF Relabelled
    <3> QED
      BY <1>2, <3>1
  <2> QED
    BY <2>1, <2>2, <2>3
<1> HIDE DEF r
<1>6. Entries(r)
  BY <1>1, <1>4, <1>5, EntriesOver
<1> QED
  BY <1>6 DEF r

LEMMA EntriesMeasured ==
  ASSUME NEW es, Entries(es)
  PROVE  Measured(es)
<1>1. \A i \in 1..Len(es) : es[i].size \in Sizes /\ es[i].timestamp \in Nat
  BY DEF Entries, IsEntry, Sizes
<1> QED
  BY <1>1 DEF Entries, Measured

LEMMA CanonicalizeTyped ==
  ASSUME NEW es, Entries(es)
  PROVE  Entries(Canonicalize(es))
<1> DEFINE c == Canonicalize(es)
<1>1. Len(es) \in Nat /\ DOMAIN es = 1..Len(es) /\ Measured(es)
  BY EntriesMeasured DEF Entries, IsList
<1>2. PICK size, stamp : Solution(es, size, stamp) /\ c = Revalued(es, size, stamp)
  BY <1>1, CanonicalIs
<1>3. c = [i \in 1..Len(es) |-> c[i]]
  BY <1>2 DEF Revalued
<1>4. ASSUME NEW i \in 1..Len(es)
      PROVE  IsEntry(c[i])
  <2> DEFINE e == es[i]
             d == [name |-> e.name, depth |-> e.depth, mode |-> e.mode, id |-> e.id,
                   link |-> e.link, size |-> size[i], timestamp |-> stamp[i]]
  <2>1. c[i] = d
    BY <1>2 DEF Revalued
  <2>2. size[i] \in Nat \cup {NullSize} /\ stamp[i] \in Nat /\ IsEntry(e)
    BY <1>2 DEF Solution, Sizes, Entries
  <2> HIDE DEF e
  <2>3. IsEntry(d)
    BY <2>2 DEF IsEntry
  <2> QED
    BY <2>1, <2>3
<1> HIDE DEF c
<1>5. Entries(c)
  BY <1>1, <1>3, <1>4, EntriesOver
<1> QED
  BY <1>5 DEF c

LEMMA SortTyped ==
  ASSUME NEW es, Entries(es)
  PROVE  Entries(SortEntries(es))
BY SortIsList DEF Entries

LEMMA AddTyped ==
  ASSUME EntriesTyped, NEW e \in NewEntries
  PROVE  Entries(Append(entries, e))
<1> DEFINE n == Len(entries)
           s == Append(entries, e)
<1>1. n \in Nat /\ entries \in Seq(Range(entries))
  BY DEF EntriesTyped, Entries, IsList
<1>2. n + 1 \in Nat /\ s = [k \in 1..(n + 1) |-> s[k]] /\ s[n + 1] = e
      /\ \A k \in 1..n : s[k] = entries[k]
  <2> DEFINE V == Range(entries) \cup {e}
  <2>1. entries \in Seq(V) /\ e \in V
    BY <1>1, WiderSeq
  <2> HIDE DEF V
  <2>2. s \in Seq(V) /\ Len(s) = n + 1 /\ s[n + 1] = e /\ \A k \in 1..n : s[k] = entries[k]
    BY <2>1, AppendProperties
  <2> HIDE DEF s, n
  <2>3. s = [k \in 1..(n + 1) |-> s[k]]
    BY <2>2
  <2> QED
    BY <1>1, <2>2, <2>3
<1>3. IsEntry(e)
  BY ManifestAssumption
<1>4. \A k \in 1..(n + 1) : k = n + 1 \/ k \in 1..n
  BY <1>1
<1> HIDE DEF s
<1>5. \A k \in 1..(n + 1) : IsEntry(s[k])
  BY <1>2, <1>3, <1>4 DEF EntriesTyped, Entries
<1>6. Entries(s)
  BY <1>2, <1>5, EntriesOver
<1> QED
  BY <1>6 DEF s

\* No sequence of calls makes the entries anything else.
LEMMA EntriesStayTyped ==
  ASSUME EntriesTyped, IndexCoherent, [Next]_vars
  PROVE  EntriesTyped'
<1>1. CASE Lookup
  BY <1>1 DEF Lookup, EntriesTyped
<1>2. CASE InvalidateIndex
  BY <1>2 DEF InvalidateIndex, EntriesTyped
<1>3. CASE \E e \in NewEntries : AddEntry(e)
  <2>1. PICK e \in NewEntries : entries' = Append(entries, e)
    BY <1>3 DEF AddEntry
  <2> QED
    BY <2>1, AddTyped DEF EntriesTyped
<1>4. CASE \E i \in 1..Len(entries) : RemoveEntry(i)
  <2>1. PICK i \in 1..Len(entries) : entries' = Without(entries, {i} \cup Under(i))
    BY <1>4 DEF RemoveEntry
  <2> DEFINE S == DOMAIN entries \ ({i} \cup Under(i))
  <2>2. entries' = Kept(entries, S)
    BY <2>1 DEF Without
  <2>3. S \in SUBSET (1..Len(entries))
    BY DEF EntriesTyped, Entries, IsList
  <2> HIDE DEF S
  <2>4. IsList(entries') /\ \A k \in 1..Len(entries') : \E j \in S : entries'[k] = entries[j]
    BY <2>2, <2>3, KeptIsList DEF EntriesTyped, Entries
  <2> QED
    BY <2>3, <2>4 DEF EntriesTyped, Entries
<1>5. CASE \E i \in 1..Len(entries) :
             \E p \in 0..Len(entries), name \in NamesFor(i) : MoveEntry(i, p, name)
  <2>1. PICK i \in 1..Len(entries) :
          \E p \in 0..Len(entries), name \in NamesFor(i) : MoveEntry(i, p, name)
    BY <1>5
  <2>2. PICK p \in 0..Len(entries), name \in NamesFor(i) :
          entries' = SortEntries(Relabelled(i, TargetDepth(p), name))
    BY <2>1 DEF MoveEntry
  <2>3. TargetDepth(p) \in Nat /\ name \in Names
    <3>1. p # 0 => p \in 1..Len(entries)
      BY DEF EntriesTyped, Entries, IsList
    <3>2. p # 0 => entries[p].depth \in Nat
      BY <3>1 DEF EntriesTyped, Entries, IsList
    <3> QED
      BY <3>2 DEF TargetDepth, NamesFor
  <2> QED
    BY <2>2, <2>3, RelabelledTyped, SortTyped DEF EntriesTyped
<1>6. CASE SortManifest
  BY <1>6, SortTyped DEF SortManifest, EntriesTyped
<1>7. CASE CanonicalizeManifest
  BY <1>7, CanonicalizeTyped DEF CanonicalizeManifest, EntriesTyped
<1>8. CASE UNCHANGED vars
  BY <1>8 DEF vars, EntriesTyped
<1> QED
  BY <1>1, <1>2, <1>3, <1>4, <1>5, <1>6, <1>7, <1>8 DEF Next

THEOREM EntriesAlwaysTyped == Spec => []EntriesTyped
<1>1. Init => EntriesTyped
  BY DEF Init, EntriesTyped, Entries, IsList
<1>2. EntriesTyped /\ IndexCoherent /\ [Next]_vars => EntriesTyped'
  BY EntriesStayTyped
<1> QED
  BY <1>1, <1>2, IndexAlwaysCoherent, PTL DEF Spec

\* In every manifest a caller can make, nested or not before, the three walks
\* that compute full paths agree as soon as it is nested: lookups (the tree
\* index), Merge (EntryPaths) and Validate name one path for each entry.
THEOREM WalksAlwaysAgree == Spec => []WalksAgree
<1>1. EntriesTyped => WalksAgree
  <2> SUFFICES ASSUME EntriesTyped, Nested(entries)
               PROVE  /\ BuildIndex(entries).pathOf = EntryPaths(entries)
                      /\ BuildIndex(entries).pathOf = ValidatePaths(entries)
    BY DEF WalksAgree
  <2>1. IsList(entries)
    BY DEF EntriesTyped, Entries
  <2>2. BuildIndex(entries).pathOf = EntryPaths(entries)
    BY <2>1, IndexPaths
  <2>3. EntryPaths(entries) = ValidatePaths(entries)
    BY <2>1, EntryPathsArePaths, ValidatePathsArePaths, PathsUnique
  <2> QED
    BY <2>2, <2>3
<1> QED
  BY <1>1, EntriesAlwaysTyped, PTL

\* However a clean manifest came about, SortEntries leaves it clean, a second
\* call changes nothing, and siblings stand files first in natural order.
THEOREM SortAlwaysSettles == Spec => []SortSettles
<1>1. EntriesTyped => SortSettles
  <2> DEFINE s == SortEntries(entries)
             parent == BuildIndex(s).parent
  <2> SUFFICES ASSUME EntriesTyped, Clean(entries)
               PROVE  /\ Clean(s)
                      /\ SortEntries(s) = s
                      /\ \A i, j \in 1..Len(s) :
                           i < j /\ parent[i] = parent[j] => SiblingLess(s[i], s[j])
    BY DEF SortSettles
  <2>1. IsList(entries) /\ IsList(s)
    BY SortIsList DEF EntriesTyped, Entries
  <2>2. SortEntries(s) = s
    BY <2>1, SortTwice
  <2>3. CASE entries = <<>>
    <3>1. s = entries
      BY <2>3 DEF SortEntries
    <3> QED
      BY <2>2, <2>3, <3>1
  <2>4. CASE entries # <<>>
    <3>1. /\ Clean(s)
          /\ \A p \in 0..Len(s) : \A k, m \in Kids(s, p) : k < m => SiblingLess(s[k], s[m])
      BY <2>1, <2>4, SortIsSorted
    <3> HIDE DEF s
    <3>2. Nested(s)
      BY <3>1 DEF Clean
    <3>3. ASSUME NEW i \in 1..Len(s)
          PROVE  parent[i] \in 0..Len(s) /\ i \in Kids(s, parent[i])
      <4>1. parent[i] = ParentIn(Shape(s), i)
        <5>1. DOMAIN s = 1..Len(s) /\ Len(s) \in Nat
          BY <2>1 DEF IsList
        <5>2. Len(Shape(s)) = Len(s)
          BY <5>1 DEF Shape
        <5> QED
          BY <5>2 DEF BuildIndex, IndexOf
      <4>2. PICK p \in 0..Len(s) : i \in Kids(s, p)
        BY <2>1, <3>2, KidOfOne
      <4>3. (p = 0 => s[i].depth = 0) /\ (p # 0 => IsParent(s, p, i))
        BY <2>1, <3>2, <4>2, KidOfParent
      <4>4. ParentIn(Shape(s), i) = p
        BY <2>1, <4>3, ParentFound
      <4> QED
        BY <4>1, <4>2, <4>4
    <3> HIDE DEF parent
    <3> QED
      BY <2>2, <3>1, <3>3
  <2> QED
    BY <2>3, <2>4
<1> QED
  BY <1>1, EntriesAlwaysTyped, PTL

\* SortEntries moves lines, never entries between directories: whatever a clean
\* manifest holds at a full path, the sorted one holds there.
THEOREM SortAlwaysKeepsTree == Spec => SortKeepsTree
<1>1. ASSUME EntriesTyped, SortManifest, Clean(entries)
      PROVE  TreeOf(entries') = TreeOf(entries)
  <2>1. IsList(entries) /\ entries' = SortEntries(entries)
    BY <1>1 DEF EntriesTyped, Entries, SortManifest
  <2> DEFINE es == entries
             s == entries'
  <2>2. /\ \A k \in 1..Len(s) : \E i \in 1..Len(es) :
             s[k] = es[i] /\ EntryPaths(s)[k] = EntryPaths(es)[i]
        /\ \A i \in 1..Len(es) : \E k \in 1..Len(s) :
             s[k] = es[i] /\ EntryPaths(s)[k] = EntryPaths(es)[i]
    BY <1>1, <2>1, SortKeepsPaths
  <2>3. TreeOf(s) = {<<EntryPaths(s)[k], Unplaced(s[k])>> : k \in 1..Len(s)}
    BY DEF TreeOf, Unplaced
  <2>4. TreeOf(es) = {<<EntryPaths(es)[i], Unplaced(es[i])>> : i \in 1..Len(es)}
    BY DEF TreeOf, Unplaced
  <2> HIDE DEF es, s
  <2>5. TreeOf(s) \subseteq TreeOf(es)
    <3>1. \A k \in 1..Len(s) : <<EntryPaths(s)[k], Unplaced(s[k])>> \in TreeOf(es)
      BY <2>2, <2>4
    <3> QED
      BY <2>3, <3>1
  <2>6. TreeOf(es) \subseteq TreeOf(s)
    <3>1. \A i \in 1..Len(es) : <<EntryPaths(es)[i], Unplaced(es[i])>> \in TreeOf(s)
      BY <2>2, <2>3
    <3> QED
      BY <2>4, <3>1
  <2> QED
    BY <2>5, <2>6 DEF es, s
<1>2. EntriesTyped /\ [Next]_vars => [SortManifest /\ Clean(entries) => TreeOf(entries') = TreeOf(entries)]_vars
  BY <1>1
<1> QED
  BY <1>2, EntriesAlwaysTyped, PTL DEF Spec, SortKeepsTree

\* Neither SortEntries nor Canonicalize changes the C4 ID of a clean manifest,
\* whatever calls made it: the ID names the tree and not the file.
THEOREM IDsAlwaysStable == Spec => IdStable
<1>1. ASSUME EntriesTyped, SortManifest \/ CanonicalizeManifest, Clean(entries)
      PROVE  ComputeC4ID(entries') = ComputeC4ID(entries)
  <2>1. Measured(entries)
    BY <1>1, EntriesMeasured DEF EntriesTyped
  <2>2. CASE SortManifest
    <3>1. entries' = SortEntries(entries)
      BY <2>2 DEF SortManifest
    <3> QED
      BY <1>1, <2>1, <3>1, IDOfSorted
  <2>3. CASE CanonicalizeManifest
    <3>1. entries' = Canonicalize(entries)
      BY <2>3 DEF CanonicalizeManifest
    <3> QED
      BY <2>1, <3>1, CanonicalTwice DEF ComputeC4ID
  <2> QED
    BY <1>1, <2>2, <2>3
<1>2. EntriesTyped /\ [Next]_vars =>
        [(SortManifest \/ CanonicalizeManifest) /\ Clean(entries)
           => ComputeC4ID(entries') = ComputeC4ID(entries)]_vars
  BY <1>1
<1> QED
  BY <1>2, EntriesAlwaysTyped, PTL DEF Spec, IdStable

-----------------------------------------------------------------------------
(* How far a null size spreads.                                              *)

\* A file below i has no known size, and neither has any directory between.
Unsized(es, i) ==
  \E j \in Below(es, i) :
    /\ ~IsDir(es[j])
    /\ es[j].size = NullSize
    /\ \A k \in Below(es, i) : j \in Below(es, k) => es[k].size = NullSize

\* Nothing comes of an entry but from the entries one level below it.
LEMMA UnsizedKid ==
  ASSUME NEW es, IsList(es), Nested(es), NEW i \in 1..Len(es)
  PROVE  Unsized(es, i) <=>
           \E c \in Kids(es, i) : /\ es[c].size = NullSize
                                  /\ ~IsDir(es[c]) \/ Unsized(es, c)
<1>1. /\ Len(es) \in Nat /\ i \in 0..Len(es) /\ i # 0
      /\ \A x \in 1..Len(es) : es[x].depth \in Nat
  BY DEF IsList
<1>2. DepthIn(es, i) = es[i].depth + 1
  BY <1>1 DEF DepthIn
<1>3. \A x \in 1..Len(es) : \A y \in Below(es, x) :
        y \in 1..Len(es) /\ x < y /\ es[y].depth >= es[x].depth + 1
  BY <1>1, BelowFacts DEF DepthIn
<1>4. \A c \in Kids(es, i) : /\ c \in Below(es, i) /\ c \in 1..Len(es)
                             /\ es[c].depth = es[i].depth + 1
                             /\ Below(es, c) \subseteq Below(es, i)
  BY <1>1, <1>2, <1>3, BelowNested DEF Kids
<1>5. ASSUME Unsized(es, i)
      PROVE  \E c \in Kids(es, i) : /\ es[c].size = NullSize
                                    /\ ~IsDir(es[c]) \/ Unsized(es, c)
  <2>1. PICK j \in Below(es, i) :
          /\ ~IsDir(es[j]) /\ es[j].size = NullSize
          /\ \A k \in Below(es, i) : j \in Below(es, k) => es[k].size = NullSize
    BY <1>5 DEF Unsized
  <2>2. PICK c \in Kids(es, i) : j \in Span(es, c)
    BY <1>1, KidOver
  <2>3. CASE j = c
    BY <2>1, <2>2, <2>3
  <2>4. CASE j # c
    <3>1. j \in Below(es, c)
      BY <2>2, <2>4 DEF Span
    <3>2. es[c].size = NullSize
      BY <1>4, <2>1, <2>2, <3>1
    <3>3. Unsized(es, c)
      BY <1>4, <2>1, <2>2, <3>1 DEF Unsized
    <3> QED
      BY <2>2, <3>2, <3>3
  <2> QED
    BY <2>3, <2>4
<1>6. ASSUME NEW c \in Kids(es, i), es[c].size = NullSize, ~IsDir(es[c])
      PROVE  Unsized(es, i)
  <2>1. \A k \in Below(es, i) : c \notin Below(es, k)
    <3> SUFFICES ASSUME NEW k \in Below(es, i), c \in Below(es, k) PROVE FALSE
      OBVIOUS
    <3>1. k \in 1..Len(es) /\ es[k].depth >= es[i].depth + 1
      BY <1>3
    <3>2. es[c].depth >= es[k].depth + 1
      BY <1>3, <3>1
    <3>3. es[c].depth = es[i].depth + 1 /\ c \in 1..Len(es)
      BY <1>4
    <3>4. es[c].depth \in Nat /\ es[k].depth \in Nat /\ es[i].depth \in Nat
      BY <1>1, <3>1, <3>3
    <3> QED
      BY <3>1, <3>2, <3>3, <3>4
  <2> QED
    BY <1>4, <1>6, <2>1 DEF Unsized
<1>7. ASSUME NEW c \in Kids(es, i), es[c].size = NullSize, Unsized(es, c)
      PROVE  Unsized(es, i)
  <2>1. PICK j \in Below(es, c) :
          /\ ~IsDir(es[j]) /\ es[j].size = NullSize
          /\ \A k \in Below(es, c) : j \in Below(es, k) => es[k].size = NullSize
    BY <1>7 DEF Unsized
  <2>2. ASSUME NEW k \in Below(es, i), j \in Below(es, k)
        PROVE  es[k].size = NullSize
    <3>1. PICK d \in Kids(es, i) : k \in Span(es, d)
      BY <1>1, KidOver
    <3>2. d \in 1..Len(es) /\ k \in 1..Len(es) /\ d \in 0..Len(es)
      BY <1>1, <1>3, <1>4
    <3>3. j \in Span(es, d)
      <4>1. k = d \/ k \in Below(es, d)
        BY <3>1 DEF Span
      <4>2. k \in Below(es, d) => Below(es, k) \subseteq Below(es, d)
        BY <3>2, BelowNested
      <4> QED
        BY <2>2, <4>1, <4>2 DEF Span
    <3>4. j \in Span(es, c)
      BY DEF Span
    <3>5. d = c
      BY <1>1, <3>3, <3>4, KidsApart
    <3>6. k = c \/ k \in Below(es, c)
      BY <3>1, <3>5 DEF Span
    <3> QED
      BY <1>7, <2>1, <2>2, <3>6
  <2>3. j \in Below(es, i)
    BY <1>4
  <2> QED
    BY <2>1, <2>2, <2>3 DEF Unsized
<1> QED
  BY <1>5, <1>6, <1>7

LEMMA NullsSpread ==
  ASSUME NEW es, Measured(es), Nested(es), NEW size, NEW stamp, Solution(es, size, stamp)
  PROVE  \A i \in 1..Len(es) :
           IsDir(es[i]) /\ es[i].size = NullSize => (size[i] = NullSize <=> Unsized(es, i))
<1> DEFINE n == Len(es)
           Right(i) == IsDir(es[i]) /\ es[i].size = NullSize
                         => (size[i] = NullSize <=> Unsized(es, i))
           S == {k \in Nat : \A i \in 1..n : i > n - k => Right(i)}
<1>1. n \in Nat /\ IsList(es)
  BY DEF Measured, IsList
<1>2. \A i \in 1..n : size[i] = SizeAt(es, size, i) /\ size[i] \in Sizes
  BY DEF Solution
<1>3. 0 \in S
  <2>1. \A i \in 1..n : ~(i > n - 0)
    BY <1>1
  <2> QED
    BY <2>1
<1>4. ASSUME NEW m \in Nat, m \in S
      PROVE  m + 1 \in S
  <2> SUFFICES ASSUME NEW i \in 1..n, i > n - (m + 1), IsDir(es[i]), es[i].size = NullSize
               PROVE  size[i] = NullSize <=> Unsized(es, i)
    OBVIOUS
  <2> DEFINE A == Kids(es, i)
  <2>1. Propagates(es, i)
    BY DEF Propagates, HasNullValues
  <2>2. /\ KidsOf(es, i) = A /\ IsFiniteSet(A)
        /\ \A c \in A : c \in 1..n /\ c > i /\ c > n - m
    BY <1>1, KidsAre, KidsAreLater
  <2>3. (\E c \in A : size[c] = NullSize) => size[i] = NullSize
    BY <1>2, <2>1, <2>2 DEF SizeAt
  <2>4. ASSUME ~\E c \in A : size[c] = NullSize
        PROVE  size[i] # NullSize
    <3>1. size[i] = SumOver(A, LAMBDA k : size[k] + LineLen)
      BY <1>2, <2>1, <2>2, <2>4 DEF SizeAt
    <3>2. \A c \in A : size[c] \in Nat
      BY <1>2, <2>2, <2>4 DEF Sizes
    <3> DEFINE v == [k \in A |-> size[k] + LineLen]
    <3>3. \A k \in A : v[k] \in Nat
      BY <3>2, LineLenAssumption
    <3> HIDE DEF A
    <3>4. SumOver(A, LAMBDA k : size[k] + LineLen) = Total(A, v)
      BY <2>2, <3>2, SumIs
    <3> HIDE DEF v
    <3>5. Total(A, v) \in Nat
      BY <2>2, <3>3, UnitsFinite
    <3>6. size[i] = Total(A, v)
      BY <3>1, <3>4
    <3> QED
      BY <3>5, <3>6 DEF NullSize
  <2>5. \A c \in A : size[c] = NullSize <=> es[c].size = NullSize /\ (~IsDir(es[c]) \/ Unsized(es, c))
    <3> SUFFICES ASSUME NEW c \in A
                 PROVE  size[c] = NullSize
                          <=> es[c].size = NullSize /\ (~IsDir(es[c]) \/ Unsized(es, c))
      OBVIOUS
    <3>1. c \in 1..n /\ c > n - m
      BY <2>2
    <3>2. Right(c)
      BY <1>4, <3>1
    <3>3. CASE ~IsDir(es[c]) \/ es[c].size # NullSize
      <4>1. ~Propagates(es, c) \/ es[c].size # NullSize
        BY <3>3 DEF Propagates
      <4>2. size[c] = es[c].size
        BY <1>2, <3>1, <4>1 DEF SizeAt
      <4> QED
        BY <3>3, <4>2
    <3>4. CASE IsDir(es[c]) /\ es[c].size = NullSize
      BY <3>2, <3>4
    <3> QED
      BY <3>3, <3>4
  <2>6. Unsized(es, i) <=>
          \E c \in A : es[c].size = NullSize /\ (~IsDir(es[c]) \/ Unsized(es, c))
    BY <1>1, UnsizedKid
  <2> HIDE DEF A
  <2> QED
    BY <2>3, <2>4, <2>5, <2>6
<1>5. n \in S
  <2> HIDE DEF S
  <2> QED
    BY <1>1, <1>3, <1>4, Walk!NatInSet
<1>6. \A i \in 1..n : Right(i)
  <2> HIDE DEF Right
  <2>1. \A i \in 1..n : i > n - n
    BY <1>1
  <2> QED
    BY <1>5, <2>1
<1> QED
  BY <1>6

\* Whatever calls made it, in a nested manifest Canonicalize leaves the size of a
\* directory unknown exactly when a file below it has none and no directory of
\* known size stands between.
THEOREM NullsAlwaysInfect == Spec => []NullsInfect
<1>1. EntriesTyped => NullsInfect
  <2> DEFINE es == entries
             D(i) == Descendants(BuildIndex(es), i)
  <2> SUFFICES ASSUME EntriesTyped, Nested(es), NEW i \in 1..Len(es),
                      IsDir(es[i]), es[i].size = NullSize
               PROVE  Canonicalize(es)[i].size = NullSize
                        <=> \E j \in D(i) : /\ ~IsDir(es[j])
                                            /\ es[j].size = NullSize
                                            /\ \A k \in D(i) : j \in D(k) => es[k].size = NullSize
    BY DEF NullsInfect
  <2>1. Measured(es) /\ IsList(es)
    BY EntriesMeasured DEF EntriesTyped, Entries
  <2>2. PICK size, stamp : Solution(es, size, stamp) /\ Canonicalize(es) = Revalued(es, size, stamp)
    BY <2>1, CanonicalIs
  <2>3. Canonicalize(es)[i].size = size[i]
    BY <2>2 DEF Revalued
  <2>4. size[i] = NullSize <=> Unsized(es, i)
    BY <2>1, <2>2, NullsSpread
  <2>5. \A k \in 1..Len(es) : D(k) = Below(es, k)
    BY <2>1, DescendantsAreBelow
  <2>6. \A k \in Below(es, i) : k \in 1..Len(es)
    <3>1. i \in 0..Len(es)
      OBVIOUS
    <3> QED
      BY <2>1, <3>1, BelowFacts
  <2> HIDE DEF es, D
  <2> QED
    BY <2>3, <2>4, <2>5, <2>6 DEF Unsized
<1> QED
  BY <1>1, EntriesAlwaysTyped, PTL

-----------------------------------------------------------------------------
(* Removing and renaming.                                                    *)

\* With its parent an entry is in a block, unless it is the block's first.
LEMMA BlockGrows ==
  ASSUME NEW es, IsList(es), NEW c \in 1..Len(es), NEW i \in 1..Len(es), NEW m,
         IsParent(es, m, i)
  PROVE  /\ m \in Span(es, c) => i \in Span(es, c)
         /\ i \in Span(es, c) /\ i # c => m \in Span(es, c)
<1>1. /\ Len(es) \in Nat /\ c # 0 /\ \A x \in 1..Len(es) : es[x].depth \in Nat
  BY DEF IsList
<1>2. /\ m \in 1..(i - 1) /\ es[m].depth = es[i].depth - 1
      /\ \A x \in (m + 1)..(i - 1) : es[x].depth >= es[i].depth
  BY DEF IsParent
<1>3. Below(es, c) = {j \in (c + 1)..Len(es) :
                        \A k \in (c + 1)..j : es[k].depth >= es[c].depth + 1}
  BY <1>1 DEF Below, DepthIn
<1>4. m \in 1..Len(es) /\ es[m].depth \in Nat /\ es[i].depth \in Nat /\ es[c].depth \in Nat
  BY <1>1, <1>2
<1>5. ASSUME m \in Span(es, c)
      PROVE  i \in Below(es, c)
  <2>1. m >= c /\ es[m].depth >= es[c].depth
        /\ \A k \in (c + 1)..m : es[k].depth >= es[c].depth + 1
    BY <1>1, <1>3, <1>4, <1>5 DEF Span
  <2>2. ASSUME NEW k \in (c + 1)..i
        PROVE  es[k].depth >= es[c].depth + 1
    <3>1. k \in (c + 1)..m \/ k \in (m + 1)..(i - 1) \/ k = i
      BY <1>1, <1>2, <2>2
    <3>2. k \in 1..Len(es) /\ es[k].depth \in Nat
      BY <1>1, <2>2
    <3> QED
      BY <1>2, <1>4, <2>1, <3>1, <3>2, SMTT(30)
  <2>3. i \in (c + 1)..Len(es)
    BY <1>1, <1>2, <2>1
  <2> QED
    BY <1>3, <2>2, <2>3
<1>6. ASSUME i \in Span(es, c), i # c
      PROVE  m \in Span(es, c)
  <2>1. i \in (c + 1)..Len(es) /\ \A k \in (c + 1)..i : es[k].depth >= es[c].depth + 1
    BY <1>3, <1>6 DEF Span
  <2>2. m >= c
    <3>1. SUFFICES ASSUME m < c PROVE FALSE
      BY <1>1, <1>4
    <3>2. c \in (m + 1)..(i - 1)
      BY <1>1, <1>4, <2>1, <3>1
    <3>3. es[c].depth >= es[i].depth /\ es[i].depth >= es[c].depth + 1
      BY <1>1, <1>2, <2>1, <3>2
    <3> QED
      BY <1>4, <3>3
  <2>3. m # c => m \in (c + 1)..Len(es) /\ \A k \in (c + 1)..m : k \in (c + 1)..i
    BY <1>1, <1>2, <1>4, <2>1, <2>2
  <2> QED
    BY <1>3, <2>1, <2>3 DEF Span
<1> QED
  BY <1>5, <1>6 DEF Span

\* A list from which blocks were taken is clean and keeps its paths.
LEMMA PrunedIsClean ==
  ASSUME NEW es, IsList(es), Clean(es), NEW S \in SUBSET (1..Len(es)),
         \A i \in S : \A j : IsParent(es, j, i) => j \in S
  PROVE  LET s == Kept(es, S)
         IN /\ Clean(s)
            /\ \E o : /\ Enumerating(o, S)
                     /\ Len(s) = Len(o)
                     /\ \A k \in 1..Len(o) :
                          s[k] = es[o[k]] /\ EntryPaths(s)[k] = EntryPaths(es)[o[k]]
<1> DEFINE o == InOrder(S, <)
           s == Kept(es, S)
           n == Len(es)
           P == EntryPaths(es)
           Q == [k \in 1..Len(o) |-> P[o[k]]]
<1>1. n \in Nat
  BY DEF IsList
<1>2. Enumerating(o, S) /\ \A k, m \in 1..Len(o) : k < m <=> o[k] < o[m]
  BY <1>1, NumbersInOrder
<1>3. s = Pick(es, o)
  BY DEF Kept
<1> HIDE DEF o, s
<1>4. o \in Seq(S)
  BY <1>2 DEF Enumerating
<1>5. o \in Seq(1..n) /\ Len(o) \in Nat /\ \A k \in 1..Len(o) : o[k] \in S
  <2>1. S \subseteq 1..n
    OBVIOUS
  <2>2. o \in Seq(1..n) /\ \A k \in 1..Len(o) : o[k] \in S
    BY <1>4, <2>1, WiderSeq
  <2> QED
    BY <1>4, <2>2
<1>6. IsList(s) /\ Len(s) = Len(o) /\ \A k \in 1..Len(o) : s[k] = es[o[k]]
  BY <1>3, <1>5, PickIsList
<1>7. Nested(es) /\ PathsOf(es, P) /\ \A i, j \in 1..n : P[i] = P[j] => i = j
  BY CleanIsDistinct, EntryPathsArePaths
<1>8. /\ \A i \in 1..n : P[i] \in Seq(Names)
      /\ \A i \in 1..n : HasPath(es, P, i)
  BY <1>7 DEF PathsOf
<1> HIDE DEF P
<1>9. Q \in Seq(Seq(Names)) /\ Len(Q) = Len(o) /\ \A k \in 1..Len(o) : Q[k] = P[o[k]]
  BY <1>5, <1>8
<1> HIDE DEF Q
<1>10. ASSUME NEW k \in 1..Len(o)
       PROVE  HasPath(s, Q, k) /\ (s[k].depth = 0 \/ \E m : IsParent(s, m, k))
  <2>1. o[k] \in S /\ o[k] \in 1..n /\ s[k] = es[o[k]] /\ Q[k] = P[o[k]]
    BY <1>5, <1>6, <1>9
  <2>2. CASE es[o[k]].depth = 0 /\ P[o[k]] = <<es[o[k]].name>>
    BY <2>1, <2>2 DEF HasPath
  <2>3. ASSUME NEW j \in 1..(o[k] - 1), IsParent(es, j, o[k]),
               P[o[k]] = Append(P[j], es[o[k]].name)
        PROVE  \E m \in 1..(k - 1) : IsParent(s, m, k) /\ Q[k] = Append(Q[m], s[k].name)
    <3>1. j \in S
      BY <2>1, <2>3
    <3>2. PICK m \in 1..Len(o) : o[m] = j
      BY <1>2, <3>1 DEF Enumerating
    <3>3. m < k /\ m \in 1..(k - 1)
      BY <1>2, <1>5, <2>1, <2>3, <3>2
    <3>4. s[m] = es[j] /\ Q[m] = P[j]
      BY <1>6, <1>9, <3>2
    <3>5. ASSUME NEW r \in (m + 1)..(k - 1)
          PROVE  s[r].depth >= s[k].depth
      <4>1. r \in 1..Len(o) /\ m < r /\ r < k
        BY <1>5, <3>2, <3>5
      <4>2. o[r] \in S /\ o[r] \in Nat /\ j < o[r] /\ o[r] < o[k]
        BY <1>2, <1>5, <3>2, <4>1
      <4>3. o[r] \in (j + 1)..(o[k] - 1)
        BY <1>2, <2>1, <2>3, <4>2
      <4>4. es[o[r]].depth >= es[o[k]].depth
        BY <2>3, <4>3 DEF IsParent
      <4> QED
        BY <1>6, <2>1, <4>1, <4>4
    <3>6. IsDir(es[j]) /\ es[j].depth = es[o[k]].depth - 1
      BY <2>3 DEF IsParent
    <3>7. IsParent(s, m, k)
      BY <2>1, <3>3, <3>4, <3>5, <3>6 DEF IsParent
    <3>8. Q[k] = Append(Q[m], s[k].name)
      BY <2>1, <2>3, <3>4
    <3> QED
      BY <3>3, <3>7, <3>8
  <2>4. HasPath(es, P, o[k])
    BY <1>8, <2>1
  <2>5. CASE \E j \in 1..(o[k] - 1) : IsParent(es, j, o[k]) /\ P[o[k]] = Append(P[j], es[o[k]].name)
    BY <2>3, <2>5 DEF HasPath
  <2> QED
    BY <2>2, <2>4, <2>5 DEF HasPath
<1>11. Nested(s)
  BY <1>6, <1>10, ParentsNest
<1>12. PathsOf(s, Q)
  BY <1>6, <1>9, <1>10 DEF PathsOf
<1>13. EntryPaths(s) = Q /\ ValidatePaths(s) = Q
  BY <1>6, <1>11, <1>12, EntryPathsArePaths, ValidatePathsArePaths, PathsUnique
<1>14. IsInjective(Q)
  <2>1. DOMAIN Q = 1..Len(o)
    BY <1>9
  <2>2. \A k, m \in 1..Len(o) : o[k] = o[m] => k = m
    BY <1>2 DEF Enumerating
  <2>3. ASSUME NEW k \in 1..Len(o), NEW m \in 1..Len(o), Q[k] = Q[m]
        PROVE  k = m
    <3>1. o[k] \in 1..n /\ o[m] \in 1..n
      BY <1>5
    <3>2. P[o[k]] = P[o[m]]
      BY <1>9, <2>3
    <3> QED
      BY <1>7, <2>2, <3>1, <3>2
  <2> QED
    BY <2>1, <2>3 DEF IsInjective
<1>15. Clean(s)
  BY <1>11, <1>13, <1>14 DEF Clean, Validate
<1>16. \A k \in 1..Len(o) : EntryPaths(s)[k] = P[o[k]]
  BY <1>9, <1>13
<1> QED
  BY <1>2, <1>6, <1>15, <1>16 DEF s, P

\* One path begins with another when the other stands on its way from the root.
LEMMA PrefixIsAbove ==
  ASSUME NEW p \in Seq(Names), NEW q \in Seq(Names), Len(p) # 0
  PROVE  IsPrefix(p, q) <=> p \in Above(q)
<1>1. Len(p) \in Nat /\ Len(q) \in Nat /\ SubSeq(p, 1, Len(p)) = p
  BY SubSeqFull
<1>2. ASSUME p \in Above(q)
      PROVE  Len(p) <= Len(q) /\ p = SubSeq(q, 1, Len(p))
  <2>1. PICK k \in 1..Len(q) : p = SubSeq(q, 1, k)
    BY <1>2 DEF Above
  <2>2. Len(p) = k
    BY <1>1, <2>1
  <2> QED
    BY <1>1, <2>1, <2>2
<1>3. Len(p) <= Len(q) => Len(p) \in 1..Len(q)
  BY <1>1
<1> QED
  BY <1>1, <1>2, <1>3 DEF IsPrefix, Above

\* Paths are not empty.
LEMMA PathHasName ==
  ASSUME NEW es, IsList(es), NEW P, PathsOf(es, P), NEW i \in 1..Len(es)
  PROVE  P[i] \in Seq(Names) /\ Len(P[i]) \in Nat \ {0}
<1>1. P[i] \in Seq(Names) /\ HasPath(es, P, i) /\ es[i].name \in Names /\ Len(es) \in Nat
  BY DEF PathsOf, IsList
<1>2. ASSUME NEW j \in 1..(i - 1), P[i] = Append(P[j], es[i].name)
      PROVE  Len(P[i]) # 0
  <2>1. P[j] \in Seq(Names)
    BY <1>1 DEF PathsOf
  <2> QED
    BY <1>1, <1>2, <2>1
<1>3. P[i] = <<es[i].name>> => Len(P[i]) # 0
  BY <1>1
<1> QED
  BY <1>1, <1>2, <1>3 DEF HasPath

\* What a mutator finds under an entry are the rows of its block.
LEMMA UnderIsBelow ==
  ASSUME EntriesTyped, IndexCoherent, Nested(entries), NEW i \in 1..Len(entries)
  PROVE  {i} \cup Under(i) = Span(entries, i) /\ Under(i) = Below(entries, i)
<1>1. IsList(entries)
  BY DEF EntriesTyped, Entries
<1>2. Index = BuildIndex(entries)
  BY DEF Index, IndexCoherent
<1>3. Descendants(Index, i) = Below(entries, i)
  BY <1>1, <1>2, DescendantsAreBelow
<1>4. ~IsDir(entries[i]) => Below(entries, i) = {}
  BY <1>1, NothingBelowFile
<1> QED
  BY <1>3, <1>4 DEF Under, Span

\* RemoveEntry takes a subtree and nothing else, whatever the manifest: the
\* descendants it asks the index for are the rows that follow the entry and
\* are deeper, which a list without them shows to be no entry's parents.
THEOREM RemovesTakeSubtrees == Spec => RemoveTakesSubtree
<1>1. ASSUME EntriesTyped, IndexCoherent, Clean(entries), NEW i \in 1..Len(entries), RemoveEntry(i)
      PROVE  TreeOf(entries') =
               {x \in TreeOf(entries) : ~IsPrefix(EntryPaths(entries)[i], x[1])}
  <2> DEFINE es == entries
             s == entries'
             n == Len(es)
             P == EntryPaths(es)
             S == (1..n) \ Span(es, i)
             Row(e) == [f \in DOMAIN e \ {"depth"} |-> e[f]]
  <2>1. IsList(es) /\ Nested(es) /\ PathsOf(es, P) /\ n \in Nat /\ DOMAIN es = 1..n
    BY <1>1, EntryPathsArePaths DEF EntriesTyped, Entries, IsList, Clean
  <2>2. s = Kept(es, S)
    BY <1>1, <2>1, UnderIsBelow DEF RemoveEntry, Without
  <2>3. ASSUME NEW x \in S, NEW j, IsParent(es, j, x)
        PROVE  j \in S
    <3>1. j \in 1..n
      BY <2>1, <2>3 DEF IsParent
    <3> QED
      BY <2>1, <2>3, <3>1, BlockGrows
  <2>4. PICK o : /\ Enumerating(o, S)
                 /\ Len(s) = Len(o)
                 /\ \A k \in 1..Len(o) : s[k] = es[o[k]] /\ EntryPaths(s)[k] = P[o[k]]
    <3>1. S \in SUBSET (1..Len(es)) /\ \A x \in S : \A j : IsParent(es, j, x) => j \in S
      BY <2>3
    <3> HIDE DEF S
    <3>2. \E o : /\ Enumerating(o, S)
                 /\ Len(Kept(es, S)) = Len(o)
                 /\ \A k \in 1..Len(o) : /\ Kept(es, S)[k] = es[o[k]]
                                        /\ EntryPaths(Kept(es, S))[k] = EntryPaths(es)[o[k]]
      BY <1>1, <2>1, <3>1, PrunedIsClean
    <3> QED
      BY <2>2, <3>2
  <2>5. ASSUME NEW j \in 1..n
        PROVE  j \in S <=> ~IsPrefix(P[i], P[j])
    <3>1. P[i] \in Seq(Names) /\ P[j] \in Seq(Names) /\ Len(P[i]) # 0
      BY <2>1, PathHasName
    <3>2. j \in Span(es, i) <=> P[i] \in Above(P[j])
      BY <1>1, <2>1, BlockIsAbove
    <3> QED
      BY <3>1, <3>2, PrefixIsAbove
  <2>6. o \in Seq(S) /\ Len(o) \in Nat /\ (\A k \in 1..Len(o) : o[k] \in S)
        /\ \A j \in S : \E k \in 1..Len(o) : o[k] = j
    BY <2>4 DEF Enumerating
  <2>7. TreeOf(es) = {<<P[j], Row(es[j])>> : j \in 1..n}
    BY DEF TreeOf
  <2>8. TreeOf(s) = {<<EntryPaths(s)[k], Row(s[k])>> : k \in 1..Len(s)}
    BY DEF TreeOf
  <2> HIDE DEF P, S, Row
  <2>9. TreeOf(s) = {<<P[o[k]], Row(es[o[k]])>> : k \in 1..Len(o)}
    BY <2>4, <2>8
  <2>10. TreeOf(s) = {<<P[j], Row(es[j])>> : j \in S}
    BY <2>6, <2>9
  <2>11. S \subseteq 1..n
    BY DEF S
  <2>12. {<<P[j], Row(es[j])>> : j \in S} = {x \in TreeOf(es) : ~IsPrefix(P[i], x[1])}
    BY <2>5, <2>7, <2>11
  <2> QED
    BY <2>10, <2>12 DEF P
<1>2. EntriesTyped /\ IndexCoherent /\ [Next]_vars
        => [Clean(entries) => \A i \in 1..Len(entries) :
              RemoveEntry(i) =>
                LET gone == EntryPaths(entries)[i]
                IN TreeOf(entries') = {x \in TreeOf(entries) : ~IsPrefix(gone, x[1])}]_vars
  BY <1>1
<1> QED
  BY <1>2, EntriesAlwaysTyped, IndexAlwaysCoherent, PTL DEF Spec, RemoveTakesSubtree

\* Sequences with an element exchanged, or with another beginning of the same
\* length.
LEMMA Exchanged ==
  ASSUME NEW V, NEW s \in Seq(V), NEW k, NEW x \in V
  PROVE  /\ [s EXCEPT ![k] = x] \in Seq(V)
         /\ Len([s EXCEPT ![k] = x]) = Len(s)
         /\ \A m \in 1..Len(s) : [s EXCEPT ![k] = x][m] = IF m = k THEN x ELSE s[m]
<1>1. PICK n \in Nat : n = Len(s)
  OBVIOUS
<1>2. s \in [1..n -> V]
  BY <1>1
<1> DEFINE t == [s EXCEPT ![k] = x]
<1>3. t \in [1..n -> V] /\ \A m \in 1..n : t[m] = IF m = k THEN x ELSE s[m]
  BY <1>2
<1> HIDE DEF t
<1>4. t \in Seq(V) /\ Len(t) = n
  BY <1>3
<1> QED
  BY <1>1, <1>3, <1>4 DEF t

LEMMA Spliced ==
  ASSUME NEW V, NEW s \in Seq(V), NEW t \in Seq(V), Len(t) <= Len(s)
  PROVE  LET u == t \o SubSeq(s, Len(t) + 1, Len(s))
         IN /\ u \in Seq(V)
            /\ Len(u) = Len(s)
            /\ \A k \in 1..Len(s) : u[k] = IF k <= Len(t) THEN t[k] ELSE s[k]
<1> DEFINE r == SubSeq(s, Len(t) + 1, Len(s))
           u == t \o r
<1>1. Len(s) \in Nat /\ Len(t) \in Nat
  OBVIOUS
<1>2. /\ r \in Seq(V) /\ Len(r) = Len(s) - Len(t)
      /\ \A k \in 1..(Len(s) - Len(t)) : r[k] = s[Len(t) + 1 + k - 1]
  <2>1. /\ \A i \in (Len(t) + 1)..Len(s) : s[i] \in V
        /\ Len(t) + 1 \in 1..(Len(s) + 1)
        /\ Len(s) \in (Len(t) + 1 - 1)..Len(s)
    BY <1>1
  <2> QED
    BY <1>1, <2>1, SubSeqProperties
<1> HIDE DEF r
<1>3. /\ u \in Seq(V) /\ Len(u) = Len(t) + Len(r)
      /\ \A k \in 1..(Len(t) + Len(r)) : u[k] = IF k <= Len(t) THEN t[k] ELSE r[k - Len(t)]
  BY <1>2, ConcatProperties
<1> HIDE DEF u
<1>4. ASSUME NEW k \in 1..Len(s), k > Len(t)
      PROVE  r[k - Len(t)] = s[k]
  <2>1. k - Len(t) \in 1..(Len(s) - Len(t)) /\ Len(t) + 1 + (k - Len(t)) - 1 = k
    BY <1>1, <1>4
  <2> QED
    BY <1>2, <2>1
<1>5. Len(u) = Len(s)
  BY <1>1, <1>2, <1>3
<1>6. \A k \in 1..Len(s) : u[k] = IF k <= Len(t) THEN t[k] ELSE s[k]
  BY <1>1, <1>3, <1>4, <1>5
<1> QED
  BY <1>3, <1>5, <1>6 DEF u, r

LEMMA SameSeq ==
  ASSUME NEW V, NEW s \in Seq(V), NEW t \in Seq(V), Len(s) = Len(t),
         \A k \in 1..Len(s) : s[k] = t[k]
  PROVE  s = t
OBVIOUS

LEMMA RangeIs ==
  ASSUME NEW V, NEW s \in Seq(V)
  PROVE  Range(s) = {s[k] : k \in 1..Len(s)}
BY DEF Range

\* c is the list after entry i took another name of its kind.
Renames(es, c, i, name) ==
  /\ Len(c) = Len(es)
  /\ \A j \in 1..Len(es) : /\ c[j].depth = es[j].depth
                           /\ IsDir(c[j]) = IsDir(es[j])
                           /\ c[j].name = IF j = i THEN name ELSE es[j].name

\* The path of entry i with another name, and the paths of all then.
NewPath(es, i, name) == [EntryPaths(es)[i] EXCEPT ![Len(EntryPaths(es)[i])] = name]

NewPaths(es, R, i, name) ==
  \A j \in 1..Len(es) :
    R[j] = IF j \in Span(es, i) THEN [EntryPaths(es)[j] EXCEPT ![Len(EntryPaths(es)[i])] = name]
           ELSE EntryPaths(es)[j]

FreePath(es, i, name) ==
  Append(Front(EntryPaths(es)[i]), name) \notin Range(EntryPaths(es))

\* Every path that begins with entry i's begins with the new one instead.
PathsAfter(es, i, name) ==
  LET old == EntryPaths(es)[i]
      new == Append(Front(old), name)
      Renamed(q) == IF IsPrefix(old, q)
                    THEN new \o SubSeq(q, Len(old) + 1, Len(q)) ELSE q
  IN {Renamed(q) : q \in Range(EntryPaths(es))}

\* In the list after a change of name, the paths in i's block differ at i's
\* level and the others are as they were.
LEMMA RenamedPaths ==
  ASSUME NEW es, IsList(es), Clean(es), NEW i \in 1..Len(es), NEW name \in Names,
         NEW c, IsList(c), Renames(es, c, i, name)
  PROVE  LET P == EntryPaths(es)
         IN /\ Nested(c)
            /\ PathsOf(c, [j \in 1..Len(es) |->
                             IF j \in Span(es, i) THEN [P[j] EXCEPT ![Len(P[i])] = name]
                             ELSE P[j]])
<1> DEFINE n == Len(es)
           P == EntryPaths(es)
           m == Len(P[i])
           B == Span(es, i)
           R == [j \in 1..n |-> IF j \in B THEN [P[j] EXCEPT ![m] = name] ELSE P[j]]
<1>1. Nested(es) /\ PathsOf(es, P) /\ n \in Nat
  BY EntryPathsArePaths DEF Clean, IsList
<1>2. \A j \in 1..n : P[j] \in Seq(Names) /\ Len(P[j]) \in Nat \ {0} /\ HasPath(es, P, j)
  BY <1>1, PathHasName DEF PathsOf
<1>3. /\ Len(c) = n
      /\ \A j \in 1..n : /\ c[j].depth = es[j].depth
                        /\ IsDir(c[j]) = IsDir(es[j])
                        /\ c[j].name = IF j = i THEN name ELSE es[j].name
  BY DEF Renames
<1>4. Nested(c)
  BY <1>3, <1>1 DEF Nested
<1>5. \A j \in 1..n : j \in B => m <= Len(P[j])
  <2>1. ASSUME NEW j \in 1..n, j \in B
        PROVE  m <= Len(P[j])
    <3>1. P[i] \in Above(P[j])
      BY <2>1, BlockIsAbove
    <3>2. IsPrefix(P[i], P[j])
      BY <1>2, <3>1, PrefixIsAbove
    <3> QED
      BY <3>2 DEF IsPrefix
  <2> QED
    BY <2>1
<1>6. i \in B /\ m \in Nat \ {0}
  BY <1>2 DEF Span
<1> HIDE DEF P, B, m
<1>7. ASSUME NEW j \in 1..n
      PROVE  R[j] \in Seq(Names)
  <2>1. [P[j] EXCEPT ![m] = name] \in Seq(Names)
    BY <1>2, Exchanged
  <2> QED
    BY <1>2, <2>1
<1>8. R \in Seq(Seq(Names)) /\ Len(R) = n
  BY <1>1, <1>7
<1>9. \A j \in 1..n : R[j] = IF j \in B THEN [P[j] EXCEPT ![m] = name] ELSE P[j]
  OBVIOUS
<1> HIDE DEF R
<1>10. ASSUME NEW j \in 1..n
      PROVE  HasPath(c, R, j)
  <2>1. CASE es[j].depth = 0 /\ P[j] = <<es[j].name>>
    <3>1. CASE j = i
      <4>1. m = 1
        BY <2>1, <3>1 DEF m
      <4>2. R[j] = [<<es[j].name>> EXCEPT ![1] = name]
        BY <1>6, <1>9, <2>1, <3>1, <4>1
      <4>3. R[j] = <<name>>
        BY <4>2
      <4> QED
        BY <1>3, <2>1, <3>1, <4>3 DEF HasPath
    <3>2. CASE j # i
      <4>1. j \notin Below(es, i)
        <5>1. i # 0 /\ es[i].depth \in Nat /\ i \in 0..n
          BY <1>1 DEF IsList
        <5>2. j \in Below(es, i) => j \in (i + 1)..j /\ es[j].depth >= es[i].depth + 1
          BY <1>1, <5>1 DEF Below, DepthIn
        <5> QED
          BY <2>1, <5>1, <5>2
      <4>2. R[j] = P[j]
        BY <1>9, <3>2, <4>1 DEF B, Span
      <4> QED
        BY <1>3, <2>1, <3>2, <4>2 DEF HasPath
    <3> QED
      BY <3>1, <3>2
  <2>2. ASSUME NEW k \in 1..(j - 1), IsParent(es, k, j), P[j] = Append(P[k], es[j].name)
        PROVE  IsParent(c, k, j) /\ R[j] = Append(R[k], c[j].name)
    <3>1. k \in 1..n /\ k # j
      BY <1>1
    <3>2. IsParent(c, k, j)
      BY <1>3, <1>1, <2>2, <3>1 DEF IsParent
    <3>3. P[k] \in Seq(Names) /\ es[j].name \in Names /\ Len(P[k]) \in Nat
      BY <1>2, <3>1 DEF IsList
    <3>4. CASE j = i
      <4>1. k \notin B
        <5>1. i \in 0..n /\ i # 0
          BY <1>1
        <5>2. k \in Below(es, i) => i < k
          BY <5>1, BelowFacts
        <5> QED
          BY <1>1, <3>4, <5>2 DEF B, Span
      <4>2. R[k] = P[k] /\ R[j] = [P[j] EXCEPT ![m] = name]
        BY <1>6, <1>9, <3>1, <3>4, <4>1
      <4> DEFINE a == Append(P[k], es[j].name)
                 v == [a EXCEPT ![m] = name]
                 b == Append(P[k], name)
      <4>3. a \in Seq(Names) /\ Len(a) = Len(P[k]) + 1 /\ \A r \in 1..Len(P[k]) : a[r] = P[k][r]
        BY <3>3
      <4>4. b \in Seq(Names) /\ Len(b) = Len(P[k]) + 1 /\ b[Len(P[k]) + 1] = name
            /\ \A r \in 1..Len(P[k]) : b[r] = P[k][r]
        BY <3>3
      <4>5. m = Len(P[k]) + 1
        BY <2>2, <3>4, <4>3 DEF m
      <4> HIDE DEF a
      <4>6. v \in Seq(Names) /\ Len(v) = Len(a)
            /\ \A r \in 1..Len(a) : v[r] = IF r = m THEN name ELSE a[r]
        BY <4>3, Exchanged
      <4> HIDE DEF v, b
      <4>7. ASSUME NEW r \in 1..Len(a)
            PROVE  v[r] = b[r]
        <5>1. r \in 1..Len(P[k]) \/ r = Len(P[k]) + 1
          BY <3>3, <4>3, <4>7, SMTT(30)
        <5>2. v[r] = IF r = m THEN name ELSE a[r]
          BY <4>6
        <5>3. r \in 1..Len(P[k]) => r # m
          BY <3>3, <4>5
        <5> QED
          BY <4>3, <4>4, <4>5, <5>1, <5>2, <5>3
      <4>8. v = b
        BY <4>3, <4>4, <4>6, <4>7, SameSeq
      <4>9. [Append(P[k], es[j].name) EXCEPT ![m] = name] = Append(P[k], name)
        BY <4>8 DEF v, a, b
      <4> QED
        BY <1>3, <2>2, <3>2, <3>4, <4>2, <4>9
    <3>5. CASE j # i
      <4>1. j \in B <=> k \in B
        BY <2>2, <3>1, <3>5, BlockGrows DEF B
      <4>2. CASE j \in B
        <5>1. m <= Len(P[k])
          BY <1>5, <3>1, <4>1, <4>2
        <5>2. R[j] = [Append(P[k], es[j].name) EXCEPT ![m] = name] /\ R[k] = [P[k] EXCEPT ![m] = name]
          BY <1>9, <2>2, <3>1, <4>1, <4>2
        <5>3. [Append(P[k], es[j].name) EXCEPT ![m] = name]
                = Append([P[k] EXCEPT ![m] = name], es[j].name)
          <6> DEFINE a == Append(P[k], es[j].name)
                     v == [a EXCEPT ![m] = name]
                     w == [P[k] EXCEPT ![m] = name]
                     b == Append(w, es[j].name)
          <6>1. a \in Seq(Names) /\ Len(a) = Len(P[k]) + 1 /\ a[Len(P[k]) + 1] = es[j].name
                /\ \A r \in 1..Len(P[k]) : a[r] = P[k][r]
            BY <3>3
          <6>2. w \in Seq(Names) /\ Len(w) = Len(P[k])
                /\ \A r \in 1..Len(P[k]) : w[r] = IF r = m THEN name ELSE P[k][r]
            BY <3>3, Exchanged
          <6> HIDE DEF w, a
          <6>3. b \in Seq(Names) /\ Len(b) = Len(P[k]) + 1 /\ b[Len(P[k]) + 1] = es[j].name
                /\ \A r \in 1..Len(P[k]) : b[r] = w[r]
            BY <3>3, <6>2
          <6>4. v \in Seq(Names) /\ Len(v) = Len(a)
                /\ \A r \in 1..Len(a) : v[r] = IF r = m THEN name ELSE a[r]
            BY <6>1, Exchanged, SMTT(30)
          <6> HIDE DEF v, b
          <6>5. ASSUME NEW r \in 1..Len(a)
                PROVE  v[r] = b[r]
            <7>1. r \in 1..Len(P[k]) \/ r = Len(P[k]) + 1
              BY <3>3, <6>1, <6>5
            <7>2. v[r] = IF r = m THEN name ELSE a[r]
              BY <6>4
            <7>3. r = Len(P[k]) + 1 => r # m
              BY <1>6, <3>3, <5>1
            <7> QED
              BY <6>1, <6>2, <6>3, <7>1, <7>2, <7>3
          <6>6. v = b
            BY <6>1, <6>3, <6>4, <6>5, SameSeq
          <6> QED
            BY <6>6 DEF v, a, b, w
        <5> QED
          BY <1>3, <3>2, <3>5, <5>2, <5>3
      <4>3. CASE j \notin B
        BY <1>3, <1>9, <2>2, <3>1, <3>2, <3>5, <4>1, <4>3
      <4> QED
        BY <4>2, <4>3
    <3> QED
      BY <3>4, <3>5
  <2>3. CASE \E k \in 1..(j - 1) : IsParent(es, k, j) /\ P[j] = Append(P[k], es[j].name)
    BY <2>2, <2>3 DEF HasPath
  <2> QED
    BY <1>2, <2>1, <2>3 DEF HasPath
<1>11. PathsOf(c, R)
  BY <1>3, <1>8, <1>10 DEF PathsOf
<1> QED
  BY <1>4, <1>11 DEF R, P, B, m

\* When the new path is free no two entries get one path.
LEMMA RenamedApart ==
  ASSUME NEW es, IsList(es), Clean(es), NEW i \in 1..Len(es), NEW name \in Names,
         NEW a \in 1..Len(es), NEW b \in 1..Len(es),
         \A j \in 1..Len(es) : EntryPaths(es)[j] # NewPath(es, i, name),
         NEW R, NewPaths(es, R, i, name), R[a] = R[b]
  PROVE  a = b
<1> DEFINE n == Len(es)
           B == Span(es, i)
           P == EntryPaths(es)
           m == Len(P[i])
           new == [P[i] EXCEPT ![m] = name]
<1>1. \A j \in 1..n : P[j] # new
  BY DEF NewPath
<1>2. \A j \in 1..n : R[j] = IF j \in B THEN [P[j] EXCEPT ![m] = name] ELSE P[j]
  BY DEF NewPaths
<1>3. PathsOf(es, P) /\ n \in Nat /\ \A x, y \in 1..n : P[x] = P[y] => x = y
  BY EntryPathsArePaths, CleanIsDistinct DEF Clean, IsList
<1>4. \A j \in 1..n : P[j] \in Seq(Names) /\ Len(P[j]) \in Nat \ {0}
  BY <1>3, PathHasName
<1> HIDE DEF P
<1>5. ASSUME NEW j \in 1..n, j \in B
      PROVE  m <= Len(P[j]) /\ SubSeq(P[j], 1, m) = P[i]
  <2>1. P[i] \in Above(P[j])
    BY <1>5, BlockIsAbove DEF P
  <2>2. IsPrefix(P[i], P[j])
    BY <1>4, <2>1, PrefixIsAbove
  <2> QED
    BY <1>4, <2>2, SubSeqFull DEF IsPrefix
<1>6. ASSUME NEW j \in 1..n, j \in B
      PROVE  /\ \A k \in 1..m : P[j][k] = P[i][k]
             /\ SubSeq([P[j] EXCEPT ![m] = name], 1, m) = new
             /\ Len([P[j] EXCEPT ![m] = name]) = Len(P[j])
  <2>1. P[j] \in Seq(Names) /\ P[i] \in Seq(Names) /\ m \in Nat \ {0} /\ m <= Len(P[j])
    BY <1>4, <1>5, <1>6
  <2>2. ASSUME NEW k \in 1..m
        PROVE  P[j][k] = P[i][k]
    BY <1>5, <1>6, <2>1
  <2>3. SubSeq([P[j] EXCEPT ![m] = name], 1, m) = new
    <3> DEFINE u == SubSeq([P[j] EXCEPT ![m] = name], 1, m)
    <3>1. u \in Seq(Names) /\ Len(u) = m /\ \A k \in 1..m : u[k] = IF k = m THEN name ELSE P[j][k]
      BY <2>1
    <3>2. new \in Seq(Names) /\ Len(new) = m /\ \A k \in 1..m : new[k] = IF k = m THEN name ELSE P[i][k]
      BY <2>1
    <3> HIDE DEF u, new, m
    <3>3. ASSUME NEW k \in 1..m
          PROVE  u[k] = new[k]
      BY <2>2, <3>1, <3>2
    <3>4. u = new
      BY ONLY <3>1, <3>2, <3>3, SameSeq
    <3> QED
      BY <3>4 DEF u
  <2> QED
    BY <2>1, <2>2, <2>3
<1>7. ASSUME NEW x \in 1..n, NEW y \in 1..n, x \in B, y \notin B, [P[x] EXCEPT ![m] = name] = P[y]
      PROVE  FALSE
  <2>1. m \in Nat \ {0} /\ Len(P[x]) \in Nat
    BY <1>4
  <2> HIDE DEF new, m
  <2>2. m \in 1..Len(P[y]) /\ new = SubSeq(P[y], 1, m)
    <3>1. m \in Nat \ {0} /\ Len(P[x]) \in Nat
      BY <2>1
    <3>2. m <= Len(P[x]) /\ Len([P[x] EXCEPT ![m] = name]) = Len(P[x])
          /\ SubSeq([P[x] EXCEPT ![m] = name], 1, m) = new
      BY <1>5, <1>6, <1>7
    <3> QED
      BY <1>7, <3>1, <3>2
  <2>3. new \in Above(P[y])
    BY <2>2 DEF Above
  <2>4. new # P[y]
    BY <1>1
  <2>5. new \in StrictlyAbove(P[y])
    BY <2>3, <2>4 DEF StrictlyAbove
  <2>6. PICK j \in 1..(y - 1) : P[j] = new
    <3>1. IsList(es) /\ PathsOf(es, P) /\ y \in 1..Len(es)
      BY <1>3
    <3> QED
      BY ONLY <2>5, <3>1, AncestorFirst
  <2>7. j \in 1..n
    BY <1>3
  <2> QED
    BY <1>1, <2>6, <2>7
<1>8. ASSUME a \in B, b \in B
      PROVE  P[a] = P[b]
  <2>1. [P[a] EXCEPT ![m] = name] = [P[b] EXCEPT ![m] = name]
    BY <1>8, <1>2
  <2>2. /\ P[a] \in Seq(Names) /\ P[b] \in Seq(Names) /\ m \in 1..Len(P[a])
        /\ Len(P[a]) = Len(P[b])
    BY <1>4, <1>5, <1>6, <1>8, <2>1
  <2>3. P[a][m] = P[b][m]
    <3>1. m \in 1..m
      BY <1>4
    <3>2. P[a][m] = P[i][m] /\ P[b][m] = P[i][m]
      BY <1>6, <1>8, <3>1
    <3> QED
      BY <3>2
  <2>4. ASSUME NEW k \in 1..Len(P[a])
        PROVE  P[a][k] = P[b][k]
    <3>1. k # m => P[a][k] = [P[a] EXCEPT ![m] = name][k] /\ P[b][k] = [P[b] EXCEPT ![m] = name][k]
      BY <2>2
    <3> QED
      BY <2>1, <2>3, <3>1
  <2> QED
    BY <2>2, <2>4, SameSeq
<1> HIDE DEF m
<1>9. R[a] = IF a \in B THEN [P[a] EXCEPT ![m] = name] ELSE P[a]
  BY <1>2
<1>10. R[b] = IF b \in B THEN [P[b] EXCEPT ![m] = name] ELSE P[b]
  BY <1>2
<1> HIDE DEF B
<1>11. CASE a \in B /\ b \in B
  BY <1>3, <1>8, <1>11
<1>12. CASE a \notin B /\ b \notin B
  BY <1>3, <1>9, <1>10, <1>12
<1>13. CASE a \in B /\ b \notin B
  <2>1. [P[a] EXCEPT ![m] = name] = P[b]
    BY <1>9, <1>10, <1>13
  <2> QED
    BY ONLY <1>7, <1>13, <2>1
<1>14. CASE a \notin B /\ b \in B
  <2>1. [P[b] EXCEPT ![m] = name] = P[a]
    BY <1>9, <1>10, <1>14
  <2> QED
    BY ONLY <1>7, <1>14, <2>1
<1> QED
  BY <1>11, <1>12, <1>13, <1>14

\* Sorted after that, the list has the paths it had, with the new one in the
\* place of the old.
LEMMA RenamedSorted ==
  ASSUME NEW es, IsList(es), Clean(es), NEW i \in 1..Len(es), NEW name \in Names,
         FreePath(es, i, name), NEW c, IsList(c), Renames(es, c, i, name)
  PROVE  Range(EntryPaths(SortEntries(c))) = PathsAfter(es, i, name)
<1> DEFINE n == Len(es)
           P == EntryPaths(es)
           old == P[i]
           m == Len(old)
           B == Span(es, i)
           new == Append(Front(old), name)
           Renamed(q) == IF IsPrefix(old, q) THEN new \o SubSeq(q, m + 1, Len(q)) ELSE q
           R == [j \in 1..n |-> IF j \in B THEN [P[j] EXCEPT ![m] = name] ELSE P[j]]
<1>1. new \notin Range(P)
  BY DEF FreePath
<1>2. PathsAfter(es, i, name) = {Renamed(q) : q \in Range(P)}
  BY DEF PathsAfter
<1>3. new = Append(SubSeq(P[i], 1, m - 1), name)
  BY DEF Front
<1> HIDE DEF new
<1>4. Nested(es) /\ PathsOf(es, P) /\ n \in Nat
  BY EntryPathsArePaths DEF Clean, IsList
<1>5. Nested(c) /\ PathsOf(c, R)
  BY RenamedPaths
<1>6. \A j \in 1..n : P[j] \in Seq(Names) /\ Len(P[j]) \in Nat \ {0}
  BY <1>4, PathHasName
<1>7. Range(P) = {P[j] : j \in 1..n} /\ Len(P) = n
  <2>1. P \in Seq(Seq(Names)) /\ Len(P) = n
    BY <1>4 DEF PathsOf
  <2> HIDE DEF P
  <2> QED
    BY <2>1, RangeIs
<1> HIDE DEF P
<1>8. /\ new = [P[i] EXCEPT ![m] = name]
      /\ new \in Seq(Names) /\ Len(new) = m
  <2>1. new = Append(SubSeq(P[i], 1, m - 1), name)
    BY <1>3
  <2>2. P[i] \in Seq(Names) /\ m \in Nat \ {0}
    BY <1>6
  <2>3. /\ new \in Seq(Names) /\ Len(new) = m
        /\ \A k \in 1..m : new[k] = IF k = m THEN name ELSE P[i][k]
    BY <2>1, <2>2
  <2>4. /\ [P[i] EXCEPT ![m] = name] \in Seq(Names) /\ Len([P[i] EXCEPT ![m] = name]) = m
        /\ \A k \in 1..m : [P[i] EXCEPT ![m] = name][k] = IF k = m THEN name ELSE P[i][k]
    BY <2>2
  <2> HIDE DEF m
  <2>5. new = [P[i] EXCEPT ![m] = name]
    BY <2>3, <2>4
  <2> QED
    BY <2>3, <2>5
<1>9. \A j \in 1..n : R[j] = IF j \in B THEN [P[j] EXCEPT ![m] = name] ELSE P[j]
  OBVIOUS
<1>10. ASSUME NEW j \in 1..n
       PROVE  /\ j \in B <=> IsPrefix(old, P[j])
              /\ Renamed(P[j]) = R[j]
  <2>1. j \in B <=> old \in Above(P[j])
    BY <1>4, BlockIsAbove DEF P
  <2>2. j \in B <=> IsPrefix(old, P[j])
    BY <1>6, <2>1, PrefixIsAbove
  <2>3. ASSUME j \in B
        PROVE  new \o SubSeq(P[j], m + 1, Len(P[j])) = [P[j] EXCEPT ![m] = name]
    <3>1. old = SubSeq(P[j], 1, m) /\ m <= Len(P[j])
      BY <1>6, <2>2, <2>3, SubSeqFull DEF IsPrefix
    <3>2. P[j] \in Seq(Names) /\ old \in Seq(Names) /\ m \in Nat \ {0} /\ Len(P[j]) \in Nat
      BY <1>6
    <3>3. \A k \in 1..m : old[k] = P[j][k]
      BY <3>1, <3>2
    <3>4. \A k \in 1..m : new[k] = IF k = m THEN name ELSE P[j][k]
      BY <1>8, <3>2, <3>3
    <3> DEFINE u == new \o SubSeq(P[j], m + 1, Len(P[j]))
               v == [P[j] EXCEPT ![m] = name]
    <3>5. u \in Seq(Names) /\ Len(u) = Len(P[j])
          /\ \A k \in 1..Len(P[j]) : u[k] = IF k <= m THEN new[k] ELSE P[j][k]
      <4>1. new \in Seq(Names) /\ Len(new) = m /\ Len(new) <= Len(P[j])
        BY <1>8, <3>1
      <4>2. P[j] \in Seq(Names)
        BY <3>2
      <4> HIDE DEF m
      <4>3. ASSUME NEW p \in Seq(Names), NEW t \in Seq(Names), Len(t) <= Len(p),
                   NEW w, w = t \o SubSeq(p, Len(t) + 1, Len(p))
            PROVE  /\ w \in Seq(Names) /\ Len(w) = Len(p)
                   /\ \A k \in 1..Len(p) : w[k] = IF k <= Len(t) THEN t[k] ELSE p[k]
        BY ONLY <4>3, Spliced
      <4>4. u = new \o SubSeq(P[j], Len(new) + 1, Len(P[j]))
        BY <4>1
      <4> HIDE DEF u
      <4> DEFINE p == P[j]
      <4>5. p = P[j]
        OBVIOUS
      <4> HIDE DEF p
      <4>6. p \in Seq(Names) /\ new \in Seq(Names) /\ Len(new) <= Len(p)
            /\ u = new \o SubSeq(p, Len(new) + 1, Len(p))
        BY <4>1, <4>2, <4>4, <4>5
      <4>7. /\ u \in Seq(Names) /\ Len(u) = Len(p)
            /\ \A k \in 1..Len(p) : u[k] = IF k <= Len(new) THEN new[k] ELSE p[k]
        BY ONLY <4>3, <4>6
      <4>8. /\ u \in Seq(Names) /\ Len(u) = Len(P[j])
            /\ \A k \in 1..Len(P[j]) : u[k] = IF k <= Len(new) THEN new[k] ELSE P[j][k]
        BY <4>5, <4>7
      <4> QED
        BY <4>1, <4>8
    <3>6. v \in Seq(Names) /\ Len(v) = Len(P[j])
          /\ \A k \in 1..Len(P[j]) : v[k] = IF k = m THEN name ELSE P[j][k]
      <4> DEFINE p == P[j]
      <4>1. name \in Names /\ p \in Seq(Names) /\ p = P[j] /\ v = [p EXCEPT ![m] = name]
        BY <3>2
      <4> HIDE DEF m, p, v
      <4>2. /\ [p EXCEPT ![m] = name] \in Seq(Names)
            /\ Len([p EXCEPT ![m] = name]) = Len(p)
            /\ \A k \in 1..Len(p) : [p EXCEPT ![m] = name][k] = IF k = m THEN name ELSE p[k]
        BY ONLY <4>1, Exchanged
      <4> QED
        BY <4>1, <4>2
    <3> HIDE DEF u, v, m
    <3>7. ASSUME NEW k \in 1..Len(P[j])
          PROVE  u[k] = v[k]
      <4>1. u[k] = (IF k <= m THEN new[k] ELSE P[j][k]) /\ v[k] = IF k = m THEN name ELSE P[j][k]
        BY <3>5, <3>6
      <4>2. k \in Nat /\ (k <= m => k \in 1..m) /\ (k = m => k <= m)
        BY <3>2
      <4> QED
        BY <3>4, <4>1, <4>2
    <3>8. u = v
      BY <3>5, <3>6, <3>7, SameSeq
    <3> QED
      BY <3>8 DEF u, v
  <2> QED
    BY <1>9, <2>2, <2>3
<1>11. ASSUME NEW a \in 1..n, NEW b \in 1..n, R[a] = R[b]
       PROVE  a = b
  <2>1. \A j \in 1..n : EntryPaths(es)[j] # NewPath(es, i, name)
    <3>1. \A j \in 1..n : P[j] # new
      BY <1>7, <1>1
    <3>2. new = NewPath(es, i, name)
      BY <1>8 DEF P, NewPath
    <3> QED
      BY <3>1, <3>2 DEF P
  <2>2. NewPaths(es, R, i, name)
    BY <1>9 DEF NewPaths, P
  <2> HIDE DEF R
  <2>3. a \in 1..Len(es) /\ b \in 1..Len(es)
    OBVIOUS
  <2> QED
    BY ONLY <1>11, <2>1, <2>2, <2>3, IsList(es), Clean(es), i \in 1..Len(es), name \in Names,
            RenamedApart
<1>12. DOMAIN R = 1..n /\ IsInjective(R)
  <2>1. DOMAIN R = 1..n
    OBVIOUS
  <2> HIDE DEF R
  <2> QED
    BY <1>11, <2>1 DEF IsInjective
<1> HIDE DEF R
<1>13. EntryPaths(c) = R /\ ValidatePaths(c) = R
  BY <1>5, EntryPathsArePaths, ValidatePathsArePaths, PathsUnique
<1>14. Clean(c)
  BY <1>5, <1>12, <1>13 DEF Clean, Validate
<1> DEFINE s == SortEntries(c)
           Q == EntryPaths(s)
<1>15. IsList(s) /\ Nested(s)
  BY <1>14, SortIsList, SortIsSorted DEF Clean
<1>16. PathsOf(s, Q)
  BY <1>15, EntryPathsArePaths
<1>17. /\ \A k \in 1..Len(s) : \E j \in 1..n : Q[k] = R[j]
       /\ \A j \in 1..n : \E k \in 1..Len(s) : Q[k] = R[j]
  <2>1. /\ \A k \in 1..Len(s) : \E j \in 1..Len(c) : Q[k] = EntryPaths(c)[j]
        /\ \A j \in 1..Len(c) : \E k \in 1..Len(s) : Q[k] = EntryPaths(c)[j]
    BY <1>14, SortKeepsPaths
  <2>2. Len(c) = n
    BY DEF Renames
  <2> QED
    BY <1>13, <2>1, <2>2
<1>18. Range(Q) = {Q[k] : k \in 1..Len(s)}
  <2>1. Q \in Seq(Seq(Names)) /\ Len(Q) = Len(s)
    BY <1>16 DEF PathsOf
  <2> HIDE DEF Q, s
  <2> QED
    BY <2>1, RangeIs
<1> HIDE DEF Q, s
<1>19. Range(Q) = {R[j] : j \in 1..n}
  <2>1. ASSUME NEW x \in Range(Q)
        PROVE  x \in {R[j] : j \in 1..n}
    <3>1. PICK k \in 1..Len(s) : x = Q[k]
      BY <1>18
    <3>2. PICK j \in 1..n : Q[k] = R[j]
      BY <1>17, <3>1
    <3> QED
      BY <3>1, <3>2
  <2>2. \A x \in {R[j] : j \in 1..n} : x \in Range(Q)
    BY <1>17, <1>18
  <2> QED
    BY <2>1, <2>2
<1>20. {Renamed(q) : q \in Range(P)} = {R[j] : j \in 1..n}
  <2> HIDE DEF Renamed
  <2> QED
    BY <1>7, <1>10
<1> QED
  BY <1>19, <1>20, <1>2 DEF Q, s

\* MoveEntry in place carries the subtree: of a clean manifest every path that
\* begins with the old one begins with the new one instead, and no other
\* changes, though the call sorts the list anew.
THEOREM RenamesCarrySubtrees == Spec => RenameCarriesSubtree
<1>1. ASSUME EntriesTyped, IndexCoherent, Clean(entries), NEW i \in 1..Len(entries),
             NEW name \in NamesFor(i), FreePath(entries, i, name),
             MoveEntry(i, BuildIndex(entries).parent[i], name)
      PROVE  Range(EntryPaths(entries')) = PathsAfter(entries, i, name)
  <2> DEFINE es == entries
             n == Len(es)
             P == EntryPaths(es)
             d == TargetDepth(BuildIndex(es).parent[i])
             c == Relabelled(i, d, name)
  <2>1. IsList(es) /\ Nested(es) /\ PathsOf(es, P) /\ n \in Nat /\ DOMAIN es = 1..n
    BY <1>1, EntryPathsArePaths DEF EntriesTyped, Entries, IsList, Clean
  <2>2. /\ \A j \in 1..n : IsEntry(es[j]) /\ es[j].depth \in Nat
        /\ name \in Names
        /\ name \in DirNames <=> es[i].name \in DirNames
    BY <1>1 DEF EntriesTyped, Entries, NamesFor, IsEntry
  <2>3. d = es[i].depth
    <3>1. BuildIndex(es).parent[i] = ParentIn(Shape(es), i)
      BY <2>1 DEF BuildIndex, IndexOf, Shape
    <3>2. HasPath(es, P, i)
      BY <2>1 DEF PathsOf
    <3>3. CASE es[i].depth = 0
      BY <2>1, <3>1, <3>3, ParentFound DEF TargetDepth
    <3>4. CASE \E j \in 1..(i - 1) : IsParent(es, j, i)
      <4>1. PICK j \in 1..(i - 1) : IsParent(es, j, i)
        BY <3>4
      <4>2. ParentIn(Shape(es), i) = j
        BY <2>1, <4>1, ParentFound
      <4>3. j # 0 /\ j \in 1..n /\ es[j].depth = es[i].depth - 1 /\ es[j].depth \in Nat
        BY <2>1, <2>2, <4>1 DEF IsParent
      <4> QED
        BY <2>2, <3>1, <4>2, <4>3 DEF TargetDepth
    <3> QED
      BY <3>2, <3>3, <3>4 DEF HasPath
  <2>4. entries' = SortEntries(c)
    BY <1>1 DEF MoveEntry
  <2> HIDE DEF d
  <2>5. /\ Entries(c) /\ Len(c) = n
        /\ \A j \in 1..n : c[j] = IF j = i THEN [es[j] EXCEPT !.name = name, !.depth = d]
                                  ELSE IF j \in Under(i) THEN [es[j] EXCEPT !.depth = @ + (d - es[i].depth)]
                                  ELSE es[j]
    <3>1. d \in Nat /\ name \in Names
      BY <2>2, <2>3
    <3>2. Entries(c)
      BY <1>1, <3>1, RelabelledTyped
    <3> QED
      <4> DEFINE f == [j \in 1..n |->
                         IF j = i THEN [es[j] EXCEPT !.name = name, !.depth = d]
                         ELSE IF j \in Under(i) THEN [es[j] EXCEPT !.depth = @ + (d - es[i].depth)]
                         ELSE es[j]]
      <4>1. c = f
        BY DEF Relabelled
      <4>2. \A j \in 1..n : f[j] = IF j = i THEN [es[j] EXCEPT !.name = name, !.depth = d]
                                  ELSE IF j \in Under(i) THEN [es[j] EXCEPT !.depth = @ + (d - es[i].depth)]
                                  ELSE es[j]
        OBVIOUS
      <4>3. DOMAIN f = 1..n
        OBVIOUS
      <4> HIDE DEF f, c
      <4>4. c \in Seq(Range(c))
        BY <3>2 DEF Entries, IsList
      <4>5. Len(c) = n
        BY <2>1, <4>1, <4>3, <4>4
      <4> QED
        BY <3>2, <4>1, <4>2, <4>5
  <2> HIDE DEF c
  <2>6. \A j \in 1..n : /\ c[j].depth = es[j].depth
                        /\ IsDir(c[j]) = IsDir(es[j])
                        /\ c[j].name = IF j = i THEN name ELSE es[j].name
    <3> SUFFICES ASSUME NEW j \in 1..n
                 PROVE  /\ c[j].depth = es[j].depth
                        /\ IsDir(c[j]) = IsDir(es[j])
                        /\ c[j].name = IF j = i THEN name ELSE es[j].name
      OBVIOUS
    <3>1. es[j] = [name |-> es[j].name, depth |-> es[j].depth, mode |-> es[j].mode,
                   timestamp |-> es[j].timestamp, size |-> es[j].size, id |-> es[j].id,
                   link |-> es[j].link]
      BY <2>2 DEF IsEntry
    <3>2. CASE j = i
      <4>1. c[j] = [es[j] EXCEPT !.name = name, !.depth = d]
        BY <2>5, <3>2
      <4>2. c[j].name = name /\ c[j].depth = d /\ c[j].mode = es[j].mode
        BY <3>1, <4>1
      <4> QED
        BY <2>2, <2>3, <3>2, <4>2 DEF IsDir
    <3>3. CASE j # i /\ j \in Under(i)
      <4>1. c[j] = [es[j] EXCEPT !.depth = @ + (d - es[i].depth)]
        BY <2>5, <3>3
      <4>2. es[j].depth \in Nat /\ es[i].depth \in Nat
        BY <2>2
      <4>3. c[j].name = es[j].name /\ c[j].mode = es[j].mode
            /\ c[j].depth = es[j].depth + (d - es[i].depth)
        BY <3>1, <4>1
      <4> QED
        BY <2>3, <3>3, <4>2, <4>3 DEF IsDir
    <3>4. CASE j # i /\ j \notin Under(i)
      BY <2>5, <3>4
    <3> QED
      BY <3>2, <3>3, <3>4
  <2>7. IsList(c)
    BY <2>5 DEF Entries
  <2>8. Renames(es, c, i, name)
    BY <2>5, <2>6 DEF Renames
  <2> QED
    BY <1>1, <2>1, <2>2, <2>4, <2>7, <2>8, RenamedSorted
<1>2. ASSUME EntriesTyped, IndexCoherent, Clean(entries), NEW i \in 1..Len(entries),
             NEW name \in NamesFor(i)
      PROVE  LET old == EntryPaths(entries)[i]
                 new == Append(Front(old), name)
                 Renamed(q) == IF IsPrefix(old, q)
                               THEN new \o SubSeq(q, Len(old) + 1, Len(q)) ELSE q
                 p == BuildIndex(entries).parent[i]
             IN /\ new \notin Range(EntryPaths(entries))
                /\ MoveEntry(i, p, name)
                => Range(EntryPaths(entries')) =
                     {Renamed(q) : q \in Range(EntryPaths(entries))}
  <2>1. FreePath(entries, i, name)
          <=> Append(Front(EntryPaths(entries)[i]), name) \notin Range(EntryPaths(entries))
    BY DEF FreePath
  <2> QED
    BY <1>1, <1>2, <2>1 DEF PathsAfter
<1>3. EntriesTyped /\ IndexCoherent
        => [Clean(entries) => \A i \in 1..Len(entries) : \A name \in NamesFor(i) :
              LET old == EntryPaths(entries)[i]
                  new == Append(Front(old), name)
                  Renamed(q) == IF IsPrefix(old, q)
                                THEN new \o SubSeq(q, Len(old) + 1, Len(q)) ELSE q
                  p == BuildIndex(entries).parent[i]
              IN /\ new \notin Range(EntryPaths(entries))
                 /\ MoveEntry(i, p, name)
                 => Range(EntryPaths(entries')) =
                      {Renamed(q) : q \in Range(EntryPaths(entries))}]_vars
  BY <1>2
<1> QED
  BY <1>3, EntriesAlwaysTyped, IndexAlwaysCoherent, PTL DEF Spec, RenameCarriesSubtree

\* SortEntries drops an entry only where a later one of the same name and depth
\* overrides it, in any list: the one loss of processLevel is the duplicate, and
\* what it never reaches the final loop appends.
THEOREM SortsLoseOnlyOverridden == Spec => SortLosesOnlyOverridden
<1>1. ASSUME EntriesTyped, SortManifest
      PROVE  /\ Range(entries') \subseteq Range(entries)
             /\ \A i \in 1..Len(entries) :
                  \/ entries[i] \in Range(entries')
                  \/ \E j \in (i + 1)..Len(entries) :
                       /\ entries[j].name = entries[i].name
                       /\ entries[j].depth = entries[i].depth
  <2> DEFINE es == entries
             s == entries'
  <2>1. IsList(es) /\ s = SortEntries(es)
    BY <1>1 DEF EntriesTyped, Entries, SortManifest
  <2>2. \A i \in 1..Len(es) : (\E k \in 1..Len(s) : s[k] = es[i]) \/ Overridden(es, i)
    BY <2>1, SortLosesOnly
  <2>3. \A k \in 1..Len(s) : \E i \in 1..Len(es) : s[k] = es[i]
    BY <2>1, SortIsList
  <2>4. Range(es) = {es[i] : i \in 1..Len(es)} /\ Range(s) = {s[k] : k \in 1..Len(s)}
    <3>1. IsList(s)
      BY <2>1, SortIsList
    <3> HIDE DEF es, s
    <3>2. es \in Seq(Range(es)) /\ s \in Seq(Range(s))
      BY <2>1, <3>1 DEF IsList
    <3>3. DOMAIN es = 1..Len(es) /\ DOMAIN s = 1..Len(s)
      BY <3>2
    <3> QED
      BY <3>3 DEF Range
  <2> HIDE DEF es, s
  <2>5. Range(s) \subseteq Range(es)
    BY <2>3, <2>4
  <2>6. \A i \in 1..Len(es) : es[i] \in Range(s) \/ Overridden(es, i)
    BY <2>2, <2>4
  <2> QED
    BY <2>5, <2>6 DEF Overridden, es, s
<1>2. EntriesTyped
        => [SortManifest =>
              /\ Range(entries') \subseteq Range(entries)
              /\ \A i \in 1..Len(entries) :
                   \/ entries[i] \in Range(entries')
                   \/ \E j \in (i + 1)..Len(entries) :
                        /\ entries[j].name = entries[i].name
                        /\ entries[j].depth = entries[i].depth]_vars
  BY <1>1
<1> QED
  BY <1>2, EntriesAlwaysTyped, PTL DEF Spec, SortLosesOnlyOverridden
=============================================================================
