------------------------------ MODULE FoldFacts ------------------------------
(* Folds from left to right, for any operator: the fold over the empty         *)
(* sequence and over one with an element appended.  Every walk over a list of  *)
(* entries is such a fold.  And recursions from the last entry to the first.   *)
EXTENDS SequencesExt, SequenceTheorems, WellFoundedInduction, TLAPS

CONSTANT Op(_, _, _)   \* of a context, the value so far and an element

Fold(c, base, seq) == FoldLeft(LAMBDA acc, e : Op(c, acc, e), base, seq)

\* A set of numbers that has 0, and with each number the next, has all.
LEMMA NatInSet ==
  ASSUME NEW S, 0 \in S, \A n \in Nat : n \in S => n + 1 \in S
  PROVE  Nat \subseteq S
<1> DEFINE T == Nat \ S
<1> SUFFICES ASSUME NEW z \in T PROVE FALSE
  OBVIOUS
<1>1. T \subseteq Nat
  OBVIOUS
<1>2. PICK x \in T : \A y \in T : ~(<<y, x>> \in OpToRel(<, Nat))
  <2> HIDE DEF T
  <2> QED
    BY <1>1, NatLessThanWellFounded, WFMin
<1>3. \A y \in T : ~(y < x)
  BY <1>1, <1>2 DEF OpToRel
<1>4. x \in Nat /\ x # 0 /\ x - 1 \in Nat /\ x - 1 < x /\ (x - 1) + 1 = x
  OBVIOUS
<1>5. x - 1 \in S
  BY <1>3, <1>4
<1> QED
  BY <1>4, <1>5

LEMMA MaxIs ==
  ASSUME NEW T \in SUBSET Nat, NEW x \in T, \A y \in T : x >= y
  PROVE  Max(T) = x
<1>1. \A z \in T : (\A y \in T : z >= y) => z = x
  OBVIOUS
<1> QED
  BY <1>1 DEF Max

\* The last of the first n indices.
LEMMA LastIndex ==
  ASSUME NEW n \in Nat
  PROVE  /\ 1..(n + 1) # {}
         /\ Max(1..(n + 1)) = n + 1
         /\ 1..(n + 1) \ {n + 1} = 1..n
<1>1. n + 1 \in 1..(n + 1) /\ 1..(n + 1) \in SUBSET Nat
  OBVIOUS
<1>2. \A y \in 1..(n + 1) : n + 1 >= y
  OBVIOUS
<1>3. Max(1..(n + 1)) = n + 1
  BY <1>1, <1>2, MaxIs
<1> QED
  BY <1>1, <1>3

\* The function a fold is defined by, on the sets of the first n indices.
Folds(c, g, base, seq, n) ==
  g = [T \in SUBSET (1..n) |->
         IF T = {} THEN base ELSE Op(c, g[T \ {Max(T)}], seq[Max(T)])]

LEMMA FoldsExist ==
  ASSUME NEW c, NEW base, NEW seq
  PROVE  \A n \in Nat : \E g : Folds(c, g, base, seq, n)
<1> DEFINE S == {n \in Nat : \E g : Folds(c, g, base, seq, n)}
<1>1. 0 \in S
  <2> DEFINE g == [T \in SUBSET (1..0) |-> base]
  <2>1. \A T \in SUBSET (1..0) : T = {}
    OBVIOUS
  <2>2. g = [T \in SUBSET (1..0) |->
               IF T = {} THEN base ELSE Op(c, g[T \ {Max(T)}], seq[Max(T)])]
    BY <2>1
  <2>3. Folds(c, g, base, seq, 0)
    BY <2>2 DEF Folds
  <2> QED
    BY <2>3
<1>2. ASSUME NEW n \in Nat, n \in S
      PROVE  n + 1 \in S
  <2>1. PICK f : Folds(c, f, base, seq, n)
    BY <1>2
  <2> DEFINE g == [T \in SUBSET (1..(n + 1)) |->
                     IF n + 1 \in T THEN Op(c, f[T \ {n + 1}], seq[n + 1]) ELSE f[T]]
             h == [T \in SUBSET (1..(n + 1)) |->
                     IF T = {} THEN base ELSE Op(c, g[T \ {Max(T)}], seq[Max(T)])]
  <2>2. ASSUME NEW T \in SUBSET (1..(n + 1))
        PROVE  g[T] = h[T]
    <3>1. CASE n + 1 \in T
      <4>1. Max(T) = n + 1
        BY <3>1, MaxIs
      <4>2. T \ {n + 1} \in SUBSET (1..(n + 1)) /\ n + 1 \notin T \ {n + 1}
        OBVIOUS
      <4>3. g[T \ {n + 1}] = f[T \ {n + 1}]
        BY <4>2
      <4> QED
        BY <3>1, <4>1, <4>3
    <3>2. CASE n + 1 \notin T
      <4>1. T \in SUBSET (1..n)
        BY <3>2
      <4>2. f[T] = IF T = {} THEN base ELSE Op(c, f[T \ {Max(T)}], seq[Max(T)])
        BY <2>1, <4>1 DEF Folds
      <4>3. /\ T \ {Max(T)} \in SUBSET (1..(n + 1))
            /\ n + 1 \notin T \ {Max(T)}
        BY <3>2
      <4>4. g[T \ {Max(T)}] = f[T \ {Max(T)}]
        BY <4>3
      <4> QED
        BY <3>2, <4>2, <4>4
    <3> QED
      BY <3>1, <3>2
  <2>3. g = h
    BY <2>2
  <2>4. Folds(c, g, base, seq, n + 1)
    BY <2>3 DEF Folds
  <2> QED
    BY <2>4
<1>3. Nat \subseteq S
  <2> HIDE DEF S
  <2> QED
    BY <1>1, <1>2, NatInSet
<1> QED
  BY <1>3

\* The fold is what any such function gives for all indices.
LEMMA FoldIs ==
  ASSUME NEW c, NEW base, NEW V, NEW seq \in Seq(V)
  PROVE  \E g : Folds(c, g, base, seq, Len(seq)) /\ Fold(c, base, seq) = g[1..Len(seq)]
<1>1. DOMAIN seq = 1..Len(seq) /\ Len(seq) \in Nat
  BY LenProperties
<1> DEFINE g == CHOOSE g : Folds(c, g, base, seq, Len(seq))
<1>2. Folds(c, g, base, seq, Len(seq))
  BY <1>1, FoldsExist
<1>3. Fold(c, base, seq) = g[1..Len(seq)]
  BY <1>1 DEF Fold, FoldLeft, MapThenFoldSet, Folds
<1> QED
  BY <1>2, <1>3

\* Folds over the first k indices do not depend on what comes after them.
LEMMA FoldsPrefix ==
  ASSUME NEW c, NEW base, NEW s, NEW t, NEW m \in Nat, NEW n \in Nat, NEW f, NEW g,
         Folds(c, f, base, s, m), Folds(c, g, base, t, n), m <= n,
         \A i \in 1..m : s[i] = t[i]
  PROVE  f[1..m] = g[1..m]
<1> DEFINE S == {k \in Nat : k <= m => f[1..k] = g[1..k]}
<1>1. 0 \in S
  <2>1. 1..0 \in SUBSET (1..m) /\ 1..0 \in SUBSET (1..n) /\ 1..0 = {}
    OBVIOUS
  <2>2. f[1..0] = base /\ g[1..0] = base
    BY <2>1 DEF Folds
  <2> QED
    BY <2>2
<1>2. ASSUME NEW k \in Nat, k \in S
      PROVE  k + 1 \in S
  <2> SUFFICES ASSUME k + 1 <= m PROVE f[1..(k + 1)] = g[1..(k + 1)]
    OBVIOUS
  <2> DEFINE T == 1..(k + 1)
  <2>1. T \in SUBSET (1..m) /\ T \in SUBSET (1..n) /\ T # {}
    OBVIOUS
  <2>2. Max(T) = k + 1 /\ T \ {Max(T)} = 1..k
    BY LastIndex
  <2>3. f[T] = Op(c, f[1..k], s[k + 1]) /\ g[T] = Op(c, g[1..k], t[k + 1])
    <3> HIDE DEF T
    <3>1. f[T] = Op(c, f[T \ {Max(T)}], s[Max(T)])
      BY ONLY Folds(c, f, base, s, m), <2>1 DEF Folds
    <3>2. g[T] = Op(c, g[T \ {Max(T)}], t[Max(T)])
      BY ONLY Folds(c, g, base, t, n), <2>1 DEF Folds
    <3> QED
      BY <2>2, <3>1, <3>2
  <2>4. f[1..k] = g[1..k] /\ s[k + 1] = t[k + 1]
    BY <1>2
  <2> QED
    BY <2>3, <2>4
<1>3. Nat \subseteq S
  <2> HIDE DEF S
  <2> QED
    BY <1>1, <1>2, NatInSet
<1> QED
  BY <1>3

\* The fold over the empty sequence is what it starts from.
LEMMA FoldEmpty ==
  ASSUME NEW c, NEW base
  PROVE  Fold(c, base, <<>>) = base
<1>1. <<>> \in Seq({}) /\ Len(<<>>) = 0
  BY EmptySeq
<1>2. PICK g : Folds(c, g, base, <<>>, 0) /\ Fold(c, base, <<>>) = g[1..0]
  BY <1>1, FoldIs
<1>3. 1..0 \in SUBSET (1..0) /\ 1..0 = {}
  OBVIOUS
<1> QED
  BY <1>2, <1>3 DEF Folds

\* One more element is one more step.
LEMMA FoldAppend ==
  ASSUME NEW c, NEW base, NEW V, NEW seq \in Seq(V), NEW v \in V
  PROVE  Fold(c, base, Append(seq, v)) = Op(c, Fold(c, base, seq), v)
<1> DEFINE n == Len(seq)
           t == Append(seq, v)
<1>1. n \in Nat
  BY LenProperties
<1>2. t \in Seq(V) /\ Len(t) = n + 1 /\ t[n + 1] = v
      /\ \A i \in 1..n : seq[i] = t[i]
  BY AppendProperties, LenProperties
<1>3. PICK f : Folds(c, f, base, seq, n) /\ Fold(c, base, seq) = f[1..n]
  BY FoldIs
<1> HIDE DEF t
<1>4. PICK g : Folds(c, g, base, t, n + 1) /\ Fold(c, base, t) = g[1..(n + 1)]
  BY <1>2, FoldIs
<1> HIDE DEF n
<1>5. f[1..n] = g[1..n]
  <2>1. Folds(c, f, base, seq, n) /\ Folds(c, g, base, t, n + 1)
    BY <1>3, <1>4
  <2>2. n \in Nat /\ n + 1 \in Nat /\ n <= n + 1 /\ \A i \in 1..n : seq[i] = t[i]
    BY <1>1, <1>2
  <2> QED
    BY ONLY <2>1, <2>2, FoldsPrefix
<1> DEFINE T == 1..(n + 1)
<1>6. T \in SUBSET (1..(n + 1)) /\ T # {}
  BY <1>1, LastIndex
<1>7. Max(T) = n + 1 /\ T \ {Max(T)} = 1..n
  BY <1>1, LastIndex
<1>8. g[T] = Op(c, g[1..n], v)
  <2> HIDE DEF T
  <2> QED
    BY <1>1, <1>2, <1>4, <1>6, <1>7 DEF Folds
<1> QED
  BY <1>3, <1>4, <1>5, <1>8 DEF t

\* A fold is a walk: the values before the first and after every element.
LEMMA FoldWalk ==
  ASSUME NEW c, NEW base, NEW V, NEW seq \in Seq(V)
  PROVE  \E a : /\ a[0] = base
                /\ \A k \in 1..Len(seq) : a[k] = Op(c, a[k - 1], seq[k])
                /\ Fold(c, base, seq) = a[Len(seq)]
<1> DEFINE a == [k \in 0..Len(seq) |-> Fold(c, base, SubSeq(seq, 1, k))]
<1>1. Len(seq) \in Nat /\ 0 \in 0..Len(seq) /\ Len(seq) \in 0..Len(seq)
  BY LenProperties
<1>2. a[0] = base
  <2>1. SubSeq(seq, 1, 0) = <<>>
    BY SubSeqEmpty
  <2>2. Fold(c, base, <<>>) = base
    BY FoldEmpty
  <2> QED
    BY <1>1, <2>1, <2>2
<1>3. a[Len(seq)] = Fold(c, base, seq)
  BY <1>1, SubSeqFull
<1>4. ASSUME NEW k \in 1..Len(seq)
      PROVE  a[k] = Op(c, a[k - 1], seq[k])
  <2>1. k \in 0..Len(seq) /\ k - 1 \in 0..Len(seq)
    BY <1>1
  <2> DEFINE s == SubSeq(seq, 1, k - 1)
             v == seq[k]
  <2>2. s \in Seq(V) /\ v \in V
    BY <1>1
  <2>3. SubSeq(seq, 1, k) = s \o <<v>>
    BY <1>1, SubSeqRecursiveSecond
  <2>4. a[k] = Fold(c, base, SubSeq(seq, 1, k)) /\ a[k - 1] = Fold(c, base, s)
    BY <2>1
  <2> HIDE DEF s, v, a
  <2>5. SubSeq(seq, 1, k) = Append(s, v)
    BY <2>2, <2>3, AppendIsConcat
  <2>6. Fold(c, base, Append(s, v)) = Op(c, Fold(c, base, s), v)
    BY <2>2, FoldAppend
  <2> QED
    BY <2>4, <2>5, <2>6 DEF v
<1> HIDE DEF a
<1> QED
  BY <1>2, <1>3, <1>4

-----------------------------------------------------------------------------
(* Recursions over an index, from the last one down.                         *)

\* A recursion in which each index needs later ones only: Op computes the value
\* at an index from the function.
Later(c, n, V) ==
  \A f, g : \A i \in 1..n :
    (\A k \in 1..n : k > i => f[k] \in V /\ g[k] = f[k])
      => Op(c, f, i) \in V /\ Op(c, g, i) = Op(c, f, i)

\* It has a solution.
LEMMA LaterExists ==
  ASSUME NEW c, NEW n \in Nat, NEW V, NEW v \in V, Later(c, n, V)
  PROVE  \E f \in [1..n -> V] : f = [i \in 1..n |-> Op(c, f, i)]
<1> DEFINE From(m) == \E f \in [1..n -> V] : \A i \in 1..n : i > m => f[i] = Op(c, f, i)
           S == {k \in Nat : k <= n => From(n - k)}
<1>1. 0 \in S
  <2> DEFINE f == [i \in 1..n |-> v]
  <2>1. f \in [1..n -> V] /\ \A i \in 1..n : ~(i > n - 0)
    OBVIOUS
  <2> QED
    BY <2>1
<1>2. ASSUME NEW k \in Nat, k \in S
      PROVE  k + 1 \in S
  <2> SUFFICES ASSUME k + 1 <= n PROVE From(n - (k + 1))
    OBVIOUS
  <2> DEFINE m == n - k
  <2>1. m \in 1..n /\ n - (k + 1) = m - 1 /\ k <= n
    OBVIOUS
  <2>2. PICK f \in [1..n -> V] : \A i \in 1..n : i > m => f[i] = Op(c, f, i)
    BY <1>2, <2>1
  <2> HIDE DEF m
  <2> DEFINE g == [f EXCEPT ![m] = Op(c, f, m)]
  <2>3. Op(c, f, m) \in V
    <3>1. \A j \in 1..n : j > m => f[j] \in V /\ f[j] = f[j]
      BY <2>2
    <3> QED
      BY <2>1, <3>1 DEF Later
  <2>4. g \in [1..n -> V] /\ g[m] = Op(c, f, m) /\ \A i \in 1..n : i > m => g[i] = f[i]
    BY <2>1, <2>2, <2>3
  <2> HIDE DEF g
  <2>5. ASSUME NEW i \in 1..n, i > m - 1
        PROVE  g[i] = Op(c, g, i)
    <3>1. \A j \in 1..n : j > i => f[j] \in V /\ g[j] = f[j]
      BY <2>1, <2>4, <2>5
    <3>2. Op(c, g, i) = Op(c, f, i)
      BY <3>1 DEF Later
    <3>3. i = m \/ i > m
      BY <2>1, <2>5
    <3> QED
      BY <2>2, <2>4, <3>2, <3>3
  <2>6. From(m - 1)
    BY <2>4, <2>5
  <2> QED
    BY <2>1, <2>6
<1>3. n \in S
  <2> HIDE DEF S
  <2> QED
    BY <1>1, <1>2, NatInSet
<1>4. From(0)
  BY <1>3
<1>5. PICK f \in [1..n -> V] : \A i \in 1..n : f[i] = Op(c, f, i)
  <2>1. PICK f \in [1..n -> V] : \A i \in 1..n : i > 0 => f[i] = Op(c, f, i)
    BY <1>4
  <2>2. \A i \in 1..n : i > 0
    OBVIOUS
  <2> QED
    BY <2>1, <2>2
<1>6. f = [i \in 1..n |-> Op(c, f, i)]
  BY <1>5
<1> QED
  BY <1>6

\* And every solution has its values.
LEMMA LaterTyped ==
  ASSUME NEW c, NEW n \in Nat, NEW V, Later(c, n, V), NEW f, f = [i \in 1..n |-> Op(c, f, i)]
  PROVE  f \in [1..n -> V]
<1> DEFINE S == {k \in Nat : \A i \in 1..n : i > n - k => f[i] \in V}
<1>1. 0 \in S
  <2>1. \A i \in 1..n : ~(i > n - 0)
    OBVIOUS
  <2> QED
    BY <2>1
<1>2. ASSUME NEW k \in Nat, k \in S
      PROVE  k + 1 \in S
  <2> SUFFICES ASSUME NEW i \in 1..n, i > n - (k + 1) PROVE f[i] \in V
    OBVIOUS
  <2>1. \A j \in 1..n : j > i => j > n - k
    OBVIOUS
  <2>2. \A j \in 1..n : j > i => f[j] \in V /\ f[j] = f[j]
    BY <1>2, <2>1
  <2>3. Op(c, f, i) \in V
    BY <2>2 DEF Later
  <2>4. f[i] = Op(c, f, i)
    OBVIOUS
  <2> QED
    BY <2>3, <2>4
<1>3. n \in S
  <2> HIDE DEF S
  <2> QED
    BY <1>1, <1>2, NatInSet
<1>4. \A i \in 1..n : i > n - n => f[i] \in V
  BY <1>3
<1>5. \A i \in 1..n : f[i] \in V
  BY <1>4
<1>6. DOMAIN f = 1..n /\ f = [i \in 1..n |-> f[i]]
  OBVIOUS
<1> QED
  BY <1>5, <1>6

\* So there is only one.
LEMMA LaterOnce ==
  ASSUME NEW c, NEW n \in Nat, NEW V, Later(c, n, V), NEW f, f = [i \in 1..n |-> Op(c, f, i)],
         NEW g, g = [i \in 1..n |-> Op(c, g, i)]
  PROVE  g = f
<1> DEFINE S == {k \in Nat : \A i \in 1..n : i > n - k => g[i] = f[i]}
<1>1. \A i \in 1..n : f[i] \in V
  BY LaterTyped
<1>2. 0 \in S
  <2>1. \A i \in 1..n : ~(i > n - 0)
    OBVIOUS
  <2> QED
    BY <2>1
<1>3. ASSUME NEW k \in Nat, k \in S
      PROVE  k + 1 \in S
  <2> SUFFICES ASSUME NEW i \in 1..n, i > n - (k + 1) PROVE g[i] = f[i]
    OBVIOUS
  <2>1. \A j \in 1..n : j > i => j > n - k
    OBVIOUS
  <2>2. \A j \in 1..n : j > i => f[j] \in V /\ g[j] = f[j]
    BY <1>1, <1>3, <2>1
  <2>3. Op(c, g, i) = Op(c, f, i)
    BY <2>2 DEF Later
  <2>4. f[i] = Op(c, f, i) /\ g[i] = Op(c, g, i)
    OBVIOUS
  <2> QED
    BY <2>3, <2>4
<1>4. n \in S
  <2> HIDE DEF S
  <2> QED
    BY <1>2, <1>3, NatInSet
<1>5. \A i \in 1..n : i > n - n => g[i] = f[i]
  BY <1>4
<1>6. \A i \in 1..n : g[i] = f[i]
  BY <1>5
<1>7. f = [i \in 1..n |-> f[i]] /\ g = [i \in 1..n |-> g[i]]
  OBVIOUS
<1> QED
  BY <1>6, <1>7

Apart(n, m, k) == n \in Nat /\ m \in Nat /\ k \in Nat /\ n = m + k

\* Two recursions, k places apart, of which each place agrees when all later ones do.
Solves(c, n, f) == f = [i \in 1..n |-> Op(c, f, i)]

Keeps(c, d, m, k, f, g) ==
  \A i \in 1..m : (\A j \in 1..m : j > i => f[j + k] = g[j])
                   => Op(c, f, i + k) = Op(d, g, i)

\* They agree.
LEMMA LaterShifted ==
  ASSUME NEW c, NEW d, NEW n, NEW m, NEW k, Apart(n, m, k),
         NEW f, Solves(c, n, f), NEW g, Solves(d, m, g), Keeps(c, d, m, k, f, g)
  PROVE  \A i \in 1..m : f[i + k] = g[i]
<1> n \in Nat /\ m \in Nat /\ k \in Nat /\ n = m + k
  BY DEF Apart
<1> DEFINE S == {l \in Nat : \A i \in 1..m : i > m - l => f[i + k] = g[i]}
<1>1. 0 \in S
  <2>1. \A i \in 1..m : ~(i > m - 0)
    OBVIOUS
  <2> QED
    BY <2>1
<1>2. ASSUME NEW l \in Nat, l \in S
      PROVE  l + 1 \in S
  <2> SUFFICES ASSUME NEW i \in 1..m, i > m - (l + 1) PROVE f[i + k] = g[i]
    OBVIOUS
  <2>1. \A j \in 1..m : j > i => j > m - l
    OBVIOUS
  <2>2. Op(c, f, i + k) = Op(d, g, i)
    BY <1>2, <2>1 DEF Keeps
  <2>3. i + k \in 1..n
    OBVIOUS
  <2>4. f[i + k] = Op(c, f, i + k) /\ g[i] = Op(d, g, i)
    BY <2>3 DEF Solves
  <2> QED
    BY <2>2, <2>4
<1>3. m \in S
  <2> HIDE DEF S
  <2> QED
    BY <1>1, <1>2, NatInSet
<1>4. \A i \in 1..m : i > m - m => f[i + k] = g[i]
  BY <1>3
<1> QED
  BY <1>4
=============================================================================
