------------------------------ MODULE IDProofs ------------------------------
(* IDs.  The limb arithmetic of src/c4/encoder.cpp, for digests and texts of   *)
(* any length and any bases: it stays in its words and its arrays, and a       *)
(* number that goes in is the number that comes out.  The tree of a set of IDs *)
(* (src/c4/tree.cpp), which is in powers of two.  And identification           *)
(* (src/c4/id.cpp), for any threads, inputs and block size: every digest       *)
(* returned is that of its own call's input, and Sum commutes.                 *)
EXTENDS IDText, IDs, Digest, FiniteSetTheorems, SequenceTheorems, TLAPS

\* One multiplication.  With limbs below P and a carry below B, the sum is
\* below P * B, and what it carries over is below B again.
LEMMA LimbStep ==
  ASSUME NEW P \in Nat \ {0}, NEW B \in Nat \ {0}, NEW l \in 0..(P - 1), NEW c \in 0..(B - 1)
  PROVE  /\ l * B + c \in Nat
         /\ l * B + c < P * B
         /\ (l * B + c) % P \in 0..(P - 1)
         /\ (l * B + c) \div P \in 0..(B - 1)
<1> DEFINE a == l * B + c
<1>1. a \in Nat
  BY SMT
<1>2. a < P * B
  <2>1. l * B <= (P - 1) * B
    BY SMT
  <2>2. (P - 1) * B = P * B - B
    BY SMT
  <2> QED
    BY <2>1, <2>2, SMT
<1> HIDE DEF a
<1>3. a % P \in 0..(P - 1)
  BY <1>1, SMT
<1>4. a \div P \in Nat /\ P * (a \div P) <= a
  BY <1>1, SMT
<1>5. a \div P < B
  <2> DEFINE q == a \div P
  <2> SUFFICES ASSUME q >= B
               PROVE  FALSE
    BY <1>4
  <2>1. q \in Nat /\ P * q <= a
    BY <1>4
  <2> HIDE DEF q
  <2>2. P * q >= P * B
    BY <2>1, SMT
  <2> QED
    BY <1>1, <1>2, <2>1, <2>2, SMT
<1> QED
  BY <1>1, <1>2, <1>3, <1>4, <1>5 DEF a

-----------------------------------------------------------------------------
(* Powers.                                                                   *)

Powers == INSTANCE FoldFacts WITH Op <- LAMBDA c, p, d : p * d
Values == INSTANCE FoldFacts WITH Op <- LAMBDA c, v, d : v * c + d

Join(c, s, t) == s \o t

Joining == INSTANCE FoldFacts WITH Op <- Join

LEMMA PowFolds ==
  ASSUME NEW b, NEW n
  PROVE  Pow(b, n) = Powers!Fold(0, 1, [k \in 1..n |-> b])
BY DEF Pow, FoldLeft, MapThenFoldSet, Max,
       Powers!Fold, Powers!FoldLeft, Powers!MapThenFoldSet, Powers!Max

LEMMA PowZero ==
  ASSUME NEW b
  PROVE  Pow(b, 0) = 1
<1>1. [k \in 1..0 |-> b] = <<>>
  OBVIOUS
<1> QED
  BY <1>1, PowFolds, Powers!FoldEmpty

LEMMA PowNext ==
  ASSUME NEW b \in Nat, NEW n \in Nat
  PROVE  Pow(b, n + 1) = Pow(b, n) * b
<1> DEFINE s == [k \in 1..n |-> b]
           t == [k \in 1..(n + 1) |-> b]
<1>1. s \in Seq(Nat) /\ Append(s, b) = t
  <2>1. s \in Seq(Nat) /\ t \in Seq(Nat) /\ Len(s) = n /\ Len(t) = n + 1
    OBVIOUS
  <2>2. Append(s, b) \in Seq(Nat) /\ Len(Append(s, b)) = n + 1
        /\ \A k \in 1..(n + 1) : Append(s, b)[k] = t[k]
    BY <2>1, AppendProperties
  <2> HIDE DEF s, t
  <2> QED
    BY <2>1, <2>2, SeqEqual
<1> HIDE DEF s, t
<1>2. \A q \in Seq(Nat) : Powers!Fold(0, 1, Append(q, b)) = Powers!Fold(0, 1, q) * b
  BY Powers!FoldAppend
<1> QED
  BY <1>1, <1>2, PowFolds DEF s, t

\* A set of numbers that has 0, and with each number the next, has all.
LEMMA AllNumbers ==
  ASSUME NEW S, 0 \in S, \A n \in Nat : n \in S => n + 1 \in S
  PROVE  Nat \subseteq S
BY Powers!NatInSet

LEMMA PowType ==
  ASSUME NEW b \in Nat \ {0}, NEW n \in Nat
  PROVE  Pow(b, n) \in Nat \ {0}
<1> DEFINE S == {m \in Nat : Pow(b, m) \in Nat \ {0}}
<1>1. 0 \in S
  BY PowZero
<1>2. ASSUME NEW m \in Nat, m \in S
      PROVE  m + 1 \in S
  <2>1. Pow(b, m) \in Nat \ {0} /\ Pow(b, m + 1) = Pow(b, m) * b
    BY <1>2, PowNext
  <2>2. \A x \in Nat \ {0} : x * b \in Nat \ {0}
    BY SMT
  <2> QED
    BY <2>1, <2>2
<1> HIDE DEF S
<1>3. n \in S
  BY <1>1, <1>2, AllNumbers
<1> QED
  BY <1>3 DEF S

LEMMA PowPlus ==
  ASSUME NEW b \in Nat \ {0}, NEW m \in Nat, NEW n \in Nat
  PROVE  Pow(b, m + n) = Pow(b, m) * Pow(b, n)
<1> DEFINE S == {k \in Nat : Pow(b, m + k) = Pow(b, m) * Pow(b, k)}
<1>1. 0 \in S
  <2>1. m + 0 = m /\ Pow(b, m) \in Nat
    BY PowType
  <2> QED
    BY <2>1, PowZero
<1>2. ASSUME NEW k \in Nat, k \in S
      PROVE  k + 1 \in S
  <2>1. Pow(b, m + k) = Pow(b, m) * Pow(b, k)
    BY <1>2
  <2>2. m + (k + 1) = (m + k) + 1 /\ m + k \in Nat
    OBVIOUS
  <2>3. Pow(b, (m + k) + 1) = Pow(b, m + k) * b /\ Pow(b, k + 1) = Pow(b, k) * b
    BY <2>2, PowNext
  <2>4. Pow(b, m) \in Nat /\ Pow(b, k) \in Nat
    BY PowType
  <2>5. \A x, y \in Nat : (x * y) * b = x * (y * b)
    BY SMT
  <2> QED
    BY <2>1, <2>2, <2>3, <2>4, <2>5
<1> HIDE DEF S
<1>3. n \in S
  BY <1>1, <1>2, AllNumbers
<1> QED
  BY <1>3 DEF S

LEMMA PowTimes ==
  ASSUME NEW b \in Nat \ {0}, NEW m \in Nat, NEW n \in Nat
  PROVE  Pow(Pow(b, m), n) = Pow(b, m * n)
<1> DEFINE S == {k \in Nat : Pow(Pow(b, m), k) = Pow(b, m * k)}
<1>1. 0 \in S
  <2>1. m * 0 = 0
    OBVIOUS
  <2> QED
    BY <2>1, PowZero
<1>2. ASSUME NEW k \in Nat, k \in S
      PROVE  k + 1 \in S
  <2>1. Pow(Pow(b, m), k) = Pow(b, m * k)
    BY <1>2
  <2>2. Pow(b, m) \in Nat \ {0}
    BY PowType
  <2>3. Pow(Pow(b, m), k + 1) = Pow(Pow(b, m), k) * Pow(b, m)
    BY <2>2, PowNext
  <2>4. m * k \in Nat /\ m * (k + 1) = m * k + m
    BY SMT
  <2>5. Pow(b, m * k + m) = Pow(b, m * k) * Pow(b, m)
    BY <2>4, PowPlus
  <2> QED
    BY <2>1, <2>3, <2>4, <2>5
<1> HIDE DEF S
<1>3. n \in S
  BY <1>1, <1>2, AllNumbers
<1> QED
  BY <1>3 DEF S

\* A larger exponent gives no smaller power.
LEMMA PowGrows ==
  ASSUME NEW b \in Nat \ {0}, NEW m \in Nat, NEW n \in Nat, m <= n
  PROVE  Pow(b, m) <= Pow(b, n)
<1>1. n - m \in Nat /\ n = m + (n - m)
  OBVIOUS
<1>2. Pow(b, n) = Pow(b, m) * Pow(b, n - m)
  BY <1>1, PowPlus
<1>3. Pow(b, m) \in Nat \ {0} /\ Pow(b, n - m) \in Nat \ {0}
  BY <1>1, PowType
<1>4. \A x, y \in Nat \ {0} : x <= x * y
  BY SMT
<1> QED
  BY <1>2, <1>3, <1>4

\* And it is larger than the exponent.
LEMMA PowExceeds ==
  ASSUME NEW b \in Nat \ {0, 1}, NEW n \in Nat
  PROVE  Pow(b, n) > n
<1> DEFINE S == {k \in Nat : Pow(b, k) > k}
<1>1. 0 \in S
  BY PowZero
<1>2. ASSUME NEW k \in Nat, k \in S
      PROVE  k + 1 \in S
  <2>1. Pow(b, k) > k /\ Pow(b, k) \in Nat /\ Pow(b, k + 1) = Pow(b, k) * b
    BY <1>2, PowType, PowNext
  <2>2. \A x \in Nat : x > k => x * b > k + 1
    <3> SUFFICES ASSUME NEW x \in Nat, x > k PROVE x * b > k + 1
      OBVIOUS
    <3>1. x * b >= x * 2
      BY SMT
    <3>2. x * 2 > k + 1
      BY SMT
    <3>3. x * b \in Nat /\ x * 2 \in Nat
      BY SMT
    <3> QED
      BY <3>1, <3>2, <3>3
  <2> QED
    BY <2>1, <2>2
<1> HIDE DEF S
<1>3. n \in S
  BY <1>1, <1>2, AllNumbers
<1> QED
  BY <1>3 DEF S

-----------------------------------------------------------------------------
(* The number that a sequence of digits stands for.                          *)

LEMMA ValueFolds ==
  ASSUME NEW s, NEW b
  PROVE  Value(s, b) = Values!Fold(b, 0, s)
BY DEF Value, FoldLeft, MapThenFoldSet, Max,
       Values!Fold, Values!FoldLeft, Values!MapThenFoldSet, Values!Max

LEMMA ValueEmpty ==
  ASSUME NEW b
  PROVE  Value(<<>>, b) = 0
BY ValueFolds, Values!FoldEmpty

LEMMA ValueAppend ==
  ASSUME NEW b \in Nat, NEW s \in Seq(Nat), NEW d \in Nat
  PROVE  Value(Append(s, d), b) = Value(s, b) * b + d
BY ValueFolds, Values!FoldAppend

\* What holds of the empty sequence, and of a sequence with an element appended
\* when it holds of the sequence, holds of all.
LEMMA AllSequences ==
  ASSUME NEW V, NEW S, <<>> \in S,
         \A s \in Seq(V) : \A v \in V : s \in S => Append(s, v) \in S
  PROVE  Seq(V) \subseteq S
<1> DEFINE T == {n \in Nat : \A s \in Seq(V) : Len(s) = n => s \in S}
<1>1. 0 \in T
  BY EmptySeq
<1>2. ASSUME NEW n \in Nat, n \in T
      PROVE  n + 1 \in T
  <2> SUFFICES ASSUME NEW s \in Seq(V), Len(s) = n + 1 PROVE s \in S
    OBVIOUS
  <2>1. s # <<>>
    BY EmptySeq
  <2>2. PICK t \in Seq(V), v \in V : s = Append(t, v)
    BY <2>1, SequenceEmptyOrAppend
  <2>3. Len(t) \in Nat /\ Len(s) = Len(t) + 1
    BY <2>2, AppendProperties, LenProperties
  <2>4. t \in S
    BY <1>2, <2>2, <2>3
  <2> QED
    BY <2>2, <2>4
<1> HIDE DEF T
<1>3. Nat \subseteq T
  BY <1>1, <1>2, AllNumbers
<1> QED
  BY <1>3, LenProperties DEF T

LEMMA ValueType ==
  ASSUME NEW b \in Nat, NEW s \in Seq(Nat)
  PROVE  Value(s, b) \in Nat
<1> DEFINE S == {t \in Seq(Nat) : Value(t, b) \in Nat}
<1>1. <<>> \in S
  BY ValueEmpty, EmptySeq
<1>2. ASSUME NEW t \in Seq(Nat), NEW d \in Nat, t \in S
      PROVE  Append(t, d) \in S
  <2>1. Append(t, d) \in Seq(Nat)
    BY AppendProperties
  <2>2. Value(t, b) \in Nat /\ Value(Append(t, d), b) = Value(t, b) * b + d
    BY <1>2, ValueAppend
  <2>3. \A x \in Nat : x * b + d \in Nat
    BY SMT
  <2> QED
    BY <2>1, <2>2, <2>3
<1> HIDE DEF S
<1>3. s \in S
  BY <1>1, <1>2, AllSequences
<1> QED
  BY <1>3 DEF S

LEMMA ConcatAppend ==
  ASSUME NEW V, NEW s \in Seq(V), NEW t \in Seq(V), NEW d \in V
  PROVE  s \o Append(t, d) = Append(s \o t, d)
<1>1. Append(t, d) = t \o <<d>> /\ <<d>> \in Seq(V)
  BY AppendIsConcat
<1>2. s \o t \in Seq(V)
  BY ConcatProperties
<1>3. Append(s \o t, d) = (s \o t) \o <<d>>
  BY <1>2, AppendIsConcat
<1>4. (s \o t) \o <<d>> = s \o (t \o <<d>>)
  BY <1>1, ConcatAssociative
<1> QED
  BY <1>1, <1>3, <1>4

LEMMA ValueConcat ==
  ASSUME NEW b \in Nat \ {0}, NEW s \in Seq(Nat), NEW t \in Seq(Nat)
  PROVE  Value(s \o t, b) = Value(s, b) * Pow(b, Len(t)) + Value(t, b)
<1> DEFINE S == {u \in Seq(Nat) : Value(s \o u, b) = Value(s, b) * Pow(b, Len(u)) + Value(u, b)}
<1>1. <<>> \in S
  <2>1. s \o <<>> = s /\ Len(<<>>) = 0 /\ <<>> \in Seq(Nat)
    BY ConcatEmptySeq, EmptySeq
  <2>2. Value(s, b) \in Nat
    BY ValueType
  <2>3. Value(s, b) * 1 + 0 = Value(s, b)
    BY <2>2
  <2> QED
    BY <2>1, <2>3, ValueEmpty, PowZero
<1>2. ASSUME NEW u \in Seq(Nat), NEW d \in Nat, u \in S
      PROVE  Append(u, d) \in S
  <2>1. Append(u, d) \in Seq(Nat) /\ Len(Append(u, d)) = Len(u) + 1 /\ Len(u) \in Nat
    BY AppendProperties, LenProperties
  <2>2. s \o u \in Seq(Nat)
    BY ConcatProperties
  <2>3. Value(s \o Append(u, d), b) = Value(s \o u, b) * b + d
    <3>1. s \o Append(u, d) = Append(s \o u, d)
      BY ConcatAppend
    <3> QED
      BY <2>2, <3>1, ValueAppend
  <2>4. Value(s \o u, b) = Value(s, b) * Pow(b, Len(u)) + Value(u, b)
    BY <1>2
  <2>5. Value(Append(u, d), b) = Value(u, b) * b + d
    BY ValueAppend
  <2>6. Pow(b, Len(u) + 1) = Pow(b, Len(u)) * b
    BY <2>1, PowNext
  <2>7. Value(s, b) \in Nat /\ Value(u, b) \in Nat /\ Pow(b, Len(u)) \in Nat
    BY <2>1, ValueType, PowType
  <2>8. \A x, y, p \in Nat : (x * p + y) * b + d = x * (p * b) + (y * b + d)
    BY SMT
  <2>9. Value(s \o Append(u, d), b) = Value(s, b) * Pow(b, Len(Append(u, d))) + Value(Append(u, d), b)
    BY <2>1, <2>3, <2>4, <2>5, <2>6, <2>7, <2>8
  <2> QED
    BY <2>1, <2>9
<1> HIDE DEF S
<1>3. t \in S
  BY <1>1, <1>2, AllSequences
<1> QED
  BY <1>3 DEF S

LEMMA ValueBelow ==
  ASSUME NEW b \in Nat \ {0}, NEW s \in Seq(0..(b - 1))
  PROVE  Value(s, b) < Pow(b, Len(s))
<1> DEFINE V == 0..(b - 1)
           S == {t \in Seq(V) : Value(t, b) < Pow(b, Len(t))}
<1>1. <<>> \in S
  BY ValueEmpty, EmptySeq, PowZero
<1>2. ASSUME NEW t \in Seq(V), NEW d \in V, t \in S
      PROVE  Append(t, d) \in S
  <2>1. Append(t, d) \in Seq(V) /\ Len(Append(t, d)) = Len(t) + 1 /\ Len(t) \in Nat
    BY AppendProperties, LenProperties
  <2>2. t \in Seq(Nat) /\ d \in Nat
    BY SeqMonotonic
  <2>3. Value(Append(t, d), b) = Value(t, b) * b + d /\ Value(t, b) \in Nat
    BY <2>2, ValueAppend, ValueType
  <2>4. Pow(b, Len(t) + 1) = Pow(b, Len(t)) * b /\ Pow(b, Len(t)) \in Nat \ {0}
    BY <2>1, PowNext, PowType
  <2>5. Value(t, b) < Pow(b, Len(t))
    BY <1>2
  <2>6. Value(t, b) \in 0..(Pow(b, Len(t)) - 1)
    BY <2>3, <2>4, <2>5
  <2>7. Value(t, b) * b + d < Pow(b, Len(t)) * b
    BY <2>4, <2>6, LimbStep
  <2> QED
    BY <2>1, <2>3, <2>4, <2>7
<1> HIDE DEF S
<1>3. s \in S
  BY <1>1, <1>2, AllSequences
<1> QED
  BY <1>3 DEF S

\* Quotient and remainder are the only ones.
LEMMA DivideOnce ==
  ASSUME NEW b \in Nat \ {0}, NEW x \in Nat, NEW y \in Nat, NEW d \in 0..(b - 1), NEW e \in 0..(b - 1),
         x * b + d = y * b + e
  PROVE  x = y /\ d = e
<1>1. \A u, v \in Nat : u < v => v * b >= u * b + b
  <2> SUFFICES ASSUME NEW u \in Nat, NEW v \in Nat, u < v PROVE v * b >= u * b + b
    OBVIOUS
  <2>1. (v - u) \in Nat \ {0} /\ v = u + (v - u)
    OBVIOUS
  <2>2. \A z \in Nat \ {0} : (u + z) * b >= u * b + b
    <3> SUFFICES ASSUME NEW z \in Nat \ {0} PROVE (u + z) * b >= u * b + b
      OBVIOUS
    <3>1. (u + z) * b = u * b + z * b
      BY SMT
    <3>2. z * b >= b
      BY SMT
    <3>3. u * b \in Nat /\ z * b \in Nat
      BY SMT
    <3> QED
      BY <3>1, <3>2, <3>3
  <2> QED
    BY <2>1, <2>2
<1> DEFINE p == x * b
           q == y * b
<1>2. p \in Nat /\ q \in Nat /\ p + d = q + e
  BY SMT
<1>3. x < y => q >= p + b
  BY <1>1
<1>4. y < x => p >= q + b
  BY <1>1
<1>5. x = y => p = q
  OBVIOUS
<1> HIDE DEF p, q
<1> QED
  BY <1>2, <1>3, <1>4, <1>5

LEMMA Divide ==
  ASSUME NEW b \in Nat \ {0}, NEW a \in Nat
  PROVE  a \div b \in Nat /\ a % b \in 0..(b - 1) /\ a = (a \div b) * b + (a % b)
BY SMT

LEMMA DivideIs ==
  ASSUME NEW b \in Nat \ {0}, NEW q \in Nat, NEW r \in 0..(b - 1)
  PROVE  (q * b + r) \div b = q /\ (q * b + r) % b = r
<1> DEFINE a == q * b + r
<1>1. a \in Nat
  BY SMT
<1> HIDE DEF a
<1>2. a \div b \in Nat /\ a % b \in 0..(b - 1) /\ a = (a \div b) * b + (a % b)
  BY <1>1, Divide
<1>3. q * b + r = (a \div b) * b + (a % b)
  BY <1>2 DEF a
<1>4. q = a \div b /\ r = a % b
  BY <1>2, <1>3, DivideOnce
<1> QED
  BY <1>4 DEF a

LEMMA DivideTwice ==
  ASSUME NEW b \in Nat \ {0}, NEW p \in Nat \ {0}, NEW a \in Nat
  PROVE  (a \div b) \div p = a \div (p * b)
<1> DEFINE q == a \div b
           r == a % b
           u == q \div p
           w == q % p
<1>1. q \in Nat /\ r \in 0..(b - 1) /\ a = q * b + r
  BY Divide
<1> HIDE DEF q, r
<1>2. u \in Nat /\ w \in 0..(p - 1) /\ q = u * p + w
  BY <1>1, Divide
<1> HIDE DEF u, w
<1>3. w * b + r \in Nat /\ w * b + r < p * b
  BY <1>1, <1>2, LimbStep
<1>4. p * b \in Nat \ {0}
  BY SMT
<1>5. a = u * (p * b) + (w * b + r)
  <2>1. a = (u * p + w) * b + r
    BY <1>1, <1>2
  <2>2. \A k, l, m \in Nat : (k * p + l) * b + m = k * (p * b) + (l * b + m)
    BY SMT
  <2>3. w \in Nat /\ r \in Nat
    BY <1>1, <1>2
  <2> QED
    BY <1>2, <2>1, <2>2, <2>3
<1>6. w * b + r \in 0..(p * b - 1)
  <2> DEFINE x == w * b + r
             y == p * b
  <2>1. x \in Nat /\ x < y /\ y \in Nat
    BY <1>3, <1>4
  <2> HIDE DEF x, y
  <2>2. x \in 0..(y - 1)
    BY <2>1
  <2> QED
    BY <2>2 DEF x, y
<1>7. a \div (p * b) = u
  BY <1>2, <1>4, <1>5, <1>6, DivideIs
<1> QED
  BY <1>7 DEF u, q

\* Two sequences of as many digits that stand for one number are one.
LEMMA ValueOnce ==
  ASSUME NEW b \in Nat \ {0}, NEW s \in Seq(0..(b - 1)), NEW t \in Seq(0..(b - 1)),
         Len(s) = Len(t), Value(s, b) = Value(t, b)
  PROVE  s = t
<1> DEFINE V == 0..(b - 1)
           S == {u \in Seq(V) : \A w \in Seq(V) :
                   Len(u) = Len(w) /\ Value(u, b) = Value(w, b) => u = w}
<1>1. <<>> \in S
  BY EmptySeq
<1>2. ASSUME NEW u \in Seq(V), NEW d \in V, u \in S
      PROVE  Append(u, d) \in S
  <2>1. Append(u, d) \in Seq(V) /\ Len(Append(u, d)) = Len(u) + 1 /\ Len(u) \in Nat
    BY AppendProperties, LenProperties
  <2>2. ASSUME NEW w \in Seq(V), Len(Append(u, d)) = Len(w), Value(Append(u, d), b) = Value(w, b)
        PROVE  Append(u, d) = w
    <3>1. w # <<>>
      BY <2>1, <2>2, EmptySeq
    <3>2. PICK z \in Seq(V), e \in V : w = Append(z, e)
      BY <3>1, SequenceEmptyOrAppend
    <3>3. Len(w) = Len(z) + 1 /\ Len(z) \in Nat
      BY <3>2, AppendProperties, LenProperties
    <3>4. z \in Seq(Nat) /\ e \in Nat /\ u \in Seq(Nat) /\ d \in Nat
      BY SeqMonotonic
    <3>5. Value(Append(u, d), b) = Value(u, b) * b + d /\ Value(w, b) = Value(z, b) * b + e
      BY <3>2, <3>4, ValueAppend
    <3>6. Value(u, b) \in Nat /\ Value(z, b) \in Nat
      BY <3>4, ValueType
    <3>7. Value(u, b) = Value(z, b) /\ d = e
      <4>1. Value(u, b) * b + d = Value(z, b) * b + e
        BY <2>2, <3>5
      <4>2. d \in 0..(b - 1) /\ e \in 0..(b - 1)
        OBVIOUS
      <4> DEFINE x == Value(u, b)
                 y == Value(z, b)
      <4> HIDE DEF x, y, S, V
      <4>3. x \in Nat /\ y \in Nat /\ x * b + d = y * b + e
        BY <3>6, <4>1 DEF x, y
      <4>4. (x * b + d) \div b = x /\ (x * b + d) % b = d
        BY <4>2, <4>3, DivideIs
      <4>5. (y * b + e) \div b = y /\ (y * b + e) % b = e
        BY <4>2, <4>3, DivideIs
      <4>6. x = y /\ d = e
        BY ONLY <4>3, <4>4, <4>5, Zenon
      <4> QED
        BY <4>6 DEF x, y
    <3>8. u = z
      BY <1>2, <2>1, <2>2, <3>3, <3>7
    <3> QED
      BY <3>2, <3>7, <3>8
  <2> QED
    BY <2>1, <2>2
<1> HIDE DEF S
<1>3. s \in S
  BY <1>1, <1>2, AllSequences
<1> QED
  BY <1>3 DEF S

LEMMA DigitsType ==
  ASSUME NEW b \in Nat \ {0}, NEW v \in Nat, NEW n \in Nat
  PROVE  Digits(v, b, n) \in Seq(0..(b - 1)) /\ Len(Digits(v, b, n)) = n
<1>1. ASSUME NEW k \in 1..n
      PROVE  (v \div Pow(b, n - k)) % b \in 0..(b - 1)
  <2>1. Pow(b, n - k) \in Nat \ {0}
    BY PowType
  <2>2. v \div Pow(b, n - k) \in Nat
    BY <2>1, Divide
  <2> QED
    BY <2>2, Divide
<1> DEFINE s == Digits(v, b, n)
<1>2. s \in [1..n -> 0..(b - 1)]
  BY <1>1 DEF Digits
<1> HIDE DEF s
<1>3. s \in Seq(0..(b - 1)) /\ Len(s) = n
  BY <1>2
<1> QED
  BY <1>3 DEF s

LEMMA DigitsNext ==
  ASSUME NEW b \in Nat \ {0}, NEW v \in Nat, NEW n \in Nat
  PROVE  Digits(v, b, n + 1) = Append(Digits(v \div b, b, n), v % b)
<1> DEFINE q == v \div b
           s == Digits(v, b, n + 1)
           t == Digits(q, b, n)
           u == Append(t, v % b)
<1>1. q \in Nat /\ v % b \in 0..(b - 1)
  BY Divide
<1> HIDE DEF q
<1>2. s \in Seq(0..(b - 1)) /\ Len(s) = n + 1 /\ t \in Seq(0..(b - 1)) /\ Len(t) = n
  <2>1. n + 1 \in Nat
    OBVIOUS
  <2>2. s \in Seq(0..(b - 1)) /\ Len(s) = n + 1
    BY <2>1, DigitsType
  <2>3. t \in Seq(0..(b - 1)) /\ Len(t) = n
    BY <1>1, DigitsType
  <2> QED
    BY <2>2, <2>3
<1>3. \A k \in 1..(n + 1) : s[k] = (v \div Pow(b, (n + 1) - k)) % b
  BY DEF Digits
<1>4. \A k \in 1..n : t[k] = (q \div Pow(b, n - k)) % b
  BY DEF Digits
<1> HIDE DEF s, t
<1>5. u \in Seq(0..(b - 1)) /\ Len(u) = n + 1 /\ u[n + 1] = v % b /\ \A k \in 1..n : u[k] = t[k]
  BY <1>1, <1>2, AppendProperties
<1> HIDE DEF u
<1>6. ASSUME NEW k \in 1..n
      PROVE  s[k] = u[k]
  <2>1. (n + 1) - k = (n - k) + 1 /\ n - k \in Nat /\ k \in 1..(n + 1)
    OBVIOUS
  <2>2. Pow(b, (n - k) + 1) = Pow(b, n - k) * b /\ Pow(b, n - k) \in Nat \ {0}
    BY <2>1, PowNext, PowType
  <2>3. q \div Pow(b, n - k) = v \div (Pow(b, n - k) * b)
    BY <2>2, DivideTwice DEF q
  <2> QED
    BY <1>3, <1>4, <1>5, <2>1, <2>2, <2>3
<1>7. s[n + 1] = u[n + 1]
  <2>1. (n + 1) - (n + 1) = 0 /\ n + 1 \in 1..(n + 1)
    OBVIOUS
  <2>2. v \div 1 = v
    BY SMT
  <2>3. s[n + 1] = (v \div Pow(b, 0)) % b
    BY <1>3, <2>1
  <2> QED
    BY <1>5, <2>2, <2>3, PowZero
<1>8. \A k \in 1..(n + 1) : s[k] = u[k]
  BY <1>6, <1>7
<1>9. s = u
  BY <1>2, <1>5, <1>8, SeqEqual
<1> QED
  BY <1>9 DEF s, t, u, q

\* The digits stand for the number, when there are enough of them.
LEMMA DigitsValue ==
  ASSUME NEW b \in Nat \ {0}, NEW v \in Nat, NEW n \in Nat, v < Pow(b, n)
  PROVE  Value(Digits(v, b, n), b) = v
<1> DEFINE S == {k \in Nat : \A x \in Nat : x < Pow(b, k) => Value(Digits(x, b, k), b) = x}
<1>1. 0 \in S
  <2> SUFFICES ASSUME NEW x \in Nat, x < Pow(b, 0) PROVE Value(Digits(x, b, 0), b) = x
    OBVIOUS
  <2>1. x = 0
    BY PowZero
  <2>2. Digits(x, b, 0) = <<>>
    BY DigitsType, EmptySeq
  <2> QED
    BY <2>1, <2>2, ValueEmpty
<1>2. ASSUME NEW k \in Nat, k \in S
      PROVE  k + 1 \in S
  <2> SUFFICES ASSUME NEW x \in Nat, x < Pow(b, k + 1)
               PROVE  Value(Digits(x, b, k + 1), b) = x
    OBVIOUS
  <2> DEFINE q == x \div b
             r == x % b
             p == Pow(b, k)
  <2>1. q \in Nat /\ r \in 0..(b - 1) /\ x = q * b + r
    BY Divide
  <2>2. Digits(x, b, k + 1) = Append(Digits(q, b, k), r)
    BY DigitsNext
  <2>3. p \in Nat /\ Pow(b, k + 1) = p * b
    BY PowNext, PowType
  <2> HIDE DEF q, r, p
  <2>4. q < p
    <3> SUFFICES ASSUME q >= p PROVE FALSE
      BY <2>1, <2>3
    <3>1. q * b >= p * b
      <4>1. (q - p) \in Nat /\ q = p + (q - p)
        BY <2>1, <2>3
      <4>2. \A z \in Nat : (p + z) * b >= p * b
        <5> SUFFICES ASSUME NEW z \in Nat PROVE (p + z) * b >= p * b
          OBVIOUS
        <5>1. (p + z) * b = p * b + z * b /\ z * b \in Nat /\ p * b \in Nat
          BY <2>3, SMT
        <5> QED
          BY <5>1
      <4> QED
        BY <4>1, <4>2
    <3>2. q * b \in Nat /\ p * b \in Nat
      BY <2>1, <2>3, SMT
    <3> QED
      BY <2>1, <2>3, <3>1, <3>2
  <2>5. Value(Digits(q, b, k), b) = q
    BY <1>2, <2>1, <2>4 DEF p
  <2>6. Digits(q, b, k) \in Seq(Nat) /\ r \in Nat
    BY <2>1, DigitsType, SeqMonotonic
  <2>7. Value(Append(Digits(q, b, k), r), b) = q * b + r
    BY <2>5, <2>6, ValueAppend
  <2> QED
    BY <2>1, <2>2, <2>7
<1> HIDE DEF S
<1>3. n \in S
  BY <1>1, <1>2, AllNumbers
<1> QED
  BY <1>3 DEF S

\* Every number has a number of digits.
LEMMA NumberOfDigitsIs ==
  ASSUME NEW b \in Nat \ {0, 1}, NEW v \in Nat
  PROVE  LET n == NumberOfDigits(v, b)
         IN n \in Nat \ {0} /\ v < Pow(b, n) /\ (n = 1 \/ v >= Pow(b, n - 1))
<1> DEFINE Fits(n) == v < Pow(b, n) /\ (n = 1 \/ v >= Pow(b, n - 1))
           S == {k \in Nat : v < Pow(b, k + 1) => \E n \in 1..(k + 1) : Fits(n)}
<1>1. 0 \in S
  OBVIOUS
<1>2. ASSUME NEW k \in Nat, k \in S
      PROVE  k + 1 \in S
  <2> SUFFICES ASSUME v < Pow(b, (k + 1) + 1)
               PROVE  \E n \in 1..((k + 1) + 1) : Fits(n)
    OBVIOUS
  <2>1. CASE v < Pow(b, k + 1)
    <3>1. PICK n \in 1..(k + 1) : Fits(n)
      BY <1>2, <2>1
    <3>2. n \in 1..((k + 1) + 1)
      OBVIOUS
    <3> QED
      BY <3>1, <3>2
  <2>2. CASE ~(v < Pow(b, k + 1))
    <3> DEFINE n == (k + 1) + 1
    <3>1. n \in 1..((k + 1) + 1) /\ n - 1 = k + 1
      OBVIOUS
    <3>2. Pow(b, k + 1) \in Nat
      BY PowType
    <3>3. Fits(n)
      BY <2>2, <3>1, <3>2
    <3> QED
      BY <3>1, <3>3
  <2> QED
    BY <2>1, <2>2
<1>3. v \in S
  <2> HIDE DEF S
  <2> QED
    BY <1>1, <1>2, AllNumbers
<1>4. v < Pow(b, v + 1)
  <2>1. Pow(b, v + 1) > v + 1 /\ Pow(b, v + 1) \in Nat
    BY PowExceeds, PowType
  <2> QED
    BY <2>1
<1>5. \E n \in 1..(v + 1) : Fits(n)
  BY <1>3, <1>4
<1>6. NumberOfDigits(v, b) = CHOOSE n \in 1..(v + 1) : Fits(n)
  BY DEF NumberOfDigits
<1> HIDE DEF Fits
<1>7. NumberOfDigits(v, b) \in 1..(v + 1) /\ Fits(NumberOfDigits(v, b))
  BY <1>5, <1>6
<1> QED
  BY <1>7 DEF Fits

\* Zeros in front change nothing but the length.
LEMMA PadIs ==
  ASSUME NEW b \in Nat \ {0}, NEW s \in Seq(0..(b - 1)), NEW n \in Nat, Len(s) <= n
  PROVE  /\ Pad(s, n) \in Seq(0..(b - 1)) /\ Len(Pad(s, n)) = n
         /\ Value(Pad(s, n), b) = Value(s, b)
<1>1. Len(s) \in Nat
  BY LenProperties
<1>2. CASE Len(s) >= n
  <2>1. Len(s) = n /\ Pad(s, n) = s
    BY <1>1, <1>2 DEF Pad
  <2> QED
    BY <2>1
<1>3. CASE ~(Len(s) >= n)
  <2> DEFINE m == n - Len(s)
             z == [k \in 1..m |-> 0]
  <2>1. m \in Nat /\ m + Len(s) = n /\ Pad(s, n) = z \o s
    BY <1>1, <1>3 DEF Pad
  <2> HIDE DEF m
  <2> DEFINE S == {i \in Nat : Value([k \in 1..i |-> 0], b) = 0}
  <2>2. 0 \in S
    <3>1. [k \in 1..0 |-> 0] = <<>>
      OBVIOUS
    <3> QED
      BY <3>1, ValueEmpty
  <2>3. ASSUME NEW i \in Nat, i \in S
        PROVE  i + 1 \in S
    <3> DEFINE x == [k \in 1..i |-> 0]
               y == [k \in 1..(i + 1) |-> 0]
    <3>1. x \in Seq(Nat) /\ y \in Seq(Nat) /\ Len(x) = i /\ Len(y) = i + 1
      OBVIOUS
    <3>2. Append(x, 0) \in Seq(Nat) /\ Len(Append(x, 0)) = i + 1
          /\ \A k \in 1..(i + 1) : Append(x, 0)[k] = y[k]
      BY <3>1, AppendProperties
    <3>3. Value(x, b) = 0
      BY <2>3
    <3> HIDE DEF x, y
    <3>4. y = Append(x, 0)
      BY <3>1, <3>2, SeqEqual
    <3>5. Value(Append(x, 0), b) = Value(x, b) * b + 0
      BY <3>1, ValueAppend
    <3>6. Value(y, b) = 0
      BY <3>3, <3>4, <3>5
    <3> QED
      BY <3>6 DEF y
  <2>4. Value(z, b) = 0
    <3> HIDE DEF S
    <3>1. m \in S
      BY <2>1, <2>2, <2>3, AllNumbers
    <3> QED
      BY <3>1 DEF S
  <2>5. z \in Seq(0..(b - 1)) /\ Len(z) = m
    BY <2>1
  <2> HIDE DEF z, S
  <2>6. z \in Seq(Nat) /\ s \in Seq(Nat)
    BY <2>5, SeqMonotonic
  <2>7. z \o s \in Seq(0..(b - 1)) /\ Len(z \o s) = n
    BY <1>1, <2>1, <2>5, ConcatProperties
  <2>8. Value(z \o s, b) = Value(z, b) * Pow(b, Len(s)) + Value(s, b)
    BY <2>6, ValueConcat
  <2>9. Pow(b, Len(s)) \in Nat /\ Value(s, b) \in Nat
    BY <1>1, <2>6, PowType, ValueType
  <2> QED
    BY <2>1, <2>4, <2>7, <2>8, <2>9
<1> QED
  BY <1>2, <1>3

-----------------------------------------------------------------------------
(* The number in the limbs, and the digits taken out of them.                *)

\* g[i] is the number that the limbs from i on hold, below p each.
Tails(l, p, g) ==
  /\ g \in [1..(Len(l) + 1) -> Nat]
  /\ \A i \in 1..Len(l) : g[i] = l[i] + p * g[i + 1]
  /\ g[Len(l) + 1] = 0
  /\ l # <<>> => g[Len(l)] > 0

\* The digits s stand for v, with none more than needed.
DigitsOf(s, b, v) ==
  /\ s \in Seq(0..(b - 1)) /\ Len(s) > 0
  /\ Value(s, b) = v
  /\ Pow(b, Len(s) - 1) <= v

\* The digits of the limbs below the top, from the second highest on.
Lower(l, b, p) == [k \in 1..(Len(l) - 1) |-> Digits(l[Len(l) - k], b, p)]

TopDigits(l, b) == Digits(l[Len(l)], b, NumberOfDigits(l[Len(l)], b))

LEMMA ExtractFolds ==
  ASSUME NEW b, NEW p, limbs # <<>>
  PROVE  Extract(b, p) = Joining!Fold(0, TopDigits(limbs, b), Lower(limbs, b, p))
BY DEF Extract, TopDigits, Lower, Join, FoldLeft, MapThenFoldSet, Max,
       Joining!Fold, Joining!FoldLeft, Joining!MapThenFoldSet, Joining!Max

\* a[k] is base followed by the first k sequences of seq.
Joined(a, base, seq) ==
  /\ a[0] = base
  /\ \A k \in 1..Len(seq) : a[k] = a[k - 1] \o seq[k]
  /\ Joining!Fold(0, base, seq) = a[Len(seq)]

LEMMA JoinWalk ==
  ASSUME NEW base, NEW V, NEW seq \in Seq(V)
  PROVE  \E a : Joined(a, base, seq)
<1>1. PICK a : /\ a[0] = base
               /\ \A k \in 1..Len(seq) : a[k] = Join(0, a[k - 1], seq[k])
               /\ Joining!Fold(0, base, seq) = a[Len(seq)]
  BY Joining!FoldWalk
<1>2. Joined(a, base, seq)
  BY <1>1 DEF Join, Joined
<1> QED
  BY <1>2

LEMMA TopDigitsAre ==
  ASSUME NEW b \in Nat \ {0, 1}, NEW v \in Nat \ {0}
  PROVE  DigitsOf(Digits(v, b, NumberOfDigits(v, b)), b, v)
<1> DEFINE n == NumberOfDigits(v, b)
           s == Digits(v, b, n)
<1>1. n \in Nat \ {0} /\ v < Pow(b, n) /\ (n = 1 \/ v >= Pow(b, n - 1))
  BY NumberOfDigitsIs
<1> HIDE DEF n
<1>2. s \in Seq(0..(b - 1)) /\ Len(s) = n /\ Value(s, b) = v
  BY <1>1, DigitsType, DigitsValue
<1> HIDE DEF s
<1>3. Pow(b, n - 1) <= v
  <2>1. n - 1 \in Nat /\ Pow(b, n - 1) \in Nat
    BY <1>1, PowType
  <2>2. n = 1 => Pow(b, n - 1) = 1
    <3>1. n = 1 => n - 1 = 0
      OBVIOUS
    <3> QED
      BY <3>1, PowZero
  <2> QED
    BY <1>1, <2>1, <2>2
<1>4. DigitsOf(s, b, v)
  BY <1>1, <1>2, <1>3 DEF DigitsOf
<1> QED
  BY <1>4 DEF s, n

\* The digits of one more limb.
LEMMA DigitsOfNext ==
  ASSUME NEW b \in Nat \ {0, 1}, NEW p \in Nat, NEW v \in Nat, NEW s, DigitsOf(s, b, v),
         NEW l \in 0..(Pow(b, p) - 1), v > 0
  PROVE  DigitsOf(s \o Digits(l, b, p), b, l + Pow(b, p) * v)
<1> DEFINE t == Digits(l, b, p)
           q == Pow(b, p)
           n == Len(s)
<1>1. q \in Nat \ {0}
  BY PowType
<1>2. t \in Seq(0..(b - 1)) /\ Len(t) = p /\ Value(t, b) = l
  BY <1>1, DigitsType, DigitsValue
<1>3. s \in Seq(0..(b - 1)) /\ n > 0 /\ Value(s, b) = v /\ n \in Nat
  BY LenProperties DEF DigitsOf
<1> HIDE DEF t
<1>4. s \o t \in Seq(0..(b - 1)) /\ Len(s \o t) = n + p
  BY <1>2, <1>3, ConcatProperties
<1>5. s \in Seq(Nat) /\ t \in Seq(Nat)
  BY <1>2, <1>3, SeqMonotonic
<1>6. Value(s \o t, b) = v * q + l
  BY <1>2, <1>3, <1>5, ValueConcat
<1>7. Pow(b, n - 1) <= v
  BY DEF DigitsOf
<1>8. Pow(b, (n + p) - 1) <= v * q + l
  <2>1. n - 1 \in Nat /\ (n + p) - 1 = (n - 1) + p
    BY <1>3
  <2>2. Pow(b, (n - 1) + p) = Pow(b, n - 1) * q /\ Pow(b, n - 1) \in Nat
    BY <2>1, PowPlus, PowType
  <2> DEFINE x == Pow(b, n - 1)
  <2> HIDE DEF q, x, n
  <2>3. x \in Nat /\ x <= v
    BY <1>7, <2>2 DEF x
  <2>4. x * q <= v * q
    <3>1. (v - x) \in Nat /\ v = x + (v - x)
      BY <2>3
    <3>2. \A z \in Nat : (x + z) * q >= x * q
      <4> SUFFICES ASSUME NEW z \in Nat PROVE (x + z) * q >= x * q
        OBVIOUS
      <4>1. (x + z) * q = x * q + z * q /\ z * q \in Nat /\ x * q \in Nat
        BY <1>1, <2>3, SMT
      <4> QED
        BY <4>1
    <3>3. x * q \in Nat /\ v * q \in Nat
      BY <1>1, <2>3, SMT
    <3> QED
      BY <3>1, <3>2, <3>3
  <2>5. x * q \in Nat /\ v * q \in Nat /\ l \in Nat
    BY <1>1, <2>3, SMT
  <2>6. x * q <= v * q + l
    BY <2>4, <2>5
  <2> QED
    BY <2>1, <2>2, <2>6 DEF x
<1>9. v * q + l = l + q * v
  BY <1>1, SMT
<1> HIDE DEF q, n
<1>10. DigitsOf(s \o t, b, l + q * v)
  BY <1>3, <1>4, <1>6, <1>8, <1>9 DEF DigitsOf
<1> QED
  BY <1>10 DEF t, q

LEMMA ExtractIs ==
  ASSUME NEW b \in Nat \ {0, 1}, NEW p \in Nat, limbs \in Seq(0..(Pow(b, p) - 1)),
         limbs # <<>>, NEW g, Tails(limbs, Pow(b, p), g)
  PROVE  DigitsOf(Extract(b, p), b, g[1])
<1> DEFINE n == Len(limbs)
           q == Lower(limbs, b, p)
           V == Seq(0..(b - 1))
<1>1. n \in Nat \ {0}
  BY EmptySeq, LenProperties
<1>2. \A i \in 1..n : limbs[i] \in 0..(Pow(b, p) - 1) /\ limbs[i] \in Nat
  <2>1. \A i \in 1..n : limbs[i] \in 0..(Pow(b, p) - 1)
    BY ElementOfSeq
  <2>2. Pow(b, p) \in Nat
    BY PowType
  <2> HIDE DEF n
  <2> QED
    BY <2>1, <2>2
<1>3. q \in Seq(V) /\ Len(q) = n - 1 /\ \A k \in 1..(n - 1) : q[k] = Digits(limbs[n - k], b, p)
  <2>1. \A k \in 1..(n - 1) : n - k \in 1..n
    BY <1>1
  <2>2. \A k \in 1..(n - 1) : Digits(limbs[n - k], b, p) \in V
    BY <1>2, <2>1, DigitsType
  <2>3. q \in [1..(n - 1) -> V] /\ n - 1 \in Nat
    BY <1>1, <2>2 DEF Lower
  <2>4. \A k \in 1..(n - 1) : q[k] = Digits(limbs[n - k], b, p)
    BY DEF Lower
  <2> HIDE DEF q, V, n
  <2> QED
    BY <2>3, <2>4
<1> HIDE DEF q, V
<1>4. PICK a : /\ a[0] = TopDigits(limbs, b)
               /\ \A k \in 1..(n - 1) : a[k] = a[k - 1] \o q[k]
               /\ Extract(b, p) = a[n - 1]
  <2>1. PICK a : Joined(a, TopDigits(limbs, b), q)
    BY <1>3, JoinWalk
  <2>2. Extract(b, p) = Joining!Fold(0, TopDigits(limbs, b), q)
    BY ExtractFolds DEF q
  <2> QED
    BY <1>3, <2>1, <2>2 DEF Joined
<1>5. /\ \A i \in 1..n : g[i] = limbs[i] + Pow(b, p) * g[i + 1] /\ g[i] \in Nat
      /\ g[n + 1] = 0 /\ g[n] > 0
  BY <1>1 DEF Tails
<1> DEFINE S == {k \in Nat : k <= n - 1 => DigitsOf(a[k], b, g[n - k]) /\ g[n - k] > 0}
<1>6. 0 \in S
  <2>1. n - 0 = n /\ n \in 1..n
    BY <1>1
  <2>2. Pow(b, p) \in Nat
    BY PowType
  <2>3. g[n] = limbs[n] + Pow(b, p) * 0
    BY <1>5, <2>1
  <2>4. Pow(b, p) * 0 = 0
    BY <2>2, SMT
  <2>5. g[n] = limbs[n]
    BY <1>2, <2>1, <2>3, <2>4
  <2>6. DigitsOf(TopDigits(limbs, b), b, limbs[n])
    BY <1>2, <1>5, <2>1, <2>5, TopDigitsAre DEF TopDigits
  <2> QED
    BY <1>4, <1>5, <2>1, <2>5, <2>6
<1>7. ASSUME NEW k \in Nat, k \in S
      PROVE  k + 1 \in S
  <2> SUFFICES ASSUME k + 1 <= n - 1
               PROVE  DigitsOf(a[k + 1], b, g[n - (k + 1)]) /\ g[n - (k + 1)] > 0
    OBVIOUS
  <2> DEFINE i == n - (k + 1)
  <2>1. i \in 1..n /\ i + 1 = n - k /\ i + 1 \in 1..n /\ k + 1 \in 1..(n - 1)
        /\ (k + 1) - 1 = k /\ k <= n - 1
    BY <1>1
  <2>2. DigitsOf(a[k], b, g[i + 1]) /\ g[i + 1] > 0 /\ g[i + 1] \in Nat
    BY <1>5, <1>7, <2>1
  <2>3. a[k + 1] = a[k] \o Digits(limbs[i], b, p)
    BY <1>3, <1>4, <2>1
  <2> HIDE DEF i
  <2>4. g[i] = limbs[i] + Pow(b, p) * g[i + 1] /\ limbs[i] \in 0..(Pow(b, p) - 1)
    BY <1>2, <1>5, <2>1
  <2>5. DigitsOf(a[k + 1], b, g[i])
    BY <2>2, <2>3, <2>4, DigitsOfNext
  <2>6. g[i] > 0
    <3>1. Pow(b, p) \in Nat \ {0}
      BY PowType
    <3>2. \A x, y \in Nat : \A z \in Nat \ {0} : y > 0 => x + z * y > 0
      BY SMT
    <3> QED
      BY <1>2, <2>1, <2>2, <2>4, <3>1, <3>2
  <2> QED
    BY <2>5, <2>6 DEF i
<1>8. n - 1 \in S
  <2> HIDE DEF S
  <2>1. n - 1 \in Nat
    BY <1>1
  <2> QED
    BY <1>6, <1>7, <2>1, AllNumbers
<1>9. n - (n - 1) = 1 /\ n - 1 <= n - 1
  BY <1>1
<1> QED
  BY <1>4, <1>8, <1>9

-----------------------------------------------------------------------------
(* The loops over the limbs.                                                 *)

\* The limbs below i are multiplied, those from i on are not, and c is to be
\* added to them: g[k] is what the limbs from k on come to when the loops end,
\* or what they came to before for those past i.
Holds(l, i, c, b, p, g) ==
  /\ i \in 1..(Len(l) + 1)
  /\ g \in [1..(Len(l) + 1) -> Nat]
  /\ \A k \in 1..Len(l) : k # i => g[k] = l[k] + p * g[k + 1]
  /\ i <= Len(l) => g[i] = b * (l[i] + p * g[i + 1]) + c
  /\ g[Len(l) + 1] = IF i = Len(l) + 1 THEN c ELSE 0
  /\ l # <<>> => g[Len(l)] > 0

\* In some such way the number is v.
HoldsNumber(l, i, c, b, p, v) == \E g : Holds(l, i, c, b, p, g) /\ g[1] = v

\* The sum of a multiplied limb and the carry, and its parts.
Divided(x, b, c, q, p, r) == x * b + c = q * p + r

\* And what that does to a limb with y above it.
CarriedOver(x, b, c, q, p, r, y) == b * (x + p * y) + c = r + p * (b * y + q)

LEMMA Carries ==
  ASSUME NEW p \in Nat, NEW b \in Nat, NEW x \in Nat, NEW y \in Nat, NEW c \in Nat,
         NEW q \in Nat, NEW r \in Nat, Divided(x, b, c, q, p, r)
  PROVE  CarriedOver(x, b, c, q, p, r, y)
<1> DEFINE u == x * b
           v == q * p
           w == b * y
           z == p * w
<1>1. u \in Nat /\ v \in Nat /\ w \in Nat /\ z \in Nat
  BY SMT
<1>2. b * (x + p * y) + c = (u + z) + c
  BY SMT
<1>3. r + p * (w + q) = r + (z + v)
  BY SMT
<1>4. u + c = v + r
  BY DEF Divided
<1>5. b * (x + p * y) \in Nat /\ p * (w + q) \in Nat
  BY SMT
<1>6. (u + z) + c = r + (z + v)
  <2> HIDE DEF u, v, w, z
  <2> QED
    BY <1>1, <1>4
<1> QED
  BY <1>2, <1>3, <1>6 DEF CarriedOver

LEMMA SumType ==
  ASSUME NEW x \in Nat, NEW y \in Nat, NEW z \in Nat
  PROVE  /\ x * y + z \in Nat
         /\ x > 0 /\ y > 0 => x * y + z > 0
<1> DEFINE u == x * y
<1>1. u \in Nat
  BY SMT
<1>2. x > 0 /\ y > 0 => u > 0
  BY SMT
<1> HIDE DEF u
<1>3. u + z \in Nat /\ (x > 0 /\ y > 0 => u + z > 0)
  BY <1>1, <1>2
<1> QED
  BY <1>3 DEF u

LEMMA HoldsEnd ==
  ASSUME NEW p \in Nat, NEW b \in Nat, NEW l \in Seq(Nat), NEW g,
         Holds(l, Len(l) + 1, 0, b, p, g)
  PROVE  Tails(l, p, g)
<1>1. Len(l) \in Nat
  BY LenProperties
<1>2. \A k \in 1..Len(l) : k # Len(l) + 1
  BY <1>1
<1> QED
  BY <1>2 DEF Holds, Tails

\* A digit read, when the loops have ended.
LEMMA HoldsRead ==
  ASSUME NEW p \in Nat, NEW b \in Nat \ {0}, NEW l \in Seq(Nat), NEW d \in Nat, NEW g,
         Holds(l, Len(l) + 1, 0, b, p, g)
  PROVE  HoldsNumber(l, 1, d, b, p, g[1] * b + d)
<1> DEFINE n == Len(l)
           h == [g EXCEPT ![1] = g[1] * b + d]
<1>1. n \in Nat /\ \A k \in 1..n : l[k] \in Nat
  BY LenProperties, ElementOfSeq
<1>2. /\ g \in [1..(n + 1) -> Nat] /\ g[n + 1] = 0
      /\ \A k \in 1..n : g[k] = l[k] + p * g[k + 1]
      /\ l # <<>> => g[n] > 0
  <2>1. \A k \in 1..n : k # n + 1
    BY <1>1
  <2> QED
    BY <2>1 DEF Holds
<1>3. l # <<>> <=> n # 0
  BY EmptySeq
<1> HIDE DEF n
<1>4. g[1] \in Nat /\ 1 \in 1..(n + 1)
  BY <1>1, <1>2
<1>5. g[1] * b + d \in Nat
  BY <1>4, SMT
<1>6. h \in [1..(n + 1) -> Nat] /\ h[1] = g[1] * b + d /\ \A k \in 2..(n + 1) : h[k] = g[k]
  <2> DEFINE v == g[1] * b + d
  <2>1. v \in Nat
    BY <1>5
  <2>2. h = [g EXCEPT ![1] = v]
    OBVIOUS
  <2> HIDE DEF h, v
  <2>3. h \in [1..(n + 1) -> Nat] /\ h[1] = v /\ \A k \in 2..(n + 1) : h[k] = g[k]
    BY <1>1, <1>2, <1>4, <2>1, <2>2
  <2> QED
    BY <2>3 DEF v
<1> HIDE DEF h
<1>7. \A k \in 1..n : k # 1 => h[k] = l[k] + p * h[k + 1]
  <2> SUFFICES ASSUME NEW k \in 1..n, k # 1 PROVE h[k] = l[k] + p * h[k + 1]
    OBVIOUS
  <2>1. k \in 2..(n + 1) /\ k + 1 \in 2..(n + 1)
    BY <1>1
  <2> QED
    BY <1>2, <1>6, <2>1
<1>8. 1 <= n => h[1] = b * (l[1] + p * h[2]) + d
  <2> SUFFICES ASSUME 1 <= n PROVE h[1] = b * (l[1] + p * h[2]) + d
    OBVIOUS
  <2>1. 1 \in 1..n /\ 2 \in 2..(n + 1) /\ 1 + 1 = 2
    BY <1>1
  <2>2. g[1] = l[1] + p * g[2] /\ h[2] = g[2]
    BY <1>2, <1>6, <2>1
  <2>3. h[1] = (l[1] + p * h[2]) * b + d
    BY <1>6, <2>2
  <2>4. (l[1] + p * h[2]) * b = b * (l[1] + p * h[2])
    <3>1. l[1] \in Nat /\ h[2] \in Nat
      BY <1>1, <1>6, <2>1
    <3>2. \A x, y \in Nat : (x + p * y) * b = b * (x + p * y)
      BY SMT
    <3> QED
      BY <3>1, <3>2
  <2> QED
    BY <2>3, <2>4
<1>9. h[n + 1] = IF 1 = n + 1 THEN d ELSE 0
  <2>1. CASE n = 0
    <3>1. g[1] = 0 /\ 0 * b + d = d
      BY <1>2, <2>1
    <3> QED
      BY <1>6, <2>1, <3>1
  <2>2. CASE n # 0
    <3>1. n + 1 \in 2..(n + 1) /\ 1 # n + 1
      BY <1>1, <2>2
    <3> QED
      BY <1>2, <1>6, <3>1
  <2> QED
    BY <2>1, <2>2
<1>10. l # <<>> => h[n] > 0
  <2> SUFFICES ASSUME l # <<>> PROVE h[n] > 0
    OBVIOUS
  <2>1. n # 0 /\ g[n] > 0
    BY <1>2, <1>3
  <2>2. CASE n = 1
    <3>1. \A x \in Nat : x > 0 => x * b + d > 0
      <4> SUFFICES ASSUME NEW x \in Nat, x > 0 PROVE x * b + d > 0
        OBVIOUS
      <4>1. x * b \in Nat \ {0}
        BY SMT
      <4> QED
        BY <4>1
    <3> QED
      BY <1>4, <1>6, <2>1, <2>2, <3>1
  <2>3. CASE n # 1
    <3>1. n \in 2..(n + 1)
      BY <1>1, <2>1, <2>3
    <3> QED
      BY <1>6, <2>1, <3>1
  <2> QED
    BY <2>2, <2>3
<1>11. Holds(l, 1, d, b, p, h)
  <2>1. 1 \in 1..(n + 1) /\ 1 + 1 = 2
    BY <1>1
  <2> QED
    BY <1>6, <1>7, <1>8, <1>9, <1>10, <2>1 DEF Holds, n
<1> QED
  BY <1>6, <1>11 DEF HoldsNumber

\* One limb multiplied.
LEMMA HoldsMultiply ==
  ASSUME NEW p \in Nat \ {0}, NEW b \in Nat \ {0}, NEW l \in Seq(0..(p - 1)), NEW i \in 1..Len(l),
         NEW c \in 0..(b - 1), NEW g, Holds(l, i, c, b, p, g), NEW a, a = l[i] * b + c
  PROVE  HoldsNumber([l EXCEPT ![i] = a % p], i + 1, a \div p, b, p, g[1])
<1> DEFINE n == Len(l)
           q == a \div p
           r == a % p
           m == [l EXCEPT ![i] = r]
           h == [g EXCEPT ![i + 1] = b * g[i + 1] + q]
<1>1. n \in Nat /\ \A k \in 1..n : l[k] \in 0..(p - 1) /\ l[k] \in Nat
  <2>1. \A k \in 1..n : l[k] \in 0..(p - 1)
    BY ElementOfSeq
  <2> QED
    BY <2>1, LenProperties
<1>2. q \in Nat /\ r \in 0..(p - 1) /\ a = q * p + r
  <2>1. a \in Nat
    <3>1. l[i] \in Nat /\ c \in Nat
      BY <1>1
    <3> QED
      BY <3>1, SMT
  <2> QED
    BY <2>1, Divide
<1>3. /\ g \in [1..(n + 1) -> Nat] /\ g[n + 1] = 0
      /\ \A k \in 1..n : k # i => g[k] = l[k] + p * g[k + 1]
      /\ g[i] = b * (l[i] + p * g[i + 1]) + c
      /\ g[n] > 0
  <2>1. i # n + 1 /\ i <= n /\ l # <<>>
    BY <1>1, EmptySeq
  <2> QED
    BY <2>1 DEF Holds
<1>4. m \in Seq(0..(p - 1)) /\ Len(m) = n /\ m[i] = r /\ \A k \in 1..n : k # i => m[k] = l[k]
  <2> HIDE DEF q, r
  <2> QED
    BY <1>2, ExceptSeq
<1> HIDE DEF n, q, r, m
<1>5. i \in 1..n /\ i + 1 \in 1..(n + 1) /\ 1 # i + 1 /\ 1 \in 1..(n + 1)
  BY <1>1 DEF n
<1>6. g[i + 1] \in Nat /\ b * g[i + 1] + q \in Nat
  <2>1. g[i + 1] \in Nat
    BY <1>3, <1>5
  <2> QED
    BY <1>2, <2>1, SumType
<1>7. /\ h \in [1..(n + 1) -> Nat] /\ h[i + 1] = b * g[i + 1] + q
      /\ \A k \in 1..(n + 1) : k # i + 1 => h[k] = g[k]
  BY <1>3, <1>5, <1>6
<1> HIDE DEF h
<1>8. \A k \in 1..n : k # i + 1 => h[k] = m[k] + p * h[k + 1]
  <2> SUFFICES ASSUME NEW k \in 1..n, k # i + 1 PROVE h[k] = m[k] + p * h[k + 1]
    OBVIOUS
  <2>1. CASE k = i
    <3>1. i \in 1..(n + 1) /\ i # i + 1
      BY <1>1, <1>5
    <3>2. h[i] = g[i] /\ l[i] * b + c = q * p + r
      BY <1>2, <1>7, <3>1
    <3>3. l[i] \in Nat /\ r \in Nat /\ c \in Nat
      BY <1>1, <1>2, <1>5
    <3>4. b * (l[i] + p * g[i + 1]) + c = r + p * (b * g[i + 1] + q)
      <4>1. Divided(l[i], b, c, q, p, r)
        BY <3>2 DEF Divided
      <4>2. p \in Nat /\ b \in Nat /\ q \in Nat /\ g[i + 1] \in Nat
        BY <1>2, <1>6
      <4>3. CarriedOver(l[i], b, c, q, p, r, g[i + 1])
        BY <3>3, <4>1, <4>2, Carries
      <4> QED
        BY <4>3 DEF CarriedOver
    <3>6. h[i] = r + p * (b * g[i + 1] + q)
      BY <1>3, <3>2, <3>4
    <3> QED
      BY <1>4, <1>7, <2>1, <3>6
  <2>2. CASE k # i
    <3>1. k \in 1..(n + 1) /\ k + 1 \in 1..(n + 1) /\ k + 1 # i + 1
      BY <1>1, <1>5, <2>2
    <3> QED
      BY <1>3, <1>4, <1>7, <2>2, <3>1
  <2> QED
    BY <2>1, <2>2
<1>9. i + 1 <= n => h[i + 1] = b * (m[i + 1] + p * h[(i + 1) + 1]) + q
  <2> SUFFICES ASSUME i + 1 <= n
               PROVE  h[i + 1] = b * (m[i + 1] + p * h[(i + 1) + 1]) + q
    OBVIOUS
  <2>1. i + 1 \in 1..n /\ i + 1 # i /\ (i + 1) + 1 \in 1..(n + 1) /\ (i + 1) + 1 # i + 1
    BY <1>1, <1>5
  <2>2. g[i + 1] = l[i + 1] + p * g[(i + 1) + 1]
    BY <1>3, <2>1
  <2>3. m[i + 1] = l[i + 1] /\ h[(i + 1) + 1] = g[(i + 1) + 1]
    BY <1>4, <1>7, <2>1
  <2> QED
    BY <1>7, <2>2, <2>3
<1>10. h[n + 1] = IF i + 1 = n + 1 THEN q ELSE 0
  <2>1. CASE i = n
    <3>1. b * 0 + q = q
      BY <1>2
    <3> QED
      BY <1>3, <1>7, <2>1, <3>1
  <2>2. CASE i # n
    <3>1. n + 1 # i + 1 /\ n + 1 \in 1..(n + 1)
      BY <1>1, <1>5, <2>2
    <3> QED
      BY <1>3, <1>7, <3>1
  <2> QED
    BY <2>1, <2>2
<1>11. h[n] > 0
  <2>1. CASE n = i + 1
    <3>1. b * g[i + 1] + q > 0
      <4>1. g[i + 1] > 0
        BY <1>3, <2>1
      <4>2. b \in Nat /\ b > 0
        OBVIOUS
      <4> QED
        BY <1>2, <1>6, <4>1, <4>2, SumType
    <3> QED
      BY <1>7, <2>1, <3>1
  <2>2. CASE n # i + 1
    <3>1. n \in 1..(n + 1)
      BY <1>1, <1>5
    <3> QED
      BY <1>3, <1>7, <2>2, <3>1
  <2> QED
    BY <2>1, <2>2
<1>12. Holds(m, i + 1, q, b, p, h)
  BY <1>4, <1>5, <1>7, <1>8, <1>9, <1>10, <1>11 DEF Holds
<1>13. h[1] = g[1]
  BY <1>5, <1>7
<1>14. HoldsNumber(m, i + 1, q, b, p, g[1])
  BY <1>12, <1>13 DEF HoldsNumber
<1> QED
  BY <1>14 DEF m, q, r

\* One limb added.
LEMMA HoldsGrow ==
  ASSUME NEW p \in Nat \ {0}, NEW b \in Nat \ {0}, NEW l \in Seq(Nat),
         NEW c \in Nat, c > 0, NEW g, Holds(l, Len(l) + 1, c, b, p, g)
  PROVE  HoldsNumber(Append(l, c % p), (Len(l) + 1) + 1, c \div p, b, p, g[1])
<1> DEFINE n == Len(l)
           q == c \div p
           r == c % p
           m == Append(l, r)
           h == [k \in 1..((n + 1) + 1) |-> IF k = (n + 1) + 1 THEN q ELSE g[k]]
<1>1. n \in Nat
  BY LenProperties
<1>2. q \in Nat /\ r \in Nat /\ c = q * p + r
  <2>1. q \in Nat /\ r \in 0..(p - 1) /\ c = q * p + r
    BY Divide
  <2> QED
    BY <2>1
<1>3. /\ g \in [1..(n + 1) -> Nat] /\ g[n + 1] = c
      /\ \A k \in 1..n : g[k] = l[k] + p * g[k + 1]
  <2>1. \A k \in 1..n : k # n + 1
    BY <1>1
  <2> QED
    BY <2>1 DEF Holds
<1>4. m \in Seq(Nat) /\ m # <<>> /\ Len(m) = n + 1 /\ m[n + 1] = r /\ \A k \in 1..n : m[k] = l[k]
  BY <1>2, AppendProperties
<1> HIDE DEF n, q, r, m
<1>5. /\ h \in [1..((n + 1) + 1) -> Nat] /\ h[(n + 1) + 1] = q
      /\ \A k \in 1..(n + 1) : h[k] = g[k]
  BY <1>1, <1>2, <1>3
<1> HIDE DEF h
<1>6. \A k \in 1..(n + 1) : h[k] = m[k] + p * h[k + 1]
  <2> SUFFICES ASSUME NEW k \in 1..(n + 1) PROVE h[k] = m[k] + p * h[k + 1]
    OBVIOUS
  <2>1. CASE k = n + 1
    <3>1. \A x, y \in Nat : x * p + y = y + p * x
      BY SMT
    <3>2. h[k] = r + p * q
      BY <1>2, <1>3, <1>5, <2>1, <3>1
    <3> QED
      BY <1>4, <1>5, <2>1, <3>2
  <2>2. CASE k # n + 1
    <3>1. k \in 1..n /\ k + 1 \in 1..(n + 1)
      BY <1>1, <2>2
    <3> QED
      BY <1>3, <1>4, <1>5, <3>1
  <2> QED
    BY <2>1, <2>2
<1>7. h[n + 1] > 0
  <2>1. n + 1 \in 1..(n + 1)
    BY <1>1
  <2> QED
    BY <1>3, <1>5, <2>1
<1>8. (n + 1) + 1 \in 1..((n + 1) + 1) /\ ~((n + 1) + 1 <= n + 1)
  BY <1>1
<1>9. Holds(m, (n + 1) + 1, q, b, p, h)
  BY <1>4, <1>5, <1>6, <1>7, <1>8 DEF Holds
<1>10. h[1] = g[1]
  BY <1>1, <1>5
<1>11. HoldsNumber(m, (n + 1) + 1, q, b, p, g[1])
  BY <1>9, <1>10 DEF HoldsNumber
<1> QED
  BY <1>11 DEF m, q, r, n

LEMMA TimesGrows ==
  ASSUME NEW x \in Nat, NEW y \in Nat, NEW z \in Nat, y <= z
  PROVE  x * y \in Nat /\ x * z \in Nat /\ x * y <= x * z
<1>1. (z - y) \in Nat /\ z = y + (z - y)
  OBVIOUS
<1>2. \A u \in Nat : x * (y + u) = x * y + x * u
  BY SMT
<1>3. x * z = x * y + x * (z - y)
  BY <1>1, <1>2
<1>4. x * y \in Nat /\ x * z \in Nat /\ x * (z - y) \in Nat
  BY <1>1, SMT
<1> QED
  BY <1>3, <1>4

\* The limbs below k hold the rest of the number.
LEMMA HoldsBelow ==
  ASSUME NEW p \in Nat \ {0}, NEW b \in Nat \ {0}, NEW l \in Seq(Nat), NEW i, NEW c \in Nat,
         NEW g, Holds(l, i, c, b, p, g), NEW k \in 0..Len(l)
  PROVE  /\ g[k + 1] \in Nat /\ g[1] \in Nat
         /\ Pow(p, k) * g[k + 1] <= g[1]
<1> DEFINE n == Len(l)
<1>1. n \in Nat /\ \A m \in 1..n : l[m] \in Nat
  BY LenProperties, ElementOfSeq
<1>2. g \in [1..(n + 1) -> Nat]
  BY DEF Holds
<1>3. \A m \in 0..n : g[m + 1] \in Nat
  BY <1>1, <1>2
<1>4. ASSUME NEW m \in 1..n
      PROVE  p * g[m + 1] <= g[m]
  <2>1. l[m] \in Nat /\ g[m + 1] \in Nat /\ g[m] \in Nat
    <3>1. m \in 1..(n + 1) /\ m + 1 \in 1..(n + 1)
      BY <1>1
    <3> HIDE DEF n
    <3> QED
      BY <1>1, <1>2, <3>1
  <2> DEFINE x == p * g[m + 1]
             y == l[m] + x
  <2>2. x \in Nat
    BY <2>1, SumType
  <2>3. y \in Nat /\ x <= y
    <3> HIDE DEF x
    <3> QED
      BY <2>1, <2>2
  <2>4. CASE m # i
    <3>1. g[m] = y
      BY <2>4 DEF Holds
    <3> HIDE DEF x, y
    <3> QED
      BY <2>3, <3>1 DEF x
  <2>5. CASE m = i
    <3>1. g[m] = b * y + c
      BY <1>1, <2>5 DEF Holds
    <3> HIDE DEF x, y
    <3>2. b * y \in Nat /\ y <= b * y
      <4>1. y * 1 <= y * b
        BY <2>3, TimesGrows
      <4>2. y * 1 = y /\ y * b = b * y
        BY <2>3, SMT
      <4>3. b * y \in Nat
        BY <2>3, SMT
      <4> QED
        BY <4>1, <4>2, <4>3
    <3>3. x <= g[m]
      <4> DEFINE z == b * y
      <4>1. g[m] = z + c /\ z \in Nat /\ y <= z
        BY <3>1, <3>2
      <4> HIDE DEF z
      <4> QED
        BY <2>2, <2>3, <4>1
    <3> QED
      BY <3>3 DEF x
  <2> QED
    BY <2>4, <2>5
<1> DEFINE S == {m \in Nat : m <= n => Pow(p, m) * g[m + 1] <= g[1]}
<1>5. 0 \in S
  <2>1. 0 + 1 = 1 /\ 0 \in 0..n
    BY <1>1
  <2>2. g[1] \in Nat
    BY <1>3, <2>1
  <2>3. 1 * g[1] <= g[1]
    BY <2>2
  <2> QED
    BY <2>1, <2>3, PowZero
<1>6. ASSUME NEW m \in Nat, m \in S
      PROVE  m + 1 \in S
  <2> SUFFICES ASSUME m + 1 <= n
               PROVE  Pow(p, m + 1) * g[(m + 1) + 1] <= g[1]
    OBVIOUS
  <2>1. m + 1 \in 1..n /\ m \in 0..n /\ m + 1 \in 0..n /\ 0 \in 0..n /\ 0 + 1 = 1
    BY <1>1
  <2> DEFINE q == Pow(p, m)
             y == g[m + 1]
             z == g[(m + 1) + 1]
  <2>2. q \in Nat /\ y \in Nat /\ z \in Nat /\ g[1] \in Nat
    BY <1>3, <2>1, PowType
  <2>3. q * y <= g[1]
    BY <1>6, <2>1
  <2>4. p * z <= y
    BY <1>4, <2>1
  <2>5. Pow(p, m + 1) = q * p
    BY PowNext
  <2> HIDE DEF q, y, z
  <2>6. p * z \in Nat
    BY <2>2, SumType
  <2>7. q * (p * z) <= q * y /\ q * (p * z) \in Nat /\ q * y \in Nat
    BY <2>2, <2>4, <2>6, TimesGrows
  <2>8. (q * p) * z = q * (p * z)
    BY <2>2, SMT
  <2>9. (q * p) * z <= g[1]
    <3> DEFINE u == q * (p * z)
               v == q * y
    <3>1. u \in Nat /\ v \in Nat /\ u <= v /\ v <= g[1]
      BY <2>3, <2>7
    <3> HIDE DEF u, v
    <3>2. u <= g[1]
      BY <2>2, <3>1
    <3> QED
      BY <2>8, <3>2 DEF u
  <2> QED
    BY <2>5, <2>9 DEF z
<1>7. k \in S
  <2> HIDE DEF S
  <2>1. k \in Nat
    OBVIOUS
  <2> QED
    BY <1>5, <1>6, <2>1, AllNumbers
<1>8. 0 \in 0..n /\ 0 + 1 = 1
  BY <1>1
<1> QED
  BY <1>3, <1>7, <1>8

\* What a number of limbs, or a carry past them, says of the number.
LEMMA HoldsPower ==
  ASSUME NEW p \in Nat \ {0}, NEW b \in Nat \ {0}, NEW l \in Seq(Nat), NEW i, NEW c \in Nat,
         NEW g, Holds(l, i, c, b, p, g)
  PROVE  /\ l # <<>> => Pow(p, Len(l) - 1) <= g[1]
         /\ i = Len(l) + 1 /\ c > 0 => Pow(p, Len(l)) <= g[1]
<1> DEFINE n == Len(l)
<1>1. n \in Nat
  BY LenProperties
<1>2. \A x, y \in Nat : y > 0 => x <= x * y /\ x * y \in Nat
  <2> SUFFICES ASSUME NEW x \in Nat, NEW y \in Nat, y > 0 PROVE x <= x * y /\ x * y \in Nat
    OBVIOUS
  <2>1. x * 1 <= x * y /\ x * y \in Nat
    BY TimesGrows
  <2>2. x * 1 = x
    OBVIOUS
  <2> QED
    BY <2>1, <2>2
<1>3. ASSUME NEW k \in 0..n, g[k + 1] > 0
      PROVE  Pow(p, k) <= g[1]
  <2> DEFINE x == Pow(p, k)
             y == g[k + 1]
  <2>1. x \in Nat
    BY PowType
  <2>2. y \in Nat /\ g[1] \in Nat /\ x * y <= g[1]
    BY HoldsBelow
  <2>3. y > 0
    BY <1>3
  <2> HIDE DEF x, y
  <2>4. x <= x * y /\ x * y \in Nat
    BY <1>2, <2>1, <2>2, <2>3
  <2> DEFINE z == x * y
  <2>5. z \in Nat /\ x <= z /\ z <= g[1]
    BY <2>2, <2>4
  <2> HIDE DEF z
  <2>6. x <= g[1]
    BY <2>1, <2>2, <2>5
  <2> QED
    BY <2>6 DEF x
<1>4. ASSUME l # <<>>
      PROVE  Pow(p, n - 1) <= g[1]
  <2>1. n # 0
    BY <1>4, EmptySeq
  <2>2. n - 1 \in 0..n /\ (n - 1) + 1 = n
    BY <1>1, <2>1
  <2>3. g[n] > 0
    BY <1>4 DEF Holds
  <2> HIDE DEF n
  <2> QED
    BY <1>3, <2>2, <2>3
<1>5. ASSUME i = n + 1, c > 0
      PROVE  Pow(p, n) <= g[1]
  <2>1. n \in 0..n
    BY <1>1
  <2>2. g[n + 1] > 0
    BY <1>5 DEF Holds
  <2> QED
    BY <1>3, <2>1, <2>2
<1> QED
  BY <1>4, <1>5

\* The digits when the loops have ended.
LEMMA ExtractEnds ==
  ASSUME NEW b \in Nat \ {0, 1}, NEW p \in Nat, limbs \in Seq(0..(Pow(b, p) - 1)),
         NEW g, Tails(limbs, Pow(b, p), g), NEW n \in Nat
  PROVE  /\ Extract(b, p) \in Seq(0..(b - 1))
         /\ Value(Extract(b, p), b) = g[1]
         /\ Len(Extract(b, p)) > n => g[1] >= Pow(b, n)
<1> DEFINE s == Extract(b, p)
<1>1. CASE limbs = <<>>
  <2>1. s = <<>>
    BY <1>1 DEF Extract
  <2>2. Len(<<>>) = 0 /\ <<>> \in Seq(0..(b - 1))
    BY EmptySeq
  <2>3. g[1] = 0
    <3>1. Len(limbs) + 1 = 1
      BY <1>1, <2>2
    <3> QED
      BY <3>1 DEF Tails
  <2> HIDE DEF s
  <2>4. Value(s, b) = g[1]
    BY <2>1, <2>3, ValueEmpty
  <2>5. ~(Len(s) > n)
    BY <2>1, <2>2
  <2> QED
    BY <2>1, <2>2, <2>4, <2>5 DEF s
<1>2. CASE limbs # <<>>
  <2>1. DigitsOf(s, b, g[1])
    BY <1>2, ExtractIs
  <2> HIDE DEF s
  <2>2. s \in Seq(0..(b - 1)) /\ Len(s) > 0 /\ Value(s, b) = g[1] /\ Pow(b, Len(s) - 1) <= g[1]
    BY <2>1 DEF DigitsOf
  <2>3. Len(s) \in Nat
    BY <2>2, LenProperties
  <2>4. s \in Seq(Nat)
    BY <2>2, SeqMonotonic
  <2>5. g[1] \in Nat
    BY <2>2, <2>4, ValueType
  <2>6. ASSUME Len(s) > n
        PROVE  g[1] >= Pow(b, n)
    <3>1. Len(s) - 1 \in Nat /\ n <= Len(s) - 1
      BY <2>3, <2>6
    <3>2. Pow(b, n) <= Pow(b, Len(s) - 1)
      BY <3>1, PowGrows
    <3>3. Pow(b, n) \in Nat /\ Pow(b, Len(s) - 1) \in Nat
      BY <3>1, PowType
    <3> QED
      BY <2>2, <2>5, <3>2, <3>3
  <2> QED
    BY <2>2, <2>6 DEF s
<1> QED
  BY <1>1, <1>2

\* What holds of the machine at every step.
IInv ==
  /\ j \in Nat \ {0}
  /\ Converting => /\ limbs \in Seq(0..(Power - 1))
                   /\ carry \in 0..(Base - 1)

LEMMA PowersAreWide ==
  ASSUME Converting
  PROVE  Base \in Nat \ {0} /\ Power \in Nat \ {0} /\ Power * Base <= Word
BY WidthAssumption DEF Converting, Base, Power

\* In a state of the invariant, the machine's word holds the sum.
LEMMA WordHolds ==
  ASSUME IInv, Converting, j <= Len(limbs)
  PROVE  /\ Accumulator = limbs[j] * Base + carry
         /\ Accumulator % Power \in 0..(Power - 1)
         /\ Accumulator \div Power \in 0..(Base - 1)
<1>1. Base \in Nat \ {0} /\ Power \in Nat \ {0} /\ Power * Base <= Word /\ Word \in Nat
  BY PowersAreWide, WidthAssumption
<1>2. limbs[j] \in 0..(Power - 1) /\ carry \in 0..(Base - 1)
  <2>1. limbs \in Seq(0..(Power - 1)) /\ j \in 1..Len(limbs) /\ carry \in 0..(Base - 1)
    BY DEF IInv
  <2> QED
    BY <2>1, ElementOfSeq
<1> DEFINE a == limbs[j] * Base + carry
<1>3. /\ a \in Nat /\ a < Power * Base
      /\ a % Power \in 0..(Power - 1) /\ a \div Power \in 0..(Base - 1)
  BY <1>1, <1>2, LimbStep
<1> HIDE DEF a
<1>4. a % Word = a
  <2>1. a < Word
    BY <1>1, <1>3, SMT
  <2> QED
    BY <1>1, <1>3, <2>1, SMT
<1> QED
  BY <1>3, <1>4 DEF Accumulator, a

LEMMA IInvHolds == Spec => []IInv
<1>1. Init => IInv
  BY WidthAssumption DEF Init, IInv, Converting, Base, Power
<1>2. IInv /\ [Next]_vars => IInv'
  <2> SUFFICES ASSUME IInv, [Next]_vars
               PROVE  IInv'
    OBVIOUS
  <2> USE DEF IInv
  <2>1. CASE ReadDigit
    BY <2>1 DEF ReadDigit, IsDigit, Converting, Base, Power
  <2>2. CASE Multiply
    <3>1. Converting /\ j <= Len(limbs)
      BY <2>2 DEF Multiply
    <3>2. Accumulator % Power \in 0..(Power - 1) /\ Accumulator \div Power \in 0..(Base - 1)
      BY <3>1, WordHolds
    <3>3. limbs' = [limbs EXCEPT ![j] = Accumulator % Power]
          /\ carry' = Accumulator \div Power /\ j' = j + 1 /\ phase' = phase
      BY <2>2 DEF Multiply
    <3>4. limbs' \in Seq(0..(Power - 1))
      BY <3>1, <3>2, <3>3
    <3> QED
      BY <3>1, <3>2, <3>3, <3>4 DEF Converting, Base, Power
  <2>3. CASE Grow
    <3>1. Converting /\ limbs' = Append(limbs, carry % Power)
          /\ carry' = carry \div Power /\ j' = j + 1 /\ phase' = phase
      BY <2>3 DEF Grow
    <3>2. Base \in Nat \ {0} /\ Power \in Nat \ {0}
      BY <3>1, PowersAreWide
    <3>3. carry \in Nat /\ carry < Base
      BY <3>1, <3>2
    <3>4. carry % Power \in 0..(Power - 1)
      BY <3>2, <3>3, SMT
    <3>5. carry \div Power \in Nat /\ carry \div Power <= carry
      BY <3>2, <3>3, SMT
    <3>6. limbs' \in Seq(0..(Power - 1)) /\ carry' \in 0..(Base - 1)
      BY <3>1, <3>2, <3>3, <3>4, <3>5
    <3> QED
      BY <3>1, <3>6 DEF Converting, Base, Power
  <2>4. CASE FinishText \/ FinishDigest
    <3>1. limbs' = <<>> /\ carry' = 0 /\ j' = 1
      BY <2>4 DEF FinishText, FinishDigest, Restart, Ready
    <3> QED
      BY <3>1, WidthAssumption DEF Converting, Base, Power
  <2>5. CASE Reject
    BY <2>5 DEF Reject, Converting
  <2>6. CASE UNCHANGED vars
    BY <2>6 DEF vars, Converting, Base, Power
  <2> QED
    BY <2>1, <2>2, <2>3, <2>4, <2>5, <2>6 DEF Next
<1> QED
  BY <1>1, <1>2, PTL DEF Spec

\* No word wraps, whatever is written or parsed.
THEOREM IDTextNeverOverflows == Spec => []NoOverflow
<1>1. IInv => NoOverflow
  <2> SUFFICES ASSUME IInv, Converting
               PROVE  /\ carry \in 0..(Base - 1)
                      /\ \A i \in 1..Len(limbs) : limbs[i] \in 0..(Power - 1)
                      /\ j <= Len(limbs) => Accumulator = limbs[j] * Base + carry
    BY DEF NoOverflow
  <2>1. limbs \in Seq(0..(Power - 1)) /\ carry \in 0..(Base - 1)
    BY DEF IInv
  <2>2. \A i \in 1..Len(limbs) : limbs[i] \in 0..(Power - 1)
    BY <2>1, ElementOfSeq
  <2>3. j <= Len(limbs) => Accumulator = limbs[j] * Base + carry
    BY WordHolds
  <2> QED
    BY <2>1, <2>2, <2>3
<1> QED
  BY <1>1, IInvHolds, PTL

-----------------------------------------------------------------------------
(* What is read, what the limbs hold and what was first put in are one number. *)

\* The first input was a digest, or it was a text.
Written == (phase = "encode" /\ turns = 0) \/ (phase = "decode" /\ turns = 1)

\* The number that was first put in.
Number == Value(start, IF Written THEN ByteBase ELSE TextBase)

\* w has been read, and its number is that of the limbs and the carry.
Reading(w, g) ==
  /\ w \in Seq(0..(Base - 1))
  /\ turns = 0 => w \o input = start
  /\ Value(w \o input, Base) = Number
  /\ Holds(limbs, j, carry, Base, Power, g)
  /\ g[1] = Value(w, Base)

\* What is converted is a digest, or is known to be the text of one.
OfDigest == turns = 1 \/ phase = "encode"

ConvertInv ==
  /\ turns \in {0, 1}
  /\ Written => start \in Digests
  /\ ~Written => start \in Texts
  /\ ~Written /\ turns = 1 => start \in Seq(0..(TextBase - 1))
  /\ input \in Seq(Nat)
  /\ OfDigest => input \in Seq(0..(Base - 1)) /\ Number < Pow(ByteBase, DigestLen)
  /\ \E w, g : Reading(w, g)

NInv ==
  /\ IInv
  /\ Converting => ConvertInv
  /\ TextComesBack
  /\ RejectsOnlyNonIDs

LEMMA Sizes ==
  /\ DigestLen \in Nat /\ TextLen \in Nat /\ DigitsPerLimb \in Nat /\ MaxLimbs \in Nat
  /\ BytesPerLimb \in Nat /\ DecodeMaxLimbs \in Nat
BY SizeAssumption

LEMMA StartIsSeq ==
  /\ \A s \in Digests : s \in Seq(0..(ByteBase - 1)) /\ Len(s) = DigestLen
  /\ \A s \in Texts : s \in Seq(0..TextBase) /\ Len(s) = TextLen
<1>1. ASSUME NEW V, NEW n \in Nat, NEW s \in [1..n -> V]
      PROVE  s \in Seq(V) /\ Len(s) = n
  OBVIOUS
<1>2. \A s \in Digests : s \in Seq(0..(ByteBase - 1)) /\ Len(s) = DigestLen
  BY <1>1, Sizes DEF Digests
<1>3. \A s \in Texts : s \in Seq(0..TextBase) /\ Len(s) = TextLen
  BY <1>1, Sizes DEF Texts
<1> QED
  BY <1>2, <1>3

\* Nothing is held before the first digit.
LEMMA HoldsNothing ==
  ASSUME NEW p \in Nat, NEW b \in Nat
  PROVE  \E g : Holds(<<>>, 1, 0, b, p, g) /\ g[1] = 0
<1> DEFINE g == [k \in 1..1 |-> 0]
<1>1. Len(<<>>) = 0
  BY EmptySeq
<1>2. g \in [1..(0 + 1) -> Nat] /\ g[1] = 0 /\ g[0 + 1] = 0 /\ 1 \in 1..(0 + 1) /\ ~(1 <= 0) /\ 1..0 = {}
  OBVIOUS
<1> HIDE DEF g
<1>3. Holds(<<>>, 1, 0, b, p, g)
  BY <1>1, <1>2 DEF Holds
<1> QED
  BY <1>2, <1>3

\* A new conversion, of the digits s.
LEMMA ReadingStarts ==
  ASSUME NEW b \in Nat \ {0}, NEW p \in Nat, NEW s \in Seq(Nat)
  PROVE  \E g : /\ <<>> \in Seq(0..(b - 1)) /\ <<>> \o s = s
                /\ Holds(<<>>, 1, 0, b, p, g) /\ g[1] = Value(<<>>, b)
<1>1. PICK g : Holds(<<>>, 1, 0, b, p, g) /\ g[1] = 0
  BY HoldsNothing
<1>2. <<>> \in Seq(0..(b - 1))
  BY EmptySeq
<1>3. <<>> \o s = s
  BY ConcatEmptySeq
<1>4. g[1] = Value(<<>>, b)
  BY <1>1, ValueEmpty
<1> QED
  BY <1>1, <1>2, <1>3, <1>4

\* The digits read come to no more than all of them.
LEMMA ValuePrefix ==
  ASSUME NEW b \in Nat \ {0}, NEW s \in Seq(Nat), NEW t \in Seq(Nat)
  PROVE  /\ Value(s, b) \in Nat /\ Value(s \o t, b) \in Nat
         /\ Value(s, b) <= Value(s \o t, b)
<1> DEFINE x == Value(s, b)
           y == Pow(b, Len(t))
           z == Value(t, b)
<1>1. Len(t) \in Nat
  BY LenProperties
<1>2. x \in Nat /\ y \in Nat \ {0} /\ z \in Nat
  BY <1>1, ValueType, PowType
<1>3. Value(s \o t, b) = x * y + z
  BY ValueConcat
<1> HIDE DEF x, y, z
<1>4. x * 1 <= x * y /\ x * y \in Nat /\ x * 1 = x
  BY <1>2, TimesGrows
<1> DEFINE u == x * y
<1>5. u \in Nat /\ x <= u
  BY <1>2, <1>4
<1> HIDE DEF u
<1>6. u + z \in Nat /\ x <= u + z
  BY <1>2, <1>5
<1> QED
  BY <1>2, <1>3, <1>6 DEF u, x

LEMMA NInvInit ==
  ASSUME Init
  PROVE  NInv
<1>1. IInv
  BY WidthAssumption DEF Init, IInv, Converting, Base, Power
<1>2. phase \in {"encode", "decode"} /\ turns = 0 /\ input = start
      /\ limbs = <<>> /\ j = 1 /\ carry = 0
  BY DEF Init
<1>3. Base \in Nat \ {0} /\ Power \in Nat \ {0}
  BY <1>2, PowersAreWide DEF Converting
<1>4. /\ Written => start \in Digests
      /\ ~Written => start \in Texts
      /\ Base = IF Written THEN ByteBase ELSE TextBase
  BY <1>2 DEF Init, Written, Base
<1>5. ByteBase \in Nat \ {0} /\ TextBase \in Nat \ {0}
  BY WidthAssumption
<1>6. start \in Seq(Nat)
  <2>1. Seq(0..(ByteBase - 1)) \subseteq Seq(Nat) /\ Seq(0..TextBase) \subseteq Seq(Nat)
    <3>1. 0..(ByteBase - 1) \subseteq Nat /\ 0..TextBase \subseteq Nat
      BY <1>5
    <3> QED
      BY <3>1, SeqMonotonic
  <2> QED
    BY <1>4, <2>1, StartIsSeq
<1>7. OfDigest => input \in Seq(0..(Base - 1)) /\ Number < Pow(ByteBase, DigestLen)
  <2> SUFFICES ASSUME OfDigest
               PROVE  input \in Seq(0..(Base - 1)) /\ Number < Pow(ByteBase, DigestLen)
    OBVIOUS
  <2>1. Written /\ Base = ByteBase
    BY <1>2, <1>4 DEF OfDigest, Written
  <2>2. start \in Seq(0..(ByteBase - 1)) /\ Len(start) = DigestLen
    BY <1>4, <2>1, StartIsSeq
  <2>3. Value(start, ByteBase) < Pow(ByteBase, DigestLen)
    BY <1>5, <2>2, ValueBelow
  <2> QED
    BY <1>2, <2>1, <2>2, <2>3 DEF Number
<1>8. \E w, g : Reading(w, g)
  <2>1. PICK g : /\ <<>> \in Seq(0..(Base - 1)) /\ <<>> \o start = start
                 /\ Holds(<<>>, 1, 0, Base, Power, g) /\ g[1] = Value(<<>>, Base)
    BY <1>3, <1>6, ReadingStarts
  <2>2. Value(start, Base) = Number
    BY <1>4 DEF Number
  <2>3. Reading(<<>>, g)
    BY <1>2, <2>1, <2>2 DEF Reading
  <2> QED
    BY <2>3
<1>9. TextComesBack /\ RejectsOnlyNonIDs
  BY <1>2 DEF TextComesBack, RejectsOnlyNonIDs
<1>10. ConvertInv
  BY <1>2, <1>4, <1>6, <1>7, <1>8 DEF ConvertInv
<1> QED
  BY <1>1, <1>9, <1>10 DEF NInv

\* A step within a conversion: it is enough to say what is read after it.
LEMMA ReadingGoesOn ==
  ASSUME NInv, Converting, UNCHANGED <<start, phase, turns>>, IInv', input' \in Seq(Nat),
         OfDigest => input' \in Seq(0..(Base - 1)), NEW w, NEW g, Reading(w, g)'
  PROVE  NInv'
<1>1. ConvertInv
  BY DEF NInv
<1>2. /\ Converting' /\ (Written' <=> Written) /\ (OfDigest' <=> OfDigest)
      /\ Base' = Base /\ Number' = Number
  BY DEF Converting, Written, OfDigest, Base, Number
<1>3. \E v, h : Reading(v, h)'
  OBVIOUS
<1>4. ConvertInv'
  BY <1>1, <1>2, <1>3 DEF ConvertInv
<1>5. TextComesBack' /\ RejectsOnlyNonIDs'
  <2>1. phase' # "done" /\ phase' # "rejected"
    BY DEF Converting
  <2> QED
    BY <2>1 DEF TextComesBack, RejectsOnlyNonIDs
<1> QED
  BY <1>2, <1>4, <1>5 DEF NInv

LEMMA Wide ==
  ASSUME Converting
  PROVE  Base \in Nat \ {0, 1} /\ Power \in Nat \ {0}
BY WidthAssumption DEF Converting, Base, Power

LEMMA HeadThenTail ==
  ASSUME NEW V, NEW s \in Seq(V), NEW t \in Seq(V), t # <<>>
  PROVE  Append(s, Head(t)) \o Tail(t) = s \o t
<1> DEFINE d == Head(t)
           u == Tail(t)
<1>1. d \in V /\ u \in Seq(V)
  BY HeadTailProperties
<1>2. t = <<d>> \o u
  <2>1. Len(t) \in Nat /\ Len(t) # 0
    BY LenProperties, EmptySeq
  <2>2. 1 \in 1..Len(t) /\ Len(t) \in 1..Len(t) /\ 1 + 1 = 2
    BY <2>1
  <2>3. SubSeq(t, 1, Len(t)) = <<t[1]>> \o SubSeq(t, 1 + 1, Len(t))
    BY <2>2, SubSeqRecursiveFirst
  <2>4. SubSeq(t, 1, Len(t)) = t /\ u = SubSeq(t, 2, Len(t)) /\ d = t[1]
    BY SubSeqFull, TailIsSubSeq
  <2> QED
    BY <2>2, <2>3, <2>4
<1> HIDE DEF d, u
<1>3. Append(s, d) = s \o <<d>> /\ <<d>> \in Seq(V)
  BY <1>1, AppendIsConcat
<1>4. (s \o <<d>>) \o u = s \o (<<d>> \o u)
  BY <1>1, <1>3, ConcatAssociative
<1> QED
  BY <1>2, <1>3, <1>4 DEF d, u

\* The loops have ended when they are past the last limb with nothing to carry.
LEMMA ReadyHolds ==
  ASSUME IInv, Converting, Ready, NEW w, NEW g, Reading(w, g)
  PROVE  Holds(limbs, Len(limbs) + 1, 0, Base, Power, g)
<1>1. Holds(limbs, j, carry, Base, Power, g) /\ j > Len(limbs) /\ carry = 0
  BY DEF Reading, Ready
<1>2. j \in 1..(Len(limbs) + 1) /\ Len(limbs) \in Nat
  <2>1. limbs \in Seq(0..(Power - 1))
    BY DEF IInv
  <2> QED
    BY <1>1, <2>1, LenProperties DEF Holds
<1>3. j = Len(limbs) + 1
  BY <1>1, <1>2
<1> QED
  BY <1>1, <1>3

LEMMA LimbsType ==
  ASSUME IInv, Converting
  PROVE  limbs \in Seq(0..(Power - 1)) /\ limbs \in Seq(Nat) /\ carry \in 0..(Base - 1) /\ carry \in Nat
<1>1. limbs \in Seq(0..(Power - 1)) /\ carry \in 0..(Base - 1)
  BY DEF IInv
<1>2. 0..(Power - 1) \subseteq Nat /\ 0..(Base - 1) \subseteq Nat
  BY Wide
<1> QED
  BY <1>1, <1>2, SeqMonotonic

LEMMA ReadDigitKeeps ==
  ASSUME NInv, IInv', ReadDigit
  PROVE  NInv'
<1> DEFINE u == Tail(input)
<1>0. PICK d : d = Head(input)
  OBVIOUS
<1>1. /\ Converting /\ Ready /\ input # <<>> /\ d \in 0..(Base - 1)
      /\ carry' = d /\ input' = u /\ j' = 1 /\ limbs' = limbs
      /\ UNCHANGED <<start, phase, turns>>
  BY <1>0 DEF ReadDigit, IsDigit
<1>2. IInv /\ ConvertInv
  BY <1>1 DEF NInv
<1>3. PICK w, g : Reading(w, g)
  BY <1>2 DEF ConvertInv
<1>4. Base \in Nat \ {0, 1} /\ Power \in Nat \ {0}
  BY <1>1, Wide
<1>5. limbs \in Seq(Nat)
  BY <1>1, <1>2, LimbsType
<1>6. input \in Seq(Nat) /\ d \in Nat /\ u \in Seq(Nat)
  BY <1>0, <1>1, <1>2, HeadTailProperties DEF ConvertInv
<1>7. w \in Seq(0..(Base - 1)) /\ w \in Seq(Nat)
  <2>1. 0..(Base - 1) \subseteq Nat
    BY <1>4
  <2> QED
    BY <1>3, <2>1, SeqMonotonic DEF Reading
<1>8. Append(w, d) \o u = w \o input
  BY <1>0, <1>1, <1>6, <1>7, HeadThenTail
<1> HIDE DEF u
<1>9. Holds(limbs, Len(limbs) + 1, 0, Base, Power, g)
  BY <1>1, <1>2, <1>3, ReadyHolds
<1>10. PICK h : Holds(limbs, 1, d, Base, Power, h) /\ h[1] = g[1] * Base + d
  <2>1. HoldsNumber(limbs, 1, d, Base, Power, g[1] * Base + d)
    BY <1>4, <1>5, <1>6, <1>9, HoldsRead
  <2> QED
    BY <2>1 DEF HoldsNumber
<1>11. Value(Append(w, d), Base) = Value(w, Base) * Base + d
  BY <1>4, <1>6, <1>7, ValueAppend
<1>12. h[1] = Value(Append(w, d), Base)
  BY <1>3, <1>10, <1>11 DEF Reading
<1>13. Append(w, d) \in Seq(0..(Base - 1))
  BY <1>1, <1>7, AppendProperties
<1>14. Base' = Base /\ Power' = Power /\ Number' = Number
  BY <1>1 DEF Base, Power, Number, Written
<1>15. Reading(Append(w, d), h)'
  BY <1>1, <1>3, <1>8, <1>10, <1>12, <1>13, <1>14 DEF Reading
<1>16. OfDigest => input' \in Seq(0..(Base - 1))
  <2> SUFFICES ASSUME OfDigest PROVE input' \in Seq(0..(Base - 1))
    OBVIOUS
  <2>1. input \in Seq(0..(Base - 1))
    BY <1>2 DEF ConvertInv
  <2> QED
    BY <1>1, <2>1, HeadTailProperties DEF u
<1> QED
  BY <1>1, <1>6, <1>15, <1>16, ReadingGoesOn

\* A step of the loops keeps what is read.
LEMMA LoopKeeps ==
  ASSUME NInv, IInv', Converting, UNCHANGED <<start, phase, input, turns>>,
         NEW w, NEW g, Reading(w, g), NEW h, Holds(limbs', j', carry', Base, Power, h), h[1] = g[1]
  PROVE  NInv'
<1>1. ConvertInv
  BY DEF NInv
<1>2. Base' = Base /\ Power' = Power /\ Number' = Number
  BY DEF Base, Power, Number, Written
<1>3. Reading(w, h)'
  BY <1>2 DEF Reading
<1>4. input' \in Seq(Nat) /\ (OfDigest => input' \in Seq(0..(Base - 1)))
  BY <1>1 DEF ConvertInv
<1> QED
  BY <1>3, <1>4, ReadingGoesOn

LEMMA MultiplyKeeps ==
  ASSUME NInv, IInv', Multiply
  PROVE  NInv'
<1>1. /\ Converting /\ j <= Len(limbs)
      /\ limbs' = [limbs EXCEPT ![j] = Accumulator % Power]
      /\ carry' = Accumulator \div Power /\ j' = j + 1
      /\ UNCHANGED <<start, phase, input, turns>>
  BY DEF Multiply
<1>2. IInv /\ ConvertInv
  BY <1>1 DEF NInv
<1>3. PICK w, g : Reading(w, g)
  BY <1>2 DEF ConvertInv
<1>4. Base \in Nat \ {0} /\ Power \in Nat \ {0}
  BY <1>1, Wide
<1>5. Accumulator = limbs[j] * Base + carry
  BY <1>1, <1>2, WordHolds
<1>6. limbs \in Seq(0..(Power - 1)) /\ carry \in 0..(Base - 1)
  BY <1>1, <1>2, LimbsType
<1>7. j \in 1..Len(limbs) /\ Holds(limbs, j, carry, Base, Power, g)
  <2>1. Holds(limbs, j, carry, Base, Power, g) /\ Len(limbs) \in Nat
    BY <1>3, <1>6, LenProperties DEF Reading
  <2> QED
    BY <1>1, <2>1 DEF Holds
<1>8. HoldsNumber([limbs EXCEPT ![j] = Accumulator % Power], j + 1, Accumulator \div Power,
                  Base, Power, g[1])
  BY <1>4, <1>5, <1>6, <1>7, HoldsMultiply
<1>9. PICK h : Holds(limbs', j', carry', Base, Power, h) /\ h[1] = g[1]
  BY <1>1, <1>8 DEF HoldsNumber
<1> QED
  BY <1>1, <1>3, <1>9, LoopKeeps

LEMMA GrowKeeps ==
  ASSUME NInv, IInv', Grow
  PROVE  NInv'
<1>1. /\ Converting /\ j > Len(limbs) /\ carry > 0
      /\ limbs' = Append(limbs, carry % Power)
      /\ carry' = carry \div Power /\ j' = j + 1
      /\ UNCHANGED <<start, phase, input, turns>>
  BY DEF Grow
<1>2. IInv /\ ConvertInv
  BY <1>1 DEF NInv
<1>3. PICK w, g : Reading(w, g)
  BY <1>2 DEF ConvertInv
<1>4. Base \in Nat \ {0} /\ Power \in Nat \ {0}
  BY <1>1, Wide
<1>5. limbs \in Seq(Nat) /\ carry \in Nat
  BY <1>1, <1>2, LimbsType
<1>6. j = Len(limbs) + 1 /\ Holds(limbs, j, carry, Base, Power, g)
  <2>1. Holds(limbs, j, carry, Base, Power, g) /\ Len(limbs) \in Nat
    BY <1>3, <1>5, LenProperties DEF Reading
  <2>2. j \in 1..(Len(limbs) + 1)
    BY <2>1 DEF Holds
  <2> QED
    BY <1>1, <2>1, <2>2
<1>7. HoldsNumber(Append(limbs, carry % Power), (Len(limbs) + 1) + 1, carry \div Power,
                  Base, Power, g[1])
  BY <1>1, <1>4, <1>5, <1>6, HoldsGrow
<1>8. PICK h : Holds(limbs', j', carry', Base, Power, h) /\ h[1] = g[1]
  BY <1>1, <1>6, <1>7 DEF HoldsNumber
<1> QED
  BY <1>1, <1>3, <1>8, LoopKeeps

-----------------------------------------------------------------------------
(* The end of a conversion.                                                  *)

\* What the limbs hold when all is read, and the bounds on it.
LEMMA AllRead ==
  ASSUME NInv, Converting, Ready, input = <<>>
  PROVE  \E g : /\ Tails(limbs, Power, g)
                /\ g[1] = Number /\ Number \in Nat
                /\ turns = 0 => start \in Seq(0..(Base - 1))
<1>1. IInv /\ ConvertInv
  BY DEF NInv
<1>2. PICK w, g : Reading(w, g)
  BY <1>1 DEF ConvertInv
<1>3. Base \in Nat \ {0, 1} /\ Power \in Nat \ {0} /\ limbs \in Seq(Nat)
  BY <1>1, Wide, LimbsType
<1>4. Tails(limbs, Power, g)
  BY <1>1, <1>2, <1>3, ReadyHolds, HoldsEnd
<1>5. w \in Seq(0..(Base - 1)) /\ w \in Seq(Nat)
  <2>1. 0..(Base - 1) \subseteq Nat
    BY <1>3
  <2> QED
    BY <1>2, <2>1, SeqMonotonic DEF Reading
<1>6. w \o input = w
  BY <1>5, ConcatEmptySeq
<1>7. g[1] = Number
  BY <1>2, <1>6 DEF Reading
<1>8. Number \in Nat
  BY <1>2, <1>3, <1>5, <1>6, ValueType DEF Reading
<1>9. turns = 0 => start \in Seq(0..(Base - 1))
  BY <1>2, <1>5, <1>6 DEF Reading
<1> QED
  BY <1>4, <1>7, <1>8, <1>9

\* The digits s that come out are those of the number, when they fit in n.
Padded(b, s, n) ==
  /\ s \in Seq(0..(b - 1)) /\ Number \in Nat
  /\ Len(s) > n => Number >= Pow(b, n)
  /\ Len(s) <= n => /\ Pad(s, n) \in Seq(0..(b - 1)) /\ Len(Pad(s, n)) = n
                   /\ Value(Pad(s, n), b) = Number

LEMMA PaddedExtract ==
  ASSUME NInv, Converting, Ready, input = <<>>, NEW b \in Nat \ {0, 1}, NEW p \in Nat,
         Power = Pow(b, p), NEW n \in Nat
  PROVE  Padded(b, Extract(b, p), n)
<1> DEFINE s == Extract(b, p)
<1>1. PICK g : Tails(limbs, Power, g) /\ g[1] = Number /\ Number \in Nat
  BY AllRead
<1>2. limbs \in Seq(0..(Pow(b, p) - 1))
  BY LimbsType DEF NInv
<1>3. /\ s \in Seq(0..(b - 1)) /\ Value(s, b) = Number
      /\ Len(s) > n => Number >= Pow(b, n)
  BY <1>1, <1>2, ExtractEnds
<1> HIDE DEF s
<1>4. ASSUME Len(s) <= n
      PROVE  /\ Pad(s, n) \in Seq(0..(b - 1)) /\ Len(Pad(s, n)) = n
             /\ Value(Pad(s, n), b) = Number
  <2>1. b \in Nat \ {0}
    OBVIOUS
  <2> QED
    BY <1>3, <1>4, <2>1, PadIs
<1>5. Padded(b, s, n)
  BY <1>1, <1>3, <1>4 DEF Padded
<1> QED
  BY <1>5 DEF s

\* The second conversion starts with the number of the first.
LEMMA StartsAgain ==
  ASSUME NInv, Converting, turns = 0, turns' = 1, start' = start, Converting', phase' # phase,
         IInv', limbs' = <<>>, j' = 1, carry' = 0, NEW t, input' = t,
         t \in Seq(0..(Base' - 1)), Value(t, Base') = Number, Number < Pow(ByteBase, DigestLen),
         phase = "decode" => start \in Seq(0..(TextBase - 1))
  PROVE  NInv'
<1>1. ConvertInv
  BY DEF NInv
<1>2. (Written' <=> Written) /\ Number' = Number /\ (~Written <=> phase = "decode")
  BY DEF Converting, Written, Number
<1>3. Base' \in Nat \ {0} /\ Power' \in Nat /\ 0..(Base' - 1) \subseteq Nat
  BY WidthAssumption DEF Base, Power
<1>4. t \in Seq(Nat)
  BY <1>3, SeqMonotonic
<1>5. \E w, g : Reading(w, g)'
  <2>1. PICK b, p : b = Base' /\ p = Power'
    OBVIOUS
  <2>2. PICK g : /\ <<>> \in Seq(0..(b - 1)) /\ <<>> \o t = t
                 /\ Holds(<<>>, 1, 0, b, p, g) /\ g[1] = Value(<<>>, b)
    BY <1>3, <1>4, <2>1, ReadingStarts
  <2>3. Reading(<<>>, g)'
    BY <1>2, <2>1, <2>2 DEF Reading
  <2> QED
    BY <2>3
<1>6. ConvertInv'
  BY <1>1, <1>2, <1>4, <1>5 DEF ConvertInv
<1>7. TextComesBack' /\ RejectsOnlyNonIDs'
  <2>1. phase' # "done" /\ phase' # "rejected"
    BY DEF Converting
  <2> QED
    BY <2>1 DEF TextComesBack, RejectsOnlyNonIDs
<1> QED
  BY <1>6, <1>7 DEF NInv

LEMMA EndsWithStart ==
  ASSUME IInv', phase' = "done", input' = start'
  PROVE  NInv'
BY DEF NInv, Converting, TextComesBack, RejectsOnlyNonIDs

LEMMA FinishTextKeeps ==
  ASSUME NInv, IInv', FinishText
  PROVE  NInv'
<1>1. PICK s : s = Extract(TextBase, DigitsPerLimb)
  OBVIOUS
<1> DEFINE t == Pad(s, TextLen)
<1>2. /\ phase = "encode" /\ Ready /\ input = <<>>
      /\ phase' = IF turns = 1 THEN "done" ELSE "decode"
      /\ input' = t /\ limbs' = <<>> /\ j' = 1 /\ turns' = turns + 1
      /\ start' = start /\ carry' = 0
  BY <1>1 DEF FinishText, Restart, Ready
<1>3. Converting /\ ConvertInv /\ Base = ByteBase /\ Power = Pow(TextBase, DigitsPerLimb)
  BY <1>2, SizeAssumption DEF NInv, Converting, Base, Power
<1>4. /\ ByteBase \in Nat \ {0, 1} /\ TextBase \in Nat \ {0, 1}
      /\ DigitsPerLimb \in Nat /\ TextLen \in Nat /\ DigestLen \in Nat
  BY WidthAssumption, Sizes
<1>5. Padded(TextBase, s, TextLen)
  BY <1>1, <1>2, <1>3, <1>4, PaddedExtract
<1>6. Number < Pow(ByteBase, DigestLen)
  BY <1>2, <1>3 DEF ConvertInv, OfDigest
<1>7. s \in Seq(0..(TextBase - 1)) /\ Number \in Nat
  BY <1>5 DEF Padded
<1>8. Len(s) <= TextLen
  <2>1. Len(s) \in Nat
    BY <1>7, LenProperties
  <2>2. Pow(TextBase, TextLen) \in Nat /\ Pow(ByteBase, DigestLen) \in Nat
    BY <1>4, PowType
  <2>3. Pow(ByteBase, DigestLen) <= Pow(TextBase, TextLen)
    BY SizeAssumption
  <2> QED
    BY <1>4, <1>5, <1>6, <1>7, <2>1, <2>2, <2>3 DEF Padded
<1>9. t \in Seq(0..(TextBase - 1)) /\ Len(t) = TextLen /\ Value(t, TextBase) = Number
  BY <1>5, <1>8 DEF Padded
<1> HIDE DEF t
<1>10. CASE turns = 0
  <2>1. phase' = "decode" /\ turns' = 1 /\ Base' = TextBase /\ Converting'
    BY <1>2, <1>10 DEF Base, Converting
  <2> QED
    BY <1>2, <1>3, <1>6, <1>9, <1>10, <2>1, StartsAgain
<1>11. CASE turns = 1
  <2>1. ~Written
    BY <1>2, <1>11 DEF Written
  <2>2. start \in Texts /\ start \in Seq(0..(TextBase - 1)) /\ Number = Value(start, TextBase)
    BY <1>3, <1>11, <2>1 DEF ConvertInv, Number
  <2>3. Len(start) = TextLen
    BY <2>2, StartIsSeq
  <2>4. t = start
    <3>1. TextBase \in Nat \ {0}
      BY <1>4
    <3> QED
      BY <1>9, <2>2, <2>3, <3>1, ValueOnce
  <2> QED
    BY <1>2, <1>11, <2>4, EndsWithStart
<1> QED
  BY <1>3, <1>10, <1>11 DEF ConvertInv

LEMMA FinishDigestKeeps ==
  ASSUME NInv, IInv', FinishDigest
  PROVE  NInv'
<1>1. PICK s : s = Extract(ByteBase, BytesPerLimb)
  OBVIOUS
<1> DEFINE t == Pad(s, DigestLen)
<1>2. /\ phase = "decode" /\ Ready /\ input = <<>> /\ Len(s) <= DigestLen
      /\ phase' = IF turns = 1 THEN "done" ELSE "encode"
      /\ input' = t /\ limbs' = <<>> /\ j' = 1 /\ turns' = turns + 1
      /\ start' = start /\ carry' = 0
  BY <1>1 DEF FinishDigest, Restart, Ready
<1>3. Converting /\ ConvertInv /\ Base = TextBase /\ Power = Pow(ByteBase, BytesPerLimb)
  BY <1>2, SizeAssumption DEF NInv, Converting, Base, Power
<1>4. /\ ByteBase \in Nat \ {0, 1} /\ BytesPerLimb \in Nat /\ DigestLen \in Nat
  BY WidthAssumption, Sizes
<1>5. t \in Seq(0..(ByteBase - 1)) /\ Len(t) = DigestLen /\ Value(t, ByteBase) = Number
  <2>1. Padded(ByteBase, s, DigestLen)
    BY <1>1, <1>2, <1>3, <1>4, PaddedExtract
  <2> QED
    BY <1>2, <2>1 DEF Padded
<1>6. ByteBase \in Nat \ {0}
  BY <1>4
<1> HIDE DEF t
<1>7. CASE turns = 0
  <2>1. phase' = "encode" /\ turns' = 1 /\ Base' = ByteBase /\ Converting'
    BY <1>2, <1>7 DEF Base, Converting
  <2>2. Number < Pow(ByteBase, DigestLen)
    BY <1>5, <1>6, ValueBelow
  <2>3. start \in Seq(0..(TextBase - 1))
    BY <1>2, <1>3, <1>7, AllRead
  <2> QED
    BY <1>2, <1>3, <1>5, <1>7, <2>1, <2>2, <2>3, StartsAgain
<1>8. CASE turns = 1
  <2>1. Written
    BY <1>2, <1>8 DEF Written
  <2>2. start \in Digests /\ Number = Value(start, ByteBase)
    BY <1>3, <2>1 DEF ConvertInv, Number
  <2>3. start \in Seq(0..(ByteBase - 1)) /\ Len(start) = DigestLen
    BY <2>2, StartIsSeq
  <2>4. t = start
    BY <1>5, <1>6, <2>2, <2>3, ValueOnce
  <2> QED
    BY <1>2, <1>8, <2>4, EndsWithStart
<1> QED
  BY <1>3, <1>7, <1>8 DEF ConvertInv

-----------------------------------------------------------------------------
(* The limbs there are, and what is rejected.                                *)

LEMMA LimbsBelow ==
  ASSUME NInv, Converting
  PROVE  /\ Number \in Nat
         /\ limbs # <<>> => Pow(Power, Len(limbs) - 1) <= Number
         /\ j > Len(limbs) /\ carry > 0 => Pow(Power, Len(limbs)) <= Number
<1>1. IInv /\ ConvertInv
  BY DEF NInv
<1>2. PICK w, g : Reading(w, g)
  BY <1>1 DEF ConvertInv
<1>3. Base \in Nat \ {0} /\ Power \in Nat \ {0}
  BY Wide
<1>4. limbs \in Seq(Nat) /\ carry \in Nat /\ Len(limbs) \in Nat
  BY <1>1, LimbsType, LenProperties
<1>5. w \in Seq(Nat) /\ input \in Seq(Nat)
  <2>1. 0..(Base - 1) \subseteq Nat
    BY <1>3
  <2> QED
    BY <1>1, <1>2, <2>1, SeqMonotonic DEF Reading, ConvertInv
<1>6. Value(w, Base) \in Nat /\ Number \in Nat /\ Value(w, Base) <= Number
  BY <1>2, <1>3, <1>5, ValuePrefix DEF Reading
<1>7. Holds(limbs, j, carry, Base, Power, g) /\ g[1] = Value(w, Base)
  BY <1>2 DEF Reading
<1>8. /\ limbs # <<>> => Pow(Power, Len(limbs) - 1) <= g[1]
      /\ j = Len(limbs) + 1 /\ carry > 0 => Pow(Power, Len(limbs)) <= g[1]
  BY <1>3, <1>4, <1>7, HoldsPower
<1>9. j > Len(limbs) => j = Len(limbs) + 1
  <2>1. j \in 1..(Len(limbs) + 1)
    BY <1>7 DEF Holds
  <2> QED
    BY <1>4, <2>1
<1>10. \A x \in Nat : x <= g[1] => x <= Number
  BY <1>6, <1>7
<1>11. limbs # <<>> => Pow(Power, Len(limbs) - 1) \in Nat
  <2>1. limbs # <<>> => Len(limbs) - 1 \in Nat
    <3>1. limbs # <<>> => Len(limbs) # 0
      BY <1>4, EmptySeq
    <3> QED
      BY <1>4, <3>1
  <2> QED
    BY <1>3, <2>1, PowType
<1>12. Pow(Power, Len(limbs)) \in Nat
  BY <1>3, <1>4, PowType
<1> QED
  BY <1>6, <1>8, <1>9, <1>10, <1>11, <1>12

\* As many limbs as the array of the decoder has are more than a digest needs.
LEMMA DecoderFull ==
  ASSUME NEW n \in Nat, n >= DecodeMaxLimbs
  PROVE  Pow(Pow(ByteBase, BytesPerLimb), n) >= Pow(ByteBase, DigestLen)
<1>1. ByteBase \in Nat \ {0} /\ BytesPerLimb \in Nat /\ DecodeMaxLimbs \in Nat /\ DigestLen \in Nat
  BY WidthAssumption, Sizes
<1>2. BytesPerLimb * DecodeMaxLimbs >= DigestLen
  BY SizeAssumption
<1>3. BytesPerLimb * DecodeMaxLimbs <= BytesPerLimb * n /\ BytesPerLimb * n \in Nat
      /\ BytesPerLimb * DecodeMaxLimbs \in Nat
  BY <1>1, TimesGrows
<1> DEFINE x == BytesPerLimb * DecodeMaxLimbs
           y == BytesPerLimb * n
<1>4. y \in Nat /\ DigestLen <= y
  <2>1. x \in Nat /\ y \in Nat /\ x <= y /\ x >= DigestLen
    BY <1>2, <1>3
  <2> HIDE DEF x, y
  <2> QED
    BY <1>1, <2>1
<1> HIDE DEF y
<1>5. Pow(ByteBase, DigestLen) <= Pow(ByteBase, y)
  BY <1>1, <1>4, PowGrows
<1>6. Pow(Pow(ByteBase, BytesPerLimb), n) = Pow(ByteBase, y)
  BY <1>1, PowTimes DEF y
<1>7. Pow(ByteBase, DigestLen) \in Nat /\ Pow(ByteBase, y) \in Nat
  BY <1>1, <1>4, PowType
<1> QED
  BY <1>5, <1>6, <1>7

\* As many limbs as the array of the encoder has hold any text.
LEMMA EncoderFull ==
  ASSUME NEW n \in Nat, n >= MaxLimbs
  PROVE  Pow(Pow(TextBase, DigitsPerLimb), n) >= Pow(ByteBase, DigestLen)
<1>1. /\ TextBase \in Nat \ {0} /\ ByteBase \in Nat \ {0}
      /\ DigitsPerLimb \in Nat /\ MaxLimbs \in Nat /\ TextLen \in Nat /\ DigestLen \in Nat
  BY WidthAssumption, Sizes
<1>2. DigitsPerLimb * MaxLimbs >= TextLen /\ Pow(ByteBase, DigestLen) <= Pow(TextBase, TextLen)
  BY SizeAssumption
<1>3. DigitsPerLimb * MaxLimbs <= DigitsPerLimb * n /\ DigitsPerLimb * n \in Nat
      /\ DigitsPerLimb * MaxLimbs \in Nat
  BY <1>1, TimesGrows
<1> DEFINE x == DigitsPerLimb * MaxLimbs
           y == DigitsPerLimb * n
<1>4. y \in Nat /\ TextLen <= y
  <2>1. x \in Nat /\ y \in Nat /\ x <= y /\ x >= TextLen
    BY <1>2, <1>3
  <2> HIDE DEF x, y
  <2> QED
    BY <1>1, <2>1
<1> HIDE DEF y
<1>5. Pow(TextBase, TextLen) <= Pow(TextBase, y)
  BY <1>1, <1>4, PowGrows
<1>6. Pow(Pow(TextBase, DigitsPerLimb), n) = Pow(TextBase, y)
  BY <1>1, PowTimes DEF y
<1>7. Pow(TextBase, TextLen) \in Nat /\ Pow(TextBase, y) \in Nat /\ Pow(ByteBase, DigestLen) \in Nat
  BY <1>1, <1>4, PowType
<1> QED
  BY <1>2, <1>5, <1>6, <1>7

LEMMA NInvArray ==
  ASSUME NInv
  PROVE  ArrayHolds
<1> SUFFICES ASSUME phase = "encode", ~(Len(limbs) <= MaxLimbs)
             PROVE  FALSE
  BY DEF ArrayHolds
<1>1. Converting /\ Power = Pow(TextBase, DigitsPerLimb)
  BY SizeAssumption DEF Converting, Power
<1>2. ConvertInv /\ IInv
  BY <1>1 DEF NInv
<1>3. Number < Pow(ByteBase, DigestLen)
  BY <1>2 DEF ConvertInv, OfDigest
<1>4. Len(limbs) \in Nat /\ MaxLimbs \in Nat
  BY <1>1, <1>2, LimbsType, LenProperties, Sizes
<1>5. limbs # <<>> /\ Len(limbs) - 1 \in Nat /\ Len(limbs) - 1 >= MaxLimbs
  BY <1>4, EmptySeq
<1>6. Number \in Nat /\ Pow(Power, Len(limbs) - 1) <= Number
  BY <1>1, <1>5, LimbsBelow
<1>7. Pow(Power, Len(limbs) - 1) >= Pow(ByteBase, DigestLen)
  BY <1>1, <1>5, EncoderFull
<1>8. Pow(Power, Len(limbs) - 1) \in Nat /\ Pow(ByteBase, DigestLen) \in Nat
  <2>1. Power \in Nat \ {0} /\ ByteBase \in Nat \ {0} /\ DigestLen \in Nat
    BY <1>1, Wide, WidthAssumption, Sizes
  <2> QED
    BY <1>5, <2>1, PowType
<1> QED
  BY <1>3, <1>6, <1>7, <1>8

LEMMA RejectKeeps ==
  ASSUME NInv, IInv', Reject
  PROVE  NInv'
<1>1. /\ phase = "decode" /\ phase' = "rejected" /\ start' = start /\ turns' = turns
      /\ RejectDigit \/ RejectSize \/ RejectRoom
  BY DEF Reject
<1>2. Converting /\ ConvertInv /\ IInv /\ Base = TextBase /\ Power = Pow(ByteBase, BytesPerLimb)
  BY <1>1, SizeAssumption DEF NInv, Converting, Base, Power
<1>3. /\ ByteBase \in Nat \ {0, 1} /\ TextBase \in Nat \ {0, 1}
      /\ BytesPerLimb \in Nat /\ DigestLen \in Nat /\ DecodeMaxLimbs \in Nat
  BY WidthAssumption, Sizes
<1>4. Number \in Nat /\ Pow(ByteBase, DigestLen) \in Nat
  BY <1>2, <1>3, LimbsBelow, PowType
<1>5. ASSUME RejectSize
      PROVE  Number >= Pow(ByteBase, DigestLen)
  <2>1. Ready /\ input = <<>> /\ Len(Extract(ByteBase, BytesPerLimb)) > DigestLen
    BY <1>5 DEF RejectSize
  <2>2. Padded(ByteBase, Extract(ByteBase, BytesPerLimb), DigestLen)
    BY <1>2, <1>3, <2>1, PaddedExtract
  <2> QED
    BY <2>1, <2>2 DEF Padded
<1>6. ASSUME RejectRoom
      PROVE  Number >= Pow(ByteBase, DigestLen)
  <2>1. j > Len(limbs) /\ carry > 0 /\ ~(Len(limbs) < DecodeMaxLimbs)
    BY <1>6 DEF RejectRoom, HasRoom
  <2>2. Len(limbs) \in Nat
    BY <1>2, LimbsType, LenProperties
  <2>3. Len(limbs) >= DecodeMaxLimbs
    BY <1>3, <2>1, <2>2
  <2>4. Pow(Power, Len(limbs)) <= Number
    BY <1>2, <2>1, LimbsBelow
  <2>5. Pow(Power, Len(limbs)) >= Pow(ByteBase, DigestLen)
    BY <1>2, <2>2, <2>3, DecoderFull
  <2>6. Pow(Power, Len(limbs)) \in Nat
    BY <1>2, <2>2, Wide, PowType
  <2> QED
    BY <1>4, <2>4, <2>5, <2>6
<1>7. ASSUME RejectDigit
      PROVE  turns = 0 /\ \E i \in 1..TextLen : start[i] = TextBase
  <2>1. input # <<>> /\ Head(input) \notin 0..(TextBase - 1)
    BY <1>2, <1>7 DEF RejectDigit, IsDigit
  <2>2. turns = 0
    <3>1. turns = 1 => input \in Seq(0..(TextBase - 1))
      BY <1>2 DEF ConvertInv, OfDigest
    <3>2. turns # 1
      BY <2>1, <3>1, HeadTailProperties
    <3> QED
      BY <1>2, <3>2 DEF ConvertInv
  <2>3. start \in Seq(0..TextBase) /\ Len(start) = TextLen
    BY <1>1, <1>2, <2>2, StartIsSeq DEF ConvertInv, Written
  <2>4. PICK w, g : Reading(w, g)
    BY <1>2 DEF ConvertInv
  <2>5. w \in Seq(Nat) /\ input \in Seq(Nat) /\ w \o input = start
    <3>1. 0..(Base - 1) \subseteq Nat
      BY <1>2, <1>3
    <3> QED
      BY <1>2, <2>2, <2>4, <3>1, SeqMonotonic DEF Reading, ConvertInv
  <2> DEFINE i == Len(w) + 1
  <2>6. i \in 1..TextLen /\ start[i] = Head(input)
    <3>1. Len(w) \in Nat /\ Len(input) \in Nat /\ Len(input) # 0
      BY <2>1, <2>5, LenProperties, EmptySeq
    <3>2. i \in 1..(Len(w) + Len(input)) /\ ~(i <= Len(w)) /\ i - Len(w) = 1
      BY <3>1
    <3>3. Len(start) = Len(w) + Len(input)
          /\ start[i] = IF i <= Len(w) THEN w[i] ELSE input[i - Len(w)]
      <4>1. /\ Len(w \o input) = Len(w) + Len(input)
            /\ \A k \in 1..(Len(w) + Len(input)) :
                 (w \o input)[k] = IF k <= Len(w) THEN w[k] ELSE input[k - Len(w)]
        BY <2>5, ConcatProperties
      <4> HIDE DEF i
      <4> QED
        BY <2>5, <3>2, <4>1
    <3>4. Head(input) = input[1]
      BY <2>1, <2>5
    <3> HIDE DEF i
    <3> QED
      BY <2>3, <3>2, <3>3, <3>4
  <2> HIDE DEF i
  <2>7. start[i] \in 0..TextBase
    BY <2>3, <2>6, ElementOfSeq
  <2>8. start[i] = TextBase
    BY <1>3, <2>1, <2>6, <2>7
  <2> QED
    BY <2>2, <2>6, <2>8
<1>8. ASSUME Number >= Pow(ByteBase, DigestLen)
      PROVE  turns = 0 /\ Value(start, TextBase) >= Pow(ByteBase, DigestLen)
  <2>1. ~(Number < Pow(ByteBase, DigestLen))
    BY <1>4, <1>8
  <2>2. turns = 0
    BY <1>2, <2>1 DEF ConvertInv, OfDigest
  <2>3. Number = Value(start, TextBase)
    BY <1>1, <2>2 DEF Number, Written
  <2> QED
    BY <1>8, <2>2, <2>3
<1>9. /\ turns = 0
      /\ \/ \E i \in 1..TextLen : start[i] = TextBase
         \/ Value(start, TextBase) >= Pow(ByteBase, DigestLen)
  BY <1>1, <1>5, <1>6, <1>7, <1>8
<1>10. RejectsOnlyNonIDs'
  BY <1>1, <1>9 DEF RejectsOnlyNonIDs
<1> QED
  BY <1>1, <1>10 DEF NInv, Converting, TextComesBack

LEMMA StaysNInv ==
  ASSUME NInv, UNCHANGED vars
  PROVE  NInv'
BY DEF vars, NInv, IInv, Converting, Base, Power, TextComesBack, RejectsOnlyNonIDs,
       ConvertInv, Written, OfDigest, Number, Reading

LEMMA NInvHolds == Spec => []NInv
<1>1. Init => NInv
  BY NInvInit
<1>2. NInv /\ IInv' /\ [Next]_vars => NInv'
  BY ReadDigitKeeps, MultiplyKeeps, GrowKeeps, FinishTextKeeps, FinishDigestKeeps, RejectKeeps,
     StaysNInv DEF Next
<1> QED
  BY <1>1, <1>2, IInvHolds, PTL DEF Spec

\* The encoder of base58Encode, which writes limbs[nlimbs++] without looking,
\* stays within its array: the number of a digest is below the power of a limb
\* for every limb that the array has.
THEOREM EncoderArrayHolds == Spec => []ArrayHolds
<1>1. NInv => ArrayHolds
  BY NInvArray
<1> QED
  BY <1>1, NInvHolds, PTL

\* ID::Parse of what ID::String wrote is the ID, and ID::String of what
\* ID::Parse accepted is the text.
THEOREM TextIsOfOneID == Spec => []TextComesBack
<1>1. NInv => TextComesBack
  BY DEF NInv
<1> QED
  BY <1>1, NInvHolds, PTL

\* ID::Parse rejects no text that stands for a digest, whether it finds the
\* number too large by its limbs or by its bytes.
THEOREM RejectsNoID == Spec => []RejectsOnlyNonIDs
<1>1. NInv => RejectsOnlyNonIDs
  BY DEF NInv
<1> QED
  BY <1>1, NInvHolds, PTL

-----------------------------------------------------------------------------
(* The tree of a set of IDs (IDs::TreeID of src/c4/tree.cpp).                *)

Doubles == INSTANCE FoldFacts WITH Op <- LAMBDA c, p, i : 2 * p
Pairing == INSTANCE FoldFacts WITH Op <- LAMBDA c, level, d : PairLevel(level)

LEMMA DoublesFold ==
  ASSUME NEW k
  PROVE  PowerOfTwo(k) = Doubles!Fold(0, 1, [i \in 1..k |-> i])
BY DEF PowerOfTwo, FoldLeft, MapThenFoldSet, Max,
       Doubles!Fold, Doubles!FoldLeft, Doubles!MapThenFoldSet, Doubles!Max

LEMMA PowerOfTwoIs ==
  ASSUME NEW k \in Nat
  PROVE  PowerOfTwo(k) = Pow(2, k)
<1> DEFINE S == {m \in Nat : PowerOfTwo(m) = Pow(2, m)}
<1>1. 0 \in S
  <2>1. [i \in 1..0 |-> i] = <<>>
    OBVIOUS
  <2>2. PowerOfTwo(0) = 1
    BY <2>1, DoublesFold, Doubles!FoldEmpty
  <2> QED
    BY <2>2, PowZero
<1>2. ASSUME NEW m \in Nat, m \in S
      PROVE  m + 1 \in S
  <2> DEFINE s == [i \in 1..m |-> i]
             t == [i \in 1..(m + 1) |-> i]
  <2>1. s \in Seq(Nat) /\ t \in Seq(Nat) /\ Len(s) = m /\ Len(t) = m + 1
    OBVIOUS
  <2>2. Append(s, m + 1) \in Seq(Nat) /\ Len(Append(s, m + 1)) = m + 1
        /\ \A i \in 1..(m + 1) : Append(s, m + 1)[i] = t[i]
    BY <2>1, AppendProperties
  <2>3. Append(s, m + 1) = t
    <3> HIDE DEF s, t
    <3> QED
      BY <2>1, <2>2, SeqEqual
  <2>4. PowerOfTwo(m) = Doubles!Fold(0, 1, s) /\ PowerOfTwo(m + 1) = Doubles!Fold(0, 1, t)
    BY DoublesFold
  <2> HIDE DEF s, t
  <2>5. Doubles!Fold(0, 1, Append(s, m + 1)) = 2 * Doubles!Fold(0, 1, s)
    BY <2>1, Doubles!FoldAppend
  <2>6. Pow(2, m + 1) = Pow(2, m) * 2 /\ Pow(2, m) \in Nat
    BY PowNext, PowType
  <2>7. PowerOfTwo(m) = Pow(2, m)
    BY <1>2
  <2>8. PowerOfTwo(m + 1) = 2 * Pow(2, m)
    BY <2>3, <2>4, <2>5, <2>7
  <2>9. \A x \in Nat : x * 2 = 2 * x
    OBVIOUS
  <2> QED
    BY <2>6, <2>8, <2>9
<1> HIDE DEF S
<1>3. k \in S
  BY <1>1, <1>2, AllNumbers
<1> QED
  BY <1>3 DEF S

\* Powers of two double, and there is one between size / 2 and size.
LEMMA PowersOfTwo ==
  ASSUME NEW k \in Nat
  PROVE  /\ Pow(2, k) \in Nat \ {0}
         /\ Pow(2, k) > k
         /\ Pow(2, k + 1) = 2 * Pow(2, k)
         /\ \A m \in Nat : m > k => 2 * Pow(2, k) <= Pow(2, m)
<1>1. Pow(2, k) \in Nat \ {0} /\ Pow(2, k) > k
  BY PowType, PowExceeds
<1>2. Pow(2, k + 1) = 2 * Pow(2, k)
  BY <1>1, PowNext
<1>3. ASSUME NEW m \in Nat, m > k
      PROVE  2 * Pow(2, k) <= Pow(2, m)
  <2>1. k + 1 \in Nat /\ k + 1 <= m
    BY <1>3
  <2>2. Pow(2, k + 1) <= Pow(2, m)
    BY <2>1, PowGrows
  <2> QED
    BY <1>2, <2>2
<1> QED
  BY <1>1, <1>2, <1>3

LEMMA HalfIs ==
  ASSUME NEW k \in Nat, NEW size \in Nat, Pow(2, k) < size, size <= 2 * Pow(2, k)
  PROVE  Half(size) = Pow(2, k)
<1> DEFINE P == {PowerOfTwo(m) : m \in 0..size}
<1>1. \A m \in 0..size : m \in Nat /\ PowerOfTwo(m) = Pow(2, m)
  BY PowerOfTwoIs
<1>2. Pow(2, k) \in P
  <2>1. k \in 0..size
    BY PowersOfTwo
  <2> QED
    BY <1>1, <2>1
<1>3. ASSUME NEW h \in P, h < size, size <= 2 * h
      PROVE  h = Pow(2, k)
  <2>1. PICK m \in 0..size : h = Pow(2, m)
    BY <1>1
  <2>2. Pow(2, k) \in Nat /\ Pow(2, m) \in Nat
    BY <1>1, PowersOfTwo
  <2>3. m > k => 2 * Pow(2, k) <= Pow(2, m)
    BY <1>1, PowersOfTwo
  <2>4. m < k => 2 * Pow(2, m) <= Pow(2, k)
    BY <1>1, PowersOfTwo
  <2>5. ~(m > k)
    BY <1>3, <2>1, <2>2, <2>3
  <2>6. ~(m < k)
    BY <1>3, <2>1, <2>2, <2>4
  <2> QED
    BY <1>1, <2>1, <2>5, <2>6
<1>4. Half(size) = CHOOSE h \in P : h < size /\ size <= 2 * h
  BY DEF Half
<1> HIDE DEF P
<1> QED
  BY <1>2, <1>3, <1>4

LEMMA HalfSplits ==
  ASSUME NEW size \in Nat, size > 1
  PROVE  Half(size) \in 1..(size - 1)
<1> DEFINE S == {s \in Nat : \E k \in Nat : Pow(2, k) < s + 2 /\ s + 2 <= 2 * Pow(2, k)}
<1>1. 0 \in S
  <2>1. Pow(2, 0) = 1
    BY PowZero
  <2> QED
    BY <2>1
<1>2. ASSUME NEW s \in Nat, s \in S
      PROVE  s + 1 \in S
  <2>1. PICK k \in Nat : Pow(2, k) < s + 2 /\ s + 2 <= 2 * Pow(2, k)
    BY <1>2
  <2>2. Pow(2, k) \in Nat \ {0} /\ Pow(2, k + 1) = 2 * Pow(2, k)
    BY PowersOfTwo
  <2>3. CASE (s + 1) + 2 <= 2 * Pow(2, k)
    BY <2>1, <2>2, <2>3
  <2>4. CASE ~((s + 1) + 2 <= 2 * Pow(2, k))
    <3>1. Pow(2, k + 1) < (s + 1) + 2 /\ (s + 1) + 2 <= 2 * Pow(2, k + 1)
      BY <2>1, <2>2, <2>4
    <3> QED
      BY <3>1
  <2> QED
    BY <2>3, <2>4
<1> HIDE DEF S
<1>3. size - 2 \in Nat /\ (size - 2) + 2 = size
  OBVIOUS
<1>4. size - 2 \in S
  BY <1>1, <1>2, <1>3, AllNumbers
<1>5. PICK k \in Nat : Pow(2, k) < size /\ size <= 2 * Pow(2, k)
  BY <1>3, <1>4 DEF S
<1>6. Half(size) = Pow(2, k) /\ Pow(2, k) \in Nat \ {0}
  BY <1>5, HalfIs, PowersOfTwo
<1> QED
  BY <1>5, <1>6

\* The root of the IDs from i to k, from the function of such roots.
RootOf(q, r, i, k) ==
  IF i >= k THEN Leaf(q[i])
  ELSE LET split == i + Half(k - i + 1)
       IN Hash({r[i][split - 1], r[split][k]})

Roots(q, r) == r = [i \in 1..Len(q) |-> [k \in 1..Len(q) |-> RootOf(q, r, i, k)]]

LEMMA SplitIs ==
  ASSUME NEW i \in Nat, NEW k \in Nat, i < k
  PROVE  /\ i + Half(k - i + 1) \in (i + 1)..k
         /\ (i + Half(k - i + 1)) - 1 \in i..(k - 1)
<1>1. k - i + 1 \in Nat /\ k - i + 1 > 1
  OBVIOUS
<1>2. Half(k - i + 1) \in 1..((k - i + 1) - 1)
  BY <1>1, HalfSplits
<1> QED
  BY <1>2

\* Equal for ranges up to m.
Equal(n, m, f, g) == \A i, k \in 1..n : k - i < m => f[i][k] = g[i][k]

\* It looks at shorter ranges only, so there is such a function.
LEMMA RootsShorter ==
  ASSUME NEW q, NEW n \in Nat, NEW m \in Nat, NEW f, NEW g, Equal(n, m, f, g),
         NEW i \in 1..n, NEW k \in 1..n, k - i < m + 1
  PROVE  RootOf(q, f, i, k) = RootOf(q, g, i, k)
<1>1. CASE i >= k
  BY <1>1 DEF RootOf
<1>2. CASE i < k
  <2> DEFINE split == i + Half(k - i + 1)
  <2>1. split \in (i + 1)..k /\ split - 1 \in i..(k - 1)
    BY <1>2, SplitIs
  <2> HIDE DEF split
  <2>2. split \in 1..n /\ split - 1 \in 1..n
    BY <2>1
  <2>3. (split - 1) - i < m /\ k - split < m
    BY <2>1
  <2>4. f[i][split - 1] = g[i][split - 1] /\ f[split][k] = g[split][k]
    BY <2>2, <2>3 DEF Equal
  <2>5. ~(i >= k)
    BY <1>2
  <2> QED
    BY <2>4, <2>5 DEF RootOf, split
<1> QED
  BY <1>1, <1>2

LEMMA RootsExist ==
  ASSUME NEW q, Len(q) \in Nat
  PROVE  \E r : Roots(q, r)
<1> DEFINE n == Len(q)
           Upto(f, m) == \A i, k \in 1..n : k - i < m => f[i][k] = RootOf(q, f, i, k)
           S == {m \in Nat : \E f : Upto(f, m)}
           Longer(f) == [i \in 1..n |-> [k \in 1..n |-> RootOf(q, f, i, k)]]
<1>1. \A f : \A i, k \in 1..n : Longer(f)[i][k] = RootOf(q, f, i, k)
  OBVIOUS
<1> HIDE DEF n
<1>2. ASSUME NEW f, NEW m \in Nat, Upto(f, m)
      PROVE  Upto(Longer(f), m + 1)
  <2> DEFINE g == Longer(f)
  <2>1. \A i, k \in 1..n : g[i][k] = RootOf(q, f, i, k)
    BY <1>1
  <2> HIDE DEF g
  <2>2. Equal(n, m, f, g)
    BY <1>2, <2>1 DEF Equal
  <2>3. n \in Nat
    BY DEF n
  <2>4. ASSUME NEW i \in 1..n, NEW k \in 1..n, k - i < m + 1
        PROVE  RootOf(q, f, i, k) = RootOf(q, g, i, k)
    BY <2>2, <2>3, <2>4, RootsShorter
  <2>5. Upto(g, m + 1)
    BY <2>1, <2>4
  <2> QED
    BY <2>5 DEF g
<1>3. 0 \in S
  <2> DEFINE f == [i \in 1..n |-> [k \in 1..n |-> Leaf(q[i])]]
  <2>1. \A i, k \in 1..n : f[i][k] = Leaf(q[i])
    OBVIOUS
  <2> HIDE DEF f
  <2>2. \A i, k \in 1..n : k - i < 0 => f[i][k] = RootOf(q, f, i, k)
    <3>1. \A i, k \in 1..n : k - i < 0 => i >= k
      OBVIOUS
    <3> QED
      BY <2>1, <3>1 DEF RootOf
  <2>3. Upto(f, 0)
    BY <2>2
  <2> QED
    BY <2>3
<1>4. \A m \in Nat : m \in S => m + 1 \in S
  <2> HIDE DEF Upto, Longer
  <2> QED
    BY <1>2
<1>5. n \in S
  <2> HIDE DEF S
  <2>1. n \in Nat
    BY DEF n
  <2> QED
    BY <1>3, <1>4, <2>1, AllNumbers
<1>6. PICK f : Upto(f, n)
  BY <1>5
<1> DEFINE r == Longer(f)
<1>7. r = [i \in 1..n |-> [k \in 1..n |-> RootOf(q, r, i, k)]]
  <2>1. n \in Nat
    BY DEF n
  <2>2. \A i, k \in 1..n : k - i < n
    BY <2>1
  <2>3. \A i, k \in 1..n : f[i][k] = RootOf(q, f, i, k)
    BY <1>6, <2>2
  <2>4. \A i, k \in 1..n : r[i][k] = RootOf(q, f, i, k)
    BY <1>1
  <2> HIDE DEF r
  <2>5. Equal(n, n, f, r)
    BY <2>3, <2>4 DEF Equal
  <2>6. \A i, k \in 1..n : k - i < n + 1
    BY <2>1
  <2>7. ASSUME NEW i \in 1..n, NEW k \in 1..n
        PROVE  RootOf(q, f, i, k) = RootOf(q, r, i, k)
    BY <2>1, <2>5, <2>6, RootsShorter
  <2>8. r = [i \in 1..n |-> [k \in 1..n |-> RootOf(q, f, i, k)]]
    BY DEF r
  <2> QED
    BY <2>7, <2>8
<1> QED
  BY <1>7 DEF Roots, n

LEMMA RootsAre ==
  ASSUME NEW q, NEW r, Roots(q, r), NEW i \in 1..Len(q), NEW k \in 1..Len(q)
  PROVE  r[i][k] = RootOf(q, r, i, k)
<1> DEFINE f == [l \in 1..Len(q) |-> [m \in 1..Len(q) |-> RootOf(q, r, l, m)]]
<1>1. f[i][k] = RootOf(q, r, i, k)
  OBVIOUS
<1>2. r = f
  BY DEF Roots
<1> HIDE DEF f
<1> QED
  BY <1>1, <1>2

LEMMA MerkleRootIs ==
  ASSUME NEW S, Len(InOrder(S)) \in Nat
  PROVE  \E r : /\ Roots(InOrder(S), r)
                /\ MerkleRoot(S) = r[1][Len(InOrder(S))]
<1> DEFINE q == InOrder(S)
           r == CHOOSE f : Roots(q, f)
<1>1. Roots(q, r)
  <2> HIDE DEF q
  <2>1. Len(q) \in Nat
    BY DEF q
  <2> QED
    BY <2>1, RootsExist
<1>2. MerkleRoot(S) = r[1][Len(q)]
  BY DEF MerkleRoot, Roots, RootOf
<1> QED
  BY <1>1, <1>2

-----------------------------------------------------------------------------
(* A root tells its range.                                                   *)

OneOfEach(q) ==
  /\ q \in Seq(Nat \ {0})
  /\ \A i, k \in 1..Len(q) : q[i] = q[k] => i = k

\* The range from i to k is divided before s.
DividedAt(r, i, k, s) == r[i][k] = Hash({r[i][s - 1], r[s][k]})

LEMMA RootKinds ==
  ASSUME NEW q, OneOfEach(q), NEW r, Roots(q, r),
         NEW i \in 1..Len(q), NEW k \in 1..Len(q), i <= k
  PROVE  /\ i = k => r[i][k] = Leaf(q[i]) /\ r[i][k].digest = q[i] /\ q[i] # 0
         /\ i < k => r[i][k].digest = 0 /\ \E s \in (i + 1)..k : DividedAt(r, i, k, s)
<1>1. r[i][k] = RootOf(q, r, i, k)
  BY RootsAre
<1>2. CASE i = k
  <2>1. i >= k
    BY <1>2
  <2>2. RootOf(q, r, i, k) = Leaf(q[i])
    BY <2>1 DEF RootOf
  <2>3. q[i] # 0
    BY ElementOfSeq DEF OneOfEach
  <2>4. Leaf(q[i]).digest = q[i]
    BY DEF Leaf
  <2> QED
    BY <1>1, <1>2, <2>2, <2>3, <2>4
<1>3. CASE i < k
  <2> DEFINE s == i + Half(k - i + 1)
  <2>1. s \in (i + 1)..k
    BY <1>3, SplitIs
  <2>2. ~(i >= k)
    BY <1>3
  <2>3. RootOf(q, r, i, k) = Hash({r[i][s - 1], r[s][k]})
    BY <2>2 DEF RootOf
  <2> HIDE DEF s
  <2>4. Hash({r[i][s - 1], r[s][k]}).digest = 0
    BY DEF Hash
  <2>5. i # k
    BY <1>3
  <2> QED
    BY <1>1, <2>1, <2>3, <2>4, <2>5 DEF DividedAt
<1> QED
  BY <1>2, <1>3

LEMMA HashTells ==
  ASSUME NEW S, NEW T, Hash(S) = Hash(T)
  PROVE  S = T
BY DEF Hash

\* Ranges i..k that are no longer than m have roots that no other range has.
TellsUpto(q, r, m) ==
  \A i, k, a, b \in 1..Len(q) :
    i <= k /\ a <= b /\ k - i < m /\ r[i][k] = r[a][b] => i = a /\ k = b

LEMMA RootTells ==
  ASSUME NEW q, OneOfEach(q), NEW r, Roots(q, r)
  PROVE  \A m \in Nat : TellsUpto(q, r, m)
<1> DEFINE S == {m \in Nat : TellsUpto(q, r, m)}
           n == Len(q)
<1>1. 0 \in S
  <2>1. \A i, k \in 1..n : i <= k => ~(k - i < 0)
    OBVIOUS
  <2> QED
    BY <2>1 DEF TellsUpto
<1>2. ASSUME NEW m \in Nat, m \in S
      PROVE  m + 1 \in S
  <2> SUFFICES ASSUME NEW i \in 1..n, NEW k \in 1..n, NEW a \in 1..n, NEW b \in 1..n,
                      i <= k, a <= b, k - i < m + 1, r[i][k] = r[a][b]
               PROVE  i = a /\ k = b
    BY DEF TellsUpto
  <2>1. CASE i = k
    <3>1. r[i][k].digest = q[i] /\ q[i] # 0
      BY <2>1, RootKinds
    <3>2. a = b
      <4>1. a < b => r[a][b].digest = 0
        BY RootKinds
      <4> QED
        BY <3>1, <4>1
    <3>3. r[a][b].digest = q[a]
      BY <3>2, RootKinds
    <3>4. q[i] = q[a]
      BY <3>1, <3>3
    <3> QED
      BY <2>1, <3>2, <3>4 DEF OneOfEach
  <2>2. CASE i < k
    <3>1. r[i][k].digest = 0
      BY <2>2, RootKinds
    <3>2. a < b
      <4>1. a = b => r[a][b].digest = q[a] /\ q[a] # 0
        BY RootKinds
      <4> QED
        BY <3>1, <4>1
    <3>3. PICK s \in (i + 1)..k : DividedAt(r, i, k, s)
      BY <2>2, RootKinds
    <3>4. PICK u \in (a + 1)..b : DividedAt(r, a, b, u)
      BY <3>2, RootKinds
    <3>5. /\ s \in 1..n /\ s - 1 \in 1..n /\ i <= s - 1 /\ s <= k
          /\ (s - 1) - i < m /\ k - s < m
      BY <3>3
    <3>6. u \in 1..n /\ u - 1 \in 1..n /\ a <= u - 1 /\ u <= b
      BY <3>4
    <3>7. {r[i][s - 1], r[s][k]} = {r[a][u - 1], r[u][b]}
      BY <3>3, <3>4, HashTells DEF DividedAt
    <3>8. \/ r[i][s - 1] = r[a][u - 1] /\ r[s][k] = r[u][b]
          \/ r[i][s - 1] = r[u][b] /\ r[s][k] = r[a][u - 1]
      BY <3>7
    <3>9. TellsUpto(q, r, m)
      BY <1>2
    <3>10. CASE r[i][s - 1] = r[a][u - 1] /\ r[s][k] = r[u][b]
      <4>1. i = a
        BY <3>5, <3>6, <3>9, <3>10 DEF TellsUpto
      <4>2. k = b
        BY <3>5, <3>6, <3>9, <3>10 DEF TellsUpto
      <4> QED
        BY <4>1, <4>2
    <3>11. CASE r[i][s - 1] = r[u][b] /\ r[s][k] = r[a][u - 1]
      <4>1. i = u
        BY <3>5, <3>6, <3>9, <3>11 DEF TellsUpto
      <4>2. s = a
        BY <3>5, <3>6, <3>9, <3>11 DEF TellsUpto
      <4> QED
        BY <3>3, <3>4, <4>1, <4>2
    <3> QED
      BY <3>8, <3>10, <3>11
  <2> QED
    BY <2>1, <2>2
<1> HIDE DEF S
<1>3. Nat \subseteq S
  BY <1>1, <1>2, AllNumbers
<1> QED
  BY <1>3 DEF S

LEMMA RootsDiffer ==
  ASSUME NEW q, OneOfEach(q), NEW r, Roots(q, r),
         NEW i \in 1..Len(q), NEW k \in 1..Len(q), NEW a \in 1..Len(q), NEW b \in 1..Len(q),
         i <= k, a <= b, i # a
  PROVE  r[i][k] # r[a][b]
<1>1. (k - i) + 1 \in Nat /\ k - i < (k - i) + 1
  OBVIOUS
<1> DEFINE m == (k - i) + 1
<1>2. TellsUpto(q, r, m)
  <2> HIDE DEF m
  <2>1. m \in Nat
    BY <1>1 DEF m
  <2> QED
    BY <2>1, RootTells
<1> QED
  BY <1>1, <1>2 DEF TellsUpto

-----------------------------------------------------------------------------
(* The levels.                                                               *)

Least(x, y) == IF x <= y THEN x ELSE y

RootsOf(q, r) == {r[x[1]][x[2]] : x \in (1..Len(q)) \X (1..Len(q))}

\* The root of the m-th p IDs, or of those that there are of them.
RootAt(q, r, p, m) == r[(m - 1) * p + 1][Least(m * p, Len(q))]

\* l is a level whose IDs are roots of p IDs each, but for the last.
LevelOf(q, r, l, p) ==
  /\ l \in Seq(RootsOf(q, r)) /\ l # <<>>
  /\ (Len(l) - 1) * p < Len(q) /\ Len(q) <= Len(l) * p
  /\ \A m \in 1..Len(l) : l[m] = RootAt(q, r, p, m)

LEMMA RootsOfHas ==
  ASSUME NEW q, NEW r, NEW i \in 1..Len(q), NEW k \in 1..Len(q)
  PROVE  r[i][k] \in RootsOf(q, r)
<1>1. <<i, k>> \in (1..Len(q)) \X (1..Len(q)) /\ <<i, k>>[1] = i /\ <<i, k>>[2] = k
  OBVIOUS
<1> QED
  BY <1>1 DEF RootsOf

LEMMA Multiples ==
  ASSUME NEW p \in Nat \ {0}, NEW m \in Nat \ {0}
  PROVE  /\ (m - 1) * (2 * p) \in Nat
         /\ (2 * m - 1 - 1) * p = (m - 1) * (2 * p)
         /\ (2 * m - 1) * p = (m - 1) * (2 * p) + p
         /\ (2 * m) * p = (m - 1) * (2 * p) + 2 * p
         /\ m * (2 * p) = (m - 1) * (2 * p) + 2 * p
BY SMT

LEMMA MultiplesGrow ==
  ASSUME NEW p \in Nat, NEW x \in Nat, NEW y \in Nat, x <= y
  PROVE  x * p <= y * p
BY SMT

\* Neighbours at a level have the root of both ranges together.
LEMMA PairOf ==
  ASSUME NEW q, OneOfEach(q), NEW r, Roots(q, r), NEW t \in Nat, NEW l,
         LevelOf(q, r, l, Pow(2, t)), NEW m \in Nat \ {0}, 2 * m <= Len(l)
  PROVE  /\ Sum(l[2 * m - 1], l[2 * m]) = RootAt(q, r, 2 * Pow(2, t), m)
         /\ RootAt(q, r, 2 * Pow(2, t), m) \in RootsOf(q, r)
<1> DEFINE p == Pow(2, t)
           n == Len(q)
           x == (m - 1) * (2 * p)
           k == Least(x + 2 * p, n)
<1>1. p \in Nat \ {0} /\ n \in Nat /\ Len(l) \in Nat
  BY PowType, LenProperties DEF LevelOf, OneOfEach
<1> HIDE DEF p
<1>2. /\ x \in Nat
      /\ (2 * m - 1 - 1) * p = x /\ (2 * m - 1) * p = x + p
      /\ (2 * m) * p = x + 2 * p /\ m * (2 * p) = x + 2 * p
  BY <1>1, Multiples
<1>3. (2 * m - 1) * p <= (Len(l) - 1) * p
  <2>1. 2 * m - 1 \in Nat /\ Len(l) - 1 \in Nat /\ 2 * m - 1 <= Len(l) - 1
    BY <1>1
  <2> QED
    BY <1>1, <2>1, MultiplesGrow
<1>4. x + p < n
  <2>1. (Len(l) - 1) * p < n
    BY DEF LevelOf, p
  <2>2. (Len(l) - 1) * p \in Int
    BY <1>1
  <2> QED
    BY <1>1, <1>2, <1>3, <2>1, <2>2
<1> HIDE DEF x
<1>5. /\ k \in 1..n /\ x + p + 1 \in 1..n /\ x + 1 \in 1..n /\ x + p \in 1..n
      /\ x + p < k /\ k <= x + 2 * p
      /\ Least(x + p, n) = x + p
  BY <1>1, <1>2, <1>4 DEF Least
<1>6. l[2 * m - 1] = r[x + 1][x + p]
  <2>1. 2 * m - 1 \in 1..Len(l)
    BY <1>1
  <2>2. l[2 * m - 1] = RootAt(q, r, p, 2 * m - 1)
    BY <2>1 DEF LevelOf, p
  <2> QED
    BY <1>2, <1>5, <2>2 DEF RootAt
<1>7. l[2 * m] = r[x + p + 1][k]
  <2>1. 2 * m \in 1..Len(l)
    BY <1>1
  <2>2. l[2 * m] = RootAt(q, r, p, 2 * m)
    BY <2>1 DEF LevelOf, p
  <2> QED
    BY <1>2, <2>2 DEF RootAt
<1>8. RootAt(q, r, 2 * p, m) = r[x + 1][k]
  BY <1>2 DEF RootAt, x
<1>9. r[x + 1][x + p] # r[x + p + 1][k]
  <2>1. x + 1 <= x + p /\ x + p + 1 <= k /\ x + 1 # x + p + 1
    BY <1>1, <1>2, <1>5
  <2> HIDE DEF k
  <2> QED
    BY <1>5, <2>1, RootsDiffer
<1>10. r[x + 1][k] = Hash({r[x + 1][x + p], r[x + p + 1][k]})
  <2>1. r[x + 1][k] = RootOf(q, r, x + 1, k)
    <3> HIDE DEF k
    <3> QED
      BY <1>5, RootsAre
  <2>2. ~(x + 1 >= k)
    BY <1>1, <1>2, <1>5
  <2> DEFINE size == k - (x + 1) + 1
  <2>3. size \in Nat /\ p < size /\ size <= 2 * p
    BY <1>1, <1>2, <1>5
  <2>4. Half(size) = p
    <3> HIDE DEF size
    <3> QED
      BY <2>3, HalfIs DEF p
  <2>5. (x + 1) + p = x + p + 1 /\ (x + p + 1) - 1 = x + p
    BY <1>1, <1>2
  <2> HIDE DEF k
  <2> QED
    BY <2>1, <2>2, <2>4, <2>5 DEF RootOf
<1>11. Sum(l[2 * m - 1], l[2 * m]) = r[x + 1][k]
  BY <1>6, <1>7, <1>9, <1>10 DEF Sum
<1>12. r[x + 1][k] \in RootsOf(q, r)
  <2> HIDE DEF k
  <2> QED
    BY <1>5, RootsOfHas
<1> QED
  BY <1>8, <1>11, <1>12 DEF p

\* And an odd last one is already the root of the last range.
LEMMA OddOf ==
  ASSUME NEW q, OneOfEach(q), NEW r, Roots(q, r), NEW t \in Nat, NEW l,
         LevelOf(q, r, l, Pow(2, t)), NEW m \in Nat \ {0}, 2 * m - 1 = Len(l)
  PROVE  /\ l[2 * m - 1] = RootAt(q, r, 2 * Pow(2, t), m)
         /\ RootAt(q, r, 2 * Pow(2, t), m) \in RootsOf(q, r)
<1> DEFINE p == Pow(2, t)
           n == Len(q)
           x == (m - 1) * (2 * p)
<1>1. p \in Nat \ {0} /\ n \in Nat /\ Len(l) \in Nat
  BY PowType, LenProperties DEF LevelOf, OneOfEach
<1> HIDE DEF p
<1>2. /\ x \in Nat
      /\ (2 * m - 1 - 1) * p = x /\ (2 * m - 1) * p = x + p
      /\ (2 * m) * p = x + 2 * p /\ m * (2 * p) = x + 2 * p
  BY <1>1, Multiples
<1>3. x < n /\ n <= x + p
  <2>1. (Len(l) - 1) * p < n /\ n <= Len(l) * p
    BY DEF LevelOf, p
  <2> QED
    BY <1>2, <2>1
<1> HIDE DEF x
<1>4. Least(x + p, n) = n /\ Least(x + 2 * p, n) = n
  BY <1>1, <1>2, <1>3 DEF Least
<1>5. l[2 * m - 1] = r[x + 1][n]
  <2>1. 2 * m - 1 \in 1..Len(l)
    BY <1>1
  <2>2. l[2 * m - 1] = RootAt(q, r, p, 2 * m - 1)
    BY <2>1 DEF LevelOf, p
  <2> QED
    BY <1>2, <1>4, <2>2 DEF RootAt
<1>6. RootAt(q, r, 2 * p, m) = r[x + 1][n]
  BY <1>2, <1>4 DEF RootAt, x
<1>7. r[x + 1][n] \in RootsOf(q, r)
  <2>1. x + 1 \in 1..n /\ n \in 1..n
    BY <1>1, <1>2, <1>3
  <2> QED
    BY <2>1, RootsOfHas
<1> QED
  BY <1>5, <1>6, <1>7 DEF p

\* Half as many IDs, or one more.
Halves(l, next) == Len(next) = (Len(l) + 1) \div 2

LEMMA NextLevel ==
  ASSUME NEW q, OneOfEach(q), NEW r, Roots(q, r), NEW t \in Nat, NEW l,
         LevelOf(q, r, l, Pow(2, t))
  PROVE  /\ LevelOf(q, r, PairLevel(l), Pow(2, t + 1))
         /\ Halves(l, PairLevel(l))
<1> DEFINE p == Pow(2, t)
           n == Len(q)
           c == Len(l)
           d == (c + 1) \div 2
           next == PairLevel(l)
<1>1. p \in Nat \ {0} /\ n \in Nat /\ Pow(2, t + 1) = 2 * p
  BY PowersOfTwo, LenProperties DEF OneOfEach
<1>2. c \in Nat \ {0}
  <2>1. l \in Seq(RootsOf(q, r)) /\ l # <<>>
    BY DEF LevelOf
  <2> QED
    BY ONLY <2>1, LenProperties, EmptySeq
<1>3. next = [m \in 1..d |-> IF 2 * m <= c THEN Sum(l[2 * m - 1], l[2 * m]) ELSE l[2 * m - 1]]
  BY DEF PairLevel
<1> HIDE DEF c, next
<1>4. d \in Nat \ {0} /\ (c = 2 * d \/ c = 2 * d - 1)
  BY <1>2, SMT
<1> HIDE DEF d
<1>5. ASSUME NEW m \in 1..d
      PROVE  next[m] = RootAt(q, r, 2 * p, m) /\ next[m] \in RootsOf(q, r)
  <2>1. m \in Nat \ {0}
    BY <1>4
  <2>2. CASE 2 * m <= c
    <3>1. next[m] = Sum(l[2 * m - 1], l[2 * m])
      BY <1>3, <2>2
    <3>2. /\ Sum(l[2 * m - 1], l[2 * m]) = RootAt(q, r, 2 * p, m)
          /\ RootAt(q, r, 2 * p, m) \in RootsOf(q, r)
      BY <2>1, <2>2, PairOf DEF c
    <3> QED
      BY <3>1, <3>2
  <2>3. CASE ~(2 * m <= c)
    <3>1. next[m] = l[2 * m - 1]
      BY <1>3, <2>3
    <3>2. 2 * m - 1 = c
      BY <1>4, <2>3
    <3>3. /\ l[2 * m - 1] = RootAt(q, r, 2 * p, m)
          /\ RootAt(q, r, 2 * p, m) \in RootsOf(q, r)
      BY <2>1, <3>2, OddOf DEF c
    <3> QED
      BY <3>1, <3>3
  <2> QED
    BY <2>2, <2>3
<1>6. next \in Seq(RootsOf(q, r)) /\ Len(next) = d
  <2>1. next = [m \in 1..d |-> next[m]]
    BY <1>3
  <2>2. next \in [1..d -> RootsOf(q, r)]
    BY <1>5, <2>1
  <2> QED
    BY <1>4, <2>2
<1>7. next # <<>>
  <2>1. Len(<<>>) = 0
    OBVIOUS
  <2> QED
    BY <1>4, <1>6, <2>1
<1>8. (d - 1) * (2 * p) < n /\ n <= d * (2 * p)
  <2>1. (c - 1) * p < n /\ n <= c * p
    BY DEF LevelOf, c, p
  <2>2. (d - 1) * (2 * p) = (2 * d - 2) * p /\ d * (2 * p) = (2 * d) * p
    BY <1>1, <1>4, SMT
  <2>3. (2 * d - 2) * p <= (c - 1) * p /\ c * p <= (2 * d) * p
    <3>1. /\ 2 * d - 2 \in Nat /\ c - 1 \in Nat /\ 2 * d \in Nat
          /\ 2 * d - 2 <= c - 1 /\ c <= 2 * d
      BY <1>2, <1>4
    <3> QED
      BY <1>1, <1>2, <3>1, MultiplesGrow
  <2>4. /\ (2 * d - 2) * p \in Int /\ (c - 1) * p \in Int /\ c * p \in Int
        /\ (2 * d) * p \in Int
    BY <1>1, <1>2, <1>4, SMT
  <2> QED
    BY <1>1, <2>1, <2>2, <2>3, <2>4
<1>9. LevelOf(q, r, next, 2 * p)
  <2> HIDE DEF p
  <2> QED
    BY <1>5, <1>6, <1>7, <1>8 DEF LevelOf
<1> QED
  BY <1>1, <1>6, <1>9 DEF next, d, c, Halves

\* After as many levels as IDs there is one ID.
LEMMA LevelsEnd ==
  ASSUME NEW q, OneOfEach(q), Len(q) > 0, NEW r, Roots(q, r), NEW a,
         a[0] = [k \in DOMAIN q |-> Leaf(q[k])],
         \A k \in 1..Len(q) : a[k] = PairLevel(a[k - 1])
  PROVE  a[Len(q)][1] = r[1][Len(q)]
<1> DEFINE n == Len(q)
           Good(k) == LevelOf(q, r, a[k], Pow(2, k)) /\ (Len(a[k]) = 1 \/ Len(a[k]) <= n - k)
           S == {k \in Nat : k <= n => Good(k)}
<1>1. n \in Nat \ {0} /\ DOMAIN q = 1..n
  BY LenProperties DEF OneOfEach
<1>2. 0 \in S
  <2> DEFINE l == [k \in 1..n |-> Leaf(q[k])]
  <2>1. a[0] = l /\ Pow(2, 0) = 1
    BY <1>1, PowZero
  <2> HIDE DEF n
  <2>2. \A k \in 1..n : l[k] = Leaf(q[k])
    OBVIOUS
  <2>3. ASSUME NEW k \in 1..n
        PROVE  Leaf(q[k]) = r[k][k] /\ r[k][k] \in RootsOf(q, r)
    BY RootKinds, RootsOfHas DEF n
  <2>4. l \in Seq(RootsOf(q, r)) /\ Len(l) = n
    <3>1. l \in [1..n -> RootsOf(q, r)]
      BY <2>3
    <3> HIDE DEF l
    <3> QED
      BY <1>1, <3>1
  <2> HIDE DEF l
  <2>5. l # <<>>
    <3>1. Len(<<>>) = 0
      OBVIOUS
    <3> QED
      BY <1>1, <2>4, <3>1
  <2>6. ASSUME NEW m \in 1..n
        PROVE  l[m] = RootAt(q, r, 1, m)
    <3>1. (m - 1) * 1 + 1 = m /\ m * 1 = m /\ Least(m, n) = m
      BY <1>1 DEF Least
    <3> QED
      BY <2>2, <2>3, <3>1 DEF RootAt, n
  <2>7. (n - 1) * 1 < n /\ n <= n * 1
    BY <1>1
  <2>8. LevelOf(q, r, l, 1)
    BY <2>4, <2>5, <2>6, <2>7 DEF LevelOf, n
  <2>9. Len(a[0]) <= n - 0
    BY <1>1, <2>1, <2>4
  <2> QED
    BY <2>1, <2>8, <2>9
<1>3. ASSUME NEW k \in Nat, k \in S
      PROVE  k + 1 \in S
  <2> SUFFICES ASSUME k + 1 <= n PROVE Good(k + 1)
    OBVIOUS
  <2>1. k + 1 \in 1..n /\ (k + 1) - 1 = k /\ k <= n
    BY <1>1
  <2>2. a[k + 1] = PairLevel(a[k])
    BY <2>1
  <2>3. LevelOf(q, r, a[k], Pow(2, k)) /\ (Len(a[k]) = 1 \/ Len(a[k]) <= n - k)
    BY <1>3, <2>1
  <2>4. /\ LevelOf(q, r, a[k + 1], Pow(2, k + 1))
        /\ Len(a[k + 1]) = (Len(a[k]) + 1) \div 2
    <3>1. \A l : LevelOf(q, r, l, Pow(2, k)) =>
            LevelOf(q, r, PairLevel(l), Pow(2, k + 1)) /\ Halves(l, PairLevel(l))
      BY NextLevel
    <3> QED
      BY <2>2, <2>3, <3>1 DEF Halves
  <2>5. Len(a[k]) \in Nat
    BY <2>3, LenProperties DEF LevelOf
  <2>6. \A x \in Nat : (x = 1 \/ x <= n - k) =>
          ((x + 1) \div 2 = 1 \/ (x + 1) \div 2 <= n - (k + 1))
    BY <1>1, <2>1, SMT
  <2> HIDE DEF n
  <2> QED
    BY <2>3, <2>4, <2>5, <2>6
<1>4. Good(n)
  <2> HIDE DEF S, Good
  <2>1. \A k \in Nat : k \in S <=> (k <= n => Good(k))
    BY DEF S
  <2>2. n \in S
    BY <1>1, <1>2, <1>3, AllNumbers
  <2> QED
    BY <1>1, <2>1, <2>2
<1>5. LevelOf(q, r, a[n], Pow(2, n)) /\ (Len(a[n]) = 1 \/ Len(a[n]) <= n - n)
  BY <1>4
<1> HIDE DEF n, Good, S
<1>6. Len(a[n]) = 1
  <2>1. a[n] \in Seq(RootsOf(q, r)) /\ a[n] # <<>>
    BY <1>5 DEF LevelOf
  <2>2. Len(a[n]) \in Nat /\ Len(a[n]) # 0
    BY <2>1, LenProperties, EmptySeq
  <2> QED
    BY <1>1, <1>5, <2>2
<1> DEFINE p == Pow(2, n)
<1>7. p \in Nat /\ n <= 1 * p /\ a[n][1] = RootAt(q, r, p, 1)
  BY <1>1, <1>5, <1>6, PowersOfTwo DEF LevelOf, n
<1> HIDE DEF p
<1>8. RootAt(q, r, p, 1) = r[1][n]
  <2>1. (1 - 1) * p + 1 = 1 /\ Least(1 * p, n) = n
    BY <1>1, <1>7 DEF Least
  <2> QED
    BY <2>1 DEF RootAt, n
<1> QED
  BY <1>7, <1>8 DEF n

-----------------------------------------------------------------------------
(* The IDs in order, and the theorem.                                        *)

\* The elements of a finite set of numbers, by the number of those below.
LEMMA InOrderIs ==
  ASSUME NEW S \in SUBSET (Nat \ {0}), IsFiniteSet(S)
  PROVE  OneOfEach(InOrder(S)) /\ Len(InOrder(S)) = Cardinality(S)
<1> DEFINE n == Cardinality(S)
           Below(d) == {e \in S : e < d}
           Place(k) == CHOOSE d \in S : Cardinality(Below(d)) = k - 1
           q == InOrder(S)
           rank == [d \in S |-> Cardinality(Below(d))]
<1>1. n \in Nat
  BY FS_CardinalityType
<1>2. q = [k \in 1..n |-> Place(k)]
  BY DEF InOrder
<1>3. ASSUME NEW d \in S
      PROVE  Cardinality(Below(d)) \in 0..(n - 1)
  <2>1. Below(d) \in SUBSET S /\ d \notin Below(d)
    OBVIOUS
  <2> HIDE DEF Below
  <2>2. Below(d) \in SUBSET (S \ {d})
    BY <2>1
  <2>3. IsFiniteSet(S \ {d}) /\ Cardinality(S \ {d}) = n - 1
    BY FS_RemoveElement
  <2>4. IsFiniteSet(Below(d)) /\ Cardinality(Below(d)) <= n - 1
    BY <2>2, <2>3, FS_Subset
  <2>5. Cardinality(Below(d)) \in Nat
    BY <2>4, FS_CardinalityType
  <2> QED
    BY <1>1, <2>4, <2>5
<1>4. ASSUME NEW d \in S, NEW e \in S, d < e
      PROVE  Cardinality(Below(d)) < Cardinality(Below(e))
  <2>1. Below(d) \in SUBSET Below(e) /\ d \in Below(e) /\ d \notin Below(d)
    <3>1. \A x \in S : x \in Int
      OBVIOUS
    <3>2. \A x \in S : x < d => x < e
      BY <1>4, <3>1
    <3>3. ~(d < d)
      BY <3>1
    <3>4. \A x : x \in Below(d) => x \in Below(e)
      BY <3>2
    <3>5. Below(d) \in SUBSET Below(e)
      <4> HIDE DEF Below
      <4> QED
        BY <3>4
    <3>6. d \in Below(e) /\ d \notin Below(d)
      BY <1>4, <3>3
    <3> QED
      BY <3>5, <3>6
  <2>2. Below(e) \in SUBSET S
    OBVIOUS
  <2> HIDE DEF Below
  <2>3. IsFiniteSet(Below(e))
    BY <2>2, FS_Subset
  <2>4. /\ Cardinality(Below(d)) <= Cardinality(Below(e))
        /\ Cardinality(Below(d)) # Cardinality(Below(e))
        /\ IsFiniteSet(Below(d))
    BY <2>1, <2>3, FS_Subset
  <2>5. Cardinality(Below(d)) \in Nat /\ Cardinality(Below(e)) \in Nat
    BY <2>3, <2>4, FS_CardinalityType
  <2> QED
    BY <2>4, <2>5
<1>5. ASSUME NEW k \in 1..n
      PROVE  \E d \in S : Cardinality(Below(d)) = k - 1
  <2>1. rank \in [S -> 0..(n - 1)] /\ \A d \in S : rank[d] = Cardinality(Below(d))
    <3> HIDE DEF Below
    <3> QED
      BY <1>3
  <2> HIDE DEF rank, Below
  <2>2. \A d, e \in S : rank[d] = rank[e] => d = e
    <3> SUFFICES ASSUME NEW d \in S, NEW e \in S, rank[d] = rank[e], d # e PROVE FALSE
      OBVIOUS
    <3>1. d < e \/ e < d
      <4>1. d \in Nat /\ e \in Nat
        OBVIOUS
      <4> QED
        BY <4>1
    <3>2. rank[d] \in Int /\ rank[e] \in Int
      BY <1>1, <2>1
    <3> QED
      BY <1>4, <2>1, <3>1, <3>2
  <2>3. rank \in Injection(S, 0..(n - 1))
    BY <2>1, <2>2 DEF Injection, IsInjective
  <2>4. IsFiniteSet(0..(n - 1)) /\ Cardinality(0..(n - 1)) = n
    <3> HIDE DEF n
    <3>1. 0 \in Int /\ n - 1 \in Int
      BY <1>1
    <3>2. /\ IsFiniteSet(0..(n - 1))
          /\ Cardinality(0..(n - 1)) = IF 0 > n - 1 THEN 0 ELSE (n - 1) - 0 + 1
      BY ONLY <3>1, FS_Interval
    <3> QED
      BY <1>1, <3>2
  <2>5. rank \in Surjection(S, 0..(n - 1))
    <3> HIDE DEF n
    <3> QED
      BY <2>3, <2>4, FS_Injection DEF n
  <2>6. k - 1 \in 0..(n - 1)
    BY <1>1
  <2>7. PICK d \in S : rank[d] = k - 1
    <3> HIDE DEF n
    <3> QED
      BY <2>5, <2>6 DEF Surjection
  <2> QED
    BY <2>1, <2>7
<1>6. ASSUME NEW k \in 1..n
      PROVE  q[k] \in S /\ Cardinality(Below(q[k])) = k - 1
  <2>1. Place(k) \in S /\ Cardinality(Below(Place(k))) = k - 1
    <3> HIDE DEF Below
    <3> QED
      BY <1>5
  <2> HIDE DEF Place, q, Below
  <2> QED
    BY <1>2, <2>1
<1> HIDE DEF Place, Below
<1>7. q \in Seq(Nat \ {0}) /\ Len(q) = n
  <2> HIDE DEF q
  <2>1. q = [k \in 1..n |-> q[k]]
    BY <1>2
  <2>2. q \in [1..n -> Nat \ {0}]
    BY <1>6, <2>1
  <2> QED
    BY <1>1, <2>2
<1>8. \A i, k \in 1..n : q[i] = q[k] => i = k
  <2> HIDE DEF q
  <2> SUFFICES ASSUME NEW i \in 1..n, NEW k \in 1..n, q[i] = q[k] PROVE i = k
    OBVIOUS
  <2>1. i - 1 = k - 1
    BY <1>6
  <2> QED
    BY <1>1, <2>1
<1> QED
  BY <1>7, <1>8 DEF OneOfEach

LEMMA RangeIsFinite ==
  ASSUME NEW V, NEW s \in Seq(V)
  PROVE  /\ IsFiniteSet(Range(s)) /\ Range(s) \subseteq V
         /\ s # <<>> => Range(s) # {}
<1>1. Len(s) \in Nat /\ DOMAIN s = 1..Len(s) /\ \A i \in 1..Len(s) : s[i] \in V
  BY LenProperties, ElementOfSeq
<1>2. Range(s) = {s[i] : i \in 1..Len(s)}
  BY <1>1 DEF Range
<1>3. s \in Surjection(1..Len(s), {s[i] : i \in 1..Len(s)})
  <2>1. s \in [1..Len(s) -> {s[i] : i \in 1..Len(s)}]
    BY <1>1
  <2> QED
    BY <2>1 DEF Surjection
<1>4. IsFiniteSet(1..Len(s))
  BY <1>1, FS_Interval
<1>5. IsFiniteSet({s[i] : i \in 1..Len(s)})
  BY <1>3, <1>4, FS_Surjection
<1>6. s # <<>> => Len(s) # 0
  BY EmptySeq
<1> QED
  BY <1>1, <1>2, <1>5, <1>6

LEMMA TreeIDIs ==
  ASSUME NEW s \in Seq(Nat \ {0}), s # <<>>
  PROVE  TreeID(s) = MerkleRoot(Range(s))
<1> DEFINE S == Range(s)
           q == InOrder(S)
           leaves == [k \in DOMAIN q |-> Leaf(q[k])]
<1>1. IsFiniteSet(S) /\ S \subseteq Nat \ {0} /\ S # {}
  BY RangeIsFinite
<1> HIDE DEF S
<1>2. OneOfEach(q) /\ Len(q) = Cardinality(S)
  BY <1>1, InOrderIs
<1>3. Len(q) \in Nat /\ Len(q) > 0
  BY <1>1, <1>2, FS_CardinalityType, FS_EmptySet
<1>4. PICK r : Roots(q, r) /\ MerkleRoot(S) = r[1][Len(q)]
  BY <1>3, MerkleRootIs
<1>5. TreeID(s) = Pairing!Fold(0, leaves, q)[1]
  BY DEF TreeID, SortUnique, S,
         FoldLeft, MapThenFoldSet, Max,
         Pairing!Fold, Pairing!FoldLeft, Pairing!MapThenFoldSet, Pairing!Max
<1> HIDE DEF q, leaves
<1>6. PICK a : /\ a[0] = leaves
               /\ \A k \in 1..Len(q) : a[k] = PairLevel(a[k - 1])
               /\ Pairing!Fold(0, leaves, q) = a[Len(q)]
  <2>1. q \in Seq(Nat \ {0})
    BY <1>2 DEF OneOfEach
  <2> QED
    BY <2>1, Pairing!FoldWalk
<1>7. a[Len(q)][1] = r[1][Len(q)]
  BY <1>2, <1>3, <1>4, <1>6, LevelsEnd DEF leaves
<1> QED
  BY <1>4, <1>5, <1>6, <1>7 DEF S

\* For any IDs appended in any order, however often, the pairing computes the
\* root of the Merkle tree of their set.
THEOREM TreeIDsAreMerkleRoots == Adding => []TreeIDIsMerkleRoot
<1> DEFINE Inv == ids \in Seq(Appended)
<1>1. NoIDs => Inv
  BY DEF NoIDs
<1>2. Inv /\ [AddSome]_ids => Inv'
  BY DEF AddSome, Add
<1>3. Inv => TreeIDIsMerkleRoot
  <2> SUFFICES ASSUME Inv, ids # <<>>
               PROVE  TreeID(ids) = MerkleRoot(Range(ids))
    BY DEF TreeIDIsMerkleRoot
  <2>1. ids \in [1..Len(ids) -> Appended] /\ Len(ids) \in Nat
    BY LenProperties
  <2>2. ids \in [1..Len(ids) -> Nat \ {0}]
    BY <2>1, IDsAssumption
  <2>3. ids \in Seq(Nat \ {0})
    BY ONLY <2>1, <2>2
  <2> QED
    BY <2>3, TreeIDIs
<1> QED
  BY <1>1, <1>2, <1>3, PTL DEF Adding

-----------------------------------------------------------------------------
(* Identification.                                                           *)

\* What a context x holds of a call c under way is what c has hashed so far,
\* from the initialisation on; a call that is ready to finish has hashed all
\* of its text unless its stream failed.
Owned(c, x) ==
  /\ c.phase = "idle" <=> c.op = "idle"
  /\ c.op = "sum" => Len(c.data) = 2 /\ c.data[1] # c.data[2]
  /\ c.phase = "init" => c.taken = 0
  /\ c.phase = "feed" /\ c.op = "sum" => c.taken < Len(c.data)
  /\ c.phase # "final" => ~c.failed
  /\ c.phase \in {"feed", "final"} => x = SubSeq(Text(c), 1, c.taken)
  /\ c.phase = "final" =>
       IF c.failed THEN c.op = "stream" /\ c.taken < Len(c.data)
                   ELSE c.taken = Len(c.data)

\* Sum of two IDs is the digest of both, the smaller first, and of one ID with
\* itself that ID.
IsSumDigest(a) ==
  a.op = "sum" /\ a.outcome = "ok" =>
    /\ Len(a.data) = 2
    /\ a.digest = IF a.data[1] = a.data[2] THEN <<a.data[1]>> ELSE SumText(a.data)

IsRight(a) == IsOwnDigest(a) /\ IsSumDigest(a)

Inv ==
  /\ TypeOK
  /\ \A t \in Threads : Owned(call[t], ctx[t]) /\ IsRight(answer[t])

\* A call's text is a sequence of bytes as long as its data.
LEMMA TextType ==
  ASSUME NEW c, c.data \in Seq(Bytes), c.op = "sum" => Len(c.data) = 2
  PROVE  Text(c) \in Seq(Bytes) /\ Len(Text(c)) = Len(c.data)
<1>1. CASE c.op # "sum"
  BY <1>1 DEF Text
<1>2. CASE c.op = "sum"
  <2>1. c.data[1] \in Bytes /\ c.data[2] \in Bytes
    BY <1>2, ElementOfSeq
  <2>2. /\ <<c.data[2], c.data[1]>> \in Seq(Bytes)
        /\ Len(<<c.data[2], c.data[1]>>) = 2
    BY <2>1
  <2>3. Text(c) = c.data \/ Text(c) = <<c.data[2], c.data[1]>>
    BY <1>2 DEF Text, SumText
  <2> QED
    BY <1>2, <2>2, <2>3
<1> QED
  BY <1>1, <1>2

\* One update extends what was hashed by the next n bytes of the text.
LEMMA UpdateExtends ==
  ASSUME NEW s \in Seq(Bytes), NEW k \in Nat, NEW n \in Nat, k + n <= Len(s)
  PROVE  SubSeq(s, 1, k) \o SubSeq(s, k + 1, k + n) = SubSeq(s, 1, k + n)
BY ConcatAdjacentSubSeq

\* The first n bytes of a text are a sequence of bytes.
LEMMA PrefixType ==
  ASSUME NEW s \in Seq(Bytes), NEW n \in Nat, n <= Len(s)
  PROVE  SubSeq(s, 1, n) \in Seq(Bytes)
BY SubSeqProperties

\* A step is one thread's: it is enough to look at what that thread's call,
\* context and answer become.
LEMMA OneThread ==
  ASSUME Inv, NEW t \in Threads,
         NEW x \in Seq(Bytes), NEW c \in CallType, NEW a \in AnswerType,
         ctx' = [ctx EXCEPT ![t] = x],
         call' = [call EXCEPT ![t] = c],
         answer' = [answer EXCEPT ![t] = a],
         Owned(c, x), IsRight(a)
  PROVE  Inv'
<1>1. TypeOK'
  BY DEF Inv, TypeOK
<1>2. ASSUME NEW u \in Threads
      PROVE  Owned(call'[u], ctx'[u]) /\ IsRight(answer'[u])
  <2>1. CASE u = t
    BY <2>1 DEF Inv, TypeOK
  <2>2. CASE u # t
    BY <1>2, <2>2 DEF Inv, TypeOK
  <2> QED
    BY <2>1, <2>2
<1> QED
  BY <1>1, <1>2 DEF Inv

\* Steps that change the call only.
LEMMA CallOnly ==
  ASSUME Inv, NEW t \in Threads, NEW c \in CallType,
         call' = [call EXCEPT ![t] = c], UNCHANGED <<ctx, answer>>,
         Owned(c, ctx[t])
  PROVE  Inv'
<1>1. /\ ctx' = [ctx EXCEPT ![t] = ctx[t]]
      /\ answer' = [answer EXCEPT ![t] = answer[t]]
  BY DEF Inv, TypeOK
<1>2. ctx[t] \in Seq(Bytes) /\ answer[t] \in AnswerType /\ IsRight(answer[t])
  BY DEF Inv, TypeOK
<1> QED
  BY <1>1, <1>2, OneThread

\* Steps that end a call, by its return or by an exception.
LEMMA ReturnOnly ==
  ASSUME Inv, NEW t \in Threads, NEW outcome \in {"ok", "error"}, NEW digest \in Seq(Bytes),
         Return(t, outcome, digest), UNCHANGED ctx,
         outcome = "ok" => IsRight([op |-> call[t].op, data |-> call[t].data,
                                    failed |-> call[t].failed,
                                    outcome |-> outcome, digest |-> digest])
  PROVE  Inv'
<1> DEFINE a == [op |-> call[t].op, data |-> call[t].data, failed |-> call[t].failed,
                 outcome |-> outcome, digest |-> digest]
<1>1. ctx[t] \in Seq(Bytes) /\ ctx' = [ctx EXCEPT ![t] = ctx[t]]
  BY DEF Inv, TypeOK
<1>2. a \in AnswerType /\ IsRight(a)
  BY DEF Inv, TypeOK, AnswerType, CallType, IsRight, IsOwnDigest, IsSumDigest
<1>3. Idle \in CallType /\ Owned(Idle, ctx[t])
  BY EmptySeq DEF Idle, CallType, Owned, Ops
<1>4. call' = [call EXCEPT ![t] = Idle] /\ answer' = [answer EXCEPT ![t] = a]
  BY DEF Return
<1> HIDE DEF a
<1> QED
  BY <1>1, <1>2, <1>3, <1>4, OneThread

\* A new call has hashed nothing, whatever the context holds.
LEMMA NewCallOwned ==
  ASSUME NEW op \in Ops, NEW data \in Seq(Bytes), NEW x,
         op = "sum" => Len(data) = 2 /\ data[1] # data[2]
  PROVE  NewCall(op, data) \in CallType /\ Owned(NewCall(op, data), x)
<1>1. NewCall(op, data) \in CallType
  BY DEF NewCall, CallType, Ops
<1>2. Owned(NewCall(op, data), x)
  BY DEF NewCall, Owned, Ops
<1> QED
  BY <1>1, <1>2

\* One update with the next n bytes, after which the call goes on feeding, has
\* all of its text, or ends early because its stream failed.
LEMMA FeedKeeps ==
  ASSUME Inv, NEW t \in Threads, call[t].phase = "feed",
         NEW n \in Nat, n <= Left(t),
         NEW failed \in BOOLEAN, NEW after \in {"feed", "final"},
         Update(t, n), UNCHANGED answer,
         call' = [call EXCEPT ![t].taken = @ + n, ![t].failed = failed, ![t].phase = after],
         after = "feed" => ~failed /\ (call[t].op = "sum" => n < Left(t)),
         after = "final" => IF failed THEN call[t].op = "stream" /\ n < Left(t)
                                      ELSE n = Left(t)
  PROVE  Inv'
<1> DEFINE k == call[t].taken
           s == Text(call[t])
           c == [call[t] EXCEPT !.taken = k + n, !.failed = failed, !.phase = after]
           x == SubSeq(s, 1, k + n)
<1>1. /\ call[t] \in CallType /\ answer[t] \in AnswerType /\ Owned(call[t], ctx[t])
      /\ IsRight(answer[t])
  BY DEF Inv, TypeOK
<1>2. s \in Seq(Bytes) /\ Len(s) = Len(call[t].data)
  BY <1>1, TextType DEF Owned, CallType
<1>3. k \in Nat /\ Len(s) \in Nat /\ k + n <= Len(s)
  BY <1>1, <1>2 DEF CallType, Left
<1>4. ctx' = [ctx EXCEPT ![t] = x]
  <2>1. ctx[t] = SubSeq(s, 1, k)
    BY <1>1 DEF Owned
  <2>2. ctx[t] \o SubSeq(s, k + 1, k + n) = x
    <3>1. s \in Seq(Bytes) /\ k \in Nat /\ n \in Nat /\ k + n <= Len(s)
      BY <1>2, <1>3
    <3> HIDE DEF k, s
    <3>2. SubSeq(s, 1, k) \o SubSeq(s, k + 1, k + n) = SubSeq(s, 1, k + n)
      BY ONLY <3>1, UpdateExtends
    <3> QED
      BY <2>1, <3>2
  <2> QED
    BY <2>2 DEF Update
<1>5. x \in Seq(Bytes)
  BY <1>2, <1>3, PrefixType
<1>6. c \in CallType
  <2>1. k + n \in Nat /\ k + n <= Len(call[t].data)
    BY <1>2, <1>3
  <2> HIDE DEF k, s
  <2> QED
    BY <1>1, <2>1 DEF CallType
<1>7. Text(c) = s
  BY <1>1 DEF Text, CallType
<1>8. Owned(c, x)
  <2>1. /\ c.op = call[t].op /\ c.data = call[t].data /\ c.taken = k + n
        /\ c.failed = failed /\ c.phase = after
    BY <1>1 DEF CallType
  <2>2. /\ call[t].op # "idle"
        /\ call[t].op = "sum" => Len(call[t].data) = 2 /\ call[t].data[1] # call[t].data[2]
    BY <1>1 DEF Owned
  <2>3. /\ c.phase = "final" => IF c.failed THEN c.op = "stream" /\ c.taken < Len(c.data)
                                            ELSE c.taken = Len(c.data)
        /\ c.phase = "feed" /\ c.op = "sum" => c.taken < Len(c.data)
    BY <1>2, <1>3, <2>1 DEF Left
  <2> HIDE DEF c
  <2> QED
    BY <1>7, <2>1, <2>2, <2>3 DEF Owned
<1>9. /\ call' = [call EXCEPT ![t] = c]
      /\ answer' = [answer EXCEPT ![t] = answer[t]]
  BY <1>1 DEF Inv, TypeOK
<1> HIDE DEF c, x
<1> QED
  BY <1>1, <1>4, <1>5, <1>6, <1>8, <1>9, OneThread

\* Every step of a thread keeps the invariant.
LEMMA StepKeeps ==
  ASSUME Inv, NEW t \in Threads, Step(t)
  PROVE  Inv'
<1> USE DigestAssumption
<1>1. /\ call[t] \in CallType /\ ctx[t] \in Seq(Bytes) /\ answer[t] \in AnswerType
      /\ Owned(call[t], ctx[t])
  BY DEF Inv, TypeOK
<1>2. Left(t) \in Nat /\ Len(call[t].data) \in Nat
  BY <1>1 DEF CallType, Left
<1>3. CASE BeginIdentify(t)
  <2>1. PICK op \in {"buffer", "stream", "fd"}, data \in Inputs :
          call' = [call EXCEPT ![t] = NewCall(op, data)]
    BY <1>3 DEF BeginIdentify
  <2>2. NewCall(op, data) \in CallType /\ Owned(NewCall(op, data), ctx[t])
    BY NewCallOwned DEF Ops
  <2>3. UNCHANGED <<ctx, answer>>
    BY <1>3 DEF BeginIdentify
  <2> QED
    BY <2>1, <2>2, <2>3, CallOnly
<1>4. CASE BeginSum(t)
  <2>1. PICK a, b \in Bytes : a # b /\ call' = [call EXCEPT ![t] = NewCall("sum", <<a, b>>)]
    BY <1>4 DEF BeginSum
  <2>2. <<a, b>> \in Seq(Bytes) /\ Len(<<a, b>>) = 2 /\ <<a, b>>[1] # <<a, b>>[2]
    BY <2>1
  <2>3. NewCall("sum", <<a, b>>) \in CallType /\ Owned(NewCall("sum", <<a, b>>), ctx[t])
    BY <2>2, NewCallOwned DEF Ops
  <2>4. UNCHANGED <<ctx, answer>>
    BY <1>4 DEF BeginSum
  <2> QED
    BY <2>1, <2>3, <2>4, CallOnly
<1>5. CASE SumOfEqual(t)
  <2>1. PICK b \in Bytes :
          answer' = [answer EXCEPT ![t] =
            [op |-> "sum", data |-> <<b, b>>, failed |-> FALSE,
             outcome |-> "ok", digest |-> <<b>>]]
    BY <1>5 DEF SumOfEqual
  <2> DEFINE a == [op |-> "sum", data |-> <<b, b>>, failed |-> FALSE,
                   outcome |-> "ok", digest |-> <<b>>]
  <2>2. a \in AnswerType /\ IsRight(a)
    BY DEF AnswerType, Ops, IsRight, IsOwnDigest, IsSumDigest
  <2>3. ctx' = [ctx EXCEPT ![t] = ctx[t]] /\ call' = [call EXCEPT ![t] = call[t]]
    BY <1>5 DEF SumOfEqual, Inv, TypeOK
  <2>4. answer' = [answer EXCEPT ![t] = a]
    BY <2>1
  <2> HIDE DEF a
  <2> QED
    BY <1>1, <2>2, <2>3, <2>4, OneThread
<1>6. CASE FdRead(t)
  <2>1. /\ call[t].phase = "read" /\ UNCHANGED <<ctx, answer>>
        /\ call[t].op # "idle" /\ ~call[t].failed
    BY <1>1, <1>6 DEF FdRead, Owned
  <2>2. CASE Left(t) = 0
    <3> DEFINE c == [call[t] EXCEPT !.phase = "init", !.taken = 0]
    <3>1. c \in CallType /\ Owned(c, ctx[t])
      <4> DEFINE d == [call[t] EXCEPT !.phase = "init"]
      <4>1. d \in CallType
        BY <1>1 DEF CallType
      <4>2. d.data \in Seq(Bytes)
        BY <4>1 DEF CallType
      <4>3. 0 <= Len(d.data)
        BY <4>2, LenProperties
      <4>4. c \in CallType
        <5> HIDE DEF d
        <5>1. [d EXCEPT !.taken = 0] \in CallType
          BY <4>1, <4>3 DEF CallType
        <5> QED
          BY <5>1 DEF d
      <4>5. /\ c.op = call[t].op /\ c.data = call[t].data /\ c.taken = 0
            /\ ~c.failed /\ c.phase = "init"
        BY <1>1, <2>1 DEF CallType
      <4> HIDE DEF c
      <4> QED
        BY <1>1, <2>1, <4>4, <4>5 DEF Owned
    <3>2. call' = [call EXCEPT ![t] = c]
      BY <1>6, <2>2 DEF FdRead, Inv, TypeOK
    <3> HIDE DEF c
    <3> QED
      BY <2>1, <3>1, <3>2, CallOnly
  <2>3. CASE Left(t) # 0
    <3>1. PICK n \in 1..BlockSize :
            n <= Left(t) /\ call' = [call EXCEPT ![t].taken = @ + n]
      BY <1>6, <2>3 DEF FdRead
    <3> DEFINE c == [call[t] EXCEPT !.taken = @ + n]
    <3>2. call[t].taken + n \in Nat /\ call[t].taken + n <= Len(call[t].data)
      <4>1. n \in Nat /\ n <= Len(call[t].data) - call[t].taken
        BY <3>1, DigestAssumption DEF Left
      <4>2. call[t].taken \in Nat /\ Len(call[t].data) \in Nat
        BY <1>1 DEF CallType
      <4> QED
        BY ONLY <4>1, <4>2
    <3>3. c \in CallType /\ Owned(c, ctx[t])
      <4>1. c \in CallType
        BY <1>1, <3>2 DEF CallType
      <4>2. /\ c.op = call[t].op /\ c.data = call[t].data
            /\ c.failed = call[t].failed /\ c.phase = "read"
        BY <1>1, <2>1 DEF CallType
      <4> HIDE DEF c
      <4> QED
        BY <1>1, <2>1, <4>1, <4>2 DEF Owned
    <3>4. call' = [call EXCEPT ![t] = c]
      BY <3>1 DEF Inv, TypeOK
    <3> HIDE DEF c
    <3> QED
      BY <2>1, <3>3, <3>4, CallOnly
  <2> QED
    BY <2>2, <2>3
<1>7. CASE FdError(t)
  <2>1. <<>> \in Seq(Bytes)
    BY EmptySeq
  <2> QED
    BY <1>7, <2>1, ReturnOnly DEF FdError
<1>8. CASE InitDigest(t)
  <2> DEFINE c == [call[t] EXCEPT !.phase = "feed"]
  <2>1. /\ call[t].phase = "init" /\ call[t].taken = 0 /\ ~call[t].failed
        /\ call[t].op # "idle"
    BY <1>1, <1>8 DEF InitDigest, Owned
  <2>2. SubSeq(Text(c), 1, c.taken) = <<>>
    BY <1>1, <2>1, TextType DEF CallType, Owned
  <2>3. c \in CallType /\ Owned(c, <<>>)
    <3>1. c \in CallType
      BY <1>1 DEF CallType
    <3>2. /\ c.op = call[t].op /\ c.data = call[t].data
          /\ ~c.failed /\ c.phase = "feed" /\ c.taken = 0
      BY <1>1, <2>1 DEF CallType
    <3>3. call[t].op = "sum" => Len(call[t].data) = 2 /\ call[t].data[1] # call[t].data[2]
      BY <1>1 DEF Owned
    <3> HIDE DEF c
    <3>4. /\ c.op # "idle"
          /\ c.op = "sum" => Len(c.data) = 2 /\ c.data[1] # c.data[2]
      BY <2>1, <3>2, <3>3
    <3>5. ASSUME c.op = "sum" PROVE c.taken < Len(c.data)
      <4>1. c.taken = 0
        BY <3>2
      <4>2. Len(c.data) = 2
        BY <3>4, <3>5
      <4> QED
        BY <4>1, <4>2
    <3> QED
      BY <2>2, <3>1, <3>2, <3>4, <3>5 DEF Owned
  <2>4. <<>> \in Seq(Bytes) /\ IsRight(answer[t])
    BY EmptySeq DEF Inv
  <2>5. /\ ctx' = [ctx EXCEPT ![t] = <<>>]
        /\ call' = [call EXCEPT ![t] = c]
        /\ answer' = [answer EXCEPT ![t] = answer[t]]
    BY <1>8 DEF InitDigest, Inv, TypeOK
  <2> HIDE DEF c
  <2> QED
    BY <1>1, <2>3, <2>4, <2>5, OneThread
<1>9. CASE Feed(t)
  <2> DEFINE n == IF call[t].op = "sum" THEN 1 ELSE Left(t)
             after == IF Left(t) = n THEN "final" ELSE "feed"
  <2>1. /\ call[t].phase = "feed" /\ Update(t, n) /\ UNCHANGED answer /\ ~call[t].failed
    BY <1>1, <1>9 DEF Feed, Owned
  <2>2. call' = [call EXCEPT ![t].taken = @ + n, ![t].phase = after]
    BY <1>9 DEF Feed
  <2>3. call[t].op = "sum" => Left(t) > 0
    BY <1>1, <2>1 DEF Owned, CallType, Left
  <2>4. n \in Nat /\ n <= Left(t)
    BY <1>2, <2>3
  <2>5. /\ after \in {"feed", "final"}
        /\ after = "final" => n = Left(t)
        /\ after = "feed" => n < Left(t)
    BY <1>2, <2>4
  <2> HIDE DEF n, after
  <2>6. call' = [call EXCEPT ![t].taken = @ + n, ![t].failed = FALSE, ![t].phase = after]
    BY <1>1, <2>1, <2>2 DEF Inv, TypeOK, CallType
  <2> QED
    BY <2>1, <2>6, <2>3, <2>4, <2>5, FeedKeeps
<1>10. CASE ReadBlock(t)
  <2> DEFINE n == IF Left(t) < BlockSize THEN Left(t) ELSE BlockSize
             after == IF n < BlockSize THEN "final" ELSE "feed"
  <2>1. /\ call[t].phase = "feed" /\ Update(t, n) /\ UNCHANGED answer /\ ~call[t].failed
    BY <1>1, <1>10 DEF ReadBlock, Owned
  <2>2. call' = [call EXCEPT ![t].taken = @ + n, ![t].phase = after]
    BY <1>10 DEF ReadBlock
  <2>3. call[t].op # "sum"
    BY <1>10 DEF ReadBlock
  <2>4. n \in Nat /\ n <= Left(t)
    BY <1>2
  <2>5. /\ after \in {"feed", "final"}
        /\ after = "final" => n = Left(t)
    BY <1>2
  <2> HIDE DEF n, after
  <2>6. call' = [call EXCEPT ![t].taken = @ + n, ![t].failed = FALSE, ![t].phase = after]
    BY <1>1, <2>1, <2>2 DEF Inv, TypeOK, CallType
  <2> QED
    BY <2>1, <2>6, <2>3, <2>4, <2>5, FeedKeeps
<1>11. CASE StreamError(t)
  <2>1. PICK n \in 0..(BlockSize - 1) :
          /\ n < Left(t)
          /\ Update(t, n)
          /\ call' = [call EXCEPT ![t].taken = @ + n, ![t].failed = TRUE, ![t].phase = "final"]
    BY <1>11 DEF StreamError
  <2>2. call[t].phase = "feed" /\ call[t].op = "stream" /\ UNCHANGED answer
    BY <1>11 DEF StreamError
  <2>3. n \in Nat /\ n <= Left(t)
    BY <1>2, <2>1
  <2> QED
    BY <2>1, <2>2, <2>3, FeedKeeps
<1>12. CASE Finish(t)
  <2> DEFINE c == call[t]
             a == [op |-> c.op, data |-> c.data, failed |-> c.failed,
                   outcome |-> "ok", digest |-> ctx[t]]
  <2>1. c.phase = "final" /\ ctx[t] = SubSeq(Text(c), 1, c.taken)
    BY <1>1, <1>12 DEF Finish, Owned
  <2>2. IsOwnDigest(a)
    <3>1. SUFFICES ASSUME c.op # "sum"
                   PROVE  IF c.failed
                          THEN /\ c.op = "stream"
                               /\ \E n \in 0..(Len(c.data) - 1) :
                                    ctx[t] = SubSeq(c.data, 1, n)
                          ELSE ctx[t] = c.data
      BY DEF IsOwnDigest
    <3>2. ctx[t] = SubSeq(c.data, 1, c.taken)
      BY <2>1, <3>1 DEF Text
    <3>3. CASE c.failed
      <4>1. c.op = "stream" /\ c.taken < Len(c.data)
        BY <1>1, <2>1, <3>3 DEF Owned
      <4>2. c.taken \in 0..(Len(c.data) - 1)
        BY <1>1, <4>1 DEF CallType
      <4> QED
        BY <3>2, <3>3, <4>1, <4>2
    <3>4. CASE ~c.failed
      <4>1. c.taken = Len(c.data) /\ c.data \in Seq(Bytes)
        BY <1>1, <2>1, <3>4 DEF Owned, CallType
      <4> QED
        BY <3>2, <3>4, <4>1
    <3> QED
      BY <3>3, <3>4
  <2>3. IsSumDigest(a)
    <3>1. SUFFICES ASSUME c.op = "sum"
                   PROVE  /\ Len(c.data) = 2 /\ c.data[1] # c.data[2]
                          /\ ctx[t] = SumText(c.data)
      BY DEF IsSumDigest
    <3>2. Len(c.data) = 2 /\ c.data[1] # c.data[2]
      BY <1>1, <3>1 DEF Owned
    <3>3. c.taken = Len(c.data)
      BY <1>1, <2>1, <3>1 DEF Owned
    <3>4. Text(c) = SumText(c.data) /\ Text(c) \in Seq(Bytes) /\ Len(Text(c)) = c.taken
      BY <1>1, <3>1, <3>2, <3>3, TextType DEF CallType, Text
    <3>5. SubSeq(Text(c), 1, c.taken) = Text(c)
      BY <3>4, SubSeqFull
    <3> QED
      BY <2>1, <3>2, <3>4, <3>5
  <2>4. IsRight(a)
    BY <2>2, <2>3 DEF IsRight
  <2> QED
    BY <1>1, <1>12, <2>4, ReturnOnly DEF Finish
<1>13. CASE LibraryFault(t)
  <2>1. <<>> \in Seq(Bytes)
    BY EmptySeq
  <2> QED
    BY <1>13, <2>1, ReturnOnly DEF LibraryFault
<1> QED
  BY <1>3, <1>4, <1>5, <1>6, <1>7, <1>8, <1>9, <1>10, <1>11, <1>12, <1>13 DEF Step

\* The invariant holds of every behaviour.
LEMMA InvHolds == Identifying => []Inv
<1>1. NoCalls => Inv
  <2> SUFFICES ASSUME NoCalls PROVE Inv
    OBVIOUS
  <2>1. <<>> \in Seq(Bytes)
    BY EmptySeq
  <2>2. Idle \in CallType /\ Owned(Idle, <<>>)
    BY <2>1 DEF Idle, CallType, Owned, Ops
  <2>3. Unanswered \in AnswerType /\ IsRight(Unanswered)
    BY <2>1 DEF Unanswered, AnswerType, IsRight, IsOwnDigest, IsSumDigest, Ops
  <2> QED
    BY <2>1, <2>2, <2>3 DEF NoCalls, Inv, TypeOK
<1>2. Inv /\ [AnyStep]_state => Inv'
  <2> SUFFICES ASSUME Inv, [AnyStep]_state PROVE Inv'
    OBVIOUS
  <2>1. CASE AnyStep
    BY <2>1, StepKeeps DEF AnyStep
  <2>2. CASE UNCHANGED state
    BY <2>2 DEF state, Inv, TypeOK
  <2> QED
    BY <2>1, <2>2
<1> QED
  BY <1>1, <1>2, PTL DEF Identifying

\* Contexts, calls and answers keep their types, and no call takes more than
\* its input holds.
THEOREM DigestTypes == Identifying => []TypeOK
<1>1. Inv => TypeOK
  BY DEF Inv
<1> QED
  BY <1>1, InvHolds, PTL

\* Whatever the threads, inputs and block size, and wherever sources and
\* library calls fail, an ID that Identify returns is that of its own input,
\* or of the part before the failure of its stream.
THEOREM DigestsAreOwn == Identifying => []OwnDigest
<1>1. Inv => OwnDigest
  BY DEF Inv, IsRight, OwnDigest
<1> QED
  BY <1>1, InvHolds, PTL

\* Of two different IDs either order of operands gives the same text.
LEMMA SumTextCommutes ==
  ASSUME NEW a \in Seq(Bytes), NEW b \in Seq(Bytes), Len(a) = 2, Len(b) = 2,
         a[1] = b[2], a[2] = b[1], a[1] # a[2]
  PROVE  SumText(a) = SumText(b)
<1>1. a[1] \in Bytes /\ a[2] \in Bytes /\ Bytes \subseteq Nat
  BY DigestAssumption
<1>2. ASSUME NEW c \in Seq(Bytes), Len(c) = 2
      PROVE  c = <<c[1], c[2]>>
  <2>1. /\ <<c[1], c[2]>> \in Seq(Bytes) /\ Len(<<c[1], c[2]>>) = 2
    <3>1. c[1] \in Bytes /\ c[2] \in Bytes
      BY <1>2, LenProperties
    <3> DEFINE x == c[1]
               y == c[2]
    <3>2. x \in Bytes /\ y \in Bytes
      BY ONLY <3>1
    <3> HIDE DEF x, y
    <3>3. <<x, y>> \in Seq(Bytes) /\ Len(<<x, y>>) = 2
      BY ONLY <3>2
    <3> QED
      BY ONLY <3>3 DEF x, y
  <2>2. \A i \in 1..2 : c[i] = <<c[1], c[2]>>[i]
    OBVIOUS
  <2> QED
    BY <1>2, <2>1, <2>2, SeqEqual
<1>3. a = <<a[1], a[2]>> /\ b = <<a[2], a[1]>>
  BY <1>2
<1> DEFINE x == a[1]
           y == a[2]
<1>4. SumText(a) = IF x < y THEN a ELSE <<y, x>>
  BY DEF SumText
<1>5. SumText(b) = IF y < x THEN b ELSE <<x, y>>
  BY DEF SumText
<1>6. x \in Nat /\ y \in Nat /\ x # y
  BY <1>1
<1>7. a = <<x, y>> /\ b = <<y, x>>
  BY <1>3
<1> HIDE DEF x, y
<1>8. CASE x < y
  BY <1>4, <1>5, <1>6, <1>7, <1>8
<1>9. CASE y < x
  BY <1>4, <1>5, <1>6, <1>7, <1>9
<1> QED
  BY <1>6, <1>8, <1>9

\* The ID Sum gives does not depend on the order of its operands, on the
\* thread, or on what the thread hashed before (C4ID::Sum, id.cpp).
THEOREM SumAlwaysCommutes == Identifying => []SumCommutes
<1>1. Inv => SumCommutes
  <2> SUFFICES ASSUME Inv, NEW s \in Threads, NEW t \in Threads,
                      answer[s].op = "sum", answer[s].outcome = "ok",
                      answer[t].op = "sum", answer[t].outcome = "ok",
                      answer[s].data[1] = answer[t].data[2],
                      answer[s].data[2] = answer[t].data[1]
               PROVE  answer[s].digest = answer[t].digest
    BY DEF SumCommutes
  <2> DEFINE a == answer[s].data
             b == answer[t].data
  <2>1. a \in Seq(Bytes) /\ b \in Seq(Bytes)
    BY DEF Inv, TypeOK, AnswerType
  <2>2. /\ Len(a) = 2
        /\ answer[s].digest = IF a[1] = a[2] THEN <<a[1]>> ELSE SumText(a)
    BY DEF Inv, IsRight, IsSumDigest
  <2>3. /\ Len(b) = 2
        /\ answer[t].digest = IF b[1] = b[2] THEN <<b[1]>> ELSE SumText(b)
    BY DEF Inv, IsRight, IsSumDigest
  <2> QED
    BY <2>1, <2>2, <2>3, SumTextCommutes
<1> QED
  BY <1>1, InvHolds, PTL
=============================================================================
