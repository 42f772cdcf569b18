--------------------------- MODULE EntryTextProofs ---------------------------
(* Names as text.  Their natural order (src/c4m/naturalsort.cpp), for all byte *)
(* strings and either sign of char: it is a strict total order, so that any    *)
(* names have ranks in it, which stand for them in the other modules.  Their   *)
(* escapes (src/c4m/safename.cpp): every name but those with U+FFFD comes back *)
(* from them.  And with both what the specification of EntryText says of every *)
(* entry that is renamed, written and read.                                    *)
EXTENDS EntryText, FiniteSetTheorems, SequenceTheorems, WellFoundedInduction, TLAPS

-----------------------------------------------------------------------------
(* The order of names.                                                       *)

Text == Seq(Byte)

Digit == 48..57

\* c is two names and whether char is signed.
CompareAt(c, f, i) ==
  LET a == c[1]
      b == c[2]
  IN IF i > Len(a) \/ i > Len(b) THEN Len(a) < Len(b)
     ELSE IF IsDigit(a[i]) /\ IsDigit(b[i])
          THEN LET da == SubSeq(a, i, i + DigitsAt(a, i) - 1)
                   db == SubSeq(b, i, i + DigitsAt(b, i) - 1)
               IN IF da # db THEN DigitsLess(da, db) ELSE f[i + Len(da)]
     ELSE IF IsDigit(a[i]) # IsDigit(b[i]) THEN ~IsDigit(a[i])
     ELSE IF a[i] # b[i] THEN CharLess(a[i], b[i], c[3])
     ELSE f[i + 1]

Comparing == INSTANCE FoldFacts WITH Op <- CompareAt

LEMMA AllNats ==
  ASSUME NEW S, 0 \in S, \A n \in Nat : n \in S => n + 1 \in S
  PROVE  Nat \subseteq S
BY Comparing!NatInSet

\* How far from the first of n places a property goes on.
LEMMA GoesOn ==
  ASSUME NEW P
  PROVE  \A n \in Nat : \E k \in 0..n : (\A m \in 1..k : m \in P) /\ (k = n \/ k + 1 \notin P)
<1> DEFINE Upto(n, k) == (\A m \in 1..k : m \in P) /\ (k = n \/ k + 1 \notin P)
           S == {n \in Nat : \E k \in 0..n : Upto(n, k)}
<1>1. 0 \in S
  <2>1. 0 \in 0..0 /\ Upto(0, 0)
    OBVIOUS
  <2> QED
    BY <2>1
<1>2. ASSUME NEW n \in Nat, n \in S
      PROVE  n + 1 \in S
  <2>1. PICK k \in 0..n : Upto(n, k)
    BY <1>2
  <2>2. k \in 0..(n + 1) /\ k + 1 \in 0..(n + 1) /\ k \in Nat
    OBVIOUS
  <2>3. CASE k = n /\ k + 1 \in P
    <3>1. \A m \in 1..(k + 1) : m \in 1..k \/ m = k + 1
      OBVIOUS
    <3>2. Upto(n + 1, k + 1)
      BY <2>1, <2>3, <3>1
    <3> QED
      BY <2>2, <3>2
  <2>4. CASE k + 1 \notin P
    <3>1. Upto(n + 1, k)
      BY <2>1, <2>4
    <3> QED
      BY <2>2, <3>1
  <2> QED
    BY <2>1, <2>3, <2>4
<1>3. Nat \subseteq S
  <2> HIDE DEF S
  <2> QED
    BY <1>1, <1>2, AllNats
<1> QED
  BY <1>3

LEMMA TextElements ==
  ASSUME NEW s \in Text
  PROVE  Len(s) \in Nat /\ \A i \in 1..Len(s) : s[i] \in 0..255
BY LenProperties, ElementOfSeq DEF Text, Byte

\* The digits at i end at the end of the name or at a byte that is none.
LEMMA DigitsAtIs ==
  ASSUME NEW s \in Text, NEW i \in 1..Len(s)
  PROVE  /\ DigitsAt(s, i) \in Nat
         /\ i + DigitsAt(s, i) <= Len(s) + 1
         /\ \A m \in 1..DigitsAt(s, i) : IsDigit(s[i + m - 1])
         /\ i + DigitsAt(s, i) <= Len(s) => ~IsDigit(s[i + DigitsAt(s, i)])
<1> DEFINE n == Len(s)
           P == {m \in Nat : IsDigit(s[i + m - 1])}
           Ends(k) ==
             /\ \A m \in 1..k : i + m - 1 <= Len(s) /\ IsDigit(s[i + m - 1])
             /\ i + k > Len(s) \/ ~IsDigit(s[i + k])
<1>1. n \in Nat /\ n - i + 1 \in Nat
  BY TextElements
<1>2. PICK k \in 0..(n - i + 1) : (\A m \in 1..k : m \in P) /\ (k = n - i + 1 \/ k + 1 \notin P)
  BY <1>1, GoesOn
<1>3. k \in 0..n /\ Ends(k)
  <2>1. ASSUME NEW m \in 1..k
        PROVE  i + m - 1 <= n /\ IsDigit(s[i + m - 1])
    <3>1. m \in P
      BY <1>2
    <3>2. m <= n - i + 1 /\ m \in Nat /\ n \in Nat
      BY <1>1
    <3> HIDE DEF n
    <3> QED
      BY <3>1, <3>2
  <2>2. i + (k + 1) - 1 = i + k /\ k + 1 \in Nat
    BY <1>1
  <2>3. k + 1 \notin P => ~IsDigit(s[i + k])
    BY <2>2
  <2>4. k = n - i + 1 => i + k > n
    BY <1>1
  <2> QED
    BY <1>1, <1>2, <2>1, <2>3, <2>4
<1>4. DigitsAt(s, i) = CHOOSE x \in 0..n : Ends(x)
  BY DEF DigitsAt
<1> DEFINE d == DigitsAt(s, i)
<1>5. d \in 0..n /\ Ends(d)
  <2> HIDE DEF Ends, d
  <2> QED
    BY <1>3, <1>4 DEF d
<1> HIDE DEF d
<1>6. i + d <= n + 1
  <2>1. CASE d = 0
    BY <1>1, <2>1
  <2>2. CASE d # 0
    <3>1. d \in 1..d
      BY <1>1, <1>5, <2>2
    <3>2. i + d - 1 <= n
      BY <1>5, <3>1
    <3> QED
      BY <1>1, <1>5, <3>2
  <2> QED
    BY <2>1, <2>2
<1>7. i + d <= n => ~(i + d > n)
  BY <1>1, <1>5
<1> QED
  BY <1>1, <1>5, <1>6, <1>7 DEF d

Run(s, i) == SubSeq(s, i, i + DigitsAt(s, i) - 1)

LEMMA RunIs ==
  ASSUME NEW s \in Text, NEW i \in 1..Len(s), IsDigit(s[i])
  PROVE  /\ Run(s, i) \in Seq(Digit)
         /\ Len(Run(s, i)) \in Nat \ {0} /\ i + Len(Run(s, i)) <= Len(s) + 1
         /\ \A m \in 1..Len(Run(s, i)) : Run(s, i)[m] = s[i + m - 1]
<1> DEFINE d == DigitsAt(s, i)
<1>1. /\ d \in Nat /\ i + d <= Len(s) + 1 /\ Len(s) \in Nat
      /\ \A m \in 1..d : IsDigit(s[i + m - 1])
      /\ i + d <= Len(s) => ~IsDigit(s[i + d])
  BY DigitsAtIs, TextElements
<1> HIDE DEF d
<1>2. d # 0
  <2>1. d = 0 => i + d = i /\ i + d <= Len(s)
    BY <1>1
  <2> QED
    BY <1>1, <2>1
<1>3. \A k \in i..(i + d - 1) : s[k] \in Digit
  <2> SUFFICES ASSUME NEW k \in i..(i + d - 1) PROVE s[k] \in Digit
    OBVIOUS
  <2>1. k - i + 1 \in 1..d /\ i + (k - i + 1) - 1 = k
    BY <1>1
  <2>2. IsDigit(s[i + (k - i + 1) - 1])
    BY <1>1, <2>1
  <2> QED
    BY <2>1, <2>2 DEF IsDigit, Digit
<1>4. i \in Int /\ i + d - 1 \in Int /\ i <= i + d - 1 /\ (i + d - 1) - i + 1 = d
  BY <1>1, <1>2
<1>5. /\ Run(s, i) \in Seq(Digit)
      /\ Len(Run(s, i)) = d
      /\ \A m \in 1..d : Run(s, i)[m] = s[i + m - 1]
  <2>1. /\ SubSeq(s, i, i + d - 1) \in Seq(Digit)
        /\ Len(SubSeq(s, i, i + d - 1)) = IF i <= i + d - 1 THEN (i + d - 1) - i + 1 ELSE 0
        /\ \A m \in 1..((i + d - 1) - i + 1) : SubSeq(s, i, i + d - 1)[m] = s[i + m - 1]
    BY ONLY <1>3, <1>4, SubSeqProperties
  <2> QED
    BY <1>4, <2>1 DEF Run, d
<1> QED
  BY <1>1, <1>2, <1>5

-----------------------------------------------------------------------------
(* Runs of digits.                                                           *)

\* The first of two equally long lists that has the smaller number at the first
\* place where they differ.
ListLess(x, y) == \E k \in 1..Len(x) : x[k] < y[k] /\ \A m \in 1..(k - 1) : x[m] = y[m]

LEMMA ListOrder ==
  ASSUME NEW x \in Seq(Nat), NEW y \in Seq(Nat), NEW z \in Seq(Nat),
         Len(x) = Len(y), Len(y) = Len(z)
  PROVE  /\ ~ListLess(x, x)
         /\ ListLess(x, y) /\ ListLess(y, z) => ListLess(x, z)
         /\ x = y \/ ListLess(x, y) \/ ListLess(y, x)
<1> DEFINE n == Len(x)
<1>1. n \in Nat /\ \A k \in 1..n : x[k] \in Nat /\ y[k] \in Nat /\ z[k] \in Nat
  BY LenProperties, ElementOfSeq
<1>2. ~ListLess(x, x)
  <2>1. \A k \in 1..n : ~(x[k] < x[k])
    BY <1>1
  <2> QED
    BY <2>1 DEF ListLess
<1>3. ASSUME ListLess(x, y), ListLess(y, z)
      PROVE  ListLess(x, z)
  <2>1. PICK i \in 1..n : x[i] < y[i] /\ \A m \in 1..(i - 1) : x[m] = y[m]
    BY <1>3 DEF ListLess
  <2>2. PICK k \in 1..n : y[k] < z[k] /\ \A m \in 1..(k - 1) : y[m] = z[m]
    BY <1>3 DEF ListLess
  <2> HIDE DEF n
  <2>3. i \in Nat /\ k \in Nat
    BY <1>1
  <2>4. CASE i < k
    <3>1. i \in 1..(k - 1) /\ \A m \in 1..(i - 1) : m \in 1..(k - 1)
      BY <1>1, <2>4
    <3>2. x[i] < z[i] /\ \A m \in 1..(i - 1) : x[m] = z[m]
      BY <2>1, <2>2, <3>1
    <3> QED
      BY <3>2 DEF ListLess, n
  <2>5. CASE i = k
    <3>1. x[i] < z[i] /\ \A m \in 1..(i - 1) : x[m] = z[m]
      BY <1>1, <2>1, <2>2, <2>5
    <3> QED
      BY <3>1 DEF ListLess, n
  <2>6. CASE k < i
    <3>1. k \in 1..(i - 1) /\ \A m \in 1..(k - 1) : m \in 1..(i - 1)
      BY <1>1, <2>6
    <3>2. x[k] < z[k] /\ \A m \in 1..(k - 1) : x[m] = z[m]
      BY <2>1, <2>2, <3>1
    <3> QED
      BY <3>2 DEF ListLess, n
  <2> QED
    BY <2>3, <2>4, <2>5, <2>6
<1>4. x = y \/ ListLess(x, y) \/ ListLess(y, x)
  <2>1. PICK k \in 0..n : /\ \A m \in 1..k : m \in {p \in Nat : x[p] = y[p]}
                          /\ k = n \/ k + 1 \notin {p \in Nat : x[p] = y[p]}
    <3> HIDE DEF n
    <3> QED
      BY <1>1, GoesOn
  <2>2. \A m \in 1..k : x[m] = y[m]
    BY <2>1
  <2>3. CASE k = n
    <3>1. \A m \in 1..n : x[m] = y[m]
      BY <2>2, <2>3
    <3> QED
      BY <3>1, SeqEqual
  <2>4. CASE k # n
    <3>1. k + 1 \in 1..n /\ (k + 1) - 1 = k /\ k + 1 \in Nat
      BY <1>1, <2>4
    <3>2. x[k + 1] # y[k + 1]
      BY <2>1, <2>4, <3>1
    <3>3. x[k + 1] < y[k + 1] \/ y[k + 1] < x[k + 1]
      BY <1>1, <3>1, <3>2
    <3> HIDE DEF n
    <3>4. \A m \in 1..((k + 1) - 1) : x[m] = y[m]
      BY <2>2, <3>1
    <3> QED
      BY <3>1, <3>3, <3>4 DEF ListLess, n
  <2> QED
    BY <2>3, <2>4
<1> QED
  BY <1>2, <1>3, <1>4

Significant(d) == SubSeq(d, ZerosAt(d, 1) + 1, Len(d))

\* A run is its leading zeros and its significant digits.
LEMMA SignificantIs ==
  ASSUME NEW d \in Seq(Digit), d # <<>>
  PROVE  /\ Significant(d) \in Seq(Digit)
         /\ ZerosAt(d, 1) \in 0..Len(d)
         /\ Len(Significant(d)) = Len(d) - ZerosAt(d, 1)
         /\ \A m \in 1..ZerosAt(d, 1) : d[m] = 48
         /\ \A m \in 1..Len(Significant(d)) : Significant(d)[m] = d[ZerosAt(d, 1) + m]
<1> DEFINE n == Len(d)
           P == {m \in Nat : d[m] = 48}
           Zeros(k) == /\ \A m \in 1..k : d[1 + m - 1] = 48
                       /\ k = n \/ d[1 + k] # 48
<1>1. n \in Nat \ {0} /\ \A m \in 1..n : d[m] \in Digit
  BY LenProperties, ElementOfSeq, EmptySeq
<1>2. DigitsAt(d, 1) = n
  <2>1. d \in Text
    <3>1. d \in [1..n -> Digit]
      BY LenProperties
    <3>2. d \in [1..n -> 0..255]
      BY <3>1 DEF Digit
    <3> HIDE DEF n
    <3> QED
      BY <1>1, <3>2 DEF Text, Byte
  <2>2. 1 \in 1..n
    BY <1>1
  <2> DEFINE x == DigitsAt(d, 1)
  <2>3. x \in Nat /\ 1 + x <= n + 1 /\ (1 + x <= n => ~IsDigit(d[1 + x]))
    BY <2>1, <2>2, DigitsAtIs
  <2> HIDE DEF x
  <2>4. 1 + x <= n => IsDigit(d[1 + x])
    BY <1>1, <2>3 DEF IsDigit, Digit
  <2>5. x = n
    BY <1>1, <2>3, <2>4
  <2> QED
    BY <2>5 DEF x
<1>3. ZerosAt(d, 1) = CHOOSE k \in 0..n : Zeros(k)
  BY <1>2 DEF ZerosAt
<1>4. PICK k \in 0..n : (\A m \in 1..k : m \in P) /\ (k = n \/ k + 1 \notin P)
  <2> HIDE DEF n
  <2> QED
    BY <1>1, GoesOn
<1>5. Zeros(k)
  <2>1. \A m \in 1..k : 1 + m - 1 = m /\ m \in Nat
    OBVIOUS
  <2>2. k + 1 = 1 + k /\ k + 1 \in Nat
    BY <1>1
  <2> HIDE DEF n
  <2> QED
    BY <1>4, <2>1, <2>2
<1> DEFINE z == ZerosAt(d, 1)
<1>6. z \in 0..n /\ Zeros(z)
  <2> HIDE DEF Zeros, n
  <2> QED
    BY <1>3, <1>4, <1>5
<1> HIDE DEF z
<1>7. \A m \in 1..z : d[m] = 48
  <2>1. \A m \in 1..z : 1 + m - 1 = m
    OBVIOUS
  <2> QED
    BY <1>6, <2>1
<1>8. /\ Significant(d) \in Seq(Digit)
      /\ Len(Significant(d)) = n - z
      /\ \A m \in 1..(n - z) : Significant(d)[m] = d[z + m]
  <2> HIDE DEF n
  <2>1. z + 1 \in Int /\ n \in Int /\ \A m \in (z + 1)..n : d[m] \in Digit
    BY <1>1, <1>6
  <2>2. /\ SubSeq(d, z + 1, n) \in Seq(Digit)
        /\ Len(SubSeq(d, z + 1, n)) = IF z + 1 <= n THEN n - (z + 1) + 1 ELSE 0
        /\ \A m \in 1..(n - (z + 1) + 1) : SubSeq(d, z + 1, n)[m] = d[(z + 1) + m - 1]
    BY ONLY <2>1, SubSeqProperties
  <2>3. n - (z + 1) + 1 = n - z /\ \A m \in 1..(n - z) : (z + 1) + m - 1 = z + m
    BY <1>1, <1>6
  <2>4. Len(SubSeq(d, z + 1, n)) = n - z
    BY <1>1, <1>6, <2>2
  <2> QED
    BY <2>2, <2>3, <2>4 DEF Significant, z, n
<1> QED
  BY <1>6, <1>7, <1>8 DEF z

Runs == Seq(Digit) \ {<<>>}

\* The numbers a comparison of x and y looks at.
LEMMA RunElements ==
  ASSUME NEW x \in Runs
  PROVE  /\ Significant(x) \in Seq(Nat) /\ Len(Significant(x)) \in Nat /\ Len(x) \in Nat
<1>1. Significant(x) \in Seq(Digit) /\ x \in Seq(Digit)
  BY SignificantIs DEF Runs
<1>2. Len(Significant(x)) \in Nat /\ Len(x) \in Nat
      /\ Significant(x) \in [1..Len(Significant(x)) -> Digit]
  BY <1>1, LenProperties
<1>3. Significant(x) \in [1..Len(Significant(x)) -> Nat]
  BY <1>2 DEF Digit
<1> QED
  BY ONLY <1>2, <1>3

LEMMA SameRun ==
  ASSUME NEW x \in Runs, NEW y \in Runs, Significant(x) = Significant(y), Len(x) = Len(y)
  PROVE  x = y
<1>1. /\ x \in Seq(Digit) /\ y \in Seq(Digit) /\ Len(x) \in Nat
      /\ ZerosAt(x, 1) \in 0..Len(x) /\ ZerosAt(y, 1) \in 0..Len(y)
      /\ Len(Significant(x)) = Len(x) - ZerosAt(x, 1)
      /\ Len(Significant(y)) = Len(y) - ZerosAt(y, 1)
  BY SignificantIs, LenProperties DEF Runs
<1>2. ZerosAt(x, 1) = ZerosAt(y, 1)
  BY <1>1
<1> DEFINE z == ZerosAt(x, 1)
           n == Len(x)
<1>3. /\ \A m \in 1..z : x[m] = 48 /\ y[m] = 48
      /\ \A m \in 1..(n - z) : Significant(x)[m] = x[z + m] /\ Significant(y)[m] = y[z + m]
  <2>1. /\ \A m \in 1..ZerosAt(x, 1) : x[m] = 48
        /\ \A m \in 1..Len(Significant(x)) : Significant(x)[m] = x[ZerosAt(x, 1) + m]
    BY SignificantIs DEF Runs
  <2>2. /\ \A m \in 1..ZerosAt(y, 1) : y[m] = 48
        /\ \A m \in 1..Len(Significant(y)) : Significant(y)[m] = y[ZerosAt(y, 1) + m]
    BY SignificantIs DEF Runs
  <2> QED
    BY <1>1, <1>2, <2>1, <2>2
<1>4. z \in 0..n /\ n \in Nat
  BY <1>1
<1> HIDE DEF z, n
<1>5. \A m \in 1..n : x[m] = y[m]
  <2> SUFFICES ASSUME NEW m \in 1..n PROVE x[m] = y[m]
    OBVIOUS
  <2>1. CASE m <= z
    <3>1. m \in 1..z
      BY <1>4, <2>1
    <3> QED
      BY <1>3, <3>1
  <2>2. CASE ~(m <= z)
    <3>1. m - z \in 1..(n - z) /\ z + (m - z) = m
      BY <1>4, <2>2
    <3>2. Significant(x)[m - z] = x[z + (m - z)] /\ Significant(y)[m - z] = y[z + (m - z)]
      BY <1>3, <3>1
    <3> QED
      BY <3>1, <3>2
  <2> QED
    BY <2>1, <2>2
<1> QED
  BY <1>1, <1>5, SeqEqual DEF n

\* Runs of digits have one order.
LEMMA DigitsOrder ==
  ASSUME NEW x \in Runs, NEW y \in Runs, NEW z \in Runs
  PROVE  /\ ~DigitsLess(x, x)
         /\ DigitsLess(x, y) /\ DigitsLess(y, z) => DigitsLess(x, z)
         /\ x = y \/ DigitsLess(x, y) \/ DigitsLess(y, x)
<1> DEFINE Sx == Significant(x)
           Sy == Significant(y)
           Sz == Significant(z)
           By(p, q, sp, sq) == IF Len(sp) # Len(sq) THEN Len(sp) < Len(sq)
                               ELSE IF sp # sq THEN ListLess(sp, sq)
                               ELSE Len(p) < Len(q)
<1>1. \A p, q : DigitsLess(p, q) <=> By(p, q, Significant(p), Significant(q))
  BY DEF DigitsLess, ListLess, Significant
<1>2. /\ Sx \in Seq(Nat) /\ Sy \in Seq(Nat) /\ Sz \in Seq(Nat)
      /\ Len(Sx) \in Nat /\ Len(Sy) \in Nat /\ Len(Sz) \in Nat
      /\ Len(x) \in Nat /\ Len(y) \in Nat /\ Len(z) \in Nat
  BY RunElements
<1>3. Sx = Sy /\ Len(x) = Len(y) => x = y
  BY SameRun
<1> HIDE DEF Sx, Sy, Sz
<1>4. ~ListLess(Sx, Sx)
  BY <1>2, ListOrder
<1>5. Len(Sx) = Len(Sy) => Sx = Sy \/ ListLess(Sx, Sy) \/ ListLess(Sy, Sx)
  BY <1>2, ListOrder
<1>6. Len(Sx) = Len(Sy) /\ Len(Sy) = Len(Sz) =>
        (ListLess(Sx, Sy) /\ ListLess(Sy, Sz) => ListLess(Sx, Sz))
  BY <1>2, ListOrder
<1>7. Len(Sx) = Len(Sy) => ~(ListLess(Sx, Sy) /\ ListLess(Sy, Sx))
  BY <1>2, ListOrder
<1>8. ~By(x, x, Sx, Sx)
  BY <1>2
<1>9. By(x, y, Sx, Sy) /\ By(y, z, Sy, Sz) => By(x, z, Sx, Sz)
  BY <1>2, <1>6, <1>7
<1>10. x = y \/ By(x, y, Sx, Sy) \/ By(y, x, Sy, Sx)
  BY <1>2, <1>3, <1>5
<1> HIDE DEF By
<1> QED
  BY <1>1, <1>8, <1>9, <1>10 DEF Sx, Sy, Sz

-----------------------------------------------------------------------------
(* A name from a byte on: its end, a byte of text or a run of digits.        *)

KindAt(s, i) == IF i > Len(s) THEN 0 ELSE IF IsDigit(s[i]) THEN 2 ELSE 1

TokenAt(s, i) ==
  [kind |-> KindAt(s, i),
   char |-> IF KindAt(s, i) = 1 THEN s[i] ELSE 0,
   run  |-> IF KindAt(s, i) = 2 THEN Run(s, i) ELSE <<48>>]

Tokens == [kind : 0..2, char : 0..255, run : Runs]

\* What only its kind tells has one value.
IsToken(t) ==
  /\ t \in Tokens
  /\ t.kind # 1 => t.char = 0
  /\ t.kind # 2 => t.run = <<48>>

TokenLess(t, u, charIsSigned) ==
  \/ t.kind < u.kind
  \/ t.kind = 1 /\ u.kind = 1 /\ t.char # u.char /\ CharLess(t.char, u.char, charIsSigned)
  \/ t.kind = 2 /\ u.kind = 2 /\ DigitsLess(t.run, u.run)

\* The place after it.
After(s, i) == IF KindAt(s, i) = 2 THEN i + Len(Run(s, i)) ELSE i + 1

LEMMA CharOrder ==
  ASSUME NEW a \in 0..255, NEW b \in 0..255, NEW c \in 0..255, NEW charIsSigned
  PROVE  /\ ~CharLess(a, a, charIsSigned)
         /\ CharLess(a, b, charIsSigned) /\ CharLess(b, c, charIsSigned)
              => CharLess(a, c, charIsSigned)
         /\ a = b \/ CharLess(a, b, charIsSigned) \/ CharLess(b, a, charIsSigned)
BY DEF CharLess

LEMMA TokenOrder ==
  ASSUME NEW t, NEW u, NEW v, IsToken(t), IsToken(u), IsToken(v), NEW charIsSigned
  PROVE  /\ ~TokenLess(t, t, charIsSigned)
         /\ TokenLess(t, u, charIsSigned) /\ TokenLess(u, v, charIsSigned)
              => TokenLess(t, v, charIsSigned)
         /\ t = u \/ TokenLess(t, u, charIsSigned) \/ TokenLess(u, t, charIsSigned)
<1>1. /\ t.kind \in 0..2 /\ u.kind \in 0..2 /\ v.kind \in 0..2
      /\ t.char \in 0..255 /\ u.char \in 0..255 /\ v.char \in 0..255
      /\ t.run \in Runs /\ u.run \in Runs /\ v.run \in Runs
  BY DEF IsToken, Tokens
<1>2. t.kind = u.kind /\ t.char = u.char /\ t.run = u.run => t = u
  BY DEF IsToken, Tokens
<1>3. ~TokenLess(t, t, charIsSigned)
  <2>1. ~(t.kind < t.kind)
    BY <1>1
  <2>2. ~DigitsLess(t.run, t.run)
    BY <1>1, DigitsOrder
  <2> QED
    BY <2>1, <2>2 DEF TokenLess
<1>4. ASSUME TokenLess(t, u, charIsSigned), TokenLess(u, v, charIsSigned)
      PROVE  TokenLess(t, v, charIsSigned)
  <2>1. CASE t.kind < u.kind \/ u.kind < v.kind
    <3>1. t.kind <= u.kind /\ u.kind <= v.kind
      BY <1>1, <1>4 DEF TokenLess
    <3>2. t.kind < v.kind
      BY <1>1, <2>1, <3>1
    <3> QED
      BY <3>2 DEF TokenLess
  <2>2. CASE ~(t.kind < u.kind \/ u.kind < v.kind)
    <3>1. CASE t.kind = 1
      <4>1. u.kind = 1 /\ v.kind = 1 /\ CharLess(t.char, u.char, charIsSigned)
            /\ CharLess(u.char, v.char, charIsSigned)
        BY <1>4, <2>2, <3>1 DEF TokenLess
      <4>2. CharLess(t.char, v.char, charIsSigned)
        BY <1>1, <4>1, CharOrder
      <4>3. t.char # v.char
        BY <1>1, <4>2, CharOrder
      <4> QED
        BY <3>1, <4>1, <4>2, <4>3 DEF TokenLess
    <3>2. CASE t.kind = 2
      <4>1. u.kind = 2 /\ v.kind = 2 /\ DigitsLess(t.run, u.run) /\ DigitsLess(u.run, v.run)
        BY <1>4, <2>2, <3>2 DEF TokenLess
      <4>2. DigitsLess(t.run, v.run)
        BY <1>1, <4>1, DigitsOrder
      <4> QED
        BY <3>2, <4>1, <4>2 DEF TokenLess
    <3> QED
      BY <1>4, <2>2, <3>1, <3>2 DEF TokenLess
  <2> QED
    BY <2>1, <2>2
<1>5. t = u \/ TokenLess(t, u, charIsSigned) \/ TokenLess(u, t, charIsSigned)
  <2>1. CASE t.kind # u.kind
    BY <1>1, <2>1 DEF TokenLess
  <2>2. CASE t.kind = 0 /\ u.kind = 0
    BY <1>2, <2>2 DEF IsToken
  <2>3. CASE t.kind = 1 /\ u.kind = 1
    <3>1. t.run = u.run
      BY <2>3 DEF IsToken
    <3>2. t.char = u.char \/ CharLess(t.char, u.char, charIsSigned)
          \/ CharLess(u.char, t.char, charIsSigned)
      BY <1>1, CharOrder
    <3> QED
      BY <1>2, <2>3, <3>1, <3>2 DEF TokenLess
  <2>4. CASE t.kind = 2 /\ u.kind = 2
    <3>1. t.char = u.char
      BY <2>4 DEF IsToken
    <3>2. t.run = u.run \/ DigitsLess(t.run, u.run) \/ DigitsLess(u.run, t.run)
      BY <1>1, DigitsOrder
    <3> QED
      BY <1>2, <2>4, <3>1, <3>2 DEF TokenLess
  <2> QED
    BY <1>1, <2>1, <2>2, <2>3, <2>4
<1> QED
  BY <1>3, <1>4, <1>5

-----------------------------------------------------------------------------
(* Two names from a byte on.                                                 *)

\* After a token the name goes on, or is at its end.
LEMMA TokenIs ==
  ASSUME NEW s \in Text, NEW i \in 1..(Len(s) + 1)
  PROVE  /\ IsToken(TokenAt(s, i))
         /\ (TokenAt(s, i).kind = 0) <=> (i = Len(s) + 1)
         /\ i <= Len(s) => After(s, i) \in (i + 1)..(Len(s) + 1)
<1>1. Len(s) \in Nat /\ \A m \in 1..Len(s) : s[m] \in 0..255
  BY TextElements
<1>2. <<48>> \in Runs
  BY DEF Runs, Digit
<1>3. CASE KindAt(s, i) = 0
  <2>1. TokenAt(s, i) = [kind |-> 0, char |-> 0, run |-> <<48>>]
    BY <1>3 DEF TokenAt
  <2>2. i = Len(s) + 1
    BY <1>1, <1>3 DEF KindAt
  <2> QED
    BY <1>1, <1>2, <2>1, <2>2 DEF IsToken, Tokens
<1>4. CASE KindAt(s, i) = 1
  <2>1. TokenAt(s, i) = [kind |-> 1, char |-> s[i], run |-> <<48>>]
    BY <1>4 DEF TokenAt
  <2>2. i \in 1..Len(s) /\ i # Len(s) + 1
    BY <1>1, <1>4 DEF KindAt
  <2>3. After(s, i) = i + 1
    BY <1>4 DEF After
  <2>4. IsToken(TokenAt(s, i))
    BY <1>1, <1>2, <2>1, <2>2 DEF IsToken, Tokens
  <2> QED
    BY <1>1, <2>1, <2>2, <2>3, <2>4
<1>5. CASE KindAt(s, i) = 2
  <2>1. TokenAt(s, i) = [kind |-> 2, char |-> 0, run |-> Run(s, i)]
    BY <1>5 DEF TokenAt
  <2>2. i \in 1..Len(s) /\ i # Len(s) + 1 /\ IsDigit(s[i])
    BY <1>1, <1>5 DEF KindAt
  <2>3. After(s, i) = i + Len(Run(s, i))
    BY <1>5 DEF After
  <2>4. /\ Run(s, i) \in Seq(Digit)
        /\ Len(Run(s, i)) \in Nat \ {0} /\ i + Len(Run(s, i)) <= Len(s) + 1
    BY <2>2, RunIs
  <2>5. Run(s, i) \in Runs
    <3>1. Run(s, i) # <<>>
      BY <2>4, EmptySeq
    <3> QED
      BY <2>4, <3>1 DEF Runs
  <2>6. IsToken(TokenAt(s, i))
    BY <2>1, <2>5 DEF IsToken, Tokens
  <2> HIDE DEF Run
  <2> QED
    BY <1>1, <2>1, <2>2, <2>3, <2>4, <2>6
<1>6. KindAt(s, i) \in 0..2
  BY DEF KindAt
<1> QED
  BY <1>3, <1>4, <1>5, <1>6

\* Equal tokens are equal bytes.
LEMMA TokenBytes ==
  ASSUME NEW s \in Text, NEW t \in Text, NEW i \in 1..Len(s), i <= Len(t) + 1,
         TokenAt(s, i) = TokenAt(t, i)
  PROVE  /\ i <= Len(t)
         /\ After(s, i) = After(t, i)
         /\ \A m \in i..(After(s, i) - 1) : s[m] = t[m]
<1>1. Len(s) \in Nat /\ Len(t) \in Nat
  BY TextElements
<1>2. KindAt(s, i) = KindAt(t, i)
  BY DEF TokenAt
<1>3. KindAt(s, i) # 0 /\ i \in 1..Len(t)
  BY <1>1, <1>2 DEF KindAt
<1>4. CASE KindAt(s, i) = 1
  <2>1. s[i] = t[i]
    BY <1>2, <1>4 DEF TokenAt
  <2>2. After(s, i) = i + 1 /\ After(t, i) = i + 1
    BY <1>2, <1>4 DEF After
  <2>3. \A m \in i..((i + 1) - 1) : m = i
    OBVIOUS
  <2> QED
    BY <1>1, <1>3, <2>1, <2>2, <2>3
<1>5. CASE KindAt(s, i) = 2
  <2>1. Run(s, i) = Run(t, i)
    BY <1>2, <1>5 DEF TokenAt
  <2>2. After(s, i) = i + Len(Run(s, i)) /\ After(t, i) = i + Len(Run(t, i))
    BY <1>2, <1>5 DEF After
  <2>3. IsDigit(s[i]) /\ IsDigit(t[i])
    BY <1>2, <1>5 DEF KindAt
  <2>4. /\ Len(Run(s, i)) \in Nat \ {0}
        /\ \A m \in 1..Len(Run(s, i)) : Run(s, i)[m] = s[i + m - 1]
        /\ \A m \in 1..Len(Run(t, i)) : Run(t, i)[m] = t[i + m - 1]
    BY <1>3, <2>3, RunIs
  <2> DEFINE r == Run(s, i)
  <2>5. /\ Len(r) \in Nat \ {0}
        /\ \A m \in 1..Len(r) : s[i + m - 1] = t[i + m - 1]
    BY <2>1, <2>4
  <2> HIDE DEF r
  <2>6. ASSUME NEW m \in i..((i + Len(r)) - 1)
        PROVE  s[m] = t[m]
    <3>1. m - i + 1 \in 1..Len(r) /\ i + (m - i + 1) - 1 = m
      BY <2>5
    <3> QED
      BY <2>5, <3>1
  <2>7. After(s, i) = i + Len(r) /\ After(t, i) = i + Len(r)
    BY <2>1, <2>2 DEF r
  <2> QED
    BY <1>1, <1>3, <2>6, <2>7
<1>6. KindAt(s, i) \in {1, 2}
  BY <1>3 DEF KindAt
<1> QED
  BY <1>4, <1>5, <1>6

\* What a comparison gives at byte i.
Compares(x, h, a, b, charIsSigned, i) ==
  /\ i > Len(a) \/ i > Len(b) => x = (Len(a) < Len(b))
  /\ ~(i > Len(a) \/ i > Len(b)) =>
       /\ IsDigit(a[i]) /\ IsDigit(b[i]) =>
            x = IF Run(a, i) # Run(b, i) THEN DigitsLess(Run(a, i), Run(b, i))
                ELSE h[i + Len(Run(a, i))]
       /\ IsDigit(a[i]) /\ ~IsDigit(b[i]) => x = FALSE
       /\ ~IsDigit(a[i]) /\ IsDigit(b[i]) => x = TRUE
       /\ ~IsDigit(a[i]) /\ ~IsDigit(b[i]) =>
            x = IF a[i] # b[i] THEN CharLess(a[i], b[i], charIsSigned) ELSE h[i + 1]

LEMMA CompareAtIs ==
  ASSUME NEW a, NEW b, NEW charIsSigned, NEW i, NEW h
  PROVE  Compares(CompareAt(<<a, b, charIsSigned>>, h, i), h, a, b, charIsSigned, i)
<1> DEFINE x == CompareAt(<<a, b, charIsSigned>>, h, i)
           da == Run(a, i)
           db == Run(b, i)
<1>1. x = IF i > Len(a) \/ i > Len(b) THEN Len(a) < Len(b)
          ELSE IF IsDigit(a[i]) /\ IsDigit(b[i])
               THEN IF da # db THEN DigitsLess(da, db) ELSE h[i + Len(da)]
          ELSE IF IsDigit(a[i]) # IsDigit(b[i]) THEN ~IsDigit(a[i])
          ELSE IF a[i] # b[i] THEN CharLess(a[i], b[i], charIsSigned)
          ELSE h[i + 1]
  <2>1. /\ <<a, b, charIsSigned>>[1] = a /\ <<a, b, charIsSigned>>[2] = b
        /\ <<a, b, charIsSigned>>[3] = charIsSigned
    OBVIOUS
  <2> QED
    BY <2>1, Zenon DEF CompareAt, Run
<1> HIDE DEF x, da, db
<1>2. IsDigit(a[i]) \in BOOLEAN /\ IsDigit(b[i]) \in BOOLEAN
  BY DEF IsDigit
<1>3. CASE i > Len(a) \/ i > Len(b)
  BY <1>1, <1>3, Zenon DEF Compares, x, da, db
<1>4. CASE ~(i > Len(a) \/ i > Len(b))
  <2>1. CASE IsDigit(a[i]) /\ IsDigit(b[i])
    BY <1>1, <1>4, <2>1, Zenon DEF Compares, x, da, db
  <2>2. CASE IsDigit(a[i]) /\ ~IsDigit(b[i])
    <3>1. (IsDigit(a[i]) # IsDigit(b[i])) /\ (~IsDigit(a[i])) = FALSE
      BY <1>2, <2>2
    <3>2. x = ~IsDigit(a[i])
      BY <1>1, <1>4, <2>2, <3>1, Zenon
    <3>3. x = FALSE
      BY <3>1, <3>2
    <3> QED
      BY <1>4, <2>2, <3>3, Zenon DEF Compares, x
  <2>3. CASE ~IsDigit(a[i]) /\ IsDigit(b[i])
    <3>1. (IsDigit(a[i]) # IsDigit(b[i])) /\ (~IsDigit(a[i])) = TRUE
      BY <1>2, <2>3
    <3>2. x = ~IsDigit(a[i])
      BY <1>1, <1>4, <2>3, <3>1, Zenon
    <3>3. x = TRUE
      BY <3>1, <3>2
    <3> QED
      BY <1>4, <2>3, <3>3, Zenon DEF Compares, x
  <2>4. CASE ~IsDigit(a[i]) /\ ~IsDigit(b[i])
    <3>1. IsDigit(a[i]) = IsDigit(b[i])
      BY <1>2, <2>4
    <3>2. x = IF a[i] # b[i] THEN CharLess(a[i], b[i], charIsSigned) ELSE h[i + 1]
      BY <1>1, <1>4, <2>4, <3>1, Zenon
    <3> QED
      BY <1>4, <2>4, <3>2, Zenon DEF Compares, x
  <2> QED
    BY <1>2, <2>1, <2>2, <2>3, <2>4
<1> QED
  BY <1>3, <1>4

\* Each place needs later ones only.
LEMMA ComparesLater ==
  ASSUME NEW a \in Text, NEW b \in Text, NEW charIsSigned \in BOOLEAN
  PROVE  Comparing!Later(<<a, b, charIsSigned>>, Len(a) + 1, BOOLEAN)
<1> DEFINE c == <<a, b, charIsSigned>>
           n == Len(a) + 1
<1>1. Len(a) \in Nat /\ Len(b) \in Nat
  BY TextElements
<1> SUFFICES ASSUME NEW f, NEW g, NEW i \in 1..n,
                    \A k \in 1..n : k > i => f[k] \in BOOLEAN /\ g[k] = f[k]
             PROVE  CompareAt(c, f, i) \in BOOLEAN /\ CompareAt(c, g, i) = CompareAt(c, f, i)
  BY DEF Comparing!Later
<1> DEFINE da == Run(a, i)
           db == Run(b, i)
           m == IF i <= Len(a) /\ i <= Len(b) /\ IsDigit(a[i]) /\ IsDigit(b[i])
                THEN i + Len(da) ELSE i + 1
<1>2. m \in 1..n /\ m > i => f[m] \in BOOLEAN /\ g[m] = f[m]
  OBVIOUS
<1>3. i <= Len(a) => m \in 1..n /\ m > i
  <2>1. CASE i <= Len(a) /\ IsDigit(a[i])
    <3>1. Len(da) \in Nat \ {0} /\ i + Len(da) <= Len(a) + 1
      BY <1>1, <2>1, RunIs
    <3> HIDE DEF da
    <3> QED
      BY <1>1, <2>1, <3>1
  <2>2. CASE ~(i <= Len(a) /\ IsDigit(a[i]))
    BY <1>1, <2>2
  <2> QED
    BY <2>1, <2>2
<1> HIDE DEF m
<1>4. \A p, q : (p < q) \in BOOLEAN
  OBVIOUS
<1>5. DigitsLess(da, db) \in BOOLEAN
  <2> HIDE DEF da, db
  <2>1. \A p, q : (\E k \in 1..Len(p) : p[k] < q[k] /\ \A j \in 1..(k - 1) : p[j] = q[j]) \in BOOLEAN
    OBVIOUS
  <2> QED
    BY <1>4, <2>1, Zenon DEF DigitsLess
<1>6. CharLess(a[i], b[i], charIsSigned) \in BOOLEAN
  BY <1>4 DEF CharLess
<1>7. \A h : Compares(CompareAt(c, h, i), h, a, b, charIsSigned, i)
  BY CompareAtIs
<1> HIDE DEF c
<1>8. CASE i > Len(a) \/ i > Len(b)
  BY <1>4, <1>7, <1>8, Zenon DEF Compares
<1>9. CASE ~(i > Len(a) \/ i > Len(b))
  <2>1. i <= Len(a) /\ i <= Len(b)
    BY <1>1, <1>9
  <2>2. f[m] \in BOOLEAN /\ g[m] = f[m]
    BY <1>2, <1>3, <2>1
  <2>3. CASE IsDigit(a[i]) /\ IsDigit(b[i])
    <3>1. m = i + Len(da)
      BY <2>1, <2>3 DEF m
    <3> QED
      BY <1>5, <1>7, <1>9, <2>2, <2>3, <3>1, Zenon DEF Compares
  <2>4. CASE (IsDigit(a[i]) /\ ~IsDigit(b[i])) \/ (~IsDigit(a[i]) /\ IsDigit(b[i]))
    BY <1>7, <1>9, <2>4, Zenon DEF Compares
  <2>5. CASE ~IsDigit(a[i]) /\ ~IsDigit(b[i])
    <3>1. m = i + 1
      BY <2>5 DEF m
    <3> QED
      BY <1>6, <1>7, <1>9, <2>2, <2>5, <3>1, Zenon DEF Compares
  <2> QED
    BY <2>3, <2>4, <2>5
<1> QED
  BY <1>8, <1>9

Compared(c) == CHOOSE f : f = [i \in 1..(Len(c[1]) + 1) |-> CompareAt(c, f, i)]

\* a is less than b when both are equal before byte i.
LessFrom(a, b, charIsSigned, i) == Compared(<<a, b, charIsSigned>>)[i]

LEMMA ComparedIs ==
  ASSUME NEW a \in Text, NEW b \in Text, NEW charIsSigned \in BOOLEAN
  PROVE  /\ NaturalLess(a, b, charIsSigned) <=> LessFrom(a, b, charIsSigned, 1)
         /\ \A i \in 1..(Len(a) + 1) :
              LessFrom(a, b, charIsSigned, i)
                = CompareAt(<<a, b, charIsSigned>>, Compared(<<a, b, charIsSigned>>), i)
<1> DEFINE n == Len(a) + 1
           f == Compared(<<a, b, charIsSigned>>)
<1>1. f = [i \in 1..n |-> CompareAt(<<a, b, charIsSigned>>, f, i)]
  <2>1. n \in Nat /\ TRUE \in BOOLEAN /\ Comparing!Later(<<a, b, charIsSigned>>, n, BOOLEAN)
    BY TextElements, ComparesLater
  <2>2. \E h \in [1..n -> BOOLEAN] : h = [i \in 1..n |-> CompareAt(<<a, b, charIsSigned>>, h, i)]
    <3> HIDE DEF n
    <3> QED
      BY <2>1, Comparing!LaterExists
  <2> QED
    BY <2>2 DEF Compared
<1>2. NaturalLess(a, b, charIsSigned) = LessFrom(a, b, charIsSigned, 1)
  <2>1. \A c : NaturalLess(c[1], c[2], c[3]) = Compared(c)[1]
    BY DEF NaturalLess, Compared, CompareAt
  <2> DEFINE c == <<a, b, charIsSigned>>
  <2>2. c[1] = a /\ c[2] = b /\ c[3] = charIsSigned
    OBVIOUS
  <2>3. NaturalLess(c[1], c[2], c[3]) = Compared(c)[1]
    BY <2>1
  <2> HIDE DEF c
  <2> QED
    BY <2>2, <2>3 DEF LessFrom, c
<1> HIDE DEF f
<1>3. \A i \in 1..n : f[i] = CompareAt(<<a, b, charIsSigned>>, f, i)
  BY <1>1
<1> QED
  BY <1>2, <1>3 DEF LessFrom, f

\* The first token tells, or what comes after it.
LEMMA LessFromIs ==
  ASSUME NEW a \in Text, NEW b \in Text, NEW charIsSigned \in BOOLEAN,
         NEW i \in 1..(Len(a) + 1), i <= Len(b) + 1
  PROVE  LessFrom(a, b, charIsSigned, i) <=>
           \/ TokenLess(TokenAt(a, i), TokenAt(b, i), charIsSigned)
           \/ /\ TokenAt(a, i) = TokenAt(b, i)
              /\ i <= Len(a)
              /\ LessFrom(a, b, charIsSigned, After(a, i))
<1> DEFINE t == TokenAt(a, i)
           u == TokenAt(b, i)
           f == Compared(<<a, b, charIsSigned>>)
           da == Run(a, i)
           db == Run(b, i)
<1>1. Len(a) \in Nat /\ Len(b) \in Nat /\ i \in Nat
  BY TextElements
<1>2. IsToken(t) /\ IsToken(u)
  BY <1>1, TokenIs
<1>3. Compares(f[i], f, a, b, charIsSigned, i)
  <2>1. f[i] = CompareAt(<<a, b, charIsSigned>>, f, i)
    BY ComparedIs DEF LessFrom
  <2> HIDE DEF f
  <2> QED
    BY <2>1, CompareAtIs
<1>4. t = u => ~TokenLess(t, u, charIsSigned)
  BY <1>2, TokenOrder
<1>5. /\ t.kind = KindAt(a, i) /\ u.kind = KindAt(b, i)
      /\ t.char = (IF KindAt(a, i) = 1 THEN a[i] ELSE 0)
      /\ u.char = (IF KindAt(b, i) = 1 THEN b[i] ELSE 0)
      /\ t.run = (IF KindAt(a, i) = 2 THEN da ELSE <<48>>)
      /\ u.run = (IF KindAt(b, i) = 2 THEN db ELSE <<48>>)
      /\ t = u <=> t.kind = u.kind /\ t.char = u.char /\ t.run = u.run
  <2>1. /\ t.kind = KindAt(a, i) /\ u.kind = KindAt(b, i)
        /\ t.char = (IF KindAt(a, i) = 1 THEN a[i] ELSE 0)
        /\ u.char = (IF KindAt(b, i) = 1 THEN b[i] ELSE 0)
        /\ t.run = (IF KindAt(a, i) = 2 THEN da ELSE <<48>>)
        /\ u.run = (IF KindAt(b, i) = 2 THEN db ELSE <<48>>)
    BY DEF TokenAt
  <2>2. t = u <=> t.kind = u.kind /\ t.char = u.char /\ t.run = u.run
    BY <1>2 DEF IsToken, Tokens
  <2> QED
    BY <2>1, <2>2
<1>6. /\ KindAt(a, i) = IF i > Len(a) THEN 0 ELSE IF IsDigit(a[i]) THEN 2 ELSE 1
      /\ KindAt(b, i) = IF i > Len(b) THEN 0 ELSE IF IsDigit(b[i]) THEN 2 ELSE 1
      /\ After(a, i) = IF KindAt(a, i) = 2 THEN i + Len(da) ELSE i + 1
  BY DEF KindAt, After
<1> HIDE DEF t, u, f, da, db
<1>7. TokenLess(t, u, charIsSigned) <=>
        \/ t.kind < u.kind
        \/ t.kind = 1 /\ u.kind = 1 /\ t.char # u.char /\ CharLess(t.char, u.char, charIsSigned)
        \/ t.kind = 2 /\ u.kind = 2 /\ DigitsLess(t.run, u.run)
  BY DEF TokenLess
<1>8. f[i] <=> \/ TokenLess(t, u, charIsSigned)
               \/ t = u /\ i <= Len(a) /\ f[After(a, i)]
  <2>1. CASE i > Len(a) \/ i > Len(b)
    <3>1. f[i] = (Len(a) < Len(b))
      BY <1>3, <2>1, Zenon DEF Compares
    <3>2. /\ i > Len(a) => t.kind = 0
          /\ i <= Len(a) => t.kind # 0 /\ t.kind \in Nat
          /\ i > Len(b) => u.kind = 0
          /\ i <= Len(b) => u.kind \in {1, 2}
      BY <1>1, <1>5, <1>6
    <3>3. TokenLess(t, u, charIsSigned) <=> Len(a) < Len(b)
      BY <1>1, <1>7, <2>1, <3>2
    <3>4. t = u => ~(i <= Len(a))
      BY <1>1, <1>5, <2>1, <3>2
    <3> QED
      BY <3>1, <3>3, <3>4, Zenon
  <2>2. CASE ~(i > Len(a) \/ i > Len(b))
    <3>1. i <= Len(a) /\ i <= Len(b)
      BY <1>1, <2>2
    <3>2. t.kind = (IF IsDigit(a[i]) THEN 2 ELSE 1) /\ u.kind = (IF IsDigit(b[i]) THEN 2 ELSE 1)
      BY <1>5, <1>6, <2>2
    <3>3. CASE IsDigit(a[i]) /\ IsDigit(b[i])
      <4>1. f[i] = IF da # db THEN DigitsLess(da, db) ELSE f[i + Len(da)]
        BY <1>3, <2>2, <3>3, Zenon DEF Compares, da, db
      <4>2. t.kind = 2 /\ u.kind = 2 /\ t.run = da /\ u.run = db
            /\ t.char = u.char /\ After(a, i) = i + Len(da)
        BY <1>5, <1>6, <3>2, <3>3
      <4>3. (t = u <=> da = db) /\ (TokenLess(t, u, charIsSigned) <=> DigitsLess(da, db))
        BY <1>5, <1>7, <4>2
      <4> QED
        BY <1>4, <3>1, <4>1, <4>2, <4>3, Zenon
    <3>4. CASE IsDigit(a[i]) /\ ~IsDigit(b[i])
      <4>1. f[i] = FALSE
        BY <1>3, <2>2, <3>4, Zenon DEF Compares
      <4>2. t.kind = 2 /\ u.kind = 1
        BY <3>2, <3>4
      <4>3. t # u /\ ~TokenLess(t, u, charIsSigned)
        BY <1>7, <4>2
      <4> QED
        BY <4>1, <4>3, Zenon
    <3>6. CASE ~IsDigit(a[i]) /\ IsDigit(b[i])
      <4>1. f[i] = TRUE
        BY <1>3, <2>2, <3>6, Zenon DEF Compares
      <4>2. t.kind = 1 /\ u.kind = 2
        BY <3>2, <3>6
      <4>3. TokenLess(t, u, charIsSigned)
        BY <1>7, <4>2
      <4> QED
        BY <4>1, <4>3, Zenon
    <3>5. CASE ~IsDigit(a[i]) /\ ~IsDigit(b[i])
      <4>1. f[i] = IF a[i] # b[i] THEN CharLess(a[i], b[i], charIsSigned) ELSE f[i + 1]
        BY <1>3, <2>2, <3>5, Zenon DEF Compares
      <4>2. t.kind = 1 /\ u.kind = 1 /\ t.char = a[i] /\ u.char = b[i]
            /\ t.run = u.run /\ After(a, i) = i + 1
        BY <1>5, <1>6, <3>2, <3>5
      <4>3. /\ t = u <=> a[i] = b[i]
            /\ TokenLess(t, u, charIsSigned) <=> a[i] # b[i] /\ CharLess(a[i], b[i], charIsSigned)
        BY <1>5, <1>7, <4>2
      <4> QED
        BY <3>1, <4>1, <4>2, <4>3, Zenon
    <3> QED
      BY <3>3, <3>4, <3>5, <3>6
  <2> QED
    BY <2>1, <2>2
<1> QED
  BY <1>8 DEF LessFrom, t, u, f

\* a and b are the same from byte i on.
SameFrom(a, b, i) == Len(a) = Len(b) /\ \A m \in i..Len(a) : a[m] = b[m]

\* Names from byte i on have one order.
OrderedFrom(a, b, c, charIsSigned, i) ==
  /\ ~LessFrom(a, a, charIsSigned, i)
  /\ LessFrom(a, b, charIsSigned, i) /\ LessFrom(b, c, charIsSigned, i)
       => LessFrom(a, c, charIsSigned, i)
  /\ SameFrom(a, b, i) \/ LessFrom(a, b, charIsSigned, i) \/ LessFrom(b, a, charIsSigned, i)

\* A byte of each of them, or its end.
IsPlace(a, b, c, i) == i \in 1..(Len(a) + 1) /\ i <= Len(b) + 1 /\ i <= Len(c) + 1

LEMMA OrderStep ==
  ASSUME NEW a \in Text, NEW b \in Text, NEW c \in Text, NEW charIsSigned \in BOOLEAN,
         NEW i, IsPlace(a, b, c, i),
         i <= Len(a) /\ IsPlace(a, b, c, After(a, i))
           => OrderedFrom(a, b, c, charIsSigned, After(a, i)),
         i <= Len(a) /\ IsPlace(a, b, b, After(a, i))
           => OrderedFrom(a, b, b, charIsSigned, After(a, i)),
         i <= Len(a) => OrderedFrom(a, a, a, charIsSigned, After(a, i))
  PROVE  OrderedFrom(a, b, c, charIsSigned, i)
<1> DEFINE t == TokenAt(a, i)
           u == TokenAt(b, i)
           v == TokenAt(c, i)
           next == After(a, i)
           Less(p, q, m) == LessFrom(p, q, charIsSigned, m)
<1>1. /\ Len(a) \in Nat /\ Len(b) \in Nat /\ Len(c) \in Nat /\ i \in Nat
      /\ i \in 1..(Len(a) + 1) /\ i \in 1..(Len(b) + 1) /\ i \in 1..(Len(c) + 1)
      /\ i <= Len(a) + 1 /\ i <= Len(b) + 1 /\ i <= Len(c) + 1
  BY TextElements DEF IsPlace
<1>2. /\ IsToken(t) /\ IsToken(u) /\ IsToken(v)
      /\ (t.kind = 0 <=> i = Len(a) + 1) /\ (u.kind = 0 <=> i = Len(b) + 1)
      /\ i <= Len(a) => next \in (i + 1)..(Len(a) + 1)
  BY <1>1, TokenIs
<1>3. i <= Len(a) /\ t = u =>
        /\ i <= Len(b) /\ After(b, i) = next /\ next \in (i + 1)..(Len(b) + 1)
        /\ \A m \in i..(next - 1) : a[m] = b[m]
  <2> SUFFICES ASSUME i <= Len(a), t = u
               PROVE  /\ i <= Len(b) /\ After(b, i) = next /\ next \in (i + 1)..(Len(b) + 1)
                      /\ \A m \in i..(next - 1) : a[m] = b[m]
    OBVIOUS
  <2>1. i \in 1..Len(a)
    BY <1>1
  <2>2. /\ i <= Len(b) /\ next = After(b, i)
        /\ \A m \in i..(next - 1) : a[m] = b[m]
    BY <1>1, <2>1, TokenBytes
  <2>3. After(b, i) \in (i + 1)..(Len(b) + 1)
    BY <1>1, <2>2, TokenIs
  <2> QED
    BY <2>2, <2>3
<1>4. i <= Len(a) /\ t = v => next \in (i + 1)..(Len(c) + 1)
  <2> SUFFICES ASSUME i <= Len(a), t = v PROVE next \in (i + 1)..(Len(c) + 1)
    OBVIOUS
  <2>1. i \in 1..Len(a)
    BY <1>1
  <2>2. i <= Len(c) /\ next = After(c, i)
    BY <1>1, <2>1, TokenBytes
  <2>3. After(c, i) \in (i + 1)..(Len(c) + 1)
    BY <1>1, <2>2, TokenIs
  <2> QED
    BY <2>2, <2>3
<1>5. /\ Less(a, a, i) <=> TokenLess(t, t, charIsSigned) \/ (i <= Len(a) /\ Less(a, a, next))
      /\ Less(a, b, i) <=> TokenLess(t, u, charIsSigned) \/ (t = u /\ i <= Len(a) /\ Less(a, b, next))
      /\ Less(b, a, i) <=> TokenLess(u, t, charIsSigned)
                             \/ (u = t /\ i <= Len(b) /\ Less(b, a, After(b, i)))
      /\ Less(b, c, i) <=> TokenLess(u, v, charIsSigned)
                             \/ (u = v /\ i <= Len(b) /\ Less(b, c, After(b, i)))
      /\ Less(a, c, i) <=> TokenLess(t, v, charIsSigned) \/ (t = v /\ i <= Len(a) /\ Less(a, c, next))
  BY <1>1, LessFromIs
<1> HIDE DEF t, u, v, next, Less
<1>6. ~Less(a, a, i)
  <2>1. ~TokenLess(t, t, charIsSigned)
    BY <1>2, TokenOrder
  <2>2. i <= Len(a) => ~Less(a, a, next)
    BY DEF OrderedFrom, Less, next
  <2> QED
    BY <1>5, <2>1, <2>2
<1>7. ASSUME Less(a, b, i), Less(b, c, i)
      PROVE  Less(a, c, i)
  <2>1. TokenLess(t, u, charIsSigned) /\ TokenLess(u, v, charIsSigned)
          => TokenLess(t, v, charIsSigned)
    BY <1>2, TokenOrder
  <2>2. CASE TokenLess(t, u, charIsSigned) \/ TokenLess(u, v, charIsSigned)
    BY <1>5, <1>7, <2>1, <2>2
  <2>3. CASE ~(TokenLess(t, u, charIsSigned) \/ TokenLess(u, v, charIsSigned))
    <3>1. t = u /\ u = v /\ i <= Len(a) /\ Less(a, b, next) /\ Less(b, c, After(b, i))
      BY <1>5, <1>7, <2>3
    <3>2. After(b, i) = next /\ IsPlace(a, b, c, next)
      BY <1>1, <1>2, <1>3, <1>4, <3>1 DEF IsPlace
    <3>3. Less(a, c, next)
      BY <3>1, <3>2 DEF OrderedFrom, Less, next
    <3> QED
      BY <1>5, <3>1, <3>3
  <2> QED
    BY <2>2, <2>3
<1>8. SameFrom(a, b, i) \/ Less(a, b, i) \/ Less(b, a, i)
  <2>1. t = u \/ TokenLess(t, u, charIsSigned) \/ TokenLess(u, t, charIsSigned)
    BY <1>2, TokenOrder
  <2>2. CASE t # u
    BY <1>5, <2>1, <2>2
  <2>3. CASE t = u /\ i = Len(a) + 1
    <3>1. i = Len(b) + 1
      BY <1>2, <2>3
    <3>2. Len(a) = Len(b) /\ \A m \in i..Len(a) : a[m] = b[m]
      BY <1>1, <2>3, <3>1
    <3> QED
      BY <3>2 DEF SameFrom
  <2>4. CASE t = u /\ i <= Len(a)
    <3>1. /\ After(b, i) = next /\ i <= Len(b) /\ IsPlace(a, b, b, next)
          /\ \A m \in i..(next - 1) : a[m] = b[m]
      BY <1>1, <1>2, <1>3, <2>4 DEF IsPlace
    <3>2. SameFrom(a, b, next) \/ Less(a, b, next) \/ Less(b, a, next)
      BY <2>4, <3>1 DEF OrderedFrom, Less, next
    <3>3. CASE SameFrom(a, b, next)
      <4>1. Len(a) = Len(b) /\ \A m \in next..Len(a) : a[m] = b[m]
        BY <3>3 DEF SameFrom
      <4>2. \A m \in i..Len(a) : m \in i..(next - 1) \/ m \in next..Len(a)
        BY <1>1, <1>2, <2>4
      <4>3. SameFrom(a, b, i)
        BY <3>1, <4>1, <4>2 DEF SameFrom
      <4> QED
        BY <4>3
    <3> QED
      BY <1>5, <2>4, <3>1, <3>2, <3>3
  <2> QED
    BY <1>1, <2>2, <2>3, <2>4
<1> QED
  BY <1>6, <1>7, <1>8 DEF OrderedFrom, Less

LEMMA OrderFrom ==
  ASSUME NEW a \in Text, NEW charIsSigned \in BOOLEAN
  PROVE  \A b \in Text : \A c \in Text : \A i :
           IsPlace(a, b, c, i) => OrderedFrom(a, b, c, charIsSigned, i)
<1> DEFINE n == Len(a) + 1
           S == {k \in Nat : \A b \in Text : \A c \in Text : \A i :
                   IsPlace(a, b, c, i) /\ n - i < k => OrderedFrom(a, b, c, charIsSigned, i)}
<1>1. n \in Nat /\ Len(a) \in Nat
  BY TextElements
<1>2. 0 \in S
  <2>1. \A b, c, i : IsPlace(a, b, c, i) => ~(n - i < 0)
    BY <1>1 DEF IsPlace
  <2> QED
    BY <2>1
<1>3. ASSUME NEW k \in Nat, k \in S
      PROVE  k + 1 \in S
  <2> SUFFICES ASSUME NEW b \in Text, NEW c \in Text, NEW i, IsPlace(a, b, c, i), n - i < k + 1
               PROVE  OrderedFrom(a, b, c, charIsSigned, i)
    OBVIOUS
  <2>1. i \in 1..n /\ Len(b) \in Nat
    BY TextElements DEF IsPlace
  <2>2. i <= Len(a) => After(a, i) \in (i + 1)..n
    BY <2>1, TokenIs
  <2>3. i <= Len(a) => n - After(a, i) < k
    <3> DEFINE next == After(a, i)
    <3> HIDE DEF n, next
    <3>1. next \in (i + 1)..n => n - next < k
      BY <1>1, <2>1
    <3> QED
      BY <2>2, <3>1 DEF n, next
  <2>4. i <= Len(a) => IsPlace(a, a, a, After(a, i))
    BY <1>1, <2>1, <2>2 DEF IsPlace
  <2>5. \A p \in Text : \A q \in Text : \A m :
          IsPlace(a, p, q, m) /\ n - m < k => OrderedFrom(a, p, q, charIsSigned, m)
    BY <1>3
  <2> HIDE DEF S, n
  <2> QED
    BY <2>3, <2>4, <2>5, OrderStep
<1>4. Nat \subseteq S
  <2> HIDE DEF S
  <2> QED
    BY <1>2, <1>3, AllNats
<1> SUFFICES ASSUME NEW b \in Text, NEW c \in Text, NEW i, IsPlace(a, b, c, i)
             PROVE  OrderedFrom(a, b, c, charIsSigned, i)
  OBVIOUS
<1>5. i \in 1..n /\ n - i < n + 1 /\ n + 1 \in Nat
  BY <1>1 DEF IsPlace
<1>6. n + 1 \in S
  BY <1>4, <1>5
<1> HIDE DEF n
<1> QED
  BY <1>5, <1>6

\* Whether char is signed or not, names have one order: none is before itself,
\* what is before a name that is before another is before that, and of two
\* different names one is before the other (NaturalLess, naturalsort.cpp).
THEOREM NaturalLessIsTotal ==
  ASSUME NEW a \in Seq(Byte), NEW b \in Seq(Byte), NEW c \in Seq(Byte),
         NEW charIsSigned \in BOOLEAN
  PROVE  /\ ~NaturalLess(a, a, charIsSigned)
         /\ NaturalLess(a, b, charIsSigned) /\ NaturalLess(b, c, charIsSigned)
              => NaturalLess(a, c, charIsSigned)
         /\ a # b => \/ NaturalLess(a, b, charIsSigned)
                     \/ NaturalLess(b, a, charIsSigned)
<1>1. a \in Text /\ b \in Text /\ c \in Text
  BY DEF Text, Byte
<1>2. Len(a) \in Nat /\ Len(b) \in Nat /\ Len(c) \in Nat
  BY <1>1, TextElements
<1>3. OrderedFrom(a, b, c, charIsSigned, 1)
  <2>1. IsPlace(a, b, c, 1)
    BY <1>2 DEF IsPlace
  <2> QED
    BY <1>1, <2>1, OrderFrom
<1>4. SameFrom(a, b, 1) => a = b
  BY SeqEqual DEF SameFrom
<1>5. /\ NaturalLess(a, a, charIsSigned) <=> LessFrom(a, a, charIsSigned, 1)
      /\ NaturalLess(a, b, charIsSigned) <=> LessFrom(a, b, charIsSigned, 1)
      /\ NaturalLess(b, a, charIsSigned) <=> LessFrom(b, a, charIsSigned, 1)
      /\ NaturalLess(b, c, charIsSigned) <=> LessFrom(b, c, charIsSigned, 1)
      /\ NaturalLess(a, c, charIsSigned) <=> LessFrom(a, c, charIsSigned, 1)
  BY <1>1, ComparedIs
<1> QED
  BY <1>3, <1>4, <1>5 DEF OrderedFrom

\* So any names have ranks in it, which compare as the names do.
THEOREM NamesHaveRanks ==
  ASSUME NEW T \in SUBSET Seq(Byte), IsFiniteSet(T), NEW charIsSigned \in BOOLEAN
  PROVE  \E rank \in [T -> Nat] :
           \A a, b \in T : /\ rank[a] = rank[b] => a = b
                          /\ NaturalLess(a, b, charIsSigned) <=> rank[a] < rank[b]
<1> DEFINE Before(a) == {m \in T : NaturalLess(m, a, charIsSigned)}
           rank == [a \in T |-> Cardinality(Before(a))]
<1>1. \A a \in T : Before(a) \in SUBSET T /\ IsFiniteSet(Before(a)) /\ rank[a] \in Nat
  <2> SUFFICES ASSUME NEW a \in T
               PROVE  Before(a) \in SUBSET T /\ IsFiniteSet(Before(a)) /\ rank[a] \in Nat
    OBVIOUS
  <2>1. Before(a) \in SUBSET T /\ rank[a] = Cardinality(Before(a))
    OBVIOUS
  <2> HIDE DEF Before, rank
  <2>2. IsFiniteSet(Before(a))
    BY <2>1, FS_Subset
  <2> QED
    BY <2>1, <2>2, FS_CardinalityType
<1>2. ASSUME NEW a \in T, NEW b \in T, NaturalLess(a, b, charIsSigned)
      PROVE  rank[a] < rank[b]
  <2>1. Before(a) \in SUBSET Before(b)
    <3> SUFFICES ASSUME NEW m \in T, NaturalLess(m, a, charIsSigned)
                 PROVE  NaturalLess(m, b, charIsSigned)
      OBVIOUS
    <3>1. m \in Seq(Byte) /\ a \in Seq(Byte) /\ b \in Seq(Byte)
      OBVIOUS
    <3> QED
      BY <1>2, <3>1, NaturalLessIsTotal
  <2>2. Before(a) # Before(b)
    <3>1. a \in Before(b)
      BY <1>2
    <3>2. ~NaturalLess(a, a, charIsSigned)
      BY NaturalLessIsTotal
    <3> QED
      BY <3>1, <3>2
  <2>3. rank[a] = Cardinality(Before(a)) /\ rank[b] = Cardinality(Before(b))
    OBVIOUS
  <2> HIDE DEF Before, rank
  <2>4. /\ Cardinality(Before(a)) <= Cardinality(Before(b))
        /\ Cardinality(Before(b)) # Cardinality(Before(a))
    BY <1>1, <2>1, <2>2, FS_Subset
  <2> QED
    BY <1>1, <2>3, <2>4
<1>3. \A a, b \in T : a # b => NaturalLess(a, b, charIsSigned) \/ NaturalLess(b, a, charIsSigned)
  BY NaturalLessIsTotal
<1> HIDE DEF rank, Before
<1>4. \A a, b \in T : /\ rank[a] = rank[b] => a = b
                     /\ NaturalLess(a, b, charIsSigned) <=> rank[a] < rank[b]
  <2> SUFFICES ASSUME NEW a \in T, NEW b \in T
               PROVE  /\ rank[a] = rank[b] => a = b
                      /\ NaturalLess(a, b, charIsSigned) <=> rank[a] < rank[b]
    OBVIOUS
  <2>1. rank[a] \in Nat /\ rank[b] \in Nat
    BY <1>1
  <2>2. ~(rank[a] < rank[a])
    BY <2>1
  <2>3. rank[a] < rank[b] => ~(rank[b] < rank[a])
    BY <2>1
  <2>4. rank[a] = rank[b] => a = b
    BY <1>2, <1>3, <2>2
  <2>5. rank[a] < rank[b] => NaturalLess(a, b, charIsSigned)
    <3>1. rank[a] < rank[b] => a # b
      BY <2>2
    <3> QED
      BY <1>2, <1>3, <2>3, <3>1
  <2> QED
    BY <1>2, <2>4, <2>5
<1>5. rank \in [T -> Nat]
  BY <1>1 DEF rank
<1> QED
  BY <1>4, <1>5

-----------------------------------------------------------------------------
(* UTF-8.                                                                    *)

\* A code point and the bytes it was read from.
RuneType == [cp : Nat, bytes : Text \ {<<>>}]

LEMMA BytesAreNumbers ==
  ASSUME NEW x, x \in 0..255
  PROVE  x \in Nat
OBVIOUS

\* Some bytes of a string.
LEMMA SubText ==
  ASSUME NEW s \in Text, NEW i \in 1..Len(s), NEW n \in Nat, i + n <= Len(s) + 1
  PROVE  /\ SubSeq(s, i, i + n - 1) \in Text
         /\ Len(SubSeq(s, i, i + n - 1)) = n
         /\ \A k \in 1..n : SubSeq(s, i, i + n - 1)[k] = s[i + k - 1]
<1>1. Len(s) \in Nat /\ \A k \in 1..Len(s) : s[k] \in Byte
  BY TextElements DEF Byte
<1>2. /\ i \in Int /\ i + n - 1 \in Int
      /\ \A k \in i..(i + n - 1) : s[k] \in Byte
      /\ (i + n - 1) - i + 1 = n
      /\ (i <= i + n - 1) <=> n # 0
  BY <1>1
<1>3. /\ SubSeq(s, i, i + n - 1) \in Seq(Byte)
      /\ Len(SubSeq(s, i, i + n - 1)) = IF i <= i + n - 1 THEN (i + n - 1) - i + 1 ELSE 0
      /\ \A k \in 1..((i + n - 1) - i + 1) : SubSeq(s, i, i + n - 1)[k] = s[i + k - 1]
  BY ONLY <1>2, SubSeqProperties
<1> QED
  BY <1>2, <1>3 DEF Text

\* Some bytes are read at i, and no more than there are.
LEMMA RuneIs ==
  ASSUME NEW s \in Text, NEW i \in 1..Len(s)
  PROVE  \E cp \in Nat, n \in 1..4 :
           /\ i + n <= Len(s) + 1
           /\ Rune(s, i) = [cp |-> cp, bytes |-> SubSeq(s, i, i + n - 1)]
<1>1. Len(s) \in Nat /\ \A k \in 1..Len(s) : s[k] \in 0..255
  BY TextElements
<1> DEFINE Tails(n) == i + n <= Len(s) /\ \A k \in 1..n : IsTail(s[i + k])
           two == OfTwo(s[i], s[i + 1])
           three == OfThree(s[i], s[i + 1], s[i + 2])
           four == OfFour(s[i], s[i + 1], s[i + 2], s[i + 3])
           rune(cp, len) == [cp |-> cp, bytes |-> SubSeq(s, i, i + len - 1)]
<1>2. Rune(s, i) =
        IF s[i] < 128 THEN rune(s[i], 1)
        ELSE IF Tails(1) /\ IsTwo(s[i], two) THEN rune(two, 2)
        ELSE IF Tails(2) /\ IsThree(s[i], three) THEN rune(three, 3)
        ELSE IF Tails(3) /\ IsFour(s[i], four) THEN rune(four, 4)
        ELSE rune(Replacement, 1)
  BY DEF Rune
<1>3. s[i] \in Nat /\ i + 1 <= Len(s) + 1
  <2>1. s[i] \in 0..255
    BY <1>1
  <2>2. i + 1 <= Len(s) + 1
    BY <1>1
  <2> QED
    BY <2>1, <2>2, BytesAreNumbers
<1>4. \A n \in 1..3 : Tails(n) =>
        /\ i + n + 1 <= Len(s) + 1
        /\ \A k \in 1..n : s[i + k] \in Nat
  <2> SUFFICES ASSUME NEW n \in 1..3, Tails(n)
               PROVE  /\ i + n + 1 <= Len(s) + 1
                      /\ \A k \in 1..n : s[i + k] \in Nat
    OBVIOUS
  <2>1. i + n + 1 <= Len(s) + 1
    BY <1>1
  <2>2. \A k \in 1..n : s[i + k] \in 0..255
    BY <1>1
  <2> QED
    BY <2>1, <2>2, BytesAreNumbers
<1>5. Tails(1) => two \in Nat /\ i + 2 <= Len(s) + 1
  <2>1. Tails(1) => s[i + 1] \in Nat /\ i + 2 <= Len(s) + 1
    BY <1>1, <1>4
  <2>2. \A a, b \in Nat : OfTwo(a, b) \in Nat
    BY DEF OfTwo
  <2> QED
    BY <1>3, <2>1, <2>2
<1>6. Tails(2) => three \in Nat /\ i + 3 <= Len(s) + 1
  <2>1. Tails(2) => s[i + 1] \in Nat /\ s[i + 2] \in Nat /\ i + 3 <= Len(s) + 1
    BY <1>1, <1>4
  <2>2. \A a, b, c \in Nat : OfThree(a, b, c) \in Nat
    BY DEF OfThree
  <2> QED
    BY <1>3, <2>1, <2>2
<1>7. Tails(3) => four \in Nat /\ i + 4 <= Len(s) + 1
  <2>1. Tails(3) => s[i + 1] \in Nat /\ s[i + 2] \in Nat /\ s[i + 3] \in Nat /\ i + 4 <= Len(s) + 1
    BY <1>1, <1>4
  <2>2. \A a, b, c, d \in Nat : OfFour(a, b, c, d) \in Nat
    BY DEF OfFour
  <2> QED
    BY <1>3, <2>1, <2>2
<1>9. Replacement \in Nat
  BY DEF Replacement
<1> DEFINE Is(cp, n) == i + n <= Len(s) + 1 /\ Rune(s, i) = rune(cp, n)
<1> HIDE DEF two, three, four, Tails, rune
<1>10. \/ Is(s[i], 1)
       \/ Is(two, 2) /\ two \in Nat
       \/ Is(three, 3) /\ three \in Nat
       \/ Is(four, 4) /\ four \in Nat
       \/ Is(Replacement, 1)
  BY <1>2, <1>3, <1>5, <1>6, <1>7
<1>11. \E cp \in Nat, n \in 1..4 : Is(cp, n)
  <2> HIDE DEF Is
  <2> QED
    BY <1>3, <1>9, <1>10
<1> QED
  BY <1>11 DEF rune

\* What is read at i is a character: its bytes are there.
LEMMA RuneTyped ==
  ASSUME NEW s \in Text, NEW i \in 1..Len(s)
  PROVE  /\ Rune(s, i) \in RuneType
         /\ Len(Rune(s, i).bytes) \in Nat \ {0}
         /\ i + Len(Rune(s, i).bytes) <= Len(s) + 1
         /\ Rune(s, i).bytes = SubSeq(s, i, i + Len(Rune(s, i).bytes) - 1)
<1>1. PICK cp \in Nat, n \in 1..4 :
        /\ i + n <= Len(s) + 1
        /\ Rune(s, i) = [cp |-> cp, bytes |-> SubSeq(s, i, i + n - 1)]
  BY RuneIs
<1>2. /\ SubSeq(s, i, i + n - 1) \in Text
      /\ Len(SubSeq(s, i, i + n - 1)) = n
  BY <1>1, SubText
<1>3. SubSeq(s, i, i + n - 1) # <<>>
  BY <1>2, EmptySeq
<1> DEFINE u == SubSeq(s, i, i + n - 1)
<1>4. Rune(s, i) = [cp |-> cp, bytes |-> u] /\ u = SubSeq(s, i, i + n - 1)
      /\ u \in Text /\ u # <<>> /\ Len(u) = n
  BY <1>1, <1>2, <1>3
<1> HIDE DEF u
<1>5. Rune(s, i).bytes = u
  BY <1>4
<1>6. Rune(s, i) \in RuneType
  BY <1>4 DEF RuneType
<1> QED
  BY <1>1, <1>4, <1>5, <1>6

Tails(s, i, n) == i + n <= Len(s) /\ \A k \in 1..n : IsTail(s[i + k])

\* What is read at i, of which the first bytes tell how many there are.
RuneOf(s, i, cp, n) == [cp |-> cp, bytes |-> SubSeq(s, i, i + n - 1)]

\* The five ways to read one.
LEMMA RuneCases ==
  ASSUME NEW s, NEW i
  PROVE  Rune(s, i) =
           IF s[i] < 128 THEN RuneOf(s, i, s[i], 1)
           ELSE IF Tails(s, i, 1) /\ IsTwo(s[i], OfTwo(s[i], s[i + 1]))
                THEN RuneOf(s, i, OfTwo(s[i], s[i + 1]), 2)
           ELSE IF Tails(s, i, 2) /\ IsThree(s[i], OfThree(s[i], s[i + 1], s[i + 2]))
                THEN RuneOf(s, i, OfThree(s[i], s[i + 1], s[i + 2]), 3)
           ELSE IF Tails(s, i, 3) /\ IsFour(s[i], OfFour(s[i], s[i + 1], s[i + 2], s[i + 3]))
                THEN RuneOf(s, i, OfFour(s[i], s[i + 1], s[i + 2], s[i + 3]), 4)
           ELSE RuneOf(s, i, Replacement, 1)
BY DEF Rune, Tails, RuneOf

\* The same bytes are the same wherever they are.
LEMMA SameSub ==
  ASSUME NEW s \in Text, NEW t \in Text, NEW i \in 1..Len(s), NEW k \in 1..Len(t),
         NEW n \in Nat, i + n <= Len(s) + 1, k + n <= Len(t) + 1,
         \A m \in 0..(n - 1) : s[i + m] = t[k + m]
  PROVE  SubSeq(s, i, i + n - 1) = SubSeq(t, k, k + n - 1)
<1> DEFINE u == SubSeq(s, i, i + n - 1)
           v == SubSeq(t, k, k + n - 1)
<1>1. /\ u \in Text /\ Len(u) = n /\ \A m \in 1..n : u[m] = s[i + m - 1]
      /\ v \in Text /\ Len(v) = n /\ \A m \in 1..n : v[m] = t[k + m - 1]
  BY SubText
<1>2. Len(s) \in Nat /\ Len(t) \in Nat
  BY TextElements
<1>3. \A m \in 1..n : s[i + m - 1] = t[k + m - 1]
  <2> SUFFICES ASSUME NEW m \in 1..n PROVE s[i + m - 1] = t[k + m - 1]
    OBVIOUS
  <2>1. m - 1 \in 0..(n - 1) /\ i + (m - 1) = i + m - 1 /\ k + (m - 1) = k + m - 1
    BY <1>2
  <2> QED
    BY <2>1
<1> HIDE DEF u, v
<1>4. u = v
  <2>1. \A m \in 1..Len(u) : u[m] = v[m]
    BY <1>1, <1>3
  <2> QED
    BY <1>1, <2>1, SeqEqual DEF Text
<1> QED
  BY <1>4 DEF u, v

\* So is what is read from them.
LEMMA SameRune ==
  ASSUME NEW s \in Text, NEW t \in Text, NEW i \in 1..Len(s), NEW k \in 1..Len(t),
         Len(s) - i = Len(t) - k, \A m \in 0..(Len(s) - i) : s[i + m] = t[k + m]
  PROVE  Rune(s, i) = Rune(t, k)
<1>1. Len(s) \in Nat /\ Len(t) \in Nat
  BY TextElements
<1>2. \A n \in 1..4 : i + n <= Len(s) + 1 =>
        \A cp : RuneOf(s, i, cp, n) = RuneOf(t, k, cp, n)
  <2> SUFFICES ASSUME NEW n \in 1..4, i + n <= Len(s) + 1
               PROVE  SubSeq(s, i, i + n - 1) = SubSeq(t, k, k + n - 1)
    BY DEF RuneOf
  <2>1. n \in Nat /\ k + n <= Len(t) + 1 /\ \A m \in 0..(n - 1) : m \in 0..(Len(s) - i)
    BY <1>1
  <2>2. \A m \in 0..(n - 1) : s[i + m] = t[k + m]
    BY <2>1
  <2>3. i + n <= Len(s) + 1
    OBVIOUS
  <2> QED
    BY ONLY <2>1, <2>2, <2>3, SameSub, s \in Text, t \in Text, i \in 1..Len(s), k \in 1..Len(t)
<1>3. \A n \in 1..3 :
        /\ Tails(s, i, n) <=> Tails(t, k, n)
        /\ Tails(s, i, n) => i + n + 1 <= Len(s) + 1 /\ \A m \in 0..n : s[i + m] = t[k + m]
  <2> SUFFICES ASSUME NEW n \in 1..3
               PROVE  /\ Tails(s, i, n) <=> Tails(t, k, n)
                      /\ Tails(s, i, n) => /\ i + n + 1 <= Len(s) + 1
                                           /\ \A m \in 0..n : s[i + m] = t[k + m]
    OBVIOUS
  <2>1. i + n <= Len(s) <=> k + n <= Len(t)
    BY <1>1
  <2>2. i + n <= Len(s) => i + n + 1 <= Len(s) + 1 /\ \A m \in 0..n : m \in 0..(Len(s) - i)
    BY <1>1
  <2>3. i + n <= Len(s) => \A m \in 0..n : s[i + m] = t[k + m]
    BY <2>2
  <2>4. \A m \in 1..n : m \in 0..n
    OBVIOUS
  <2> QED
    BY <2>1, <2>2, <2>3, <2>4 DEF Tails
<1>4. s[i] = t[k] /\ i + 1 <= Len(s) + 1
  <2>1. 0 \in 0..(Len(s) - i) /\ i + 0 = i /\ k + 0 = k /\ i + 1 <= Len(s) + 1
    BY <1>1
  <2> QED
    BY <2>1
<1>5. Tails(s, i, 1) => s[i + 1] = t[k + 1] /\ i + 2 <= Len(s) + 1
  BY <1>1, <1>3
<1>6. Tails(s, i, 2) => s[i + 1] = t[k + 1] /\ s[i + 2] = t[k + 2] /\ i + 3 <= Len(s) + 1
  BY <1>1, <1>3
<1>7. Tails(s, i, 3) => /\ s[i + 1] = t[k + 1] /\ s[i + 2] = t[k + 2] /\ s[i + 3] = t[k + 3]
                        /\ i + 4 <= Len(s) + 1
  BY <1>1, <1>3
<1>8. (Tails(s, i, 1) <=> Tails(t, k, 1)) /\ (Tails(s, i, 2) <=> Tails(t, k, 2))
      /\ (Tails(s, i, 3) <=> Tails(t, k, 3))
  BY <1>3
<1>9. /\ \A cp : RuneOf(s, i, cp, 1) = RuneOf(t, k, cp, 1)
      /\ i + 2 <= Len(s) + 1 => \A cp : RuneOf(s, i, cp, 2) = RuneOf(t, k, cp, 2)
      /\ i + 3 <= Len(s) + 1 => \A cp : RuneOf(s, i, cp, 3) = RuneOf(t, k, cp, 3)
      /\ i + 4 <= Len(s) + 1 => \A cp : RuneOf(s, i, cp, 4) = RuneOf(t, k, cp, 4)
  BY <1>2, <1>4
<1> QED
  BY <1>4, <1>5, <1>6, <1>7, <1>8, <1>9, RuneCases

\* c is one character, whatever comes after it.
IsChar(c, cp) ==
  /\ c \in Text \ {<<>>}
  /\ cp \in Nat
  /\ \A x \in Text : Rune(c \o x, 1) = [cp |-> cp, bytes |-> c]

\* The elements of a sequence, and a sequence of one.
LEMMA Elements ==
  ASSUME NEW S, NEW s \in Seq(S)
  PROVE  Len(s) \in Nat /\ \A i \in 1..Len(s) : s[i] \in S
BY LenProperties, ElementOfSeq

LEMMA OneIs ==
  ASSUME NEW S, NEW e \in S
  PROVE  <<e>> \in Seq(S) /\ Len(<<e>>) = 1 /\ <<e>>[1] = e
OBVIOUS

RunesAt(s, f, i) ==
  IF i > Len(s) THEN <<>> ELSE <<Rune(s, i)>> \o f[i + Len(Rune(s, i).bytes)]

Reading == INSTANCE FoldFacts WITH Op <- RunesAt

ReadFrom(s) == CHOOSE f : f = [i \in 1..(Len(s) + 1) |-> RunesAt(s, f, i)]

\* What is read from i on needs only what is read later,
LEMMA RunesLater ==
  ASSUME NEW s \in Text
  PROVE  Reading!Later(s, Len(s) + 1, Seq(RuneType))
<1>1. Len(s) \in Nat
  BY TextElements
<1> SUFFICES ASSUME NEW f, NEW g, NEW i \in 1..(Len(s) + 1),
                    \A k \in 1..(Len(s) + 1) : k > i => f[k] \in Seq(RuneType) /\ g[k] = f[k]
             PROVE  RunesAt(s, f, i) \in Seq(RuneType) /\ RunesAt(s, g, i) = RunesAt(s, f, i)
  BY DEF Reading!Later
<1>2. CASE i > Len(s)
  BY <1>2, EmptySeq DEF RunesAt
<1>3. CASE i <= Len(s)
  <2>1. i \in 1..Len(s) /\ ~(i > Len(s))
    BY <1>1, <1>3
  <2> DEFINE r == Rune(s, i)
             k == i + Len(r.bytes)
  <2>2. r \in RuneType /\ Len(r.bytes) \in Nat \ {0} /\ k <= Len(s) + 1
    BY <2>1, RuneTyped
  <2>3. k \in 1..(Len(s) + 1) /\ k > i
    BY <1>1, <2>2
  <2> HIDE DEF r, k
  <2>4. f[k] \in Seq(RuneType) /\ g[k] = f[k]
    BY <2>3
  <2>5. \A h : RunesAt(s, h, i) = <<r>> \o h[k]
    BY <2>1 DEF RunesAt, r, k
  <2>6. <<r>> \o f[k] \in Seq(RuneType)
    BY <2>2, <2>4, OneIs, ConcatProperties
  <2> QED
    BY <2>4, <2>5, <2>6
<1> QED
  BY <1>1, <1>2, <1>3

\* so the recursion has one solution, and Runes is its first value.
LEMMA ReadFromIs ==
  ASSUME NEW s \in Text
  PROVE  /\ ReadFrom(s) \in [1..(Len(s) + 1) -> Seq(RuneType)]
         /\ ReadFrom(s) = [i \in 1..(Len(s) + 1) |-> RunesAt(s, ReadFrom(s), i)]
         /\ Runes(s) = ReadFrom(s)[1]
<1> DEFINE n == Len(s) + 1
           f == ReadFrom(s)
           V == Seq(RuneType)
           v == <<>>
<1>1. n \in Nat /\ v \in V /\ Reading!Later(s, n, V)
  BY TextElements, EmptySeq, RunesLater
<1>2. f = [i \in 1..n |-> RunesAt(s, f, i)]
  <2>1. \E h \in [1..n -> V] : h = [i \in 1..n |-> RunesAt(s, h, i)]
    <3> HIDE DEF n, V, v
    <3> QED
      BY <1>1, Reading!LaterExists
  <2> QED
    BY <2>1 DEF ReadFrom
<1>3. f \in [1..n -> V]
  <2> HIDE DEF n, f, V
  <2> QED
    BY <1>1, <1>2, Reading!LaterTyped
<1>4. Runes(s) = f[1]
  BY DEF Runes, ReadFrom, RunesAt
<1> QED
  BY <1>2, <1>3, <1>4

\* What is read of a string does not depend on what comes before it.
LEMMA ReadAfter ==
  ASSUME NEW c \in Text, NEW x \in Text
  PROVE  \A i \in 1..(Len(x) + 1) : ReadFrom(c \o x)[i + Len(c)] = ReadFrom(x)[i]
<1> DEFINE t == c \o x
           n == Len(t) + 1
           m == Len(x) + 1
           k == Len(c)
           f == ReadFrom(t)
           g == ReadFrom(x)
<1>1. t \in Text /\ Len(t) = k + Len(x) /\ k \in Nat /\ Len(x) \in Nat
      /\ \A i \in 1..(k + Len(x)) : t[i] = IF i <= k THEN c[i] ELSE x[i - k]
  BY ConcatProperties, TextElements DEF Text
<1>2. n \in Nat /\ m \in Nat /\ n = m + k
  BY <1>1
<1>3. f = [i \in 1..n |-> RunesAt(t, f, i)] /\ g = [i \in 1..m |-> RunesAt(x, g, i)]
  BY <1>1, ReadFromIs
<1> HIDE DEF t, f, g
<1>4. ASSUME NEW i \in 1..m, \A j \in 1..m : j > i => f[j + k] = g[j]
      PROVE  RunesAt(t, f, i + k) = RunesAt(x, g, i)
  <2>1. CASE i > Len(x)
    <3>1. i + k > Len(t)
      BY <1>1, <2>1
    <3> QED
      BY <2>1, <3>1 DEF RunesAt
  <2>2. CASE i <= Len(x)
    <3>1. i + k \in 1..Len(t) /\ i \in 1..Len(x) /\ Len(t) - (i + k) = Len(x) - i
          /\ ~(i + k > Len(t)) /\ ~(i > Len(x))
      BY <1>1, <2>2
    <3>2. \A p \in 0..(Len(t) - (i + k)) : t[(i + k) + p] = x[i + p]
      <4> SUFFICES ASSUME NEW p \in 0..(Len(t) - (i + k)) PROVE t[(i + k) + p] = x[i + p]
        OBVIOUS
      <4>1. (i + k) + p \in 1..(k + Len(x)) /\ ~((i + k) + p <= k) /\ ((i + k) + p) - k = i + p
        BY <1>1, <2>2
      <4> QED
        BY <1>1, <4>1
    <3>3. Rune(t, i + k) = Rune(x, i)
      BY ONLY <1>1, <3>1, <3>2, SameRune, x \in Text
    <3> DEFINE l == Len(Rune(x, i).bytes)
    <3>4. l \in Nat \ {0} /\ i + l <= Len(x) + 1
      BY <3>1, RuneTyped
    <3> HIDE DEF l
    <3>5. f[(i + l) + k] = g[i + l] /\ (i + l) + k = (i + k) + l
      BY <1>1, <1>4, <3>4
    <3> QED
      BY <3>1, <3>3, <3>5 DEF RunesAt, l
  <2> QED
    BY <1>1, <2>1, <2>2
<1>5. \A i \in 1..m : f[i + k] = g[i]
  <2>1. Reading!Apart(n, m, k)
    BY <1>1, <1>2 DEF Reading!Apart
  <2>2. Reading!Keeps(t, x, m, k, f, g)
    BY <1>4 DEF Reading!Keeps
  <2>3. Reading!Solves(t, n, f) /\ Reading!Solves(x, m, g)
    BY <1>2, <1>3 DEF Reading!Solves
  <2> HIDE DEF n, m, k
  <2> QED
    BY ONLY <1>2, <2>1, <2>2, <2>3, Reading!LaterShifted
<1> QED
  BY <1>5 DEF f, g, t

\* A character at the beginning of a string is the first that is read.
LEMMA RunesOfChar ==
  ASSUME NEW c, NEW cp, IsChar(c, cp), NEW x \in Text
  PROVE  Runes(c \o x) = <<[cp |-> cp, bytes |-> c]>> \o Runes(x)
<1> DEFINE t == c \o x
           r == [cp |-> cp, bytes |-> c]
<1>1. c \in Text /\ c # <<>> /\ Rune(t, 1) = r
  BY DEF IsChar
<1>2. Len(c) \in Nat \ {0} /\ Len(x) \in Nat /\ t \in Text /\ Len(t) = Len(c) + Len(x)
  BY <1>1, TextElements, EmptySeq, ConcatProperties DEF Text
<1>3. 1 \in 1..(Len(t) + 1) /\ ~(1 > Len(t)) /\ 1 \in 1..(Len(x) + 1) /\ 1 + Len(c) \in 1..(Len(t) + 1)
  BY <1>2
<1>4. Runes(t) = RunesAt(t, ReadFrom(t), 1)
  BY <1>2, <1>3, ReadFromIs
<1>5. ReadFrom(t)[1 + Len(c)] = ReadFrom(x)[1]
  BY <1>1, <1>3, ReadAfter
<1>6. ReadFrom(x)[1] = Runes(x)
  BY ReadFromIs
<1> HIDE DEF t
<1>7. r.bytes = c
  OBVIOUS
<1> HIDE DEF r
<1>8. Runes(t) = <<r>> \o Runes(x)
  BY <1>1, <1>3, <1>4, <1>5, <1>6, <1>7 DEF RunesAt
<1> QED
  BY <1>8 DEF t, r

LEMMA RunesTyped ==
  ASSUME NEW s \in Text
  PROVE  Runes(s) \in Seq(RuneType)
<1>1. 1 \in 1..(Len(s) + 1)
  BY TextElements
<1> QED
  BY <1>1, ReadFromIs

LEMMA RunesOfNothing == Runes(<<>>) = <<>>
<1>1. <<>> \in Text /\ Len(<<>>) = 0
  BY EmptySeq DEF Text
<1>2. 1 \in 1..(Len(<<>>) + 1) /\ 1 > Len(<<>>)
  BY <1>1
<1>3. Runes(<<>>) = RunesAt(<<>>, ReadFrom(<<>>), 1)
  BY <1>1, <1>2, ReadFromIs
<1> QED
  BY <1>2, <1>3 DEF RunesAt

-----------------------------------------------------------------------------
(* UnsafeName, as the meaning of a sequence of characters.                   *)

EscapeAt(rs, i, c) == rs[i].cp = Backslash /\ i < Len(rs) /\ rs[i + 1].cp = Letter(c)

\* k characters of braille between currency signs.
RunAt(rs, i, k) ==
  /\ rs[i].cp = CurrencySign /\ i + k < Len(rs) /\ rs[i + k + 1].cp = CurrencySign
  /\ \A m \in 1..k : IsBraille(rs[i + m].cp)

BytesOfRun(rs, i, k) == [m \in 1..k |-> rs[i + m].cp - 10240]

MeaningAt(rs, f, i) ==
  IF i > Len(rs) THEN <<>>
  ELSE IF \E c \in Tier2 : EscapeAt(rs, i, c)
       THEN <<CHOOSE c \in Tier2 : EscapeAt(rs, i, c)>> \o f[i + 2]
  ELSE IF \E k \in 1..Len(rs) : RunAt(rs, i, k)
       THEN LET k == CHOOSE k \in 1..Len(rs) : RunAt(rs, i, k)
            IN BytesOfRun(rs, i, k) \o f[i + k + 2]
  ELSE rs[i].bytes \o f[i + 1]

Meant == INSTANCE FoldFacts WITH Op <- MeaningAt

MeantFrom(rs) == CHOOSE f : f = [i \in 1..(Len(rs) + 1) |-> MeaningAt(rs, f, i)]

\* UnsafeName of a string of which these are the characters.
Meaning(rs) == MeantFrom(rs)[1]

\* What UnsafeName says depends on the characters alone.
LEMMA UnsafeNameIs ==
  ASSUME NEW s
  PROVE  UnsafeName(s) = Meaning(Runes(s))
BY DEF UnsafeName, Meaning, MeantFrom, MeaningAt, EscapeAt, RunAt, BytesOfRun

\* No currency sign opens two runs.
LEMMA OneRun ==
  ASSUME NEW rs \in Seq(RuneType), NEW i \in 1..Len(rs), NEW k \in 1..Len(rs), NEW l \in 1..Len(rs),
         RunAt(rs, i, k), RunAt(rs, i, l)
  PROVE  k = l
<1>1. ~IsBraille(CurrencySign)
  BY DEF IsBraille, CurrencySign
<1>2. Len(rs) \in Nat
  BY Elements
<1>3. ASSUME NEW p \in 1..Len(rs), NEW q \in 1..Len(rs), RunAt(rs, i, p), RunAt(rs, i, q), p < q
      PROVE  FALSE
  <2>1. p + 1 \in 1..q /\ i + (p + 1) = i + p + 1
    BY <1>2, <1>3
  <2> QED
    BY <1>1, <1>3, <2>1 DEF RunAt
<1>4. k < l \/ l < k \/ k = l
  BY <1>2
<1> QED
  BY <1>3, <1>4

\* Three ways to go on from i.
LEMMA MeaningCases ==
  ASSUME NEW rs \in Seq(RuneType), NEW i \in 1..Len(rs)
  PROVE  \/ \E c \in Tier2 : EscapeAt(rs, i, c) /\ \A f : MeaningAt(rs, f, i) = <<c>> \o f[i + 2]
         \/ /\ ~\E c \in Tier2 : EscapeAt(rs, i, c)
            /\ \E k \in 1..Len(rs) :
                 RunAt(rs, i, k) /\ \A f : MeaningAt(rs, f, i) = BytesOfRun(rs, i, k) \o f[i + k + 2]
         \/ /\ ~\E c \in Tier2 : EscapeAt(rs, i, c)
            /\ ~\E k \in 1..Len(rs) : RunAt(rs, i, k)
            /\ \A f : MeaningAt(rs, f, i) = rs[i].bytes \o f[i + 1]
<1>1. ~(i > Len(rs))
  BY Elements
<1>2. CASE \E c \in Tier2 : EscapeAt(rs, i, c)
  <2> DEFINE c == CHOOSE c \in Tier2 : EscapeAt(rs, i, c)
  <2>1. c \in Tier2 /\ EscapeAt(rs, i, c)
    BY <1>2
  <2>2. \A f : MeaningAt(rs, f, i) = <<c>> \o f[i + 2]
    BY <1>1, <1>2 DEF MeaningAt
  <2> HIDE DEF c
  <2> QED
    BY <2>1, <2>2
<1>3. CASE ~(\E c \in Tier2 : EscapeAt(rs, i, c)) /\ \E k \in 1..Len(rs) : RunAt(rs, i, k)
  <2> DEFINE k == CHOOSE k \in 1..Len(rs) : RunAt(rs, i, k)
  <2>1. k \in 1..Len(rs) /\ RunAt(rs, i, k)
    BY <1>3
  <2>2. \A f : MeaningAt(rs, f, i) = BytesOfRun(rs, i, k) \o f[i + k + 2]
    BY <1>1, <1>3 DEF MeaningAt
  <2> HIDE DEF k
  <2> QED
    BY <1>3, <2>1, <2>2
<1>4. CASE ~(\E c \in Tier2 : EscapeAt(rs, i, c)) /\ ~(\E k \in 1..Len(rs) : RunAt(rs, i, k))
  BY <1>1, <1>4 DEF MeaningAt
<1> QED
  BY <1>2, <1>3, <1>4

LEMMA ByteSequence ==
  ASSUME NEW k \in Nat, NEW h \in [1..k -> Byte]
  PROVE  h \in Text
BY SeqDef DEF Text

LEMMA BytesOfRunTyped ==
  ASSUME NEW rs \in Seq(RuneType), NEW i \in 1..Len(rs), NEW k \in 1..Len(rs), RunAt(rs, i, k)
  PROVE  BytesOfRun(rs, i, k) \in Text
<1>1. Len(rs) \in Nat /\ \A m \in 1..Len(rs) : rs[m] \in RuneType
  BY Elements
<1>2. ASSUME NEW m \in 1..k
      PROVE  rs[i + m].cp - 10240 \in Byte
  <2>1. i + m \in 1..Len(rs)
    BY <1>1 DEF RunAt
  <2>2. rs[i + m].cp \in Nat /\ IsBraille(rs[i + m].cp)
    BY <1>1, <2>1 DEF RunAt, RuneType
  <2>3. \A x \in Nat : IsBraille(x) => x - 10240 \in Byte
    BY DEF IsBraille, Byte
  <2> QED
    BY <2>2, <2>3
<1>3. BytesOfRun(rs, i, k) \in [1..k -> Byte]
  BY <1>2 DEF BytesOfRun
<1> QED
  BY <1>1, <1>3, ByteSequence

\* The meaning from i on needs only what follows i,
LEMMA MeaningLater ==
  ASSUME NEW rs \in Seq(RuneType)
  PROVE  Meant!Later(rs, Len(rs) + 1, Text)
<1>1. Len(rs) \in Nat /\ \A m \in 1..Len(rs) : rs[m] \in RuneType
  BY Elements
<1> SUFFICES ASSUME NEW f, NEW g, NEW i \in 1..(Len(rs) + 1),
                    \A k \in 1..(Len(rs) + 1) : k > i => f[k] \in Text /\ g[k] = f[k]
             PROVE  MeaningAt(rs, f, i) \in Text /\ MeaningAt(rs, g, i) = MeaningAt(rs, f, i)
  BY DEF Meant!Later
<1>2. CASE i > Len(rs)
  BY <1>2, EmptySeq DEF MeaningAt, Text
<1>3. CASE i <= Len(rs)
  <2>1. i \in 1..Len(rs)
    BY <1>1, <1>3
  <2>2. ASSUME NEW head \in Text, NEW k \in 1..(Len(rs) + 1), k > i,
               \A h : MeaningAt(rs, h, i) = head \o h[k]
        PROVE  MeaningAt(rs, f, i) \in Text /\ MeaningAt(rs, g, i) = MeaningAt(rs, f, i)
    <3>1. f[k] \in Text /\ g[k] = f[k]
      BY <2>2
    <3>2. head \o f[k] \in Text
      BY <3>1, ConcatProperties DEF Text
    <3> QED
      BY <2>2, <3>1, <3>2
  <2>3. CASE \E c \in Tier2 : EscapeAt(rs, i, c) /\ \A h : MeaningAt(rs, h, i) = <<c>> \o h[i + 2]
    <3>1. PICK c \in Tier2 : EscapeAt(rs, i, c) /\ \A h : MeaningAt(rs, h, i) = <<c>> \o h[i + 2]
      BY <2>3
    <3>2. c \in Byte
      BY DEF Tier2, Byte, Backslash
    <3>3. <<c>> \in Text
      BY <3>2, OneIs DEF Text
    <3>4. i + 2 \in 1..(Len(rs) + 1) /\ i + 2 > i
      BY <1>1, <3>1 DEF EscapeAt
    <3> QED
      BY <2>2, <3>1, <3>3, <3>4
  <2>4. CASE \E k \in 1..Len(rs) :
               RunAt(rs, i, k) /\ \A h : MeaningAt(rs, h, i) = BytesOfRun(rs, i, k) \o h[i + k + 2]
    <3>1. PICK k \in 1..Len(rs) :
               RunAt(rs, i, k) /\ \A h : MeaningAt(rs, h, i) = BytesOfRun(rs, i, k) \o h[i + k + 2]
      BY <2>4
    <3>2. BytesOfRun(rs, i, k) \in Text
      BY <2>1, <3>1, BytesOfRunTyped
    <3>3. i + k + 2 \in 1..(Len(rs) + 1) /\ i + k + 2 > i
      BY <1>1, <3>1 DEF RunAt
    <3> QED
      BY <2>2, <3>1, <3>2, <3>3
  <2>5. CASE \A h : MeaningAt(rs, h, i) = rs[i].bytes \o h[i + 1]
    <3>1. rs[i].bytes \in Text
      BY <1>1, <2>1 DEF RuneType
    <3>2. i + 1 \in 1..(Len(rs) + 1) /\ i + 1 > i
      BY <1>1, <2>1
    <3> QED
      BY <2>2, <2>5, <3>1, <3>2
  <2> QED
    BY <2>1, <2>3, <2>4, <2>5, MeaningCases
<1> QED
  BY <1>1, <1>2, <1>3

\* so that recursion has one solution as well.
LEMMA MeantFromIs ==
  ASSUME NEW rs \in Seq(RuneType)
  PROVE  /\ MeantFrom(rs) \in [1..(Len(rs) + 1) -> Text]
         /\ MeantFrom(rs) = [i \in 1..(Len(rs) + 1) |-> MeaningAt(rs, MeantFrom(rs), i)]
         /\ Meaning(rs) \in Text
<1> DEFINE n == Len(rs) + 1
           f == MeantFrom(rs)
           v == <<>>
<1>1. n \in Nat /\ v \in Text /\ Meant!Later(rs, n, Text) /\ 1 \in 1..n
  BY Elements, EmptySeq, MeaningLater DEF Text
<1>2. f = [i \in 1..n |-> MeaningAt(rs, f, i)]
  <2>1. \E h \in [1..n -> Text] : h = [i \in 1..n |-> MeaningAt(rs, h, i)]
    <3> HIDE DEF n, v
    <3> QED
      BY <1>1, Meant!LaterExists
  <2> QED
    BY <2>1 DEF MeantFrom
<1>3. f \in [1..n -> Text]
  <2> HIDE DEF n, f
  <2> QED
    BY <1>1, <1>2, Meant!LaterTyped
<1>4. f[1] \in Text
  <2> HIDE DEF n, f
  <2> QED
    BY <1>1, <1>3
<1> QED
  BY <1>2, <1>3, <1>4 DEF Meaning

\* Where the elements of two sequences are in both of them together.
LEMMA ConcatParts ==
  ASSUME NEW S, NEW p \in Seq(S), NEW q \in Seq(S)
  PROVE  /\ p \o q \in Seq(S) /\ Len(p) \in Nat /\ Len(q) \in Nat
         /\ Len(p \o q) = Len(p) + Len(q)
         /\ \A i \in 1..Len(p) : (p \o q)[i] = p[i]
         /\ \A i \in 1..Len(q) : (p \o q)[i + Len(p)] = q[i]
<1> DEFINE n == Len(p)
           m == Len(q)
<1>1. n \in Nat /\ m \in Nat
  BY Elements
<1>2. p \o q \in Seq(S) /\ Len(p \o q) = n + m
      /\ \A i \in 1..(n + m) : (p \o q)[i] = IF i <= n THEN p[i] ELSE q[i - n]
  BY ConcatProperties
<1>3. ASSUME NEW i \in 1..n
      PROVE  (p \o q)[i] = p[i]
  <2>1. i \in 1..(n + m) /\ i <= n
    BY <1>1
  <2> QED
    BY <1>2, <2>1
<1>4. ASSUME NEW i \in 1..m
      PROVE  (p \o q)[i + n] = q[i]
  <2>1. i + n \in 1..(n + m) /\ ~(i + n <= n) /\ (i + n) - n = i
    BY <1>1
  <2> QED
    BY <1>2, <2>1
<1> QED
  BY <1>1, <1>2, <1>3, <1>4

LEMMA SameRunBytes ==
  ASSUME NEW t, NEW rs, NEW i, NEW j, NEW l, \A x \in 1..l : t[j + x] = rs[i + x]
  PROVE  BytesOfRun(t, j, l) = BytesOfRun(rs, i, l)
BY DEF BytesOfRun

\* So too with what a name means.
LEMMA MeaningAfter ==
  ASSUME NEW p \in Seq(RuneType), NEW rs \in Seq(RuneType)
  PROVE  \A i \in 1..(Len(rs) + 1) : MeantFrom(p \o rs)[i + Len(p)] = MeantFrom(rs)[i]
<1> DEFINE t == p \o rs
           n == Len(t) + 1
           m == Len(rs) + 1
           k == Len(p)
           f == MeantFrom(t)
           g == MeantFrom(rs)
<1>1. t \in Seq(RuneType) /\ Len(t) = k + Len(rs) /\ k \in Nat /\ Len(rs) \in Nat
      /\ \A i \in 1..Len(rs) : t[i + k] = rs[i]
  BY ConcatParts
<1>2. n \in Nat /\ m \in Nat /\ n = m + k
  BY <1>1
<1>3. f = [i \in 1..n |-> MeaningAt(t, f, i)] /\ g = [i \in 1..m |-> MeaningAt(rs, g, i)]
  BY <1>1, MeantFromIs
<1>4. \A i \in 1..Len(rs) : i + k \in 1..Len(t) /\ t[i + k] = rs[i]
  <2>1. \A i \in 1..Len(rs) : i + k \in 1..Len(t)
    BY <1>1
  <2> QED
    BY <1>1, <2>1
<1> HIDE DEF t, f, g
<1>5. ASSUME NEW i \in 1..Len(rs), NEW c \in Tier2
      PROVE  EscapeAt(t, i + k, c) <=> EscapeAt(rs, i, c)
  <2>1. t[i + k] = rs[i] /\ (i + k < Len(t) <=> i < Len(rs))
    <3>1. i + k < Len(t) <=> i < Len(rs)
      BY <1>1
    <3> QED
      BY <1>4, <3>1
  <2>2. i < Len(rs) => t[i + k + 1] = rs[i + 1]
    <3>1. i < Len(rs) => i + 1 \in 1..Len(rs) /\ (i + 1) + k = i + k + 1
      BY <1>1
    <3> QED
      BY <1>4, <3>1
  <2> QED
    BY <2>1, <2>2 DEF EscapeAt
<1>6. ASSUME NEW i \in 1..Len(rs), NEW l \in Nat
      PROVE  RunAt(t, i + k, l) <=> RunAt(rs, i, l)
  <2>1. t[i + k] = rs[i] /\ ((i + k) + l < Len(t) <=> i + l < Len(rs))
    <3>1. (i + k) + l < Len(t) <=> i + l < Len(rs)
      BY <1>1
    <3> QED
      BY <1>4, <3>1
  <2>2. i + l < Len(rs) => /\ t[(i + k) + l + 1] = rs[i + l + 1]
                           /\ \A q \in 1..l : t[(i + k) + q] = rs[i + q]
    <3> SUFFICES ASSUME i + l < Len(rs)
                 PROVE  \A q \in 1..(l + 1) : t[(i + k) + q] = rs[i + q]
      <4>1. l + 1 \in 1..(l + 1) /\ (\A q \in 1..l : q \in 1..(l + 1))
            /\ (i + k) + (l + 1) = (i + k) + l + 1 /\ i + (l + 1) = i + l + 1
        BY <1>1
      <4> QED
        BY <4>1
    <3> TAKE q \in 1..(l + 1)
    <3>1. i + q \in 1..Len(rs) /\ (i + q) + k = (i + k) + q
      BY <1>1
    <3> QED
      BY <1>4, <3>1
  <2> QED
    BY <2>1, <2>2 DEF RunAt
<1>7. ASSUME NEW i \in 1..m, \A j \in 1..m : j > i => f[j + k] = g[j]
      PROVE  MeaningAt(t, f, i + k) = MeaningAt(rs, g, i)
  <2>1. CASE i > Len(rs)
    <3>1. i + k > Len(t)
      BY <1>1, <2>1
    <3> QED
      BY <2>1, <3>1 DEF MeaningAt
  <2>2. CASE i <= Len(rs)
    <3>1. i \in 1..Len(rs) /\ i + k \in 1..Len(t) /\ t[i + k] = rs[i]
      BY <1>1, <1>4, <2>2
    <3>2. CASE \E c \in Tier2 : EscapeAt(rs, i, c)
      <4>1. PICK c \in Tier2 : EscapeAt(rs, i, c) /\ \A h : MeaningAt(rs, h, i) = <<c>> \o h[i + 2]
        BY <3>1, <3>2, MeaningCases
      <4>2. PICK d \in Tier2 : /\ EscapeAt(t, i + k, d)
                               /\ \A h : MeaningAt(t, h, i + k) = <<d>> \o h[(i + k) + 2]
        BY <1>1, <1>5, <3>1, <4>1, MeaningCases
      <4>3. EscapeAt(rs, i, d)
        BY <1>5, <3>1, <4>2
      <4>4. c = d
        BY <4>1, <4>3 DEF EscapeAt, Letter, Tier2, Backslash
      <4>5. f[(i + k) + 2] = g[i + 2]
        <5>1. i + 2 \in 1..m /\ i + 2 > i /\ (i + 2) + k = (i + k) + 2
          BY <1>1, <4>1 DEF EscapeAt
        <5> QED
          BY <1>7, <5>1
      <4> QED
        BY <4>1, <4>2, <4>4, <4>5
    <3>3. CASE ~(\E c \in Tier2 : EscapeAt(rs, i, c)) /\ \E l \in 1..Len(rs) : RunAt(rs, i, l)
      <4>1. PICK l \in 1..Len(rs) :
              RunAt(rs, i, l) /\ \A h : MeaningAt(rs, h, i) = BytesOfRun(rs, i, l) \o h[i + l + 2]
        BY <3>1, <3>3, MeaningCases
      <4>2. ~(\E c \in Tier2 : EscapeAt(t, i + k, c)) /\ l \in 1..Len(t) /\ RunAt(t, i + k, l)
        <5>1. l \in 1..Len(t) /\ l \in Nat
          BY <1>1
        <5>2. RunAt(t, i + k, l)
          BY <1>6, <3>1, <4>1, <5>1
        <5> QED
          BY <1>5, <3>1, <3>3, <5>1, <5>2
      <4>3. PICK q \in 1..Len(t) :
              /\ RunAt(t, i + k, q)
              /\ \A h : MeaningAt(t, h, i + k) = BytesOfRun(t, i + k, q) \o h[(i + k) + q + 2]
        BY <1>1, <3>1, <4>2, MeaningCases
      <4>4. q = l
        BY <1>1, <3>1, <4>2, <4>3, OneRun
      <4>5. BytesOfRun(t, i + k, l) = BytesOfRun(rs, i, l)
        <5>1. \A x \in 1..l : t[(i + k) + x] = rs[i + x]
          <6> TAKE x \in 1..l
          <6>1. i + l < Len(rs)
            BY <4>1 DEF RunAt
          <6>2. i + x \in 1..Len(rs) /\ (i + x) + k = (i + k) + x
            BY <1>1, <6>1
          <6> QED
            BY <1>4, <6>2
        <5> HIDE DEF k
        <5> QED
          BY <5>1, SameRunBytes
      <4>6. f[(i + k) + l + 2] = g[i + l + 2]
        <5>1. i + l + 2 \in 1..m /\ i + l + 2 > i /\ (i + l + 2) + k = (i + k) + l + 2
          BY <1>1, <4>1 DEF RunAt
        <5> QED
          BY <1>7, <5>1
      <4> QED
        BY <4>1, <4>3, <4>4, <4>5, <4>6
    <3>4. CASE ~(\E c \in Tier2 : EscapeAt(rs, i, c)) /\ ~(\E l \in 1..Len(rs) : RunAt(rs, i, l))
      <4>1. ~(\E c \in Tier2 : EscapeAt(t, i + k, c))
        BY <1>5, <3>1, <3>4
      <4>2. ASSUME NEW l \in 1..Len(t), RunAt(t, i + k, l)
            PROVE  FALSE
        <5>1. RunAt(rs, i, l)
          BY <1>1, <1>6, <3>1, <4>2
        <5>2. i + l < Len(rs)
          BY <5>1 DEF RunAt
        <5>3. l \in 1..Len(rs)
          BY <1>1, <5>2
        <5> QED
          BY <3>4, <5>1, <5>3
      <4>3. MeaningAt(t, f, i + k) = t[i + k].bytes \o f[(i + k) + 1]
        BY <1>1, <3>1, <4>1, <4>2, MeaningCases
      <4>4. MeaningAt(rs, g, i) = rs[i].bytes \o g[i + 1]
        BY <3>1, <3>4, MeaningCases
      <4>5. f[(i + k) + 1] = g[i + 1]
        <5>1. i + 1 \in 1..m /\ i + 1 > i /\ (i + 1) + k = (i + k) + 1
          BY <1>1, <3>1
        <5> QED
          BY <1>7, <5>1
      <4> QED
        BY <3>1, <4>3, <4>4, <4>5
    <3> QED
      BY <3>2, <3>3, <3>4
  <2> QED
    BY <1>1, <2>1, <2>2
<1>8. \A i \in 1..m : f[i + k] = g[i]
  <2>1. Meant!Apart(n, m, k)
    BY <1>1, <1>2 DEF Meant!Apart
  <2>2. Meant!Keeps(t, rs, m, k, f, g)
    BY <1>7 DEF Meant!Keeps
  <2>3. Meant!Solves(t, n, f) /\ Meant!Solves(rs, m, g)
    BY <1>3 DEF Meant!Solves
  <2> HIDE DEF n, m, k
  <2> QED
    BY ONLY <2>1, <2>2, <2>3, Meant!LaterShifted
<1> QED
  BY <1>8 DEF f, g, t

\* The first characters have their meaning, and the rest has its own.
LEMMA MeaningFirst ==
  ASSUME NEW p \in Seq(RuneType), NEW rs \in Seq(RuneType), NEW head, p # <<>>,
         \A f : MeaningAt(p \o rs, f, 1) = head \o f[1 + Len(p)]
  PROVE  Meaning(p \o rs) = head \o Meaning(rs)
<1> DEFINE t == p \o rs
           F == MeantFrom(t)
<1>1. t \in Seq(RuneType) /\ Len(t) = Len(p) + Len(rs) /\ Len(p) \in Nat /\ Len(rs) \in Nat
  BY ConcatProperties, Elements
<1>2. 1 \in 1..(Len(t) + 1) /\ 1 \in 1..(Len(rs) + 1)
  BY <1>1
<1>3. Meaning(t) = MeaningAt(t, F, 1)
  BY <1>1, <1>2, MeantFromIs DEF Meaning
<1>4. F[1 + Len(p)] = MeantFrom(rs)[1]
  BY <1>2, MeaningAfter
<1> QED
  BY <1>3, <1>4 DEF Meaning

\* A character that escapes nothing.
LEMMA MeaningPlain ==
  ASSUME NEW r \in RuneType, NEW rs \in Seq(RuneType), r.cp # Backslash, r.cp # CurrencySign
  PROVE  Meaning(<<r>> \o rs) = r.bytes \o Meaning(rs)
<1> DEFINE p == <<r>>
           t == p \o rs
<1>1. p \in Seq(RuneType) /\ Len(p) = 1 /\ p[1] = r /\ p # <<>>
  OBVIOUS
<1> HIDE DEF p
<1>2. t \in Seq(RuneType) /\ Len(t) = 1 + Len(rs) /\ Len(rs) \in Nat
      /\ \A i \in 1..1 : t[i] = p[i]
  <2>1. t \in Seq(RuneType) /\ Len(t) = Len(p) + Len(rs) /\ Len(rs) \in Nat
        /\ \A i \in 1..Len(p) : t[i] = p[i]
    <3>1. p \in Seq(RuneType) /\ rs \in Seq(RuneType)
      BY <1>1
    <3> QED
      BY ONLY <3>1, ConcatParts
  <2> QED
    BY <1>1, <2>1
<1>3. 1 \in 1..Len(t) /\ t[1] = r
  BY <1>1, <1>2
<1> HIDE DEF t
<1>4. ~(\E c \in Tier2 : EscapeAt(t, 1, c)) /\ ~(\E k \in 1..Len(t) : RunAt(t, 1, k))
  BY <1>3 DEF EscapeAt, RunAt
<1>5. \A f : MeaningAt(t, f, 1) = r.bytes \o f[1 + 1]
  BY <1>2, <1>3, <1>4, MeaningCases
<1>6. \A f : MeaningAt(t, f, 1) = r.bytes \o f[1 + Len(p)]
  BY <1>1, <1>5
<1>7. Meaning(t) = r.bytes \o Meaning(rs)
  BY <1>1, <1>6, MeaningFirst DEF t
<1> QED
  BY <1>7 DEF t, p

\* An escape is read as its character, whatever comes after it.
LEMMA MeaningEscape ==
  ASSUME NEW r \in RuneType, NEW q \in RuneType, NEW rs \in Seq(RuneType), NEW c \in Tier2,
         r.cp = Backslash, q.cp = Letter(c)
  PROVE  Meaning(<<r, q>> \o rs) = <<c>> \o Meaning(rs)
<1> DEFINE p == <<r, q>>
           t == p \o rs
<1>1. p \in Seq(RuneType) /\ Len(p) = 2 /\ p[1] = r /\ p[2] = q /\ p # <<>>
  OBVIOUS
<1> HIDE DEF p
<1> DEFINE two == Len(p)
<1> HIDE DEF t
<1>2. t \in Seq(RuneType) /\ Len(t) = two + Len(rs) /\ Len(rs) \in Nat
      /\ \A i \in 1..two : t[i] = p[i]
  <2>1. p \in Seq(RuneType) /\ rs \in Seq(RuneType)
    BY <1>1
  <2> QED
    BY ONLY <2>1, ConcatParts DEF t
<1>3. 1 \in 1..Len(t) /\ t[1] = r /\ t[2] = q /\ 1 < Len(t)
  <2>1. 1 \in 1..two /\ 2 \in 1..two /\ 1 \in 1..Len(t) /\ 1 < Len(t)
    BY <1>1, <1>2
  <2> QED
    BY <1>1, <1>2, <2>1
<1> HIDE DEF t
<1>4. EscapeAt(t, 1, c)
  BY <1>3 DEF EscapeAt
<1>5. PICK d \in Tier2 : EscapeAt(t, 1, d) /\ \A f : MeaningAt(t, f, 1) = <<d>> \o f[1 + 2]
  BY <1>2, <1>3, <1>4, MeaningCases
<1>6. d = c
  BY <1>4, <1>5 DEF EscapeAt, Letter, Tier2, Backslash
<1> DEFINE head == <<c>>
<1>7. \A f : MeaningAt(t, f, 1) = head \o f[1 + Len(p)]
  BY <1>1, <1>5, <1>6
<1>8. Meaning(t) = head \o Meaning(rs)
  <2> HIDE DEF head
  <2> QED
    BY <1>1, <1>7, MeaningFirst DEF t
<1> QED
  BY <1>8 DEF t, p

\* The bytes that characters of braille stand for.
ByteOf(cp) == cp - 10240

Decoded(b) == [i \in 1..Len(b) |-> ByteOf(b[i].cp)]

InSigns(r, b, q) == <<r>> \o b \o <<q>>

\* A run in currency signs is read as its bytes, whatever comes after it.
LEMMA MeaningRun ==
  ASSUME NEW r \in RuneType, NEW b \in Seq(RuneType), NEW q \in RuneType, NEW rs \in Seq(RuneType),
         r.cp = CurrencySign, q.cp = CurrencySign, b # <<>>,
         \A i \in 1..Len(b) : IsBraille(b[i].cp)
  PROVE  Meaning(InSigns(r, b, q) \o rs) = Decoded(b) \o Meaning(rs)
<1> DEFINE p == <<r>> \o b \o <<q>>
           t == p \o rs
           n == Len(b)
<1>1. n \in Nat \ {0} /\ Len(rs) \in Nat
  BY Elements, EmptySeq
<1>2. p \in Seq(RuneType) /\ Len(p) = n + 2 /\ p[1] = r /\ p[n + 2] = q
      /\ \A i \in 1..n : p[1 + i] = b[i]
  <2> DEFINE u == <<r>>
             v == <<q>>
             w == u \o b
  <2>1. u \in Seq(RuneType) /\ Len(u) = 1 /\ u[1] = r /\ v \in Seq(RuneType) /\ Len(v) = 1 /\ v[1] = q
    OBVIOUS
  <2> HIDE DEF u, v
  <2>2. w \in Seq(RuneType) /\ Len(w) = 1 + n
        /\ (\A i \in 1..1 : w[i] = u[i]) /\ (\A i \in 1..n : w[i + 1] = b[i])
    <3>1. w \in Seq(RuneType) /\ Len(w) = Len(u) + n
          /\ (\A i \in 1..Len(u) : w[i] = u[i]) /\ (\A i \in 1..n : w[i + Len(u)] = b[i])
      <4>1. u \in Seq(RuneType) /\ b \in Seq(RuneType)
        BY <2>1
      <4> QED
        BY ONLY <4>1, ConcatParts
    <3> HIDE DEF w
    <3> QED
      BY <2>1, <3>1
  <2> HIDE DEF w, n
  <2> DEFINE m == 1 + n
  <2>3. w \o v \in Seq(RuneType) /\ Len(w \o v) = m + 1
        /\ (\A i \in 1..m : (w \o v)[i] = w[i]) /\ (\A i \in 1..1 : (w \o v)[i + m] = v[i])
    <3> DEFINE x == w \o v
    <3>1. x \in Seq(RuneType) /\ Len(x) = Len(w) + Len(v)
          /\ (\A i \in 1..Len(w) : x[i] = w[i]) /\ (\A i \in 1..Len(v) : x[i + Len(w)] = v[i])
      <4>1. w \in Seq(RuneType) /\ v \in Seq(RuneType)
        BY <2>1, <2>2
      <4> QED
        BY ONLY <4>1, ConcatParts
    <3> HIDE DEF x
    <3>2. x \in Seq(RuneType) /\ Len(x) = m + 1
          /\ (\A i \in 1..m : x[i] = w[i]) /\ (\A i \in 1..1 : x[i + m] = v[i])
      BY <2>1, <2>2, <3>1
    <3> QED
      BY <3>2 DEF x
  <2>4. p = w \o v
    BY DEF u, v, w
  <2> HIDE DEF p
  <2>5. Len(p) = n + 2 /\ p \in Seq(RuneType)
    BY <1>1, <2>3, <2>4
  <2>6. p[1] = r
    <3>1. 1 \in 1..m /\ 1 \in 1..1
      BY <1>1
    <3> QED
      BY <2>1, <2>2, <2>3, <2>4, <3>1
  <2>7. p[n + 2] = q
    <3>1. 1 \in 1..1 /\ 1 + m = n + 2
      BY <1>1
    <3> QED
      BY <2>1, <2>3, <2>4, <3>1
  <2>8. ASSUME NEW i \in 1..n PROVE p[1 + i] = b[i]
    <3>1. i + 1 \in 1..m /\ 1 + i = i + 1
      BY <1>1
    <3> QED
      BY <2>2, <2>3, <2>4, <3>1
  <2> QED
    BY <2>5, <2>6, <2>7, <2>8
<1> HIDE DEF p, n
<1> DEFINE k == n + 2
<1>3. t \in Seq(RuneType) /\ Len(t) = k + Len(rs) /\ \A i \in 1..k : t[i] = p[i]
  <2>1. t \in Seq(RuneType) /\ Len(t) = Len(p) + Len(rs) /\ \A i \in 1..Len(p) : t[i] = p[i]
    <3>1. p \in Seq(RuneType) /\ rs \in Seq(RuneType)
      BY <1>2
    <3> QED
      BY ONLY <3>1, ConcatParts
  <2> HIDE DEF t
  <2> QED
    BY <1>2, <2>1
<1> HIDE DEF t
<1>4. \A i \in 1..(n + 2) : t[i] = p[i]
  BY <1>3
<1>5. 1 \in 1..Len(t) /\ n \in 1..Len(t) /\ t[1] = r /\ t[1 + n + 1] = q /\ 1 + n < Len(t)
      /\ \A i \in 1..n : t[1 + i] = b[i]
  <2>1. 1 \in 1..(n + 2) /\ n + 2 \in 1..(n + 2) /\ 1 + n + 1 = n + 2
        /\ \A i \in 1..n : 1 + i \in 1..(n + 2)
    BY <1>1
  <2>2. 1 \in 1..Len(t) /\ n \in 1..Len(t) /\ 1 + n < Len(t)
    BY <1>1, <1>3
  <2> QED
    BY <1>2, <1>4, <2>1, <2>2
<1>6. ~(\E c \in Tier2 : EscapeAt(t, 1, c))
  BY <1>5 DEF EscapeAt, CurrencySign, Backslash
<1>7. RunAt(t, 1, n)
  BY <1>5 DEF RunAt, n
<1>8. PICK l \in 1..Len(t) :
        RunAt(t, 1, l) /\ \A f : MeaningAt(t, f, 1) = BytesOfRun(t, 1, l) \o f[1 + l + 2]
  BY <1>3, <1>5, <1>6, <1>7, MeaningCases
<1>9. l = n
  BY <1>3, <1>5, <1>7, <1>8, OneRun
<1>10. BytesOfRun(t, 1, n) = Decoded(b)
  BY <1>5 DEF BytesOfRun, Decoded, ByteOf, n
<1>11. 1 + n + 2 = 1 + Len(p) /\ p # <<>>
  BY <1>1, <1>2, EmptySeq
<1> DEFINE head == Decoded(b)
<1>12. \A f : MeaningAt(t, f, 1) = head \o f[1 + Len(p)]
  <2>1. \A f : MeaningAt(t, f, 1) = BytesOfRun(t, 1, n) \o f[1 + n + 2]
    BY <1>8, <1>9
  <2> HIDE DEF head
  <2>2. BytesOfRun(t, 1, n) = head
    BY <1>10 DEF head
  <2> QED
    BY <1>11, <2>1, <2>2
<1>13. Meaning(p \o rs) = head \o Meaning(rs)
  <2> HIDE DEF head
  <2> QED
    BY <1>2, <1>11, <1>12, MeaningFirst DEF t
<1> QED
  BY <1>13 DEF p, n, InSigns

LEMMA MeaningOfNothing == Meaning(<<>>) = <<>>
<1> DEFINE e == <<>>
<1>1. e \in Seq(RuneType) /\ Len(e) = 0
  BY EmptySeq
<1> HIDE DEF e
<1>2. 1 \in 1..(Len(e) + 1) /\ 1 > Len(e)
  BY <1>1
<1>3. Meaning(e) = MeaningAt(e, MeantFrom(e), 1)
  BY <1>1, <1>2, MeantFromIs DEF Meaning
<1> QED
  BY <1>2, <1>3 DEF MeaningAt, e

-----------------------------------------------------------------------------
(* Characters that are UTF-8.                                                *)

\* c is the UTF-8 of cp.
IsUtf8(c, cp) ==
  \/ Len(c) = 1 /\ c[1] < 128 /\ cp = c[1]
  \/ Len(c) = 2 /\ IsTail(c[2]) /\ cp = OfTwo(c[1], c[2]) /\ IsTwo(c[1], cp)
  \/ /\ Len(c) = 3 /\ IsTail(c[2]) /\ IsTail(c[3])
     /\ cp = OfThree(c[1], c[2], c[3]) /\ IsThree(c[1], cp)
  \/ /\ Len(c) = 4 /\ IsTail(c[2]) /\ IsTail(c[3]) /\ IsTail(c[4])
     /\ cp = OfFour(c[1], c[2], c[3], c[4]) /\ IsFour(c[1], cp)

\* The first byte tells how many there are.
LEMMA FirstByte ==
  ASSUME NEW a \in Nat, NEW cp
  PROVE  /\ IsTwo(a, cp) => ~(a < 128)
         /\ IsThree(a, cp) => ~(a < 128) /\ \A x : ~IsTwo(a, x)
         /\ IsFour(a, cp) => ~(a < 128) /\ \A x : ~IsTwo(a, x) /\ ~IsThree(a, x)
<1>1. a \div 32 = 6 => ~(a < 128)
  OBVIOUS
<1>2. a \div 16 = 14 => ~(a < 128) /\ a \div 32 # 6
  OBVIOUS
<1>3. a \div 8 = 30 => ~(a < 128) /\ a \div 32 # 6 /\ a \div 16 # 14
  OBVIOUS
<1>4. ASSUME NEW x PROVE (IsTwo(a, x) => a \div 32 = 6) /\ (IsThree(a, x) => a \div 16 = 14)
  BY DEF IsTwo, IsThree
<1>5. IsFour(a, cp) => a \div 8 = 30
  BY DEF IsFour
<1> QED
  BY <1>1, <1>2, <1>3, <1>4, <1>5

\* What is read is UTF-8, or a replacement for one byte.
LEMMA RuneIsUtf8 ==
  ASSUME NEW s \in Text, NEW i \in 1..Len(s)
  PROVE  \/ IsUtf8(Rune(s, i).bytes, Rune(s, i).cp)
         \/ Rune(s, i).cp = Replacement /\ Len(Rune(s, i).bytes) = 1
<1>1. Len(s) \in Nat /\ \A k \in 1..Len(s) : s[k] \in 0..255
  BY TextElements
<1>2. ASSUME NEW n \in 1..4, i + n <= Len(s) + 1, NEW cp, Rune(s, i) = RuneOf(s, i, cp, n)
      PROVE  /\ Rune(s, i).cp = cp /\ Len(Rune(s, i).bytes) = n
             /\ \A k \in 1..n : Rune(s, i).bytes[k] = s[i + k - 1]
  <2> DEFINE u == SubSeq(s, i, i + n - 1)
  <2>1. Len(u) = n /\ \A k \in 1..n : u[k] = s[i + k - 1]
    BY <1>2, SubText
  <2> HIDE DEF u
  <2>2. Rune(s, i) = [cp |-> cp, bytes |-> u]
    BY <1>2 DEF RuneOf, u
  <2> QED
    BY <2>1, <2>2
<1>3. CASE s[i] < 128
  <2>1. Rune(s, i) = RuneOf(s, i, s[i], 1) /\ i + 1 <= Len(s) + 1 /\ i + 1 - 1 = i
    <3>1. i + 1 <= Len(s) + 1 /\ i + 1 - 1 = i
      BY <1>1
    <3> QED
      BY <1>3, <3>1, RuneCases
  <2>2. /\ Rune(s, i).cp = s[i] /\ Len(Rune(s, i).bytes) = 1
        /\ \A k \in 1..1 : Rune(s, i).bytes[k] = s[i + k - 1]
    BY <1>2, <2>1
  <2>3. Rune(s, i).bytes[1] = s[i]
    BY <2>1, <2>2
  <2> QED
    BY <1>3, <2>2, <2>3 DEF IsUtf8
<1>4. CASE /\ ~(s[i] < 128)
           /\ Tails(s, i, 1) /\ IsTwo(s[i], OfTwo(s[i], s[i + 1]))
  <2> DEFINE cp == OfTwo(s[i], s[i + 1])
  <2>1. i + 2 <= Len(s) + 1 /\ i + 1 - 1 = i /\ i + 2 - 1 = i + 1
    BY <1>1, <1>4 DEF Tails
  <2>2. Rune(s, i) = RuneOf(s, i, cp, 2)
    BY <1>4, RuneCases
  <2>3. /\ Rune(s, i).cp = cp /\ Len(Rune(s, i).bytes) = 2
        /\ \A k \in 1..2 : Rune(s, i).bytes[k] = s[i + k - 1]
    BY <1>2, <2>1, <2>2
  <2>4. Rune(s, i).bytes[1] = s[i] /\ Rune(s, i).bytes[2] = s[i + 1]
    BY <2>1, <2>3
  <2>5. IsTail(s[i + 1])
    BY <1>4 DEF Tails
  <2> QED
    BY <1>4, <2>3, <2>4, <2>5 DEF IsUtf8
<1>5. CASE /\ ~(s[i] < 128)
           /\ ~(Tails(s, i, 1) /\ IsTwo(s[i], OfTwo(s[i], s[i + 1])))
           /\ Tails(s, i, 2) /\ IsThree(s[i], OfThree(s[i], s[i + 1], s[i + 2]))
  <2> DEFINE cp == OfThree(s[i], s[i + 1], s[i + 2])
  <2>1. i + 3 <= Len(s) + 1 /\ i + 1 - 1 = i /\ i + 2 - 1 = i + 1 /\ i + 3 - 1 = i + 2
    BY <1>1, <1>5 DEF Tails
  <2>2. Rune(s, i) = RuneOf(s, i, cp, 3)
    BY <1>5, RuneCases
  <2>3. /\ Rune(s, i).cp = cp /\ Len(Rune(s, i).bytes) = 3
        /\ \A k \in 1..3 : Rune(s, i).bytes[k] = s[i + k - 1]
    BY <1>2, <2>1, <2>2
  <2>4. Rune(s, i).bytes[1] = s[i] /\ Rune(s, i).bytes[2] = s[i + 1] /\ Rune(s, i).bytes[3] = s[i + 2]
    BY <2>1, <2>3
  <2>5. IsTail(s[i + 1]) /\ IsTail(s[i + 2])
    BY <1>5 DEF Tails
  <2> QED
    BY <1>5, <2>3, <2>4, <2>5 DEF IsUtf8
<1>6. CASE /\ ~(s[i] < 128)
           /\ ~(Tails(s, i, 1) /\ IsTwo(s[i], OfTwo(s[i], s[i + 1])))
           /\ ~(Tails(s, i, 2) /\ IsThree(s[i], OfThree(s[i], s[i + 1], s[i + 2])))
           /\ Tails(s, i, 3) /\ IsFour(s[i], OfFour(s[i], s[i + 1], s[i + 2], s[i + 3]))
  <2> DEFINE cp == OfFour(s[i], s[i + 1], s[i + 2], s[i + 3])
  <2>1. /\ i + 4 <= Len(s) + 1 /\ i + 1 - 1 = i /\ i + 2 - 1 = i + 1 /\ i + 3 - 1 = i + 2
        /\ i + 4 - 1 = i + 3
    BY <1>1, <1>6 DEF Tails
  <2>2. Rune(s, i) = RuneOf(s, i, cp, 4)
    BY <1>6, RuneCases
  <2>3. /\ Rune(s, i).cp = cp /\ Len(Rune(s, i).bytes) = 4
        /\ \A k \in 1..4 : Rune(s, i).bytes[k] = s[i + k - 1]
    BY <1>2, <2>1, <2>2
  <2>4. /\ Rune(s, i).bytes[1] = s[i] /\ Rune(s, i).bytes[2] = s[i + 1]
        /\ Rune(s, i).bytes[3] = s[i + 2] /\ Rune(s, i).bytes[4] = s[i + 3]
    BY <2>1, <2>3
  <2>5. IsTail(s[i + 1]) /\ IsTail(s[i + 2]) /\ IsTail(s[i + 3])
    BY <1>6 DEF Tails
  <2> QED
    BY <1>6, <2>3, <2>4, <2>5 DEF IsUtf8
<1>7. CASE /\ ~(s[i] < 128)
           /\ ~(Tails(s, i, 1) /\ IsTwo(s[i], OfTwo(s[i], s[i + 1])))
           /\ ~(Tails(s, i, 2) /\ IsThree(s[i], OfThree(s[i], s[i + 1], s[i + 2])))
           /\ ~(Tails(s, i, 3) /\ IsFour(s[i], OfFour(s[i], s[i + 1], s[i + 2], s[i + 3])))
  <2>1. Rune(s, i) = RuneOf(s, i, Replacement, 1)
    BY <1>7, RuneCases
  <2>2. i + 1 <= Len(s) + 1
    BY <1>1
  <2> QED
    BY <1>2, <2>1, <2>2
<1> QED
  BY <1>3, <1>4, <1>5, <1>6, <1>7

\* UTF-8 is read as the code point, whatever comes after it.
LEMMA Utf8IsChar ==
  ASSUME NEW c \in Text, NEW cp, IsUtf8(c, cp)
  PROVE  IsChar(c, cp)
<1>1. Len(c) \in Nat /\ \A k \in 1..Len(c) : c[k] \in 0..255
  BY TextElements
<1>2. Len(c) \in 1..4
  BY DEF IsUtf8
<1>3. c # <<>>
  <2>1. Len(<<>>) = 0
    BY EmptySeq
  <2> QED
    BY <1>2, <2>1
<1> SUFFICES ASSUME NEW x \in Text
             PROVE  cp \in Nat /\ Rune(c \o x, 1) = [cp |-> cp, bytes |-> c]
  <2>1. <<>> \in Text
    BY EmptySeq DEF Text
  <2> QED
    BY <1>3, <2>1 DEF IsChar
<1> DEFINE t == c \o x
<1>4. t \in Text /\ Len(t) = Len(c) + Len(x) /\ Len(x) \in Nat /\ \A k \in 1..Len(c) : t[k] = c[k]
  BY ConcatParts DEF Text
<1>5. SubSeq(t, 1, Len(c)) = c
  <2>1. 1 \in 1..Len(c) /\ Len(c) \in 1..Len(c)
    BY <1>1, <1>2
  <2>2. SubSeq(t, 1, Len(c)) = SubSeq(c, 1, Len(c))
    BY <2>1, SubSeqOfConcat1 DEF Text
  <2> QED
    BY <2>2, SubSeqFull DEF Text
<1> HIDE DEF t
<1>6. \A n \in 1..4 : Len(c) = n => RuneOf(t, 1, cp, n) = [cp |-> cp, bytes |-> c]
  <2> TAKE n \in 1..4
  <2>1. 1 + n - 1 = n
    OBVIOUS
  <2> QED
    BY <1>5, <2>1 DEF RuneOf
<1>7. c[1] \in Nat /\ t[1] = c[1]
  <2>1. 1 \in 1..Len(c)
    BY <1>2
  <2>2. c[1] \in 0..255 /\ t[1] = c[1]
    BY <1>1, <1>4, <2>1
  <2> QED
    BY <2>2, BytesAreNumbers
<1>8. 1 \in 1..Len(t)
  BY <1>1, <1>2, <1>4
<1>9. Rune(t, 1) \in RuneType
  BY <1>4, <1>8, RuneTyped
<1>10. CASE Len(c) = 1 /\ c[1] < 128 /\ cp = c[1]
  <2>1. Rune(t, 1) = RuneOf(t, 1, cp, 1)
    BY <1>7, <1>10, RuneCases
  <2> QED
    BY <1>6, <1>7, <1>10, <2>1 DEF t
<1>11. CASE Len(c) = 2 /\ IsTail(c[2]) /\ cp = OfTwo(c[1], c[2]) /\ IsTwo(c[1], cp)
  <2>1. t[2] = c[2] /\ 1 + 1 = 2
    BY <1>4, <1>11
  <2>2. Tails(t, 1, 1)
    <3>1. 1 + 1 <= Len(t) /\ \A k \in 1..1 : 1 + k = 2
      BY <1>4, <1>11
    <3> QED
      BY <1>11, <2>1, <3>1 DEF Tails
  <2>3. Rune(t, 1) = RuneOf(t, 1, cp, 2)
    BY <1>7, <1>11, <2>1, <2>2, FirstByte, RuneCases
  <2>4. Rune(t, 1) = [cp |-> cp, bytes |-> c]
    BY <1>6, <1>11, <2>3
  <2> QED
    BY <1>9, <2>4 DEF t, RuneType
<1>12. CASE /\ Len(c) = 3 /\ IsTail(c[2]) /\ IsTail(c[3])
            /\ cp = OfThree(c[1], c[2], c[3]) /\ IsThree(c[1], cp)
  <2>1. t[2] = c[2] /\ t[3] = c[3] /\ 1 + 1 = 2 /\ 1 + 2 = 3
    BY <1>4, <1>12
  <2>2. Tails(t, 1, 2)
    <3>1. 1 + 2 <= Len(t) /\ \A k \in 1..2 : 1 + k = 2 \/ 1 + k = 3
      BY <1>4, <1>12
    <3> QED
      BY <1>12, <2>1, <3>1 DEF Tails
  <2>3. Rune(t, 1) = RuneOf(t, 1, cp, 3)
    BY <1>7, <1>12, <2>1, <2>2, FirstByte, RuneCases
  <2>4. Rune(t, 1) = [cp |-> cp, bytes |-> c]
    BY <1>6, <1>12, <2>3
  <2> QED
    BY <1>9, <2>4 DEF t, RuneType
<1>13. CASE /\ Len(c) = 4 /\ IsTail(c[2]) /\ IsTail(c[3]) /\ IsTail(c[4])
            /\ cp = OfFour(c[1], c[2], c[3], c[4]) /\ IsFour(c[1], cp)
  <2>1. t[2] = c[2] /\ t[3] = c[3] /\ t[4] = c[4] /\ 1 + 1 = 2 /\ 1 + 2 = 3 /\ 1 + 3 = 4
    BY <1>4, <1>13
  <2>2. Tails(t, 1, 3)
    <3>1. 1 + 3 <= Len(t) /\ \A k \in 1..3 : 1 + k = 2 \/ 1 + k = 3 \/ 1 + k = 4
      BY <1>4, <1>13
    <3> QED
      BY <1>13, <2>1, <3>1 DEF Tails
  <2>3. Rune(t, 1) = RuneOf(t, 1, cp, 4)
    BY <1>7, <1>13, <2>1, <2>2, FirstByte, RuneCases
  <2>4. Rune(t, 1) = [cp |-> cp, bytes |-> c]
    BY <1>6, <1>13, <2>3
  <2> QED
    BY <1>9, <2>4 DEF t, RuneType
<1> QED
  BY <1>10, <1>11, <1>12, <1>13 DEF IsUtf8

\* Short strings.
LEMMA BytesIs ==
  ASSUME NEW a \in Byte, NEW b \in Byte, NEW c \in Byte
  PROVE  /\ <<a>> \in Text /\ Len(<<a>>) = 1 /\ <<a>>[1] = a
         /\ <<a, b>> \in Text /\ Len(<<a, b>>) = 2 /\ <<a, b>>[1] = a /\ <<a, b>>[2] = b
         /\ <<a, b, c>> \in Text /\ Len(<<a, b, c>>) = 3
         /\ <<a, b, c>>[1] = a /\ <<a, b, c>>[2] = b /\ <<a, b, c>>[3] = c
BY DEF Text

\* What the encoders write are characters: ASCII, the currency sign, braille.
LEMMA OneByteIsChar ==
  ASSUME NEW b \in Nat, b < 128
  PROVE  IsChar(<<b>>, b)
<1>1. b \in Byte
  BY DEF Byte
<1>2. <<b>> \in Text /\ Len(<<b>>) = 1 /\ <<b>>[1] = b
  BY <1>1, BytesIs
<1>3. IsUtf8(<<b>>, b)
  BY <1>2 DEF IsUtf8
<1> QED
  BY <1>2, <1>3, Utf8IsChar

LEMMA CurrencySignIsChar == IsChar(Utf8(CurrencySign), CurrencySign)
<1> DEFINE a == 194
           b == 164
           c == <<a, b>>
<1>1. Utf8(CurrencySign) = c
  BY DEF Utf8, CurrencySign
<1>2. a \in Byte /\ b \in Byte
  BY DEF Byte
<1>3. IsTail(b) /\ CurrencySign = OfTwo(a, b) /\ IsTwo(a, CurrencySign)
  BY DEF IsTail, OfTwo, IsTwo, CurrencySign
<1> HIDE DEF a, b
<1>4. c \in Text /\ Len(c) = 2 /\ c[1] = a /\ c[2] = b
  BY <1>2, BytesIs
<1> HIDE DEF c
<1>5. IsUtf8(c, CurrencySign)
  BY <1>3, <1>4 DEF IsUtf8
<1> QED
  BY <1>1, <1>4, <1>5, Utf8IsChar

LEMMA BrailleIsChar ==
  ASSUME NEW b \in Byte
  PROVE  IsChar(Braille[b], 10240 + b) /\ IsBraille(10240 + b)
<1>1. b \in 0..255
  BY DEF Byte
<1> DEFINE p == 10240 + b
           q == 160 + (b \div 64)
           r == 128 + (b % 64)
           c == <<226, q, r>>
<1>2. p \div 4096 = 2 /\ (p \div 64) % 64 = 32 + (b \div 64) /\ p % 64 = b % 64
  <2>1. p \div 4096 = 2
    BY <1>1
  <2>2. p \div 64 = 160 + (b \div 64) /\ b \div 64 \in 0..3
    BY <1>1
  <2>3. p % 64 = b % 64
    BY <1>1
  <2>4. (160 + (b \div 64)) % 64 = 32 + (b \div 64)
    BY <2>2
  <2> QED
    BY <2>1, <2>2, <2>3, <2>4
<1>3. Braille[b] = c
  <2>1. Utf8(p) = <<224 + (p \div 4096), 128 + ((p \div 64) % 64), 128 + (p % 64)>>
    BY <1>1 DEF Utf8
  <2>2. 224 + (p \div 4096) = 226 /\ 128 + ((p \div 64) % 64) = q /\ 128 + (p % 64) = r
    BY <1>1, <1>2
  <2> QED
    BY <2>1, <2>2 DEF Braille
<1>4. 226 \in Byte /\ q \in Byte /\ r \in Byte
  BY <1>1 DEF Byte
<1>5. /\ IsTail(q) /\ IsTail(r)
      /\ p = OfThree(226, q, r) /\ IsThree(226, p)
  <2>1. IsTail(q)
    BY <1>1 DEF IsTail
  <2>2. IsTail(r)
    BY <1>1 DEF IsTail
  <2>3. q % 64 = 32 + (b \div 64) /\ r % 64 = b % 64 /\ 226 % 16 = 2
    BY <1>1
  <2>4. b = 64 * (b \div 64) + (b % 64)
    BY <1>1
  <2>5. p = OfThree(226, q, r)
    BY <2>3, <2>4, <1>1 DEF OfThree
  <2>6. 226 \div 16 = 14 /\ p >= 2048 /\ p \notin 55296..57343
    BY <1>1
  <2>7. IsThree(226, p)
    <3> HIDE DEF p
    <3> QED
      BY <2>6 DEF IsThree
  <2> QED
    BY <2>1, <2>2, <2>5, <2>7
<1>6. IsBraille(p)
  BY <1>1 DEF IsBraille
<1> HIDE DEF p, q, r
<1>7. c \in Text /\ Len(c) = 3 /\ c[1] = 226 /\ c[2] = q /\ c[3] = r
  <2> DEFINE z == 226
             t == <<z, q, r>>
  <2>1. z \in Byte /\ q \in Byte /\ r \in Byte
    BY <1>4
  <2> HIDE DEF z
  <2>2. t \in Text /\ Len(t) = 3 /\ t[1] = z /\ t[2] = q /\ t[3] = r
    BY ONLY <2>1, BytesIs
  <2> QED
    BY <2>2 DEF z
<1> HIDE DEF c
<1>8. IsUtf8(c, p)
  <2>1. /\ Len(c) = 3 /\ IsTail(c[2]) /\ IsTail(c[3])
        /\ p = OfThree(c[1], c[2], c[3]) /\ IsThree(c[1], p)
    BY <1>5, <1>7
  <2> QED
    BY ONLY <2>1 DEF IsUtf8
<1> QED
  BY <1>3, <1>6, <1>7, <1>8, Utf8IsChar DEF p

\* Only three bytes are read as U+FFFD where they are UTF-8.
LEMMA ReplacementBytes ==
  ASSUME NEW a \in Nat, NEW b \in Nat, NEW c \in Nat,
         IsTail(b), IsTail(c), OfThree(a, b, c) = 65533, a \div 16 = 14
  PROVE  a = 239 /\ b = 191 /\ c = 189
<1>1. a % 16 \in 0..15 /\ b % 64 \in 0..63 /\ c % 64 \in 0..63
  OBVIOUS
<1>2. \A x \in 0..15, y, z \in 0..63 : 65533 = 64 * (64 * x + y) + z => x = 15 /\ y = 63 /\ z = 61
  OBVIOUS
<1>3. a % 16 = 15 /\ b % 64 = 63 /\ c % 64 = 61
  <2>1. 65533 = 64 * (64 * (a % 16) + (b % 64)) + (c % 64)
    BY DEF OfThree
  <2> QED
    BY <1>1, <1>2, <2>1
<1>4. a = 239
  BY <1>3
<1>5. b \div 64 = 2 /\ c \div 64 = 2
  BY DEF IsTail
<1>6. b = 191 /\ c = 189
  BY <1>3, <1>5
<1> QED
  BY <1>4, <1>6

\* What else is read as U+FFFD.
LEMMA ReplacementIs ==
  ASSUME NEW c \in Text, IsUtf8(c, Replacement)
  PROVE  c = Utf8(Replacement)
<1>1. Len(c) \in Nat /\ \A k \in 1..Len(c) : c[k] \in Nat
  <2>1. Len(c) \in Nat /\ \A k \in 1..Len(c) : c[k] \in 0..255
    BY TextElements
  <2> QED
    BY <2>1, BytesAreNumbers
<1> DEFINE p == 239
           q == 191
           r == 189
           u == <<p, q, r>>
<1>2. Utf8(Replacement) = u
  BY DEF Utf8, Replacement
<1>3. CASE /\ Len(c) = 3 /\ IsTail(c[2]) /\ IsTail(c[3])
           /\ Replacement = OfThree(c[1], c[2], c[3]) /\ IsThree(c[1], Replacement)
  <2>1. c[1] \in Nat /\ c[2] \in Nat /\ c[3] \in Nat
    <3>1. 1 \in 1..Len(c) /\ 2 \in 1..Len(c) /\ 3 \in 1..Len(c)
      BY <1>3
    <3> QED
      BY <1>1, <3>1
  <2>2. c[1] \div 16 = 14 /\ OfThree(c[1], c[2], c[3]) = 65533
    BY <1>3 DEF IsThree, Replacement
  <2>3. c[1] = p /\ c[2] = q /\ c[3] = r
    BY <1>3, <2>1, <2>2, ReplacementBytes
  <2>4. p \in Byte /\ q \in Byte /\ r \in Byte
    BY DEF Byte
  <2> HIDE DEF p, q, r
  <2>5. u \in Text /\ Len(u) = 3 /\ u[1] = p /\ u[2] = q /\ u[3] = r
    BY <2>4, BytesIs
  <2> HIDE DEF u
  <2>6. \A k \in 1..Len(c) : c[k] = u[k]
    <3>1. \A k \in 1..Len(c) : k = 1 \/ k = 2 \/ k = 3
      BY <1>3
    <3> QED
      BY <2>3, <2>5, <3>1
  <2>7. c = u
    BY <1>3, <2>5, <2>6, SeqEqual DEF Text
  <2> QED
    BY <1>2, <2>7
<1> HIDE DEF p, q, r, u
<1>4. ~(Len(c) = 1 /\ c[1] < 128 /\ Replacement = c[1])
  BY DEF Replacement
<1>5. ~(Len(c) = 2 /\ IsTail(c[2]) /\ Replacement = OfTwo(c[1], c[2]) /\ IsTwo(c[1], Replacement))
  <2> SUFFICES ASSUME Len(c) = 2 PROVE Replacement # OfTwo(c[1], c[2])
    OBVIOUS
  <2>1. 1 \in 1..Len(c) /\ 2 \in 1..Len(c)
    OBVIOUS
  <2>2. c[1] \in Nat /\ c[2] \in Nat
    BY <1>1, <2>1
  <2>3. \A a, b \in Nat : OfTwo(a, b) # Replacement
    BY DEF OfTwo, Replacement
  <2> QED
    BY <2>2, <2>3
<1>6. \A a : ~IsFour(a, Replacement)
  BY DEF IsFour, Replacement
<1> QED
  BY <1>3, <1>4, <1>5, <1>6 DEF IsUtf8

\* Strings together.
LEMMA TextConcat ==
  ASSUME NEW a \in Text, NEW b \in Text
  PROVE  /\ a \o b \in Text
         /\ a \o <<>> = a /\ <<>> \o a = a
BY ConcatProperties, ConcatEmptySeq DEF Text

LEMMA TextAssociative ==
  ASSUME NEW a \in Text, NEW b \in Text, NEW c \in Text
  PROVE  (a \o b) \o c = a \o (b \o c)
BY ConcatAssociative DEF Text

LEMMA RunesConcat ==
  ASSUME NEW a \in Seq(RuneType), NEW b \in Seq(RuneType)
  PROVE  /\ a \o b \in Seq(RuneType)
         /\ a \o <<>> = a /\ <<>> \o a = a
BY ConcatProperties, ConcatEmptySeq

\* Two sequences of one make one of two.
LEMMA PairIs ==
  ASSUME NEW S, NEW a \in S, NEW b \in S
  PROVE  <<a>> \o <<b>> = <<a, b>>
<1> DEFINE u == <<a>>
           v == <<b>>
           w == <<a, b>>
<1>1. /\ u \in Seq(S) /\ Len(u) = 1 /\ u[1] = a /\ v \in Seq(S) /\ Len(v) = 1 /\ v[1] = b
      /\ w \in Seq(S) /\ Len(w) = 2 /\ w[1] = a /\ w[2] = b
  OBVIOUS
<1> HIDE DEF u, v, w
<1>2. u \o v \in Seq(S) /\ Len(u \o v) = Len(u) + Len(v)
      /\ (\A i \in 1..Len(u) : (u \o v)[i] = u[i]) /\ \A i \in 1..Len(v) : (u \o v)[i + Len(u)] = v[i]
  <2>1. u \in Seq(S) /\ v \in Seq(S)
    BY <1>1
  <2> QED
    BY ONLY <2>1, ConcatParts
<1>3. Len(u \o v) = 2 /\ (u \o v)[1] = a /\ (u \o v)[2] = b
  <2>1. 1 \in 1..Len(u) /\ 1 \in 1..Len(v) /\ 1 + Len(u) = 2
    BY <1>1
  <2> QED
    BY <1>1, <1>2, <2>1
<1>4. \A i \in 1..2 : i = 1 \/ i = 2
  OBVIOUS
<1>5. u \o v = w
  BY <1>1, <1>2, <1>3, <1>4, SeqEqual
<1> QED
  BY <1>5 DEF u, v, w

LEMMA NoText == <<>> \in Text
BY EmptySeq DEF Text

\* A text is read as these characters, whatever comes after it.
Spells(text, rs) ==
  /\ text \in Text /\ rs \in Seq(RuneType)
  /\ \A x \in Text : Runes(text \o x) = rs \o Runes(x)

\* What is spelled one after the other.
LEMMA SpellsNothing == Spells(<<>>, <<>>)
<1> DEFINE e == <<>>
<1>1. e \in Text /\ e \in Seq(RuneType)
  BY NoText, EmptySeq
<1>2. ASSUME NEW x \in Text PROVE Runes(<<>> \o x) = <<>> \o Runes(x)
  BY RunesTyped, TextConcat, RunesConcat
<1> QED
  BY <1>1, <1>2 DEF Spells

LEMMA SpellsChar ==
  ASSUME NEW c, NEW cp, IsChar(c, cp)
  PROVE  [cp |-> cp, bytes |-> c] \in RuneType /\ Spells(c, <<[cp |-> cp, bytes |-> c]>>)
<1> DEFINE r == [cp |-> cp, bytes |-> c]
<1>1. c \in Text /\ r \in RuneType
  BY DEF IsChar, RuneType
<1>2. \A x \in Text : Runes(c \o x) = <<r>> \o Runes(x)
  BY RunesOfChar
<1> HIDE DEF r
<1>3. <<r>> \in Seq(RuneType)
  BY <1>1, OneIs
<1> QED
  BY <1>1, <1>2, <1>3 DEF Spells, r

LEMMA SpellsConcat ==
  ASSUME NEW a, NEW rs, NEW b, NEW qs, Spells(a, rs), Spells(b, qs)
  PROVE  Spells(a \o b, rs \o qs)
<1>1. a \in Text /\ b \in Text /\ rs \in Seq(RuneType) /\ qs \in Seq(RuneType)
  BY DEF Spells
<1>2. a \o b \in Text /\ rs \o qs \in Seq(RuneType)
  BY <1>1, TextConcat, RunesConcat
<1>3. ASSUME NEW x \in Text
      PROVE  Runes((a \o b) \o x) = (rs \o qs) \o Runes(x)
  <2>1. (a \o b) \o x = a \o (b \o x) /\ b \o x \in Text
    <3>1. (a \o b) \o x = a \o (b \o x)
      <4>1. a \in Text /\ b \in Text /\ x \in Text
        BY <1>1
      <4> QED
        BY ONLY <4>1, TextAssociative
    <3>2. b \o x \in Text
      BY ONLY <1>1, x \in Text, TextConcat
    <3> QED
      BY <3>1, <3>2
  <2>2. Runes(a \o (b \o x)) = rs \o Runes(b \o x)
    BY <2>1 DEF Spells
  <2>3. Runes(b \o x) = qs \o Runes(x)
    BY DEF Spells
  <2>4. rs \o (qs \o Runes(x)) = (rs \o qs) \o Runes(x)
    <3>1. rs \in Seq(RuneType) /\ qs \in Seq(RuneType) /\ Runes(x) \in Seq(RuneType)
      BY <1>1, RunesTyped
    <3> QED
      BY ONLY <3>1, ConcatAssociative
  <2> QED
    BY <2>1, <2>2, <2>3, <2>4
<1> QED
  BY <1>2, <1>3 DEF Spells

\* UnsafeName reads text as meaning, whatever comes after it.
Reads(text, meaning) ==
  /\ text \in Text /\ meaning \in Text
  /\ \A x \in Text : UnsafeName(text \o x) = meaning \o UnsafeName(x)

\* What is read one after the other.
LEMMA UnsafeNameTyped ==
  ASSUME NEW s \in Text
  PROVE  UnsafeName(s) \in Text
BY UnsafeNameIs, RunesTyped, MeantFromIs

LEMMA ReadsNothing == Reads(<<>>, <<>>)
<1> DEFINE e == <<>>
<1>1. e \in Text
  BY NoText
<1>2. ASSUME NEW x \in Text PROVE UnsafeName(<<>> \o x) = <<>> \o UnsafeName(x)
  BY UnsafeNameTyped, TextConcat
<1> QED
  BY <1>1, <1>2 DEF Reads

LEMMA ReadsConcat ==
  ASSUME NEW a, NEW m, NEW b, NEW n, Reads(a, m), Reads(b, n)
  PROVE  Reads(a \o b, m \o n)
<1>1. a \in Text /\ b \in Text /\ m \in Text /\ n \in Text
  BY DEF Reads
<1>2. a \o b \in Text /\ m \o n \in Text
  BY <1>1, TextConcat
<1>3. ASSUME NEW x \in Text
      PROVE  UnsafeName((a \o b) \o x) = (m \o n) \o UnsafeName(x)
  <2>1. (a \o b) \o x = a \o (b \o x) /\ b \o x \in Text
    <3>1. (a \o b) \o x = a \o (b \o x)
      <4>1. a \in Text /\ b \in Text /\ x \in Text
        BY <1>1
      <4> QED
        BY ONLY <4>1, TextAssociative
    <3>2. b \o x \in Text
      BY ONLY <1>1, x \in Text, TextConcat
    <3> QED
      BY <3>1, <3>2
  <2>2. UnsafeName(a \o (b \o x)) = m \o UnsafeName(b \o x)
    BY <2>1 DEF Reads
  <2>3. UnsafeName(b \o x) = n \o UnsafeName(x)
    BY DEF Reads
  <2>4. m \o (n \o UnsafeName(x)) = (m \o n) \o UnsafeName(x)
    <3> DEFINE y == UnsafeName(x)
    <3>1. m \in Text /\ n \in Text /\ y \in Text
      BY <1>1, UnsafeNameTyped
    <3> HIDE DEF y
    <3>2. (m \o n) \o y = m \o (n \o y)
      BY ONLY <3>1, TextAssociative
    <3> QED
      BY <3>2 DEF y
  <2> QED
    BY <2>1, <2>2, <2>3, <2>4
<1> QED
  BY <1>2, <1>3 DEF Reads

\* The meaning of the characters is the meaning of the text.
LEMMA ReadsSpelled ==
  ASSUME NEW text, NEW rs, NEW meaning \in Text, Spells(text, rs),
         \A qs \in Seq(RuneType) : Meaning(rs \o qs) = meaning \o Meaning(qs)
  PROVE  Reads(text, meaning)
<1>1. text \in Text
  BY DEF Spells
<1>2. ASSUME NEW x \in Text
      PROVE  UnsafeName(text \o x) = meaning \o UnsafeName(x)
  <2>1. Runes(text \o x) = rs \o Runes(x) /\ Runes(x) \in Seq(RuneType)
    BY RunesTyped DEF Spells
  <2>2. Meaning(rs \o Runes(x)) = meaning \o Meaning(Runes(x))
    BY <2>1
  <2> QED
    BY <2>1, <2>2, UnsafeNameIs
<1> QED
  BY <1>1, <1>2 DEF Reads

\* A character that escapes nothing stands for itself.
LEMMA ReadsChar ==
  ASSUME NEW c, NEW cp, IsChar(c, cp), cp # Backslash, cp # CurrencySign
  PROVE  Reads(c, c)
<1> DEFINE r == [cp |-> cp, bytes |-> c]
<1>1. r \in RuneType /\ Spells(c, <<r>>) /\ c \in Text /\ r.cp = cp /\ r.bytes = c
  BY SpellsChar DEF IsChar
<1> HIDE DEF r
<1>2. \A qs \in Seq(RuneType) : Meaning(<<r>> \o qs) = c \o Meaning(qs)
  BY <1>1, MeaningPlain
<1> QED
  BY <1>1, <1>2, ReadsSpelled

\* An escape is read as what it stands for.
LEMMA ReadsEscape ==
  ASSUME NEW c \in Tier2
  PROVE  Reads(<<Backslash, Letter(c)>>, <<c>>)
<1> DEFINE a == Backslash
           b == Letter(c)
           r == [cp |-> a, bytes |-> <<a>>]
           q == [cp |-> b, bytes |-> <<b>>]
<1>1. a \in Nat /\ a < 128 /\ b \in Nat /\ b < 128 /\ c \in Byte
  BY DEF Backslash, Letter, Tier2, Byte
<1>2. IsChar(<<a>>, a) /\ IsChar(<<b>>, b)
  <2> HIDE DEF a, b
  <2> QED
    BY <1>1, OneByteIsChar
<1>3. r \in RuneType /\ q \in RuneType /\ Spells(<<a>>, <<r>>) /\ Spells(<<b>>, <<q>>)
      /\ r.cp = a /\ q.cp = b
  <2> HIDE DEF a, b
  <2> QED
    BY <1>2, SpellsChar
<1> HIDE DEF r, q
<1> DEFINE w == <<a>>
           x == <<b>>
           y == <<r>>
           z == <<q>>
           t == <<a, b>>
           rs == <<r, q>>
           m == <<c>>
<1>4. Spells(w, y) /\ Spells(x, z) /\ w \o x = t /\ y \o z = rs /\ m \in Text
  <2>1. Spells(w, y) /\ Spells(x, z)
    BY <1>3
  <2>2. w \o x = t /\ y \o z = rs
    <3>1. a \in Nat /\ b \in Nat /\ r \in RuneType /\ q \in RuneType
      BY <1>1, <1>3
    <3> HIDE DEF a, b
    <3> QED
      BY <3>1, PairIs
  <2>3. m \in Text
    BY <1>1, BytesIs
  <2> QED
    BY <2>1, <2>2, <2>3
<1>5. \A qs \in Seq(RuneType) : Meaning(rs \o qs) = m \o Meaning(qs)
  BY <1>3, MeaningEscape
<1>6. Reads(t, m)
  <2> HIDE DEF w, x, y, z, t, rs, m
  <2>1. Spells(w \o x, y \o z)
    BY <1>4, SpellsConcat
  <2>2. Spells(t, rs)
    BY <1>4, <2>1
  <2> QED
    BY <1>4, <1>5, <2>2, ReadsSpelled
<1> QED
  BY <1>6

-----------------------------------------------------------------------------
(* Runs of braille.                                                          *)

AddBraille(c, acc, b) == acc \o Braille[b]

Brailling == INSTANCE FoldFacts WITH Op <- AddBraille

\* The braille of some bytes is a fold, and spells a character for each.
LEMMA BrailleIs ==
  ASSUME NEW bytes
  PROVE  FoldLeft(LAMBDA acc, b : acc \o Braille[b], <<>>, bytes) = Brailling!Fold(0, <<>>, bytes)
BY DEF FoldLeft, MapThenFoldSet, Max, AddBraille,
       Brailling!Fold, Brailling!FoldLeft, Brailling!MapThenFoldSet, Brailling!Max

BrailleRune(b) == [cp |-> 10240 + b, bytes |-> Braille[b]]

BrailleRunes(bytes) == [i \in 1..Len(bytes) |-> BrailleRune(bytes[i])]

LEMMA BrailleRuneIs ==
  ASSUME NEW b \in Byte
  PROVE  /\ BrailleRune(b) \in RuneType
         /\ ByteOf(BrailleRune(b).cp) = b
         /\ IsBraille(BrailleRune(b).cp)
         /\ Spells(Braille[b], <<BrailleRune(b)>>)
<1>1. IsChar(Braille[b], 10240 + b) /\ IsBraille(10240 + b)
  BY BrailleIsChar
<1>2. BrailleRune(b) \in RuneType /\ Spells(Braille[b], <<BrailleRune(b)>>)
  BY <1>1, SpellsChar DEF BrailleRune
<1>3. ByteOf(10240 + b) = b
  BY DEF Byte, ByteOf
<1>4. BrailleRune(b).cp = 10240 + b
  BY DEF BrailleRune
<1> QED
  BY <1>1, <1>2, <1>3, <1>4

LEMMA BrailleRunesAre ==
  ASSUME NEW bytes \in Text
  PROVE  /\ Len(bytes) \in Nat
         /\ BrailleRunes(bytes) \in Seq(RuneType)
         /\ Len(BrailleRunes(bytes)) = Len(bytes)
         /\ \A i \in 1..Len(bytes) : BrailleRunes(bytes)[i] = BrailleRune(bytes[i])
         /\ \A i \in 1..Len(bytes) : bytes[i] \in Byte
<1>1. Len(bytes) \in Nat /\ \A i \in 1..Len(bytes) : bytes[i] \in Byte
  BY Elements DEF Text
<1>2. \A i \in 1..Len(bytes) : BrailleRune(bytes[i]) \in RuneType
  BY <1>1, BrailleRuneIs
<1>3. BrailleRunes(bytes) \in [1..Len(bytes) -> RuneType]
  BY <1>2 DEF BrailleRunes
<1>4. BrailleRunes(bytes) \in Seq(RuneType)
  BY <1>1, <1>3, SeqDef
<1>5. Len(BrailleRunes(bytes)) = Len(bytes)
  <2>1. DOMAIN BrailleRunes(bytes) = 1..Len(bytes)
    BY DEF BrailleRunes
  <2> QED
    BY <1>1, <1>4, <2>1, LenProperties
<1>6. \A i \in 1..Len(bytes) : BrailleRunes(bytes)[i] = BrailleRune(bytes[i])
  BY DEF BrailleRunes
<1> QED
  BY <1>1, <1>4, <1>5, <1>6

LEMMA BrailleSpells ==
  ASSUME NEW bytes \in Text
  PROVE  Spells(Brailling!Fold(0, <<>>, bytes), BrailleRunes(bytes))
<1> DEFINE n == Len(bytes)
           rs == BrailleRunes(bytes)
           e == <<>>
<1>1. n \in Nat /\ rs \in Seq(RuneType) /\ Len(rs) = n
      /\ \A i \in 1..n : Spells(Braille[bytes[i]], <<rs[i]>>)
  <2>1. n \in Nat /\ rs \in Seq(RuneType) /\ Len(rs) = n
        /\ (\A i \in 1..n : rs[i] = BrailleRune(bytes[i])) /\ \A i \in 1..n : bytes[i] \in Byte
    BY BrailleRunesAre
  <2> HIDE DEF rs, n
  <2>2. \A i \in 1..n : Spells(Braille[bytes[i]], <<rs[i]>>)
    BY <2>1, BrailleRuneIs
  <2> QED
    BY <2>1, <2>2
<1>2. PICK a : /\ a[0] = e
               /\ \A k \in 1..n : a[k] = AddBraille(0, a[k - 1], bytes[k])
               /\ Brailling!Fold(0, e, bytes) = a[n]
  <2>1. bytes \in Seq(Byte)
    BY DEF Text
  <2> HIDE DEF e
  <2> QED
    BY <2>1, Brailling!FoldWalk
<1> HIDE DEF rs
<1> DEFINE S == {k \in Nat : k <= n => Spells(a[k], SubSeq(rs, 1, k))}
<1>3. 0 \in S
  <2>1. SubSeq(rs, 1, 0) = <<>>
    BY SubSeqEmpty
  <2>2. Spells(a[0], SubSeq(rs, 1, 0))
    BY <1>2, <2>1, SpellsNothing
  <2> QED
    BY <2>2
<1>4. ASSUME NEW k \in Nat, k \in S
      PROVE  k + 1 \in S
  <2> SUFFICES ASSUME k + 1 <= n PROVE Spells(a[k + 1], SubSeq(rs, 1, k + 1))
    OBVIOUS
  <2>1. k + 1 \in 1..n /\ (k + 1) - 1 = k /\ k <= n
    BY <1>1
  <2>2. a[k + 1] = a[k] \o Braille[bytes[k + 1]]
    BY <1>2, <2>1 DEF AddBraille
  <2>3. SubSeq(rs, 1, k + 1) = SubSeq(rs, 1, k) \o <<rs[k + 1]>>
    <3>1. 1 \in 1..Len(rs) /\ k + 1 \in 1..Len(rs)
      BY <1>1, <2>1
    <3> QED
      BY <1>1, <2>1, <3>1, SubSeqRecursiveSecond
  <2>4. Spells(a[k], SubSeq(rs, 1, k)) /\ Spells(Braille[bytes[k + 1]], <<rs[k + 1]>>)
    BY <1>1, <1>4, <2>1
  <2> QED
    BY <2>2, <2>3, <2>4, SpellsConcat
<1>5. n \in S
  <2> HIDE DEF S
  <2> QED
    BY <1>1, <1>3, <1>4, AllNats
<1>6. SubSeq(rs, 1, n) = rs
  BY <1>1, SubSeqFull
<1>7. Spells(a[n], SubSeq(rs, 1, n))
  BY <1>1, <1>5
<1> QED
  BY <1>2, <1>6, <1>7 DEF rs

\* So what goes in currency signs is read as the bytes that went.
LEMMA ReadsRun ==
  ASSUME NEW bytes \in Text
  PROVE  Reads(InCurrencySigns(bytes), bytes)
<1>1. CASE bytes = <<>>
  BY <1>1, ReadsNothing DEF InCurrencySigns
<1>2. CASE bytes # <<>>
  <2> DEFINE sign == Utf8(CurrencySign)
             text == Brailling!Fold(0, <<>>, bytes)
             r == [cp |-> CurrencySign, bytes |-> sign]
             b == BrailleRunes(bytes)
             rs == InSigns(r, b, r)
  <2>1. InCurrencySigns(bytes) = sign \o text \o sign
    BY <1>2, BrailleIs DEF InCurrencySigns
  <2>2. r \in RuneType /\ Spells(sign, <<r>>) /\ r.cp = CurrencySign
    BY CurrencySignIsChar, SpellsChar
  <2>3. Spells(text, b)
    BY BrailleSpells
  <2>4. b \in Seq(RuneType) /\ Len(b) = Len(bytes)
        /\ \A i \in 1..Len(bytes) : ByteOf(b[i].cp) = bytes[i] /\ IsBraille(b[i].cp)
    <3>1. b \in Seq(RuneType) /\ Len(b) = Len(bytes)
          /\ (\A i \in 1..Len(bytes) : b[i] = BrailleRune(bytes[i]))
          /\ \A i \in 1..Len(bytes) : bytes[i] \in Byte
      BY BrailleRunesAre
    <3> HIDE DEF b
    <3> QED
      BY <3>1, BrailleRuneIs
  <2>5. Len(bytes) \in Nat \ {0}
    BY <1>2, EmptySeq DEF Text
  <2>6. b # <<>>
    <3>1. Len(<<>>) = 0
      BY EmptySeq
    <3> QED
      BY <2>4, <2>5, <3>1
  <2> HIDE DEF sign, text, r, b
  <2>7. Spells(sign \o text \o sign, rs)
    <3> DEFINE u == <<r>>
    <3>1. Spells(sign, u)
      BY <2>2
    <3>2. Spells(sign \o text \o sign, u \o b \o u)
      <4> HIDE DEF u
      <4>1. Spells(sign \o text, u \o b)
        BY <2>3, <3>1, SpellsConcat
      <4> QED
        BY <3>1, <4>1, SpellsConcat
    <3> QED
      BY <3>2 DEF InSigns
  <2>8. Decoded(b) = bytes
    <3>1. Decoded(b) = [i \in 1..Len(bytes) |-> bytes[i]]
      BY <2>4 DEF Decoded
    <3>2. bytes = [i \in 1..Len(bytes) |-> bytes[i]]
      BY LenProperties DEF Text
    <3> QED
      BY <3>1, <3>2
  <2>9. \A qs \in Seq(RuneType) : Meaning(rs \o qs) = bytes \o Meaning(qs)
    <3> TAKE qs \in Seq(RuneType)
    <3>1. \A i \in 1..Len(b) : IsBraille(b[i].cp)
      BY <2>4
    <3>2. Meaning(rs \o qs) = Decoded(b) \o Meaning(qs)
      BY ONLY <2>2, <2>4, <2>6, <3>1, qs \in Seq(RuneType), MeaningRun
    <3> QED
      BY <2>8, <3>2
  <2> HIDE DEF rs
  <2>10. Reads(sign \o text \o sign, bytes)
    BY <2>7, <2>9, ReadsSpelled
  <2> QED
    BY <2>1, <2>10
<1> QED
  BY <1>1, <1>2

-----------------------------------------------------------------------------
(* SafeName.                                                                 *)

SafeStep(c, acc, r) ==
  LET flushed == acc.out \o InCurrencySigns(acc.pending)
  IN IF IsPlain(r.cp) THEN [out |-> flushed \o r.bytes, pending |-> <<>>]
     ELSE IF r.cp \in Tier2
          THEN [out |-> flushed \o <<Backslash, Letter(r.cp)>>, pending |-> <<>>]
     ELSE [acc EXCEPT !.pending =
             @ \o IF r.cp = Replacement THEN <<r.bytes[1]>> ELSE r.bytes]

Escaping == INSTANCE FoldFacts WITH Op <- SafeStep

Start == [out |-> <<>>, pending |-> <<>>]

\* SafeName is a fold over the characters of the name.
LEMMA SafeNameIs ==
  ASSUME NEW raw
  PROVE  SafeName(raw) = Escaping!Fold(0, Start, Runes(raw)).out
                           \o InCurrencySigns(Escaping!Fold(0, Start, Runes(raw)).pending)
BY DEF SafeName, Start, SafeStep, FoldLeft, MapThenFoldSet, Max,
       Escaping!Fold, Escaping!FoldLeft, Escaping!MapThenFoldSet, Escaping!Max

\* What was written is read as done, and with the bytes that wait it is s
\* before byte i.
Written(s, acc, i) ==
  /\ acc \in [out : Text, pending : Text]
  /\ \E done \in Text : Reads(acc.out, done) /\ done \o acc.pending = SubSeq(s, 1, i - 1)

\* The bytes of a character go on from those before it.
LEMMA NextBytes ==
  ASSUME NEW s \in Text, NEW i \in 1..Len(s)
  PROVE  SubSeq(s, 1, i - 1) \o Rune(s, i).bytes = SubSeq(s, 1, (i + Len(Rune(s, i).bytes)) - 1)
<1> DEFINE n == Len(Rune(s, i).bytes)
<1>1. n \in Nat \ {0} /\ i + n <= Len(s) + 1 /\ Rune(s, i).bytes = SubSeq(s, i, i + n - 1)
  BY RuneTyped
<1> HIDE DEF n
<1>2. Len(s) \in Nat
  BY TextElements
<1> DEFINE k == i - 1
           l == (i + n) - 1
<1>3. /\ 1 \in 1..(Len(s) + 1) /\ k \in (1 - 1)..Len(s) /\ l \in k..Len(s) /\ k + 1 = i
      /\ i + n - 1 = l
  BY <1>1, <1>2
<1>4. s \in Seq(Byte)
  BY DEF Text
<1>5. SubSeq(s, 1, k) \o SubSeq(s, k + 1, l) = SubSeq(s, 1, l)
  <2> HIDE DEF k, l
  <2> QED
    BY <1>3, <1>4, ConcatAdjacentSubSeq
<1>6. SubSeq(s, k + 1, l) = Rune(s, i).bytes
  <2> HIDE DEF k, l
  <2> QED
    BY <1>1, <1>3
<1>7. SubSeq(s, 1, k) \o Rune(s, i).bytes = SubSeq(s, 1, l)
  BY <1>5, <1>6
<1> QED
  BY <1>7 DEF n

\* Without U+FFFD what is no UTF-8 is a byte, which is what goes.
LEMMA NoReplacementRead ==
  ASSUME NEW s \in Text, NoReplacement(s), NEW i \in 1..Len(s), Rune(s, i).cp = Replacement
  PROVE  <<Rune(s, i).bytes[1]>> = Rune(s, i).bytes
<1> DEFINE c == Rune(s, i).bytes
           t == Utf8(Replacement)
           n == Len(c)
<1>1. c \in Text /\ n \in Nat \ {0} /\ i + n <= Len(s) + 1 /\ c = SubSeq(s, i, i + n - 1)
  BY RuneTyped DEF RuneType
<1>2. Len(s) \in Nat /\ DOMAIN s = 1..Len(s)
  BY LenProperties DEF Text
<1>3. ~IsUtf8(c, Replacement)
  <2> SUFFICES ASSUME IsUtf8(c, Replacement) PROVE FALSE
    OBVIOUS
  <2>1. c = t
    BY <1>1, ReplacementIs
  <2>2. i + Len(t) - 1 <= Len(s)
    BY <1>1, <1>2, <2>1
  <2>3. SubSeq(s, i, i + Len(t) - 1) = t
    BY <1>1, <2>1
  <2>4. Starts(s, i, t)
    BY <2>2, <2>3 DEF Starts
  <2> QED
    BY <1>2, <2>4 DEF NoReplacement
<1>4. n = 1
  BY <1>3, RuneIsUtf8
<1> HIDE DEF c, n
<1>5. c[1] \in Byte
  BY <1>1, <1>4, Elements DEF Text, n
<1> DEFINE u == <<c[1]>>
<1>6. u \in Text /\ Len(u) = 1 /\ u[1] = c[1]
  BY <1>5, BytesIs
<1> HIDE DEF u
<1>7. \A k \in 1..1 : k = 1
  OBVIOUS
<1>8. u = c
  BY <1>1, <1>4, <1>6, <1>7, SeqEqual DEF Text, n
<1> QED
  BY <1>8 DEF u, c

\* A character below 128 is its byte.
LEMMA SmallRune ==
  ASSUME NEW c \in Text, NEW cp \in Nat, IsUtf8(c, cp), cp < 128
  PROVE  c = <<cp>>
<1>1. \A a : ~IsTwo(a, cp) /\ ~IsThree(a, cp) /\ ~IsFour(a, cp)
  BY DEF IsTwo, IsThree, IsFour
<1>2. Len(c) = 1 /\ c[1] = cp
  BY <1>1 DEF IsUtf8
<1> DEFINE u == <<cp>>
<1>3. cp \in Byte
  BY DEF Byte
<1>4. u \in Text /\ Len(u) = 1 /\ u[1] = cp
  BY <1>3, BytesIs
<1> HIDE DEF u
<1>5. \A k \in 1..1 : k = 1
  OBVIOUS
<1>6. u = c
  BY <1>2, <1>4, <1>5, SeqEqual DEF Text
<1> QED
  BY <1>6 DEF u

\* One more character is written, and what was written is read as one more.
LEMMA SafeStepKeeps ==
  ASSUME NEW s \in Text, NoReplacement(s), NEW i \in 1..Len(s), NEW acc, Written(s, acc, i)
  PROVE  Written(s, SafeStep(0, acc, Rune(s, i)), i + Len(Rune(s, i).bytes))
<1> DEFINE r == Rune(s, i)
           c == r.bytes
           cp == r.cp
           j == i + Len(c)
           p == acc.pending
           flushed == acc.out \o InCurrencySigns(p)
           next == SafeStep(0, acc, r)
<1>1. r \in RuneType /\ c \in Text /\ cp \in Nat
  BY RuneTyped DEF RuneType
<1>2. acc \in [out : Text, pending : Text] /\ acc.out \in Text /\ p \in Text
  BY DEF Written
<1>3. PICK done \in Text : Reads(acc.out, done) /\ done \o p = SubSeq(s, 1, i - 1)
  BY DEF Written
<1>4. (done \o p) \o c = SubSeq(s, 1, j - 1)
  BY <1>3, NextBytes
<1>5. Reads(flushed, done \o p)
  BY <1>2, <1>3, ReadsRun, ReadsConcat
<1>6. cp # Replacement => IsUtf8(c, cp)
  BY RuneIsUtf8
<1>7. done \o p \in Text
  BY <1>2, <1>3, TextConcat
<1> DEFINE e == <<>>
<1>8. e \in Text
  BY NoText
<1>9. ASSUME NEW out, Reads(out, (done \o p) \o c), next = [out |-> out, pending |-> e]
      PROVE  Written(s, next, j)
  <2>1. next \in [out : Text, pending : Text] /\ next.out = out /\ next.pending = e
    BY <1>8, <1>9 DEF Reads
  <2>2. (done \o p) \o c \in Text /\ ((done \o p) \o c) \o <<>> = (done \o p) \o c
    BY <1>1, <1>7, TextConcat
  <2> QED
    BY <1>4, <1>9, <2>1, <2>2 DEF Written
<1>10. CASE IsPlain(cp)
  <2>1. cp # Replacement /\ cp # Backslash /\ cp # CurrencySign
    BY <1>10 DEF IsPlain, IsPrintable
  <2>2. Reads(c, c)
    BY <1>1, <1>6, <2>1, Utf8IsChar, ReadsChar
  <2>3. Reads(flushed \o c, (done \o p) \o c)
    BY <1>5, <2>2, ReadsConcat
  <2>4. next = [out |-> flushed \o c, pending |-> e]
    BY <1>10 DEF SafeStep
  <2> QED
    BY <1>9, <2>3, <2>4
<1>11. CASE ~IsPlain(cp) /\ cp \in Tier2
  <2>1. cp # Replacement /\ cp < 128
    BY <1>11 DEF Tier2, Replacement, Backslash
  <2>2. c = <<cp>>
    BY <1>1, <1>6, <2>1, SmallRune
  <2> DEFINE t == <<Backslash, Letter(cp)>>
  <2>3. Reads(t, c)
    BY <1>11, <2>2, ReadsEscape
  <2>4. next = [out |-> flushed \o t, pending |-> e]
    BY <1>11 DEF SafeStep
  <2> HIDE DEF t
  <2>5. Reads(flushed \o t, (done \o p) \o c)
    BY <1>5, <2>3, ReadsConcat
  <2> QED
    BY <1>9, <2>4, <2>5
<1>12. CASE ~IsPlain(cp) /\ cp \notin Tier2
  <2>1. (IF cp = Replacement THEN <<c[1]>> ELSE c) = c
    BY NoReplacementRead
  <2>2. next = [acc EXCEPT !.pending = @ \o IF cp = Replacement THEN <<c[1]>> ELSE c]
    BY <1>12 DEF SafeStep
  <2>3. next = [acc EXCEPT !.pending = p \o c]
    BY <2>1, <2>2
  <2>4. p \o c \in Text /\ done \o (p \o c) = (done \o p) \o c
    <3> HIDE DEF p, c
    <3>1. p \in Text /\ c \in Text /\ done \in Text
      BY <1>1, <1>2, <1>3
    <3>2. p \o c \in Text
      BY ONLY <3>1, TextConcat
    <3>3. done \o (p \o c) = (done \o p) \o c
      BY ONLY <3>1, TextAssociative
    <3> QED
      BY <3>2, <3>3
  <2> HIDE DEF next
  <2>5. next \in [out : Text, pending : Text] /\ next.out = acc.out /\ next.pending = p \o c
    BY <1>2, <2>3, <2>4
  <2>6. Written(s, next, j)
    BY <1>3, <1>4, <2>4, <2>5 DEF Written
  <2> QED
    BY <2>6 DEF next
<1> QED
  BY <1>10, <1>11, <1>12

\* Two sequences that are the same begin and go on the same.
LEMMA HeadsSame ==
  ASSUME NEW V, NEW a \in V, NEW b \in V, NEW x \in Seq(V), NEW y \in Seq(V),
         <<a>> \o x = <<b>> \o y
  PROVE  a = b /\ x = y
<1> DEFINE u == <<a>>
           w == <<b>>
           t == u \o x
<1>1. /\ u \in Seq(V) /\ Len(u) = 1 /\ u[1] = a
      /\ w \in Seq(V) /\ Len(w) = 1 /\ w[1] = b
  BY OneIs
<1>2. t = w \o y
  OBVIOUS
<1> HIDE DEF u, w
<1>3. /\ Len(x) \in Nat /\ Len(t) = 1 + Len(x) /\ t[1] = a
      /\ \A i \in 1..Len(x) : t[i + 1] = x[i]
  <2>1. u \in Seq(V) /\ x \in Seq(V)
    BY <1>1
  <2>2. /\ Len(u) \in Nat /\ Len(x) \in Nat /\ Len(t) = Len(u) + Len(x)
        /\ (\A i \in 1..Len(u) : t[i] = u[i]) /\ \A i \in 1..Len(x) : t[i + Len(u)] = x[i]
    BY ONLY <2>1, ConcatParts
  <2>3. 1 \in 1..Len(u)
    BY <1>1
  <2> HIDE DEF t
  <2> QED
    BY <1>1, <2>2, <2>3
<1>4. /\ Len(y) \in Nat /\ Len(t) = 1 + Len(y) /\ t[1] = b
      /\ \A i \in 1..Len(y) : t[i + 1] = y[i]
  <2>1. w \in Seq(V) /\ y \in Seq(V)
    BY <1>1
  <2> HIDE DEF t
  <2>2. /\ Len(w) \in Nat /\ Len(y) \in Nat /\ Len(t) = Len(w) + Len(y)
        /\ (\A i \in 1..Len(w) : t[i] = w[i]) /\ \A i \in 1..Len(y) : t[i + Len(w)] = y[i]
    BY ONLY <1>2, <2>1, ConcatParts
  <2>3. 1 \in 1..Len(w)
    BY <1>1
  <2> QED
    BY <1>1, <2>2, <2>3
<1> HIDE DEF t
<1>5. Len(x) = Len(y)
  BY <1>3, <1>4
<1>6. \A i \in 1..Len(x) : x[i] = y[i]
  BY <1>3, <1>4, <1>5
<1>7. x = y
  BY <1>5, <1>6, SeqEqual
<1> QED
  BY <1>3, <1>4, <1>7

\* Where the walk over the characters is: k of them are done, and the next is at i.
At(s, k, i) == i \in 1..(Len(s) + 1)
               /\ ReadFrom(s)[i] = SubSeq(Runes(s), k + 1, Len(Runes(s)))

\* One more character is done, and the next is after its bytes.
LEMMA NextAt ==
  ASSUME NEW s \in Text, NEW k \in Nat, k < Len(Runes(s)), NEW i, At(s, k, i)
  PROVE  /\ i \in 1..Len(s) /\ Runes(s)[k + 1] = Rune(s, i)
         /\ At(s, k + 1, i + Len(Rune(s, i).bytes))
<1> DEFINE rs == Runes(s)
           n == Len(rs)
           f == ReadFrom(s)
           r == Rune(s, i)
           j == i + Len(r.bytes)
           l == k + 1
           rest == SubSeq(rs, l + 1, n)
<1>1. rs \in Seq(RuneType) /\ n \in Nat /\ Len(s) \in Nat /\ k < n
  BY RunesTyped, Elements, TextElements
<1>2. i \in 1..(Len(s) + 1) /\ f[i] = SubSeq(rs, l, n)
  BY DEF At
<1>3. f \in [1..(Len(s) + 1) -> Seq(RuneType)]
      /\ f = [m \in 1..(Len(s) + 1) |-> RunesAt(s, f, m)]
  BY ReadFromIs
<1> HIDE DEF rs, f
<1>4. l \in 1..n /\ n \in l..n
  BY <1>1
<1>5. SubSeq(rs, l, n) = <<rs[l]>> \o rest /\ rs[l] \in RuneType
  <2> HIDE DEF l, n
  <2>1. SubSeq(rs, l, n) = <<rs[l]>> \o SubSeq(rs, l + 1, n)
    <3>1. l \in 1..Len(rs) /\ n \in l..Len(rs)
      BY <1>4 DEF n
    <3> QED
      BY <1>1, <3>1, SubSeqRecursiveFirst
  <2>2. rs[l] \in RuneType
    BY <1>1, <1>4, Elements DEF n
  <2> QED
    BY <2>1, <2>2
<1>6. rest \in Seq(RuneType)
  <2>1. \A m \in (l + 1)..n : rs[m] \in RuneType
    BY <1>1, Elements
  <2>2. l + 1 \in Int /\ n \in Int
    BY <1>1
  <2> QED
    BY <2>1, <2>2, SubSeqProperties
<1>7. f[i] = RunesAt(s, f, i)
  BY <1>2, <1>3
<1> HIDE DEF l, n, rest
<1>8. f[i] # <<>>
  <2> DEFINE e == <<>>
             u == <<rs[l]>>
  <2>1. u \in Seq(RuneType) /\ Len(u) = 1
    BY <1>5, OneIs
  <2>2. Len(e) = 0
    BY EmptySeq
  <2>3. u # e
    <3> HIDE DEF u, e
    <3> QED
      BY <2>1, <2>2
  <2>4. u \o rest # e
    <3> HIDE DEF u
    <3> QED
      BY <1>6, <2>1, <2>3, ConcatEqualIffEmpty
  <2> QED
    BY <1>2, <1>5, <2>4
<1>9. ~(i > Len(s))
  BY <1>7, <1>8 DEF RunesAt
<1>10. i \in 1..Len(s)
  BY <1>1, <1>2, <1>9
<1>11. r \in RuneType /\ Len(r.bytes) \in Nat \ {0} /\ j <= Len(s) + 1
  BY <1>10, RuneTyped
<1>12. j \in 1..(Len(s) + 1)
  BY <1>1, <1>10, <1>11
<1>13. f[i] = <<r>> \o f[j]
  BY <1>7, <1>9 DEF RunesAt
<1>14. f[j] \in Seq(RuneType)
  BY <1>3, <1>12
<1>15. r = rs[l] /\ f[j] = rest
  <2> HIDE DEF r, j
  <2>1. <<r>> \o f[j] = <<rs[l]>> \o rest
    BY <1>2, <1>5, <1>13
  <2> DEFINE b == rs[l]
             x == f[j]
  <2>2. <<r>> \o x = <<b>> \o rest /\ r \in RuneType /\ b \in RuneType
        /\ x \in Seq(RuneType) /\ rest \in Seq(RuneType)
    BY <1>5, <1>6, <1>11, <1>14, <2>1
  <2>3. r = b /\ x = rest
    <3> HIDE DEF b, x
    <3> QED
      BY ONLY <2>2, HeadsSame
  <2> QED
    BY <2>3
<1> QED
  BY <1>10, <1>12, <1>15 DEF At, rest, rs, f, n, l

\* What SafeName writes is read as the name.
LEMMA SafeNameReads ==
  ASSUME NEW s \in Text, NoReplacement(s)
  PROVE  Reads(SafeName(s), s)
<1> DEFINE rs == Runes(s)
           n == Len(rs)
           f == ReadFrom(s)
<1>1. rs \in Seq(RuneType) /\ n \in Nat /\ Len(s) \in Nat
  BY RunesTyped, Elements, TextElements
<1>2. PICK a : /\ a[0] = Start
               /\ \A k \in 1..n : a[k] = SafeStep(0, a[k - 1], rs[k])
               /\ Escaping!Fold(0, Start, rs) = a[n]
  BY <1>1, Escaping!FoldWalk
<1> DEFINE S == {k \in Nat : k <= n => \E i : Written(s, a[k], i) /\ At(s, k, i)}
<1>3. 0 \in S
  <2>1. 1 \in 1..(Len(s) + 1) /\ 0 + 1 = 1
    BY <1>1
  <2>2. f[1] = SubSeq(rs, 0 + 1, n)
    <3>1. SubSeq(rs, 1, n) = rs
      BY <1>1, SubSeqFull
    <3>2. f[1] = rs
      BY ReadFromIs
    <3> QED
      BY <2>1, <3>1, <3>2
  <2>3. At(s, 0, 1)
    BY <2>1, <2>2 DEF At
  <2> DEFINE e == <<>>
  <2>4. e \in Text /\ Reads(e, e) /\ e \o e = e
    <3>1. e \in Text
      BY NoText
    <3> HIDE DEF e
    <3>2. e \o <<>> = e
      BY <3>1, TextConcat
    <3> QED
      BY <3>1, <3>2, ReadsNothing DEF e
  <2>5. SubSeq(s, 1, 1 - 1) = e
    BY SubSeqEmpty
  <2>6. Start = [out |-> e, pending |-> e]
    BY DEF Start
  <2> HIDE DEF e
  <2>7. Start \in [out : Text, pending : Text] /\ Start.out = e /\ Start.pending = e
    BY <2>4, <2>6
  <2>8. Written(s, Start, 1)
    BY <2>4, <2>5, <2>7 DEF Written
  <2> QED
    BY <1>2, <2>3, <2>8
<1>4. ASSUME NEW k \in Nat, k \in S
      PROVE  k + 1 \in S
  <2> SUFFICES ASSUME k + 1 <= n PROVE \E i : Written(s, a[k + 1], i) /\ At(s, k + 1, i)
    OBVIOUS
  <2>1. k < n /\ k + 1 \in 1..n /\ (k + 1) - 1 = k /\ k <= n
    BY <1>1
  <2>2. PICK i : Written(s, a[k], i) /\ At(s, k, i)
    BY <1>4, <2>1
  <2> DEFINE j == i + Len(Rune(s, i).bytes)
  <2>3. i \in 1..Len(s) /\ rs[k + 1] = Rune(s, i) /\ At(s, k + 1, j)
    BY <2>1, <2>2, NextAt
  <2>4. a[k + 1] = SafeStep(0, a[k], Rune(s, i))
    BY <1>2, <2>1, <2>3
  <2>5. Written(s, SafeStep(0, a[k], Rune(s, i)), j)
    BY <2>2, <2>3, SafeStepKeeps
  <2> QED
    BY <2>3, <2>4, <2>5
<1>5. n \in S
  <2> HIDE DEF S, n
  <2> QED
    BY <1>1, <1>3, <1>4, AllNats
<1>6. PICK i : Written(s, a[n], i) /\ At(s, n, i)
  BY <1>1, <1>5
<1>7. i = Len(s) + 1
  <2>1. i \in 1..(Len(s) + 1) /\ f[i] = <<>>
    <3>1. SubSeq(rs, n + 1, n) = <<>>
      BY <1>1, SubSeqEmpty
    <3> QED
      BY <1>6, <3>1 DEF At
  <2>2. f[i] = RunesAt(s, f, i)
    BY <2>1, ReadFromIs
  <2>3. i > Len(s)
    <3> SUFFICES ASSUME ~(i > Len(s)) PROVE FALSE
      OBVIOUS
    <3>1. i \in 1..Len(s)
      BY <1>1, <2>1
    <3> DEFINE r == Rune(s, i)
               j == i + Len(r.bytes)
               u == <<r>>
               e == <<>>
    <3>2. r \in RuneType /\ Len(r.bytes) \in Nat \ {0} /\ j <= Len(s) + 1
      BY <3>1, RuneTyped
    <3>3. j \in 1..(Len(s) + 1)
      BY <1>1, <3>1, <3>2
    <3>4. f[j] \in Seq(RuneType)
      BY <3>3, ReadFromIs
    <3>5. u \in Seq(RuneType) /\ Len(u) = 1 /\ Len(e) = 0
      BY <3>2, OneIs, EmptySeq
    <3>6. u \o f[j] = e
      BY <2>1, <2>2 DEF RunesAt
    <3> HIDE DEF u, j, f
    <3>7. u = e
      BY <3>4, <3>5, <3>6, ConcatEqualIffEmpty
    <3> HIDE DEF e
    <3> QED
      BY <3>5, <3>7
  <2> QED
    BY <1>1, <2>1, <2>3
<1> DEFINE end == a[n]
<1>8. end \in [out : Text, pending : Text]
      /\ \E done \in Text : Reads(end.out, done) /\ done \o end.pending = s
  <2>1. (Len(s) + 1) - 1 = Len(s) /\ SubSeq(s, 1, Len(s)) = s
    BY <1>1, SubSeqFull DEF Text
  <2>2. SubSeq(s, 1, i - 1) = s
    BY <1>7, <2>1
  <2> QED
    BY <1>6, <2>2 DEF Written
<1>9. SafeName(s) = end.out \o InCurrencySigns(end.pending)
  BY <1>2, SafeNameIs
<1> HIDE DEF end
<1>10. PICK done \in Text : Reads(end.out, done) /\ done \o end.pending = s
  BY <1>8
<1>11. Reads(InCurrencySigns(end.pending), end.pending)
  BY <1>8, ReadsRun
<1> QED
  BY <1>9, <1>10, <1>11, ReadsConcat

\* UnsafeName undoes SafeName.
LEMMA SafeNameComesBack ==
  ASSUME NEW s \in Text, NoReplacement(s)
  PROVE  SafeName(s) \in Text /\ UnsafeName(SafeName(s)) = s
<1> DEFINE e == <<>>
           t == SafeName(s)
<1>1. Reads(t, s)
  BY SafeNameReads
<1>2. e \in Text /\ t \in Text
  BY <1>1, NoText DEF Reads
<1>3. UnsafeName(e) = e
  <2>1. Runes(e) = e
    BY RunesOfNothing
  <2>2. Meaning(e) = e
    BY MeaningOfNothing
  <2> HIDE DEF e
  <2> QED
    BY <2>1, <2>2, UnsafeNameIs
<1>4. UnsafeName(t \o e) = s \o UnsafeName(e)
  BY <1>1, <1>2 DEF Reads
<1>5. t \o e = t /\ s \o e = s
  BY <1>2, TextConcat
<1> QED
  BY <1>2, <1>3, <1>4, <1>5

-----------------------------------------------------------------------------
(* Fields.                                                                   *)

Specials == {Space, Quote, Opening, Closing}

EscapesAt(e, i) == e[i] = Backslash /\ i < Len(e) /\ e[i + 1] \in Specials

UnescapeAt(e, f, i) ==
  IF i > Len(e) THEN <<>>
  ELSE IF EscapesAt(e, i) THEN <<e[i + 1]>> \o f[i + 2]
  ELSE <<e[i]>> \o f[i + 1]

Unescaping == INSTANCE FoldFacts WITH Op <- UnescapeAt

UnescapedFrom(e) == CHOOSE f : f = [i \in 1..(Len(e) + 1) |-> UnescapeAt(e, f, i)]

\* Two ways to go on from i.
LEMMA UnescapeCases ==
  ASSUME NEW e \in Text, NEW i \in 1..Len(e)
  PROVE  \/ EscapesAt(e, i) /\ i < Len(e) /\ \A f : UnescapeAt(e, f, i) = <<e[i + 1]>> \o f[i + 2]
         \/ ~EscapesAt(e, i) /\ \A f : UnescapeAt(e, f, i) = <<e[i]>> \o f[i + 1]
<1>1. ~(i > Len(e))
  BY TextElements
<1> QED
  BY <1>1 DEF UnescapeAt, EscapesAt

\* What is unescaped from i on needs only what follows i,
LEMMA UnescapeLater ==
  ASSUME NEW e \in Text
  PROVE  Unescaping!Later(e, Len(e) + 1, Text)
<1>1. Len(e) \in Nat /\ \A m \in 1..Len(e) : e[m] \in Byte
  BY Elements DEF Text
<1> SUFFICES ASSUME NEW f, NEW g, NEW i \in 1..(Len(e) + 1),
                    \A k \in 1..(Len(e) + 1) : k > i => f[k] \in Text /\ g[k] = f[k]
             PROVE  UnescapeAt(e, f, i) \in Text /\ UnescapeAt(e, g, i) = UnescapeAt(e, f, i)
  BY DEF Unescaping!Later
<1>2. CASE i > Len(e)
  BY <1>2, EmptySeq DEF UnescapeAt, Text
<1>3. CASE i <= Len(e)
  <2>1. i \in 1..Len(e)
    BY <1>1, <1>3
  <2>2. ASSUME NEW b \in Byte, NEW k \in 1..(Len(e) + 1), k > i,
               \A h : UnescapeAt(e, h, i) = <<b>> \o h[k]
        PROVE  UnescapeAt(e, f, i) \in Text /\ UnescapeAt(e, g, i) = UnescapeAt(e, f, i)
    <3>1. f[k] \in Text /\ g[k] = f[k]
      BY <2>2
    <3> DEFINE u == <<b>>
    <3>2. u \in Text
      BY BytesIs
    <3>3. \A h : UnescapeAt(e, h, i) = u \o h[k]
      BY <2>2
    <3> HIDE DEF u
    <3>4. u \o f[k] \in Text
      BY <3>1, <3>2, TextConcat
    <3> QED
      BY <3>1, <3>3, <3>4
  <2>3. CASE i < Len(e) /\ \A h : UnescapeAt(e, h, i) = <<e[i + 1]>> \o h[i + 2]
    <3>1. i + 1 \in 1..Len(e) /\ i + 2 \in 1..(Len(e) + 1) /\ i + 2 > i
      BY <1>1, <2>3
    <3>2. e[i + 1] \in Byte
      BY <1>1, <3>1
    <3> QED
      BY <2>2, <2>3, <3>1, <3>2
  <2>4. CASE \A h : UnescapeAt(e, h, i) = <<e[i]>> \o h[i + 1]
    <3>1. i + 1 \in 1..(Len(e) + 1) /\ i + 1 > i /\ e[i] \in Byte
      BY <1>1, <2>1
    <3> QED
      BY <2>2, <2>4, <3>1
  <2> QED
    BY <2>1, <2>3, <2>4, UnescapeCases
<1> QED
  BY <1>1, <1>2, <1>3

\* so that recursion has one solution, and UnescapeField is its first value.
LEMMA UnescapedFromIs ==
  ASSUME NEW e \in Text
  PROVE  /\ UnescapedFrom(e) \in [1..(Len(e) + 1) -> Text]
         /\ UnescapedFrom(e) = [i \in 1..(Len(e) + 1) |-> UnescapeAt(e, UnescapedFrom(e), i)]
         /\ UnescapeField(e) = UnescapedFrom(e)[1]
<1> DEFINE n == Len(e) + 1
           f == UnescapedFrom(e)
           v == <<>>
<1>1. n \in Nat /\ v \in Text /\ Unescaping!Later(e, n, Text)
  BY TextElements, NoText, UnescapeLater
<1>2. f = [i \in 1..n |-> UnescapeAt(e, f, i)]
  <2>1. \E h \in [1..n -> Text] : h = [i \in 1..n |-> UnescapeAt(e, h, i)]
    <3> HIDE DEF n, v
    <3> QED
      BY <1>1, Unescaping!LaterExists
  <2> QED
    BY <2>1 DEF UnescapedFrom
<1>3. f \in [1..n -> Text]
  <2> HIDE DEF n, f
  <2> QED
    BY <1>1, <1>2, Unescaping!LaterTyped
<1>4. UnescapeField(e) = f[1]
  BY DEF UnescapeField, UnescapedFrom, UnescapeAt, EscapesAt, Specials
<1> QED
  BY <1>2, <1>3, <1>4

\* What is unescaped does not depend on what comes before it.
LEMMA UnescapedAfter ==
  ASSUME NEW c \in Text, NEW x \in Text
  PROVE  \A i \in 1..(Len(x) + 1) : UnescapedFrom(c \o x)[i + Len(c)] = UnescapedFrom(x)[i]
<1> DEFINE t == c \o x
           n == Len(t) + 1
           m == Len(x) + 1
           k == Len(c)
           f == UnescapedFrom(t)
           g == UnescapedFrom(x)
<1>1. /\ t \in Text /\ Len(t) = k + Len(x) /\ k \in Nat /\ Len(x) \in Nat
      /\ \A i \in 1..Len(x) : t[i + k] = x[i]
  <2>1. c \in Seq(Byte) /\ x \in Seq(Byte)
    BY DEF Text
  <2>2. t \in Seq(Byte) /\ Len(t) = k + Len(x) /\ k \in Nat /\ Len(x) \in Nat
        /\ \A i \in 1..Len(x) : t[i + k] = x[i]
    BY ONLY <2>1, ConcatParts
  <2> QED
    BY <2>2 DEF Text
<1>2. n \in Nat /\ m \in Nat /\ n = m + k
  BY <1>1
<1>3. f = [i \in 1..n |-> UnescapeAt(t, f, i)] /\ g = [i \in 1..m |-> UnescapeAt(x, g, i)]
  BY <1>1, UnescapedFromIs
<1> HIDE DEF t, f, g
<1>4. ASSUME NEW i \in 1..m, \A j \in 1..m : j > i => f[j + k] = g[j]
      PROVE  UnescapeAt(t, f, i + k) = UnescapeAt(x, g, i)
  <2>1. CASE i > Len(x)
    <3>1. i + k > Len(t)
      BY <1>1, <2>1
    <3> QED
      BY <2>1, <3>1 DEF UnescapeAt
  <2>2. CASE i <= Len(x)
    <3>1. i \in 1..Len(x) /\ ~(i + k > Len(t)) /\ ~(i > Len(x)) /\ (i + k < Len(t) <=> i < Len(x))
          /\ (i + k) + 1 = (i + 1) + k /\ (i + k) + 2 = (i + 2) + k
      BY <1>1, <2>2
    <3>2. t[i + k] = x[i] /\ f[(i + k) + 1] = g[i + 1]
      <4>1. i + 1 \in 1..m /\ i + 1 > i
        BY <1>1, <3>1
      <4>2. f[(i + 1) + k] = g[i + 1]
        BY <1>4, <4>1
      <4>3. t[i + k] = x[i]
        BY <1>1, <3>1
      <4> QED
        BY <3>1, <4>2, <4>3
    <3>3. i < Len(x) => t[(i + k) + 1] = x[i + 1] /\ f[(i + k) + 2] = g[i + 2]
      <4> SUFFICES ASSUME i < Len(x)
                   PROVE  t[(i + k) + 1] = x[i + 1] /\ f[(i + k) + 2] = g[i + 2]
        OBVIOUS
      <4>1. i + 2 \in 1..m /\ i + 2 > i /\ i + 1 \in 1..Len(x)
        BY <1>1, <3>1
      <4>2. f[(i + 2) + k] = g[i + 2]
        BY <1>4, <4>1
      <4>3. t[(i + 1) + k] = x[i + 1]
        BY <1>1, <4>1
      <4> QED
        BY <3>1, <4>2, <4>3
    <3>4. EscapesAt(t, i + k) <=> EscapesAt(x, i)
      BY <3>1, <3>2, <3>3 DEF EscapesAt
    <3>5. EscapesAt(x, i) => i < Len(x)
      BY DEF EscapesAt
    <3> QED
      BY <3>1, <3>2, <3>3, <3>4, <3>5 DEF UnescapeAt
  <2> QED
    BY <1>1, <2>1, <2>2
<1>5. \A i \in 1..m : f[i + k] = g[i]
  <2>1. Unescaping!Apart(n, m, k)
    BY <1>1, <1>2 DEF Unescaping!Apart
  <2>2. Unescaping!Keeps(t, x, m, k, f, g)
    BY <1>4 DEF Unescaping!Keeps
  <2>3. Unescaping!Solves(t, n, f) /\ Unescaping!Solves(x, m, g)
    BY <1>2, <1>3 DEF Unescaping!Solves
  <2> HIDE DEF n, m, k
  <2> QED
    BY ONLY <1>2, <2>1, <2>2, <2>3, Unescaping!LaterShifted
<1> QED
  BY <1>5 DEF f, g, t

\* No escape goes on into it.
PlainStart(x) == x # <<>> => x[1] \notin Specials

\* That goes for two of them together.
LEMMA PlainConcat ==
  ASSUME NEW a \in Text, NEW b \in Text, PlainStart(a), PlainStart(b)
  PROVE  PlainStart(a \o b)
<1>1. CASE a = <<>>
  BY <1>1, TextConcat
<1>2. CASE a # <<>>
  <2>1. Len(a) \in Nat \ {0}
    BY <1>2, EmptySeq DEF Text
  <2>2. 1 \in 1..Len(a)
    BY <2>1
  <2>3. a \in Seq(Byte) /\ b \in Seq(Byte)
    BY DEF Text
  <2>4. \A i \in 1..Len(a) : (a \o b)[i] = a[i]
    BY ONLY <2>3, ConcatParts
  <2> QED
    BY <1>2, <2>2, <2>4 DEF PlainStart
<1> QED
  BY <1>1, <1>2

\* UnescapeField reads text as meaning, whatever comes after it that no escape
\* goes on into.
FieldReads(text, meaning) ==
  /\ text \in Text /\ meaning \in Text /\ PlainStart(text)
  /\ \A x \in Text : PlainStart(x) => UnescapeField(text \o x) = meaning \o UnescapeField(x)

\* What is read of a field one after the other.
LEMMA UnescapeFieldTyped ==
  ASSUME NEW s \in Text
  PROVE  UnescapeField(s) \in Text
<1>1. 1 \in 1..(Len(s) + 1)
  BY TextElements
<1> QED
  BY <1>1, UnescapedFromIs

LEMMA FieldReadsNothing == FieldReads(<<>>, <<>>)
<1> DEFINE e == <<>>
<1>1. e \in Text /\ PlainStart(e)
  BY NoText DEF PlainStart
<1>2. ASSUME NEW x \in Text PROVE UnescapeField(<<>> \o x) = <<>> \o UnescapeField(x)
  BY UnescapeFieldTyped, TextConcat
<1> QED
  BY <1>1, <1>2 DEF FieldReads

LEMMA FieldReadsConcat ==
  ASSUME NEW a, NEW m, NEW b, NEW n, FieldReads(a, m), FieldReads(b, n)
  PROVE  FieldReads(a \o b, m \o n)
<1>1. a \in Text /\ b \in Text /\ m \in Text /\ n \in Text /\ PlainStart(a) /\ PlainStart(b)
  BY DEF FieldReads
<1>2. a \o b \in Text /\ m \o n \in Text /\ PlainStart(a \o b)
  BY <1>1, TextConcat, PlainConcat
<1>3. ASSUME NEW x \in Text, PlainStart(x)
      PROVE  UnescapeField((a \o b) \o x) = (m \o n) \o UnescapeField(x)
  <2>1. (a \o b) \o x = a \o (b \o x) /\ b \o x \in Text /\ PlainStart(b \o x)
    <3>1. (a \o b) \o x = a \o (b \o x)
      <4>1. a \in Text /\ b \in Text /\ x \in Text
        BY <1>1
      <4> QED
        BY ONLY <4>1, TextAssociative
    <3>2. b \o x \in Text
      BY ONLY <1>1, x \in Text, TextConcat
    <3>3. PlainStart(b \o x)
      BY ONLY <1>1, <1>3, x \in Text, PlainConcat
    <3> QED
      BY <3>1, <3>2, <3>3
  <2>2. UnescapeField(a \o (b \o x)) = m \o UnescapeField(b \o x)
    BY <2>1 DEF FieldReads
  <2>3. UnescapeField(b \o x) = n \o UnescapeField(x)
    BY <1>3 DEF FieldReads
  <2>4. m \o (n \o UnescapeField(x)) = (m \o n) \o UnescapeField(x)
    <3> DEFINE y == UnescapeField(x)
    <3>1. m \in Text /\ n \in Text /\ y \in Text
      BY <1>1, UnescapeFieldTyped
    <3> HIDE DEF y
    <3>2. (m \o n) \o y = m \o (n \o y)
      BY ONLY <3>1, TextAssociative
    <3> QED
      BY <3>2 DEF y
  <2> QED
    BY <2>1, <2>2, <2>3, <2>4
<1> QED
  BY <1>2, <1>3 DEF FieldReads

\* What the first byte or the first escape is read as.
LEMMA UnescapeFirst ==
  ASSUME NEW p \in Text, NEW x \in Text, NEW head,
         \A f : UnescapeAt(p \o x, f, 1) = head \o f[1 + Len(p)]
  PROVE  UnescapeField(p \o x) = head \o UnescapeField(x)
<1> DEFINE t == p \o x
<1>1. t \in Text
  BY TextConcat
<1>2. 1 \in 1..(Len(t) + 1) /\ 1 \in 1..(Len(x) + 1)
  BY <1>1, TextElements
<1>3. UnescapeField(t) = UnescapeAt(t, UnescapedFrom(t), 1)
  BY <1>1, <1>2, UnescapedFromIs
<1>4. UnescapedFrom(t)[1 + Len(p)] = UnescapedFrom(x)[1]
  BY <1>2, UnescapedAfter
<1>5. UnescapedFrom(x)[1] = UnescapeField(x)
  BY UnescapedFromIs
<1> QED
  BY <1>3, <1>4, <1>5

\* A byte that needs no escape stands for itself, if none follows that does:
\* it may be a backslash.
LEMMA FieldReadsPlain ==
  ASSUME NEW b \in Byte, b \notin Specials
  PROVE  FieldReads(<<b>>, <<b>>)
<1> DEFINE u == <<b>>
<1>1. u \in Text /\ Len(u) = 1 /\ u[1] = b
  BY BytesIs
<1>2. PlainStart(u)
  BY <1>1 DEF PlainStart
<1>3. ASSUME NEW x \in Text, PlainStart(x)
      PROVE  UnescapeField(u \o x) = u \o UnescapeField(x)
  <2> DEFINE t == u \o x
  <2> HIDE DEF u
  <2>1. /\ Len(x) \in Nat /\ Len(t) = 1 + Len(x) /\ t[1] = b
        /\ \A i \in 1..Len(x) : t[i + 1] = x[i]
    <3>1. u \in Seq(Byte) /\ x \in Seq(Byte)
      BY <1>1 DEF Text
    <3>2. /\ Len(u) \in Nat /\ Len(x) \in Nat /\ Len(t) = Len(u) + Len(x)
          /\ (\A i \in 1..Len(u) : t[i] = u[i]) /\ \A i \in 1..Len(x) : t[i + Len(u)] = x[i]
      BY ONLY <3>1, ConcatParts
    <3>3. 1 \in 1..Len(u)
      BY <1>1
    <3> HIDE DEF t
    <3> QED
      BY <1>1, <3>2, <3>3
  <2> HIDE DEF t
  <2>2. ~EscapesAt(t, 1)
    <3> SUFFICES ASSUME 1 < Len(t), t[1 + 1] \in Specials PROVE FALSE
      BY DEF EscapesAt
    <3>1. 1 \in 1..Len(x) /\ 1 + 1 = 1 + 1
      BY <2>1
    <3>2. t[1 + 1] = x[1]
      BY <2>1, <3>1
    <3>3. x # <<>>
      BY <3>1, EmptySeq
    <3> QED
      BY <1>3, <3>2, <3>3 DEF PlainStart
  <2>3. ~(1 > Len(t))
    BY <2>1
  <2>4. \A f : UnescapeAt(t, f, 1) = u \o f[1 + Len(u)]
    BY <1>1, <2>1, <2>2, <2>3 DEF UnescapeAt, u
  <2> QED
    BY <1>1, <2>4, UnescapeFirst DEF t
<1> QED
  BY <1>1, <1>2, <1>3 DEF FieldReads

\* An escape is read as its byte.
LEMMA FieldReadsEscape ==
  ASSUME NEW b \in Specials
  PROVE  FieldReads(<<Backslash, b>>, <<b>>)
<1> DEFINE a == Backslash
           u == <<b>>
           p == <<a, b>>
<1>1. a \in Byte /\ b \in Byte /\ a \notin Specials
  BY DEF Backslash, Specials, Space, Quote, Opening, Closing, Byte
<1>2. /\ u \in Text /\ Len(u) = 1 /\ u[1] = b
      /\ p \in Text /\ Len(p) = 2 /\ p[1] = a /\ p[2] = b
  <2> HIDE DEF a
  <2> QED
    BY <1>1, BytesIs
<1>3. PlainStart(p)
  BY <1>1, <1>2 DEF PlainStart
<1>4. ASSUME NEW x \in Text
      PROVE  UnescapeField(p \o x) = u \o UnescapeField(x)
  <2> DEFINE t == p \o x
  <2> HIDE DEF p
  <2>1. Len(x) \in Nat /\ Len(t) = 2 + Len(x) /\ t[1] = a /\ t[2] = b
    <3>1. p \in Seq(Byte) /\ x \in Seq(Byte)
      BY <1>2 DEF Text
    <3>2. /\ Len(p) \in Nat /\ Len(x) \in Nat /\ Len(t) = Len(p) + Len(x)
          /\ (\A i \in 1..Len(p) : t[i] = p[i])
      BY ONLY <3>1, ConcatParts
    <3>3. 1 \in 1..Len(p) /\ 2 \in 1..Len(p)
      BY <1>2
    <3> HIDE DEF t
    <3> QED
      BY <1>2, <3>2, <3>3
  <2> HIDE DEF t
  <2>2. EscapesAt(t, 1) /\ ~(1 > Len(t)) /\ 1 + 1 = 2
    BY <2>1 DEF EscapesAt
  <2>3. \A f : UnescapeAt(t, f, 1) = u \o f[1 + Len(p)]
    BY <1>2, <2>1, <2>2 DEF UnescapeAt, u
  <2> QED
    BY <1>2, <2>3, UnescapeFirst DEF t
<1>5. FieldReads(p, u)
  <2> HIDE DEF p, u
  <2> QED
    BY <1>2, <1>3, <1>4 DEF FieldReads
<1> QED
  BY <1>5

AddEscaped(special, acc, b) == acc \o IF b \in special THEN <<Backslash, b>> ELSE <<b>>

Filling == INSTANCE FoldFacts WITH Op <- AddEscaped

\* Escaped is a fold over the bytes, and what it writes is read as they are.
LEMMA EscapedIs ==
  ASSUME NEW s, NEW special
  PROVE  Escaped(s, special) = Filling!Fold(special, <<>>, s)
BY DEF Escaped, FoldLeft, MapThenFoldSet, Max, AddEscaped,
       Filling!Fold, Filling!FoldLeft, Filling!MapThenFoldSet, Filling!Max

LEMMA EscapedReads ==
  ASSUME NEW s \in Text
  PROVE  FieldReads(Escaped(s, Specials), s)
<1> DEFINE n == Len(s)
           e == <<>>
<1>1. s \in Seq(Byte) /\ n \in Nat /\ \A i \in 1..n : s[i] \in Byte
  BY Elements DEF Text
<1>2. PICK a : /\ a[0] = e
               /\ \A k \in 1..n : a[k] = AddEscaped(Specials, a[k - 1], s[k])
               /\ Filling!Fold(Specials, e, s) = a[n]
  <2> HIDE DEF e
  <2> QED
    BY <1>1, Filling!FoldWalk
<1> DEFINE S == {k \in Nat : k <= n => FieldReads(a[k], SubSeq(s, 1, k))}
<1>3. 0 \in S
  <2>1. SubSeq(s, 1, 0) = <<>>
    BY SubSeqEmpty
  <2>2. FieldReads(a[0], SubSeq(s, 1, 0))
    BY <1>2, <2>1, FieldReadsNothing
  <2> QED
    BY <2>2
<1>4. ASSUME NEW k \in Nat, k \in S
      PROVE  k + 1 \in S
  <2> SUFFICES ASSUME k + 1 <= n PROVE FieldReads(a[k + 1], SubSeq(s, 1, k + 1))
    OBVIOUS
  <2> DEFINE b == s[k + 1]
             t == IF b \in Specials THEN <<Backslash, b>> ELSE <<b>>
             u == <<b>>
  <2>1. k + 1 \in 1..n /\ (k + 1) - 1 = k /\ k <= n
    BY <1>1
  <2>2. b \in Byte
    BY <1>1, <2>1
  <2>3. a[k + 1] = a[k] \o t
    BY <1>2, <2>1 DEF AddEscaped
  <2>4. SubSeq(s, 1, k + 1) = SubSeq(s, 1, k) \o u
    <3>1. 1 \in 1..Len(s) /\ k + 1 \in 1..Len(s)
      BY <1>1, <2>1
    <3> QED
      BY <1>1, <2>1, <3>1, SubSeqRecursiveSecond
  <2>5. FieldReads(t, u)
    <3> HIDE DEF b
    <3> QED
      BY <2>2, FieldReadsPlain, FieldReadsEscape
  <2>6. FieldReads(a[k], SubSeq(s, 1, k))
    BY <1>4, <2>1
  <2> HIDE DEF t, u
  <2> QED
    BY <2>3, <2>4, <2>5, <2>6, FieldReadsConcat
<1>5. n \in S
  <2> HIDE DEF S
  <2> QED
    BY <1>1, <1>3, <1>4, AllNats
<1>6. SubSeq(s, 1, n) = s
  BY <1>1, SubSeqFull
<1>7. FieldReads(a[n], SubSeq(s, 1, n))
  BY <1>1, <1>5
<1> QED
  BY <1>2, <1>6, <1>7, EscapedIs

\* UnescapeField undoes Escaped.
LEMMA EscapedComesBack ==
  ASSUME NEW s \in Text
  PROVE  Escaped(s, Specials) \in Text /\ UnescapeField(Escaped(s, Specials)) = s
<1> DEFINE e == <<>>
           t == Escaped(s, Specials)
<1>1. FieldReads(t, s)
  BY EscapedReads
<1>2. e \in Text /\ t \in Text /\ PlainStart(e)
  BY <1>1, NoText DEF FieldReads, PlainStart
<1>3. UnescapeField(e) = e
  <2>1. 1 \in 1..(Len(e) + 1) /\ 1 > Len(e)
    BY EmptySeq
  <2>2. UnescapeField(e) = UnescapeAt(e, UnescapedFrom(e), 1)
    <3> HIDE DEF e
    <3> QED
      BY <1>2, <2>1, UnescapedFromIs
  <2> QED
    BY <2>1, <2>2 DEF UnescapeAt
<1>4. UnescapeField(t \o e) = s \o UnescapeField(e)
  BY <1>1, <1>2 DEF FieldReads
<1>5. t \o e = t /\ s \o e = s
  BY <1>2, TextConcat
<1> QED
  BY <1>2, <1>3, <1>4, <1>5

\* Every name without U+FFFD comes back from SafeName and EscapeField through
\* UnescapeField and UnsafeName (src/c4m/safename.cpp), whatever its bytes are.
THEOREM EscapedNamesComeBack ==
  \A name \in Text : NoReplacement(name) =>
    UnsafeName(UnescapeField(EscapeField(name, FALSE))) = name
<1> SUFFICES ASSUME NEW name \in Text, NoReplacement(name)
             PROVE  UnsafeName(UnescapeField(EscapeField(name, FALSE))) = name
  OBVIOUS
<1>1. SafeName(name) \in Text /\ UnsafeName(SafeName(name)) = name
  BY SafeNameComesBack
<1>2. {Space, Quote} \cup {Opening, Closing} = Specials
  BY DEF Specials
<1>3. EscapeField(name, FALSE) = Escaped(SafeName(name), Specials)
  BY <1>2 DEF EscapeField
<1> QED
  BY <1>1, <1>3, EscapedComesBack

-----------------------------------------------------------------------------
(* What is written is text.                                                  *)

Waiting == [out : Text, pending : Text]

LEMMA WaitingIs ==
  ASSUME NEW o \in Text, NEW p \in Text
  PROVE  [out |-> o, pending |-> p] \in Waiting
BY DEF Waiting

\* Every step of SafeName leaves text, and so does SafeName.
LEMMA SafeStepTyped ==
  ASSUME NEW acc \in Waiting, NEW r \in RuneType
  PROVE  SafeStep(0, acc, r) \in Waiting
<1> DEFINE c == r.bytes
           cp == r.cp
           p == acc.pending
           flushed == acc.out \o InCurrencySigns(p)
           e == <<>>
           first == <<c[1]>>
<1>1. c \in Text /\ c # <<>> /\ acc.out \in Text /\ p \in Text
  BY DEF RuneType, Waiting
<1>2. flushed \in Text
  <2>1. InCurrencySigns(p) \in Text
    BY <1>1, ReadsRun DEF Reads
  <2> QED
    BY <1>1, <2>1, TextConcat
<1>3. e \in Text
  BY NoText
<1>4. first \in Text
  <2>1. Len(c) \in Nat \ {0} /\ \A k \in 1..Len(c) : c[k] \in Byte
    BY <1>1, Elements, EmptySeq DEF Text
  <2>2. c[1] \in Byte
    BY <2>1
  <2> QED
    BY <2>2, BytesIs
<1>5. CASE IsPlain(cp)
  <2>1. SafeStep(0, acc, r) = [out |-> flushed \o c, pending |-> e]
    BY <1>5 DEF SafeStep
  <2>2. flushed \o c \in Text
    BY <1>1, <1>2, TextConcat
  <2> HIDE DEF flushed, c, e
  <2> QED
    BY <1>3, <2>1, <2>2, WaitingIs
<1>6. CASE ~IsPlain(cp) /\ cp \in Tier2
  <2> DEFINE t == <<Backslash, Letter(cp)>>
  <2>1. SafeStep(0, acc, r) = [out |-> flushed \o t, pending |-> e]
    BY <1>6 DEF SafeStep
  <2>2. t \in Text
    BY <1>6, ReadsEscape DEF Reads
  <2> HIDE DEF flushed, t, e
  <2>3. flushed \o t \in Text
    BY <1>2, <2>2, TextConcat
  <2> QED
    BY <1>3, <2>1, <2>3, WaitingIs
<1>7. CASE ~IsPlain(cp) /\ cp \notin Tier2
  <2> DEFINE u == IF cp = Replacement THEN first ELSE c
  <2>1. SafeStep(0, acc, r) = [acc EXCEPT !.pending = p \o u]
    BY <1>7 DEF SafeStep
  <2>2. u \in Text
    BY <1>1, <1>4
  <2> HIDE DEF u
  <2>3. p \o u \in Text
    BY <1>1, <2>2, TextConcat
  <2> QED
    BY <2>1, <2>3 DEF Waiting
<1> QED
  BY <1>5, <1>6, <1>7

LEMMA SafeNameTyped ==
  ASSUME NEW s \in Text
  PROVE  SafeName(s) \in Text
<1> DEFINE rs == Runes(s)
           n == Len(rs)
<1>1. rs \in Seq(RuneType) /\ n \in Nat /\ \A k \in 1..n : rs[k] \in RuneType
  BY RunesTyped, Elements
<1>2. PICK a : /\ a[0] = Start
               /\ \A k \in 1..n : a[k] = SafeStep(0, a[k - 1], rs[k])
               /\ Escaping!Fold(0, Start, rs) = a[n]
  BY <1>1, Escaping!FoldWalk
<1> DEFINE S == {k \in Nat : k <= n => a[k] \in Waiting}
<1>3. 0 \in S
  <2> DEFINE e == <<>>
  <2>1. e \in Text
    BY NoText
  <2>2. Start = [out |-> e, pending |-> e]
    BY DEF Start
  <2> HIDE DEF e
  <2>3. Start \in Waiting
    BY <2>1, <2>2 DEF Waiting
  <2> QED
    BY <1>2, <2>3
<1>4. ASSUME NEW k \in Nat, k \in S
      PROVE  k + 1 \in S
  <2> SUFFICES ASSUME k + 1 <= n PROVE a[k + 1] \in Waiting
    OBVIOUS
  <2>1. k + 1 \in 1..n /\ (k + 1) - 1 = k /\ k <= n
    BY <1>1
  <2>2. a[k + 1] = SafeStep(0, a[k], rs[k + 1])
    BY <1>2, <2>1
  <2>3. rs[k + 1] \in RuneType /\ a[k] \in Waiting
    BY <1>1, <1>4, <2>1
  <2> QED
    BY <2>2, <2>3, SafeStepTyped
<1>5. n \in S
  <2> HIDE DEF S, n
  <2> QED
    BY <1>1, <1>3, <1>4, AllNats
<1>6. a[n] \in Waiting
  BY <1>1, <1>5
<1> DEFINE end == a[n]
<1>7. SafeName(s) = end.out \o InCurrencySigns(end.pending)
  BY <1>2, SafeNameIs
<1>8. end.out \in Text /\ end.pending \in Text
  BY <1>6 DEF Waiting
<1>9. InCurrencySigns(end.pending) \in Text
  BY <1>8, ReadsRun DEF Reads
<1> HIDE DEF end
<1> QED
  BY <1>7, <1>8, <1>9, TextConcat

\* So does Escaped.
LEMMA EscapedTyped ==
  ASSUME NEW s \in Text, NEW special
  PROVE  Escaped(s, special) \in Text
<1> DEFINE n == Len(s)
           e == <<>>
<1>1. s \in Seq(Byte) /\ n \in Nat /\ \A i \in 1..n : s[i] \in Byte
  BY Elements DEF Text
<1>2. PICK a : /\ a[0] = e
               /\ \A k \in 1..n : a[k] = AddEscaped(special, a[k - 1], s[k])
               /\ Filling!Fold(special, e, s) = a[n]
  <2> HIDE DEF e
  <2> QED
    BY <1>1, Filling!FoldWalk
<1> DEFINE S == {k \in Nat : k <= n => a[k] \in Text}
<1>3. 0 \in S
  BY <1>2, NoText
<1>4. ASSUME NEW k \in Nat, k \in S
      PROVE  k + 1 \in S
  <2> SUFFICES ASSUME k + 1 <= n PROVE a[k + 1] \in Text
    OBVIOUS
  <2> DEFINE b == s[k + 1]
             t == IF b \in special THEN <<Backslash, b>> ELSE <<b>>
  <2>1. k + 1 \in 1..n /\ (k + 1) - 1 = k /\ k <= n
    BY <1>1
  <2>2. b \in Byte /\ Backslash \in Byte
    BY <1>1, <2>1 DEF Backslash, Byte
  <2>3. a[k + 1] = a[k] \o t
    BY <1>2, <2>1 DEF AddEscaped
  <2>4. t \in Text
    <3> HIDE DEF b
    <3> QED
      BY <2>2, BytesIs
  <2>5. a[k] \in Text
    BY <1>4, <2>1
  <2> HIDE DEF t
  <2> QED
    BY <2>3, <2>4, <2>5, TextConcat
<1>5. n \in S
  <2> HIDE DEF S
  <2> QED
    BY <1>1, <1>3, <1>4, AllNats
<1>6. a[n] \in Text
  BY <1>1, <1>5
<1> QED
  BY <1>2, <1>6, EscapedIs

LEMMA PrefixTyped ==
  ASSUME NEW s \in Text, NEW n \in Int, n <= Len(s)
  PROVE  SubSeq(s, 1, n) \in Text
<1>1. Len(s) \in Nat /\ \A i \in 1..Len(s) : s[i] \in Byte
  BY Elements DEF Text
<1>2. \A i \in 1..n : s[i] \in Byte
  BY <1>1
<1> QED
  BY <1>2, SubSeqProperties DEF Text

\* The fields of a line are text, and so is the line.
LEMMA formatNameTyped ==
  ASSUME NEW name \in Text, NEW isSequence
  PROVE  formatName(name, isSequence) \in Text
<1> DEFINE safe == SafeName(name)
           slash == <<Slash>>
           front == SubSeq(safe, 1, Len(safe) - 1)
<1>1. \A t \in Text : \A q : EscapeField(t, q) \in Text
  BY SafeNameTyped, EscapedTyped DEF EscapeField
<1>2. safe \in Text
  BY SafeNameTyped
<1>3. front \in Text
  <2>1. Len(safe) \in Nat /\ Len(safe) - 1 \in Int /\ Len(safe) - 1 <= Len(safe)
    BY <1>2, TextElements
  <2> HIDE DEF safe
  <2> QED
    BY <1>2, <2>1, PrefixTyped
<1>4. slash \in Text
  <2>1. Slash \in Byte
    BY DEF Slash, Byte
  <2> QED
    BY <2>1, BytesIs
<1>5. EscapeField(front, FALSE) \o slash \in Text
  <2>1. EscapeField(front, FALSE) \in Text
    BY <1>1, <1>3
  <2> HIDE DEF slash
  <2> QED
    BY <1>4, <2>1, TextConcat
<1>6. EscapeField(safe, isSequence) \in Text
  BY <1>1, <1>2
<1> QED
  BY <1>5, <1>6 DEF formatName

Flows == {NoFlow, Outbound, Inbound, Bidirectional}

LinkType == [target : Text, hardLink : -1..9, flow : Flows, flowTarget : Text]

EntryType ==
  [mode : {"file", "dir", "symlink"}, name : Text, isSequence : BOOLEAN,
   target : Text, hardLink : -1..9, flow : Flows, flowTarget : Text,
   id : IDs \cup {NilId, Malformed}]

LEMMA FlowsTyped == Flows \subseteq Text
<1> DEFINE less == 60
           dash == 45
           greater == 62
           a == <<dash, greater>>
           b == <<less, dash>>
           c == <<less, greater>>
<1>1. dash \in Byte /\ greater \in Byte /\ less \in Byte
  BY DEF Byte
<1>2. a \in Text /\ b \in Text /\ c \in Text
  <2> HIDE DEF less, dash, greater
  <2> QED
    BY <1>1, BytesIs
<1>3. NoFlow \in Text
  BY NoText DEF NoFlow
<1>4. Flows = {NoFlow, a, b, c}
  BY DEF Flows, Outbound, Inbound, Bidirectional
<1> HIDE DEF a, b, c
<1> QED
  BY <1>2, <1>3, <1>4

LEMMA LinkTextTyped ==
  ASSUME NEW e \in EntryType
  PROVE  LinkText(e) \in Text
<1> DEFINE space == <<Space>>
           nothing == <<>>
           group == e.hardLink
           digit == <<48 + group>>
<1>1. e.target \in Text /\ e.flow \in Text /\ e.flowTarget \in Text /\ group \in -1..9
  BY FlowsTyped DEF EntryType
<1>2. space \in Text /\ nothing \in Text /\ Outbound \in Text
  <2>1. Space \in Byte
    BY DEF Space, Byte
  <2> QED
    BY <2>1, BytesIs, NoText, FlowsTyped DEF Flows
<1>3. ~(group < 0) => digit \in Text
  <2>1. \A n \in -1..9 : ~(n < 0) => 48 + n \in Byte
    BY DEF Byte
  <2>2. ~(group < 0) => 48 + group \in Byte
    <3> HIDE DEF group
    <3> QED
      BY <1>1, <2>1
  <2> HIDE DEF group
  <2> QED
    BY <2>2, BytesIs
<1>4. space \o Outbound \o space \o formatTarget(e.target) \in Text
  <2>1. formatTarget(e.target) \in Text
    BY <1>1, SafeNameTyped, EscapedTyped DEF formatTarget
  <2> HIDE DEF space
  <2> QED
    BY <1>2, <2>1, TextConcat
<1>5. space \o Outbound \o (IF group < 0 THEN nothing ELSE digit) \in Text
  <2> HIDE DEF space, nothing, digit
  <2> QED
    BY <1>2, <1>3, TextConcat
<1>6. space \o e.flow \o space \o e.flowTarget \in Text
  <2> HIDE DEF space
  <2> QED
    BY <1>1, <1>2, TextConcat
<1>7. CASE e.target # <<>>
  <2>1. LinkText(e) = space \o Outbound \o space \o formatTarget(e.target)
    BY <1>7 DEF LinkText
  <2> QED
    BY <1>4, <2>1
<1>8. CASE e.target = <<>> /\ e.hardLink # 0
  <2>1. LinkText(e) = space \o Outbound \o (IF group < 0 THEN nothing ELSE digit)
    BY <1>8 DEF LinkText
  <2> QED
    BY <1>5, <2>1
<1>9. CASE e.target = <<>> /\ e.hardLink = 0 /\ e.flow # NoFlow
  <2>1. LinkText(e) = space \o e.flow \o space \o e.flowTarget
    BY <1>9 DEF LinkText
  <2> QED
    BY <1>6, <2>1
<1>10. CASE e.target = <<>> /\ e.hardLink = 0 /\ e.flow = NoFlow
  <2>1. LinkText(e) = nothing
    BY <1>10 DEF LinkText
  <2> QED
    BY <1>2, <2>1
<1> QED
  BY <1>7, <1>8, <1>9, <1>10

LEMMA FormatTyped ==
  ASSUME NEW e \in EntryType, e.id # Malformed
  PROVE  Format(e) \in Text
<1> DEFINE space == <<Space>>
           null == <<45>>
           id == IF e.id = NilId THEN null ELSE e.id
<1>1. space \in Text /\ null \in Text
  <2>1. Space \in Byte /\ 45 \in Byte
    BY DEF Space, Byte
  <2> QED
    BY <2>1, BytesIs
<1>2. id \in Text
  <2>1. IDs \subseteq Text
    BY TextAssumption DEF Text
  <2>2. e.id \in IDs \cup {NilId}
    BY DEF EntryType
  <2> HIDE DEF null
  <2> QED
    BY <1>1, <2>1, <2>2
<1>3. formatName(e.name, e.isSequence) \in Text /\ LinkText(e) \in Text
  BY formatNameTyped, LinkTextTyped DEF EntryType
<1>4. Format(e) = formatName(e.name, e.isSequence) \o LinkText(e) \o space \o id
  BY DEF Format, IDText
<1> HIDE DEF space, id
<1> QED
  BY <1>1, <1>2, <1>3, <1>4, TextConcat

-----------------------------------------------------------------------------
(* What is read of a line.                                                   *)

FieldType(n) == [value : Text, end : 1..(n + 1)]

\* c is the line, the bytes with escapes, and whether the field is a name.
FieldAt(c, f, j) ==
  LET s == c[1]
      Ends == IF c[3] THEN AfterName(s, j) ELSE BeforeID(s, j)
      Then(head, rest) == [value |-> head \o rest.value, end |-> rest.end]
  IN IF j > Len(s) THEN [value |-> <<>>, end |-> j]
     ELSE IF s[j] = Backslash /\ j < Len(s) /\ s[j + 1] \in c[2]
          THEN Then(<<s[j + 1]>>, f[j + 2])
     ELSE IF c[3] /\ s[j] = Slash THEN [value |-> <<Slash>>, end |-> j + 1]
     ELSE IF Ends THEN [value |-> <<>>, end |-> j]
     ELSE Then(<<s[j]>>, f[j + 1])

Fielding == INSTANCE FoldFacts WITH Op <- FieldAt

FieldsFrom(c) == CHOOSE f : f = [j \in 1..(Len(c[1]) + 1) |-> FieldAt(c, f, j)]

Then(head, rest) == [value |-> head \o rest.value, end |-> rest.end]

\* A field is what the recursion says at its first byte.
LEMMA FieldIs ==
  ASSUME NEW s, NEW i, NEW special, NEW isName
  PROVE  Field(s, i, special, isName) = FieldsFrom(<<s, special, isName>>)[i]
BY DEF Field, FieldsFrom, FieldAt

LEMMA ThenTyped ==
  ASSUME NEW n \in Nat, NEW head \in Text, NEW rest \in FieldType(n)
  PROVE  Then(head, rest) \in FieldType(n)
<1>1. rest.value \in Text /\ rest.end \in 1..(n + 1)
  BY DEF FieldType
<1>2. head \o rest.value \in Text
  BY <1>1, TextConcat
<1> QED
  BY <1>1, <1>2 DEF Then, FieldType

\* The field ends here, or goes on later.
LEMMA FieldCases ==
  ASSUME NEW s \in Text, NEW special, NEW isName, NEW j \in 1..(Len(s) + 1)
  PROVE  LET c == <<s, special, isName>>
         IN \/ \E r \in FieldType(Len(s)) : \A f : FieldAt(c, f, j) = r
            \/ \E head \in Text, k \in 1..(Len(s) + 1) :
                 k > j /\ \A f : FieldAt(c, f, j) = Then(head, f[k])
<1> DEFINE c == <<s, special, isName>>
           n == Len(s)
           nothing == <<>>
           slash == <<Slash>>
           Here(r) == r \in FieldType(n) /\ \A f : FieldAt(c, f, j) = r
           Goes(head, k) == /\ head \in Text /\ k \in 1..(n + 1) /\ k > j
                            /\ \A f : FieldAt(c, f, j) = Then(head, f[k])
           Ends == IF isName THEN AfterName(s, j) ELSE BeforeID(s, j)
<1>1. n \in Nat /\ \A k \in 1..n : s[k] \in Byte
  BY Elements DEF Text
<1>2. nothing \in Text /\ slash \in Text
  <2>1. Slash \in Byte
    BY DEF Slash, Byte
  <2> QED
    BY <2>1, BytesIs, NoText
<1>3. \A f : FieldAt(c, f, j) =
        IF j > n THEN [value |-> nothing, end |-> j]
        ELSE IF s[j] = Backslash /\ j < n /\ s[j + 1] \in special
             THEN Then(<<s[j + 1]>>, f[j + 2])
        ELSE IF isName /\ s[j] = Slash THEN [value |-> slash, end |-> j + 1]
        ELSE IF Ends THEN [value |-> nothing, end |-> j]
        ELSE Then(<<s[j]>>, f[j + 1])
  BY DEF FieldAt, Then
<1>4. \A v \in Text, k \in 1..(n + 1) : [value |-> v, end |-> k] \in FieldType(n)
  BY DEF FieldType
<1>5. \A k \in 1..n : <<s[k]>> \in Text
  BY <1>1, BytesIs
<1> DEFINE here == [value |-> nothing, end |-> j]
           past == [value |-> slash, end |-> j + 1]
<1>6. here \in FieldType(n) /\ (~(j > n) => past \in FieldType(n))
  <2>1. ~(j > n) => j + 1 \in 1..(n + 1)
    BY <1>1
  <2> HIDE DEF n, nothing, slash
  <2> QED
    BY <1>2, <1>4, <2>1 DEF n
<1> HIDE DEF Ends, c, nothing, slash, here, past
<1>7. CASE j > n
  <2>1. Here(here)
    BY <1>3, <1>6, <1>7 DEF here
  <2> QED
    BY <2>1 DEF c
<1>8. CASE ~(j > n) /\ s[j] = Backslash /\ j < n /\ s[j + 1] \in special
  <2>1. j + 1 \in 1..n /\ j + 2 \in 1..(n + 1) /\ j + 2 > j
    BY <1>1, <1>8
  <2> DEFINE head == <<s[j + 1]>>
  <2>2. head \in Text
    BY <1>5, <2>1
  <2>3. \A f : FieldAt(c, f, j) = Then(head, f[j + 2])
    BY <1>3, <1>8
  <2> HIDE DEF head
  <2>4. Goes(head, j + 2)
    BY <2>1, <2>2, <2>3
  <2> QED
    BY <2>4 DEF c
<1>9. CASE ~(j > n) /\ ~(s[j] = Backslash /\ j < n /\ s[j + 1] \in special)
           /\ isName /\ s[j] = Slash
  <2>1. Here(past)
    BY <1>3, <1>6, <1>9 DEF past
  <2> QED
    BY <2>1 DEF c
<1>10. CASE ~(j > n) /\ ~(s[j] = Backslash /\ j < n /\ s[j + 1] \in special)
            /\ ~(isName /\ s[j] = Slash) /\ Ends
  <2>1. Here(here)
    BY <1>3, <1>6, <1>10 DEF here
  <2> QED
    BY <2>1 DEF c
<1>11. CASE ~(j > n) /\ ~(s[j] = Backslash /\ j < n /\ s[j + 1] \in special)
            /\ ~(isName /\ s[j] = Slash) /\ ~Ends
  <2>1. j \in 1..n /\ j + 1 \in 1..(n + 1) /\ j + 1 > j
    BY <1>1, <1>11
  <2> DEFINE head == <<s[j]>>
  <2>2. head \in Text
    BY <1>5, <2>1
  <2>3. \A f : FieldAt(c, f, j) = Then(head, f[j + 1])
    BY <1>3, <1>11
  <2> HIDE DEF head
  <2>4. Goes(head, j + 1)
    BY <2>1, <2>2, <2>3
  <2> QED
    BY <2>4 DEF c
<1> QED
  BY <1>7, <1>8, <1>9, <1>10, <1>11

\* A field is text and ends in the line or just after it.
LEMMA FieldTyped ==
  ASSUME NEW s \in Text, NEW special, NEW isName, NEW i \in 1..(Len(s) + 1)
  PROVE  Field(s, i, special, isName) \in FieldType(Len(s))
<1> DEFINE c == <<s, special, isName>>
           n == Len(s) + 1
           V == FieldType(Len(s))
           f == FieldsFrom(c)
           nothing == <<>>
           v == [value |-> nothing, end |-> 1]
<1>1. Len(s) \in Nat /\ n \in Nat
  BY TextElements
<1>2. v \in V
  <2>1. nothing \in Text /\ 1 \in 1..(Len(s) + 1)
    BY <1>1, NoText
  <2> HIDE DEF nothing
  <2> QED
    BY <2>1 DEF FieldType
<1>3. Fielding!Later(c, n, V)
  <2> SUFFICES ASSUME NEW h, NEW g, NEW j \in 1..n,
                      \A k \in 1..n : k > j => h[k] \in V /\ g[k] = h[k]
               PROVE  FieldAt(c, h, j) \in V /\ FieldAt(c, g, j) = FieldAt(c, h, j)
    BY DEF Fielding!Later
  <2>1. \/ \E r \in V : \A p : FieldAt(c, p, j) = r
        \/ \E head \in Text, k \in 1..n : k > j /\ \A p : FieldAt(c, p, j) = Then(head, p[k])
    BY FieldCases
  <2> HIDE DEF V, c, n
  <2>2. CASE \E r \in V : \A p : FieldAt(c, p, j) = r
    BY <2>2
  <2>3. CASE \E head \in Text, k \in 1..n : k > j /\ \A p : FieldAt(c, p, j) = Then(head, p[k])
    <3>1. PICK head \in Text, k \in 1..n : k > j /\ \A p : FieldAt(c, p, j) = Then(head, p[k])
      BY <2>3
    <3>2. h[k] \in V /\ g[k] = h[k]
      BY <3>1
    <3>3. Then(head, h[k]) \in V
      BY <1>1, <3>2, ThenTyped DEF V
    <3> QED
      BY <3>1, <3>2, <3>3
  <2> QED
    BY <2>1, <2>2, <2>3
<1>4. c[1] = s
  OBVIOUS
<1> HIDE DEF V, v, c
<1>5. f = [j \in 1..n |-> FieldAt(c, f, j)]
  <2>1. \E h \in [1..n -> V] : h = [j \in 1..n |-> FieldAt(c, h, j)]
    <3> HIDE DEF n
    <3> QED
      BY <1>1, <1>2, <1>3, Fielding!LaterExists
  <2> QED
    BY <1>4, <2>1 DEF FieldsFrom
<1>6. f \in [1..n -> V]
  <2> HIDE DEF n, f
  <2> QED
    BY <1>1, <1>3, <1>5, Fielding!LaterTyped
<1>7. Field(s, i, special, isName) = f[i]
  BY FieldIs DEF c
<1> QED
  BY <1>6, <1>7 DEF V

\* Spaces are skipped up to the end of the line at most.
LEMMA skipSpacesTyped ==
  ASSUME NEW s \in Text, NEW i \in 1..(Len(s) + 1)
  PROVE  skipSpaces(s, i) \in 1..(Len(s) + 1)
<1> DEFINE n == Len(s)
           P == {m \in Nat : s[i + m - 1] = Space}
           Past(j) == /\ \A k \in i..(j - 1) : s[k] = Space
                      /\ j > n \/ s[j] # Space
<1>1. n \in Nat /\ n + 1 - i \in Nat
  BY TextElements
<1>2. PICK k \in 0..(n + 1 - i) : (\A m \in 1..k : m \in P) /\ (k = n + 1 - i \/ k + 1 \notin P)
  BY <1>1, GoesOn
<1>3. i + k \in i..(n + 1) /\ Past(i + k)
  <2> HIDE DEF n
  <2>1. i + k \in i..(n + 1)
    BY <1>1
  <2>2. ASSUME NEW l \in i..((i + k) - 1)
        PROVE  s[l] = Space
    <3>1. l - i + 1 \in 1..k /\ i + (l - i + 1) - 1 = l
      BY <1>1
    <3> QED
      BY <1>2, <3>1
  <2>3. i + (k + 1) - 1 = i + k /\ k + 1 \in Nat /\ (k = n + 1 - i => i + k > n)
    BY <1>1
  <2>4. i + k > n \/ s[i + k] # Space
    BY <1>2, <2>3
  <2> QED
    BY <2>1, <2>2, <2>4
<1>4. skipSpaces(s, i) = CHOOSE j \in i..(n + 1) : Past(j)
  BY DEF skipSpaces
<1>5. skipSpaces(s, i) \in i..(n + 1)
  <2> HIDE DEF Past, n
  <2> QED
    BY <1>3, <1>4
<1> QED
  BY <1>1, <1>5

TargetOf(s, i) == UnsafeName(TargetField(s, skipSpaces(s, i + 2)).value)

FlowOf(s, i) == FlowField(s, skipSpaces(s, i + 2)).value

\* The links there are at byte i.
IsLink(s, i, link) ==
  \/ link = NoLink
  \/ Starts(s, i, Outbound) /\ link = [NoLink EXCEPT !.hardLink = -1]
  \/ /\ Starts(s, i, Outbound) /\ i + 2 <= Len(s) /\ s[i + 2] \in 49..57
     /\ link = [NoLink EXCEPT !.hardLink = s[i + 2] - 48]
  \/ Starts(s, i, Outbound) /\ link = [NoLink EXCEPT !.target = TargetOf(s, i)]
  \/ \E op \in {Outbound, Inbound, Bidirectional} :
       Starts(s, i, op) /\ link = [NoLink EXCEPT !.flow = op, !.flowTarget = FlowOf(s, i)]

LEMMA LinkIs ==
  ASSUME NEW s, NEW i, NEW mode
  PROVE  IsLink(s, i, Link(s, i, mode).link)
<1>1. CASE Starts(s, i, Outbound)
  BY <1>1 DEF Link, IsLink, TargetOf, FlowOf
<1>2. CASE ~Starts(s, i, Outbound) /\ Starts(s, i, Inbound)
  BY <1>2 DEF Link, IsLink, TargetOf, FlowOf
<1>3. CASE ~Starts(s, i, Outbound) /\ ~Starts(s, i, Inbound) /\ Starts(s, i, Bidirectional)
  BY <1>3 DEF Link, IsLink, TargetOf, FlowOf
<1>4. CASE ~Starts(s, i, Outbound) /\ ~Starts(s, i, Inbound) /\ ~Starts(s, i, Bidirectional)
  BY <1>4 DEF Link, IsLink, TargetOf, FlowOf
<1> QED
  BY <1>1, <1>2, <1>3, <1>4

\* What a line says of links is of their types.
LEMMA LinksTyped ==
  /\ NoLink \in LinkType
  /\ \A h \in -1..9 : [NoLink EXCEPT !.hardLink = h] \in LinkType
  /\ \A t \in Text : [NoLink EXCEPT !.target = t] \in LinkType
  /\ \A op \in Flows, t \in Text : [NoLink EXCEPT !.flow = op, !.flowTarget = t] \in LinkType
<1> DEFINE nothing == <<>>
<1>1. nothing \in Text /\ NoFlow \in Flows /\ 0 \in -1..9
  BY NoText DEF Flows
<1>2. NoLink = [target |-> nothing, hardLink |-> 0, flow |-> NoFlow, flowTarget |-> nothing]
  BY DEF NoLink
<1> HIDE DEF nothing
<1>3. NoLink \in LinkType
  BY <1>1, <1>2 DEF LinkType
<1>4. ASSUME NEW h \in -1..9
      PROVE  [NoLink EXCEPT !.hardLink = h] \in LinkType
  BY <1>3 DEF LinkType
<1>5. ASSUME NEW t \in Text
      PROVE  [NoLink EXCEPT !.target = t] \in LinkType
  BY <1>3 DEF LinkType
<1>6. ASSUME NEW op \in Flows, NEW t \in Text
      PROVE  [NoLink EXCEPT !.flow = op, !.flowTarget = t] \in LinkType
  BY <1>3 DEF LinkType
<1> QED
  BY <1>3, <1>4, <1>5, <1>6

LEMMA LinkTyped ==
  ASSUME NEW s \in Text, NEW i \in 1..(Len(s) + 1), NEW mode
  PROVE  Link(s, i, mode).link \in LinkType
<1> DEFINE past == skipSpaces(s, i + 2)
           link == Link(s, i, mode).link
           target == TargetOf(s, i)
           flow == FlowOf(s, i)
<1>2. {Outbound, Inbound, Bidirectional} \subseteq Flows
  BY DEF Flows
<1>3. ASSUME NEW op \in {Outbound, Inbound, Bidirectional}, Starts(s, i, op)
      PROVE  target \in Text /\ flow \in Text
  <2>1. Len(op) = 2
    BY DEF Outbound, Inbound, Bidirectional
  <2>2. i + 2 \in 1..(Len(s) + 1)
    BY <1>3, <2>1, TextElements DEF Starts
  <2>3. past \in 1..(Len(s) + 1)
    <3> HIDE DEF past
    <3> QED
      BY <2>2, skipSpacesTyped DEF past
  <2> HIDE DEF past
  <2>4. TargetField(s, past) \in FieldType(Len(s)) /\ FlowField(s, past) \in FieldType(Len(s))
    BY <2>3, FieldTyped DEF TargetField, FlowField
  <2>5. TargetField(s, past).value \in Text /\ FlowField(s, past).value \in Text
    BY <2>4 DEF FieldType
  <2> QED
    BY <2>5, UnsafeNameTyped DEF TargetOf, FlowOf, past
<1>4. IsLink(s, i, link)
  BY LinkIs
<1>5. \A b \in 49..57 : b - 48 \in -1..9
  OBVIOUS
<1>6. -1 \in -1..9
  OBVIOUS
<1> HIDE DEF target, flow, link, past
<1>7. CASE link = NoLink
  BY <1>7, LinksTyped DEF link
<1>8. CASE link = [NoLink EXCEPT !.hardLink = -1]
  <2> DEFINE h == -1
             other == [NoLink EXCEPT !.hardLink = h]
  <2>1. link = other
    BY <1>8
  <2>2. h \in -1..9
    BY <1>6
  <2>3. other \in LinkType
    <3> HIDE DEF h
    <3> QED
      BY <2>2, LinksTyped
  <2> QED
    BY <2>1, <2>3 DEF link
<1>9. CASE s[i + 2] \in 49..57 /\ link = [NoLink EXCEPT !.hardLink = s[i + 2] - 48]
  <2> DEFINE h == s[i + 2] - 48
             other == [NoLink EXCEPT !.hardLink = h]
  <2>1. link = other
    BY <1>9
  <2>2. h \in -1..9
    BY <1>5, <1>9
  <2>3. other \in LinkType
    <3> HIDE DEF h
    <3> QED
      BY <2>2, LinksTyped
  <2> QED
    BY <2>1, <2>3 DEF link
<1>10. CASE Starts(s, i, Outbound) /\ link = [NoLink EXCEPT !.target = target]
  <2>1. target \in Text
    BY <1>3, <1>10
  <2>2. [NoLink EXCEPT !.target = target] \in LinkType
    BY <2>1, LinksTyped
  <2> QED
    BY <1>10, <2>2 DEF link
<1>11. CASE \E op \in {Outbound, Inbound, Bidirectional} :
             Starts(s, i, op) /\ link = [NoLink EXCEPT !.flow = op, !.flowTarget = flow]
  <2>1. PICK op \in {Outbound, Inbound, Bidirectional} :
          Starts(s, i, op) /\ link = [NoLink EXCEPT !.flow = op, !.flowTarget = flow]
    BY <1>11
  <2>2. op \in Flows /\ flow \in Text
    BY <1>2, <1>3, <2>1
  <2>3. [NoLink EXCEPT !.flow = op, !.flowTarget = flow] \in LinkType
    BY <2>2, LinksTyped
  <2> QED
    BY <2>1, <2>3 DEF link
<1> QED
  BY <1>4, <1>7, <1>8, <1>9, <1>10, <1>11 DEF IsLink, target, flow

\* What is read of a line is an entry.
LEMMA ParseTyped ==
  ASSUME NEW s \in Text, NEW mode \in {"file", "dir", "symlink"}
  PROVE  Parse(s, mode) \in EntryType
<1> DEFINE name == NameField(s, 1)
           link == Link(s, skipSpaces(s, name.end), mode)
           l == link.link
           called == UnsafeName(name.value)
           sequence == hasUnescapedSequenceNotation(SubSeq(s, 1, name.end - 1))
           id == ReadID(Remaining(s, link.end))
<1>1. name \in FieldType(Len(s))
  <2>1. 1 \in 1..(Len(s) + 1)
    BY TextElements
  <2> QED
    BY <2>1, FieldTyped DEF NameField
<1>2. called \in Text /\ name.end \in 1..(Len(s) + 1)
  BY <1>1, UnsafeNameTyped DEF FieldType
<1>3. l \in LinkType
  <2> HIDE DEF name
  <2> QED
    BY <1>2, skipSpacesTyped, LinkTyped
<1>4. sequence \in BOOLEAN
  BY DEF hasUnescapedSequenceNotation
<1>5. id \in IDs \cup {NilId, Malformed}
  BY DEF ReadID
<1>6. Parse(s, mode) =
        [mode |-> mode, name |-> called, isSequence |-> sequence,
         target |-> l.target, hardLink |-> l.hardLink,
         flow |-> l.flow, flowTarget |-> l.flowTarget, id |-> id]
  BY DEF Parse
<1> HIDE DEF called, sequence, l, id
<1>7. l.target \in Text /\ l.hardLink \in -1..9 /\ l.flow \in Flows /\ l.flowTarget \in Text
  BY <1>3 DEF LinkType
<1> QED
  BY <1>2, <1>4, <1>5, <1>6, <1>7 DEF EntryType

-----------------------------------------------------------------------------
(* The entry of the specification.                                           *)

\* Each step leaves an entry.
LEMMA NamedTyped ==
  ASSUME NEW kind, NEW base \in Text
  PROVE  Named(kind, base) \in Text
<1> DEFINE slash == <<Slash>>
<1>1. slash \in Text
  <2>1. Slash \in Byte
    BY DEF Slash, Byte
  <2> QED
    BY <2>1, BytesIs
<1>2. base \o slash \in Text
  <2> HIDE DEF slash
  <2> QED
    BY <1>1, TextConcat
<1> QED
  BY <1>2 DEF Named

LEMMA InitTyped ==
  ASSUME Init
  PROVE  entry \in EntryType
<1>1. PICK kind \in Kinds, f \in Fragments :
        entry = [mode |-> kind.mode, name |-> Named(kind, f), isSequence |-> kind.isSequence,
                 target |-> kind.target, hardLink |-> kind.hardLink,
                 flow |-> kind.flow, flowTarget |-> kind.flowTarget, id |-> kind.id]
  BY DEF Init
<1>2. f \in Text
  BY TextAssumption DEF Text
<1>3. Named(kind, f) \in Text
  BY <1>2, NamedTyped
<1>4. kind \in [mode : {"file", "dir", "symlink"}, isSequence : BOOLEAN,
                target : Text, hardLink : -1..9, flow : Flows, flowTarget : Text,
                id : IDs \cup {NilId}]
  BY TextAssumption DEF Text, Flows
<1>5. /\ kind.mode \in {"file", "dir", "symlink"} /\ kind.isSequence \in BOOLEAN
      /\ kind.target \in Text /\ kind.hardLink \in -1..9 /\ kind.flow \in Flows
      /\ kind.flowTarget \in Text /\ kind.id \in IDs \cup {NilId, Malformed}
  BY <1>4
<1> DEFINE name == Named(kind, f)
<1> HIDE DEF name
<1>6. name \in Text /\ entry = [mode |-> kind.mode, name |-> name, isSequence |-> kind.isSequence,
                 target |-> kind.target, hardLink |-> kind.hardLink,
                 flow |-> kind.flow, flowTarget |-> kind.flowTarget, id |-> kind.id]
  BY <1>1, <1>3 DEF name
<1> QED
  BY <1>5, <1>6 DEF EntryType

LEMMA RenameTyped ==
  ASSUME entry \in EntryType, NEW f \in Fragments, Rename(f)
  PROVE  entry' \in EntryType
<1> DEFINE base == IF entry.mode = "dir" THEN Front(entry.name) ELSE entry.name
           name == Named(entry, base \o f)
<1>1. entry.name \in Text /\ f \in Text
  BY TextAssumption DEF Text, EntryType
<1>2. base \in Text
  <2>1. Len(entry.name) \in Nat /\ Len(entry.name) - 1 \in Int
        /\ Len(entry.name) - 1 <= Len(entry.name)
    BY <1>1, TextElements
  <2>2. Front(entry.name) \in Text
    BY <1>1, <2>1, PrefixTyped DEF Front
  <2> QED
    BY <1>1, <2>2
<1>3. name \in Text
  <2> HIDE DEF base
  <2> QED
    BY <1>1, <1>2, TextConcat, NamedTyped
<1>4. entry' = [entry EXCEPT !.name = name]
  BY DEF Rename
<1> HIDE DEF name
<1> QED
  BY <1>3, <1>4 DEF EntryType

LEMMA RewriteTyped ==
  ASSUME entry \in EntryType, Rewrite
  PROVE  entry' \in EntryType
<1>1. Format(entry) \in Text
  BY FormatTyped DEF Rewrite
<1>2. entry.mode \in {"file", "dir", "symlink"}
  BY DEF EntryType
<1>3. Parse(Format(entry), entry.mode) \in EntryType
  BY <1>1, <1>2, ParseTyped
<1> QED
  BY <1>3 DEF Rewrite

\* The entry is one in every state: whatever is written of it, what is read back
\* (parseEntryFromLine) has fields of their types.  The invariant for the next two.
THEOREM EntryIsTyped == Spec => [](entry \in EntryType)
<1>1. Init => entry \in EntryType
  BY InitTyped
<1>2. entry \in EntryType /\ [Next]_vars => (entry \in EntryType)'
  <2> SUFFICES ASSUME entry \in EntryType, [Next]_vars
               PROVE  (entry \in EntryType)'
    OBVIOUS
  <2>1. EntryType' = EntryType
    OBVIOUS
  <2>2. CASE \E f \in Fragments : Rename(f)
    BY <2>2, RenameTyped
  <2>3. CASE Rewrite
    BY <2>3, RewriteTyped
  <2>4. CASE UNCHANGED vars
    BY <2>4 DEF vars
  <2> QED
    BY <2>2, <2>3, <2>4 DEF Next
<1> QED
  BY <1>1, <1>2, PTL DEF Spec

\* In every state the entry's name, unless it has U+FFFD, comes back from its
\* escapes: after any renames and any lines written and read again.
THEOREM EscapesAlwaysReverse == Spec => []EscapesReverse
<1>1. entry \in EntryType => EscapesReverse
  BY EscapedNamesComeBack DEF EscapesReverse, EntryType
<1> QED
  BY <1>1, EntryIsTyped, PTL

\* In every state the entry's name has one place among any other names
\* (NaturalLess of src/c4m/naturalsort.cpp), for either sign of char.
THEOREM NamesAreAlwaysInOrder == Spec => []OrderIsTotal
<1>1. entry \in EntryType => OrderIsTotal
  <2> SUFFICES ASSUME entry \in EntryType, NEW signed \in BOOLEAN
               PROVE  LET less == {m \in OtherNames : NaturalLess(m, entry.name, signed)}
                          greater == {m \in OtherNames : NaturalLess(entry.name, m, signed)}
                      IN /\ less \cap greater = {}
                         /\ less \cup greater = OtherNames \ {entry.name}
                         /\ \A k \in less, m \in greater : <<k, m>> \in OthersInOrder[signed]
    BY DEF OrderIsTotal
  <2> DEFINE name == entry.name
             Less(a, b) == NaturalLess(a, b, signed)
             less == {m \in OtherNames : Less(m, name)}
             greater == {m \in OtherNames : Less(name, m)}
  <2>1. name \in Seq(Byte) /\ \A m \in OtherNames : m \in Seq(Byte)
    BY TextAssumption DEF EntryType, Text
  <2>2. \A a, b, c \in Seq(Byte) :
          /\ ~Less(a, a) /\ (Less(a, b) /\ Less(b, c) => Less(a, c))
          /\ a # b => Less(a, b) \/ Less(b, a)
    BY NaturalLessIsTotal
  <2>3. OthersInOrder[signed] = {p \in OtherNames \X OtherNames : Less(p[1], p[2])}
    BY DEF OthersInOrder
  <2> HIDE DEF Less, name
  <2>4. less \cap greater = {}
    <3> SUFFICES ASSUME NEW m \in OtherNames, Less(m, name), Less(name, m) PROVE FALSE
      OBVIOUS
    <3>1. m \in Seq(Byte)
      BY <2>1
    <3>2. Less(m, m)
      BY ONLY <2>1, <2>2, <3>1, Less(m, name), Less(name, m)
    <3> QED
      BY <2>2, <3>1, <3>2
  <2>5. less \cup greater = OtherNames \ {name}
    <3>1. ASSUME NEW m \in OtherNames
          PROVE  Less(m, name) \/ Less(name, m) <=> m # name
      <4>1. m \in Seq(Byte)
        BY <2>1
      <4> QED
        BY ONLY <2>1, <2>2, <4>1
    <3> QED
      BY <3>1
  <2>6. ASSUME NEW k \in less, NEW m \in greater
        PROVE  <<k, m>> \in OthersInOrder[signed]
    <3>1. k \in OtherNames /\ m \in OtherNames /\ Less(k, name) /\ Less(name, m)
      OBVIOUS
    <3>2. k \in Seq(Byte) /\ m \in Seq(Byte)
      BY <2>1, <3>1
    <3>3. Less(k, m)
      BY ONLY <2>1, <2>2, <3>1, <3>2
    <3> QED
      BY <2>3, <3>1, <3>3
  <2> QED
    BY <2>4, <2>5, <2>6 DEF Less, name
<1> QED
  BY <1>1, EntryIsTyped, PTL
=============================================================================
