----------------------------- MODULE NaturalSort ------------------------------
(***************************************************************************)
(* The order of names (src/c4m/naturalsort.cpp).  A name is a sequence of    *)
(* bytes.                                                                    *)
(***************************************************************************)
EXTENDS Integers, Sequences

IsDigit(b) == b \in 48..57

\* Bytes compare as the build's char does.
CharLess(a, b, charIsSigned) ==
  LET Value(x) == IF charIsSigned /\ x >= 128 THEN x - 256 ELSE x
  IN Value(a) < Value(b)

\* The number of digits at byte i, and how many of them are leading zeros.
DigitsAt(s, i) ==
  CHOOSE k \in 0..Len(s) :
    /\ \A j \in 1..k : i + j - 1 <= Len(s) /\ IsDigit(s[i + j - 1])
    /\ i + k > Len(s) \/ ~IsDigit(s[i + k])

ZerosAt(s, i) ==
  CHOOSE k \in 0..DigitsAt(s, i) :
    /\ \A j \in 1..k : s[i + j - 1] = 48
    /\ k = DigitsAt(s, i) \/ s[i + k] # 48

DigitsLessByValue(da, db) ==
  LET sa == SubSeq(da, ZerosAt(da, 1) + 1, Len(da))
      sb == SubSeq(db, ZerosAt(db, 1) + 1, Len(db))
  IN IF Len(sa) # Len(sb) THEN Len(sa) < Len(sb)
     ELSE \E k \in 1..Len(sa) : sa[k] < sb[k] /\ \A j \in 1..(k - 1) : sa[j] = sb[j]

\* Runs of digits compare by value, without conversion to a number; equal
\* values by length.
DigitsLess(da, db) ==
  LET sa == SubSeq(da, ZerosAt(da, 1) + 1, Len(da))
      sb == SubSeq(db, ZerosAt(db, 1) + 1, Len(db))
  IN IF Len(sa) # Len(sb) THEN Len(sa) < Len(sb)
     ELSE IF sa # sb THEN \E k \in 1..Len(sa) : sa[k] < sb[k] /\ \A j \in 1..(k - 1) : sa[j] = sb[j]
     ELSE Len(da) < Len(db)

\* Text before digits, byte by byte, and runs of digits as one.
NaturalLess(a, b, charIsSigned) ==
  LET from[i \in 1..(Len(a) + 1)] ==   \* both are equal before byte i
        IF i > Len(a) \/ i > Len(b) THEN Len(a) < Len(b)
        ELSE IF IsDigit(a[i]) /\ IsDigit(b[i])
             THEN LET da == SubSeq(a, i, i + DigitsAt(a, i) - 1)
                      db == SubSeq(b, i, i + DigitsAt(b, i) - 1)
                  IN IF da # db THEN DigitsLess(da, db) ELSE from[i + Len(da)]
        ELSE IF IsDigit(a[i]) # IsDigit(b[i]) THEN ~IsDigit(a[i])
        ELSE IF a[i] # b[i] THEN CharLess(a[i], b[i], charIsSigned)
        ELSE from[i + 1]
  IN from[1]
=============================================================================
