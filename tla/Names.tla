-------------------------------- MODULE Names --------------------------------
(***************************************************************************)
(* Names as text: UTF-8, SafeName and EscapeField with their inverses        *)
(* (src/c4m/safename.cpp), beside the order of names.                        *)
(* A string is a sequence of bytes.                                          *)
(***************************************************************************)
EXTENDS NaturalSort, SequencesExt

Byte == 0..255

Backslash == 92
Space == 32
Quote == 34
Slash == 47
Opening == 91
Closing == 93
CurrencySign == 164
Replacement == 65533

Starts(s, i, t) == i + Len(t) - 1 <= Len(s) /\ SubSeq(s, i, i + Len(t) - 1) = t

-----------------------------------------------------------------------------
(* UTF-8.                                                                    *)

IsTail(b) == b \div 64 = 2

OfTwo(a, b) == 64 * (a % 32) + (b % 64)
OfThree(a, b, c) == 64 * (64 * (a % 16) + (b % 64)) + (c % 64)
OfFour(a, b, c, d) == 64 * (64 * (64 * (a % 8) + (b % 64)) + (c % 64)) + (d % 64)

\* What starts with byte a and takes two, three or four bytes.
IsTwo(a, cp) == a \div 32 = 6 /\ cp >= 128
IsThree(a, cp) == a \div 16 = 14 /\ cp >= 2048 /\ cp \notin 55296..57343
IsFour(a, cp) == a \div 8 = 30 /\ cp >= 65536 /\ cp <= 1114111

\* The code point that starts at byte i, with its bytes.  What is not UTF-8 is
\* the replacement character, of one byte.
Rune(s, i) ==
  LET Tails(n) == i + n <= Len(s) /\ \A k \in 1..n : IsTail(s[i + k])
      two == OfTwo(s[i], s[i + 1])
      three == OfThree(s[i], s[i + 1], s[i + 2])
      four == OfFour(s[i], s[i + 1], s[i + 2], s[i + 3])
      rune(cp, len) == [cp |-> cp, bytes |-> SubSeq(s, i, i + len - 1)]
  IN IF s[i] < 128 THEN rune(s[i], 1)
     ELSE IF Tails(1) /\ IsTwo(s[i], two) THEN rune(two, 2)
     ELSE IF Tails(2) /\ IsThree(s[i], three) THEN rune(three, 3)
     ELSE IF Tails(3) /\ IsFour(s[i], four) THEN rune(four, 4)
     ELSE rune(Replacement, 1)

Runes(s) ==
  LET from[i \in 1..(Len(s) + 1)] ==
        IF i > Len(s) THEN <<>>
        ELSE LET r == Rune(s, i) IN <<r>> \o from[i + Len(r.bytes)]
  IN from[1]

\* Code points below 2^16, which is all that is ever encoded.
Utf8(cp) ==
  IF cp < 128 THEN <<cp>>
  ELSE IF cp < 2048 THEN <<192 + (cp \div 64), 128 + (cp % 64)>>
  ELSE <<224 + (cp \div 4096), 128 + ((cp \div 64) % 64), 128 + (cp % 64)>>

-----------------------------------------------------------------------------
(* SafeName.                                                                 *)

\* Printed as it is.
IsPrintable(cp) == cp >= 32 /\ cp \notin 127..159 /\ cp # Replacement

IsPlain(cp) == IsPrintable(cp) /\ cp \notin {CurrencySign, Backslash}

\* The characters that are escaped with a backslash: NUL, tab, newline,
\* carriage return, backslash; each with its letter.
Tier2 == {0, 9, 10, 13, Backslash}

Letter(c) ==
  IF c = 0 THEN 48 ELSE IF c = 9 THEN 116 ELSE IF c = 10 THEN 110
  ELSE IF c = 13 THEN 114 ELSE Backslash

IsBraille(cp) == cp >= 10240 /\ cp <= 10495

Braille == [b \in Byte |-> Utf8(10240 + b)]

InCurrencySigns(bytes) ==
  IF bytes = <<>> THEN <<>>
  ELSE Utf8(CurrencySign) \o FoldLeft(LAMBDA acc, b : acc \o Braille[b], <<>>, bytes)
         \o Utf8(CurrencySign)

\* An escape does not end the run of bytes before it.
SafeNameFlushingLate(raw) ==
  LET Step(acc, r) ==
        LET flushed == acc.out \o InCurrencySigns(acc.pending)
        IN IF IsPlain(r.cp) THEN [out |-> flushed \o r.bytes, pending |-> <<>>]
           ELSE IF r.cp \in Tier2
                THEN [out |-> acc.out \o <<Backslash, Letter(r.cp)>>, pending |-> acc.pending]
           ELSE [acc EXCEPT !.pending = @ \o r.bytes]
      end == FoldLeft(Step, [out |-> <<>>, pending |-> <<>>], Runes(raw))
  IN end.out \o InCurrencySigns(end.pending)

\* Runs of other bytes go as braille between currency signs.  Of a replacement
\* character, also one that was in the name, the first byte goes.
SafeName(raw) ==
  LET Step(acc, r) ==
        LET flushed == acc.out \o InCurrencySigns(acc.pending)
        IN IF IsPlain(r.cp) THEN [out |-> flushed \o r.bytes, pending |-> <<>>]
           ELSE IF r.cp \in Tier2
                THEN [out |-> flushed \o <<Backslash, Letter(r.cp)>>, pending |-> <<>>]
           ELSE [acc EXCEPT !.pending =
                   @ \o IF r.cp = Replacement THEN <<r.bytes[1]>> ELSE r.bytes]
      end == FoldLeft(Step, [out |-> <<>>, pending |-> <<>>], Runes(raw))
  IN end.out \o InCurrencySigns(end.pending)

\* A backslash before anything else, and a currency sign that does not open a
\* run of braille that another one closes, stand for themselves.
UnsafeName(encoded) ==
  LET rs == Runes(encoded)
      n == Len(rs)
      Escape(i, c) == rs[i].cp = Backslash /\ i < n /\ rs[i + 1].cp = Letter(c)
      Run(i, k) == /\ rs[i].cp = CurrencySign /\ i + k < n /\ rs[i + k + 1].cp = CurrencySign
                   /\ \A j \in 1..k : IsBraille(rs[i + j].cp)
      from[i \in 1..(n + 1)] ==
        IF i > n THEN <<>>
        ELSE IF \E c \in Tier2 : Escape(i, c)
             THEN <<CHOOSE c \in Tier2 : Escape(i, c)>> \o from[i + 2]
        ELSE IF \E k \in 1..n : Run(i, k)
             THEN LET k == CHOOSE k \in 1..n : Run(i, k)
                  IN [j \in 1..k |-> rs[i + j].cp - 10240] \o from[i + k + 2]
        ELSE rs[i].bytes \o from[i + 1]
  IN from[1]

-----------------------------------------------------------------------------
(* EscapeField.                                                              *)

\* A backslash before each byte in special.
Escaped(s, special) ==
  FoldLeft(LAMBDA acc, b : acc \o IF b \in special THEN <<Backslash, b>> ELSE <<b>>, <<>>, s)

EscapeField(name, isSequence) ==
  Escaped(SafeName(name), {Space, Quote} \cup IF isSequence THEN {} ELSE {Opening, Closing})

UnescapeField(escaped) ==
  LET n == Len(escaped)
      from[i \in 1..(n + 1)] ==
        IF i > n THEN <<>>
        ELSE IF /\ escaped[i] = Backslash /\ i < n
                /\ escaped[i + 1] \in {Space, Quote, Opening, Closing}
             THEN <<escaped[i + 1]>> \o from[i + 2]
        ELSE <<escaped[i]>> \o from[i + 1]
  IN from[1]
=============================================================================
