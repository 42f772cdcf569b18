------------------------------- MODULE IDText -------------------------------
(***************************************************************************)
(* The text of an ID: base58Encode and base58Decode of src/c4/encoder.cpp,   *)
(* with ID::String and ID::Parse around them.  A number given by its digits  *)
(* in one base goes into limbs that hold several digits of the other base,   *)
(* in unsigned words of fixed width.  The two directions are one machine;    *)
(* what comes out of one goes into the other.                                *)
(***************************************************************************)
EXTENDS Integers, Sequences, SequencesExt, FiniteSetsExt

CONSTANTS Word,           \* number of values of a machine word (2^64)
          ByteBase,       \* base of the digest (256)
          DigestLen,      \* digits of a digest (64)
          TextBase,       \* base of the text (58)
          TextLen,        \* digits of a text (88)
          DigitsPerLimb,  \* text digits in a limb when encoding (9)
          Pow58,          \* TextBase ^ DigitsPerLimb
          MaxLimbs,       \* size of the encoder's array (10)
          BytesPerLimb,   \* bytes in a limb when decoding (7)
          Pow256,         \* ByteBase ^ BytesPerLimb
          DecodeMaxLimbs  \* size of the decoder's array (10)

ASSUME WidthAssumption ==
  /\ Word \in Nat /\ ByteBase \in Nat \ {0, 1} /\ TextBase \in Nat \ {0, 1}
  /\ Pow58 \in Nat \ {0} /\ Pow256 \in Nat \ {0}
  /\ Pow58 * ByteBase <= Word /\ Pow256 * TextBase <= Word

\* The factor b, n times.
Pow(b, n) == FoldLeft(LAMBDA p, d : p * d, 1, [k \in 1..n |-> b])

ASSUME SizeAssumption ==
  /\ {DigestLen, TextLen, DigitsPerLimb, MaxLimbs, BytesPerLimb, DecodeMaxLimbs} \subseteq Nat
  /\ Pow58 = Pow(TextBase, DigitsPerLimb) /\ Pow256 = Pow(ByteBase, BytesPerLimb)
  /\ Pow(ByteBase, DigestLen) <= Pow(TextBase, TextLen)
  /\ DigitsPerLimb * MaxLimbs >= TextLen
  /\ BytesPerLimb * DecodeMaxLimbs >= DigestLen

Digests == [1..DigestLen -> 0..(ByteBase - 1)]

\* The digit TextBase is a character that is not of the alphabet.
Texts == [1..TextLen -> 0..TextBase]

VARIABLES start,   \* the first input
          phase,   \* the direction
          input,   \* digits not yet read, the most significant first
          limbs,   \* limbs[0 .. nlimbs-1]
          j,       \* the limb that is multiplied next
          carry,
          turns    \* number of conversions that have ended

vars == <<start, phase, input, limbs, j, carry, turns>>

Base == IF phase = "encode" THEN ByteBase ELSE TextBase

PowerTooLarge == IF phase = "encode" THEN Pow58 * TextBase ELSE Pow256 * ByteBase
PowerTooSmall == IF phase = "encode" THEN TextBase ELSE Pow256

\* Limbs are below it.
Power == IF phase = "encode" THEN Pow58 ELSE Pow256

Init ==
  /\ \/ phase = "encode" /\ start \in Digests
     \/ phase = "decode" /\ start \in Texts
  /\ input = start
  /\ limbs = <<>>
  /\ j = 1
  /\ carry = 0
  /\ turns = 0

Converting == phase \in {"encode", "decode"}

\* The loops over the limbs have ended for the last digit read.
Ready == j > Len(limbs) /\ carry = 0

\* Every byte is a digit; of the characters 58 are.
IsDigit(d) == d \in 0..(Base - 1)

ReadDigit ==
  /\ Converting /\ Ready /\ input # <<>>
  /\ IsDigit(Head(input))
  /\ carry' = Head(input)
  /\ input' = Tail(input)
  /\ j' = 1
  /\ UNCHANGED <<start, phase, limbs, turns>>

Accumulator == (limbs[j] * Base + carry) % Word

Multiply ==
  /\ Converting
  /\ j <= Len(limbs)
  /\ limbs' = [limbs EXCEPT ![j] = Accumulator % Power]
  /\ carry' = Accumulator \div Power
  /\ j' = j + 1
  /\ UNCHANGED <<start, phase, input, turns>>

HasRoomBelowLast == phase = "decode" => Len(limbs) < DecodeMaxLimbs - 1

\* The encoder does not look whether its array has room.
HasRoom == phase = "decode" => Len(limbs) < DecodeMaxLimbs

Grow ==
  /\ Converting
  /\ j > Len(limbs) /\ carry > 0
  /\ HasRoom
  /\ limbs' = Append(limbs, carry % Power)
  /\ carry' = carry \div Power
  /\ j' = j + 1
  /\ UNCHANGED <<start, phase, input, turns>>

-----------------------------------------------------------------------------
(* From the limbs to digits.                                                 *)

Digits(v, base, n) == [k \in 1..n |-> (v \div Pow(base, n - k)) % base]

\* The number of digits of v, which is one for zero.
NumberOfDigits(v, base) ==
  CHOOSE n \in 1..(v + 1) : v < Pow(base, n) /\ (n = 1 \/ v >= Pow(base, n - 1))

\* The top limb without leading zeros, then the limbs below it in full.
Extract(base, perLimb) ==
  IF limbs = <<>> THEN <<>>
  ELSE LET n == Len(limbs)
       IN FoldLeft(LAMBDA s, t : s \o t,
                   Digits(limbs[n], base, NumberOfDigits(limbs[n], base)),
                   [k \in 1..(n - 1) |-> Digits(limbs[n - k], base, perLimb)])

PadNothing(s, n) == s

\* Zeros in front up to n digits.
Pad(s, n) == IF Len(s) >= n THEN s ELSE [k \in 1..(n - Len(s)) |-> 0] \o s

Restart(next, digits) ==
  /\ phase' = IF turns = 1 THEN "done" ELSE next
  /\ input' = digits
  /\ limbs' = <<>>
  /\ j' = 1
  /\ turns' = turns + 1
  /\ UNCHANGED <<start, carry>>

\* The end of ID::String.
FinishText ==
  /\ phase = "encode" /\ Ready /\ input = <<>>
  /\ Restart("decode", Pad(Extract(TextBase, DigitsPerLimb), TextLen))

\* The end of ID::Parse, when the number fits a digest.
FinishDigest ==
  /\ phase = "decode" /\ Ready /\ input = <<>>
  /\ Len(Extract(ByteBase, BytesPerLimb)) <= DigestLen
  /\ Restart("encode", Pad(Extract(ByteBase, BytesPerLimb), DigestLen))

RejectDigit == Ready /\ input # <<>> /\ ~IsDigit(Head(input))

RejectSize == Ready /\ input = <<>> /\ Len(Extract(ByteBase, BytesPerLimb)) > DigestLen

RejectRoom == j > Len(limbs) /\ carry > 0 /\ ~HasRoom

Reject ==
  /\ phase = "decode"
  /\ RejectDigit \/ RejectSize \/ RejectRoom
  /\ phase' = "rejected"
  /\ UNCHANGED <<start, input, limbs, j, carry, turns>>

Next == ReadDigit \/ Multiply \/ Grow \/ FinishText \/ FinishDigest \/ Reject

Spec == Init /\ [][Next]_vars

-----------------------------------------------------------------------------
\* Limbs and carry are in their ranges, which leaves room for the next
\* multiplication: a word never wraps.
NoOverflow ==
  Converting =>
    /\ carry \in 0..(Base - 1)
    /\ \A i \in 1..Len(limbs) : limbs[i] \in 0..(Power - 1)
    /\ j <= Len(limbs) => Accumulator = limbs[j] * Base + carry

\* The encoder, which does not check, never writes past its array.
ArrayHolds == phase = "encode" => Len(limbs) <= MaxLimbs

\* A digest written and parsed is that digest, and an accepted text parsed and
\* written is that text: two texts never name one ID.
TextComesBack == phase = "done" => input = start

Value(s, base) == FoldLeft(LAMBDA v, d : v * base + d, 0, s)

\* A text is rejected only for a character, or for a number past the digests:
\* never one that String made.
RejectsOnlyNonIDs ==
  phase = "rejected" =>
    /\ turns = 0
    /\ \/ \E i \in 1..TextLen : start[i] = TextBase
       \/ Value(start, TextBase) >= Pow(ByteBase, DigestLen)
=============================================================================
