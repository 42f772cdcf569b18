-------------------------------- MODULE IDs ---------------------------------
(***************************************************************************)
(* A set of IDs and its tree ID (src/c4/tree.cpp): callers append IDs, in    *)
(* any order and as often as they like; TreeID sorts them, drops duplicates  *)
(* and pairs neighbours level by level until one ID is left.                 *)
(*                                                                         *)
(* An appended ID is its rank among digests.  SHA-512 is free of collisions, *)
(* and Sum hashes the smaller operand first, so the sum of two different IDs *)
(* is determined by the set of the two.                                      *)
(***************************************************************************)
EXTENDS Integers, FiniteSets, SequencesExt

CONSTANTS Appended,   \* IDs a caller may append, as ranks
          MaxIDs      \* bound: IDs appended

ASSUME IDsAssumption == Appended \subseteq Nat \ {0} /\ MaxIDs \in Nat

VARIABLE ids          \* ids_

Leaf(d) == [digest |-> d, of |-> {}]

\* The ID of the concatenated digests of the IDs in S, smallest first.
Hash(S) == [digest |-> 0, of |-> S]

NilID == Leaf(0)

Sum(a, b) == IF a = b THEN a ELSE Hash({a, b})

\* The IDs of S, each after those below it.
InOrder(S) ==
  [k \in 1..Cardinality(S) |->
     CHOOSE d \in S : Cardinality({e \in S : e < d}) = k - 1]

\* std::sort and std::unique.
SortUnique(s) == InOrder(Range(s))

PairLevelDroppingOdd(s) ==
  IF Len(s) = 1 THEN s ELSE [k \in 1..(Len(s) \div 2) |-> Sum(s[2 * k - 1], s[2 * k])]

\* Neighbours are summed, an odd last one passes through.
PairLevel(s) ==
  [k \in 1..((Len(s) + 1) \div 2) |->
     IF 2 * k <= Len(s) THEN Sum(s[2 * k - 1], s[2 * k]) ELSE s[2 * k - 1]]

\* A level of one ID stays as it is, and there are fewer levels than IDs.
TreeID(s) ==
  LET sorted == SortUnique(s)
      leaves == [k \in DOMAIN sorted |-> Leaf(sorted[k])]
  IN IF s = <<>> THEN NilID
     ELSE FoldLeft(LAMBDA level, d : PairLevel(level), leaves, sorted)[1]

NoIDs == ids = <<>>

Add(d) == Len(ids) < MaxIDs /\ ids' = Append(ids, d)

AddSome == \E d \in Appended : Add(d)

Adding == NoIDs /\ [][AddSome]_ids

-----------------------------------------------------------------------------
PowerOfTwo(k) == FoldLeft(LAMBDA p, i : 2 * p, 1, [i \in 1..k |-> i])

\* The largest power of two below size.
Half(size) ==
  CHOOSE h \in {PowerOfTwo(k) : k \in 0..size} : h < size /\ size <= 2 * h

\* The Merkle tree by its usual definition: of the IDs of S in order, as many
\* as the largest power of two that is not all of them on the left.
MerkleRoot(S) ==
  LET sorted == InOrder(S)
      n == Len(sorted)
      root[i \in 1..n] ==
        [j \in 1..n |-> IF i >= j THEN Leaf(sorted[i])
                        ELSE LET split == i + Half(j - i + 1)
                             IN Hash({root[i][split - 1], root[split][j]})]
  IN root[1][n]

\* The bottom-up pairing computes the Merkle tree of the set of IDs, whatever
\* the order and the number of times they were appended: nothing is dropped or
\* counted twice where a level has an odd number.
TreeIDIsMerkleRoot == ids # <<>> => TreeID(ids) = MerkleRoot(Range(ids))
=============================================================================
