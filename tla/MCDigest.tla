------------------------------ MODULE MCDigest ------------------------------
(* Two threads; inputs of one block, of less and of more than one block.      *)
EXTENDS Digest, TLC

MCInputs == {<<1, 2>>, <<2, 1, 1>>}

MCSymmetry == Permutations(Threads)
=============================================================================
