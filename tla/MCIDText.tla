------------------------------- MODULE MCIDText ------------------------------
(* Digests of four digits in base 4 and texts of six in base 3: limbs of two   *)
(* text digits or three digest digits, and a word that just holds the largest  *)
(* product.  Texts reach past the digests, as 58^88 does past 2^512.           *)
EXTENDS IDText
=============================================================================
