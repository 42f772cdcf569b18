------------------------------- MODULE MCIDs --------------------------------
(* Up to six IDs, of six: trees of three levels, an odd number of IDs at one, *)
(* two or none of them.                                                      *)
EXTENDS IDs
=============================================================================
