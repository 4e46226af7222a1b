----------------------------- MODULE MCStation ------------------------------
(***************************************************************************)
(* Station for TLC: the threads that call the API are alike.               *)
(***************************************************************************)
EXTENDS Station, TLC

AppSymmetry == Permutations(Apps)
=============================================================================
