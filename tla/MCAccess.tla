------------------------------- MODULE MCAccess -------------------------------
(***************************************************************************)
(* Access with a few requests that are alike.                               *)
(***************************************************************************)
EXTENDS Access, TLC
RequestSymmetry == Permutations(Requests)
===============================================================================
