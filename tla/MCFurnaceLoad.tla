---------------------------- MODULE MCFurnaceLoad ----------------------------
(***************************************************************************)
(* FurnaceLoad for TLC: the loads are interchangeable.                     *)
(***************************************************************************)
EXTENDS FurnaceLoad, TLC

LoadSymmetry == Permutations(Loads)
=============================================================================
