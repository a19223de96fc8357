------------------------------ MODULE MCInstall ------------------------------
(***************************************************************************)
(* Install for TLC: runs are interchangeable model values.                 *)
(***************************************************************************)
EXTENDS InstallInv, TLC

Symmetry == Permutations(Run)
=============================================================================
