------------------------------ MODULE MCMapDriver ------------------------------
(***************************************************************************)
(* Instances of MapDriver for TLC: an area of three pages, mappings that   *)
(* may grow one page past it, two files, two VMAs.                         *)
(***************************************************************************)
EXTENDS MapDriver, TLC

MCSymmetry == Permutations(Files) \cup Permutations(Vmas)
==============================================================================
