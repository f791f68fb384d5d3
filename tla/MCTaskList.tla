------------------------------- MODULE MCTaskList -------------------------------
(***************************************************************************)
(* TaskList for TLC: five tasks that differ in nothing.                   *)
(***************************************************************************)
EXTENDS TaskList, TLC

MCSymmetry == Permutations(Tasks)
==============================================================================
