------------------------------ MODULE MCMyFsTree ------------------------------
(***************************************************************************)
(* Instances of MyFsTree for TLC.                                          *)
(***************************************************************************)
EXTENDS MyFsTree
==============================================================================
