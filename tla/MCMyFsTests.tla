----------------------------- MODULE MCMyFsTests -----------------------------
(***************************************************************************)
(* An instance of MyFsTests for TLC: copies of test1 or test2 and one of   *)
(* the read-only programs.                                                 *)
(***************************************************************************)
EXTENDS MyFsTests
==============================================================================
