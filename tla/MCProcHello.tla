----------------------------- MODULE MCProcHello -----------------------------
(***************************************************************************)
(* Instances of ProcHello for TLC: a buffer of three bytes with an initial *)
(* message of one.                                                         *)
(***************************************************************************)
EXTENDS ProcHello
==============================================================================
