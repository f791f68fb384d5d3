------------------------------ MODULE MCPipeDemo ------------------------------
(***************************************************************************)
(* Instances of PipeDemo for TLC: the program is its own instance.         *)
(***************************************************************************)
EXTENDS PipeDemo
==============================================================================
