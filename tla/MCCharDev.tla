------------------------------- MODULE MCCharDev -------------------------------
(***************************************************************************)
(* CharDev for TLC: two device numbers, two users.                         *)
(***************************************************************************)
EXTENDS CharDev
==============================================================================
