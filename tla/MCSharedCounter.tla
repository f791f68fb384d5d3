--------------------------- MODULE MCSharedCounter ---------------------------
(***************************************************************************)
(* An instance of SharedCounter for TLC: three threads whose limits differ.*)
(***************************************************************************)
EXTENDS SharedCounter

MCLimitThree == <<3, 1, 2>>
==============================================================================
