-------------------------------- MODULE MCBlkMq --------------------------------
(***************************************************************************)
(* BlkMq for TLC: loads that fail at every call, several times each.       *)
(***************************************************************************)
EXTENDS BlkMq
==============================================================================
