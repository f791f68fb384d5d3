------------------------------ MODULE MCMyFsOpen ------------------------------
(***************************************************************************)
(* Instances of MyFsOpen for TLC.  Three users tell the checks apart:      *)
(* root, an ordinary user, and a user other than root that holds           *)
(* CAP_DAC_OVERRIDE.  An int of two bits wraps at 1.                       *)
(***************************************************************************)
EXTENDS MyFsOpen, TLC

Kernel == [checks |-> TRUE, mode |-> {"r"}]        \* myfs_kernel.c
Ubuntu == [checks |-> FALSE, mode |-> {"r", "w"}]  \* myfs_kernel_ubuntu.c

MCBuilds == {Kernel, Ubuntu}

MCSymmetry == Permutations(Handles) \cup Permutations(Infos)
==============================================================================
