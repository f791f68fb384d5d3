---------------------------- MODULE DriverResources ----------------------------
(***************************************************************************)
(* What the two ram disk drivers of exp4 take from the kernel: the memory  *)
(* of the disk, a request queue, a major number and a gendisk, counted.    *)
(***************************************************************************)
EXTENDS Integers

Resource == {"memory", "queue", "major", "disk"}

Nothing == [r \in Resource |-> 0]
Acquire(held, S) == [r \in Resource |-> held[r] + (IF r \in S THEN 1 ELSE 0)]
Release(held, S) == [r \in Resource |-> held[r] - (IF r \in S THEN 1 ELSE 0)]
==============================================================================
