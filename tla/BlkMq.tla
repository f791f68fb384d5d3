--------------------------------- MODULE BlkMq ---------------------------------
(***************************************************************************)
(* exp4/exp_4_2.c: loading the ram disk rewritten for blk-mq.              *)
(*                                                                         *)
(* exp_4_2_init hands blk_mq_init_queue a tag_set that was never given to  *)
(* blk_mq_alloc_tag_set: its tags and its map are NULL.  The call can fail *)
(* early for want of memory; otherwise it dereferences them and insmod     *)
(* dies in the kernel.  Nothing after line 199 is ever executed: there is  *)
(* no disk, no request reaches requestHandler, and exp_4_2_exit is never   *)
(* called, since a module whose init did not return cannot be unloaded (or *)
(* loaded again).                                                          *)
(***************************************************************************)
EXTENDS Integers, DriverResources

CONSTANT MaxFailed    \* bound on the loads that fail at each call

ASSUME BlkMqAssumption == MaxFailed \in Nat

VARIABLES pc,       \* where exp_4_2_init is; absent: not loaded
          held,     \* kernel resources: how many of each are in use
          failed    \* history: how many loads failed at each call

vars == <<pc, held, failed>>

Calls == {"vmalloc", "register", "queue"}

Init == pc = "absent" /\ held = Nothing /\ failed = [c \in Calls |-> 0]

------------------------------------------------------------------------------
(* exp_4_2_init                                                            *)

InitStep(at, to, S) ==
  /\ pc = at /\ pc' = to /\ held' = Acquire(held, S)
  /\ UNCHANGED failed

\* call fails at pc = at; its error path gives back S and returns.
Fail(at, call, S) ==
  /\ pc = at /\ failed[call] < MaxFailed
  /\ pc' = "absent" /\ held' = Release(held, S)
  /\ failed' = [failed EXCEPT ![call] = @ + 1]

Vmalloc == InitStep("absent", "register", {"memory"})
VmallocFails == Fail("absent", "vmalloc", {})

Register == InitStep("register", "queue", {"major"})
\* Mutant: the error path gives back the number that it did not get.
RegisterFailsUnregisters == Fail("register", "register", {"major"})
\* return majorNum, without vfree(diskContent)
RegisterFails == Fail("register", "register", {})

\* blk_mq_init_queue has no memory for a queue: return PTR_ERR(queue), with the
\* memory of the disk and the major number kept.
InitQueueFails == Fail("queue", "queue", {})
\* It has, and takes tag_set.tags, which is NULL, for an array: the kernel kills
\* insmod inside the call, and the queue just allocated is left as well.
InitQueue == InitStep("queue", "crashed", {"queue"})

Next ==
  \/ Vmalloc \/ VmallocFails \/ Register \/ RegisterFails
  \/ InitQueue \/ InitQueueFails

Spec == Init /\ [][Next]_vars

------------------------------------------------------------------------------
(* Properties                                                              *)

\* The variables of exp_4_2_init keep their types: no error path gives back
\* what is not there.
TypeOK ==
  /\ pc \in {"absent", "register", "queue", "crashed"}
  /\ held \in [Resource -> Nat] /\ failed \in [Calls -> 0..MaxFailed]

\* What the loads that failed have left: the memory of the disk for each failure
\* after vmalloc, a major number for each failure of blk_mq_init_queue.
Left(r) ==
  IF r = "memory" THEN failed["register"] + failed["queue"]
  ELSE IF r = "major" THEN failed["queue"] ELSE 0

\* When insmod of exp_4_2 is over, what is in use is what the failed loads left
\* and, when blk_mq_init_queue has died on the tag_set, one of each of memory,
\* major number and queue more, which no exp_4_2_exit will give back.  There is
\* never a disk.
LeftBehind ==
  pc \in {"absent", "crashed"} =>
    held = [r \in Resource |->
              Left(r) + (IF pc = "crashed" /\ r # "disk" THEN 1 ELSE 0)]
==============================================================================
