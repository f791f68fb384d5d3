-------------------------------- MODULE CharDev --------------------------------
(***************************************************************************)
(* exp4/exp4_1_kernel.c: a character device that takes a device number     *)
(* from the kernel and gives it back.  Other drivers register and          *)
(* unregister device numbers at any time.  The file operations print and   *)
(* return 0; an open file keeps the module.                                *)
(***************************************************************************)
EXTENDS Integers

CONSTANTS Numbers,   \* device numbers that the kernel can give out
          Users      \* processes that open the device (exp4.1.user.c)

VARIABLES pc,      \* absent, where device_init is, or loaded
          owner,   \* per device number: free, this module or another driver
          dev,     \* the device number of this load
          cdev,    \* my_cdev: NULL, allocated, or live (added)
          open     \* processes that have the device open

vars == <<pc, owner, dev, cdev, open>>

Init ==
  /\ pc = "absent" /\ cdev = "NULL" /\ open = {}
  /\ owner = [n \in Numbers |-> "free"] /\ dev \in Numbers

------------------------------------------------------------------------------
(* device_init and device_exit                                             *)

\* alloc_chrdev_region picks a free number; if it fails, init returns its
\* error and nothing has changed.
AllocRegion(n) ==
  /\ pc = "absent" /\ owner[n] = "free"
  /\ pc' = "cdev_alloc" /\ dev' = n /\ owner' = [owner EXCEPT ![n] = "this"]
  /\ cdev' = "NULL" /\ UNCHANGED open

CdevAlloc ==
  /\ pc = "cdev_alloc"
  /\ pc' = "cdev_add" /\ cdev' = "allocated"
  /\ UNCHANGED <<owner, dev, open>>

\* unregister_chrdev_region does not ask whose region it is.
Unregister == owner' = [owner EXCEPT ![dev] = "free"]

\* What the label unregister_chrdev returns when it is reached from the failure
\* of cdev_alloc: char_device_add_fail, whose initialisation the goto skipped.
\* insmod fails if it happens to be negative, and succeeds otherwise.
Indeterminate == {"absent", "loaded"}

CdevAllocFails ==
  /\ pc = "cdev_alloc" /\ Unregister
  /\ pc' \in Indeterminate
  /\ UNCHANGED <<dev, cdev, open>>

CdevAdd ==
  /\ pc = "cdev_add"
  /\ pc' = "loaded" /\ cdev' = "live"
  /\ UNCHANGED <<owner, dev, open>>

\* The label cdev_fail: cdev_del, unregister, and the error of cdev_add.
CdevAddFails ==
  /\ pc = "cdev_add" /\ Unregister
  /\ pc' = "absent" /\ cdev' = "NULL"
  /\ UNCHANGED <<dev, open>>

\* rmmod: cdev_del if there is a cdev, and unregister whatever has the number.
Exit ==
  /\ pc = "loaded" /\ open = {} /\ Unregister
  /\ pc' = "absent" /\ cdev' = "NULL"
  /\ UNCHANGED <<dev, open>>

------------------------------------------------------------------------------
(* Users and other drivers (external)                                      *)

Open(u) ==
  /\ cdev = "live" /\ owner[dev] = "this" /\ u \notin open
  /\ open' = open \cup {u}
  /\ UNCHANGED <<pc, owner, dev, cdev>>

Close(u) ==
  /\ u \in open
  /\ open' = open \ {u}
  /\ UNCHANGED <<pc, owner, dev, cdev>>

OtherRegisters(n) ==
  /\ owner[n] = "free"
  /\ owner' = [owner EXCEPT ![n] = "other"]
  /\ UNCHANGED <<pc, dev, cdev, open>>

OtherUnregisters(n) ==
  /\ owner[n] = "other"
  /\ owner' = [owner EXCEPT ![n] = "free"]
  /\ UNCHANGED <<pc, dev, cdev, open>>

Next ==
  \/ CdevAlloc \/ CdevAllocFails \/ CdevAdd \/ CdevAddFails \/ Exit
  \/ \E n \in Numbers : AllocRegion(n) \/ OtherRegisters(n) \/ OtherUnregisters(n)
  \/ \E u \in Users : Open(u) \/ Close(u)

Spec == Init /\ [][Next]_vars

------------------------------------------------------------------------------
(* Properties                                                              *)

\* The state of device_init and of the device numbers keeps its types.
TypeOK ==
  /\ pc \in {"absent", "cdev_alloc", "cdev_add", "loaded"}
  /\ owner \in [Numbers -> {"free", "this", "other"}] /\ dev \in Numbers
  /\ cdev \in {"NULL", "allocated", "live"} /\ open \subseteq Users

\* device_init returns 0 for success, as its comments say: a module that
\* counts as loaded has a live device under a number of its own, which
\* device_exit may therefore unregister.
LoadedOwnsRegion == pc = "loaded" => cdev = "live" /\ owner[dev] = "this"
==============================================================================
