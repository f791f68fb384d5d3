------------------------------- MODULE MyFsTree -------------------------------
(***************************************************************************)
(* Loading and unloading the myfs module, and the tree myfs_init builds    *)
(* (course_design/myfs_kernel.c), while users mount the file system and    *)
(* open its files.                                                         *)
(*                                                                         *)
(* register_filesystem makes myfs mountable before anything is in it, so   *)
(* users act between any two steps of myfs_init.  A creation is two steps: *)
(* the inode is attached to its dentry under the parent's lock, and i_fop  *)
(* is set after the lock is released.                                      *)
(***************************************************************************)
EXTENDS Integers, Sequences, FiniteSets

CONSTANT MaxMounts   \* bound on the mounts made by users

ASSUME MountsAssumption == MaxMounts \in Nat

VARIABLES mod,         \* the module: absent, loading, loaded or crashed
          phase, op,   \* where myfs_init stands, and the creation it is at
          retval,      \* its retval: 0 or an error
          registered,  \* my_fs_type is in the kernel's list
          myfs_mount,  \* "null", "ok" or "err" (an ERR_PTR)
          mounts,      \* mounts of myfs made by users
          tree,        \* per path: "none", "dir", "bare" (no i_fop yet) or "served"
          nlink,       \* per directory: i_nlink
          pslot,       \* the directory myfs_init passes as parent, or "null"
          opens        \* the paths users hold open

vars == <<mod, phase, op, retval, registered, myfs_mount, mounts, tree, nlink,
          pslot, opens>>

Dirs == {"root", "First", "Second"}
Names == {"First", "Second", "one", "two"}
Paths == Dirs \X Names

\* The creations of myfs_init, in order.
Ops == <<[dir |-> TRUE, name |-> "First"],
         [dir |-> FALSE, name |-> "one"], [dir |-> FALSE, name |-> "two"],
         [dir |-> TRUE, name |-> "Second"],
         [dir |-> FALSE, name |-> "one"], [dir |-> FALSE, name |-> "two"]>>

EmptyTree == [p \in Paths |-> "none"]
\* simple_fill_super gives the root two links.
EmptyNlink == [d \in Dirs |-> IF d = "root" THEN 2 ELSE 0]

\* mount_single keeps one super block for all mounts, the kernel's included.
SuperBlock == mounts > 0 \/ myfs_mount = "ok"

\* Mutant: my_fs_type has no owner.
PinnedNever == FALSE
\* .owner = THIS_MODULE: a super block holds a reference to the module.
Pinned == SuperBlock

Init ==
  /\ mod = "absent" /\ phase = "register" /\ op = 1 /\ retval = 0
  /\ registered = FALSE /\ myfs_mount = "null" /\ mounts = 0
  /\ tree = EmptyTree /\ nlink = EmptyNlink /\ pslot = "null"
  /\ opens = {}

------------------------------------------------------------------------------
(* myfs_init                                                               *)

\* insmod: the module's static variables are fresh.
Insmod ==
  /\ mod = "absent"
  /\ mod' = "loading" /\ phase' = "register" /\ op' = 1 /\ retval' = 0
  /\ myfs_mount' = "null" /\ pslot' = "null"
  /\ UNCHANGED <<registered, mounts, tree, nlink, opens>>

\* register_filesystem; when it fails the mount is skipped and the creations
\* are tried without one.
Register ==
  /\ mod = "loading" /\ phase = "register"
  /\ \/ registered' = TRUE /\ phase' = "mount" /\ UNCHANGED retval
     \/ retval' = -1 /\ phase' = "create" /\ UNCHANGED registered
  /\ UNCHANGED <<mod, op, myfs_mount, mounts, tree, nlink, pslot, opens>>

MountSucceeds ==
  /\ mod = "loading" /\ phase = "mount"
  /\ myfs_mount' = "ok" /\ phase' = "create"
  /\ UNCHANGED <<mod, op, retval, registered, mounts, tree, nlink, pslot, opens>>

\* Mutant: the failure is reported, and the kernel frees the module.
MountFailsReported ==
  /\ mod = "loading" /\ phase = "mount"
  /\ myfs_mount' = "err" /\ registered' = FALSE
  /\ mod' = "absent"
  /\ UNCHANGED <<phase, op, retval, mounts, tree, nlink, pslot, opens>>
\* IS_ERR(myfs_mount): unregister, and return retval, which is still 0.
MountFails ==
  /\ mod = "loading" /\ phase = "mount"
  /\ myfs_mount' = "err" /\ registered' = FALSE
  /\ mod' = IF retval = 0 THEN "loaded" ELSE "absent"
  /\ UNCHANGED <<phase, op, retval, mounts, tree, nlink, pslot, opens>>

\* Mutant: files are always created in the root.
ParentRoot == IF myfs_mount = "ok" THEN "root" ELSE "null"
\* myfs_creat_by_name: a NULL parent means the root of the mount, if there is one.
Parent ==
  IF ~Ops[op].dir /\ pslot # "null" THEN pslot
  ELSE IF myfs_mount = "ok" THEN "root" ELSE "null"

Here == <<Parent, Ops[op].name>>

\* The next creation; a directory's dentry becomes the parent of the files
\* that follow it, and NULL after a failure.
Advance(dentry) ==
  /\ pslot' = IF Ops[op].dir THEN dentry ELSE pslot
  /\ op' = op + 1
  /\ phase' = IF op = Len(Ops) THEN "return" ELSE "create"

\* Mutant: an inode that is there already is replaced.
FreshAlways(p) == TRUE
\* myfs_mknod: if(dentry->d_inode) return -EPERM
Fresh(p) == tree[p] = "none"

\* No parent (-EFAULT), a failing lookup, a name that has an inode, or no
\* memory for one (-EPERM): myfs_creat_file returns NULL.
CreateFails ==
  /\ mod = "loading" /\ phase = "create"
  /\ Advance("null")
  /\ UNCHANGED <<mod, retval, registered, myfs_mount, mounts, tree, nlink, opens>>

\* Mutant: the parent's link count is left alone.
LinksStale == [nlink EXCEPT ![Ops[op].name] = 2]
\* myfs_get_inode and myfs_mkdir: two links for a new directory, one more for
\* the directory it is in.
Links == [nlink EXCEPT ![Ops[op].name] = 2, ![Parent] = @ + 1]

\* myfs_creat_by_name, under the lock of the parent.
CreateSucceeds ==
  /\ mod = "loading" /\ phase = "create"
  /\ Parent # "null" /\ Fresh(Here)
  /\ tree' = [tree EXCEPT ![Here] = IF Ops[op].dir THEN "dir" ELSE "bare"]
  /\ nlink' = IF Ops[op].dir THEN Links ELSE nlink
  /\ phase' = "fops"
  /\ UNCHANGED <<mod, op, retval, registered, myfs_mount, mounts, pslot, opens>>

\* Mutant: the operations are not assigned.
ServesNothing == tree
\* if(fops) dentry->d_inode->i_fop = fops: files have one, directories do not.
Serves == IF Ops[op].dir THEN tree ELSE [tree EXCEPT ![Here] = "served"]

\* The rest of myfs_creat_file, after the lock is released.
AssignFops ==
  /\ mod = "loading" /\ phase = "fops"
  /\ tree' = Serves
  /\ Advance(Ops[op].name)
  /\ UNCHANGED <<mod, retval, registered, myfs_mount, mounts, nlink, opens>>

\* return retval: the kernel frees a module whose init failed.
InitReturns ==
  /\ mod = "loading" /\ phase = "return"
  /\ mod' = IF retval = 0 THEN "loaded" ELSE "absent"
  /\ UNCHANGED <<phase, op, retval, registered, myfs_mount, mounts, tree, nlink,
                 pslot, opens>>

------------------------------------------------------------------------------
(* myfs_exit, and the users                                                *)

\* rmmod, refused while a super block pins the module: with kern_mount's own
\* mount that is always.  myfs_exit: simple_release_fs drops myfs_mount, and crashes on an ERR_PTR.
Rmmod ==
  /\ mod = "loaded" /\ ~Pinned
  /\ mod' = IF myfs_mount = "err" THEN "crashed" ELSE "absent"
  /\ registered' = (registered /\ myfs_mount = "err")
  /\ UNCHANGED <<phase, op, retval, myfs_mount, mounts, tree, nlink, pslot,
                 opens>>

\* mount(2): finds the type by its name.
UserMount ==
  /\ registered /\ mounts < MaxMounts
  /\ mounts' = mounts + 1
  /\ UNCHANGED <<mod, phase, op, retval, registered, myfs_mount, tree, nlink,
                 pslot, opens>>

\* umount(2), when no file is open; the last mount takes the super block away.
UserUmount ==
  /\ mounts > 0 /\ opens = {}
  /\ mounts' = mounts - 1
  /\ LET gone == mounts = 1 /\ myfs_mount # "ok"
     IN  /\ tree' = IF gone THEN EmptyTree ELSE tree
         /\ nlink' = IF gone THEN EmptyNlink ELSE nlink
  /\ UNCHANGED <<mod, phase, op, retval, registered, myfs_mount, pslot, opens>>

\* open(2) reaches myfs_file_open only through i_fop; without it: -ENXIO.
UserOpen(p) ==
  /\ mounts > 0 /\ tree[p] = "served" /\ p \notin opens
  /\ opens' = opens \cup {p}
  /\ UNCHANGED <<mod, phase, op, retval, registered, myfs_mount, mounts, tree,
                 nlink, pslot>>

UserClose(p) ==
  /\ p \in opens
  /\ opens' = opens \ {p}
  /\ UNCHANGED <<mod, phase, op, retval, registered, myfs_mount, mounts, tree,
                 nlink, pslot>>

InitStep ==
  \/ Register \/ MountSucceeds \/ MountFails
  \/ CreateFails \/ CreateSucceeds \/ AssignFops \/ InitReturns

Next ==
  \/ mod # "crashed" /\ (Insmod \/ InitStep \/ Rmmod)
  \/ mod # "crashed" /\ (UserMount \/ UserUmount)
  \/ mod # "crashed" /\ \E p \in Paths : UserOpen(p) \/ UserClose(p)

Spec == Init /\ [][Next]_vars

------------------------------------------------------------------------------
(* Properties                                                              *)

\* The variables of myfs_init and the tree it builds keep their types: link
\* counts stay small and pslot is null or one of the two directories.
TypeOK ==
  /\ mod \in {"absent", "loading", "loaded", "crashed"}
  /\ phase \in {"register", "mount", "create", "fops", "return"}
  /\ op \in 1..(Len(Ops) + 1)
  /\ retval \in {0, -1} /\ registered \in BOOLEAN
  /\ myfs_mount \in {"null", "ok", "err"} /\ mounts \in 0..MaxMounts
  /\ tree \in [Paths -> {"none", "dir", "bare", "served"}]
  /\ nlink \in [Dirs -> 0..4]
  /\ pslot \in {"null", "First", "Second"}
  /\ opens \subseteq Paths

\* The link count of every directory is two plus its subdirectories, whichever
\* of the creations failed: what find(1) and fsck rely on.
NlinkMatches ==
  \A d \in Dirs : d = "root" \/ tree[<<"root", d>>] = "dir" =>
    nlink[d] = 2 + Cardinality({n \in Names : tree[<<d, n>>] = "dir"})

\* Once myfs_init has returned 0, no file is left without its operations.
ServedOnceLoaded == mod = "loaded" => \A p \in Paths : tree[p] # "bare"

\* The creation of directory d has been tried.
Tried(d) == op > (IF d = "First" THEN 1 ELSE 4)

\* "one" or "two" turns up in the root only because a directory could not be
\* created and myfs_init went on with a NULL parent.
StrayOnlyAfterDirFailure ==
  \A n \in {"one", "two"} : tree[<<"root", n>>] # "none" =>
    \E d \in {"First", "Second"} : Tried(d) /\ tree[<<"root", d>>] = "none"

\* While the super block lives, an entry that can be opened stays so: a second
\* creation of the same name never replaces it.
EntriesStay ==
  [][SuperBlock' => \A p \in Paths :
       /\ tree[p] = "served" => tree'[p] = "served"
       /\ tree[p] = "dir" => tree'[p] = "dir"]_vars

\* The module is in memory as long as there is a super block, whose operations
\* are the module's: through failing inits, user mounts and rmmod.
ModuleOutlivesSuperBlock == SuperBlock => mod \in {"loading", "loaded"}
==============================================================================
