------------------------------- MODULE MyFsOpen -------------------------------
(***************************************************************************)
(* open(2), dup(2) and close(2) on a myfs file                             *)
(* (course_design/myfs_kernel.c and myfs_kernel_ubuntu.c).                 *)
(*                                                                         *)
(* An open takes three steps.  The kernel walks the path and checks the    *)
(* access mode asked for (external); then myfs_file_open allocates a       *)
(* myfs_file_info, and, after a call that may sleep, checks permission a   *)
(* second time.  Root may change the modes between any two of them.  The   *)
(* info belongs to the open description and is freed by myfs_file_release  *)
(* when the last descriptor for it is closed.                              *)
(***************************************************************************)
EXTENDS Integers, FiniteSets

CONSTANTS Users,      \* who calls open
          Root,       \* the users with uid 0
          Capable,    \* the users with CAP_DAC_OVERRIDE
          Handles,    \* open descriptions: struct file
          Infos,      \* heap objects kmalloc may return
          NoInfo,     \* private_data before it is set
          Garbage,    \* what a fresh heap object may hold as open_count
          IntMax,     \* largest int; it wraps to -IntMax - 1
          MaxRefs,    \* bound on the descriptors of one description
          Builds      \* the versions of the module: whether myfs_file_open checks
                      \* permission, and what others may do with the file at first

ASSUME OpenAssumption ==
  /\ Users # {} /\ Root \subseteq Capable /\ Capable \subseteq Users
  /\ IntMax \in Nat /\ Garbage \subseteq (-IntMax - 1)..IntMax
  /\ NoInfo \notin Infos
  /\ MaxRefs \in Nat \ {0}
  /\ Builds \subseteq [checks : BOOLEAN, mode : SUBSET {"r", "w"}]

VARIABLES build,      \* the version that is loaded
          dirMode,    \* what others may do with the directory First
          fileMode,   \* what others may do with the file
          file,       \* the open descriptions
          heap,       \* the infos that are allocated
          count,      \* per info: open_count
          denials     \* number of opens myfs_file_open has refused

vars == <<build, dirMode, fileMode, file, heap, count, denials>>

Access == {{"r"}, {"w"}, {"r", "w"}}   \* O_RDONLY, O_WRONLY, O_RDWR

\* A description: where its open stands, its caller and access mode, its
\* private_data, the descriptors that refer to it, and (history) whether the
\* modes changed while it was being opened.
Free == [st |-> "free", user |-> CHOOSE u \in Users : TRUE, acc |-> {"r"},
         info |-> NoInfo, refs |-> 0, moved |-> FALSE]

\* inode_permission for a caller who does not own the inode: root owns it.
Permitted(u, mode, want) == u \in Capable \/ want \subseteq mode

\* Mutant: the counter does not wrap.
IncrementUnbounded(n) == n + 1
\* info->open_count++ on an int; the kernel is built with wrapping overflow.
Increment(n) == IF n = IntMax THEN -IntMax - 1 ELSE n + 1

\* myfs_creat_dir gives S_IRWXU|S_IRUGO: others may list First, not enter it.
InitialDirMode == {"r"}

Init ==
  /\ build \in Builds
  /\ dirMode = InitialDirMode /\ fileMode = build.mode
  /\ file = [h \in Handles |-> Free]
  /\ heap = {}
  /\ count = [i \in Infos |-> 0]
  /\ denials = 0

\* chmod by root on the directory or the file.
Chmod(dir, mode) ==
  /\ dirMode' = dir /\ fileMode' = mode
  /\ file' = [h \in Handles |-> [file[h] EXCEPT !.moved =
                                   @ \/ file[h].st \in {"entered", "checking"}]]
  /\ UNCHANGED <<build, heap, count, denials>>

\* The kernel's own checks: search on First, then the access asked for; an
\* open that they refuse does not reach the module.
VfsAllows(u, a) == Permitted(u, dirMode, {"x"}) /\ Permitted(u, fileMode, a)

VfsOpen(h, u, a) ==
  /\ file[h].st = "free" /\ VfsAllows(u, a)
  /\ file' = [file EXCEPT ![h] = [Free EXCEPT !.st = "entered", !.user = u, !.acc = a]]
  /\ UNCHANGED <<build, dirMode, fileMode, heap, count, denials>>

\* kmalloc returns NULL: -ENOMEM.
NoMemory(h) ==
  /\ file[h].st = "entered"
  /\ file' = [file EXCEPT ![h] = Free]
  /\ UNCHANGED <<build, dirMode, fileMode, heap, count, denials>>

\* kmalloc does not clear what it returns; the count is incremented as it is.
AllocInfo(h) ==
  /\ file[h].st = "entered"
  /\ \E i \in Infos \ heap, g \in Garbage :
       /\ heap' = heap \cup {i}
       /\ count' = [count EXCEPT ![i] = Increment(g)]
       /\ file' = [file EXCEPT ![h].st = "checking", ![h].info = i]
  /\ UNCHANGED <<build, dirMode, fileMode, denials>>

\* Mutant: the check is taken out of a build that should have it.
DeniedNever(u) == FALSE
\* !inode_permission(..., MAY_READ|MAY_WRITE) && !current_uid().val == 0:
\* inode_permission is 0 when access is granted, and ! binds before ==.
Denied(u) == build.checks /\ Permitted(u, fileMode, {"r", "w"}) /\ u \notin Root

\* A denied open returns without freeing info; the kernel calls release only
\* for a file that was opened, so nothing frees it later.
CheckDenies(h) ==
  /\ file[h].st = "checking" /\ Denied(file[h].user)
  /\ file' = [file EXCEPT ![h] = Free]
  /\ denials' = denials + 1
  /\ UNCHANGED <<build, dirMode, fileMode, heap, count>>

CheckPasses(h) ==
  /\ file[h].st = "checking" /\ ~Denied(file[h].user)
  /\ file' = [file EXCEPT ![h].st = "open", ![h].refs = 1]
  /\ UNCHANGED <<build, dirMode, fileMode, heap, count, denials>>

\* myfs_file_open of either build; in the Ubuntu one nothing is denied.
FileOpen(h) == NoMemory(h) \/ AllocInfo(h) \/ CheckDenies(h) \/ CheckPasses(h)

\* dup(2), and fork(2) on a process that has the file open.
Dup(h) ==
  /\ file[h].st = "open" /\ file[h].refs < MaxRefs
  /\ file' = [file EXCEPT ![h].refs = @ + 1]
  /\ UNCHANGED <<build, dirMode, fileMode, heap, count, denials>>

\* close(2) of a descriptor that is not the last one.
Close(h) ==
  /\ file[h].st = "open" /\ file[h].refs > 1
  /\ file' = [file EXCEPT ![h].refs = @ - 1]
  /\ UNCHANGED <<build, dirMode, fileMode, heap, count, denials>>

\* kfree: what the object held is no longer the module's.
Kfree(i) == heap' = heap \ {i} /\ count' = [count EXCEPT ![i] = 0]

\* Mutant: release forgets the info.
ReleaseNoFree(h) ==
  /\ file[h].st = "open" /\ file[h].refs = 1
  /\ file' = [file EXCEPT ![h] = Free]
  /\ UNCHANGED <<build, dirMode, fileMode, heap, count, denials>>
\* Mutant: the info is freed at the first close, as if in .flush.
ReleaseEarly(h) ==
  /\ file[h].st = "open"
  /\ file' = [file EXCEPT ![h] = IF @.refs = 1 THEN Free ELSE [@ EXCEPT !.refs = 1]]
  /\ Kfree(file[h].info)
  /\ UNCHANGED <<build, dirMode, fileMode, denials>>
\* close(2) of the last one: myfs_file_release frees the info.
Release(h) ==
  /\ file[h].st = "open" /\ file[h].refs = 1
  /\ file' = [file EXCEPT ![h] = Free]
  /\ Kfree(file[h].info)
  /\ UNCHANGED <<build, dirMode, fileMode, denials>>

Next ==
  \/ \E dir \in {{"r"}, {"r", "x"}}, mode \in SUBSET {"r", "w"} : Chmod(dir, mode)
  \/ \E h \in Handles :
       \/ \E u \in Users, a \in Access : VfsOpen(h, u, a)
       \/ FileOpen(h)
       \/ Dup(h) \/ Close(h) \/ Release(h)

Spec == Init /\ [][Next]_vars

------------------------------------------------------------------------------
(* Properties                                                              *)

\* Modes, descriptions and infos of myfs_file_open keep their types, and the
\* count of an info stays inside a C int.
TypeOK ==
  /\ build \in Builds
  /\ dirMode \subseteq {"r", "x"} /\ fileMode \subseteq {"r", "w"}
  /\ file \in [Handles -> [st : {"free", "entered", "checking", "open"},
                            user : Users, acc : Access,
                            info : Infos \cup {NoInfo},
                            refs : 0..MaxRefs, moved : BOOLEAN]]
  /\ heap \subseteq Infos
  /\ count \in [Infos -> (-IntMax - 1)..IntMax]
  /\ denials \in Nat

Owners == {h \in Handles : file[h].st \in {"checking", "open"}}

\* The info that myfs_file_release will read and free is allocated as long as
\* any descriptor is open, and no two descriptions share one: however opens,
\* dups and closes interleave there is no use after free and no double free.
InfoOwnership ==
  \A h \in Owners :
    /\ file[h].info \in heap
    /\ \A g \in Owners \ {h} : file[g].info # file[h].info

\* Exactly one info is lost for each open that myfs_file_open refuses with
\* -EACCES, and no other path (-ENOMEM, dup, close) loses any.
LeakPerDenial == Cardinality(heap) = Cardinality(Owners) + denials

\* What the check, in the build that has it, enforces as it is written: a user other
\* than root holds the file open for both reading and writing only if the
\* modes were changed between the kernel's check and the module's.
RdWrOnlyByRace ==
  build.checks => \A h \in Handles :
    file[h].st = "open" /\ file[h].acc = {"r", "w"} /\ file[h].user \notin Root
      => file[h].moved
==============================================================================
