------------------------------- MODULE MapDriver -------------------------------
(***************************************************************************)
(* exp2/exp2.4/map_driver.c: a character device whose mmap shows a         *)
(* vmalloc'ed area of the kernel to user programs page by page, on demand. *)
(*                                                                         *)
(* Addresses are counted in pages.  A mapping is a vm_area_struct (VMA);   *)
(* its pages are numbered from vm_start, and where it lies, and in which   *)
(* process, makes no difference to the driver.  After mmap the kernel may  *)
(* split it (mlock, mprotect, munmap or mremap of a part), remove it, grow *)
(* it, change its protection or copy it (fork), none of which calls the    *)
(* driver's mmap again.  Parts are not joined again: map_vm_ops has a      *)
(* close handler, and the kernel merges no such VMAs.                      *)
(***************************************************************************)
EXTENDS Integers

CONSTANTS Files,     \* open files (struct file) of the device
          Vmas,      \* bound on the VMAs: the structures there are
          Pages,     \* MAP_PAGE_COUNT: 10 in the code
          MaxUser    \* bound on the pages a mapping grows to

ASSUME MapAssumption ==
  Pages \in Nat \ {0} /\ MaxUser \in Nat /\ MaxUser >= Pages

VARIABLES mod,        \* absent, loading, loaded or crashed (in mapdrv_init)
          registered, \* the device can be opened
          area,       \* vmalloc_area is not NULL
          labelled,   \* number of pages reserved and given their text
          files,      \* the files that are open
          vma,        \* the VMAs
          pte         \* per VMA and page of it: the page of the area, or None

vars == <<mod, registered, area, labelled, files, vma, pte>>

None == -1      \* not present
Copy == -2      \* a private copy made by a write

UserPages == 0..(MaxUser - 1)

\* first: vm_pgoff, the page of the file the VMA begins with; size: its pages;
\* shared and write: VM_SHARED and VM_WRITE.  A VMA of no page is not in use.
NoVma == [first |-> 0, size |-> 0, shared |-> FALSE, write |-> FALSE]
Mapped(v) == vma[v].size > 0
NoPages == [i \in UserPages |-> None]

Init ==
  /\ mod = "absent" /\ registered = FALSE /\ area = FALSE /\ labelled = 0
  /\ files = {}
  /\ vma = [v \in Vmas |-> NoVma]
  /\ pte = [v \in Vmas |-> NoPages]

\* Mutant: the file operations have no owner.
PinnedNever == FALSE
\* .owner = THIS_MODULE: an open file, and a mapping, which holds its file,
\* keep the module.
Pinned == files # {} \/ \E v \in Vmas : Mapped(v)

------------------------------------------------------------------------------
(* mapdrv_init and mapdrv_exit                                             *)

\* register_chrdev: from here on users can open the device.
Register ==
  /\ mod = "absent"
  /\ mod' = "loading" /\ registered' = TRUE /\ labelled' = 0
  /\ UNCHANGED <<area, files, vma, pte>>

\* vmalloc; its result is not looked at, and the loop below dereferences it.
Vmalloc ==
  /\ mod = "loading" /\ ~area
  /\ \/ area' = TRUE /\ UNCHANGED mod
     \/ mod' = "crashed" /\ UNCHANGED area
  /\ UNCHANGED <<registered, labelled, files, vma, pte>>

\* SetPageReserved and sprintf, one page at a time; then return 0.
Label ==
  /\ mod = "loading" /\ area
  /\ IF labelled < Pages THEN labelled' = labelled + 1 /\ UNCHANGED mod
                         ELSE mod' = "loaded" /\ UNCHANGED labelled
  /\ UNCHANGED <<registered, area, files, vma, pte>>

\* rmmod: ClearPageReserved, vfree, unregister_chrdev.
Exit ==
  /\ mod = "loaded" /\ ~Pinned
  /\ mod' = "absent" /\ area' = FALSE /\ registered' = FALSE /\ labelled' = 0
  /\ UNCHANGED <<files, vma, pte>>

------------------------------------------------------------------------------
(* open, mmap and the page fault handler                                   *)

Open(f) ==
  /\ registered /\ f \notin files
  /\ files' = files \cup {f}
  /\ UNCHANGED <<mod, registered, area, labelled, vma, pte>>

Close(f) ==
  /\ f \in files
  /\ files' = files \ {f}
  /\ UNCHANGED <<mod, registered, area, labelled, vma, pte>>

\* mapdrv_mmap: not larger than the area, shared if writable, at offset 0.
Accepts(size, offset, shared, write) ==
  size <= Pages /\ ~(write /\ ~shared) /\ offset = 0

Mmap(v, size, offset, shared, write) ==
  /\ files # {} /\ ~Mapped(v) /\ Accepts(size, offset, shared, write)
  /\ vma' = [vma EXCEPT ![v] = [first |-> offset, size |-> size,
                                shared |-> shared, write |-> write]]
  /\ UNCHANGED <<mod, registered, area, labelled, files, pte>>

\* Mutant: the page after the faulting one.
PageOffNext(v, i) == i + 1
\* offset = vmf->address - vmf->vma->vm_start, whatever vm_pgoff is
PageOff(v, i) == i

\* A NULL area, or an offset past it, is VM_FAULT_SIGBUS.
FaultServed(v, i) == area /\ PageOff(v, i) < Pages

\* Otherwise the process gets SIGBUS and nothing changes.
Fault(v, i) ==
  /\ i < vma[v].size /\ pte[v][i] = None
  /\ FaultServed(v, i)
  /\ pte' = [pte EXCEPT ![v][i] = PageOff(v, i)]
  /\ UNCHANGED <<mod, registered, area, labelled, files, vma>>

------------------------------------------------------------------------------
(* What the kernel does to a mapping without asking the driver (external)  *)

\* A write through a private mapping gets a copy of the page.
WriteCopies(v, i) ==
  /\ i < vma[v].size /\ pte[v][i] >= 0
  /\ vma[v].write /\ ~vma[v].shared
  /\ pte' = [pte EXCEPT ![v][i] = Copy]
  /\ UNCHANGED <<mod, registered, area, labelled, files, vma>>

\* madvise(MADV_DONTNEED) drops the page; the next access faults again.
Discard(v, i) ==
  /\ pte[v][i] # None
  /\ pte' = [pte EXCEPT ![v][i] = None]
  /\ UNCHANGED <<mod, registered, area, labelled, files, vma>>

\* A call on a part splits the VMA: its first k pages stay, the others get a
\* VMA of their own, with a vm_start and a vm_pgoff of its own and the entries
\* they had.
Split(v, k, w) ==
  /\ k < vma[v].size /\ ~Mapped(w)
  /\ vma' = [vma EXCEPT ![v].size = k,
                        ![w] = [vma[v] EXCEPT !.first = @ + k, !.size = @ - k]]
  /\ pte' = [pte EXCEPT
       ![v] = [i \in UserPages |-> IF i < k THEN pte[v][i] ELSE None],
       ![w] = [i \in UserPages |-> IF i + k \in UserPages THEN pte[v][i + k] ELSE None]]
  /\ UNCHANGED <<mod, registered, area, labelled, files>>

\* munmap of the (part that is now a) VMA, or process exit.
Munmap(v) ==
  /\ Mapped(v)
  /\ vma' = [vma EXCEPT ![v] = NoVma]
  /\ pte' = [pte EXCEPT ![v] = NoPages]
  /\ UNCHANGED <<mod, registered, area, labelled, files>>

\* mremap to a larger size.
Mremap(v) ==
  /\ Mapped(v) /\ vma[v].first + vma[v].size < MaxUser
  /\ vma' = [vma EXCEPT ![v].size = @ + 1]
  /\ UNCHANGED <<mod, registered, area, labelled, files, pte>>

\* The device was opened O_RDWR, so any mapping of it may be made writable.
Mprotect(v, write) ==
  /\ Mapped(v) /\ vma[v].write # write
  /\ vma' = [vma EXCEPT ![v].write = write]
  /\ UNCHANGED <<mod, registered, area, labelled, files, pte>>

\* fork copies the VMA (map_vopen): a shared one without its entries, which are
\* faulted in again; a private one with them once a page of it has been copied
\* (anon_vma).  mremap of old size 0 copies a shared one in the same way.
Fork(v, w) ==
  /\ Mapped(v) /\ ~Mapped(w)
  /\ vma' = [vma EXCEPT ![w] = vma[v]]
  /\ \/ ~vma[v].shared /\ pte' = [pte EXCEPT ![w] = pte[v]]
     \/ /\ \A i \in UserPages : pte[v][i] # Copy
        /\ pte' = [pte EXCEPT ![w] = NoPages]
  /\ UNCHANGED <<mod, registered, area, labelled, files>>

Use(v) ==
  \/ \E size \in 1..MaxUser, offset \in {0, 1}, shared, write \in BOOLEAN :
       Mmap(v, size, offset, shared, write)
  \/ \E i \in UserPages : Fault(v, i) \/ WriteCopies(v, i) \/ Discard(v, i)
  \/ \E k \in 1..MaxUser, w \in Vmas \ {v} : Split(v, k, w)
  \/ Munmap(v) \/ Mremap(v)
  \/ \E write \in BOOLEAN : Mprotect(v, write)
  \/ \E w \in Vmas \ {v} : Fork(v, w)

Next ==
  \/ Register \/ Vmalloc \/ Label \/ Exit
  \/ \E f \in Files : Open(f) \/ Close(f)
  \/ \E v \in Vmas : Use(v)

Spec == Init /\ [][Next]_vars

------------------------------------------------------------------------------
(* Properties                                                              *)

\* Every page of a VMA has no entry, a private copy or a page of the area, and
\* a VMA is no larger than the bound: map_fault never makes an entry for a page
\* the vmalloc area does not have.
TypeOK ==
  /\ mod \in {"absent", "loading", "loaded", "crashed"}
  /\ registered \in BOOLEAN /\ area \in BOOLEAN /\ labelled \in 0..Pages
  /\ files \subseteq Files
  /\ vma \in [Vmas -> [first : 0..MaxUser, size : 0..MaxUser, shared : BOOLEAN,
                        write : BOOLEAN]]
  /\ pte \in [Vmas -> [UserPages -> {Copy, None} \cup 0..(Pages - 1)]]

\* A page table entry made by map_fault points into an area that is allocated,
\* from the registration of the device to the end of mapdrv_exit: no fault is
\* served before vmalloc, and the area is not freed under a mapping or a copy
\* or a part of one.
PagesBacked ==
  \A v \in Vmas, i \in UserPages : pte[v][i] >= 0 => area /\ pte[v][i] < Pages

\* map_fault counts from vm_start and does not look at vm_pgoff.  So a mapping
\* that begins where mmap put it (first = 0) shows exactly the pages of the
\* area in order, through splits, fork, growing and mprotect; and the part that
\* a split made begin at page `first' shows pages that are at most `first'
\* places too early, never a later one.
WrongPageOnlyAfterSplit ==
  \A v \in Vmas, i \in UserPages :
    pte[v][i] >= 0 => /\ pte[v][i] <= vma[v].first + i
                      /\ pte[v][i] >= i
==============================================================================
