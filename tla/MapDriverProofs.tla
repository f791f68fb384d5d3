---------------------------- MODULE MapDriverProofs ----------------------------
(***************************************************************************)
(* Proofs about MapDriver, for any number of files, VMAs and pages.        *)
(***************************************************************************)
EXTENDS MapDriver, TLAPS

Vma == [first : 0..MaxUser, size : 0..MaxUser, shared : BOOLEAN, write : BOOLEAN]
Entry == {Copy, None} \cup 0..(Pages - 1)

\* A page table has entries only inside the VMA, so a module that is not pinned
\* has no page in use and a new VMA starts without pages.
InsideVma ==
  \A v \in Vmas, i \in UserPages : pte[v][i] # None => i < vma[v].size

\* A part of a mapping ends where the mapping may end.
Bounds == \A v \in Vmas : vma[v].first + vma[v].size <= MaxUser

MapInv == TypeOK /\ InsideVma /\ Bounds /\ PagesBacked /\ WrongPageOnlyAfterSplit

\* What TypeOK says of a VMA, in the terms of the proof.
LEMMA MapTypes ==
  ASSUME TypeOK
  PROVE  /\ vma \in [Vmas -> Vma] /\ pte \in [Vmas -> [UserPages -> Entry]]
         /\ \A v \in Vmas : vma[v].first \in 0..MaxUser /\ vma[v].size \in 0..MaxUser
  BY DEF TypeOK, Vma, Entry

\* A step that leaves the module alone keeps the invariant if every VMA it
\* leaves has bounds, and each entry was there before at the same page of the
\* file, or is a copy, or is the one map_fault counts from vm_start.
LEMMA VmaStep ==
  ASSUME MapInv, UNCHANGED <<mod, registered, area, labelled, files>>,
         vma' \in [Vmas -> Vma], pte' \in [Vmas -> [UserPages -> Entry]],
         \A v \in Vmas : vma'[v].first + vma'[v].size <= MaxUser,
         \A v \in Vmas, i \in UserPages :
            \/ pte'[v][i] = None
            \/ /\ i < vma'[v].size
               /\ \/ pte'[v][i] = Copy
                  \/ pte'[v][i] = i /\ area /\ i < Pages
                  \/ \E x \in Vmas, j \in UserPages :
                       /\ pte'[v][i] = pte[x][j] /\ i <= j
                       /\ vma'[v].first + i = vma[x].first + j
  PROVE  MapInv'
<1> USE MapAssumption, MapTypes DEF MapInv
<1>1. TypeOK'
  BY DEF TypeOK, Vma, Entry
<1>2. InsideVma' /\ Bounds'
  BY DEF InsideVma, Bounds
<1> SUFFICES ASSUME NEW v \in Vmas, NEW i \in UserPages, pte'[v][i] >= 0
             PROVE  /\ area /\ pte'[v][i] < Pages
                    /\ pte'[v][i] <= vma'[v].first + i /\ pte'[v][i] >= i
  BY <1>1, <1>2 DEF PagesBacked, WrongPageOnlyAfterSplit
<1>3. /\ i \in Nat /\ vma'[v].first \in Nat
      /\ pte'[v][i] \in Int /\ pte'[v][i] # None /\ pte'[v][i] # Copy
  BY DEF UserPages, Vma, Entry, None, Copy
<1>4. CASE pte'[v][i] = i /\ area /\ i < Pages
  BY <1>3, <1>4
<1>5. CASE \E x \in Vmas, j \in UserPages :
             /\ pte'[v][i] = pte[x][j] /\ i <= j
             /\ vma'[v].first + i = vma[x].first + j
  <2>1. PICK x \in Vmas, j \in UserPages :
             /\ pte'[v][i] = pte[x][j] /\ i <= j
             /\ vma'[v].first + i = vma[x].first + j
    BY <1>5
  <2>2. /\ pte[x][j] >= 0 /\ area /\ pte[x][j] < Pages
        /\ pte[x][j] <= vma[x].first + j /\ pte[x][j] >= j
    BY <2>1 DEF PagesBacked, WrongPageOnlyAfterSplit
  <2>3. j \in Int /\ pte[x][j] \in Int
    BY <1>3, <2>1 DEF UserPages
  <2> QED
    BY <1>3, <2>1, <2>2, <2>3
<1> QED
  BY <1>3, <1>4, <1>5

------------------------------------------------------------------------------
\* Nothing is mapped before the module is loaded.
LEMMA MapInit == Init => MapInv
<1> SUFFICES ASSUME Init PROVE MapInv
  OBVIOUS
<1> USE MapAssumption DEF Init
<1>1. NoVma \in Vma /\ NoPages \in [UserPages -> Entry]
  BY DEF NoVma, Vma, NoPages, Entry
<1>2. \A v \in Vmas : vma[v].first = 0 /\ vma[v].size = 0
  BY DEF NoVma
<1>3. \A v \in Vmas, i \in UserPages : pte[v][i] = None
  BY DEF NoPages
<1>4. TypeOK
  <2>1. vma \in [Vmas -> Vma] /\ pte \in [Vmas -> [UserPages -> Entry]]
    BY <1>1
  <2>2. files \subseteq Files /\ labelled \in 0..Pages
    OBVIOUS
  <2> QED
    BY <2>1, <2>2 DEF TypeOK, Vma, Entry
<1> QED
  BY <1>2, <1>3, <1>4 DEF MapInv, InsideVma, Bounds, PagesBacked,
     WrongPageOnlyAfterSplit, None

\* The module's own steps; the area is freed only when nothing is mapped.
LEMMA ModuleInv ==
  ASSUME MapInv, Register \/ Vmalloc \/ Label \/ Exit
  PROVE  MapInv'
<1> USE MapAssumption DEF MapInv
<1>1. UNCHANGED <<files, vma, pte>>
  BY DEF Register, Vmalloc, Label, Exit
<1>2. TypeOK'
  <2>1. labelled' \in 0..Pages
    BY DEF Register, Vmalloc, Label, Exit, TypeOK
  <2>2. /\ mod' \in {"absent", "loading", "loaded", "crashed"}
        /\ registered' \in BOOLEAN /\ area' \in BOOLEAN
    BY DEF Register, Vmalloc, Label, Exit, TypeOK
  <2> QED
    BY <1>1, <2>1, <2>2 DEF TypeOK
<1>3. InsideVma' /\ Bounds' /\ WrongPageOnlyAfterSplit'
  BY <1>1 DEF InsideVma, Bounds, WrongPageOnlyAfterSplit
<1>4. PagesBacked'
  <2>1. CASE Exit
    <3>1. \A v \in Vmas : vma[v].size = 0
      BY <2>1, MapTypes DEF Exit, Pinned, Mapped
    <3>2. \A v \in Vmas, i \in UserPages : pte[v][i] = None
      BY <3>1 DEF InsideVma, UserPages
    <3> QED
      BY <1>1, <3>2 DEF PagesBacked, None
  <2>2. CASE Register \/ Vmalloc \/ Label
    <3>1. area => area'
      BY <2>2 DEF Register, Vmalloc, Label
    <3> QED
      BY <1>1, <3>1 DEF PagesBacked
  <2> QED
    BY <2>1, <2>2
<1> QED
  BY <1>2, <1>3, <1>4

\* open and close of the device.
LEMMA OpenInv ==
  ASSUME MapInv, NEW f \in Files, Open(f) \/ Close(f)
  PROVE  MapInv'
<1>1. /\ UNCHANGED <<mod, registered, area, labelled, vma, pte>>
      /\ files' \subseteq Files
  BY DEF MapInv, TypeOK, Open, Close
<1> QED
  BY <1>1 DEF MapInv, TypeOK, InsideVma, Bounds, PagesBacked, WrongPageOnlyAfterSplit

\* A VMA that is not in use has no page either, so mmap starts afresh.
LEMMA MmapInv ==
  ASSUME MapInv, NEW v \in Vmas, NEW size \in 1..MaxUser, NEW offset \in {0, 1},
         NEW shared \in BOOLEAN, NEW write \in BOOLEAN,
         Mmap(v, size, offset, shared, write)
  PROVE  MapInv'
<1> USE MapAssumption, MapTypes DEF MapInv
<1> DEFINE new == [first |-> offset, size |-> size, shared |-> shared, write |-> write]
<1>1. /\ UNCHANGED <<mod, registered, area, labelled, files, pte>>
      /\ vma' = [vma EXCEPT ![v] = new] /\ offset = 0 /\ vma[v].size = 0
  BY DEF Mmap, Mapped, Accepts
<1>2. new \in Vma /\ new.first = 0 /\ new.size = size
  BY <1>1 DEF Vma
<1> HIDE DEF new
<1>3. /\ vma' \in [Vmas -> Vma] /\ vma'[v] = new
      /\ \A x \in Vmas \ {v} : vma'[x] = vma[x]
  BY <1>1, <1>2
<1>4. \A i \in UserPages : pte[v][i] = None
  BY <1>1 DEF InsideVma, UserPages
<1>5. \A x \in Vmas : vma'[x].first + vma'[x].size <= MaxUser
  BY <1>2, <1>3 DEF Bounds
<1>6. \A x \in Vmas, i \in UserPages :
        \/ pte'[x][i] = None
        \/ i < vma'[x].size /\ vma'[x].first = vma[x].first
  BY <1>1, <1>3, <1>4 DEF InsideVma
<1>7. \A x \in Vmas, i \in UserPages :
        pte'[x][i] = pte[x][i] /\ i <= i /\ (vma'[x].first = vma[x].first =>
          vma'[x].first + i = vma[x].first + i)
  BY <1>1 DEF UserPages
<1> QED
  BY <1>1, <1>3, <1>5, <1>6, <1>7, VmaStep

\* map_fault, and the kernel's copy or discarding of a page.
LEMMA FaultInv ==
  ASSUME MapInv, NEW v \in Vmas, NEW i \in UserPages,
         Fault(v, i) \/ WriteCopies(v, i) \/ Discard(v, i)
  PROVE  MapInv'
<1> USE MapAssumption, MapTypes DEF MapInv
<1>1. UNCHANGED <<mod, registered, area, labelled, files, vma>> /\ i \in Nat
  BY DEF Fault, WriteCopies, Discard, UserPages
<1>2. PICK e \in Entry :
        /\ pte' = [pte EXCEPT ![v][i] = e]
        /\ \/ e = None
           \/ i < vma[v].size /\ e = Copy
           \/ i < vma[v].size /\ e = i /\ area /\ i < Pages
  <2>1. CASE Fault(v, i)
    <3>1. pte' = [pte EXCEPT ![v][i] = i] /\ area /\ i < Pages /\ i < vma[v].size
      BY <2>1 DEF Fault, FaultServed, PageOff
    <3>2. i \in Entry
      BY <1>1, <3>1 DEF Entry
    <3> QED
      BY <3>1, <3>2
  <2>2. CASE WriteCopies(v, i)
    BY <2>2 DEF WriteCopies, Entry
  <2>3. CASE Discard(v, i)
    BY <2>3 DEF Discard, Entry
  <2> QED
    BY <2>1, <2>2, <2>3
<1>3. pte' \in [Vmas -> [UserPages -> Entry]]
  BY <1>2
<1>4. \A x \in Vmas, w \in UserPages :
        pte'[x][w] = IF x = v /\ w = i THEN e ELSE pte[x][w]
  BY <1>2
<1>5. \A x \in Vmas, w \in UserPages :
        (pte[x][w] = None \/ w < vma[x].size) /\ w <= w
  BY DEF InsideVma, UserPages
<1>6. \A x \in Vmas : vma'[x].first + vma'[x].size <= MaxUser
  BY <1>1 DEF Bounds
<1> QED
  BY <1>1, <1>2, <1>3, <1>4, <1>5, <1>6, VmaStep

\* A split: a page of the tail keeps its place in the file, first + i, and moves
\* down in its VMA.
LEMMA SplitInv ==
  ASSUME MapInv, NEW v \in Vmas, NEW k \in 1..MaxUser, NEW w \in Vmas \ {v},
         Split(v, k, w)
  PROVE  MapInv'
<1> USE MapAssumption, MapTypes DEF MapInv
<1> DEFINE head == [vma[v] EXCEPT !.size = k]
           tail == [vma[v] EXCEPT !.first = @ + k, !.size = @ - k]
<1>1. /\ UNCHANGED <<mod, registered, area, labelled, files>>
      /\ k < vma[v].size /\ vma[v] \in Vma /\ vma[v].first + vma[v].size <= MaxUser
      /\ vma[v].first \in Nat /\ vma[v].size \in Nat /\ k \in Nat
  BY DEF Split, Bounds
<1>2. head \in Vma /\ head.first = vma[v].first /\ head.size = k
  BY <1>1 DEF Vma
<1>3. tail \in Vma /\ tail.first = vma[v].first + k /\ tail.size = vma[v].size - k
  <2>1. vma[v].first + k \in 0..MaxUser /\ vma[v].size - k \in 0..MaxUser
    BY <1>1
  <2> QED
    BY <1>1, <2>1 DEF Vma
<1>4. vma' = [vma EXCEPT ![v] = head, ![w] = tail]
  BY Zenon DEF Split
<1> HIDE DEF head, tail
<1>5. /\ vma' \in [Vmas -> Vma] /\ vma'[v] = head /\ vma'[w] = tail
      /\ \A x \in Vmas \ {v, w} : vma'[x] = vma[x]
  BY <1>2, <1>3, <1>4
<1>6. \A i \in UserPages :
        /\ pte'[v][i] = IF i < k THEN pte[v][i] ELSE None
        /\ pte'[w][i] = IF i + k \in UserPages THEN pte[v][i + k] ELSE None
  BY DEF Split
<1>7. \A x \in Vmas \ {v, w} : pte'[x] = pte[x]
  BY DEF Split
<1>8. pte' \in [Vmas -> [UserPages -> Entry]]
  <2>1. /\ [i \in UserPages |-> IF i < k THEN pte[v][i] ELSE None] \in [UserPages -> Entry]
        /\ [i \in UserPages |-> IF i + k \in UserPages THEN pte[v][i + k] ELSE None]
             \in [UserPages -> Entry]
    BY DEF Entry
  <2> QED
    BY <2>1 DEF Split
<1>9. \A x \in Vmas : vma'[x].first + vma'[x].size <= MaxUser
  BY <1>1, <1>2, <1>3, <1>5 DEF Bounds
<1>10. ASSUME NEW x \in Vmas, NEW i \in UserPages
       PROVE  \/ pte'[x][i] = None
              \/ /\ i < vma'[x].size
                 /\ \E y \in Vmas, j \in UserPages :
                      /\ pte'[x][i] = pte[y][j] /\ i <= j
                      /\ vma'[x].first + i = vma[y].first + j
  <2>0. i \in Nat
    BY DEF UserPages
  <2>1. CASE x = v
    BY <1>2, <1>5, <1>6, <2>0, <2>1
  <2>2. CASE x = w
    <3> SUFFICES ASSUME i + k \in UserPages, pte[v][i + k] # None
                 PROVE  /\ i < vma'[x].size /\ pte'[x][i] = pte[v][i + k]
                        /\ i <= i + k /\ vma'[x].first + i = vma[v].first + (i + k)
      BY <1>6, <2>2
    <3>1. i + k < vma[v].size
      BY DEF InsideVma
    <3>2. i < vma[v].size - k /\ i <= i + k
          /\ (vma[v].first + k) + i = vma[v].first + (i + k)
      BY <1>1, <2>0, <3>1
    <3> QED
      BY <1>3, <1>5, <1>6, <2>2, <3>2
  <2>3. CASE x \notin {v, w}
    BY <1>5, <1>7, <2>0, <2>3 DEF InsideVma
  <2> QED
    BY <2>1, <2>2, <2>3
<1> QED
  BY <1>1, <1>5, <1>8, <1>9, <1>10, VmaStep

\* munmap: the VMA goes, and its entries with it.
LEMMA MunmapInv ==
  ASSUME MapInv, NEW v \in Vmas, Munmap(v)
  PROVE  MapInv'
<1> USE MapAssumption, MapTypes DEF MapInv
<1>1. /\ UNCHANGED <<mod, registered, area, labelled, files>>
      /\ vma' = [vma EXCEPT ![v] = NoVma] /\ pte' = [pte EXCEPT ![v] = NoPages]
  BY DEF Munmap
<1>2. NoVma \in Vma /\ NoVma.first + NoVma.size <= MaxUser
      /\ NoPages \in [UserPages -> Entry]
  BY DEF NoVma, Vma, NoPages, Entry
<1>3. /\ vma' \in [Vmas -> Vma] /\ pte' \in [Vmas -> [UserPages -> Entry]]
      /\ vma'[v] = NoVma /\ pte'[v] = NoPages
      /\ \A x \in Vmas \ {v} : vma'[x] = vma[x] /\ pte'[x] = pte[x]
  BY <1>1, <1>2
<1>4. \A x \in Vmas : vma'[x].first + vma'[x].size <= MaxUser
  BY <1>2, <1>3 DEF Bounds
<1>5. \A x \in Vmas, i \in UserPages :
        \/ pte'[x][i] = None
        \/ i < vma'[x].size /\ pte'[x][i] = pte[x][i] /\ i <= i /\ vma'[x] = vma[x]
  <2>1. \A i \in UserPages : pte'[v][i] = None /\ i <= i
    BY <1>3 DEF NoPages, UserPages
  <2> QED
    BY <1>3, <2>1 DEF InsideVma
<1> QED
  BY <1>1, <1>3, <1>4, <1>5, VmaStep

\* mremap and mprotect: more pages, which have no entry, or another protection.
LEMMA MremapInv ==
  ASSUME MapInv, NEW v \in Vmas,
         Mremap(v) \/ \E write \in BOOLEAN : Mprotect(v, write)
  PROVE  MapInv'
<1> USE MapAssumption, MapTypes DEF MapInv
<1>1. /\ UNCHANGED <<mod, registered, area, labelled, files, pte>>
      /\ vma[v] \in Vma
      /\ vma[v].first \in Nat /\ vma[v].size \in Nat
  BY DEF Mremap, Mprotect
<1>2. PICK new \in Vma :
        /\ vma' = [vma EXCEPT ![v] = new] /\ new.first = vma[v].first
        /\ new.size >= vma[v].size /\ new.first + new.size <= MaxUser
        /\ new.size \in Nat
  <2>1. CASE Mremap(v)
    <3> DEFINE new == [vma[v] EXCEPT !.size = @ + 1]
    <3>1. vma' = [vma EXCEPT ![v] = new]
      BY <2>1, Zenon DEF Mremap
    <3>2. vma[v].first + vma[v].size < MaxUser
      BY <2>1 DEF Mremap
    <3>3. vma[v].size + 1 \in 0..MaxUser
      BY <1>1, <3>2
    <3>4. new \in Vma /\ new.first = vma[v].first /\ new.size = vma[v].size + 1
      BY <1>1, <3>3 DEF Vma
    <3> HIDE DEF new
    <3>5. new.size >= vma[v].size /\ new.first + new.size <= MaxUser /\ new.size \in Nat
      BY <1>1, <3>2, <3>4
    <3> QED
      BY ONLY <3>1, <3>4, <3>5
  <2>2. ASSUME NEW write \in BOOLEAN, Mprotect(v, write)
        PROVE  \E new \in Vma :
                 /\ vma' = [vma EXCEPT ![v] = new] /\ new.first = vma[v].first
                 /\ new.size >= vma[v].size /\ new.first + new.size <= MaxUser
                 /\ new.size \in Nat
    <3> DEFINE new == [vma[v] EXCEPT !.write = write]
    <3>1. vma' = [vma EXCEPT ![v] = new]
      BY <2>2, Zenon DEF Mprotect
    <3>2. new \in Vma /\ new.first = vma[v].first /\ new.size = vma[v].size
      BY <1>1 DEF Vma
    <3> HIDE DEF new
    <3>5. new.size >= vma[v].size /\ new.first + new.size <= MaxUser /\ new.size \in Nat
      BY <1>1, <3>2 DEF Bounds
    <3> QED
      BY ONLY <3>1, <3>2, <3>5
  <2> QED
    BY <2>1, <2>2
<1>3. /\ vma' \in [Vmas -> Vma] /\ vma'[v] = new
      /\ \A x \in Vmas \ {v} : vma'[x] = vma[x]
  BY <1>2
<1>4. \A x \in Vmas : vma'[x].first + vma'[x].size <= MaxUser
  BY <1>2, <1>3 DEF Bounds
<1>5. \A x \in Vmas, i \in UserPages :
        \/ pte'[x][i] = None
        \/ /\ i < vma'[x].size /\ pte'[x][i] = pte[x][i] /\ i <= i
           /\ vma'[x].first + i = vma[x].first + i
  BY <1>1, <1>2, <1>3 DEF InsideVma, UserPages
<1> QED
  BY <1>1, <1>3, <1>4, <1>5, VmaStep

\* fork: the copy begins at the same page of the file and has its parent's
\* entries or none.
LEMMA ForkInv ==
  ASSUME MapInv, NEW v \in Vmas, NEW w \in Vmas \ {v}, Fork(v, w)
  PROVE  MapInv'
<1> USE MapAssumption, MapTypes DEF MapInv
<1>1. /\ UNCHANGED <<mod, registered, area, labelled, files>>
      /\ vma' = [vma EXCEPT ![w] = vma[v]]
      /\ \/ pte' = [pte EXCEPT ![w] = pte[v]]
         \/ pte' = [pte EXCEPT ![w] = NoPages]
  BY DEF Fork
<1>2. NoPages \in [UserPages -> Entry] /\ \A i \in UserPages : NoPages[i] = None
  BY DEF NoPages, Entry
<1>3. /\ vma' \in [Vmas -> Vma] /\ pte' \in [Vmas -> [UserPages -> Entry]]
      /\ vma'[w] = vma[v] /\ pte'[w] \in {pte[v], NoPages}
      /\ \A x \in Vmas \ {w} : vma'[x] = vma[x] /\ pte'[x] = pte[x]
  BY <1>1, <1>2
<1>4. \A x \in Vmas : vma'[x].first + vma'[x].size <= MaxUser
  BY <1>3 DEF Bounds
<1>5. \A x \in Vmas, i \in UserPages :
        \/ pte'[x][i] = None
        \/ \E y \in Vmas : i < vma'[x].size /\ pte'[x][i] = pte[y][i] /\ i <= i
                           /\ vma'[x] = vma[y]
  <2> SUFFICES ASSUME NEW x \in Vmas, NEW i \in UserPages, pte'[x][i] # None
               PROVE  \E y \in Vmas : /\ i < vma'[x].size /\ pte'[x][i] = pte[y][i]
                                     /\ i <= i /\ vma'[x] = vma[y]
    OBVIOUS
  <2>1. PICK y \in Vmas : vma'[x] = vma[y] /\ pte'[x] = pte[y]
    <3>1. CASE x = w
      BY <1>2, <1>3, <3>1
    <3>2. CASE x # w
      BY <1>3, <3>2
    <3> QED
      BY <3>1, <3>2
  <2>2. i < vma[y].size /\ i <= i
    BY <2>1 DEF InsideVma, UserPages
  <2> QED
    BY <2>1, <2>2
<1> QED
  BY <1>1, <1>3, <1>4, <1>5, VmaStep

\* Every step of the module, the users and the kernel keeps the invariant.
LEMMA MapNext == MapInv /\ [Next]_vars => MapInv'
<1> SUFFICES ASSUME MapInv, [Next]_vars PROVE MapInv'
  OBVIOUS
<1>1. CASE UNCHANGED vars
  BY <1>1 DEF vars, MapInv, TypeOK, InsideVma, Bounds, PagesBacked,
     WrongPageOnlyAfterSplit
<1>2. ASSUME NEW v \in Vmas, Use(v)
      PROVE  MapInv'
  BY <1>2, MmapInv, FaultInv, SplitInv, MunmapInv, MremapInv, ForkInv DEF Use
<1> QED
  BY <1>1, <1>2, ModuleInv, OpenInv DEF Next

\* Through every history of loads, mappings, splits and faults.
THEOREM MapSafety == Spec => []MapInv
  BY MapInit, MapNext, PTL DEF Spec

\* Every page that map_fault gave out belongs to an area that is allocated.
THEOREM MapPagesBacked == Spec => []PagesBacked
<1>1. MapInv => PagesBacked
  BY DEF MapInv
<1> QED
  BY <1>1, MapSafety, PTL

\* A mapping that begins where mmap put it shows the pages of the area in order;
\* the tail that a split made shows pages at most as far off as it begins.
THEOREM MapWrongPage == Spec => []WrongPageOnlyAfterSplit
<1>1. MapInv => WrongPageOnlyAfterSplit
  BY DEF MapInv
<1> QED
  BY <1>1, MapSafety, PTL
==============================================================================
