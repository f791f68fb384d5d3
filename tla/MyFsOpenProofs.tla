----------------------------- MODULE MyFsOpenProofs -----------------------------
(***************************************************************************)
(* Proofs about MyFsOpen, for any set of users, descriptions, heap objects *)
(* and builds of the module.                                               *)
(***************************************************************************)
EXTENDS MyFsOpen, FiniteSetTheorems, TLAPS

Description == [st : {"free", "entered", "checking", "open"}, user : Users,
                acc : Access, info : Infos \cup {NoInfo}, refs : 0..MaxRefs,
                moved : BOOLEAN]

\* Descriptions and infos are taken one at a time, so both sets are finite
\* though Handles and Infos need not be.
Counted ==
  /\ IsFiniteSet(heap) /\ IsFiniteSet(Owners)
  /\ LeakPerDenial

\* While an open is on its way and the modes have stayed as the kernel found
\* them, the kernel's check still holds of them.
StillAllowed ==
  \A h \in Handles :
    file[h].st \in {"entered", "checking"} /\ ~file[h].moved
      => Permitted(file[h].user, fileMode, file[h].acc)

OpenInv ==
  TypeOK /\ InfoOwnership /\ Counted /\ StillAllowed /\ RdWrOnlyByRace

------------------------------------------------------------------------------
(* The operators                                                           *)

\* A description that is not in use is well formed.
LEMMA FreeType == Free \in Description
<1>1. (CHOOSE u \in Users : TRUE) \in Users
  BY OpenAssumption
<1> QED
  BY <1>1, OpenAssumption DEF Free, Description, Access

\* open_count stays inside an int, whatever kmalloc returned.
LEMMA IncrementType ==
  ASSUME NEW g \in Garbage
  PROVE  Increment(g) \in (-IntMax - 1)..IntMax
  BY OpenAssumption DEF Increment

------------------------------------------------------------------------------
(* Types                                                                   *)

LEMMA TypeInit == Init => TypeOK
  BY FreeType, OpenAssumption DEF Init, TypeOK, Description, InitialDirMode

LEMMA TypeNext == TypeOK /\ [Next]_vars => TypeOK'
<1> SUFFICES ASSUME TypeOK, [Next]_vars PROVE TypeOK'
  OBVIOUS
<1>0. file \in [Handles -> Description]
  BY DEF TypeOK, Description
<1> USE OpenAssumption
<1>1. ASSUME NEW dir \in {{"r"}, {"r", "x"}}, NEW mode \in SUBSET {"r", "w"},
             Chmod(dir, mode)
      PROVE  TypeOK'
  <2>1. ASSUME NEW h \in Handles
        PROVE  [file[h] EXCEPT !.moved = @ \/ file[h].st \in {"entered", "checking"}]
                 \in Description
    BY <1>0 DEF Description
  <2> QED
    BY <1>1, <2>1 DEF Chmod, TypeOK, Description
<1>2. ASSUME NEW h \in Handles, NEW u \in Users, NEW a \in Access, VfsOpen(h, u, a)
      PROVE  TypeOK'
  <2>1. [Free EXCEPT !.st = "entered", !.user = u, !.acc = a] \in Description
    BY FreeType DEF Description
  <2> QED
    BY <1>2, <1>0, <2>1 DEF VfsOpen, TypeOK, Description
<1>3. ASSUME NEW h \in Handles, NoMemory(h) \/ CheckDenies(h) PROVE TypeOK'
  <2>1. file' \in [Handles -> Description]
    BY <1>3, <1>0, FreeType DEF NoMemory, CheckDenies
  <2>2. /\ denials' \in Nat
        /\ UNCHANGED <<build, dirMode, fileMode, heap, count>>
    BY <1>3 DEF NoMemory, CheckDenies, TypeOK
  <2> QED
    BY <2>1, <2>2 DEF TypeOK, Description
<1>4. ASSUME NEW h \in Handles, AllocInfo(h) PROVE TypeOK'
  <2>1. PICK i \in Infos \ heap, g \in Garbage :
               /\ heap' = heap \cup {i}
               /\ count' = [count EXCEPT ![i] = Increment(g)]
               /\ file' = [file EXCEPT ![h].st = "checking", ![h].info = i]
    BY <1>4 DEF AllocInfo
  <2>2. [file[h] EXCEPT !.st = "checking", !.info = i] \in Description
    BY <1>0 DEF Description
  <2>3. file' \in [Handles -> Description]
    BY <1>0, <2>1, <2>2
  <2>4. count' \in [Infos -> (-IntMax - 1)..IntMax]
    BY <2>1, IncrementType DEF TypeOK
  <2> QED
    BY <1>4, <2>1, <2>3, <2>4 DEF AllocInfo, TypeOK, Description
<1>5. ASSUME NEW h \in Handles, CheckPasses(h) \/ Dup(h) \/ Close(h) PROVE TypeOK'
  BY <1>5, <1>0 DEF CheckPasses, Dup, Close, TypeOK, Description
<1>6. ASSUME NEW h \in Handles, Release(h) PROVE TypeOK'
  <2>1. file' \in [Handles -> Description]
    BY <1>6, <1>0, FreeType DEF Release
  <2>2. count' \in [Infos -> (-IntMax - 1)..IntMax]
    <3>1. PICK i : count' = [count EXCEPT ![i] = 0]
      BY <1>6 DEF Release, Kfree
    <3>2. 0 \in (-IntMax - 1)..IntMax
      BY OpenAssumption
    <3>3. count \in [Infos -> (-IntMax - 1)..IntMax]
      BY DEF TypeOK
    <3> HIDE OpenAssumption
    <3> QED
      BY <3>1, <3>2, <3>3, Zenon
  <2> QED
    BY <1>6, <2>1, <2>2 DEF Release, Kfree, TypeOK, Description
<1>7. CASE UNCHANGED vars
  BY <1>7 DEF vars, TypeOK
<1> QED
  BY <1>1, <1>2, <1>3, <1>4, <1>5, <1>6, <1>7 DEF Next, FileOpen

------------------------------------------------------------------------------
(* Who owns which info                                                     *)

\* A step that neither allocates nor frees, and leaves the owners as they are.
LEMMA OwnersKept ==
  ASSUME InfoOwnership, Counted, heap' = heap, denials' = denials,
         Owners' = Owners, \A h \in Owners : file'[h].info = file[h].info
  PROVE  InfoOwnership' /\ Counted'
<1>1. InfoOwnership'
  BY DEF InfoOwnership
<1>2. Counted'
  BY DEF Counted, LeakPerDenial
<1> QED
  BY <1>1, <1>2

\* kmalloc gives a description its own info.
LEMMA AllocOwns ==
  ASSUME TypeOK, InfoOwnership, Counted, NEW h \in Handles, AllocInfo(h)
  PROVE  InfoOwnership' /\ Counted'
<1>1. PICK i \in Infos \ heap :
             /\ heap' = heap \cup {i}
             /\ file' = [file EXCEPT ![h].st = "checking", ![h].info = i]
  BY DEF AllocInfo
<1>2. h \notin Owners /\ denials' = denials
  BY DEF AllocInfo, Owners
<1>3. /\ file'[h].st = "checking" /\ file'[h].info = i
      /\ \A g \in Handles \ {h} : file'[g] = file[g]
  BY <1>1 DEF TypeOK
<1>4. Owners' = Owners \cup {h}
  BY <1>3 DEF Owners
<1>5. InfoOwnership'
  <2>1. \A g \in Owners : file'[g].info = file[g].info /\ file[g].info \in heap
    BY <1>2, <1>3 DEF InfoOwnership, Owners
  <2>2. i \notin heap /\ heap' = heap \cup {i}
    BY <1>1
  <2>3. \A g, k \in Owners : g # k => file[g].info # file[k].info
    BY DEF InfoOwnership
  <2>4. \A g \in Owners' : file'[g].info \in heap'
    BY <1>3, <1>4, <2>1, <2>2
  <2>5. \A g, k \in Owners' : g # k => file'[g].info # file'[k].info
    BY <1>3, <1>4, <2>1, <2>2, <2>3
  <2> QED
    BY <2>4, <2>5 DEF InfoOwnership
<1>6. Counted'
  <2>1. /\ IsFiniteSet(heap) /\ IsFiniteSet(Owners)
        /\ Cardinality(heap) = Cardinality(Owners) + denials
    BY DEF Counted, LeakPerDenial
  <2>2. /\ IsFiniteSet(heap') /\ Cardinality(heap') = Cardinality(heap) + 1
    BY <1>1, <2>1, FS_AddElement
  <2>3. /\ IsFiniteSet(Owners') /\ Cardinality(Owners') = Cardinality(Owners) + 1
    BY <1>2, <1>4, <2>1, FS_AddElement
  <2>4. Cardinality(heap) \in Nat /\ Cardinality(Owners) \in Nat /\ denials \in Nat
    BY <2>1, FS_CardinalityType DEF TypeOK
  <2> QED
    BY <1>2, <2>1, <2>2, <2>3, <2>4 DEF Counted, LeakPerDenial
<1> QED
  BY <1>5, <1>6

\* A refused open leaves its info allocated and unowned.
LEMMA DenialLoses ==
  ASSUME TypeOK, InfoOwnership, Counted, NEW h \in Handles, CheckDenies(h)
  PROVE  InfoOwnership' /\ Counted'
<1>1. h \in Owners /\ heap' = heap /\ denials' = denials + 1
  BY DEF CheckDenies, Owners
<1>2. /\ file'[h].st = "free"
      /\ \A g \in Handles \ {h} : file'[g] = file[g]
  BY DEF CheckDenies, TypeOK, Free
<1>3. Owners' = Owners \ {h}
  BY <1>2 DEF Owners
<1>4. InfoOwnership'
  BY <1>1, <1>2, <1>3 DEF InfoOwnership, Owners
<1>5. Counted'
  <2>1. /\ IsFiniteSet(heap) /\ IsFiniteSet(Owners)
        /\ Cardinality(heap) = Cardinality(Owners) + denials
    BY DEF Counted, LeakPerDenial
  <2>2. /\ IsFiniteSet(Owners') /\ Cardinality(Owners') = Cardinality(Owners) - 1
    BY <1>1, <1>3, <2>1, FS_RemoveElement
  <2>3. Cardinality(heap) \in Nat /\ Cardinality(Owners) \in Nat /\ denials \in Nat
    BY <2>1, FS_CardinalityType DEF TypeOK
  <2> QED
    BY <1>1, <2>1, <2>2, <2>3 DEF Counted, LeakPerDenial
<1> QED
  BY <1>4, <1>5

\* The last close frees the info of its description, and no other's.
LEMMA ReleaseFrees ==
  ASSUME TypeOK, InfoOwnership, Counted, NEW h \in Handles, Release(h)
  PROVE  InfoOwnership' /\ Counted'
<1>1. /\ h \in Owners /\ denials' = denials
      /\ heap' = heap \ {file[h].info} /\ file[h].info \in heap
  BY DEF Release, Kfree, Owners, InfoOwnership
<1>2. /\ file'[h].st = "free"
      /\ \A g \in Handles \ {h} : file'[g] = file[g]
  BY DEF Release, TypeOK, Free
<1>3. Owners' = Owners \ {h}
  BY <1>2 DEF Owners
<1>4. InfoOwnership'
  BY <1>1, <1>2, <1>3 DEF InfoOwnership, Owners
<1>5. Counted'
  <2>1. /\ IsFiniteSet(heap) /\ IsFiniteSet(Owners)
        /\ Cardinality(heap) = Cardinality(Owners) + denials
    BY DEF Counted, LeakPerDenial
  <2>2. /\ IsFiniteSet(Owners') /\ Cardinality(Owners') = Cardinality(Owners) - 1
    BY <1>1, <1>3, <2>1, FS_RemoveElement
  <2>3. /\ IsFiniteSet(heap') /\ Cardinality(heap') = Cardinality(heap) - 1
    BY <1>1, <2>1, FS_RemoveElement
  <2>4. Cardinality(heap) \in Nat /\ Cardinality(Owners) \in Nat /\ denials \in Nat
    BY <2>1, FS_CardinalityType DEF TypeOK
  <2> QED
    BY <1>1, <2>1, <2>2, <2>3, <2>4 DEF Counted, LeakPerDenial
<1> QED
  BY <1>4, <1>5

\* Every other step leaves owners and infos alone.
LEMMA OwnershipNext ==
  ASSUME TypeOK, InfoOwnership, Counted, [Next]_vars
  PROVE  InfoOwnership' /\ Counted'
<1>1. ASSUME NEW dir, NEW mode, Chmod(dir, mode) PROVE InfoOwnership' /\ Counted'
  <2>1. \A h \in Handles : file'[h].st = file[h].st /\ file'[h].info = file[h].info
    BY <1>1 DEF Chmod, TypeOK
  <2> QED
    BY <1>1, <2>1, OwnersKept DEF Chmod, Owners
<1>2. ASSUME NEW h \in Handles, NEW u, NEW a, VfsOpen(h, u, a)
      PROVE  InfoOwnership' /\ Counted'
  <2>1. /\ file'[h].st = "entered" /\ file[h].st = "free"
        /\ \A g \in Handles \ {h} : file'[g] = file[g]
    BY <1>2 DEF VfsOpen, TypeOK, Free
  <2> QED
    BY <1>2, <2>1, OwnersKept DEF VfsOpen, Owners
<1>3. ASSUME NEW h \in Handles, NoMemory(h) PROVE InfoOwnership' /\ Counted'
  <2>1. /\ file'[h].st = "free" /\ file[h].st = "entered"
        /\ \A g \in Handles \ {h} : file'[g] = file[g]
    BY <1>3 DEF NoMemory, TypeOK, Free
  <2> QED
    BY <1>3, <2>1, OwnersKept DEF NoMemory, Owners
<1>4. ASSUME NEW h \in Handles, CheckPasses(h) \/ Dup(h) \/ Close(h)
      PROVE  InfoOwnership' /\ Counted'
  <2>1. /\ file'[h].st = "open" /\ file[h].st \in {"checking", "open"}
        /\ file'[h].info = file[h].info
        /\ \A g \in Handles \ {h} : file'[g] = file[g]
        /\ heap' = heap /\ denials' = denials
    BY <1>4 DEF CheckPasses, Dup, Close, TypeOK
  <2> QED
    BY <2>1, OwnersKept DEF Owners
<1>5. CASE UNCHANGED vars
  BY <1>5, OwnersKept DEF vars, Owners
<1> QED
  BY <1>1, <1>2, <1>3, <1>4, <1>5, AllocOwns, DenialLoses, ReleaseFrees
     DEF Next, FileOpen

------------------------------------------------------------------------------
(* What the second check leaves through                                    *)

\* The modes change only together with the mark on the opens under way.
LEMMA AllowedNext ==
  ASSUME TypeOK, StillAllowed, RdWrOnlyByRace, [Next]_vars
  PROVE  StillAllowed' /\ RdWrOnlyByRace'
<1>1. ASSUME NEW dir, NEW mode, Chmod(dir, mode)
      PROVE  StillAllowed' /\ RdWrOnlyByRace'
  <2>1. \A h \in Handles :
          /\ file'[h].st = file[h].st /\ file'[h].acc = file[h].acc
          /\ file'[h].user = file[h].user
          /\ file[h].st \in {"entered", "checking"} => file'[h].moved
          /\ file[h].moved => file'[h].moved
    BY <1>1 DEF Chmod, TypeOK
  <2> QED
    BY <1>1, <2>1 DEF Chmod, StillAllowed, RdWrOnlyByRace
<1>2. ASSUME NEW h \in Handles, NEW u \in Users, NEW a \in Access, VfsOpen(h, u, a)
      PROVE  StillAllowed' /\ RdWrOnlyByRace'
  <2>1. /\ file'[h].st = "entered" /\ file'[h].user = u /\ file'[h].acc = a
        /\ \A g \in Handles \ {h} : file'[g] = file[g]
        /\ UNCHANGED <<build, fileMode>>
        /\ Permitted(u, fileMode, a)
    BY <1>2 DEF VfsOpen, VfsAllows, TypeOK, Free
  <2> QED
    BY <2>1 DEF StillAllowed, RdWrOnlyByRace, Permitted
<1>3. ASSUME NEW h \in Handles, NoMemory(h) \/ CheckDenies(h) \/ Release(h)
      PROVE  StillAllowed' /\ RdWrOnlyByRace'
  <2>1. /\ file'[h].st = "free"
        /\ \A g \in Handles \ {h} : file'[g] = file[g]
        /\ UNCHANGED <<build, fileMode>>
    BY <1>3 DEF NoMemory, CheckDenies, Release, TypeOK, Free
  <2> QED
    BY <2>1 DEF StillAllowed, RdWrOnlyByRace, Permitted
<1>4. ASSUME NEW h \in Handles, AllocInfo(h) \/ CheckPasses(h) \/ Dup(h) \/ Close(h)
      PROVE  StillAllowed' /\ RdWrOnlyByRace'
  <2>1. /\ file'[h].user = file[h].user /\ file'[h].acc = file[h].acc
        /\ file'[h].moved = file[h].moved
        /\ \A g \in Handles \ {h} : file'[g] = file[g]
        /\ UNCHANGED <<build, fileMode>>
    BY <1>4 DEF AllocInfo, CheckPasses, Dup, Close, TypeOK
  <2>2. CASE file[h].st = "entered" /\ file'[h].st = "checking"
    BY <2>1, <2>2 DEF StillAllowed, RdWrOnlyByRace, Permitted
  <2>3. CASE file[h].st = "checking" /\ file'[h].st = "open" /\ ~Denied(file[h].user)
    BY <2>1, <2>3 DEF StillAllowed, RdWrOnlyByRace, Permitted, Denied
  <2>4. CASE file[h].st = "open" /\ file'[h].st = "open"
    BY <2>1, <2>4 DEF StillAllowed, RdWrOnlyByRace, Permitted
  <2> QED
    BY <1>4, <2>2, <2>3, <2>4 DEF AllocInfo, CheckPasses, Dup, Close, TypeOK
<1>5. CASE UNCHANGED vars
  BY <1>5 DEF vars, StillAllowed, RdWrOnlyByRace, Permitted
<1> QED
  BY <1>1, <1>2, <1>3, <1>4, <1>5 DEF Next, FileOpen

------------------------------------------------------------------------------
(* The theorems                                                            *)

\* Before the first open.
LEMMA OpenInit == Init => OpenInv
<1> SUFFICES ASSUME Init PROVE OpenInv
  OBVIOUS
<1>1. \A h \in Handles : file[h].st = "free"
  BY DEF Init, Free
<1>2. Owners = {} /\ heap = {} /\ denials = 0
  BY <1>1 DEF Owners, Init
<1>3. Counted
  BY <1>2, FS_EmptySet DEF Counted, LeakPerDenial
<1>4. InfoOwnership /\ StillAllowed /\ RdWrOnlyByRace
  BY <1>1, <1>2 DEF InfoOwnership, StillAllowed, RdWrOnlyByRace
<1> QED
  BY <1>3, <1>4, TypeInit DEF OpenInv

\* Every step of open, dup, close and chmod keeps the invariant.
LEMMA OpenNext == OpenInv /\ [Next]_vars => OpenInv'
  BY TypeNext, OwnershipNext, AllowedNext DEF OpenInv

\* However opens, dups, closes and chmods interleave, the invariant holds.
THEOREM OpenSafety == Spec => []OpenInv
  BY OpenInit, OpenNext, PTL DEF Spec

\* The descriptions and infos of myfs_file_open keep their types, and
\* open_count stays an int though it starts from uncleared memory.
THEOREM OpenTypes == Spec => []TypeOK
<1>1. OpenInv => TypeOK
  BY DEF OpenInv
<1> QED
  BY <1>1, OpenSafety, PTL

\* No use after free and no double free of a myfs_file_info.
THEOREM OpenInfoOwnership == Spec => []InfoOwnership
<1>1. OpenInv => InfoOwnership
  BY DEF OpenInv
<1> QED
  BY <1>1, OpenSafety, PTL

\* myfs_file_open loses exactly one info per -EACCES, and no other path any.
THEOREM OpenLeakPerDenial == Spec => []LeakPerDenial
<1>1. OpenInv => LeakPerDenial
  BY DEF OpenInv, Counted
<1> QED
  BY <1>1, OpenSafety, PTL

\* With the check of myfs_kernel.c only a race with chmod lets a user other
\* than root hold the file open for both reading and writing.
THEOREM OpenRdWrOnlyByRace == Spec => []RdWrOnlyByRace
<1>1. OpenInv => RdWrOnlyByRace
  BY DEF OpenInv
<1> QED
  BY <1>1, OpenSafety, PTL
==============================================================================
