------------------------------ MODULE BlkMqProofs ------------------------------
(***************************************************************************)
(* Proofs about BlkMq, for any number of failing loads.                    *)
(***************************************************************************)
EXTENDS BlkMq, TLAPS

\* What is held at each point of exp_4_2_init, on top of what failed loads left.
Taken(at) ==
  CASE at = "absent" -> {} [] at = "register" -> {"memory"}
    [] at = "queue" -> {"memory", "major"}
    [] at = "crashed" -> {"memory", "major", "queue"}
HeldAccounted ==
  held = [r \in Resource |-> Left(r) + (IF r \in Taken(pc) THEN 1 ELSE 0)]

BlkInv == TypeOK /\ HeldAccounted

\* No load has been tried.
LEMMA BlkInit == Init => BlkInv
<1> SUFFICES ASSUME Init PROVE BlkInv
  OBVIOUS
<1> USE BlkMqAssumption DEF Init
<1>1. TypeOK
  BY DEF TypeOK, Nothing
<1>2. HeldAccounted
  BY DEF HeldAccounted, Left, Taken, Nothing, Calls
<1> QED
  BY <1>1, <1>2 DEF BlkInv

\* exp_4_2_init: what each failure gives back and keeps.
LEMMA BlkNext == BlkInv /\ [Next]_vars => BlkInv'
<1> SUFFICES ASSUME BlkInv, [Next]_vars PROVE BlkInv'
  OBVIOUS
<1> USE BlkMqAssumption DEF BlkInv
<1>1. CASE UNCHANGED vars
  BY <1>1 DEF vars, TypeOK, HeldAccounted, Left
<1> SUFFICES ASSUME Next PROVE BlkInv'
  BY <1>1
<1>2. failed \in [Calls -> 0..MaxFailed]
  BY DEF TypeOK
<1>3. pc' \in {"absent", "register", "queue", "crashed"}
  BY DEF Next, Vmalloc, VmallocFails, Register, RegisterFails, InitQueue,
     InitQueueFails, InitStep, Fail
<1>4. failed' \in [Calls -> 0..MaxFailed]
  BY <1>2 DEF Next, Vmalloc, VmallocFails, Register, RegisterFails, InitQueue,
     InitQueueFails, InitStep, Fail
<1>5. HeldAccounted'
  <2>1. CASE Vmalloc \/ Register \/ InitQueue
    <3>1. failed' = failed
      BY <2>1 DEF Vmalloc, Register, InitQueue, InitStep
    <3> QED
      BY <1>2, <2>1, <3>1 DEF Vmalloc, Register, InitQueue, InitStep,
         HeldAccounted, Left, Taken, Acquire, Resource, Calls
  <2>2. CASE VmallocFails \/ RegisterFails \/ InitQueueFails
    BY <1>2, <2>2 DEF VmallocFails, RegisterFails, InitQueueFails, Fail,
       HeldAccounted, Left, Taken, Release, Resource, Calls
  <2> QED
    BY <2>1, <2>2 DEF Next
<1>6. held' \in [Resource -> Nat]
  <2>1. \A r \in Resource : Left(r)' \in Nat
    BY <1>4 DEF Left, Calls
  <2> QED
    BY <1>5, <2>1 DEF HeldAccounted
<1> QED
  BY <1>3, <1>4, <1>5, <1>6 DEF TypeOK

\* Through every sequence of loads of exp_4_2.
THEOREM BlkSafety == Spec => []BlkInv
  BY BlkInit, BlkNext, PTL DEF Spec

\* What the loads of exp_4_2_init leave behind, resource by resource.
THEOREM BlkLeftBehind == Spec => []LeftBehind
<1>1. BlkInv => LeftBehind
  <2> SUFFICES ASSUME BlkInv, pc \in {"absent", "crashed"} PROVE LeftBehind
    BY DEF LeftBehind
  <2>1. \A r \in Resource : r \in Taken(pc) <=> pc = "crashed" /\ r # "disk"
    BY DEF Taken, Resource
  <2> QED
    BY <2>1 DEF BlkInv, HeldAccounted, LeftBehind
<1> QED
  BY <1>1, BlkSafety, PTL
==============================================================================
