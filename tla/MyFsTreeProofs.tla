----------------------------- MODULE MyFsTreeProofs -----------------------------
(***************************************************************************)
(* Proofs about MyFsTree, for any number of user mounts.                   *)
(***************************************************************************)
EXTENDS MyFsTree, FiniteSetTheorems, TLAPS

\* What a load has reached by now.  An init that could not register never has
\* a super block; one that could not mount is loaded all the same.
Loading ==
  /\ mod \in {"absent", "crashed"} => ~SuperBlock /\ ~registered
  /\ mod = "loading" /\ phase = "register" =>
       ~registered /\ ~SuperBlock /\ myfs_mount = "null" /\ retval = 0
  /\ mod = "loading" /\ phase = "mount" =>
       registered /\ myfs_mount = "null" /\ retval = 0
  /\ mod = "loading" /\ phase \in {"create", "fops", "return"} =>
       \/ registered /\ myfs_mount = "ok" /\ retval = 0
       \/ ~registered /\ ~SuperBlock /\ myfs_mount = "null" /\ retval = -1
  /\ mod = "loaded" =>
       \/ phase = "return" /\ myfs_mount = "ok"
       \/ phase = "mount" /\ myfs_mount = "err" /\ ~registered
  /\ phase \in {"register", "mount"} => op = 1 /\ pslot = "null"
  /\ phase \in {"create", "fops"} => op \in 1..6
  /\ phase = "return" => op = 7
  /\ phase = "fops" => mod = "loading" /\ myfs_mount = "ok"

\* The tree is empty until the kernel's own mount has succeeded.
EmptyUnlessMounted ==
  myfs_mount # "ok" => tree = EmptyTree /\ nlink = EmptyNlink /\ pslot = "null"

\* Directories are entries of the root, and a file lacks its operations only
\* between the two steps of its creation.
Places ==
  /\ \A d \in Dirs, n \in Names : tree[<<d, n>>] = "dir" =>
       d = "root" /\ n \in {"First", "Second"}
  /\ \A d \in Dirs, n \in Names : tree[<<d, n>>] = "bare" =>
       phase = "fops" /\ <<d, n>> = Here
  /\ phase = "fops" => tree[Here] = IF Ops[op].dir THEN "dir" ELSE "bare"

\* The link counts, without the cardinality.
Counts ==
  /\ nlink["root"] = 2 + (IF tree[<<"root", "First">>] = "dir" THEN 1 ELSE 0)
                       + (IF tree[<<"root", "Second">>] = "dir" THEN 1 ELSE 0)
  /\ tree[<<"root", "First">>] = "dir" => nlink["First"] = 2
  /\ tree[<<"root", "Second">>] = "dir" => nlink["Second"] = 2

\* The parent passed on is the directory made last, and null if it was not made.
Parents ==
  /\ op = 1 => pslot = "null"
  /\ op \in 2..4 => pslot \in {"null", "First"}
  /\ op \in 5..7 => pslot \in {"null", "Second"}
  /\ op \in 2..4 /\ pslot = "null" => tree[<<"root", "First">>] = "none"
  /\ op \in 5..7 /\ pslot = "null" => tree[<<"root", "Second">>] = "none"
  /\ op = 1 /\ phase # "fops" => tree[<<"root", "First">>] = "none"
  /\ op < 4 \/ (op = 4 /\ phase # "fops") => tree[<<"root", "Second">>] = "none"

TreeInv ==
  /\ TypeOK /\ Loading /\ EmptyUnlessMounted /\ Places /\ Counts /\ Parents
  /\ StrayOnlyAfterDirFailure

------------------------------------------------------------------------------
(* The operators                                                           *)

\* The six creations of myfs_init.
LEMMA OpsFacts ==
  /\ Len(Ops) = 6
  /\ \A i \in 1..6 :
       /\ Ops[i].dir <=> i \in {1, 4}
       /\ Ops[i].name = CASE i = 1 -> "First" [] i = 4 -> "Second"
                          [] i \in {2, 5} -> "one" [] i \in {3, 6} -> "two"
<1>1. Len(Ops) = 6
  BY DEF Ops
<1>2. /\ Ops[1].dir /\ Ops[1].name = "First"
      /\ ~Ops[2].dir /\ Ops[2].name = "one"
      /\ ~Ops[3].dir /\ Ops[3].name = "two"
      /\ Ops[4].dir /\ Ops[4].name = "Second"
      /\ ~Ops[5].dir /\ Ops[5].name = "one"
      /\ ~Ops[6].dir /\ Ops[6].name = "two"
  BY DEF Ops
<1>3. \A i \in 1..6 : i = 1 \/ i = 2 \/ i = 3 \/ i = 4 \/ i = 5 \/ i = 6
  OBVIOUS
<1> QED
  BY <1>1, <1>2, <1>3

\* Where a creation takes place, when there is a mount to make it in.
LEMMA HereFacts ==
  ASSUME TypeOK, Parents, op \in 1..6, Parent # "null"
  PROVE  /\ Here \in Paths /\ Here = <<Parent, Ops[op].name>>
         /\ Parent \in Dirs /\ Ops[op].name \in Names
         /\ op \in {1, 4} => Parent = "root" /\ Ops[op].dir
         /\ op \notin {1, 4} => ~Ops[op].dir /\ Parent = IF pslot = "null" THEN "root" ELSE pslot
         /\ Ops[op].name = CASE op = 1 -> "First" [] op = 4 -> "Second"
                             [] op \in {2, 5} -> "one" [] op \in {3, 6} -> "two"
<1>1. /\ Ops[op].dir <=> op \in {1, 4}
      /\ Ops[op].name = CASE op = 1 -> "First" [] op = 4 -> "Second"
                          [] op \in {2, 5} -> "one" [] op \in {3, 6} -> "two"
  BY OpsFacts
<1>2. Ops[op].name \in Names
  BY <1>1 DEF Names
<1>3. /\ op \in {1, 4} => Parent = "root" /\ Ops[op].dir
      /\ op \notin {1, 4} => ~Ops[op].dir /\ Parent = IF pslot = "null" THEN "root" ELSE pslot
  BY <1>1 DEF Parent
<1>4. Parent \in Dirs
  BY <1>3 DEF TypeOK, Dirs
<1> QED
  BY <1>1, <1>2, <1>3, <1>4 DEF Here, Paths

------------------------------------------------------------------------------
(* Steps that leave the tree alone                                         *)

\* The tree starts empty.
LEMMA TreeInit == Init => TreeInv
<1> SUFFICES ASSUME Init PROVE TreeInv
  OBVIOUS
<1> USE DEF Init
<1>1. \A p \in Paths : tree[p] = "none"
  BY DEF EmptyTree
<1>2. \A d \in Dirs, n \in Names : <<d, n>> \in Paths
  BY DEF Paths
<1>3. TypeOK
  <2>1. tree \in [Paths -> {"none", "dir", "bare", "served"}]
    BY DEF EmptyTree
  <2>2. nlink \in [Dirs -> 0..4]
    BY DEF EmptyNlink
  <2>3. op \in 1..(Len(Ops) + 1) /\ mounts \in 0..MaxMounts
    BY OpsFacts, MountsAssumption
  <2> QED
    BY <2>1, <2>2, <2>3 DEF TypeOK
<1>4. Loading /\ EmptyUnlessMounted
  BY DEF Loading, EmptyUnlessMounted, SuperBlock
<1>5. Places /\ StrayOnlyAfterDirFailure
  BY <1>1, <1>2 DEF Places, StrayOnlyAfterDirFailure, Dirs, Names
<1>6. Counts /\ Parents
  BY <1>1, <1>2 DEF Counts, Parents, EmptyNlink, Dirs, Names
<1> QED
  BY <1>3, <1>4, <1>5, <1>6 DEF TreeInv

\* insmod, the registration and the two outcomes of kern_mount.
LEMMA StartInv ==
  ASSUME TreeInv, Insmod \/ Register \/ MountSucceeds \/ MountFails
  PROVE  TreeInv'
<1> USE DEF TreeInv
<1>1. UNCHANGED <<tree, nlink, mounts, opens>>
  BY DEF Insmod, Register, MountSucceeds, MountFails
<1>2. TypeOK'
  <2>1. op' \in 1..(Len(Ops) + 1)
    BY OpsFacts DEF Insmod, Register, MountSucceeds, MountFails, TypeOK
  <2>2. /\ mod' \in {"absent", "loading", "loaded", "crashed"}
        /\ phase' \in {"register", "mount", "create", "fops", "return"}
        /\ retval' \in {0, -1} /\ registered' \in BOOLEAN
        /\ myfs_mount' \in {"null", "ok", "err"}
        /\ pslot' \in {"null", "First", "Second"}
    BY DEF Insmod, Register, MountSucceeds, MountFails, TypeOK
  <2> QED
    BY <1>1, <2>1, <2>2 DEF TypeOK
<1>3. Loading'
  BY <1>1 DEF Insmod, Register, MountSucceeds, MountFails, TypeOK, Loading, SuperBlock
<1>4. tree = EmptyTree /\ nlink = EmptyNlink
  BY DEF Insmod, Register, MountSucceeds, MountFails, Loading, EmptyUnlessMounted, SuperBlock
<1>5. op' = 1 /\ pslot' = "null" /\ phase' # "fops"
  BY DEF Insmod, Register, MountSucceeds, MountFails, Loading
<1>6. \A d \in Dirs, n \in Names : tree'[<<d, n>>] = "none"
  BY <1>1, <1>4 DEF EmptyTree, Paths
<1>7. EmptyUnlessMounted'
  BY <1>1, <1>4, <1>5 DEF EmptyUnlessMounted
<1>8. Places' /\ StrayOnlyAfterDirFailure'
  BY <1>5, <1>6 DEF Places, StrayOnlyAfterDirFailure, Dirs, Names
<1>9. Counts' /\ Parents'
  BY <1>1, <1>4, <1>5, <1>6 DEF Counts, Parents, EmptyNlink, Dirs, Names
<1> QED
  BY <1>2, <1>3, <1>7, <1>8, <1>9

\* The end of myfs_init, rmmod, and users other than the one that unmounts.
LEMMA QuietInv ==
  ASSUME TreeInv,
         \/ InitReturns \/ Rmmod \/ UserMount
         \/ \E p \in Paths : UserOpen(p) \/ UserClose(p)
  PROVE  TreeInv'
<1> USE DEF TreeInv
<1>1. UNCHANGED <<tree, nlink, pslot, op, phase, retval, myfs_mount>>
  BY DEF InitReturns, Rmmod, UserMount, UserOpen, UserClose
<1>2. TypeOK'
  <2>1. /\ mod' \in {"absent", "loading", "loaded", "crashed"}
        /\ registered' \in BOOLEAN
    BY DEF InitReturns, Rmmod, UserMount, UserOpen, UserClose, TypeOK
  <2>2. mounts' \in 0..MaxMounts
    BY MountsAssumption DEF InitReturns, Rmmod, UserMount, UserOpen, UserClose, TypeOK
  <2>3. opens' \subseteq Paths
    BY DEF InitReturns, Rmmod, UserMount, UserOpen, UserClose, TypeOK
  <2> QED
    BY <1>1, <2>1, <2>2, <2>3 DEF TypeOK
<1>3. Loading'
  <2>1. CASE InitReturns
    BY <1>1, <2>1 DEF InitReturns, TypeOK, Loading, SuperBlock
  <2>2. CASE Rmmod
    BY <1>1, <2>2 DEF Rmmod, TypeOK, Loading, SuperBlock, Pinned
  <2>3. CASE UserMount
    BY <1>1, <2>3 DEF UserMount, TypeOK, Loading, SuperBlock
  <2>4. CASE \E p \in Paths : UserOpen(p) \/ UserClose(p)
    BY <1>1, <2>4 DEF UserOpen, UserClose, Loading, SuperBlock
  <2> QED
    BY <2>1, <2>2, <2>3, <2>4
<1>4. EmptyUnlessMounted' /\ Places' /\ Counts' /\ Parents' /\ StrayOnlyAfterDirFailure'
  BY <1>1 DEF EmptyUnlessMounted, Places, Counts, Parents, StrayOnlyAfterDirFailure,
     Here, Parent, Tried
<1> QED
  BY <1>2, <1>3, <1>4

\* umount; the tree it takes away was empty.
LEMMA UmountInv ==
  ASSUME TreeInv, UserUmount
  PROVE  TreeInv'
<1> USE DEF TreeInv
<1>1. /\ tree' = tree /\ nlink' = nlink
      /\ UNCHANGED <<mod, phase, op, retval, registered, myfs_mount, pslot, opens>>
  BY DEF UserUmount, EmptyUnlessMounted
<1>2. mounts' = mounts - 1 /\ mounts > 0
  BY DEF UserUmount
<1>3. TypeOK'
  BY <1>1, <1>2, MountsAssumption DEF TypeOK
<1>4. Loading'
  BY <1>1, <1>2, MountsAssumption DEF TypeOK, Loading, SuperBlock
<1>5. EmptyUnlessMounted' /\ Places' /\ Counts' /\ Parents' /\ StrayOnlyAfterDirFailure'
  BY <1>1 DEF EmptyUnlessMounted, Places, Counts, Parents, StrayOnlyAfterDirFailure,
     Here, Parent, Tried
<1> QED
  BY <1>3, <1>4, <1>5

\* A creation that fails: a missing directory is remembered as a null parent.
LEMMA CreateFailsInv ==
  ASSUME TreeInv, CreateFails
  PROVE  TreeInv'
<1> USE DEF TreeInv
<1>1. /\ UNCHANGED <<mod, retval, registered, myfs_mount, mounts, tree, nlink, opens>>
      /\ op \in 1..6 /\ op' = op + 1 /\ mod = "loading" /\ phase = "create"
      /\ phase' = IF op = 6 THEN "return" ELSE "create"
      /\ pslot' = IF op \in {1, 4} THEN "null" ELSE pslot
  BY OpsFacts DEF CreateFails, Advance, Loading
<1>2. TypeOK'
  BY <1>1, OpsFacts DEF TypeOK
<1>3. Loading' /\ EmptyUnlessMounted'
  BY <1>1 DEF Loading, EmptyUnlessMounted, SuperBlock
<1>4. Places' /\ Counts'
  BY <1>1 DEF Places, Counts
<1>5. Parents'
  BY <1>1 DEF Parents
<1>6. StrayOnlyAfterDirFailure'
  BY <1>1 DEF StrayOnlyAfterDirFailure, Tried
<1> QED
  BY <1>2, <1>3, <1>4, <1>5, <1>6

------------------------------------------------------------------------------
(* Steps that build the tree                                               *)

\* myfs_creat_by_name: a new name below the parent; a directory takes a link.
LEMMA CreateSucceedsInv ==
  ASSUME TreeInv, CreateSucceeds
  PROVE  TreeInv'
<1> USE DEF TreeInv
<1>1. /\ UNCHANGED <<mod, op, retval, registered, myfs_mount, mounts, pslot, opens>>
      /\ mod = "loading" /\ phase = "create" /\ phase' = "fops"
      /\ op \in 1..6 /\ Parent # "null" /\ tree[Here] = "none"
      /\ tree' = [tree EXCEPT ![Here] = IF Ops[op].dir THEN "dir" ELSE "bare"]
      /\ nlink' = IF Ops[op].dir THEN Links ELSE nlink
  BY DEF CreateSucceeds, Loading, Fresh
<1>2. myfs_mount = "ok"
  BY <1>1 DEF Parent, EmptyUnlessMounted
<1>3. /\ Here \in Paths /\ Here = <<Parent, Ops[op].name>>
      /\ Parent \in Dirs /\ Ops[op].name \in Names
      /\ op \in {1, 4} => Parent = "root" /\ Ops[op].dir
      /\ op \notin {1, 4} => ~Ops[op].dir /\ Parent = IF pslot = "null" THEN "root" ELSE pslot
      /\ Ops[op].name = CASE op = 1 -> "First" [] op = 4 -> "Second"
                          [] op \in {2, 5} -> "one" [] op \in {3, 6} -> "two"
  BY <1>1, HereFacts
<1>4. Here' = Here
  BY <1>1 DEF Here, Parent
<1>5. /\ tree \in [Paths -> {"none", "dir", "bare", "served"}]
      /\ \A d \in Dirs, n \in Names : <<d, n>> \in Paths
  BY DEF TypeOK, Paths
<1>6. /\ tree'[Here] = IF Ops[op].dir THEN "dir" ELSE "bare"
      /\ \A d \in Dirs, n \in Names :
           <<d, n>> # Here => tree'[<<d, n>>] = tree[<<d, n>>]
  BY <1>1, <1>3, <1>5
<1>7. Counts'
  <2>1. CASE op \in {1, 4}
    <3>1. nlink' = [nlink EXCEPT ![Ops[op].name] = 2, !["root"] = @ + 1]
      BY <1>1, <1>3, <2>1 DEF Links
    <3>2. nlink \in [Dirs -> 0..4]
      BY DEF TypeOK
    <3>3. CASE op = 1
      <4>1. Here = <<"root", "First">> /\ Ops[op].name = "First" /\ Ops[op].dir
        BY <1>3, <3>3
      <4>2. nlink'["root"] = nlink["root"] + 1 /\ nlink'["First"] = 2
            /\ nlink'["Second"] = nlink["Second"]
        BY <3>1, <3>2, <4>1 DEF Dirs
      <4> QED
        BY <1>1, <1>6, <4>1, <4>2 DEF Counts, Dirs, Names
    <3>4. CASE op = 4
      <4>1. Here = <<"root", "Second">> /\ Ops[op].name = "Second" /\ Ops[op].dir
        BY <1>3, <3>4
      <4>2. nlink'["root"] = nlink["root"] + 1 /\ nlink'["Second"] = 2
            /\ nlink'["First"] = nlink["First"]
        BY <3>1, <3>2, <4>1 DEF Dirs
      <4> QED
        BY <1>1, <1>6, <4>1, <4>2 DEF Counts, Dirs, Names
    <3> QED
      BY <2>1, <3>3, <3>4
  <2>2. CASE op \notin {1, 4}
    BY <1>1, <1>3, <1>6, <2>2 DEF Counts, Dirs, Names
  <2> QED
    BY <2>1, <2>2
<1>8. TypeOK'
  <2>1. tree' \in [Paths -> {"none", "dir", "bare", "served"}]
    BY <1>1, <1>5
  <2>2. nlink' \in [Dirs -> 0..4]
    <3>1. CASE op \in {1, 4}
      <4>1. nlink' = [nlink EXCEPT ![Ops[op].name] = 2, !["root"] = @ + 1]
        BY <1>1, <1>3, <3>1 DEF Links
      <4>2. Ops[op].name \in {"First", "Second"}
        BY <1>3, <3>1
      <4>3. nlink["root"] <= 3
        BY <1>1, <1>3, <3>1 DEF Counts
      <4> QED
        BY <4>1, <4>2, <4>3 DEF TypeOK, Dirs
    <3>2. CASE op \notin {1, 4}
      BY <1>1, <1>3, <3>2 DEF TypeOK
    <3> QED
      BY <3>1, <3>2
  <2> QED
    BY <1>1, <2>1, <2>2 DEF TypeOK
<1>9. Loading' /\ EmptyUnlessMounted'
  BY <1>1, <1>2 DEF Loading, EmptyUnlessMounted, SuperBlock
<1>10. Places'
  BY <1>1, <1>3, <1>4, <1>6 DEF Places
<1>11. Parents'
  BY <1>1, <1>3, <1>6 DEF Parents, Dirs, Names
<1>12. StrayOnlyAfterDirFailure'
  BY <1>1, <1>3, <1>6 DEF StrayOnlyAfterDirFailure, Tried, Parents, Dirs, Names
<1> QED
  BY <1>7, <1>8, <1>9, <1>10, <1>11, <1>12

\* The rest of myfs_creat_file: operations for a file, the next parent for a
\* directory.
LEMMA AssignFopsInv ==
  ASSUME TreeInv, AssignFops
  PROVE  TreeInv'
<1> USE DEF TreeInv
<1>1. /\ UNCHANGED <<mod, retval, registered, myfs_mount, mounts, nlink, opens>>
      /\ mod = "loading" /\ phase = "fops" /\ myfs_mount = "ok"
      /\ op \in 1..6 /\ op' = op + 1
      /\ tree' = IF Ops[op].dir THEN tree ELSE [tree EXCEPT ![Here] = "served"]
      /\ phase' = IF op = 6 THEN "return" ELSE "create"
      /\ pslot' = IF Ops[op].dir THEN Ops[op].name ELSE pslot
  BY OpsFacts DEF AssignFops, Advance, Serves, Loading
<1>2. Parent # "null"
  BY <1>1 DEF Parent
<1>3. /\ Here \in Paths /\ Here = <<Parent, Ops[op].name>>
      /\ Parent \in Dirs /\ Ops[op].name \in Names
      /\ op \in {1, 4} => Parent = "root" /\ Ops[op].dir
      /\ op \notin {1, 4} => ~Ops[op].dir /\ Parent = IF pslot = "null" THEN "root" ELSE pslot
      /\ Ops[op].name = CASE op = 1 -> "First" [] op = 4 -> "Second"
                          [] op \in {2, 5} -> "one" [] op \in {3, 6} -> "two"
  BY <1>1, <1>2, HereFacts
<1>4. /\ tree \in [Paths -> {"none", "dir", "bare", "served"}]
      /\ \A d \in Dirs, n \in Names : <<d, n>> \in Paths
      /\ tree[Here] = IF Ops[op].dir THEN "dir" ELSE "bare"
  BY <1>1 DEF TypeOK, Paths, Places
<1>5. /\ tree'[Here] = IF Ops[op].dir THEN "dir" ELSE "served"
      /\ \A d \in Dirs, n \in Names :
           <<d, n>> # Here => tree'[<<d, n>>] = tree[<<d, n>>]
  BY <1>1, <1>3, <1>4
<1>6. TypeOK'
  <2>1. tree' \in [Paths -> {"none", "dir", "bare", "served"}]
    BY <1>1, <1>4
  <2>2. op' \in 1..(Len(Ops) + 1) /\ pslot' \in {"null", "First", "Second"}
    BY <1>1, <1>3, OpsFacts DEF TypeOK
  <2> QED
    BY <1>1, <2>1, <2>2 DEF TypeOK
<1>7. Loading' /\ EmptyUnlessMounted'
  BY <1>1 DEF Loading, EmptyUnlessMounted, SuperBlock
<1>8. Places'
  BY <1>1, <1>3, <1>4, <1>5 DEF Places
<1>9. Counts'
  BY <1>1, <1>3, <1>4, <1>5 DEF Counts, Dirs, Names
<1>10. Parents'
  BY <1>1, <1>3, <1>4, <1>5 DEF Parents, Dirs, Names
<1>11. StrayOnlyAfterDirFailure'
  BY <1>1, <1>3, <1>4, <1>5 DEF StrayOnlyAfterDirFailure, Tried, Dirs, Names
<1> QED
  BY <1>6, <1>7, <1>8, <1>9, <1>10, <1>11

\* Every step of the module and of its users keeps the invariant.
LEMMA TreeNext == TreeInv /\ [Next]_vars => TreeInv'
<1> SUFFICES ASSUME TreeInv, [Next]_vars PROVE TreeInv'
  OBVIOUS
<1>1. CASE UNCHANGED vars
  BY <1>1 DEF vars, TreeInv, TypeOK, Loading, EmptyUnlessMounted, Places, Counts,
     Parents, StrayOnlyAfterDirFailure, SuperBlock, Here, Parent, Tried
<1> QED
  BY <1>1, StartInv, QuietInv, UmountInv, CreateFailsInv, CreateSucceedsInv,
     AssignFopsInv DEF Next, InitStep

------------------------------------------------------------------------------
(* The theorems                                                            *)

\* Whatever fails in myfs_init and whatever users do meanwhile.
THEOREM TreeSafety == Spec => []TreeInv
  BY TreeInit, TreeNext, PTL DEF Spec

\* Link counts are right, whichever creations of myfs_init failed.
THEOREM TreeNlinkMatches == Spec => []NlinkMatches
<1>1. ASSUME TreeInv PROVE NlinkMatches
  <2> DEFINE Sub(d) == {n \in Names : tree[<<d, n>>] = "dir"}
  <2>1. \A d \in Dirs : d # "root" => Sub(d) = {}
    BY <1>1 DEF TreeInv, Places
  <2>2. Cardinality(Sub("root")) =
          (IF tree[<<"root", "First">>] = "dir" THEN 1 ELSE 0)
          + (IF tree[<<"root", "Second">>] = "dir" THEN 1 ELSE 0)
    <3>1. Sub("root") \subseteq {"First", "Second"}
      BY <1>1 DEF TreeInv, Places, Dirs
    <3>2. /\ "First" \in Sub("root") <=> tree[<<"root", "First">>] = "dir"
          /\ "Second" \in Sub("root") <=> tree[<<"root", "Second">>] = "dir"
      BY DEF Names
    <3>3. /\ IsFiniteSet({"First"}) /\ Cardinality({"First"}) = 1
          /\ IsFiniteSet({"Second"}) /\ Cardinality({"Second"}) = 1
          /\ Cardinality({}) = 0
      BY FS_Singleton, FS_EmptySet
    <3>4. Cardinality({"First"} \cup {"Second"}) = 2
      BY <3>3, FS_AddElement
    <3>5. \/ Sub("root") = {} \/ Sub("root") = {"First"} \/ Sub("root") = {"Second"}
          \/ Sub("root") = {"First"} \cup {"Second"}
      BY <3>1
    <3> HIDE DEF Sub
    <3> QED
      BY <3>2, <3>3, <3>4, <3>5
  <2>3. Cardinality({}) = 0
    BY FS_EmptySet
  <2>4. \A d \in Dirs : d = "root" \/ tree[<<"root", d>>] = "dir" =>
          nlink[d] = 2 + Cardinality(Sub(d))
    <3> HIDE DEF Sub
    <3> QED
      BY <1>1, <2>1, <2>2, <2>3 DEF TreeInv, Counts, Dirs
  <2> QED
    BY <2>4 DEF NlinkMatches
<1> QED
  BY <1>1, TreeSafety, PTL

\* Once myfs_init has returned 0 every file of the tree has its operations.
THEOREM TreeServedOnceLoaded == Spec => []ServedOnceLoaded
<1>1. TreeInv => ServedOnceLoaded
  BY DEF TreeInv, ServedOnceLoaded, Places, Loading, Paths
<1> QED
  BY <1>1, TreeSafety, PTL

\* A file of myfs_init lands in the root only when a directory is missing.
THEOREM TreeStray == Spec => []StrayOnlyAfterDirFailure
<1>1. TreeInv => StrayOnlyAfterDirFailure
  BY DEF TreeInv
<1> QED
  BY <1>1, TreeSafety, PTL

\* The module stays in memory as long as a super block uses it.
THEOREM TreeModuleOutlives == Spec => []ModuleOutlivesSuperBlock
<1>1. TreeInv => ModuleOutlivesSuperBlock
  BY DEF TreeInv, TypeOK, Loading, ModuleOutlivesSuperBlock
<1> QED
  BY <1>1, TreeSafety, PTL

\* No step of myfs_init replaces an entry that a user can open.
THEOREM TreeEntriesStay == Spec => EntriesStay
<1>1. ASSUME TreeInv, Next, SuperBlock', NEW p \in Paths
      PROVE  /\ tree[p] = "served" => tree'[p] = "served"
             /\ tree[p] = "dir" => tree'[p] = "dir"
  <2>1. CASE CreateSucceeds
    BY <1>1, <2>1 DEF CreateSucceeds, Fresh, TreeInv, TypeOK
  <2>2. CASE AssignFops
    <3>1. ~Ops[op].dir => tree[Here] = "bare"
      BY <1>1, <2>2 DEF AssignFops, TreeInv, Places
    <3> QED
      BY <1>1, <2>2, <3>1 DEF AssignFops, Serves, TreeInv, TypeOK
  <2>3. CASE UserUmount
    BY <1>1, <2>3 DEF UserUmount, TreeInv, EmptyUnlessMounted
  <2>4. CASE tree' = tree
    BY <2>4
  <2> QED
    BY <1>1, <2>1, <2>2, <2>3, <2>4 DEF Next, InitStep, Insmod, Register, MountSucceeds,
       MountFails, CreateFails, InitReturns, Rmmod, UserMount, UserOpen, UserClose
<1>2. TreeInv /\ [Next]_vars =>
        [SuperBlock' => \A p \in Paths :
           /\ tree[p] = "served" => tree'[p] = "served"
           /\ tree[p] = "dir" => tree'[p] = "dir"]_vars
  BY <1>1
<1> QED
  BY <1>2, TreeSafety, PTL DEF Spec, EntriesStay
==============================================================================
