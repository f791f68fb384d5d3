----------------------------- MODULE RamDiskProofs -----------------------------
(***************************************************************************)
(* Proofs about RamDisk, for any width of int, size of sector and value of *)
(* the module parameter, and any number of tasks.                          *)
(***************************************************************************)
EXTENDS RamDisk, TLAPS

Steps == {"absent", "queue", "register", "alloc", "loaded"}

\* A request inside the capacity, moved sectors of which are done.
Request ==
  [write : BOOLEAN, start : Nat, count : Nat, moved : Nat,
   data : Seq(Value), seg : Nat]
WellFormed(r) ==
  /\ r \in Request
  /\ r.count > 0 /\ r.start + r.count <= capacity
  /\ r.moved <= r.count /\ r.seg \in SegLengths(r.count - r.moved)
  /\ r.data \in [1..r.count -> Value]

Types ==
  /\ pc \in Steps
  /\ diskmb \in Int /\ disk_size \in Int /\ capacity \in Int /\ late \in Nat
  /\ held \in [Resource -> Int]
  /\ users \subseteq Tasks /\ queue \subseteq Tasks /\ cur \in Tasks \cup {None}
  /\ rq \in [Tasks -> Request \cup {Idle}]

\* The memory of the disk is a positive number of whole sectors, less than half
\* the range of int, whatever the parameter.
Sized ==
  /\ pc # "absent" =>
       /\ disk_size > 0 /\ disk_size < IntMod
       /\ disk_size = SectorSize * (disk_size \div SectorSize)
       /\ ramdisk \in [1..(disk_size \div SectorSize) -> Value]
  /\ pc = "absent" => ramdisk = <<>>
  /\ pc = "loaded" => capacity = disk_size \div SectorSize

\* Requests belong to tasks that have the device open; the ones in the queue
\* and the one being served have a segment to move.
Served ==
  /\ pc # "loaded" => users = {}
  /\ \A t \in Tasks : rq[t] # Idle => t \in users /\ WellFormed(rq[t])
  /\ \A t \in queue : rq[t] # Idle /\ rq[t].seg > 0
  /\ cur # None => rq[cur] # Idle /\ rq[cur].seg > 0 /\ cur \notin queue

\* What is held at each point of my_init.
Taken ==
  CASE pc = "absent" -> {} [] pc = "queue" -> {"memory"}
    [] pc = "register" -> {"memory", "queue"}
    [] pc = "alloc" -> {"memory", "queue", "major"}
    [] pc = "loaded" -> Resource
HeldAccounted ==
  held = [r \in Resource |-> (IF r = "queue" THEN late ELSE 0)
                             + (IF r \in Taken THEN 1 ELSE 0)]

RamInv == Types /\ Sized /\ Served /\ HeldAccounted

------------------------------------------------------------------------------
(* Arithmetic                                                              *)

\* Division with remainder.
LEMMA DivMod ==
  ASSUME NEW a \in Int, NEW m \in Nat \ {0}
  PROVE  /\ a % m \in 0..(m - 1) /\ a \div m \in Int
         /\ a = m * (a \div m) + (a % m)
  OBVIOUS

\* Quotient and remainder are determined by such a decomposition.
LEMMA DivModUnique ==
  ASSUME NEW m \in Nat \ {0}, NEW q \in Int, NEW r \in 0..(m - 1)
  PROVE  (m * q + r) % m = r /\ (m * q + r) \div m = q
  OBVIOUS

\* Sectors keep their order in bytes.
LEMMA SectorOrder ==
  ASSUME NEW s \in Nat \ {0}, NEW a \in Int, NEW b \in Int
  PROVE  a <= b <=> a * s <= b * s
  OBVIOUS

\* The constants of the driver, one by one.
LEMMA Widths ==
  /\ IntMod \in Nat \ {0} /\ MB \in Nat \ {0} /\ SectorSize \in Nat \ {0}
  /\ MaxCount \in Nat \ {0}
  /\ \E k \in Nat : IntMod = SectorSize * k
  /\ \E k \in Nat : MB = SectorSize * k
<1>1. /\ IntMod \in Nat \ {0} /\ MB \in Nat \ {0} /\ SectorSize \in Nat \ {0}
      /\ MaxCount \in Nat \ {0}
      /\ IntMod % (2 * SectorSize) = 0 /\ MB % SectorSize = 0
  BY RamAssumption
<1>2. \E k \in Nat : MB = SectorSize * k
  <2>1. MB \div SectorSize \in Int /\ MB = SectorSize * (MB \div SectorSize)
    BY <1>1, DivMod
  <2>2. MB \div SectorSize \in Nat
    BY <1>1, <2>1
  <2> QED
    BY <2>1, <2>2
<1>3. \E k \in Nat : IntMod = SectorSize * k
  <2> DEFINE m == 2 * SectorSize
             q == IntMod \div m
  <2>1. m \in Nat \ {0} /\ IntMod \in Int /\ IntMod % m = 0
    BY <1>1
  <2> HIDE DEF m
  <2>2. q \in Int /\ IntMod = m * q
    BY <2>1, DivMod
  <2>3. q \in Nat
    BY <1>1, <2>1, <2>2
  <2> HIDE DEF q
  <2>4. IntMod = SectorSize * (2 * q) /\ 2 * q \in Nat
    BY <1>1, <2>2, <2>3 DEF m
  <2> QED
    BY <2>4
<1> QED
  BY <1>1, <1>2, <1>3

\* A size that vmalloc accepts has not lost a part of a sector by wrapping.
LEMMA WrapWhole ==
  ASSUME NEW mb \in Int, Wrap(mb * MB) > 0
  PROVE  /\ Wrap(mb * MB) \in Nat /\ Wrap(mb * MB) < IntMod
         /\ Wrap(mb * MB) = SectorSize * (Wrap(mb * MB) \div SectorSize)
         /\ Wrap(mb * MB) \div SectorSize \in Nat \ {0}
<1> DEFINE n == mb * MB
           u == n % IntMod
           q == n \div IntMod
           w == Wrap(n)
<1>0. n \in Int /\ n = mb * MB
  BY Widths
<1> HIDE DEF n
<1>1. u \in 0..(IntMod - 1) /\ q \in Int /\ n = IntMod * q + u
  BY <1>0, DivMod, Widths
<1>2. w = u /\ w > 0 /\ w = Wrap(mb * MB)
  BY <1>0, <1>1, Widths DEF Wrap
<1>3. PICK i \in Nat : IntMod = SectorSize * i
  BY Widths
<1>4. PICK j \in Nat : MB = SectorSize * j
  BY Widths
<1> HIDE DEF u, q, w
<1>5. u = SectorSize * (mb * j - i * q) /\ mb * j - i * q \in Int
  <2>1. n = SectorSize * (mb * j)
    BY <1>0, <1>4, Widths
  <2>2. IntMod * q = SectorSize * (i * q)
    BY <1>1, <1>3, Widths
  <2>3. mb * j \in Int /\ i * q \in Int
    BY <1>1
  <2> QED
    BY <1>0, <1>1, <2>1, <2>2, <2>3, Widths
<1>6. u \div SectorSize = mb * j - i * q
  <2> DEFINE k == mb * j - i * q
  <2>1. k \in Int /\ u = SectorSize * k + 0 /\ 0 \in 0..(SectorSize - 1)
    BY <1>5, Widths
  <2> HIDE DEF k
  <2>2. u \div SectorSize = k
    BY <2>1, DivModUnique, Widths
  <2> QED
    BY <2>2 DEF k
<1>7. u > 0 /\ u < IntMod /\ u \in Nat
  BY <1>1, <1>2, Widths
<1>8. u \div SectorSize \in Nat \ {0}
  BY <1>5, <1>6, <1>7, Widths
<1> QED
  BY <1>2, <1>5, <1>6, <1>7, <1>8

\* A function on 1..n is a sequence of length n.
LEMMA Block ==
  ASSUME NEW V, NEW n \in Nat, NEW f \in [1..n -> V]
  PROVE  f \in Seq(V) /\ Len(f) = n
  OBVIOUS

------------------------------------------------------------------------------
(* The invariant is inductive                                              *)

LEMMA InvInit ==
  ASSUME Init
  PROVE  RamInv
<1>1. Types
  BY DEF Init, Types, Steps, NoIO, Nothing, Resource
<1>2. Sized /\ Served
  BY DEF Init, Sized, Served, NoIO
<1>3. HeldAccounted
  BY DEF Init, HeldAccounted, Taken, Nothing
<1> QED
  BY <1>1, <1>2, <1>3 DEF RamInv

\* No request is under way when nobody has the device open.
LEMMA NoUserNoIO ==
  ASSUME RamInv, users = {}
  PROVE  (\A t \in Tasks : rq[t] = Idle) /\ queue = {} /\ cur = None
  BY DEF RamInv, Served, Types

\* The resources at each step of my_init.
LEMMA LoadAccounted ==
  ASSUME RamInv, MyInit \/ Exit
  PROVE  HeldAccounted' /\ held' \in [Resource -> Int] /\ late' \in Nat
<1> USE DEF RamInv, Types, HeldAccounted, Taken, Resource
<1>1. CASE \E mb \in Params : Vmalloc(mb)
  BY <1>1 DEF Vmalloc, Acquire
<1>2. CASE InitQueue
  BY <1>2 DEF InitQueue, InitStep, Acquire
<1>3. CASE InitQueueFails
  BY <1>3 DEF InitQueueFails, Fail, Release
<1>4. CASE Register
  BY <1>4 DEF Register, InitStep, Acquire
<1>5. CASE RegisterFails
  <2>1. /\ pc = "register" /\ pc' = "absent" /\ late' = late + 1 /\ late \in Int
        /\ held' = [r \in Resource |-> held[r] - (IF r \in {"memory"} THEN 1 ELSE 0)]
    BY <1>5 DEF RegisterFails, Fail, Release
  <2>2. held' = [r \in Resource |-> (IF r = "queue" THEN late' ELSE 0) + 0]
    BY <2>1
  <2> QED
    BY <2>1, <2>2
<1>6. CASE AllocDisk
  BY <1>6 DEF AllocDisk, InitStep, Acquire
<1>7. CASE AllocDiskFails
  <2>1. /\ pc = "alloc" /\ pc' = "absent" /\ late' = late + 1 /\ late \in Int
        /\ held' = [r \in Resource |-> held[r] - (IF r \in {"memory", "major"} THEN 1 ELSE 0)]
    BY <1>7 DEF AllocDiskFails, Fail, Release
  <2>2. held' = [r \in Resource |-> (IF r = "queue" THEN late' ELSE 0) + 0]
    BY <2>1
  <2> QED
    BY <2>1, <2>2
<1>8. CASE Exit
  BY <1>8 DEF Exit, Release
<1> QED
  BY <1>1, <1>2, <1>3, <1>4, <1>5, <1>6, <1>7, <1>8 DEF MyInit

\* The memory and its size at each step of my_init.
LEMMA LoadSized ==
  ASSUME RamInv, MyInit \/ Exit
  PROVE  /\ Sized' /\ pc' \in Steps
         /\ diskmb' \in Int /\ disk_size' \in Int /\ capacity' \in Int
<1> USE DEF RamInv, Types, Sized, Steps
<1>1. ASSUME NEW mb \in Params, Vmalloc(mb)
      PROVE  /\ Sized' /\ pc' \in Steps
             /\ diskmb' \in Int /\ disk_size' \in Int /\ capacity' \in Int
  <2>1. mb \in Int
    BY RamAssumption
  <2>2. Wrap(mb * MB) \in Int
    <3>1. mb * MB \in Int /\ (mb * MB) % IntMod \in Int
      BY <2>1, Widths
    <3> QED
      BY <3>1, Widths DEF Wrap
  <2>3. disk_size' = Wrap(mb * MB) /\ diskmb' = mb /\ capacity' = capacity
    BY <1>1 DEF Vmalloc
  <2>4. CASE UNCHANGED <<pc, ramdisk, held>>
    <3>1. pc = "absent"
      BY <1>1 DEF Vmalloc
    <3> QED
      BY <2>1, <2>2, <2>3, <2>4, <3>1
  <2>5. CASE /\ disk_size' > 0 /\ pc' = "queue"
             /\ ramdisk' \in [1..(disk_size' \div SectorSize) -> Value]
    <3>1. Wrap(mb * MB) > 0
      BY <2>3, <2>5
    <3>2. /\ disk_size' < IntMod
          /\ disk_size' = SectorSize * (disk_size' \div SectorSize)
      BY <2>1, <2>3, <3>1, WrapWhole
    <3> QED
      BY <2>1, <2>2, <2>3, <2>5, <3>2
  <2> QED
    BY <1>1, <2>4, <2>5 DEF Vmalloc
<1>2. CASE InitQueue
  BY <1>2 DEF InitQueue, InitStep, ioVars
<1>3. CASE Register
  BY <1>3 DEF Register, InitStep, ioVars
<1>4. CASE AllocDisk
  <2>1. disk_size \div SectorSize \in Int
    BY Widths
  <2> QED
    BY <1>4, <2>1 DEF AllocDisk, InitStep, ioVars, Sectors
<1>5. CASE InitQueueFails \/ RegisterFails \/ AllocDiskFails
  BY <1>5 DEF InitQueueFails, RegisterFails, AllocDiskFails, Fail
<1>6. CASE Exit
  BY <1>6 DEF Exit
<1> QED
  BY <1>1, <1>2, <1>3, <1>4, <1>5, <1>6 DEF MyInit

\* Loading and unloading leave the tasks alone, none of which has the device
\* open.
LEMMA LoadNoUsers ==
  ASSUME RamInv, MyInit \/ Exit
  PROVE  users = {} /\ UNCHANGED <<users, rq, queue, cur>>
<1>1. CASE MyInit
  BY <1>1 DEF MyInit, Vmalloc, InitQueue, InitQueueFails, Register, RegisterFails,
              AllocDisk, AllocDiskFails, InitStep, Fail, ioVars, RamInv, Served
<1>2. CASE Exit
  BY <1>2 DEF Exit
<1> QED
  BY <1>1, <1>2

LEMMA LoadInv ==
  ASSUME RamInv, MyInit \/ Exit
  PROVE  RamInv'
<1>1. Served'
  BY LoadNoUsers, NoUserNoIO DEF Served, RamInv, Types
<1>2. Types'
  BY LoadNoUsers, LoadAccounted, LoadSized DEF Types, RamInv
<1> QED
  BY <1>1, <1>2, LoadAccounted, LoadSized DEF RamInv

\* Steps of the tasks and of my_request leave the module's own state alone.
LEMMA ModuleKept ==
  ASSUME RamInv, UNCHANGED modVars
  PROVE  /\ HeldAccounted'
         /\ pc' \in Steps /\ diskmb' \in Int /\ disk_size' \in Int
         /\ capacity' \in Int /\ late' \in Nat /\ held' \in [Resource -> Int]
         /\ ramdisk' = ramdisk => Sized'
  BY DEF RamInv, Types, HeldAccounted, Taken, Sized, modVars

LEMMA OpenInv ==
  ASSUME RamInv, NEW t \in Tasks, Open(t)
  PROVE  RamInv'
<1>1. /\ pc = "loaded" /\ users' = users \cup {t} /\ UNCHANGED modVars
      /\ UNCHANGED <<ramdisk, rq, queue, cur>> /\ pc' = pc /\ capacity' = capacity
  BY DEF Open, modVars
<1>2. Types' /\ Served'
  BY <1>1, ModuleKept DEF RamInv, Types, Served, WellFormed
<1> QED
  BY <1>1, <1>2, ModuleKept DEF RamInv

LEMMA CloseInv ==
  ASSUME RamInv, NEW t \in Tasks, Close(t)
  PROVE  RamInv'
<1>1. /\ rq[t] = Idle /\ users' = users \ {t} /\ UNCHANGED modVars
      /\ UNCHANGED <<ramdisk, rq, queue, cur>> /\ pc' = pc /\ capacity' = capacity
  BY DEF Close, modVars
<1>2. Types' /\ Served'
  BY <1>1, ModuleKept DEF RamInv, Types, Served, WellFormed
<1> QED
  BY <1>1, <1>2, ModuleKept DEF RamInv

\* A new request lies inside the capacity and has its first segment.
LEMMA NewRequest ==
  ASSUME RamInv, NEW t \in Tasks, Submit(t)
  PROVE  \E x \in Request : /\ rq' = [rq EXCEPT ![t] = x] /\ WellFormed(x)
                            /\ x.seg > 0 /\ x.moved = 0
<1>1. PICK start \in 0..(capacity - 1), write \in BOOLEAN :
        \E count \in {n \in 1..MaxCount : start + n <= capacity} :
          \E data \in [1..count -> Value], seg \in SegLengths(count) :
            rq' = [rq EXCEPT ![t] = [write |-> write, start |-> start, count |-> count,
                                     moved |-> 0, data |-> data, seg |-> seg]]
  BY DEF Submit
<1>2. PICK count \in {n \in 1..MaxCount : start + n <= capacity} :
        \E data \in [1..count -> Value], seg \in SegLengths(count) :
          rq' = [rq EXCEPT ![t] = [write |-> write, start |-> start, count |-> count,
                                   moved |-> 0, data |-> data, seg |-> seg]]
  BY <1>1
<1>3. PICK data \in [1..count -> Value], seg \in SegLengths(count) :
        rq' = [rq EXCEPT ![t] = [write |-> write, start |-> start, count |-> count,
                                 moved |-> 0, data |-> data, seg |-> seg]]
  BY <1>2
<1> DEFINE x == [write |-> write, start |-> start, count |-> count,
                 moved |-> 0, data |-> data, seg |-> seg]
<1>4. /\ capacity \in Int /\ start \in Nat /\ count \in Nat /\ count > 0
      /\ start + count <= capacity
  BY <1>2, Widths DEF RamInv, Types
<1>5. seg \in Nat /\ seg > 0 /\ seg \in SegLengths(count - 0)
  BY <1>3, <1>4 DEF SegLengths
<1>6. data \in Seq(Value)
  BY <1>4, Block
<1>7. x \in Request
  BY <1>4, <1>5, <1>6 DEF Request
<1>8. WellFormed(x)
  BY <1>4, <1>5, <1>7 DEF WellFormed
<1> QED
  BY <1>3, <1>5, <1>7, <1>8

LEMMA SubmitInv ==
  ASSUME RamInv, NEW t \in Tasks, Submit(t)
  PROVE  RamInv'
<1>1. PICK x \in Request : /\ rq' = [rq EXCEPT ![t] = x] /\ WellFormed(x)
                           /\ x.seg > 0
  BY NewRequest
<1>2. /\ t \in users /\ cur = None /\ queue' = queue \cup {t} /\ UNCHANGED modVars
      /\ UNCHANGED <<ramdisk, users, cur>> /\ pc' = pc /\ capacity' = capacity
  BY DEF Submit, modVars
<1>3. x # Idle
  BY DEF Request, Idle
<1>4. /\ rq' \in [Tasks -> Request \cup {Idle}] /\ rq'[t] = x
      /\ \A u \in Tasks : u # t => rq'[u] = rq[u]
  BY <1>1 DEF RamInv, Types
<1>5. Types'
  BY <1>2, <1>4, ModuleKept DEF RamInv, Types
<1>6. Served'
  BY <1>1, <1>2, <1>3, <1>4 DEF RamInv, Types, Served, WellFormed
<1> QED
  BY <1>2, <1>5, <1>6, ModuleKept DEF RamInv

\* A request without a segment left is neither queued nor being served.
LEMMA AnswerInv ==
  ASSUME RamInv, NEW t \in Tasks, Answer(t)
  PROVE  RamInv'
<1>1. /\ rq' = [rq EXCEPT ![t] = Idle] /\ rq[t].seg = 0 /\ UNCHANGED modVars
      /\ UNCHANGED <<ramdisk, users, queue, cur>> /\ pc' = pc /\ capacity' = capacity
  BY DEF Answer, modVars
<1>2. /\ rq' \in [Tasks -> Request \cup {Idle}] /\ rq'[t] = Idle
      /\ \A u \in Tasks : u # t => rq'[u] = rq[u]
  BY <1>1 DEF RamInv, Types
<1>3. t \notin queue /\ cur # t
  BY <1>1, RamAssumption DEF RamInv, Served
<1>4. Types'
  BY <1>1, <1>2, ModuleKept DEF RamInv, Types
<1>5. Served'
  BY <1>1, <1>2, <1>3 DEF RamInv, Types, Served, WellFormed
<1> QED
  BY <1>1, <1>4, <1>5, ModuleKept DEF RamInv

LEMMA RunQueueInv ==
  ASSUME RamInv, RunQueue
  PROVE  RamInv'
<1>1. /\ cur' \in queue /\ queue' = queue \ {cur'} /\ UNCHANGED modVars
      /\ UNCHANGED <<ramdisk, users, rq>> /\ pc' = pc /\ capacity' = capacity
  BY DEF RunQueue, FetchRequest, modVars
<1>2. Types' /\ Served'
  BY <1>1, ModuleKept DEF RamInv, Types, Served, WellFormed
<1> QED
  BY <1>1, <1>2, ModuleKept DEF RamInv

\* The loaded disk has capacity sectors.
LEMMA DiskSize ==
  ASSUME RamInv, pc = "loaded"
  PROVE  /\ ramdisk \in [1..capacity -> Value] /\ capacity \in Nat \ {0}
         /\ ramdisk \in Seq(Value) /\ Len(ramdisk) = capacity /\ Len(ramdisk) \in Nat
<1>1. /\ ramdisk \in [1..capacity -> Value] /\ capacity = disk_size \div SectorSize
      /\ disk_size > 0 /\ disk_size = SectorSize * capacity
      /\ capacity \in Int /\ disk_size \in Int
  BY DEF RamInv, Types, Sized
<1>2. capacity \in Nat \ {0}
  BY <1>1, Widths
<1> QED
  BY <1>1, <1>2, Block

------------------------------------------------------------------------------
(* One turn of the loop of my_request                                      *)

\* The request being served has a segment to move, inside the capacity.
LEMMA Serving ==
  ASSUME RamInv, cur # None
  PROVE  /\ pc = "loaded" /\ cur \in Tasks /\ rq[cur] \in Request /\ rq[cur] # Idle
         /\ WellFormed(rq[cur])
         /\ rq[cur].seg \in 1..(rq[cur].count - rq[cur].moved)
         /\ Pos(rq[cur]) \in Nat /\ Pos(rq[cur]) + rq[cur].seg <= capacity
<1>1. /\ pc = "loaded" /\ cur \in Tasks /\ rq[cur] \in Request /\ rq[cur] # Idle
      /\ WellFormed(rq[cur]) /\ rq[cur].seg > 0
  BY DEF RamInv, Types, Served
<1> DEFINE r == rq[cur]
<1>2. /\ r.start \in Nat /\ r.count \in Nat /\ r.moved \in Nat /\ r.seg \in Nat
      /\ capacity \in Int
  BY <1>1 DEF Request, RamInv, Types
<1>3. /\ r.seg \in SegLengths(r.count - r.moved) /\ r.start + r.count <= capacity
      /\ r.seg > 0
  BY <1>1 DEF WellFormed
<1> HIDE DEF r
<1>4. r.seg \in 1..(r.count - r.moved)
  BY <1>2, <1>3 DEF SegLengths
<1>5. Pos(r) \in Nat /\ Pos(r) + r.seg <= capacity
  BY <1>2, <1>3, <1>4 DEF Pos
<1> QED
  BY <1>1, <1>4, <1>5 DEF r

\* The byte offset of the segment has not wrapped, the segment ends inside the
\* memory, and the bytes it covers are the ones of its sectors.
LEMMA InPlace ==
  ASSUME RamInv, cur # None
  PROVE  /\ Offset(rq[cur]) \div SectorSize = Pos(rq[cur])
         /\ ~EndOfDevice(rq[cur])
         /\ \A s \in Int : Covers(rq[cur], s) <=>
               s >= Pos(rq[cur]) /\ s < Pos(rq[cur]) + rq[cur].seg
<1> DEFINE r == rq[cur]
           p == Pos(r)
           k == r.seg
           S == SectorSize
           n == disk_size \div SectorSize
<1>1. p \in Nat /\ k \in Nat /\ k > 0 /\ p + k <= capacity
  BY Serving DEF Request
<1>2. /\ S \in Nat \ {0} /\ disk_size = S * n /\ n = capacity /\ disk_size < IntMod
      /\ disk_size \in Int /\ n \in Int /\ IntMod \in Nat \ {0}
  BY Serving, Widths DEF RamInv, Types, Sized
<1>3. Offset(r) = (p * S) % IntMod /\ Bytes(r) = k * S
  BY DEF Offset, Bytes
<1> HIDE DEF r, p, k, S, n
<1>4. p + k <= n /\ p <= p + k - 1 /\ p + k \in Int
  BY <1>1, <1>2
<1>5. (p + k) * S <= n * S /\ n * S = disk_size
  BY <1>2, <1>4, SectorOrder
<1>6. p * S \in Int /\ k * S \in Int /\ p * S >= 0 /\ k * S > 0
      /\ p * S + k * S = (p + k) * S
  BY <1>1, <1>2
<1>7. p * S < IntMod
  BY <1>2, <1>5, <1>6
<1>8. Offset(r) = p * S
  <2> DEFINE a == p * S
  <2>1. a \in 0..(IntMod - 1) /\ IntMod * 0 + a = a
    BY <1>2, <1>6, <1>7
  <2> HIDE DEF a
  <2>2. a % IntMod = a
    BY <1>2, <2>1, DivModUnique
  <2> QED
    BY <1>3, <2>2 DEF a
<1>9. Offset(r) \div S = p
  <2>1. p * S = S * p + 0 /\ 0 \in 0..(S - 1) /\ p \in Int
    BY <1>1, <1>2
  <2>2. (S * p + 0) \div S = p
    BY <1>2, <2>1, DivModUnique
  <2> QED
    BY <1>8, <2>1, <2>2
<1>10. ~EndOfDevice(r)
  <2>1. Offset(r) + Bytes(r) <= disk_size
    BY <1>2, <1>3, <1>5, <1>6, <1>8
  <2>2. Offset(r) + Bytes(r) \in Int
    BY <1>3, <1>6, <1>8
  <2> QED
    BY <1>2, <2>1, <2>2 DEF EndOfDevice
<1>11. ASSUME NEW s \in Int
       PROVE  Covers(r, s) <=> s >= p /\ s < p + k
  <2>1. s * S \in Int
    BY <1>2
  <2>2. s >= p <=> s * S >= p * S
    BY <1>1, <1>2, <1>6, <2>1, SectorOrder
  <2>3. p + k <= s <=> (p + k) * S <= s * S
    BY <1>2, <1>4, SectorOrder
  <2>4. s < p + k <=> s * S < p * S + k * S
    BY <1>4, <1>6, <2>1, <2>3
  <2>5. Covers(r, s) <=> s * S >= Offset(r) /\ s * S < Offset(r) + Bytes(r)
    BY DEF Covers, S
  <2> QED
    BY <1>3, <1>8, <2>2, <2>4, <2>5
<1> QED
  BY <1>9, <1>10, <1>11 DEF r, p, k, S

\* What a turn does: the segment is copied, whole and in place.
LEMMA Turn ==
  ASSUME RamInv, Handle
  PROVE  LET r == rq[cur]
             moves(i) == i >= r.moved + 1 /\ i <= r.moved + r.seg
         IN /\ cur # None
            /\ r.write  => ramdisk' = [i \in 1..Len(ramdisk) |->
                              IF moves(i - r.start) THEN r.data[i - r.start] ELSE ramdisk[i]]
            /\ ~r.write => ramdisk' = ramdisk
            /\ \E seg \in SegLengths(r.count - r.moved - r.seg) :
                 rq' = [rq EXCEPT ![cur] = [r EXCEPT
                   !.data = IF r.write THEN r.data
                            ELSE [i \in 1..r.count |->
                                    IF moves(i) THEN ramdisk[r.start + i] ELSE r.data[i]],
                   !.moved = r.moved + r.seg, !.seg = seg]]
<1> DEFINE r == rq[cur]
           moves(i) == i >= r.moved + 1 /\ i <= r.moved + r.seg
<1>1. cur # None
  BY DEF Handle
<1>2. /\ r.start \in Nat /\ r.moved \in Nat /\ r.seg \in Nat /\ r.count \in Nat
      /\ Pos(r) = r.start + r.moved /\ Pos(r) \in Nat
  BY <1>1, Serving DEF Request, Pos
<1>3. /\ ~EndOfDevice(r) /\ Offset(r) \div SectorSize = Pos(r)
      /\ \A s \in Int : Covers(r, s) <=> s >= Pos(r) /\ s < Pos(r) + r.seg
  BY <1>1, InPlace
<1>4. /\ ramdisk' = IF r.write /\ ~EndOfDevice(r) THEN ToDisk(r) ELSE ramdisk
      /\ \E seg \in SegLengths(r.count - r.moved - r.seg) :
           rq' = [rq EXCEPT ![cur] = [r EXCEPT
                    !.data = IF ~r.write /\ ~EndOfDevice(r) THEN FromDisk(r) ELSE r.data,
                    !.moved = r.moved + r.seg, !.seg = seg]]
  BY DEF Handle
<1> HIDE DEF r
<1>5. Len(ramdisk) \in Nat
  BY <1>1, Serving, DiskSize
<1>6. ToDisk(r) = [i \in 1..Len(ramdisk) |->
                     IF moves(i - r.start) THEN r.data[i - r.start] ELSE ramdisk[i]]
  <2>1. ASSUME NEW i \in 1..Len(ramdisk)
        PROVE  /\ Covers(r, i - 1) <=> moves(i - r.start)
               /\ r.moved + i - (Offset(r) \div SectorSize) = i - r.start
    <3>1. i \in Int /\ i - 1 \in Int
      BY <1>5
    <3>2. Covers(r, i - 1) <=> i - 1 >= Pos(r) /\ i - 1 < Pos(r) + r.seg
      BY <1>3, <3>1
    <3>3. /\ i - 1 >= Pos(r) <=> i - r.start >= r.moved + 1
          /\ i - 1 < Pos(r) + r.seg <=> i - r.start <= r.moved + r.seg
      BY <1>2, <3>1
    <3>4. r.moved + i - Pos(r) = i - r.start
      BY <1>2, <3>1
    <3> QED
      BY <1>3, <3>2, <3>3, <3>4
  <2> HIDE DEF moves
  <2> QED
    BY <2>1 DEF ToDisk
<1>7. FromDisk(r) = [i \in 1..r.count |->
                       IF moves(i) THEN ramdisk[r.start + i] ELSE r.data[i]]
  <2>1. ASSUME NEW i \in 1..r.count
        PROVE  /\ i \in (r.moved + 1)..(r.moved + r.seg) <=> moves(i)
               /\ (Offset(r) \div SectorSize) + i - r.moved = r.start + i
    BY <1>2, <1>3
  <2> HIDE DEF moves
  <2> QED
    BY <2>1 DEF FromDisk
<1> HIDE DEF moves
<1>8. r.write => ramdisk' = [i \in 1..Len(ramdisk) |->
                     IF moves(i - r.start) THEN r.data[i - r.start] ELSE ramdisk[i]]
  BY <1>3, <1>4, <1>6
<1>9. ~r.write => ramdisk' = ramdisk
  BY <1>4
<1>10. \E seg \in SegLengths(r.count - r.moved - r.seg) :
         rq' = [rq EXCEPT ![cur] = [r EXCEPT
                   !.data = IF r.write THEN r.data
                            ELSE [i \in 1..r.count |->
                                    IF moves(i) THEN ramdisk[r.start + i] ELSE r.data[i]],
                   !.moved = r.moved + r.seg, !.seg = seg]]
  <2>1. PICK seg \in SegLengths(r.count - r.moved - r.seg) :
           rq' = [rq EXCEPT ![cur] = [r EXCEPT
                    !.data = IF ~r.write /\ ~EndOfDevice(r) THEN FromDisk(r) ELSE r.data,
                    !.moved = r.moved + r.seg, !.seg = seg]]
    BY <1>4
  <2>2. (IF ~r.write /\ ~EndOfDevice(r) THEN FromDisk(r) ELSE r.data)
        = (IF r.write THEN r.data
           ELSE [i \in 1..r.count |->
                   IF moves(i) THEN ramdisk[r.start + i] ELSE r.data[i]])
    BY <1>3, <1>7
  <2> QED
    BY <2>1, <2>2
<1> QED
  BY <1>1, <1>8, <1>9, <1>10 DEF r, moves

\* After a turn the request is as well formed as before, and has a segment to
\* move unless it is complete.
LEMMA TurnRequest ==
  ASSUME RamInv, Handle
  PROVE  \E x \in Request :
           /\ rq' = [rq EXCEPT ![cur] = x] /\ x # Idle /\ WellFormed(x)
           /\ x.moved = rq[cur].moved + rq[cur].seg
           /\ x.seg = 0 <=> rq[cur].moved + rq[cur].seg = rq[cur].count
           /\ x.seg > 0 \/ x.seg = 0
<1> DEFINE r == rq[cur]
           moves(i) == i >= r.moved + 1 /\ i <= r.moved + r.seg
           d == IF r.write THEN r.data
                ELSE [i \in 1..r.count |-> IF moves(i) THEN ramdisk[r.start + i] ELSE r.data[i]]
<1>1. cur # None
  BY Turn
<1>2. PICK seg \in SegLengths(r.count - r.moved - r.seg) :
        rq' = [rq EXCEPT ![cur] = [r EXCEPT
                 !.data = d, !.moved = r.moved + r.seg, !.seg = seg]]
  BY Turn
<1>3. /\ r \in Request /\ r.seg \in 1..(r.count - r.moved) /\ WellFormed(r)
      /\ pc = "loaded"
  BY <1>1, Serving
<1>4. /\ r.write \in BOOLEAN /\ r.start \in Nat /\ r.count \in Nat /\ r.moved \in Nat
      /\ r.seg \in Nat /\ r.data \in [1..r.count -> Value]
      /\ r.count > 0 /\ r.start + r.count <= capacity /\ capacity \in Int
  BY <1>3 DEF Request, WellFormed, RamInv, Types
<1> DEFINE x == [write |-> r.write, start |-> r.start, count |-> r.count,
                 moved |-> r.moved + r.seg, data |-> d, seg |-> seg]
<1>5. [r EXCEPT !.data = d, !.moved = r.moved + r.seg, !.seg = seg] = x
  <2> DEFINE m == r.moved + r.seg
             y == [r EXCEPT !.data = d, !.moved = m, !.seg = seg]
  <2> HIDE DEF d, m, r
  <2>1. y \in [write : {r.write}, start : {r.start}, count : {r.count},
                moved : {m}, data : {d}, seg : {seg}]
    BY <1>3 DEF Request
  <2> HIDE DEF y
  <2>2. y = [write |-> r.write, start |-> r.start, count |-> r.count,
             moved |-> m, data |-> d, seg |-> seg]
    BY <2>1
  <2> QED
    BY <2>2 DEF m, y
<1>6. d \in [1..r.count -> Value]
  <2>1. ramdisk \in [1..capacity -> Value]
    BY <1>3, DiskSize
  <2>2. ASSUME NEW i \in 1..r.count
        PROVE  (IF moves(i) THEN ramdisk[r.start + i] ELSE r.data[i]) \in Value
    <3>1. r.start + i \in 1..capacity
      BY <1>4
    <3> QED
      BY <1>4, <2>1, <3>1
  <2> HIDE DEF r, moves
  <2> QED
    BY <1>4, <2>2
<1> HIDE DEF r, d
<1>7. d \in Seq(Value)
  BY <1>4, <1>6, Block
<1>8. /\ r.moved + r.seg \in Nat /\ r.moved + r.seg <= r.count /\ seg \in Nat
      /\ r.count - r.moved - r.seg = r.count - (r.moved + r.seg)
      /\ seg > 0 \/ seg = 0
      /\ seg = 0 <=> r.moved + r.seg = r.count
  <2> DEFINE n == r.count - r.moved - r.seg
  <2>1. /\ r.moved + r.seg \in Nat /\ r.moved + r.seg <= r.count /\ n \in Nat
        /\ n = r.count - (r.moved + r.seg) /\ (n = 0 <=> r.moved + r.seg = r.count)
    BY <1>3, <1>4
  <2>2. seg \in SegLengths(n)
    BY <1>2
  <2> HIDE DEF n
  <2>3. seg \in Nat /\ (seg > 0 \/ seg = 0) /\ (seg = 0 <=> n = 0)
    BY <2>1, <2>2 DEF SegLengths
  <2> QED
    BY <2>1, <2>3 DEF n
<1>9. x \in Request
  BY <1>4, <1>7, <1>8 DEF Request
<1>10. WellFormed(x)
  <2>1. seg \in SegLengths(r.count - (r.moved + r.seg))
    BY <1>2, <1>8
  <2> QED
    BY <1>4, <1>6, <1>8, <1>9, <2>1 DEF WellFormed
<1>11. rq' = [rq EXCEPT ![cur] = x]
  BY <1>2, <1>5
<1>12. /\ x # Idle /\ x.moved = r.moved + r.seg
       /\ x.seg > 0 \/ x.seg = 0
       /\ x.seg = 0 <=> r.moved + r.seg = r.count
  BY <1>8 DEF Idle
<1> HIDE DEF x
<1> QED
  BY <1>9, <1>10, <1>11, <1>12 DEF r

\* A turn writes only values into the memory, and leaves its length.
LEMMA TurnDisk ==
  ASSUME RamInv, Handle
  PROVE  ramdisk' \in [1..capacity -> Value] /\ pc = "loaded"
<1> DEFINE r == rq[cur]
           moves(i) == i >= r.moved + 1 /\ i <= r.moved + r.seg
<1>1. /\ cur # None
      /\ r.write  => ramdisk' = [i \in 1..Len(ramdisk) |->
                        IF moves(i - r.start) THEN r.data[i - r.start] ELSE ramdisk[i]]
      /\ ~r.write => ramdisk' = ramdisk
  BY Turn
<1>2. /\ r \in Request /\ r.seg \in 1..(r.count - r.moved) /\ WellFormed(r)
      /\ pc = "loaded"
  BY <1>1, Serving
<1>3. /\ r.start \in Nat /\ r.count \in Nat /\ r.moved \in Nat /\ r.seg \in Nat
      /\ r.data \in [1..r.count -> Value]
  BY <1>2 DEF Request, WellFormed
<1>4. /\ ramdisk \in [1..capacity -> Value] /\ Len(ramdisk) = capacity
      /\ capacity \in Nat
  BY <1>2, DiskSize
<1> HIDE DEF r
<1>5. ASSUME NEW i \in 1..capacity
      PROVE  (IF moves(i - r.start) THEN r.data[i - r.start] ELSE ramdisk[i]) \in Value
  <2>1. moves(i - r.start) => i - r.start \in 1..r.count
    BY <1>2, <1>3, <1>4
  <2> HIDE DEF moves
  <2> QED
    BY <1>3, <1>4, <2>1
<1> HIDE DEF moves
<1> QED
  BY <1>1, <1>2, <1>4, <1>5

LEMMA HandleInv ==
  ASSUME RamInv, Handle
  PROVE  RamInv'
<1>1. PICK x \in Request :
        /\ rq' = [rq EXCEPT ![cur] = x] /\ x # Idle /\ WellFormed(x)
        /\ x.seg > 0 \/ rq[cur].moved + rq[cur].seg = rq[cur].count
  BY TurnRequest
<1>2. cur \in Tasks /\ cur \in users /\ cur \notin queue /\ cur # None /\ pc = "loaded"
  BY Serving DEF Handle, RamInv, Served
<1>3. /\ rq' \in [Tasks -> Request \cup {Idle}] /\ rq'[cur] = x
      /\ \A u \in Tasks : u # cur => rq'[u] = rq[u]
  BY <1>1, <1>2 DEF RamInv, Types
<1>4. /\ UNCHANGED modVars /\ users' = users /\ pc' = pc /\ capacity' = capacity
      /\ disk_size' = disk_size
  BY DEF Handle, modVars
<1>5. /\ cur' \in queue \cup {None} \/ (cur' = cur /\ x.seg > 0)
      /\ queue' = queue \ {cur'}
  <2>1. CASE rq[cur].moved + rq[cur].seg = rq[cur].count
    BY <2>1 DEF Handle, AfterEnd, FetchRequest
  <2>2. CASE rq[cur].moved + rq[cur].seg # rq[cur].count
    BY <1>1, <1>2, <2>2 DEF Handle, AfterEnd
  <2> QED
    BY <2>1, <2>2
<1>6. Types'
  BY <1>2, <1>3, <1>4, <1>5, ModuleKept DEF RamInv, Types
<1>7. Sized'
  BY <1>2, <1>4, TurnDisk DEF RamInv, Sized
<1>8. Served'
  <2>1. ASSUME NEW t \in Tasks, rq'[t] # Idle
        PROVE  t \in users' /\ WellFormed(rq[t])'
    BY <1>1, <1>2, <1>3, <1>4, <2>1 DEF RamInv, Served, WellFormed
  <2>2. ASSUME NEW t \in queue'
        PROVE  rq'[t] # Idle /\ rq'[t].seg > 0
    BY <1>2, <1>3, <1>5, <2>2 DEF RamInv, Types, Served
  <2>3. ASSUME cur' # None
        PROVE  rq'[cur'] # Idle /\ rq'[cur'].seg > 0 /\ cur' \notin queue'
    BY <1>1, <1>2, <1>3, <1>5, <2>3 DEF RamInv, Types, Served
  <2> QED
    BY <1>2, <1>4, <2>1, <2>2, <2>3 DEF Served
<1> QED
  BY <1>4, <1>6, <1>7, <1>8, ModuleKept DEF RamInv

LEMMA InvNext ==
  ASSUME RamInv, [Next]_vars
  PROVE  RamInv'
<1>1. CASE MyInit \/ Exit
  BY <1>1, LoadInv
<1>2. CASE RunQueue
  BY <1>2, RunQueueInv
<1>3. CASE Handle
  BY <1>3, HandleInv
<1>4. ASSUME NEW t \in Tasks, Open(t) \/ Close(t) \/ Submit(t) \/ Answer(t)
      PROVE  RamInv'
  BY <1>4, OpenInv, CloseInv, SubmitInv, AnswerInv
<1>5. CASE UNCHANGED vars
  BY <1>5 DEF vars, modVars, ioVars, RamInv, Types, Sized, Served, WellFormed,
              HeldAccounted, Taken
<1> QED
  BY <1>1, <1>2, <1>3, <1>4, <1>5 DEF Next

------------------------------------------------------------------------------
(* Safety                                                                  *)

\* The driver keeps its invariant, in every load and unload of the module and
\* whatever requests are queued.
THEOREM RamSafety == Spec => []RamInv
  BY InvInit, InvNext, PTL DEF Spec

\* The variables of the driver keep their types, and my_request serves tasks
\* that have the device open only.
THEOREM RamTypes == Spec => []TypeOK
<1>1. ASSUME RamInv
      PROVE  TypeOK
  <2>1. ramdisk \in Seq(Value)
    <3>1. CASE pc = "absent"
      BY <1>1, <3>1 DEF RamInv, Sized
    <3>2. CASE pc # "absent"
      <4>1. disk_size \div SectorSize \in Nat
        BY <1>1, <3>2, Widths DEF RamInv, Types, Sized
      <4> QED
        BY <1>1, <3>2, <4>1, Block DEF RamInv, Sized
    <3> QED
      BY <3>1, <3>2
  <2>2. held \in [Resource -> Nat]
    BY <1>1 DEF RamInv, HeldAccounted, Types
  <2>3. queue \subseteq users /\ cur \in users \cup {None}
    BY <1>1 DEF RamInv, Served, Types
  <2> QED
    BY <1>1, <2>1, <2>2, <2>3 DEF TypeOK, RamInv, Types, Steps
<1> QED
  BY <1>1, RamSafety, PTL

\* The "end of device" branch of my_request is never taken, whatever the
\* parameter and the width of int: a parameter that wraps gives a smaller disk
\* of whole sectors, and its capacity is the one of the memory.
THEOREM RamEndOfDevice == Spec => []EndOfDeviceNever
<1>1. ASSUME RamInv
      PROVE  EndOfDeviceNever
  BY <1>1, Serving, InPlace DEF EndOfDeviceNever
<1> QED
  BY <1>1, RamSafety, PTL

\* Each load of the module that fails after blk_init_queue leaves one request
\* queue behind, and nothing else is ever left behind.
THEOREM RamLeak == Spec => []LeakPerLateFailure
<1>1. ASSUME RamInv
      PROVE  LeakPerLateFailure
  BY <1>1 DEF RamInv, Types, HeldAccounted, Taken, LeakPerLateFailure, Resource
<1> QED
  BY <1>1, RamSafety, PTL

------------------------------------------------------------------------------
(* What the fairness of the block layer needs for every request to end     *)

\* A request that is not answered in full is in the queue or is the one that
\* my_request works on.
NoLostRequest ==
  \A t \in Tasks : rq[t] # Idle /\ rq[t].seg > 0 => t \in queue \/ t = cur

\* Every turn of my_request's loop moves the request on, not past its end.
MovesOn ==
  [][Handle => /\ rq'[cur].moved > rq[cur].moved
               /\ rq'[cur].moved <= rq[cur].count]_vars

LEMMA NoLostNext ==
  ASSUME RamInv, NoLostRequest, [Next]_vars
  PROVE  NoLostRequest'
<1>0. /\ rq \in [Tasks -> Request \cup {Idle}]
      /\ queue \subseteq Tasks /\ cur \in Tasks \cup {None}
  BY DEF RamInv, Types
<1>1. CASE MyInit \/ Exit \/ UNCHANGED vars
  <2>1. UNCHANGED <<rq, queue, cur>>
    BY <1>1 DEF MyInit, Exit, vars, ioVars, Vmalloc, InitQueue, InitQueueFails,
       Register, RegisterFails, AllocDisk, AllocDiskFails, InitStep, Fail
  <2> QED
    BY <2>1 DEF NoLostRequest
<1>2. CASE RunQueue
  <2>1. rq' = rq /\ cur = None /\ cur' \in queue /\ queue' = queue \ {cur'}
    BY <1>2 DEF RunQueue, FetchRequest
  <2> QED
    BY <2>1, RamAssumption DEF NoLostRequest
<1>3. CASE Handle
  <2>1. PICK x \in Request :
          /\ rq' = [rq EXCEPT ![cur] = x]
          /\ x.seg = 0 <=> rq[cur].moved + rq[cur].seg = rq[cur].count
    BY <1>3, TurnRequest
  <2>2. cur \in Tasks /\ cur # None
    BY <1>0, <1>3 DEF Handle
  <2>3. CASE rq[cur].moved + rq[cur].seg = rq[cur].count
    <3>1. cur' \in queue \cup {None} /\ queue' = queue \ {cur'} /\ (queue = {} \/ cur' \in queue)
      BY <1>3, <2>3 DEF Handle, AfterEnd, FetchRequest
    <3>2. rq'[cur] = x /\ x.seg = 0 /\ \A u \in Tasks : u # cur => rq'[u] = rq[u]
      BY <1>0, <2>1, <2>2, <2>3
    <3> QED
      BY <3>1, <3>2 DEF NoLostRequest
  <2>4. CASE rq[cur].moved + rq[cur].seg # rq[cur].count
    <3>1. cur' = cur /\ queue' = queue
      BY <1>3, <2>4 DEF Handle, AfterEnd
    <3>2. \A u \in Tasks : u # cur => rq'[u] = rq[u]
      BY <1>0, <2>1, <2>2
    <3> QED
      BY <3>1, <3>2 DEF NoLostRequest
  <2> QED
    BY <2>3, <2>4
<1>4. ASSUME NEW t \in Tasks, Open(t) \/ Close(t)
      PROVE  NoLostRequest'
  BY <1>4 DEF Open, Close, NoLostRequest
<1>5. ASSUME NEW t \in Tasks, Submit(t)
      PROVE  NoLostRequest'
  <2>1. /\ queue' = queue \cup {t} /\ cur' = cur
        /\ \A u \in Tasks : u # t => rq'[u] = rq[u]
    BY <1>0, <1>5 DEF Submit
  <2> QED
    BY <2>1 DEF NoLostRequest
<1>6. ASSUME NEW t \in Tasks, Answer(t)
      PROVE  NoLostRequest'
  <2>1. /\ queue' = queue /\ cur' = cur /\ rq'[t] = Idle
        /\ \A u \in Tasks : u # t => rq'[u] = rq[u]
    BY <1>0, <1>6 DEF Answer
  <2> QED
    BY <2>1 DEF NoLostRequest
<1> QED
  BY <1>1, <1>2, <1>3, <1>4, <1>5, <1>6 DEF Next

\* The safety part of IOCompletes: my_request drops no request, also one of several
\* segments while others wait.
THEOREM RamNoLostRequest == Spec => []NoLostRequest
<1>1. Init => NoLostRequest
  BY DEF Init, NoIO, NoLostRequest
<1>2. RamInv /\ NoLostRequest /\ [Next]_vars => NoLostRequest'
  BY NoLostNext
<1> QED
  BY <1>1, <1>2, RamSafety, PTL DEF Spec

\* No turn of my_request's loop is without effect: with RamNoLostRequest, a request
\* is ended after at most as many turns as it has sectors.
THEOREM RamMovesOn == Spec => MovesOn
<1> DEFINE A == Handle => /\ rq'[cur].moved > rq[cur].moved
                          /\ rq'[cur].moved <= rq[cur].count
<1>1. ASSUME RamInv, [Next]_vars
      PROVE  [A]_vars
  <2> SUFFICES ASSUME Handle
               PROVE  /\ rq'[cur].moved > rq[cur].moved
                      /\ rq'[cur].moved <= rq[cur].count
    OBVIOUS
  <2>1. PICK x \in Request : /\ rq' = [rq EXCEPT ![cur] = x]
                             /\ x.moved = rq[cur].moved + rq[cur].seg
    BY <1>1, TurnRequest
  <2>2. /\ rq[cur] \in Request /\ rq[cur].seg \in 1..(rq[cur].count - rq[cur].moved)
        /\ cur \in Tasks
    BY <1>1, Serving DEF Handle
  <2>3. rq'[cur].moved = rq[cur].moved + rq[cur].seg
    BY <1>1, <2>1, <2>2 DEF RamInv, Types
  <2> QED
    BY <2>2, <2>3 DEF Request
<1> QED
  BY <1>1, RamSafety, PTL DEF MovesOn, Spec

------------------------------------------------------------------------------
(* Refinement: the driver implements BlockDisk                             *)

\* Changing one request changes what is seen of that one.
LEMMA IoUpdate ==
  ASSUME RamInv, NEW t \in Tasks, NEW x, rq' = [rq EXCEPT ![t] = x]
  PROVE  Io' = [Io EXCEPT ![t] = IF x = Idle THEN Idle ELSE Progress(x)]
<1>1. rq'[t] = x /\ \A u \in Tasks : u # t => rq'[u] = rq[u]
  BY DEF RamInv, Types
<1> DEFINE seen(r) == IF r = Idle THEN Idle ELSE Progress(r)
<1>2. Io = [u \in Tasks |-> seen(rq[u])] /\ Io' = [u \in Tasks |-> seen(rq'[u])]
  BY DEF Io, Progress
<1> HIDE DEF seen
<1>3. Io' = [Io EXCEPT ![t] = seen(x)]
  BY <1>1, <1>2
<1> QED
  BY <1>3 DEF seen

LEMMA RefInit ==
  ASSUME Init
  PROVE  Disk!Init
<1>1. Store = <<>>
  BY DEF Init, Store
<1>2. Io = [t \in Tasks |-> <<>>]
  BY DEF Init, Io, Idle, NoIO
<1> QED
  BY <1>1, <1>2 DEF Disk!Init, Disk!NoIO, Disk!Idle

\* Until add_disk there is no disk; alloc_disk and add_disk attach it.
LEMMA RefMyInit ==
  ASSUME RamInv, MyInit
  PROVE  [Disk!Next]_Disk!vars
<1>1. rq' = rq /\ Io' = Io
  BY LoadNoUsers DEF Io, Progress
<1>2. CASE AllocDisk
  <2> DEFINE n == disk_size \div SectorSize
             m == IntMod \div SectorSize
  <2>1. Store = <<>> /\ Store' = ramdisk
    BY <1>2 DEF AllocDisk, InitStep, ioVars, Store
  <2>2. /\ ramdisk \in [1..n -> Value] /\ disk_size > 0 /\ disk_size < IntMod
        /\ disk_size = SectorSize * n /\ n \in Int /\ disk_size \in Int
    BY <1>2, Widths DEF RamInv, Types, Sized, AllocDisk, InitStep
  <2>3. PICK k \in Nat : IntMod = SectorSize * k
    BY Widths
  <2>4. m = k
    <3>1. IntMod = SectorSize * k + 0 /\ 0 \in 0..(SectorSize - 1)
      BY <2>3, Widths
    <3> QED
      BY <3>1, DivModUnique, Widths
  <2> HIDE DEF n, m
  <2>5. n >= 1 /\ n <= k
    BY <2>2, <2>3, Widths
  <2>6. n \in 1..m
    BY <2>2, <2>4, <2>5
  <2>7. Disk!Attach(n)
    BY <1>1, <2>1, <2>2 DEF Disk!Attach
  <2> QED
    BY <2>6, <2>7 DEF Disk!Next, m
<1>3. CASE ~AllocDisk
  <2>1. pc # "loaded" /\ pc' # "loaded"
    BY <1>3 DEF MyInit, Vmalloc, InitQueue, InitQueueFails, Register, RegisterFails,
                AllocDiskFails, InitStep, Fail
  <2> QED
    BY <1>1, <2>1 DEF Store, Disk!vars
<1> QED
  BY <1>2, <1>3

LEMMA RefExit ==
  ASSUME RamInv, Exit
  PROVE  Disk!Next
<1>1. Io' = Io /\ Io = [t \in Tasks |-> <<>>]
  BY LoadNoUsers, NoUserNoIO DEF Io, Progress, Idle
<1>2. Store' = <<>>
  BY DEF Exit, Store
<1> QED
  BY <1>1, <1>2 DEF Disk!Next, Disk!Detach, Disk!NoIO, Disk!Idle

\* Opening, closing and choosing the next request move no data.
LEMMA RefStutter ==
  ASSUME UNCHANGED <<pc, ramdisk, rq>>
  PROVE  UNCHANGED Disk!vars
  BY DEF Disk!vars, Store, Io, Progress

LEMMA RefSubmit ==
  ASSUME RamInv, NEW t \in Tasks, Submit(t)
  PROVE  Disk!Submit(t)
<1>1. PICK x \in Request : /\ rq' = [rq EXCEPT ![t] = x] /\ WellFormed(x)
                           /\ x.seg > 0 /\ x.moved = 0
  BY NewRequest
<1>2. t \in users /\ rq[t] = Idle /\ pc' = pc /\ ramdisk' = ramdisk /\ pc = "loaded"
  BY DEF Submit, modVars, RamInv, Served
<1>3. Store = ramdisk /\ Store' = Store /\ Io[t] = <<>>
  BY <1>2 DEF Store, Io, Idle
<1>4. Len(Store) = capacity /\ capacity \in Nat
  BY <1>2, <1>3, DiskSize
<1>5. x # Idle
  BY DEF Request, Idle
<1>6. Io' = [Io EXCEPT ![t] = Progress(x)]
  BY <1>1, <1>5, IoUpdate
<1>7. /\ x.start \in Nat /\ x.count \in Nat /\ x.write \in BOOLEAN
      /\ x.data \in [1..x.count -> Value]
      /\ x.count > 0 /\ x.start + x.count <= capacity
  BY <1>1 DEF Request, WellFormed
<1>8. x.start \in 0..(Len(Store) - 1) /\ x.count \in 1..(Len(Store) - x.start)
  BY <1>4, <1>7
<1>9. Io' = [Io EXCEPT ![t] = [write |-> x.write, start |-> x.start,
                               count |-> x.count, moved |-> 0, data |-> x.data]]
  BY <1>1, <1>6 DEF Progress
<1> QED
  BY <1>3, <1>7, <1>8, <1>9 DEF Disk!Submit, Disk!Idle

\* A request without a segment left has been moved in full.
LEMMA RefAnswer ==
  ASSUME RamInv, NEW t \in Tasks, Answer(t)
  PROVE  Disk!Answer(t)
<1>1. /\ rq[t] # Idle /\ rq[t].seg = 0 /\ rq' = [rq EXCEPT ![t] = Idle]
      /\ pc' = pc /\ ramdisk' = ramdisk
  BY DEF Answer, modVars
<1>2. rq[t] \in Request /\ WellFormed(rq[t])
  BY <1>1 DEF RamInv, Types, Served
<1>3. rq[t].moved = rq[t].count
  <2>1. /\ rq[t].moved \in Nat /\ rq[t].count \in Nat /\ rq[t].moved <= rq[t].count
        /\ rq[t].seg \in SegLengths(rq[t].count - rq[t].moved)
    BY <1>2 DEF Request, WellFormed
  <2> QED
    BY <1>1, <2>1 DEF SegLengths
<1>4. Io[t] = Progress(rq[t])
  BY <1>1 DEF Io
<1>5. Io[t] # <<>> /\ Io[t].moved = Io[t].count
  BY <1>3, <1>4 DEF Progress
<1>6. Io' = [Io EXCEPT ![t] = <<>>]
  BY <1>1, IoUpdate DEF Idle
<1>7. Store' = Store
  BY <1>1 DEF Store
<1> QED
  BY <1>5, <1>6, <1>7 DEF Disk!Answer, Disk!Idle

\* A turn of my_request transfers the sectors of one segment.
LEMMA RefHandle ==
  ASSUME RamInv, Handle
  PROVE  Disk!Transfer(cur, rq[cur].seg) /\ rq[cur].seg \in 1..Len(Store)
<1> DEFINE r == rq[cur]
           k == r.seg
           moves(i) == i >= r.moved + 1 /\ i <= r.moved + k
           read == [i \in 1..r.count |-> IF moves(i) THEN ramdisk[r.start + i] ELSE r.data[i]]
           v == Io[cur]
           W == (r.moved + 1)..(r.moved + k)
<1>1. /\ cur # None
      /\ r.write  => ramdisk' = [i \in 1..Len(ramdisk) |->
                        IF moves(i - r.start) THEN r.data[i - r.start] ELSE ramdisk[i]]
      /\ ~r.write => ramdisk' = ramdisk
      /\ \E seg \in SegLengths(r.count - r.moved - k) :
           rq' = [rq EXCEPT ![cur] = [r EXCEPT
             !.data = IF r.write THEN r.data ELSE read,
             !.moved = r.moved + k, !.seg = seg]]
  BY Turn
<1>2. /\ r \in Request /\ r # Idle /\ k \in 1..(r.count - r.moved) /\ WellFormed(r)
      /\ pc = "loaded" /\ cur \in Tasks
  BY <1>1, Serving
<1>3. /\ r.start \in Nat /\ r.count \in Nat /\ r.moved \in Nat /\ k \in Nat
      /\ r.start + r.count <= capacity /\ r.write \in BOOLEAN
  BY <1>2 DEF Request, WellFormed
<1>4. pc' = "loaded" /\ Store = ramdisk /\ Store' = ramdisk'
  BY <1>2 DEF Handle, modVars, Store
<1>5. Len(Store) = capacity /\ capacity \in Nat
  BY <1>2, <1>4, DiskSize
<1>6. k \in 1..Len(Store) /\ k <= r.count - r.moved
  BY <1>2, <1>3, <1>5
<1>7. v = Progress(r) /\ v # <<>>
  BY <1>2 DEF Io, Progress
<1>8. /\ v.write = r.write /\ v.start = r.start /\ v.count = r.count
      /\ v.moved = r.moved /\ v.data = r.data
  BY <1>7 DEF Progress
<1>9. PICK seg : rq' = [rq EXCEPT ![cur] = [r EXCEPT
             !.data = IF r.write THEN r.data ELSE read,
             !.moved = r.moved + k, !.seg = seg]]
  BY <1>1
<1> DEFINE x == [r EXCEPT !.data = IF r.write THEN r.data ELSE read,
                          !.moved = r.moved + k, !.seg = seg]
           d == IF r.write THEN r.data ELSE read
           m == r.moved + k
<1>10. /\ x # Idle /\ x.write = r.write /\ x.start = r.start /\ x.count = r.count
       /\ x.moved = m /\ x.data = d
  <2> DEFINE y == [r EXCEPT !.data = d, !.moved = m, !.seg = seg]
  <2> HIDE DEF d, m, r
  <2>1. y \in [write : {r.write}, start : {r.start}, count : {r.count},
               moved : {m}, data : {d}, seg : {seg}]
    BY <1>2 DEF Request
  <2> HIDE DEF y
  <2>2. /\ y # Idle /\ y.write = r.write /\ y.start = r.start /\ y.count = r.count
        /\ y.moved = m /\ y.data = d
    BY <2>1 DEF Idle
  <2> QED
    BY <2>2 DEF y, d, m
<1>11. Io' = [Io EXCEPT ![cur] = Progress(x)]
  <2> HIDE DEF x
  <2>1. rq' = [rq EXCEPT ![cur] = x]
    BY <1>9 DEF x
  <2> QED
    BY <1>2, <1>10, <2>1, IoUpdate
<1>12. Progress(x) = [write |-> r.write, start |-> r.start, count |-> r.count,
                      moved |-> m, data |-> d]
  <2> HIDE DEF x, d, m, r
  <2> QED
    BY <1>10 DEF Progress
<1> HIDE DEF x
<1>13. CASE r.write
  <2>1. Store' = [i \in 1..Len(Store) |->
                    IF i - r.start \in W THEN r.data[i - r.start] ELSE Store[i]]
    <3>1. ASSUME NEW i \in 1..Len(ramdisk)
          PROVE  moves(i - r.start) <=> i - r.start \in W
      BY <1>3, <1>4, <1>5
    <3> HIDE DEF moves, W, r
    <3> QED
      BY <1>1, <1>4, <1>13, <3>1
  <2>2. Progress(x) = [v EXCEPT !.moved = v.moved + k]
    <3>1. d = r.data
      BY <1>13
    <3> HIDE DEF d, r
    <3> QED
      BY <1>7, <1>8, <1>12, <3>1 DEF Progress
  <2>3. /\ Store' = [i \in 1..Len(Store) |->
                       IF i - v.start \in (v.moved + 1)..(v.moved + k)
                       THEN v.data[i - v.start] ELSE Store[i]]
        /\ Io' = [Io EXCEPT ![cur] = [v EXCEPT !.moved = v.moved + k]]
        /\ v.write /\ v # <<>> /\ k <= v.count - v.moved
    <3> HIDE DEF v, r
    <3> QED
      BY <1>6, <1>7, <1>8, <1>11, <1>13, <2>1, <2>2 DEF W
  <2> QED
    BY ONLY <1>6, <2>3 DEF Disk!Transfer, Disk!Window, Disk!Idle
<1>14. CASE ~r.write
  <2> DEFINE e == [i \in 1..v.count |-> IF i \in (v.moved + 1)..(v.moved + k)
                                        THEN Store[v.start + i] ELSE v.data[i]]
  <2>1. d = e
    <3>1. ASSUME NEW i \in 1..r.count
          PROVE  moves(i) <=> i \in (r.moved + 1)..(r.moved + k)
      BY <1>3
    <3>2. d = read
      BY <1>14
    <3> HIDE DEF moves, r, v, d
    <3> QED
      BY <1>4, <1>8, <3>1, <3>2
  <2>2. Progress(x) = [v EXCEPT !.moved = v.moved + k, !.data = e]
    <3> DEFINE y == [v EXCEPT !.moved = m, !.data = d]
    <3> HIDE DEF d, r, m
    <3>1. y = [write |-> r.write, start |-> r.start, count |-> r.count,
               moved |-> m, data |-> d]
      <4>1. v \in [write : {r.write}, start : {r.start}, count : {r.count},
                    moved : {r.moved}, data : {r.data}]
        BY <1>7 DEF Progress
      <4> HIDE DEF v
      <4>2. y \in [write : {r.write}, start : {r.start}, count : {r.count},
                    moved : {m}, data : {d}]
        BY <4>1
      <4> HIDE DEF y
      <4> QED
        BY <4>2
    <3> HIDE DEF y
    <3>2. Progress(x) = y
      BY <1>12, <3>1
    <3> HIDE DEF e, v
    <3> QED
      BY <1>8, <2>1, <3>2 DEF y, m
  <2>3. /\ Store' = Store
        /\ Io' = [Io EXCEPT ![cur] = [v EXCEPT !.moved = v.moved + k, !.data = e]]
        /\ ~v.write /\ v # <<>> /\ k <= v.count - v.moved
    <3>1. Store' = Store
      BY <1>1, <1>4, <1>14
    <3> HIDE DEF v, r, e
    <3> QED
      BY <1>6, <1>7, <1>8, <1>11, <1>14, <2>2, <3>1
  <2> QED
    BY ONLY <1>6, <2>3 DEF Disk!Transfer, Disk!Window, Disk!Idle
<1> QED
  BY <1>3, <1>6, <1>13, <1>14

LEMMA RefNext ==
  ASSUME RamInv, [Next]_vars
  PROVE  [Disk!Next]_Disk!vars
<1>1. CASE MyInit
  BY <1>1, RefMyInit
<1>2. CASE Exit
  BY <1>2, RefExit
<1>3. CASE RunQueue \/ (\E t \in Tasks : Open(t) \/ Close(t)) \/ UNCHANGED vars
  <2>1. UNCHANGED <<pc, ramdisk, rq>>
    BY <1>3 DEF RunQueue, Open, Close, vars, modVars, ioVars
  <2> QED
    BY <2>1, RefStutter
<1>4. CASE Handle
  <2>1. cur \in Tasks
    BY <1>4, Serving DEF Handle
  <2> QED
    BY <1>4, <2>1, RefHandle DEF Disk!Next
<1>5. ASSUME NEW t \in Tasks, Submit(t) \/ Answer(t)
      PROVE  Disk!Next
  BY <1>5, RefSubmit, RefAnswer DEF Disk!Next
<1> QED
  BY <1>1, <1>2, <1>3, <1>4, <1>5 DEF Next

\* The request function implements the disk: segment by segment and with other
\* requests waiting, every sector of a request is moved once, to its place, and
\* no request is answered before all of it has been moved.
THEOREM RamImplementsDisk == Spec => ImplementsDisk
  BY RefInit, RefNext, RamSafety, PTL DEF Spec, ImplementsDisk, Disk!Spec
==============================================================================
