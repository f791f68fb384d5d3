-------------------------------- MODULE RamDisk --------------------------------
(***************************************************************************)
(* exp4/exp_4_2_original.c: a disk in vmalloc'ed memory, served by a       *)
(* request function of the single-queue block layer.                       *)
(*                                                                         *)
(* The contents of memory are kept by sector, sizes and offsets are in     *)
(* bytes.  A request is made of segments, and my_request moves one segment *)
(* per turn of its loop: seg is the length of the segment to move next, 0  *)
(* when none is left.  It runs under the queue lock, so requests enter the *)
(* queue only between two runs of it.  The geometry ioctl changes no state.*)
(***************************************************************************)
EXTENDS Integers, Sequences, DriverResources

CONSTANTS Tasks, Value,
          Params,      \* values of the module parameter size (diskmb)
          IntMod,      \* 2^32: int and unsigned arithmetic wraps
          MB,          \* 1024 * 1024
          SectorSize,  \* sector_size: 512
          MaxCount,    \* sectors of the largest request (max_sectors)
          MaxQueues,   \* bound on request queues, lost ones included
          None

ASSUME RamAssumption ==
  /\ Params \subseteq Int
  /\ {IntMod, MB, SectorSize, MaxCount, MaxQueues} \subseteq Nat \ {0}
  /\ IntMod % (2 * SectorSize) = 0 /\ MB % SectorSize = 0
  /\ None \notin Tasks

VARIABLES pc,         \* where my_init is, absent or loaded
          diskmb,     \* the parameter of this load
          disk_size,  \* in bytes, a 32-bit int
          ramdisk,    \* contents: sector s is ramdisk[s + 1]
          capacity,   \* of the gendisk, in sectors
          held,       \* kernel resources: how many of each are in use
          late,       \* history: loads that failed after blk_init_queue
          users,      \* tasks that have the device open
          rq,         \* per task: its request, or Idle
          queue,      \* tasks whose request is in the request queue
          cur         \* task whose request my_request works on, or None

modVars == <<pc, diskmb, disk_size, capacity, held, late>>
ioVars == <<ramdisk, users, rq, queue, cur>>
vars == <<modVars, ioVars>>

Idle == <<>>
NoIO == [t \in Tasks |-> Idle]

Init ==
  /\ pc = "absent" /\ diskmb = 0 /\ disk_size = 0 /\ capacity = 0 /\ late = 0
  /\ held = Nothing
  /\ ramdisk = <<>> /\ users = {} /\ rq = NoIO /\ queue = {} /\ cur = None

------------------------------------------------------------------------------
(* my_init, one step per call that can fail, and my_exit                   *)

\* The kernel is built so that int arithmetic wraps.
Wrap(n) == LET u == n % IntMod IN IF 2 * u < IntMod THEN u ELSE u - IntMod

\* An error path: the resources S are given back, my_init returns an error.
Fail(at, S) ==
  /\ pc = at /\ pc' = "absent" /\ held' = Release(held, S) /\ ramdisk' = <<>>
  /\ UNCHANGED <<diskmb, disk_size, capacity, users, rq, queue, cur>>

\* disk_size = diskmb * 1024 * 1024; vmalloc refuses zero, and a negative
\* size, which it takes for a huge one; fresh memory holds anything.
Vmalloc(mb) ==
  /\ pc = "absent"
  /\ diskmb' = mb /\ disk_size' = Wrap(mb * MB)
  /\ \/ UNCHANGED <<pc, ramdisk, held>>
     \/ /\ disk_size' > 0
        /\ pc' = "queue" /\ held' = Acquire(held, {"memory"})
        /\ ramdisk' \in [1..(disk_size' \div SectorSize) -> Value]
  /\ UNCHANGED <<capacity, late, users, rq, queue, cur>>

InitStep(at, to, S) ==
  /\ pc = at /\ pc' = to /\ held' = Acquire(held, S)
  /\ UNCHANGED <<diskmb, disk_size, late>> /\ UNCHANGED ioVars

InitQueue ==
  /\ held["queue"] < MaxQueues
  /\ InitStep("queue", "register", {"queue"}) /\ UNCHANGED capacity
InitQueueFails == Fail("queue", {"memory"}) /\ UNCHANGED late

Register == InitStep("register", "alloc", {"major"}) /\ UNCHANGED capacity
RegisterFails == Fail("register", {"memory"}) /\ late' = late + 1

\* Mutant: the capacity is what the user asked for.
SectorsAsked == (diskmb * MB) \div SectorSize
\* disk_size / sector_size
Sectors == disk_size \div SectorSize

\* alloc_disk, set_capacity, add_disk.
AllocDisk == InitStep("alloc", "loaded", {"disk"}) /\ capacity' = Sectors

\* Mutant: the major number stays registered.
AllocDiskFailsRegistered == Fail("alloc", {"memory"}) /\ late' = late + 1
AllocDiskFails == Fail("alloc", {"memory", "major"}) /\ late' = late + 1

\* rmmod; an open device keeps the module (fops.owner).
Exit ==
  /\ pc = "loaded" /\ users = {}
  /\ pc' = "absent" /\ held' = Release(held, Resource)
  /\ ramdisk' = <<>> /\ capacity' = 0
  /\ UNCHANGED <<diskmb, disk_size, late, users, rq, queue, cur>>

------------------------------------------------------------------------------
(* Tasks and the block layer (external)                                    *)

Open(t) ==
  /\ pc = "loaded" /\ t \notin users
  /\ users' = users \cup {t}
  /\ UNCHANGED modVars /\ UNCHANGED <<ramdisk, rq, queue, cur>>

Close(t) ==
  /\ t \in users /\ rq[t] = Idle
  /\ users' = users \ {t}
  /\ UNCHANGED modVars /\ UNCHANGED <<ramdisk, rq, queue, cur>>

\* The length of the next segment when n sectors are left.
SegLengths(n) == IF n = 0 THEN {0} ELSE 1..n

\* The block layer refuses a request that ends past the capacity.
Submit(t) ==
  /\ t \in users /\ rq[t] = Idle /\ cur = None
  /\ \E start \in 0..(capacity - 1), write \in BOOLEAN :
       \E count \in {n \in 1..MaxCount : start + n <= capacity} :
         \E data \in [1..count -> Value], seg \in SegLengths(count) :
           rq' = [rq EXCEPT ![t] = [write |-> write, start |-> start, count |-> count,
                                    moved |-> 0, data |-> data, seg |-> seg]]
  /\ queue' = queue \cup {t}
  /\ UNCHANGED modVars /\ UNCHANGED <<ramdisk, users, cur>>

\* The last segment has been ended: the task goes on.
Answer(t) ==
  /\ rq[t] # Idle /\ rq[t].seg = 0
  /\ rq' = [rq EXCEPT ![t] = Idle]
  /\ UNCHANGED modVars /\ UNCHANGED <<ramdisk, users, queue, cur>>

\* blk_fetch_request: the elevator picks, and None says the queue is empty.
FetchRequest ==
  /\ cur' \in (IF queue = {} THEN {None} ELSE queue)
  /\ queue' = queue \ {cur'}

------------------------------------------------------------------------------
(* my_request                                                              *)

\* The block layer calls my_request: its first blk_fetch_request.
RunQueue ==
  /\ cur = None /\ queue # {} /\ FetchRequest
  /\ UNCHANGED modVars /\ UNCHANGED <<ramdisk, users, rq>>

\* Mutant: the position is taken once, before the loop.
PosFirst(r) == r.start
\* blk_rq_pos
Pos(r) == r.start + r.moved

\* ptr - ramdisk and size, in bytes, and the sectors they stand for.
Offset(r) == (Pos(r) * SectorSize) % IntMod
Bytes(r) == r.seg * SectorSize
EndOfDevice(r) == Offset(r) + Bytes(r) > disk_size
Covers(r, s) == s * SectorSize >= Offset(r) /\ s * SectorSize < Offset(r) + Bytes(r)

\* memcpy: ramdisk[s + 1] and data[d + 1] move together.
ToDisk(r) ==
  [i \in 1..Len(ramdisk) |->
     IF Covers(r, i - 1)
     THEN r.data[r.moved + i - (Offset(r) \div SectorSize)] ELSE ramdisk[i]]
FromDisk(r) ==
  [i \in 1..r.count |->
     IF i \in (r.moved + 1)..(r.moved + r.seg)
     THEN ramdisk[(Offset(r) \div SectorSize) + i - r.moved] ELSE r.data[i]]

\* Mutant: fetches whether or not the request has more segments.
AfterEndAlways(r) == FetchRequest
\* __blk_end_request_cur returns false at the last segment.
AfterEnd(r) == IF r.moved + r.seg = r.count THEN FetchRequest ELSE UNCHANGED <<cur, queue>>

\* One turn of the loop.  Past the end of the device nothing is copied, and
\* the segment is ended with the same res = 0.
Handle ==
  LET r == rq[cur] IN
  /\ cur # None
  /\ ramdisk' = IF r.write /\ ~EndOfDevice(r) THEN ToDisk(r) ELSE ramdisk
  /\ \E seg \in SegLengths(r.count - r.moved - r.seg) :
       rq' = [rq EXCEPT ![cur] = [r EXCEPT
                !.data = IF ~r.write /\ ~EndOfDevice(r) THEN FromDisk(r) ELSE r.data,
                !.moved = r.moved + r.seg, !.seg = seg]]
  /\ AfterEnd(r)
  /\ UNCHANGED modVars /\ UNCHANGED users

------------------------------------------------------------------------------
MyInit ==
  \/ \E mb \in Params : Vmalloc(mb)
  \/ InitQueue \/ InitQueueFails \/ Register \/ RegisterFails
  \/ AllocDisk \/ AllocDiskFails

Next ==
  \/ MyInit \/ Exit \/ RunQueue \/ Handle
  \/ \E t \in Tasks : Open(t) \/ Close(t) \/ Submit(t) \/ Answer(t)

\* my_request runs to its end once called, and the block layer calls it as
\* long as requests wait.
Fairness == WF_vars(RunQueue) /\ WF_vars(Handle)

Spec == Init /\ [][Next]_vars /\ Fairness

------------------------------------------------------------------------------
(* Properties                                                              *)

\* The variables of the driver keep their types, and only a task that has the
\* device open is in the queue or being served by my_request.
TypeOK ==
  /\ pc \in {"absent", "queue", "register", "alloc", "loaded"}
  /\ diskmb \in Int /\ disk_size \in Int /\ capacity \in Int /\ late \in Nat
  /\ held \in [Resource -> Nat]
  /\ ramdisk \in Seq(Value) /\ users \subseteq Tasks
  /\ queue \subseteq users /\ cur \in users \cup {None}

\* my_request never takes the "end of device" branch, which would report
\* success (res is always 0) for data it did not copy: a request that the
\* block layer lets through against the capacity also passes the test against
\* disk_size, for every value of the parameter, the ones that wrap included.
EndOfDeviceNever == cur # None => pc = "loaded" /\ ~EndOfDevice(rq[cur])

\* Without the module nothing of it is left but the request queues of loads
\* that failed after blk_init_queue, one for each: the two later error paths
\* of my_init do not clean the queue up.
LeakPerLateFailure ==
  /\ pc = "absent" => held = [r \in Resource |-> IF r = "queue" THEN late ELSE 0]
  /\ pc = "loaded" => held = [r \in Resource |-> IF r = "queue" THEN late + 1 ELSE 1]

\* What a user of the disk sees: its contents, and how far each request is.
Store == IF pc = "loaded" THEN ramdisk ELSE <<>>
Progress(r) == [write |-> r.write, start |-> r.start, count |-> r.count,
                moved |-> r.moved, data |-> r.data]
Io == [t \in Tasks |-> IF rq[t] = Idle THEN Idle ELSE Progress(rq[t])]
Disk == INSTANCE BlockDisk WITH
  MaxSize <- IntMod \div SectorSize, store <- Store, io <- Io

\* The request function implements the disk: requests of several segments,
\* served while others wait, move each sector once, in place and in order.
ImplementsDisk == Disk!Spec

\* Every submitted request is answered in full, whichever the elevator picks
\* first: my_request ends a request before it fetches another one.
IOCompletes ==
  \A t \in Tasks : (rq[t] # Idle) ~> (rq[t] # Idle /\ rq[t].seg = 0)
==============================================================================
