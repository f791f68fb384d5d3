# Verification of grade15.1Linux

The repository is a set of operating-system course works: a small file system
module, `myfs` (`src/course_design`), with its user programs, and four series of
exercises (`src/exp1` .. `src/exp4`): processes and threads, an mmap driver, a
`/proc` file, a character device and two RAM disks. There is no test suite beyond
the programs in `course_design`. This directory holds TLA+ models of the parts
that have state and concurrency, the TLC configurations that check them and
TLAPS proofs about each of them.

Everything is checked with TLC 1.7.4 and TLAPS 1.4.5:

    tlc -workers 2 -config MyFsTree.cfg MCMyFsTree      # a run
    tlapm MyFsFifoProofs.tla                            # a proof module

## Inventory

| part | source | state | operations | module |
|---|---|---|---|---|
| myfs data path | `myfs_kernel.c` 183-208 | one 64-byte `kfifo` for all files | `read`, `write` | `MyFsFifo`, `ByteQueue` |
| myfs open/release | `myfs_kernel.c` 148-222 | a heap `myfs_file_info` per open description | `open`, `release` | `MyFsOpen` |
| myfs tree and module | `myfs_kernel.c` 27-144, 224-379 | super block, dentries, link counts, `myfs_mount` | init, exit, mount, create | `MyFsTree` |
| myfs test programs | `test1.c`, `test2.c`, `test*rdonly.c` | program counter | open, write, read, close | `MyFsTests` |
| shared counter | `exp1.4.c`, `exp3.2.c` | semaphore, `sharedData` | two threads, main | `SharedCounter` |
| pipe demo | `exp1.5.c` | pipe, record lock, children | fork, write, wait, read | `PipeDemo` |
| mmap driver | `map_driver.c` | vmalloc area, mappings, page tables | init, exit, mmap, fault | `MapDriver` |
| proc file | `exp3.1.c` | `PROC_MSG`, `finished`, two proc entries | init, exit, read, write | `ProcHello` |
| RAM disk (request_fn) | `exp_4_2_original.c` (and its commented copy `exp_4_2_ramdisk_driver.c`) | disk memory, size, request queue | request loop, init, exit | `RamDisk`, `BlockDisk` |
| RAM disk (blk-mq) | `exp_4_2.c` | disk memory, major number, queue | init, up to the call it dies in | `BlkMq` |
| character device | `exp4_1_kernel.c`, `exp4.1.user.c` | cdev, device number | init, exit, open | `CharDev` |
| task list | `exp1_8.c` | the kernel's task list, a count | one walk | `TaskList` |
| list echo | `exp2.3.cpp` | a linked list | read, print | not modelled |
| the rest | `exp1.1`-`1.3`, `1.6`, `exp2.1`, `2.2`, `exp4_2_evil.c` | none of their own | print, exec, load a file | not modelled |

How they interact. `myfs_init` registers the type, mounts it and creates two
directories with two files each; every file has `myfs_file_operations`, whose
`read` and `write` go to the same fifo, and whose `open` allocates the info that
`release` frees. The test programs use the files from user space, any number at a
time. The exercises are independent of myfs and of each other. The two RAM disks
are two versions of one exercise. The first is called by the block layer, which takes
requests from tasks, and registers itself with it in its init; the second does not
get that far.

What is hard. The fifo is used without a lock, by calls that read its counters,
copy, and then move a counter. Open checks permission twice with a sleeping
allocation in between. `myfs_init` goes on after most failures and publishes the
file system before it is complete. The semaphore is destroyed while nothing but
the joins says the threads are through. The mmap driver is told nothing when the
kernel splits, grows, copies or protects a mapping. `proc_read` keeps its end-of-file state
in one variable for all readers. The request function of the first RAM disk
completes requests piece by piece, and its size is computed in an `int` that wraps;
the second one hands the block layer a `tag_set` that was never allocated. Three
inits have error paths that forget something. The task list changes under the
module that walks it. PROJECT.json lists each of these, and the others,
under `hazards`, with the properties that watch them.

## The modules

Each module's comments name the code its actions stand for, and `map` in
PROJECT.json gives the lines. Definitions whose comment says `Mutant:` are not
part of the model. Each is a plausible mistake in the definition that follows it,
and exists to show that a property notices it.

**MyFsFifo** - `mydemo_fifo` with its free-running counters `in` and `out`, which
wrap at `Size * Wraps` (2^32 in the code), and the calls on it. An actor is an open
description, on which the kernel runs one call at a time; calls on different
descriptions interleave. A call is three steps, at the places where kfifo touches
shared memory: `WriteStart`/`ReadStart` clamp the length against the counters,
`WriteCopy`/`ReadCopy` copy (the user's page may fault after any number of bytes;
`copy_from_user` then zeroes the rest of the piece it was copying),
`WriteCommit`/`ReadCommit` move the counter and return the count or `-EIO`. The
history variable `raced` is set once two writes or two reads overlap.
kfifo is the kernel's; it is modelled from how the handlers use it.

**ByteQueue** - what that channel promises: one bounded queue of bytes, with
atomic reads and writes, void once two calls of a kind have overlapped.
`MyFsFifo!ImplementsQueue` maps the queue to the bytes between `out` and `in`.

**MyFsTests** extends MyFsFifo with the user programs: open, write, compare the
result with the message length, read up to twice the length, close.

**MyFsOpen** - an open is the kernel's path walk and access check (`VfsOpen`), the
allocation (`AllocInfo`, into memory that holds garbage), and the module's own
check (`CheckPasses`, `CheckDenies`). Root may `Chmod` between any two. `Dup` and
`Close` count descriptors, and the last close is `myfs_file_release`. `build`
tells the two versions of the module apart: `myfs_kernel_ubuntu.c` has the check
commented out and other file modes.

**MyFsTree** - `myfs_init` step by step, with every call failing or not, the
creation of an inode and the later assignment of `i_fop` as two steps, `myfs_exit`,
and users who mount, open, close and unmount in between. `mount_single` keeps one
super block for all mounts, and a super block pins the module.

**SharedCounter** - both programs: `N` threads with a limit each; `sharedData++` is
a load and a store; `pthread_create` may fail, and the join of a thread that was
never created may return or crash.

**PipeDemo** - the parent and its children; `pipe` and `fork` may fail, and the
program does not look. After a failed `pipe` the array `fd` is indeterminate: each
`lockf`, `write` and `read` on it may fail, do something elsewhere, or block for ever
(`Lock`, `WriteAstray`, `ReadAstray`).

**MapDriver** - init and exit, open, mmap with its three checks, the fault handler,
and what the kernel does to a mapping (a VMA) without asking the driver: a call on a
part of it splits it in two (`Split`), and then, or on the whole, `Munmap`, `Mremap`,
`Mprotect`, `Discard` and `Fork`. A part knows by `first` (`vm_pgoff`) which page of
the file it begins with; `map_fault` counts from `vm_start` instead (`PageOff`).

**ProcHello** - load and unload, `proc_read` in the steps in which it uses
`finished` and `PROC_MSG`, `proc_write` a byte at a time with faults, which zero what
was not copied. Readers open the file any number of times, read it to its end or give
up before. Unloading waits for calls in progress and not for files to be closed; a
file that is still open is then `gone` and its next read fails.

**RamDisk** - `my_init` one failing call at a time, with the parameter `diskmb` and
`disk_size` in wrapping `int` arithmetic; `my_exit`; tasks that open, submit and
close; and `my_request`. A request consists of segments, and one turn of the loop
(`Handle`) moves one: `Pos`, `Offset` and `Bytes` are what the code computes, in
bytes and modulo 2^32, `EndOfDevice` is its range test, `AfterEnd` its decision to
keep the request or fetch another. The queue lock is held throughout
`my_request`, so `Submit` waits for `cur = None`. What the block layer does (range
check against the capacity, segments, choice of the next request) is external.
The copy `exp_4_2_ramdisk_driver.c` has the same code with more comments and
calls `blk_get_request` and `blk_put_queue` where the original fetches a request
and creates the queue, which the kernel's headers do not allow; only the original is
modelled.

**BlockDisk** - what a disk promises: the sectors of a request are moved in order,
some at a time, each time atomically. `RamDisk!ImplementsDisk` maps the store to
the memory of a loaded driver, and requests to requests without their segments.

**BlkMq** - `exp_4_2_init` call by call, as far as it comes. It gives
`blk_mq_init_queue` a `tag_set` whose tags and map are NULL, because
`blk_mq_alloc_tag_set` was never called. Unless it fails for want of memory, the call
dereferences them and insmod dies in it, so that no later line of init, neither
`requestHandler` nor `exp_4_2_exit`, is ever executed.

**DriverResources** - the four things both drivers take from the kernel, counted.

**TaskList** - the list by its next pointers; `Visit` is one turn of
`list_for_each`. Other processors append tasks at the tail and unlink tasks, which
keep their own link. While the walk runs with interrupts off (`IrqsOff`) a task
unlinked since stays in `limbo` and its memory is not used again.

**CharDev** - `device_init` call by call, `device_exit`, users and other drivers.
The value that `device_init` returns after a failed `cdev_alloc` is indeterminate:
either outcome of insmod is possible.

The `MC...` modules give TLC the constants that a cfg cannot write.

## The runs

| run | what it checks | result |
|---|---|---|
| `fifo_shared` | `TypeOK`, `RingIntact`, `ReadIntact`, `WriteIntact`, `ImplementsQueue` | holds |
| `tests_room` | `NoWrongWrite`, `DrainedAtEnd`, `TestsTerminate` | holds |
| `open` | `TypeOK`, `InfoOwnership`, `LeakPerDenial`, `RdWrOnlyByRace` | holds |
| `tree` | `NlinkMatches`, `ServedOnceLoaded`, `StrayOnlyAfterDirFailure`, `ModuleOutlivesSuperBlock`, `EntriesStay` | holds |
| `counter` | `NoLostUpdate`, `FinalValue`, `DestroyedUnused`, `ProgramEnds` | holds |
| `pipe` | `BothReceived`, `ReadNeverBlocks`, `ParentEnds` | holds |
| `map` | `PagesBacked`, `WrongPageOnlyAfterSplit` | holds |
| `proc` | `MsgTerminated`, `LoneReaderGetsOnce`, `DirLeftOnlyByFailure`, `ReadersEnd` | holds |
| `ramdisk` | `EndOfDeviceNever`, `LeakPerLateFailure`, `ImplementsDisk`, `IOCompletes` | holds |
| `blkmq` | `LeftBehind` | holds |
| `tasks` | `ResidentCountedOnce`, `CountedLived` | holds |
| `chardev` | `LoadedOwnsRegion` | violated |

What they show:

- **fifo_shared**: two descriptions that both read and write a two-byte ring, with
  counters that wrap at four, two byte values and counts up to three: full, empty,
  wrapped and faulting calls, with all interleavings. A lock-free kfifo is safe for
  one reader and one writer at a time, and exactly that is shown: until calls of one
  kind overlap, no byte is lost, repeated or reordered, and each call takes effect
  at one instant. The constraint `Undamaged` stops exploring after an overlap,
  where the properties promise nothing.
- **tests_room**: three copies of test1/test2 and a read-only one in a ring with
  room for their messages. No write comes back short, the fifo ends up empty, and
  every program ends. With less room than the messages need, a program prints
  "wrong write": all files share the 64 bytes.
- **open**: each open description owns one allocated info whatever is duplicated
  and closed; one info is lost for each refused open, and on no other path; in the
  build that checks, a user other than root has the file open for reading and
  writing only if the modes changed in the middle of the open. That is because the
  check is the wrong way round: it refuses a user whom `inode_permission` admits.
- **tree**: whichever creations fail, link counts match, no file stays without
  operations once the module is loaded, nothing is replaced, files stray into
  the root only after a directory failed, and the module outlives the super block.
  The last holds only because `myfs_init` returns 0 when `kern_mount` fails: the
  module counts as loaded without a mount of its own. Reported, the failure would
  free the module under a mount that a user made in between.
- **counter**: no increment is lost, the result is the largest limit of the
  threads that exist, the semaphore is destroyed unused, and the program ends. That it
  ends is what `exp1.4.c` should do, and not what is asked of `exp3.2.c`:
  `src/README.md:31` wants a program with an endless loop at its end
  (`并在结尾设定一个死循环`), to run in the background while `/proc` is read. The code
  has no such loop.
- **pipe**: without a failed pipe or fork both messages arrive, no read blocks and the
  parent ends. After a failed fork a read can block on the empty pipe, after a failed
  pipe any call can block on whatever `fd` happens to name. The
  exercise asks for the first child's message first; `wait(0)` reaps either child,
  and the order is that of the writes.
- **map**: page table entries always point into the allocated area. A mapping that
  begins where `mmap` put it shows the pages in order, whatever is done to it. A part
  that a split made begin at page `first` of the file (its front was unmapped or
  protected differently, say) shows pages up to `first` places too early, since
  `map_fault` leaves `vm_pgoff` out: with `first = 1` a page faulted in after the split
  is the one before the right one, and the pages faulted in earlier stay right.
- **proc**: the buffer always holds a terminator, and as long as readers take turns,
  none gives up, gets `-EFAULT` or finds the message empty, each gets the message
  once, through loads and concurrent writes. Two readers that overlap may leave one of
  them with an empty file, hence the condition. A reader comes to the end of the file
  unless another takes it for ever: one that opens the file again and again can find
  `finished` set each time before the first one sees it, hence the exception in
  `ReadersEnd`. A write between the copy and the second `strlen` of `proc_read` makes
  it return another length than it copied; nothing but this observation is stated of
  that.
- **ramdisk**: sizes that fit, turn negative or zero, and wrap to a small size.
  `vmalloc`, the capacity and the range test all use the wrapped value, so the
  branch that reports success without copying is never taken, and the driver is a
  disk. Requests of several segments are answered in full although others wait,
  and the elevator may pick in any order. Each load that fails in
  `register_blkdev` or `alloc_disk` leaves a request queue behind. A load of 4097 MB
  announces that capacity and provides 1 MB.
- **blkmq**: the driver never becomes a disk. Loads that fail leave the memory, and
  after a failed `blk_mq_init_queue` the major number; a load that reaches the
  `tag_set` dies and leaves memory, major number and queue to a module that can be
  neither unloaded nor loaded again.
- **tasks**: whoever exists throughout the walk is counted once, whoever is counted
  existed at some time of it. The private lock does not "prevent changes", as its
  comment says, so the total need not be the number of processes at any instant;
  turning interrupts off is what makes the walk safe, and without it a reused task
  at the walk's position leads past the rest of the list.
- **chardev**: after a failed `cdev_alloc` the module may count as loaded, without a
  device and without its number; `device_exit` then unregisters the number again,
  perhaps another driver's.

Five more observations came out of the models and have no property of their own:
after a successful init the super block of `kern_mount` pins the module, so
`rmmod` is always refused and `myfs_exit` does not run (`Rmmod` in MyFsTree);
`open_count` starts from what `kmalloc` returned, where the comment says 0
(`AllocInfo`); a private read-only mapping becomes writable by `mprotect`, which
`mapdrv_mmap` does not see (`Mprotect`); a failed `proc_create` leaves `/proc/hello`,
so that no later load succeeds (`Mkdir` in ProcHello); and `cdev_init` on a cdev from `cdev_alloc` replaces the
release function that would free it, so each load of the character device loses one.

### Bounds

The ring size, counter width, message length, number of threads and limits,
area size and buffer size are constants. TLC uses the smallest values at which
wrap-around, full, empty, off-by-one and overlap occur: a ring of two bytes whose
counters wrap every second turn; an `int` of two bits; an area of three pages with
mappings that grow one page longer, and two VMAs, so that a mapping splits or is copied
once at a time; a buffer of three bytes with counts up to three, two readers and two
writers; three users who differ in uid and capability; integers modulo 48 with a "megabyte" of six
bytes, three sectors of two bytes, and parameters 1, 4, 8 and 9 that give 6, -24, 0
and 6 bytes; five processes of which the walk can lose,
keep and meet some anew; three heap objects for two descriptions,
so that a leak is possible; two user mounts; three threads with limits 3, 1 and 2.
The safety properties that these runs show are also proved for every value. No counter grows except the ones bounded here: `MaxRefs`,
`MaxMounts`, `MaxUser`, `MaxCount`, and `got` in ProcHello, which counts to "more
than one", and `MaxQueues` (RamDisk) and `MaxFailed` (BlkMq) for failed loads. `MaxCount` in RamDisk
is the block layer's limit on a request.

### Fairness

Fairness is weak, per program, thread or process: the scheduler runs whatever can run. Of the semaphore nothing is assumed about who is let in; `ProgramEnds`
holds since a thread cannot take it more often than its limit allows. In MyFsTests
a call always has a next step: kfifo never blocks. In PipeDemo the parent's reads
and waits are fair only while enabled, and `ParentEnds` excepts a failed fork, after
which a read can block for ever, and a failed `pipe`, after which anything can. In
ProcHello only readers that have the file open are fair (`Reads`): nobody has to open it,
write, load or unload. In RamDisk `my_request` runs and the block layer calls it
as long as requests wait; nothing is assumed about which one the elevator picks. No fairness is assumed of failures or of users.

Deadlock checking is off where the system may stop: a crashed or idle module with
no user left (`tree`, `map`, `proc`, `ramdisk`), an insmod that has died (`blkmq`), and a parent
that has ended or that blocks after a failed pipe or fork (`pipe`).

## The proofs

Eight modules, each of which `tlapm` checks to the last leaf. A theorem holds for
every value of the constants that satisfies the named assumption of the module it
is about; TLC evaluates the assumption on the constants of the run. In each module
an inductive invariant is proved first (`...Safety` or the like: initial states,
then one lemma per action), and the properties follow from it.

| module | theorem | states |
|---|---|---|
| `MyFsFifoProofs` | `FifoTypes`, `FifoRing`, `FifoReadBytes`, `FifoWriteBytes` | `TypeOK`, `RingIntact`, `ReadIntact`, `WriteIntact` |
| | `FifoImplementsQueue` | the refinement `ImplementsQueue` |
| | `TestsDrained` | `DrainedAtEnd` |
| | `TestsRunFifo`, `TestsImplementQueue` | `TestSpec => Spec`, and so `ImplementsQueue` |
| | `TestsNoWrongWrite` | `NoWrongWrite`, given `Room` |
| `MyFsOpenProofs` | `OpenTypes`, `OpenInfoOwnership`, `OpenLeakPerDenial`, `OpenRdWrOnlyByRace` | `TypeOK`, `InfoOwnership`, `LeakPerDenial`, `RdWrOnlyByRace` |
| `MyFsTreeProofs` | `TreeNlinkMatches`, `TreeServedOnceLoaded`, `TreeStray`, `TreeModuleOutlives` | `NlinkMatches`, `ServedOnceLoaded`, `StrayOnlyAfterDirFailure`, `ModuleOutlivesSuperBlock` |
| | `TreeEntriesStay` | the action property `EntriesStay` |
| `MapDriverProofs` | `MapPagesBacked`, `MapWrongPage` | `PagesBacked`, `WrongPageOnlyAfterSplit` |
| `ProcHelloProofs` | `ProcMsgTerminated`, `ProcLoneReader`, `ProcDirLeft` | `MsgTerminated`, `LoneReaderGetsOnce`, `DirLeftOnlyByFailure` |
| `RamDiskProofs` | `RamTypes`, `RamEndOfDevice`, `RamLeak` | `TypeOK`, `EndOfDeviceNever`, `LeakPerLateFailure` |
| | `RamNoLostRequest`, `RamMovesOn` | the safety part of `IOCompletes` |
| | `RamImplementsDisk` | the refinement `ImplementsDisk` |
| `BlkMqProofs` | `BlkLeftBehind` | `LeftBehind` |
| `ExerciseProofs` | `CounterNoLostUpdate`, `CounterFinalValue`, `CounterDestroyedUnused` | `NoLostUpdate`, `FinalValue`, `DestroyedUnused` |
| | `CounterNeverStuck` | the safety part of `ProgramEnds` |
| | `PipeBothReceived`, `PipeReadNeverBlocks` | `BothReceived`, `ReadNeverBlocks` |
| | `PipeStuckOnlyAfterFailure` | the safety part of `ParentEnds` |
| | `DeviceLoads`, `DeviceNumbersRespected` | what the violation of `LoadedOwnsRegion` leaves standing |
| | `TaskResidentCountedOnce`, `TaskCountedLived` | `ResidentCountedOnce`, `CountedLived` |
| | `TaskWalkInMemory` | the walk stands on no freed task |

`ExerciseProofs` holds the proofs about four exercises that have nothing to do with
each other. It extends SharedCounter, PipeDemo and TaskList, whose definitions
therefore have names of their own (`PipeSpec`, `TaskSpec`), and has CharDev as the
instance `Device`.

**The fifo** (`FifoAssumption`). The inductive invariant is `FifoInv`: the
properties are not inductive without `LengthsOK` (a call's length is bounded by its
buffer) and `Exclusive` (without an overlap there is at most one writer and one
reader at work). The argument: a writer's claimed room can only grow while it works,
because only a read, which moves `out`, can come in between; likewise a reader's
claimed bytes. A writer's copy stays out of the unread bytes, since their distances
from `in`, modulo the ring size, are above its length, and the zeroes of a faulting
copy stay inside the claimed room as well (`WriteCopyForm`); the lemmas on `%` at the
start of the module carry this (`InIsOutPlusUsed`: counted from `out`, the bytes end
at `in`, also across a wrap). Refinement then needs `Contents'` after each commit: a
write appends what was copied, a read drops it, every other step leaves it.

**The test programs** (the same module; `FifoAssumption`, `TestAssumption`, which
the theorems on the fifo do not use). `Programs` ties a program's position to the
call it has in progress. For `TestsDrained` the invariant `Drains` counts messages:
the fifo holds at most one message for each program that has written and not read,
and a read in progress will leave at most one for each of the *others*. The second
half is what makes it inductive: a read clamps its length before others write. It
needs no room in the ring. `TestsNoWrongWrite` has a hypothesis, `Room`: the
messages of all programs fit the ring, and `Size + ReadCount * number of programs`
stays below the range of the counters (64 bytes and 2^32 in the code). It holds for
overlapping calls too, where `FifoInv` says little: two overlapping reads may move
`out` past `in`. `Plenty` therefore bounds `Unused`, the value a write is clamped
to, from both sides: never less than the messages to come, never so much that it
wraps (`RoomAfterMove`). `TestsRunFifo` needs `ReadCount <= MaxCount`: the reads of
the programs are among the counts that MyFsFifo considers (as they are in the run).

**Open and release** (`OpenAssumption`, which does not say that descriptions or infos
are finite in number). `OpenInv` adds to the properties that heap and owners are finite at each
moment (`Counted`), so that their sizes can be compared, and `StillAllowed`: an open
under way whose modes have not moved since the kernel's check would still pass it.
The latter is why only a race gets both accesses past the module's check.

**The tree** (`MountsAssumption`). `TreeInv` needs `Loading` (what each step of `myfs_init` has behind
it), `EmptyUnlessMounted`, `Places` (what can stand where), `Counts` and `Parents`
(`pslot` is the directory created last, or null). The action property
follows from the same invariant, action by action.

**The mmap driver** (`MapAssumption`). `MapInv` adds to the two properties `InsideVma`
(entries exist only inside a VMA, so a new one starts without stale ones, and growing
uncovers none) and `Bounds` (`first + size` stays in the range of pages considered). All
that happens to VMAs goes through one lemma, `VmaStep`: the invariant is kept if each
entry of the next state is a private copy, what `map_fault` makes, or an entry there was
for the same page of the file (`first + i` unchanged) at an index no smaller.

**The proc file** (`ProcAssumption`). `MsgTerminated` is not inductive: a writer
passes over the terminator that was there. `LastByte` is: the last byte of the
buffer is always 0, because a call that could reach it is refused. `Turns` gives,
as long as `upset` is not set, that at most one reader has the file open, that
`finished` is 0 while nobody has, and what a reader has received at each position
(`GotSoFar`). Messages are counted with a minimum; that it exists is proved
from the well-foundedness of `<` on the naturals.

**The RAM disk** (`RamAssumption`: a megabyte is a whole number of sectors, and so is half
the range of `int`). `RamInv` says: the size that survives wrapping and `vmalloc` is
positive, below the range of `int` and a whole number of sectors (`WrapWhole`), and
the capacity is that number; each request lies inside the capacity, has a data
buffer of its length and a segment that fits what is left of it; what waits in the
queue or is being served has a segment to move. From it, the byte offset of a
segment has not wrapped and the bytes it covers are those of its sectors
(`InPlace`), which gives `EndOfDeviceNever`, and that a turn of the loop copies the
segment whole and in place (`Turn`). Refinement: `AllocDisk` is `Attach`, `Exit` is
`Detach`, `Handle` is `Transfer` of one segment, `Submit` and `Answer` are
themselves, and every other step leaves store and requests alone. `RamNoLostRequest`
(a request with a segment left is in the queue or being served) is inductive beside
`RamInv`: a request leaves `cur` only in the turn that moves its last segment.

**The blk-mq driver** (`BlkMqAssumption`). `HeldAccounted` says at each step of
`exp_4_2_init` what is held: what failed loads left and what the present one has taken.

**The counter** (`CounterAssumption`). `CounterInv` = types, `Mutex` (the semaphore is 0
exactly when one thread is between wait and post), `Knows` (what a thread's position
says of `sharedData`), `Bounded` (some created thread allows the present value) and
`Progress` (creation and joining in order). `CounterNeverStuck` says with the guards
written out that main or a thread can move until the program ends: main waits for a
thread that has not left, which holds the semaphore, can take it, or waits for one
that holds it.

**The pipe demo** (no assumption: whichever calls may fail). `PipeInv` = types, `Family` (forks in
order, reaped children have exited, each wait reaps one more child unless a fork
failed), `Printed` (a message per read), `Stream` (each message sent is in the pipe or
printed, once) and `Locked` (who is past the lock holds it, and nobody is stuck, as long
as there is a pipe). `PipeStuckOnlyAfterFailure` therefore excepts a failed pipe as well
as a failed fork. A read follows a wait for one child more than messages
were printed, so the pipe holds a message.

**The character device** (no assumption). The run refutes `LoadedOwnsRegion`;
`DeviceInv` says what holds instead. A module that counts as loaded without its
device number (`Misloaded`) has no cdev and no users, and its `rmmod` is the only step
of the module that can take away a number of another driver.

**The task list** (`TaskAssumption`). Reachability along the
links is not needed: `TaskInv` says that there is a *rank* of the tasks (the order of
their creation) that the links agree with. Links lead to higher ranks, also those of
removed tasks, which keep their own; a link between tasks on the list passes no
task on the list, and a link of a removed task passes no resident. So the residents
behind the walk's position are the ones that were counted, and what is counted
is behind the position and not met again. The rank is quantified over in the invariant
(`Ranked`), not a part of the state: a fork gives the new task the next rank, every
other step keeps the rank. `Linked` (one predecessor each) makes `Prev` what
`list_add_tail` and `list_del` use. TLC has checked the invariant with four
tasks and ranks 0 to 3.

Only model-checked, because it is liveness and out of the prover's reach:
`TestsTerminate`, `ProgramEnds`, `ParentEnds`, `ReadersEnd` and `IOCompletes`. Where a process can be held up by another at all, a theorem
above states that they are not all held up at once (counter, pipe) or that no
request is dropped (RAM disk); the test programs and the readers of `/proc/hello` never
wait for anybody.

## What is left out

Names, times, inode numbers and printed text; the contents of mapped pages;
`SetPageReserved`; the size of a reader's buffer in `proc_read`; the mode of files
other than the ones opened; the geometry ioctl of the RAM disk, which fakes its
answer from `disk_size`; `device_read` and `device_write` of `exp_4_2.c`, which
nothing refers to, and its `requestHandler`, the end of its init and its exit, which
are never reached. The kernel (VFS, kfifo's inside, page faults, proc's removal
barrier, the block layer, RCU, device numbers) and pthreads are external and
modelled from their use.

### Not modelled

- `exp2.3.cpp` (list echo): one sequential loop over one list, and it assigns to
  `std::string` members of memory from `malloc`, whose constructor never ran: from
  its first line of input on its behaviour is undefined.
- `exp1.3.c`: one thread that is joined, without shared data.
- `exp1.1.c`, `exp1.2.*.c`, `exp2.1.*.c`: fork, print and exec; no state.
- `exp2.2.cpp`: reads a file into memory.
- `exp1.6.c`, `exp4_2_evil.c`: a message at load and at unload.

## Plan

What can be modelled is modelled, and every invariant and every safety action
property or refinement that a run checks is also a theorem. What could follow is
code that is not there yet: a version of `myfs` with a lock around the fifo would let
`raced` go from the theorems.
