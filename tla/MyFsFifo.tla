------------------------------- MODULE MyFsFifo -------------------------------
(***************************************************************************)
(* read(2) and write(2) on a myfs file (course_design/myfs_kernel.c).      *)
(* Every file of the file system reads from and writes to the one          *)
(* mydemo_fifo; no lock is taken around it.                                *)
(*                                                                         *)
(* The actors are open file descriptions.  The kernel runs one read or     *)
(* write at a time on a description (f_pos_lock for a regular file), and   *)
(* any number of them on different descriptions at once.  A call takes     *)
(* three steps, the three places where kfifo touches shared memory: clamp  *)
(* the length against the counters, copy the bytes, move the counter.      *)
(***************************************************************************)
EXTENDS Integers, Sequences

CONSTANTS Size,       \* ring size in bytes: 64 in the code
          Wraps,      \* the counters wrap at Size * Wraps: 2^32 in the code
          Byte,       \* the set of byte values
          Readers,    \* descriptions open for reading
          Writers,    \* descriptions open for writing
          MaxCount    \* largest count passed to read or write

ASSUME FifoAssumption ==
  /\ Size \in Nat \ {0}
  /\ Wraps \in Nat \ {0, 1}
  /\ Byte # {}
  /\ MaxCount \in Nat

VARIABLES in, out,    \* the kfifo counters
          data,       \* the ring
          pc,         \* per description: where its call stands
          len,        \* per description: the clamped length of its call
          buf,        \* per description: the bytes in the user's buffer
          fault,      \* per description: the copy hit an unmapped user page
          last,       \* the call that returned last: bytes moved, value returned
          raced       \* history: two reads, or two writes, have overlapped

fifoVars == <<in, out, data, pc, len, buf, fault, last, raced>>

Files == Readers \cup Writers
Modulus == Size * Wraps
EIO == -5

Writing == {"wcopy", "wcommit"}
Reading == {"rcopy", "rcommit"}

\* kfifo_len and kfifo_unused: unsigned subtraction.
Used == (in - out) % Modulus
Unused == (Size - Used) % Modulus

Min2(a, b) == IF a <= b THEN a ELSE b

\* What a reader would get: the bytes between out and in.
Contents == [i \in 1..Used |-> data[(out + i - 1) % Size]]

\* The ring is static storage, so it starts out zeroed.
Zero == CHOOSE b \in Byte : TRUE

\* The user buffers a write may pass.
Buffers == UNION {[1..n -> Byte] : n \in 0..MaxCount}

Init ==
  /\ in = 0 /\ out = 0
  /\ data = [s \in 0..(Size - 1) |-> Zero]
  /\ pc = [f \in Files |-> "idle"]
  /\ len = [f \in Files |-> 0]
  /\ buf = [f \in Files |-> <<>>]
  /\ fault = [f \in Files |-> FALSE]
  /\ last = [bytes |-> <<>>, ret |-> 0]
  /\ raced = FALSE

------------------------------------------------------------------------------
(* write(2): myfs_file_write -> kfifo_from_user                            *)

\* kfifo_from_user clamps the count to the room it sees.
WriteClamp(count) == Min2(count, Unused)

\* Mutant: the handler writes all of the bytes, whether there is room or not.
WriteStartUnclamped(f, bytes) ==
  /\ pc[f] = "idle"
  /\ pc' = [pc EXCEPT ![f] = "wcopy"]
  /\ len' = [len EXCEPT ![f] = Min2(Len(bytes), Size)]
  /\ buf' = [buf EXCEPT ![f] = bytes]
  /\ raced' = (raced \/ \E g \in Files : pc[g] \in Writing)
  /\ UNCHANGED <<in, out, data, fault, last>>

WriteStart(f, bytes) ==
  /\ pc[f] = "idle"
  /\ pc' = [pc EXCEPT ![f] = "wcopy"]
  /\ len' = [len EXCEPT ![f] = WriteClamp(Len(bytes))]
  /\ buf' = [buf EXCEPT ![f] = bytes]
  /\ raced' = (raced \/ \E g \in Files : pc[g] \in Writing)
  /\ UNCHANGED <<in, out, data, fault, last>>

\* kfifo copies a piece up to the end of the ring and then the rest.  When the
\* copy faults after n bytes, copy_from_user zeroes what is left of the piece.
ZeroedTo(f, n) ==
  LET piece == Min2(len[f], Size - (in % Size))
  IN  IF n < piece THEN piece ELSE len[f]

\* copy_from_user into the ring at in; bad bytes were not copied.
WriteCopy(f) ==
  /\ pc[f] = "wcopy"
  /\ \E bad \in 0..len[f] :
       LET n == len[f] - bad
           At(s) == (s - in) % Size       \* distance of slot s from in
       IN  /\ data' = [s \in 0..(Size - 1) |->
                         IF At(s) < n THEN buf[f][At(s) + 1]
                         ELSE IF At(s) < ZeroedTo(f, n) THEN Zero ELSE data[s]]
           /\ len' = [len EXCEPT ![f] = n]
           /\ fault' = [fault EXCEPT ![f] = bad > 0]
  /\ pc' = [pc EXCEPT ![f] = "wcommit"]
  /\ UNCHANGED <<in, out, buf, last, raced>>

\* Both handlers turn any kfifo error into -EIO, and otherwise return the
\* number of bytes moved; their locals die.
Return(f, bytes) ==
  /\ last' = [bytes |-> bytes,
               ret |-> IF fault[f] THEN EIO ELSE Len(bytes)]
  /\ pc' = [pc EXCEPT ![f] = "idle"]
  /\ len' = [len EXCEPT ![f] = 0]
  /\ buf' = [buf EXCEPT ![f] = <<>>]
  /\ fault' = [fault EXCEPT ![f] = FALSE]

\* Mutant: the counter moves by what the caller asked for, not by what fitted.
WriteCommitWhole(f) ==
  /\ pc[f] = "wcommit"
  /\ in' = (in + Len(buf[f])) % Modulus
  /\ Return(f, SubSeq(buf[f], 1, len[f]))
  /\ UNCHANGED <<out, data, raced>>

WriteCommit(f) ==
  /\ pc[f] = "wcommit"
  /\ in' = (in + len[f]) % Modulus
  /\ Return(f, SubSeq(buf[f], 1, len[f]))
  /\ UNCHANGED <<out, data, raced>>

------------------------------------------------------------------------------
(* read(2): myfs_file_read -> kfifo_to_user                                *)

ReadStart(f, count) ==
  /\ pc[f] = "idle"
  /\ pc' = [pc EXCEPT ![f] = "rcopy"]
  /\ len' = [len EXCEPT ![f] = Min2(count, Used)]
  /\ raced' = (raced \/ \E g \in Files : pc[g] \in Reading)
  /\ UNCHANGED <<in, out, data, buf, fault, last>>

ReadCopy(f) ==
  /\ pc[f] = "rcopy"
  /\ \E bad \in 0..len[f] :
       LET n == len[f] - bad
       IN  /\ buf' = [buf EXCEPT ![f] =
                        [i \in 1..n |-> data[(out + i - 1) % Size]]]
           /\ len' = [len EXCEPT ![f] = n]
           /\ fault' = [fault EXCEPT ![f] = bad > 0]
  /\ pc' = [pc EXCEPT ![f] = "rcommit"]
  /\ UNCHANGED <<in, out, data, last, raced>>

\* Mutant: the counter does not wrap.
ReadCommitUnwrapped(f) ==
  /\ pc[f] = "rcommit"
  /\ out' = out + len[f]
  /\ Return(f, buf[f])
  /\ UNCHANGED <<in, data, raced>>

\* Mutant: a read that drains the fifo resets it (kfifo_reset).
ReadCommitReset(f) ==
  /\ pc[f] = "rcommit"
  /\ IF len[f] = Used THEN in' = 0 /\ out' = 0
                      ELSE out' = (out + len[f]) % Modulus /\ UNCHANGED in
  /\ Return(f, buf[f])
  /\ UNCHANGED <<data, raced>>

ReadCommit(f) ==
  /\ pc[f] = "rcommit"
  /\ out' = (out + len[f]) % Modulus
  /\ Return(f, buf[f])
  /\ UNCHANGED <<in, data, raced>>

------------------------------------------------------------------------------
Write(f) ==
  \/ \E bytes \in Buffers : WriteStart(f, bytes)
  \/ WriteCopy(f)
  \/ WriteCommit(f)

Read(f) ==
  \/ \E count \in 0..MaxCount : ReadStart(f, count)
  \/ ReadCopy(f)
  \/ ReadCommit(f)

Next ==
  \/ \E f \in Writers : Write(f)
  \/ \E f \in Readers : Read(f)

Spec == Init /\ [][Next]_fifoVars

------------------------------------------------------------------------------
(* Properties                                                              *)

\* The fifo counters of myfs_kernel.c stay in their unsigned range, the ring
\* keeps its size and a handler only ever holds bytes and a length.
TypeOK ==
  /\ in \in 0..(Modulus - 1) /\ out \in 0..(Modulus - 1)
  /\ data \in [0..(Size - 1) -> Byte]
  /\ pc \in [Files -> {"idle"} \cup Writing \cup Reading]
  /\ len \in [Files -> Nat]
  /\ buf \in [Files -> Seq(Byte)]
  /\ fault \in [Files -> BOOLEAN]
  /\ last \in [bytes : Seq(Byte), ret : Nat \cup {EIO}]
  /\ raced \in BOOLEAN

\* As long as no two writes and no two reads have overlapped, the unlocked
\* counters stay within one ring of each other, and what a call in progress
\* has claimed with its stale length is still there: a writer's room is still
\* free, a reader's bytes are still unread.
RingIntact ==
  ~raced =>
    /\ Used <= Size
    /\ \A f \in Files :
         /\ pc[f] \in Writing => len[f] <= Size - Used
         /\ pc[f] \in Reading => len[f] <= Used

\* The bytes myfs_file_read copied out are, when it moves out, still the
\* oldest unread bytes: no concurrent myfs_file_write has reused their slots.
ReadIntact ==
  ~raced =>
    \A f \in Files : pc[f] = "rcommit" =>
      \A i \in 1..len[f] : buf[f][i] = data[(out + i - 1) % Size]

\* The bytes myfs_file_write copied in are, when it publishes them by moving
\* in, in the slots right behind in, in the order the user passed them.
WriteIntact ==
  ~raced =>
    \A f \in Files : pc[f] = "wcommit" =>
      \A i \in 1..len[f] : data[(in + i - 1) % Size] = buf[f][i]

Queue == INSTANCE ByteQueue WITH Capacity <- Size, queue <- Contents,
                                 broken <- raced

\* Until calls of one kind overlap, myfs_file_read and myfs_file_write are
\* atomic operations on one queue of Size bytes shared by all files; a call
\* that returns -EIO has moved the bytes copied before the fault.
ImplementsQueue == Queue!Spec
==============================================================================
