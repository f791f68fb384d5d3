------------------------------ MODULE ByteQueue ------------------------------
(***************************************************************************)
(* What the byte channel behind every myfs file promises its users: one    *)
(* first-in first-out queue of at most Capacity bytes, on which each       *)
(* completed write(2) or read(2) takes effect at one instant.  The promise *)
(* is void once two reads, or two writes, have been in progress together   *)
(* (broken): mydemo_fifo is used without a lock.                           *)
(***************************************************************************)
EXTENDS Integers, Sequences

CONSTANTS Capacity,   \* bytes the queue can hold
          Byte,       \* the set of byte values
          EIO         \* the error myfs returns for a faulting user buffer

VARIABLES queue,      \* the bytes written and not yet read, oldest first
          last,       \* the call that returned last: bytes moved, value returned
          broken

vars == <<queue, last, broken>>

Chunks == UNION {[1..n -> Byte] : n \in 0..Capacity}

Init ==
  /\ queue = <<>>
  /\ last = [bytes |-> <<>>, ret |-> 0]
  /\ broken = FALSE

\* A call returns the number of bytes it moved, or EIO when the user buffer
\* faulted; a faulting call has moved the bytes that were copied.
Returns(bytes) ==
  \E ret \in {Len(bytes), EIO} : last' = [bytes |-> bytes, ret |-> ret]

Write ==
  /\ ~broken /\ ~broken'
  /\ \E bytes \in Chunks :
       /\ Len(queue) + Len(bytes) <= Capacity
       /\ queue' = queue \o bytes
       /\ Returns(bytes)

Read ==
  /\ ~broken /\ ~broken'
  /\ \E n \in 0..Len(queue) :
       /\ queue' = SubSeq(queue, n + 1, Len(queue))
       /\ Returns(SubSeq(queue, 1, n))

\* After an overlap of two reads or two writes nothing is promised.
Overlap == broken'

Next == Write \/ Read \/ Overlap

Spec == Init /\ [][Next]_vars
==============================================================================
