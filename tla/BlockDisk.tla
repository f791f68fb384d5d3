------------------------------- MODULE BlockDisk -------------------------------
(***************************************************************************)
(* What a disk promises to the tasks that use it.  A request covers count  *)
(* sectors from start; its sectors are moved in order, one or more at a    *)
(* time, each time in one indivisible step, and the request is over when   *)
(* all of them have been moved.  data is what a write stores, and the      *)
(* buffer that a read fills.                                               *)
(***************************************************************************)
EXTENDS Integers, Sequences

CONSTANTS Tasks, Value,
          MaxSize   \* sectors of the largest disk

VARIABLES store,    \* contents: sector s is store[s + 1]; empty without a disk
          io        \* per task: its request, or Idle

vars == <<store, io>>

Idle == <<>>
NoIO == [t \in Tasks |-> Idle]

Init == store = <<>> /\ io = NoIO

Attach(n) == store = <<>> /\ store' \in [1..n -> Value] /\ UNCHANGED io

Detach == io = NoIO /\ store' = <<>> /\ UNCHANGED io

\* A request lies inside the disk.
Submit(t) ==
  /\ io[t] = Idle
  /\ \E start \in 0..(Len(store) - 1), write \in BOOLEAN :
       \E count \in 1..(Len(store) - start) : \E data \in [1..count -> Value] :
         io' = [io EXCEPT ![t] = [write |-> write, start |-> start,
                                  count |-> count, moved |-> 0, data |-> data]]
  /\ UNCHANGED store

\* The next k sectors of request r, as places in r.data.
Window(r, k) == (r.moved + 1)..(r.moved + k)

Transfer(t, k) ==
  LET r == io[t] IN
  /\ r # Idle /\ k <= r.count - r.moved
  /\ IF r.write
     THEN /\ store' = [i \in 1..Len(store) |->
                         IF i - r.start \in Window(r, k)
                         THEN r.data[i - r.start] ELSE store[i]]
          /\ io' = [io EXCEPT ![t] = [r EXCEPT !.moved = r.moved + k]]
     ELSE /\ io' = [io EXCEPT ![t] = [r EXCEPT
                      !.moved = r.moved + k,
                      !.data = [i \in 1..r.count |->
                                  IF i \in Window(r, k) THEN store[r.start + i]
                                  ELSE r.data[i]]]]
          /\ UNCHANGED store

\* The task takes its answer.
Answer(t) ==
  /\ io[t] # Idle /\ io[t].moved = io[t].count
  /\ io' = [io EXCEPT ![t] = Idle]
  /\ UNCHANGED store

Next ==
  \/ \E n \in 1..MaxSize : Attach(n)
  \/ Detach
  \/ \E t \in Tasks :
       Submit(t) \/ Answer(t) \/ \E k \in 1..Len(store) : Transfer(t, k)

Spec == Init /\ [][Next]_vars
==============================================================================
