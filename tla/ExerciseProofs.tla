----------------------------- MODULE ExerciseProofs -----------------------------
(***************************************************************************)
(* Proofs about four of the exercises: the threads of exp1.4 and exp3.2    *)
(* (SharedCounter), the processes of exp1.5 (PipeDemo), the character      *)
(* device of exp4.1 (CharDev) and the walk along the list of processes of  *)
(* exp1.8 (TaskList).  The exercises have nothing to do with each other    *)
(* and share no variable.                                                  *)
(***************************************************************************)
EXTENDS SharedCounter, PipeDemo, TaskList, FiniteSetTheorems, TLAPS

------------------------------------------------------------------------------
(* SharedCounter, for any number of threads and any limits                 *)

Holding == {"check", "load", "store", "post", "leave"}

\* The semaphore is 1 when nobody is between sem_wait and sem_post, and 0 when
\* one thread is.
Mutex ==
  /\ sem \in {0, 1}
  /\ \A t \in Threads : tpc[t] \in Holding => sem = 0
  /\ \A t, u \in Threads : tpc[t] \in Holding /\ tpc[u] \in Holding => t = u
  /\ sem = 0 => \E t \in Threads : tpc[t] \in Holding

\* What a thread knows of sharedData where it stands: it does not change under
\* a thread that holds the semaphore, and it never falls.
Knows ==
  \A t \in Threads :
    /\ tpc[t] \in {"load", "store"} => sharedData < Limit[t]
    /\ tpc[t] = "store" => reg[t] = sharedData
    /\ tpc[t] \in {"leave", "exited"} => sharedData >= Limit[t]

\* Some thread that was created allows the present value.
Bounded ==
  sharedData = 0 \/
    \E t \in Threads : tpc[t] \notin {"none", "failed"} /\ sharedData <= Limit[t]

\* Threads are created and joined in order.
Progress ==
  /\ mpc = "create" => \A t \in Threads : t >= k => tpc[t] = "none"
  /\ mpc = "create" => \A t \in Threads : t < k => tpc[t] # "none"
  /\ mpc # "create" => \A t \in Threads : tpc[t] # "none"
  /\ mpc = "join" => \A t \in Threads : t < k => tpc[t] \in {"exited", "failed"}
  /\ mpc = "done" => \A t \in Threads : tpc[t] \in {"exited", "failed"}
  /\ live \/ mpc = "done"

CounterInv == TypeOK /\ Mutex /\ Knows /\ Bounded /\ Progress /\ NoLostUpdate

\* sem_init has run and no thread exists.
LEMMA CounterInitInv == Init => CounterInv
  BY CounterAssumption DEF Init, CounterInv, TypeOK, Mutex, Knows, Bounded,
     Progress, NoLostUpdate, SemValue, Holding, Threads

\* A step of a thread, one case per line of thread1 and thread2.
LEMMA CounterThreadInv ==
  ASSUME CounterInv, Running, NEW t \in Threads, Thread(t)
  PROVE  CounterInv'
<1> USE CounterAssumption DEF CounterInv, Goto
<1>1. mpc' = mpc /\ k' = k /\ live' = live
  BY DEF Thread, SemWait, Check, Load, Store, SemPost, Leave
<1>2. TypeOK'
  BY DEF Thread, SemWait, Check, Load, Store, SemPost, Leave, TypeOK, Mutex, AtLimit
<1>3. Mutex'
  BY DEF Thread, SemWait, Check, Load, Store, SemPost, Leave, TypeOK, Mutex,
     AtLimit, Holding
<1>4. Progress'
  BY <1>1 DEF Thread, SemWait, Check, Load, Store, SemPost, Leave, TypeOK,
     Progress, AtLimit, Running
<1>5. /\ Knows' /\ Bounded' /\ NoLostUpdate'
  <2>1. CASE SemWait(t)
    BY <2>1 DEF SemWait, TypeOK, Knows, Bounded, NoLostUpdate
  <2>2. CASE Check(t)
    BY <2>2 DEF Check, AtLimit, TypeOK, Knows, Bounded, NoLostUpdate
  <2>3. CASE Load(t)
    BY <2>3 DEF Load, TypeOK, Knows, Bounded, NoLostUpdate
  <2>4. CASE Store(t)
    <3>1. /\ tpc[t] = "store" /\ reg[t] = sharedData /\ sharedData < Limit[t]
          /\ sharedData' = sharedData + 1
          /\ sharedData \in Nat /\ Limit[t] \in Nat
      BY <2>4 DEF Store, TypeOK, Knows
    <3>2. \A u \in Threads : u # t => tpc[u] \notin Holding
      BY <3>1 DEF Mutex, Holding
    <3>3. Knows'
      BY <2>4, <3>1, <3>2 DEF Store, TypeOK, Knows, Holding
    <3>4. Bounded'
      BY <2>4, <3>1 DEF Store, TypeOK, Bounded
    <3>5. NoLostUpdate'
      BY <2>4, <3>1 DEF Store, NoLostUpdate
    <3> QED
      BY <3>3, <3>4, <3>5
  <2>5. CASE SemPost(t)
    BY <2>5 DEF SemPost, TypeOK, Knows, Bounded, NoLostUpdate
  <2>6. CASE Leave(t)
    BY <2>6 DEF Leave, TypeOK, Knows, Bounded, NoLostUpdate
  <2> QED
    BY <2>1, <2>2, <2>3, <2>4, <2>5, <2>6 DEF Thread
<1> QED
  BY <1>2, <1>3, <1>4, <1>5

\* A step of main.
LEMMA CounterMainInv ==
  ASSUME CounterInv, Running, Main
  PROVE  CounterInv'
<1> USE CounterAssumption DEF CounterInv, Threads
<1>1. CASE Create
  <2>0. k \in Threads /\ k' = k + 1
    BY <1>1 DEF Create, TypeOK
  <2>1. PICK to \in {"wait", "failed"} :
           tpc[k] = "none" /\ tpc' = [tpc EXCEPT ![k] = to]
    BY <1>1 DEF Create, Goto
  <2>2. TypeOK' /\ Mutex' /\ Knows' /\ NoLostUpdate'
    BY <1>1, <2>0, <2>1 DEF Create, TypeOK, Mutex, Knows, NoLostUpdate, Holding
  <2>3. Bounded'
    BY <1>1, <2>0, <2>1 DEF Create, TypeOK, Bounded
  <2>4. Progress'
    BY <1>1, <2>0, <2>1 DEF Create, TypeOK, Progress
  <2> QED
    BY <2>2, <2>3, <2>4
<1>2. CASE Created \/ Join \/ JoinCrashes \/ Destroy
  <2>1. UNCHANGED <<sem, sharedData, tpc, reg, increments>>
    BY <1>2 DEF Created, Join, JoinCrashes, Destroy
  <2>2. TypeOK' /\ Mutex' /\ Knows' /\ Bounded' /\ NoLostUpdate'
    <3>1. k' \in 1..(N + 1)
      BY <1>2 DEF Created, Join, JoinCrashes, Destroy, TypeOK
    <3>2. live' \in BOOLEAN /\ mpc' \in {"create", "join", "done", "crashed"}
      BY <1>2 DEF Created, Join, JoinCrashes, Destroy, TypeOK
    <3>3. TypeOK'
      BY <2>1, <3>1, <3>2 DEF TypeOK
    <3> QED
      BY <2>1, <3>3 DEF Mutex, Knows, Bounded, NoLostUpdate
  <2>3. Progress'
    BY <1>2, <2>1 DEF Created, Join, JoinCrashes, Destroy, TypeOK, Progress
  <2> QED
    BY <2>2, <2>3
<1> QED
  BY <1>1, <1>2 DEF Main

LEMMA CounterNextInv == CounterInv /\ [Next]_vars => CounterInv'
<1> SUFFICES ASSUME CounterInv, [Next]_vars PROVE CounterInv'
  OBVIOUS
<1>1. CASE UNCHANGED vars
  BY <1>1 DEF vars, CounterInv, TypeOK, Mutex, Knows, Bounded, Progress, NoLostUpdate
<1> QED
  BY <1>1, CounterThreadInv, CounterMainInv DEF Next, Ended

\* In every run of the two programs, with any limits and any number of
\* threads, the invariant holds.
THEOREM CounterSafety == Spec => []CounterInv
  BY CounterInitInv, CounterNextInv, PTL DEF Spec

\* No increment of sharedData is lost.
THEOREM CounterNoLostUpdate == Spec => []NoLostUpdate
<1>1. CounterInv => NoLostUpdate
  BY DEF CounterInv
<1> QED
  BY <1>1, CounterSafety, PTL

\* main prints the largest limit of the threads that were created.
THEOREM CounterFinalValue == Spec => []FinalValue
<1>1. CounterInv => FinalValue
  BY CounterAssumption DEF CounterInv, TypeOK, Knows, Bounded, Progress, FinalValue
<1> QED
  BY <1>1, CounterSafety, PTL

\* The semaphore is destroyed only after every thread's last use of it.
THEOREM CounterDestroyedUnused == Spec => []DestroyedUnused
<1>1. CounterInv => DestroyedUnused
  BY DEF CounterInv, Progress, DestroyedUnused
<1> QED
  BY <1>1, CounterSafety, PTL

\* Where main and a thread of exp1.4 and exp3.2 are not held up.
MainCanMove ==
  \/ mpc = "create" /\ (k = N + 1 \/ tpc[k] = "none")
  \/ mpc = "join" /\ (k = N + 1 \/ tpc[k] \in {"exited", "failed"})

ThreadCanMove(t) == tpc[t] \in Holding \/ (tpc[t] = "wait" /\ sem > 0)

\* Until the program ends main or some thread can take a step.
CounterNotStuck == Running => MainCanMove \/ \E t \in Threads : ThreadCanMove(t)

\* The safety part of ProgramEnds: sem_wait and pthread_join never hold up main and
\* all threads of exp1.4 and exp3.2 at once.
THEOREM CounterNeverStuck == Spec => []CounterNotStuck
<1>1. CounterInv => CounterNotStuck
  <2> SUFFICES ASSUME CounterInv, mpc = "join", k \in Threads,
                      tpc[k] \notin {"exited", "failed"}
               PROVE  \E t \in Threads : ThreadCanMove(t)
    BY CounterAssumption DEF CounterInv, TypeOK, Progress, CounterNotStuck, Running,
       MainCanMove, Threads
  <2>1. tpc[k] = "wait" \/ tpc[k] \in Holding
    BY DEF CounterInv, TypeOK, Progress, Holding
  <2> QED
    BY <2>1 DEF CounterInv, Mutex, ThreadCanMove
<1> QED
  BY <1>1, CounterSafety, PTL

------------------------------------------------------------------------------
(* PipeDemo, whichever calls fail                                          *)

\* The child has written its message.
Sent(c) == cpc[c] \in {"unlock", "exit", "zombie"}

\* The parent forks in order and goes on after a failure; it reaps what has
\* exited; a wait of a parent whose forks succeeded leaves one child more reaped.
Family ==
  /\ ppc = "fork1" => cpc[1] = "none" /\ failures = {}
  /\ ppc \in {"fork1", "fork2"} => cpc[2] = "none" /\ reaped = {}
  /\ ppc # "fork1" /\ cpc[1] = "none" => 1 \in failures
  /\ ppc \notin {"fork1", "fork2"} /\ cpc[2] = "none" => 2 \in failures
  /\ \A c \in reaped : cpc[c] = "zombie"
  /\ failures = {} /\ ppc \in {"read1", "wait2"} => reaped # {}
  /\ failures = {} /\ ppc \in {"read2", "done"} => reaped = {1, 2}

\* Each read prints once.
Printed ==
  /\ ppc \in {"fork1", "fork2", "wait1", "read1"} => Len(received) = 0
  /\ ppc \in {"wait2", "read2"} => Len(received) = 1
  /\ ppc = "done" => Len(received) = 2

\* Every message sent is in the pipe or was printed, once; nothing else is.
Stream ==
  piped =>
    /\ \A c \in {1, 2} :
          Sent(c) <=> \/ \E i \in 1..Len(pipe) : pipe[i] = c
                      \/ \E i \in 1..Len(received) : received[i] = c
    /\ \A i, j \in 1..Len(pipe) : pipe[i] = pipe[j] => i = j
    /\ \A i, j \in 1..Len(received) : received[i] = received[j] => i = j
    /\ \A i \in 1..Len(pipe), j \in 1..Len(received) : pipe[i] # received[j]
    /\ \A i \in 1..Len(received) : received[i] \in {1, 2}

\* If there is a pipe, a child between its two calls of lockf holds the lock and
\* no call blocks for good.
Locked ==
  piped => /\ \A c \in {1, 2} : cpc[c] \in {"write", "unlock"} <=> lock = c
           /\ \A c \in {1, 2} : cpc[c] # "stuck"
           /\ ppc # "stuck"

PipeInv == PipeTypeOK /\ Family /\ Printed /\ Stream /\ Locked

\* Sequences over a set stay so when an element is appended or the first dropped.
LEMMA AppendType ==
  ASSUME NEW S, NEW s \in Seq(S), NEW e \in S PROVE Append(s, e) \in Seq(S)
  OBVIOUS

LEMMA TailType ==
  ASSUME NEW S, NEW s \in Seq(S) PROVE SubSeq(s, 2, Len(s)) \in Seq(S)
<1>1. \A i \in 2..Len(s) : s[i] \in S
  OBVIOUS
<1> QED
  BY <1>1

LEMMA TailOf ==
  ASSUME NEW S, NEW s \in Seq(S), Len(s) >= 1
  PROVE  /\ Len(SubSeq(s, 2, Len(s))) = Len(s) - 1
         /\ \A i \in 1..(Len(s) - 1) : SubSeq(s, 2, Len(s))[i] = s[i + 1]
  OBVIOUS

\* What TypeOK says, in the terms of the proof.
LEMMA PipeTypes ==
  ASSUME PipeTypeOK
  PROVE  /\ pipe \in Seq({1, 2}) /\ received \in Seq({0, 1, 2}) /\ piped \in BOOLEAN
         /\ lock \in {0, 1, 2} /\ failures \subseteq {1, 2} /\ reaped \subseteq {1, 2}
         /\ cpc \in [{1, 2} -> {"none", "lock", "write", "unlock", "exit", "zombie", "stuck"}]
         /\ Len(pipe) \in Nat /\ Len(received) \in Nat
  BY DEF PipeTypeOK, Children, None

LEMMA PipeInitInv == PipeInit => PipeInv
<1> SUFFICES ASSUME PipeInit PROVE PipeInv
  OBVIOUS
<1> USE DEF PipeInit, Children, None
<1>1. PipeTypeOK
  <2>1. piped \in BOOLEAN
    BY Zenon
  <2>2. pipe \in Seq({1, 2}) /\ received \in Seq({1, 2} \cup {0})
    OBVIOUS
  <2> QED
    BY <2>1, <2>2 DEF PipeTypeOK
<1> QED
  BY <1>1 DEF PipeInv, Family, Printed, Stream, Locked, Sent

\* A step of a child.
LEMMA PipeChildInv ==
  ASSUME PipeInv, NEW c \in {1, 2}, Child(c)
  PROVE  PipeInv'
<1> USE DEF PipeInv, Children, None, Message
<1>0. UNCHANGED <<piped, ppc, reaped, received, failures>>
  BY DEF Child, Lock, Write, WriteAstray, Unlock, Exit
<1>1. PipeTypeOK'
  <2>1. pipe' \in Seq({1, 2})
    <3>1. pipe' = pipe \/ pipe' = Append(pipe, c)
      BY DEF Child, Lock, Write, WriteAstray, Unlock, Exit
    <3> QED
      BY <3>1, PipeTypes, AppendType
  <2>2. /\ lock' \in {1, 2} \cup {0}
        /\ cpc' \in [{1, 2} -> {"none", "lock", "write", "unlock", "exit", "zombie", "stuck"}]
    BY PipeTypes DEF Child, Lock, Write, WriteAstray, Unlock, Exit
  <2> QED
    BY <1>0, <2>1, <2>2 DEF PipeTypeOK
<1>2. Family'
  BY <1>0, PipeTypes DEF Child, Lock, Write, WriteAstray, Unlock, Exit,
     Family
<1>3. Printed'
  BY <1>0 DEF Printed
<1>4. Locked'
  BY <1>0, PipeTypes DEF Child, Lock, Write, WriteAstray, Unlock, Exit,
     Locked
<1>5. Stream'
  <2>1. CASE Write(c) /\ piped
    <3>1. pipe' = Append(pipe, c) /\ cpc' = [cpc EXCEPT ![c] = "unlock"]
          /\ cpc[c] = "write"
      BY <2>1 DEF Write
    <3>2. /\ Len(pipe') = Len(pipe) + 1 /\ pipe'[Len(pipe) + 1] = c
          /\ \A i \in 1..Len(pipe) : pipe'[i] = pipe[i]
      BY <3>1, PipeTypes
    <3>3. /\ ~Sent(c)
          /\ \A i \in 1..Len(pipe) : pipe[i] # c
          /\ \A i \in 1..Len(received) : received[i] # c
      BY <2>1, <3>1 DEF Stream, Sent
    <3>4. \A d \in {1, 2} : Sent(d)' <=> Sent(d) \/ d = c
      BY <3>1, PipeTypes DEF Sent
    <3>5. \A d \in {1, 2} : (\E i \in 1..Len(pipe') : pipe'[i] = d)
                             <=> (\E i \in 1..Len(pipe) : pipe[i] = d) \/ d = c
      BY <3>2, PipeTypes
    <3>6. \A i, j \in 1..Len(pipe') : pipe'[i] = pipe'[j] => i = j
      BY <2>1, <3>2, <3>3, PipeTypes DEF Stream
    <3>7. \A i \in 1..Len(pipe'), j \in 1..Len(received) : pipe'[i] # received[j]
      BY <2>1, <3>2, <3>3, PipeTypes DEF Stream
    <3> QED
      BY <1>0, <2>1, <3>4, <3>5, <3>6, <3>7 DEF Stream
  <2>2. CASE ~(Write(c) /\ piped)
    <3>1. piped => pipe' = pipe
      BY <2>2 DEF Child, Lock, WriteAstray, Unlock, Exit
    <3>2. piped => \A d \in {1, 2} : Sent(d)' <=> Sent(d)
      BY <2>2, PipeTypes DEF Child, Lock, WriteAstray, Unlock, Exit, Sent
    <3> QED
      BY <1>0, <3>1, <3>2 DEF Stream
  <2> QED
    BY <2>1, <2>2
<1> QED
  BY <1>1, <1>2, <1>3, <1>4, <1>5

\* fork, successful or not.
LEMMA PipeForkInv ==
  ASSUME PipeInv,
         Fork(1, "fork1", "fork2") \/ Fork(2, "fork2", "wait1")
  PROVE  PipeInv'
<1> USE PipeTypes DEF PipeInv, Children, None, Fork
<1>1. PipeTypeOK'
  <2>1. UNCHANGED <<pipe, piped, lock, reaped, received>>
    OBVIOUS
  <2>2. ppc' \in {"fork2", "wait1"}
    OBVIOUS
  <2>3. failures' \subseteq Children
    <3>1. failures' \in {failures, failures \cup {1}, failures \cup {2}}
      OBVIOUS
    <3> QED
      BY <3>1 DEF PipeTypeOK
  <2>4. cpc' \in [Children -> {"none", "lock", "write", "unlock", "exit", "zombie", "stuck"}]
    <3>1. \/ cpc' = cpc
          \/ cpc' = [cpc EXCEPT ![1] = "lock"]
          \/ cpc' = [cpc EXCEPT ![2] = "lock"]
      OBVIOUS
    <3> QED
      BY <3>1 DEF PipeTypeOK
  <2> QED
    BY <2>1, <2>2, <2>3, <2>4 DEF PipeTypeOK
<1>2. Family'
  BY DEF Family
<1>3. Printed' /\ Locked'
  BY DEF Printed, Locked, Family
<1>4. \A d \in {1, 2} : Sent(d)' <=> Sent(d)
  BY DEF Sent, Family
<1>5. UNCHANGED <<pipe, piped, received>>
  OBVIOUS
<1>6. Stream'
  BY <1>4, <1>5 DEF Stream
<1> QED
  BY <1>1, <1>2, <1>3, <1>6

\* wait(0): a child that has not been waited for has exited, or there is none.
LEMMA PipeWaitInv ==
  ASSUME PipeInv,
         Wait("wait1", "read1") \/ Wait("wait2", "read2")
  PROVE  PipeInv'
<1> USE PipeTypes DEF PipeInv, Children, None, Wait
<1>0. UNCHANGED <<pipe, piped, lock, cpc, received, failures>>
  OBVIOUS
<1>1. PipeTypeOK'
  BY DEF PipeTypeOK
<1>2. Family'
  <2>1. \A c \in reaped' : cpc[c] = "zombie"
    BY DEF Family
  <2>2. ASSUME failures = {}
        PROVE  IF ppc = "wait1" THEN reaped' # {} ELSE reaped' = {1, 2}
    <3>1. cpc[1] # "none" /\ cpc[2] # "none"
      BY <2>2 DEF Family
    <3>2. CASE \E c \in {1, 2} : c \notin reaped /\ reaped' = reaped \cup {c}
      BY <2>2, <3>2 DEF Family
    <3>3. CASE reaped = {1, 2} /\ reaped' = reaped
      BY <3>3
    <3> QED
      BY <3>1, <3>2, <3>3
  <2> QED
    BY <1>0, <2>1, <2>2 DEF Family
<1>3. Printed'
  BY DEF Printed
<1>4. Locked' /\ Stream'
  BY <1>0 DEF Locked, Stream, Sent
<1> QED
  BY <1>1, <1>2, <1>3, <1>4

\* A read that returns prints once more.
LEMMA PrintedOnce ==
  ASSUME Printed, Len(received') = Len(received) + 1,
         \/ ppc = "read1" /\ ppc' = "wait2"
         \/ ppc = "read2" /\ ppc' = "done"
  PROVE  Printed'
<1>1. CASE ppc = "read1" /\ ppc' = "wait2"
  <2>1. Len(received) = 0
    BY <1>1 DEF Printed
  <2>2. Len(received') = 1
    BY <2>1
  <2> QED
    BY <1>1, <2>2 DEF Printed
<1>2. CASE ppc = "read2" /\ ppc' = "done"
  <2>1. Len(received) = 1
    BY <1>2 DEF Printed
  <2>2. Len(received') = 2
    BY <2>1
  <2> QED
    BY <1>2, <2>2 DEF Printed
<1> QED
  BY <1>1, <1>2

\* read of an indeterminate descriptor: there is no pipe, so nothing moves.
LEMMA PipeReadAstrayInv ==
  ASSUME PipeInv,
         ReadAstray("read1", "wait2") \/ ReadAstray("read2", "done")
  PROVE  PipeInv'
<1> USE PipeTypes DEF PipeInv, Children, None, ReadAstray
<1>0. UNCHANGED <<pipe, piped, lock, cpc, reaped, failures>> /\ ~piped
  OBVIOUS
<1>1. received' = Append(received, 0) \/ received' = received
  OBVIOUS
<1>2. PipeTypeOK'
  <2>1. received' \in Seq({0, 1, 2}) /\ {0, 1, 2} = {1, 2} \cup {0}
    BY <1>1, AppendType
  <2>2. ppc' \in {"wait2", "done", "stuck"}
    OBVIOUS
  <2> QED
    BY <1>0, <2>1, <2>2 DEF PipeTypeOK
<1>3. Family' /\ Locked' /\ Stream'
  BY <1>0 DEF Family, Locked, Stream
<1>4. Printed'
  <2>1. ppc' = "stuck" \/ Len(received') = Len(received) + 1
    OBVIOUS
  <2>2. \/ ppc = "read1" /\ ppc' \in {"wait2", "stuck"}
        \/ ppc = "read2" /\ ppc' \in {"done", "stuck"}
    OBVIOUS
  <2> QED
    BY <2>1, <2>2, PrintedOnce DEF Printed
<1> QED
  BY <1>2, <1>3, <1>4

\* read: the oldest message moves from the pipe to what was printed.
LEMMA PipeReadInv ==
  ASSUME PipeInv,
         Read("read1", "wait2") \/ Read("read2", "done")
  PROVE  PipeInv'
<1> USE DEF PipeInv, Children, None
<1>t. /\ pipe \in Seq({1, 2}) /\ received \in Seq({0, 1, 2})
      /\ Len(pipe) \in Nat /\ Len(received) \in Nat
  BY PipeTypes
<1> USE <1>t
<1>0. /\ UNCHANGED <<piped, lock, cpc, reaped, failures>>
      /\ \/ ppc = "read1" /\ ppc' = "wait2"
         \/ ppc = "read2" /\ ppc' = "done"
  BY DEF Read
<1>1. /\ pipe # <<>> /\ Len(pipe) >= 1 /\ pipe[1] \in {1, 2} /\ piped
      /\ received' = Append(received, pipe[1])
      /\ pipe' = SubSeq(pipe, 2, Len(pipe))
  <2>1. /\ pipe # <<>> /\ received' = Append(received, Head(pipe)) /\ piped
        /\ pipe' = SubSeq(pipe, 1 + 1, Len(pipe))
    BY DEF Read, Takes
  <2>2. Len(pipe) >= 1 /\ Head(pipe) = pipe[1] /\ pipe[1] \in {1, 2}
    BY <2>1
  <2> QED
    BY <2>1, <2>2
<1>3. Len(received') = Len(received) + 1
  <2>1. received' = Append(received, pipe[1]) /\ pipe[1] \in {0, 1, 2}
    BY <1>1
  <2> QED
    BY <2>1
<1>4. PipeTypeOK'
  <2>1. pipe' \in Seq({1, 2})
    BY <1>1, TailType
  <2>2. received' \in Seq({1, 2} \cup {0})
    <3>1. pipe[1] \in {0, 1, 2} /\ received' = Append(received, pipe[1])
      BY <1>1
    <3>2. received' \in Seq({0, 1, 2}) /\ {0, 1, 2} = {1, 2} \cup {0}
      BY <3>1, AppendType
    <3> QED
      BY <3>2
  <2>3. ppc' \in {"wait2", "done"}
    BY <1>0
  <2> QED
    BY <1>0, <2>1, <2>2, <2>3 DEF PipeTypeOK
<1>5. Printed'
  BY <1>0, <1>3, PrintedOnce
<1>7. Family' /\ Locked'
  BY <1>0 DEF Family, Locked
<1>6. Stream'
  <2>1. /\ Len(pipe') = Len(pipe) - 1
        /\ \A i \in 1..(Len(pipe) - 1) : pipe'[i] = pipe[i + 1]
    BY <1>1, TailOf
  <2>2. /\ received'[Len(received) + 1] = pipe[1]
        /\ \A i \in 1..Len(received) : received'[i] = received[i]
    <3>1. received' = Append(received, pipe[1]) /\ pipe[1] \in {0, 1, 2}
      BY <1>1
    <3> QED
      BY <3>1
  <2>3. \A d \in {1, 2} : Sent(d)' <=> Sent(d)
    BY <1>0 DEF Sent
  <2>4. \A d \in {1, 2} :
          (\E i \in 1..Len(pipe) : pipe[i] = d)
            <=> (\E i \in 1..Len(pipe') : pipe'[i] = d) \/ d = pipe[1]
    <3> TAKE d \in {1, 2}
    <3>1. ASSUME NEW i \in 1..Len(pipe), pipe[i] = d, i # 1
          PROVE  \E j \in 1..Len(pipe') : pipe'[j] = d
      <4>1. i - 1 \in 1..Len(pipe') /\ pipe'[i - 1] = d
        BY <2>1, <3>1
      <4> QED
        BY <4>1
    <3>2. ASSUME NEW i \in 1..Len(pipe'), pipe'[i] = d
          PROVE  \E j \in 1..Len(pipe) : pipe[j] = d
      <4>1. i + 1 \in 1..Len(pipe) /\ pipe[i + 1] = d
        BY <2>1, <3>2
      <4> QED
        BY <4>1
    <3>3. 1 \in 1..Len(pipe)
      BY <1>1
    <3> QED
      BY <3>1, <3>2, <3>3
  <2>5. \A d \in {1, 2} :
          (\E i \in 1..Len(received') : received'[i] = d)
            <=> (\E i \in 1..Len(received) : received[i] = d) \/ d = pipe[1]
    BY <1>3, <2>2
  <2>6. \A i, j \in 1..Len(pipe') : pipe'[i] = pipe'[j] => i = j
    <3> SUFFICES ASSUME NEW i \in 1..Len(pipe'), NEW j \in 1..Len(pipe'),
                        pipe'[i] = pipe'[j]
                 PROVE  i = j
      OBVIOUS
    <3>1. i + 1 \in 1..Len(pipe) /\ j + 1 \in 1..Len(pipe) /\ pipe[i + 1] = pipe[j + 1]
      BY <2>1
    <3> QED
      BY <1>1, <3>1 DEF Stream
  <2>7. \A j \in 1..Len(received) : received[j] # pipe[1]
    BY <1>1 DEF Stream
  <2>8. \A i, j \in 1..Len(received') : received'[i] = received'[j] => i = j
    BY <1>1, <1>3, <2>2, <2>7 DEF Stream
  <2>9. \A i \in 1..Len(pipe'), j \in 1..Len(received') : pipe'[i] # received'[j]
    <3> TAKE i \in 1..Len(pipe'), j \in 1..Len(received')
    <3>1. i + 1 \in 1..Len(pipe) /\ pipe'[i] = pipe[i + 1] /\ 1 \in 1..Len(pipe) /\ i + 1 # 1
      BY <1>1, <2>1
    <3>2. pipe[i + 1] # pipe[1]
      BY <1>1, <3>1 DEF Stream
    <3> QED
      BY <1>1, <1>3, <2>2, <3>1, <3>2 DEF Stream
  <2>10. \A i \in 1..Len(received') : received'[i] \in {1, 2}
    <3> TAKE i \in 1..Len(received')
    <3>1. CASE i = Len(received) + 1
      BY <1>1, <2>2, <3>1
    <3>2. CASE i \in 1..Len(received)
      BY <1>1, <2>2, <3>2 DEF Stream
    <3> QED
      BY <1>3, <3>1, <3>2
  <2> QED
    BY <1>0, <1>1, <2>3, <2>4, <2>5, <2>6, <2>8, <2>9, <2>10 DEF Stream
<1> QED
  BY <1>4, <1>5, <1>6, <1>7

LEMMA PipeNextInv ==
  ASSUME PipeInv, [PipeNext]_pipeVars
  PROVE  PipeInv'
<1>1. CASE UNCHANGED pipeVars
  BY <1>1 DEF pipeVars, PipeInv, PipeTypeOK, Family, Printed, Stream, Locked, Sent
<1> QED
  BY <1>1, PipeChildInv, PipeForkInv, PipeWaitInv, PipeReadInv, PipeReadAstrayInv
     DEF PipeNext, Parent, Children

\* Whatever fails in exp1.5, each message sent is in the pipe or printed, once.
THEOREM PipeSafety == PipeSpec => []PipeInv
<1>1. PipeInv /\ [PipeNext]_pipeVars => PipeInv'
  BY PipeNextInv
<1> QED
  BY <1>1, PipeInitInv, PTL DEF PipeSpec

\* A parent of exp1.5 whose pipe and forks succeeded has printed the message of
\* each child when it ends.
THEOREM PipeBothReceived == PipeSpec => []BothReceived
<1>1. PipeInv => BothReceived
  <2> SUFFICES ASSUME PipeInv, ppc = "done", piped
               PROVE  {received[i] : i \in 1..Len(received)} = {1, 2}
    BY DEF BothReceived, Children
  <2>1. Len(received) = 2 /\ 1..2 = {1, 2}
    BY DEF PipeInv, Printed
  <2>2. received[1] \in {1, 2} /\ received[2] \in {1, 2} /\ received[1] # received[2]
    BY <2>1 DEF PipeInv, Stream
  <2> QED
    BY <2>1, <2>2
<1> QED
  BY <1>1, PipeSafety, PTL

\* A read of exp1.5 never finds the pipe empty unless a fork failed: it comes
\* after a wait for one child more than messages were read.
THEOREM PipeReadNeverBlocks == PipeSpec => []ReadNeverBlocks
<1>1. PipeInv => ReadNeverBlocks
  <2> SUFFICES ASSUME PipeInv, ppc \in {"read1", "read2"}, piped, failures = {},
                      pipe = <<>>
               PROVE  FALSE
    BY DEF ReadNeverBlocks
  <2>0. reaped \subseteq {1, 2} /\ Len(pipe) = 0
    BY PipeTypes DEF PipeInv
  <2>1. \A c \in reaped : \E i \in 1..Len(received) : received[i] = c
    <3> TAKE c \in reaped
    <3>1. c \in {1, 2} /\ Sent(c)
      BY <2>0 DEF PipeInv, Family, Sent
    <3> QED
      BY <2>0, <3>1 DEF PipeInv, Stream
  <2>2. CASE ppc = "read1"
    BY <2>1, <2>2 DEF PipeInv, Family, Printed
  <2>3. CASE ppc = "read2"
    <3>1. 1 \in reaped /\ 2 \in reaped /\ Len(received) = 1
      BY <2>3 DEF PipeInv, Family, Printed
    <3> QED
      BY <2>1, <3>1
  <2> QED
    BY <2>2, <2>3
<1> QED
  BY <1>1, PipeSafety, PTL

\* Where a process of exp1.5 is not held up.
ParentCanMove ==
  \/ ppc \in {"fork1", "fork2"}
  \/ /\ ppc \in {"wait1", "wait2"}
     /\ LET alive == {c \in {1, 2} : cpc[c] # "none"} \ reaped
        IN  alive = {} \/ \E c \in alive : cpc[c] = "zombie"
  \/ ppc \in {"read1", "read2"} /\ pipe # <<>>

ChildCanMove(c) ==
  \/ cpc[c] = "lock" /\ lock = None
  \/ cpc[c] \in {"write", "unlock", "exit"}

\* Until the parent of exp1.5 ends some process can take a step, unless pipe or a
\* fork failed.
PipeNotStuck ==
  ppc = "done" \/ failures # {} \/ ~piped \/ ParentCanMove \/ \E c \in {1, 2} : ChildCanMove(c)

\* The safety part of ParentEnds: lockf, wait and read never hold up parent and
\* children of exp1.5 all at once, unless pipe or a fork failed.
THEOREM PipeStuckOnlyAfterFailure == PipeSpec => []PipeNotStuck
<1>1. PipeInv /\ ReadNeverBlocks => PipeNotStuck
  <2> SUFFICES ASSUME PipeInv, ReadNeverBlocks PROVE PipeNotStuck
    OBVIOUS
  <2>0. ppc \in {"fork1", "fork2", "wait1", "read1", "wait2", "read2", "done"} \/ ~piped
    BY DEF PipeInv, PipeTypeOK, Locked
  <2> SUFFICES ASSUME ppc \in {"wait1", "wait2"}, piped, ~ParentCanMove
               PROVE  \E c \in {1, 2} : ChildCanMove(c)
    BY <2>0 DEF PipeNotStuck, ParentCanMove, ReadNeverBlocks
  <2>1. PICK c \in {1, 2} : cpc[c] \notin {"none", "zombie"}
    BY DEF ParentCanMove
  <2>2. CASE lock = None
    BY <2>1, <2>2, PipeTypes DEF PipeInv, Locked, ChildCanMove
  <2>3. CASE lock # None
    <3>1. lock \in {1, 2}
      BY <2>3, PipeTypes DEF PipeInv, None
    <3>2. cpc[lock] \in {"write", "unlock"}
      BY <3>1 DEF PipeInv, Locked
    <3> QED
      BY <3>1, <3>2 DEF ChildCanMove
  <2> QED
    BY <2>2, <2>3
<1> QED
  BY <1>1, PipeSafety, PipeReadNeverBlocks, PTL

------------------------------------------------------------------------------
(* CharDev, for any device numbers and users                               *)

CONSTANTS Numbers, Users
VARIABLES dpc, owner, dev, cdev, open

Device == INSTANCE CharDev WITH pc <- dpc

\* A load that device_init reported although cdev_alloc failed: without a cdev,
\* without users, and with a device number that it has given back.
Misloaded ==
  dpc = "loaded" /\ cdev = "NULL" /\ open = {} /\ owner[dev] # "this"

\* The module has one device number from alloc_chrdev_region until it gives it
\* back, and never another.
OneNumber ==
  /\ \A n \in Numbers : owner[n] = "this" => n = dev /\ dpc # "absent"
  /\ dpc \in {"cdev_alloc", "cdev_add"} => owner[dev] = "this"

\* A module of exp4.1 that counts as loaded has a live device under a number of
\* its own, or nothing at all.
LoadedOrMisloaded ==
  dpc = "loaded" => (cdev = "live" /\ owner[dev] = "this") \/ Misloaded

\* What a cdev and an open file have behind them.
CdevOK ==
  /\ cdev = "live" => dpc = "loaded"
  /\ cdev = "allocated" => dpc = "cdev_add"
  /\ open # {} => cdev = "live"

DeviceInv == Device!TypeOK /\ OneNumber /\ LoadedOrMisloaded /\ CdevOK

LEMMA DeviceInitInv == Device!Init => DeviceInv
  BY DEF Device!Init, DeviceInv, Device!TypeOK, OneNumber, LoadedOrMisloaded, CdevOK

LEMMA DeviceNextInv ==
  ASSUME DeviceInv, [Device!Next]_(Device!vars)
  PROVE  DeviceInv'
<1> USE DEF DeviceInv, Device!TypeOK, OneNumber, LoadedOrMisloaded, Misloaded, CdevOK
<1>1. CASE UNCHANGED Device!vars
  BY <1>1 DEF Device!vars
<1>2. CASE Device!CdevAlloc \/ Device!CdevAdd
  BY <1>2 DEF Device!CdevAlloc, Device!CdevAdd
<1>3. CASE Device!CdevAllocFails \/ Device!CdevAddFails \/ Device!Exit
  BY <1>3 DEF Device!CdevAllocFails, Device!CdevAddFails, Device!Exit,
     Device!Unregister, Device!Indeterminate
<1>4. ASSUME NEW n \in Numbers, Device!AllocRegion(n)
      PROVE  DeviceInv'
  BY <1>4 DEF Device!AllocRegion
<1>5. ASSUME NEW n \in Numbers, Device!OtherRegisters(n) \/ Device!OtherUnregisters(n)
      PROVE  DeviceInv'
  BY <1>5 DEF Device!OtherRegisters, Device!OtherUnregisters
<1>6. ASSUME NEW u \in Users, Device!Open(u) \/ Device!Close(u)
      PROVE  DeviceInv'
  BY <1>6 DEF Device!Open, Device!Close
<1> QED
  BY <1>1, <1>2, <1>3, <1>4, <1>5, <1>6 DEF Device!Next

\* In every run of exp4.1 the module holds one device number while it is loading
\* and none when it is absent, and a file is open only on a live device.
THEOREM DeviceSafety == Device!Spec => []DeviceInv
<1>1. DeviceInv /\ [Device!Next]_(Device!vars) => DeviceInv'
  BY DeviceNextInv
<1> QED
  BY <1>1, DeviceInitInv, PTL DEF Device!Spec

\* device_init of exp4.1 returns success without its region in one way only: with
\* no cdev and no users.
THEOREM DeviceLoads == Device!Spec => []LoadedOrMisloaded
<1>1. DeviceInv => LoadedOrMisloaded
  BY DEF DeviceInv
<1> QED
  BY <1>1, DeviceSafety, PTL

\* Another driver of exp4.1's kernel loses its number by its own doing, or when a
\* module that counts as loaded without a device is removed.
NumbersRespected ==
  [][\A n \in Numbers : owner[n] = "other" /\ owner'[n] # "other" =>
        Device!OtherUnregisters(n) \/ (Misloaded /\ n = dev /\ Device!Exit)]_(Device!vars)

\* unregister_chrdev_region, which does not ask whose region it is given, is called
\* by exp4.1 with the number of another driver only by the rmmod of such a module.
THEOREM DeviceNumbersRespected == Device!Spec => NumbersRespected
<1> DEFINE A == \A n \in Numbers : owner[n] = "other" /\ owner'[n] # "other" =>
        Device!OtherUnregisters(n) \/ (Misloaded /\ n = dev /\ Device!Exit)
<1>1. ASSUME DeviceInv, [Device!Next]_(Device!vars)
      PROVE  [A]_(Device!vars)
  <2> SUFFICES ASSUME Device!Next, NEW n \in Numbers, owner[n] = "other",
                      owner'[n] # "other"
               PROVE  Device!OtherUnregisters(n)
                        \/ (Misloaded /\ n = dev /\ Device!Exit)
    BY <1>1
  <2> USE <1>1 DEF DeviceInv, Device!TypeOK, OneNumber, Device!Unregister
  <2>1. CASE Device!CdevAlloc \/ Device!CdevAdd
    BY <2>1 DEF Device!CdevAlloc, Device!CdevAdd
  <2>2. CASE Device!CdevAllocFails \/ Device!CdevAddFails
    BY <2>2 DEF Device!CdevAllocFails, Device!CdevAddFails
  <2>3. CASE Device!Exit
    <3>1. n = dev /\ dpc = "loaded"
      BY <2>3 DEF Device!Exit
    <3> QED
      BY <2>3, <3>1 DEF LoadedOrMisloaded
  <2>4. ASSUME NEW m \in Numbers, Device!AllocRegion(m)
        PROVE  FALSE
    BY <2>4 DEF Device!AllocRegion
  <2>5. ASSUME NEW m \in Numbers, Device!OtherRegisters(m) \/ Device!OtherUnregisters(m)
        PROVE  Device!OtherUnregisters(n)
    <3>1. m = n
      BY <2>5 DEF Device!OtherRegisters, Device!OtherUnregisters
    <3>2. ~Device!OtherRegisters(n)
      BY DEF Device!OtherRegisters
    <3> QED
      BY <2>5, <3>1, <3>2
  <2>6. ASSUME NEW u \in Users, Device!Open(u) \/ Device!Close(u)
        PROVE  FALSE
    BY <2>6 DEF Device!Open, Device!Close
  <2> QED
    BY <2>1, <2>2, <2>3, <2>4, <2>5, <2>6 DEF Device!Next
<1> QED
  BY <1>1, DeviceSafety, PTL DEF NumbersRespected, Device!Spec

------------------------------------------------------------------------------
(* TaskList, for any number of tasks                                       *)

\* The nodes that a walk can stand on, and those that a walk from the head meets.
Listed == on \cup limbo
Ring == on \cup {InitTask}

\* Where a node stands: the head is before the first task when a link starts at
\* it, and behind the last one when a link ends there.
Before(rank, n) == IF n = InitTask THEN -1 ELSE rank[n]
Behind(rank, last, n) == IF n = InitTask THEN last ELSE rank[n]

\* Tasks are ranked by their creation (list_add_tail).  Links lead to higher
\* ranks, those of removed tasks included, and a link between tasks on the list
\* passes no task on the list.
InOrder(rank, last) ==
  /\ \A t \in Listed : rank[t] < last
  /\ \A t, u \in Listed : rank[t] = rank[u] => t = u
  /\ \A n \in Listed \cup {InitTask} :
        /\ next[n] \in Listed \cup {InitTask}
        /\ Before(rank, n) < Behind(rank, last, next[n])
  /\ \A n \in Ring : next[n] \in Ring
  /\ \A n \in Ring, u \in on :
        rank[u] <= Before(rank, n) \/ rank[u] >= Behind(rank, last, next[n])

\* Every node on the list has one predecessor on it.
Linked ==
  /\ \A n \in Ring : \E m \in Ring : next[m] = n
  /\ \A m, n \in Ring : next[m] = next[n] => m = n

\* While the walk lasts: no link of a removed task passes a resident; the
\* residents behind the position are counted; and whatever is counted is behind
\* the position.
WalkOK(rank, last) ==
  pc = "walking" =>
    /\ pos \in Listed \cup {InitTask} /\ lived = Listed /\ resident \subseteq on
    /\ \A n \in limbo, u \in resident :
          rank[u] <= rank[n] \/ rank[u] >= Behind(rank, last, next[n])
    /\ \A u \in resident : rank[u] < Behind(rank, last, pos) => seen[u] = 1
    /\ \A n \in Nodes :
          seen[n] = 1 => n \in Listed /\ rank[n] < Behind(rank, last, pos)

\* Removed tasks are kept only for a walk, and nothing is counted twice.
Tally ==
  /\ pc # "walking" => limbo = {}
  /\ on \cap limbo = {}
  /\ \A n \in Nodes : seen[n] = 0 \/ (seen[n] = 1 /\ n \in lived)
  /\ count = Cardinality({n \in Nodes : seen[n] = 1})

Ranked == \E rank \in [Tasks -> Nat], last \in Nat :
            InOrder(rank, last) /\ WalkOK(rank, last)

TaskInv == TaskTypeOK /\ Linked /\ Tally /\ Ranked

\* The set of the nodes counted is finite.
LEMMA CountedFinite == IsFiniteSet({n \in Nodes : seen[n] = 1})
<1>1. IsFiniteSet(Nodes)
  BY FS_AddElement, TaskAssumption DEF Nodes
<1>2. {n \in Nodes : seen[n] = 1} \subseteq Nodes
  OBVIOUS
<1> QED
  BY <1>1, <1>2, FS_Subset

\* The list is empty and the module is not loaded.
LEMMA TaskInitInv ==
  ASSUME TaskInit
  PROVE  TaskInv
<1> USE TaskAssumption DEF TaskInit, Nodes, Unseen
<1>1. TaskTypeOK
  BY DEF TaskTypeOK
<1>2. Linked
  BY DEF Linked, Ring
<1>3. Tally
  <2>1. {n \in Nodes : seen[n] = 1} = {}
    OBVIOUS
  <2>2. count = Cardinality({n \in Nodes : seen[n] = 1})
    BY <2>1, FS_EmptySet
  <2> QED
    BY <2>2 DEF Tally
<1>4. InOrder([t \in Tasks |-> 0], 1) /\ WalkOK([t \in Tasks |-> 0], 1)
  BY DEF InOrder, WalkOK, Listed, Ring, Before, Behind
<1>5. Ranked
  BY <1>4 DEF Ranked
<1> QED
  BY <1>1, <1>2, <1>3, <1>5 DEF TaskInv

\* insmod: the walk begins at the first task, before every resident.
LEMMA TaskStartInv ==
  ASSUME TaskInv, Start
  PROVE  TaskInv'
<1> USE TaskAssumption DEF TaskInv, Start, Nodes, Unseen
<1>1. TaskTypeOK'
  BY DEF TaskTypeOK
<1>2. Linked'
  BY DEF Linked, Ring
<1>3. Tally'
  <2>1. {n \in Nodes : seen[n] = 1}' = {}
    OBVIOUS
  <2>2. count' = Cardinality({n \in Nodes : seen[n] = 1}')
    BY <2>1, FS_EmptySet
  <2> QED
    BY <2>2 DEF Tally
<1>4. PICK rank \in [Tasks -> Nat], last \in Nat :
         InOrder(rank, last) /\ WalkOK(rank, last)
  BY DEF Ranked
<1>5. InOrder(rank, last)'
  BY <1>4 DEF InOrder, Listed, Ring, Before, Behind
<1>6. limbo = {} /\ on \subseteq Tasks /\ next[InitTask] \in Ring
  BY <1>4 DEF Tally, TaskTypeOK, InOrder, Ring
<1>7. \A u \in on : rank[u] >= Behind(rank, last, next[InitTask])
  <2> TAKE u \in on
  <2>1. rank[u] \in Nat
    BY <1>6
  <2>2. rank[u] <= -1 \/ rank[u] >= Behind(rank, last, next[InitTask])
    BY <1>4 DEF InOrder, Ring, Before
  <2> QED
    BY <2>1, <2>2
<1>8. WalkOK(rank, last)'
  BY <1>6, <1>7 DEF WalkOK, Listed, Ring, Behind
<1> QED
  BY <1>1, <1>2, <1>3, <1>5, <1>8 DEF Ranked

\* The body of list_for_each: the entry at the position is counted for the first
\* time, and no resident lies between it and the next one.
LEMMA TaskVisitInv ==
  ASSUME TaskInv, Visit
  PROVE  TaskInv'
<1> USE TaskAssumption DEF TaskInv, Visit, Visited, Nodes
<1>1. TaskTypeOK'
  BY DEF TaskTypeOK
<1>2. Linked'
  BY DEF Linked, Ring
<1>3. PICK rank \in [Tasks -> Nat], last \in Nat :
         InOrder(rank, last) /\ WalkOK(rank, last)
  BY DEF Ranked
<1>4. InOrder(rank, last)'
  BY <1>3 DEF InOrder, Listed, Ring, Before, Behind
<1>5. /\ pos \in Listed /\ pos \in Tasks /\ rank[pos] \in Nat
      /\ pos \in lived /\ seen[pos] = 0
  BY <1>3 DEF WalkOK, TaskTypeOK, Tally, Behind
<1>6. seen' = [seen EXCEPT ![pos] = 1] /\ seen \in [Nodes -> Nat]
  BY <1>5 DEF TaskTypeOK
<1>7. Tally'
  <2> DEFINE C == {n \in Nodes : seen[n] = 1}
  <2>1. C' = C \cup {pos} /\ pos \notin C
    BY <1>5, <1>6
  <2>2. IsFiniteSet(C)
    BY CountedFinite
  <2>3. Cardinality(C') = Cardinality(C) + 1
    BY <2>1, <2>2, FS_AddElement
  <2>4. count' = Cardinality(C')
    BY <2>3 DEF Tally
  <2> QED
    BY <2>4, <1>5, <1>6 DEF Tally
<1>8. \A t \in Listed : rank[t] \in Nat
  BY DEF Listed, TaskTypeOK
<1>9. /\ next[pos] \in Listed \cup {InitTask}
      /\ rank[pos] < Behind(rank, last, next[pos])
      /\ Behind(rank, last, next[pos]) \in Nat
  BY <1>3, <1>5, <1>8 DEF InOrder, Before, Behind
<1>10. \A u \in resident : /\ u \in on /\ u \in Listed /\ u \in Tasks
                           /\ rank[u] <= rank[pos]
                                \/ rank[u] >= Behind(rank, last, next[pos])
  <2> TAKE u \in resident
  <2>1. u \in on /\ u \in Listed /\ u \in Tasks
    BY <1>3 DEF WalkOK, Listed, TaskTypeOK
  <2>2. CASE pos \in on
    BY <1>3, <1>5, <2>1, <2>2 DEF InOrder, Ring, Before
  <2>3. CASE pos \in limbo
    BY <1>3, <2>1, <2>3 DEF WalkOK
  <2> QED
    BY <1>5, <2>1, <2>2, <2>3 DEF Listed
<1>11. \A u \in resident :
         rank[u] < Behind(rank, last, next[pos]) => seen'[u] = 1
  <2> SUFFICES ASSUME NEW u \in resident, rank[u] < Behind(rank, last, next[pos])
               PROVE  seen'[u] = 1
    OBVIOUS
  <2>1. rank[u] <= rank[pos] /\ rank[u] \in Nat /\ u \in Listed /\ u \in Tasks
    BY <1>10, <1>8, <1>9
  <2>2. CASE rank[u] = rank[pos]
    <3>1. u = pos
      BY <1>3, <1>5, <2>1, <2>2 DEF InOrder
    <3> QED
      BY <1>5, <1>6, <3>1
  <2>3. CASE rank[u] < rank[pos]
    <3>1. seen[u] = 1
      BY <1>3, <1>5, <2>3 DEF WalkOK, Behind
    <3> QED
      BY <1>5, <1>6, <2>1, <3>1
  <2> QED
    BY <1>5, <2>1, <2>2, <2>3
<1>12. \A n \in Nodes :
         seen'[n] = 1 => n \in Listed /\ rank[n] < Behind(rank, last, next[pos])
  <2> SUFFICES ASSUME NEW n \in Nodes, seen'[n] = 1, n # pos
               PROVE  n \in Listed /\ rank[n] < Behind(rank, last, next[pos])
    BY <1>5, <1>9
  <2>1. seen[n] = 1
    BY <1>6
  <2>2. n \in Listed /\ rank[n] < rank[pos]
    BY <1>3, <2>1 DEF WalkOK, Behind
  <2> QED
    BY <1>5, <1>8, <1>9, <2>2
<1>13. WalkOK(rank, last)'
  BY <1>3, <1>9, <1>11, <1>12 DEF WalkOK, Listed, Behind
<1> QED
  BY <1>1, <1>2, <1>4, <1>7, <1>13 DEF Ranked

\* The end of the walk, and rmmod.
LEMMA TaskEndInv ==
  ASSUME TaskInv, Finish \/ Rmmod
  PROVE  TaskInv'
<1> USE TaskAssumption DEF TaskInv, Finish, Rmmod, Nodes
<1>1. TaskTypeOK' /\ Linked'
  BY DEF TaskTypeOK, Linked, Ring
<1>2. Tally'
  <2>1. {n \in Nodes : seen[n] = 1}' = {n \in Nodes : seen[n] = 1}
    OBVIOUS
  <2> QED
    BY <2>1 DEF Tally
<1>3. PICK rank \in [Tasks -> Nat], last \in Nat :
         InOrder(rank, last) /\ WalkOK(rank, last)
  BY DEF Ranked
<1>4. next' = next /\ on' = on /\ limbo' = {} /\ pc' # "walking"
  BY DEF Tally
<1>5. InOrder(rank, last)'
  <2>1. \A n \in Ring : n \in Listed \cup {InitTask} /\ next[n] \in Ring
    BY <1>3 DEF InOrder, Listed, Ring
  <2> QED
    BY <1>3, <1>4, <2>1 DEF InOrder, Listed, Ring, Before, Behind
<1>6. WalkOK(rank, last)'
  BY <1>4 DEF WalkOK
<1> QED
  BY <1>1, <1>2, <1>5, <1>6 DEF Ranked

\* The predecessor that list_add_tail and list_del use is on the list.
LEMMA PrevOnRing ==
  ASSUME Linked, NEW n \in Ring
  PROVE  Prev(n) \in Ring /\ next[Prev(n)] = n
  BY DEF Linked, Ring, Prev

\* fork: the new task gets the highest rank so far.
LEMMA TaskForkInv ==
  ASSUME TaskInv, NEW t \in Tasks, CopyProcess(t)
  PROVE  TaskInv'
<1> USE TaskAssumption DEF TaskInv, Nodes
<1> DEFINE p == Prev(InitTask)
<1>1. p \in Ring /\ next[p] = InitTask
  BY PrevOnRing DEF Ring
<1>2. /\ t \notin on /\ t \notin limbo /\ t # InitTask /\ p # t
      /\ p \in Nodes /\ next \in [Nodes -> Nodes]
      /\ on' = on \cup {t} /\ limbo' = limbo /\ lived' = lived \cup {t}
      /\ UNCHANGED <<pc, pos, count, seen, resident>>
      /\ next' = [next EXCEPT ![t] = InitTask, ![p] = t]
  BY <1>1 DEF CopyProcess, TaskTypeOK, Ring
<1> HIDE DEF p
<1>3. /\ next'[t] = InitTask /\ next'[p] = t
      /\ \A n \in Nodes : n # t /\ n # p => next'[n] = next[n]
  BY <1>2
<1>4. TaskTypeOK'
  BY <1>2 DEF TaskTypeOK
<1>5. Ring' = Ring \cup {t} /\ Ring \subseteq Nodes /\ Listed' = Listed \cup {t}
      /\ Listed \subseteq Tasks /\ t \notin Ring /\ t \notin Listed
  BY <1>2 DEF Ring, Listed, TaskTypeOK
<1>6. PICK rank \in [Tasks -> Nat], last \in Nat :
         InOrder(rank, last) /\ WalkOK(rank, last)
  BY DEF Ranked
<1>7. \A n \in Ring : next[n] \in Ring /\ next[n] # t
  BY <1>5, <1>6 DEF InOrder
<1>8. \A n \in Ring : n # p => next[n] # InitTask /\ next'[n] = next[n]
  BY <1>1, <1>2, <1>3, <1>5 DEF Linked
<1>9. Linked'
  <2>1. \A n \in Ring' : \E m \in Ring' : next'[m] = n
    <3> TAKE n \in Ring'
    <3>1. CASE n = t
      BY <1>1, <1>3, <1>5, <3>1
    <3>2. CASE n = InitTask
      BY <1>3, <1>5, <3>2
    <3>3. CASE n # t /\ n # InitTask
      <4>1. PICK m \in Ring : next[m] = n
        BY <1>5, <3>3 DEF Linked
      <4> QED
        BY <1>1, <1>5, <1>8, <3>3, <4>1
    <3> QED
      BY <3>1, <3>2, <3>3
  <2>2. \A m, n \in Ring' : next'[m] = next'[n] => m = n
    BY <1>1, <1>2, <1>3, <1>5, <1>7, <1>8 DEF Linked
  <2> QED
    BY <2>1, <2>2 DEF Linked
<1>10. Tally'
  <2>1. {n \in Nodes : seen[n] = 1}' = {n \in Nodes : seen[n] = 1}
    BY <1>2
  <2> QED
    BY <1>2, <2>1 DEF Tally
<1> DEFINE r == [rank EXCEPT ![t] = last]
<1>11. /\ r \in [Tasks -> Nat] /\ last + 1 \in Nat /\ r[t] = last
       /\ \A u \in Listed : r[u] = rank[u] /\ rank[u] \in Nat /\ rank[u] < last
  BY <1>5, <1>6 DEF InOrder
<1> HIDE DEF r
<1>12. InOrder(r, last + 1)'
  <2>1. \A u \in Listed' : r[u] < last + 1
    BY <1>5, <1>11
  <2>2. \A u, v \in Listed' : r[u] = r[v] => u = v
    BY <1>5, <1>6, <1>11 DEF InOrder
  <2>3. \A n \in (Listed \cup {InitTask})' :
          /\ next'[n] \in (Listed \cup {InitTask})'
          /\ Before(r, n) < Behind(r, last + 1, next'[n])
    <3> TAKE n \in (Listed \cup {InitTask})'
    <3>1. CASE n = t
      BY <1>2, <1>3, <1>11, <3>1 DEF Before, Behind
    <3>2. CASE n = p
      BY <1>2, <1>3, <1>5, <1>11, <3>2 DEF Before, Behind
    <3>3. CASE n # t /\ n # p
      <4>1. n \in Listed \cup {InitTask} /\ next'[n] = next[n]
        BY <1>3, <1>5, <3>3
      <4>2. /\ next[n] \in Listed \cup {InitTask}
            /\ Before(rank, n) < Behind(rank, last, next[n])
        BY <1>6, <4>1 DEF InOrder
      <4> QED
        BY <1>2, <1>5, <1>11, <4>1, <4>2 DEF Before, Behind
    <3> QED
      BY <3>1, <3>2, <3>3
  <2>4. \A n \in Ring' : next'[n] \in Ring'
    BY <1>1, <1>3, <1>5, <1>7, <1>8 DEF Ring
  <2>5. \A n \in Ring', u \in on' :
          r[u] <= Before(r, n) \/ r[u] >= Behind(r, last + 1, next'[n])
    <3> TAKE n \in Ring', u \in on'
    <3>1. CASE n = t
      BY <1>2, <1>11, <3>1 DEF Before, Listed
    <3>2. CASE n = p
      <4>1. CASE u = t
        BY <1>2, <1>3, <1>11, <3>2, <4>1 DEF Behind
      <4>2. CASE u \in on
        <5>1. rank[u] <= Before(rank, p) \/ rank[u] >= last
          BY <1>1, <1>6, <4>2 DEF InOrder, Behind
        <5>2. u \in Listed /\ (p = InitTask \/ p \in Listed)
          BY <1>1, <4>2 DEF Listed, Ring
        <5> QED
          BY <1>11, <3>2, <5>1, <5>2 DEF Before
      <4> QED
        BY <1>2, <4>1, <4>2
    <3>3. CASE n # t /\ n # p
      <4>1. n \in Ring /\ next'[n] = next[n] /\ next[n] # InitTask /\ next[n] \in Ring
        BY <1>5, <1>7, <1>8, <3>3
      <4>2. next[n] \in Listed /\ (n = InitTask \/ n \in Listed)
        BY <4>1 DEF Ring, Listed
      <4>3. CASE u = t
        BY <1>2, <1>11, <4>1, <4>2, <4>3 DEF Behind
      <4>4. CASE u \in on
        <5>1. rank[u] <= Before(rank, n) \/ rank[u] >= rank[next[n]]
          BY <1>6, <4>1, <4>4 DEF InOrder, Behind
        <5> QED
          BY <1>11, <4>1, <4>2, <4>4, <5>1 DEF Before, Behind, Listed
      <4> QED
        BY <1>2, <4>3, <4>4
    <3> QED
      BY <3>1, <3>2, <3>3
  <2> QED
    BY <2>1, <2>2, <2>3, <2>4, <2>5 DEF InOrder
<1>13. WalkOK(r, last + 1)'
  <2> SUFFICES ASSUME pc = "walking" PROVE WalkOK(r, last + 1)'
    BY <1>2 DEF WalkOK
  <2>1. /\ pos \in Listed \cup {InitTask} /\ lived = Listed /\ resident \subseteq on
        /\ resident \subseteq Listed /\ limbo \subseteq Listed
    BY <1>6 DEF WalkOK, Listed
  <2>2. \A n \in limbo, u \in resident :
          r[u] <= r[n] \/ r[u] >= Behind(r, last + 1, next'[n])
    <3> TAKE n \in limbo, u \in resident
    <3>1. n \in Listed /\ u \in Listed /\ n # t /\ n # p /\ n \in Nodes
      BY <1>1, <1>2, <1>5, <2>1 DEF Tally, Ring
    <3>2. next'[n] = next[n] /\ next[n] \in Listed \cup {InitTask}
      BY <1>3, <1>6, <3>1 DEF InOrder
    <3>3. rank[u] <= rank[n] \/ rank[u] >= Behind(rank, last, next[n])
      BY <1>6 DEF WalkOK
    <3> QED
      BY <1>11, <3>1, <3>2, <3>3 DEF Behind
  <2>3. \A u \in resident : r[u] < Behind(r, last + 1, pos) => seen[u] = 1
    BY <1>6, <1>11, <2>1 DEF WalkOK, Behind
  <2>4. \A n \in Nodes :
          seen[n] = 1 => n \in Listed /\ r[n] < Behind(r, last + 1, pos)
    BY <1>6, <1>11, <2>1 DEF WalkOK, Behind
  <2> QED
    BY <1>2, <1>5, <2>1, <2>2, <2>3, <2>4 DEF WalkOK
<1> QED
  BY <1>4, <1>9, <1>10, <1>11, <1>12, <1>13 DEF Ranked

\* A task is reaped.  Its own link stays, for a walk that stands on it.
LEMMA TaskReapInv ==
  ASSUME TaskInv, NEW t \in Tasks, Reap(t)
  PROVE  TaskInv'
<1> USE TaskAssumption DEF TaskInv, Nodes
<1> DEFINE p == Prev(t)
<1>1. p \in Ring /\ next[p] = t /\ t \in on /\ t \in Ring
  BY PrevOnRing DEF Ring, Reap
<1>2. PICK rank \in [Tasks -> Nat], last \in Nat :
         InOrder(rank, last) /\ WalkOK(rank, last)
  BY DEF Ranked
<1>3. /\ on' = on \ {t} /\ resident' = resident \ {t}
      /\ UNCHANGED <<pc, pos, count, seen, lived>>
      /\ next' = [next EXCEPT ![p] = next[t]]
      /\ limbo' = IF pc = "walking" THEN limbo \cup {t} ELSE limbo
  BY DEF Reap, IrqsOff
<1> HIDE DEF p
<1>4. /\ Ring \subseteq Nodes /\ Ring' = Ring \ {t}
      /\ next \in [Nodes -> Nodes] /\ t # InitTask
      /\ Listed \subseteq Tasks /\ on \subseteq Listed
      /\ Listed' \subseteq Listed
      /\ pc = "walking" => Listed' = Listed
      /\ pc # "walking" => Listed' = on \ {t}
  <2>1. /\ on \subseteq Tasks /\ limbo \subseteq Tasks
        /\ next \in [Nodes -> Nodes]
        /\ pc # "walking" => limbo = {}
    BY DEF TaskTypeOK, Tally
  <2> QED
    BY <1>1, <1>3, <2>1 DEF Ring, Listed
<1>5. /\ next'[p] = next[t]
      /\ \A n \in Nodes : n # p => next'[n] = next[n]
  BY <1>1, <1>3, <1>4
<1>6. TaskTypeOK'
  BY <1>1, <1>3, <1>4 DEF TaskTypeOK
<1>7. \A n \in Listed : rank[n] \in Nat /\ rank[n] < last
  BY <1>2, <1>4 DEF InOrder
<1>8. rank[t] < Behind(rank, last, next[t]) /\ Before(rank, p) < rank[t]
  BY <1>1, <1>2, <1>4 DEF InOrder, Before, Behind, Ring, Listed
<1>9. p # t /\ next[t] # t /\ next[t] \in Ring /\ p \in Ring' /\ next[t] \in Ring'
  <2>1. p # t
    BY <1>1, <1>4, <1>7, <1>8 DEF Before
  <2>2. next[t] # t
    BY <1>1, <1>4, <1>7, <1>8 DEF Behind
  <2>3. next[t] \in Ring
    BY <1>1, <1>2 DEF InOrder
  <2> QED
    BY <1>1, <1>4, <2>1, <2>2, <2>3
<1>10. \A n \in Ring : n # p => next[n] # t
  BY <1>1 DEF Linked
<1>11. Linked'
  <2>1. \A n \in Ring' : \E m \in Ring' : next'[m] = n
    <3> TAKE n \in Ring'
    <3>1. CASE n = next[t]
      BY <1>5, <1>9, <3>1
    <3>2. CASE n # next[t]
      <4>1. PICK m \in Ring : next[m] = n
        BY <1>4 DEF Linked
      <4>2. m # t /\ m # p
        BY <1>1, <1>4, <3>2, <4>1
      <4> QED
        BY <1>4, <1>5, <4>1, <4>2
    <3> QED
      BY <3>1, <3>2
  <2>2. \A m, n \in Ring' : next'[m] = next'[n] => m = n
    BY <1>1, <1>4, <1>5, <1>9 DEF Linked
  <2> QED
    BY <2>1, <2>2 DEF Linked
<1>12. Tally'
  <2>1. {n \in Nodes : seen[n] = 1}' = {n \in Nodes : seen[n] = 1}
    BY <1>3
  <2> QED
    BY <1>3, <2>1 DEF Tally
<1>13. InOrder(rank, last)'
  <2>1. \A u \in Listed' : rank[u] < last
    BY <1>4, <1>7
  <2>2. \A u, v \in Listed' : rank[u] = rank[v] => u = v
    BY <1>2, <1>4 DEF InOrder
  <2>3. \A n \in Ring' : next'[n] \in Ring'
    BY <1>2, <1>4, <1>5, <1>9, <1>10 DEF InOrder
  <2>4. \A n \in (Listed \cup {InitTask})' :
          /\ next'[n] \in (Listed \cup {InitTask})'
          /\ Before(rank, n) < Behind(rank, last, next'[n])
    <3> TAKE n \in (Listed \cup {InitTask})'
    <3>1. n \in Listed \cup {InitTask} /\ n \in Nodes
      BY <1>4
    <3>2. /\ next[n] \in Listed \cup {InitTask}
          /\ Before(rank, n) < Behind(rank, last, next[n])
      BY <1>2, <3>1 DEF InOrder
    <3>3. next'[n] \in (Listed \cup {InitTask})'
      <4>1. CASE pc = "walking"
        BY <1>4, <1>5, <1>9, <3>2, <3>1, <4>1 DEF Ring, Listed
      <4>2. CASE pc # "walking"
        <5>1. n \in Ring' /\ Ring' = (Listed \cup {InitTask})'
          BY <1>4, <4>2 DEF Ring
        <5> QED
          BY <2>3, <5>1
      <4> QED
        BY <4>1, <4>2
    <3>4. CASE n = p
      <4>1. (p = InitTask \/ p \in Listed) /\ (next[t] = InitTask \/ next[t] \in Listed)
        BY <1>1, <1>4, <1>9 DEF Ring
      <4>2. Before(rank, p) \in Int /\ Behind(rank, last, next[t]) \in Int /\ rank[t] \in Int
        BY <1>1, <1>4, <1>7, <4>1 DEF Before, Behind
      <4> QED
        BY <1>5, <1>8, <3>3, <3>4, <4>2
    <3>5. CASE n # p
      BY <1>5, <3>1, <3>2, <3>3, <3>5
    <3> QED
      BY <3>4, <3>5
  <2>5. \A n \in Ring', u \in on' :
          rank[u] <= Before(rank, n) \/ rank[u] >= Behind(rank, last, next'[n])
    <3> TAKE n \in Ring', u \in on'
    <3>1. u \in on /\ u # t /\ u \in Listed /\ n \in Ring /\ n \in Nodes
      BY <1>3, <1>4
    <3>2. CASE n = p
      <4>1. rank[u] <= Before(rank, p) \/ rank[u] >= rank[t]
        BY <1>1, <1>2, <1>4, <3>1 DEF InOrder, Behind
      <4>2. rank[u] <= rank[t] \/ rank[u] >= Behind(rank, last, next[t])
        BY <1>1, <1>2, <1>4, <3>1 DEF InOrder, Before
      <4>3. rank[u] # rank[t] /\ rank[u] \in Nat /\ rank[t] \in Nat
        BY <1>1, <1>2, <1>4, <1>7, <3>1 DEF InOrder
      <4> QED
        BY <1>5, <3>2, <4>1, <4>2, <4>3
    <3>3. CASE n # p
      BY <1>2, <1>5, <3>1, <3>3 DEF InOrder
    <3> QED
      BY <3>2, <3>3
  <2> QED
    BY <2>1, <2>2, <2>3, <2>4, <2>5 DEF InOrder
<1>14. WalkOK(rank, last)'
  <2> SUFFICES ASSUME pc = "walking" PROVE WalkOK(rank, last)'
    BY <1>3 DEF WalkOK
  <2>1. /\ pos \in Listed \cup {InitTask} /\ lived = Listed /\ resident \subseteq on
        /\ resident' \subseteq on' /\ Listed' = Listed /\ limbo' = limbo \cup {t}
    BY <1>2, <1>3, <1>4 DEF WalkOK
  <2>2. \A n \in limbo', u \in resident' :
          rank[u] <= rank[n] \/ rank[u] >= Behind(rank, last, next'[n])
    <3> TAKE n \in limbo', u \in resident'
    <3>1. u \in on /\ u \in resident
      BY <1>3, <2>1
    <3>2. CASE n = t
      BY <1>1, <1>2, <1>4, <1>5, <1>9, <3>1, <3>2 DEF InOrder, Before
    <3>3. CASE n \in limbo
      <4>1. n # p /\ n \in Nodes
        BY <1>1, <3>3 DEF Tally, Ring, TaskTypeOK
      <4> QED
        BY <1>2, <1>5, <3>1, <3>3, <4>1 DEF WalkOK
    <3> QED
      BY <2>1, <3>2, <3>3
  <2> QED
    BY <1>2, <1>3, <2>1, <2>2 DEF WalkOK
<1> QED
  BY <1>6, <1>11, <1>12, <1>13, <1>14 DEF Ranked

LEMMA TaskNextInv ==
  ASSUME TaskInv, [TaskNext]_taskVars
  PROVE  TaskInv'
<1>1. CASE UNCHANGED taskVars
  BY <1>1 DEF taskVars, TaskInv, TaskTypeOK, Linked, Tally, Ranked,
     InOrder, WalkOK, Listed, Ring
<1> QED
  BY <1>1, TaskStartInv, TaskVisitInv, TaskEndInv, TaskForkInv, TaskReapInv DEF TaskNext

\* While the module walks the list of processes, whatever is created and reaped,
\* links lead from older to younger processes.
THEOREM TaskSafety == TaskSpec => []TaskInv
<1>1. TaskInit => TaskInv
  BY TaskInitInv
<1>2. TaskInv /\ [TaskNext]_taskVars => TaskInv'
  BY TaskNextInv
<1> QED
  BY <1>1, <1>2, PTL DEF TaskSpec

\* list_for_each of exp1_8.c counts every process that exists throughout the
\* walk exactly once.
THEOREM TaskResidentCountedOnce == TaskSpec => []ResidentCountedOnce
<1>1. TaskInv => ResidentCountedOnce
  <2> SUFFICES ASSUME TaskInv, pc = "walking", pos = InitTask, NEW t \in resident
               PROVE  seen[t] = 1
    BY DEF ResidentCountedOnce
  <2>1. PICK rank \in [Tasks -> Nat], last \in Nat :
           InOrder(rank, last) /\ WalkOK(rank, last)
    BY DEF TaskInv, Ranked
  <2> QED
    BY <2>1 DEF InOrder, WalkOK, Behind, Listed
<1> QED
  BY <1>1, TaskSafety, PTL

\* What list_for_each of exp1_8.c counts is the processes that existed at some
\* time of the walk, each at most once, and the total is their number.
THEOREM TaskCountedLived == TaskSpec => []CountedLived
<1>1. TaskInv => CountedLived
  <2> SUFFICES ASSUME TaskInv PROVE CountedLived
    OBVIOUS
  <2>1. \A n \in Nodes : seen[n] <= (IF n \in lived THEN 1 ELSE 0)
    BY DEF TaskInv, Tally
  <2> QED
    BY <2>1 DEF TaskInv, Tally, CountedLived
<1> QED
  BY <1>1, TaskSafety, PTL

\* The walk of exp1_8.c stands on the head or on a task that is not freed.
WalkInMemory == pc = "walking" => pos \in on \cup limbo \cup {InitTask}

\* Though the lock of exp1_8.c protects nothing, list_for_each never follows a link
\* of a task that has been freed.
THEOREM TaskWalkInMemory == TaskSpec => []WalkInMemory
<1>1. TaskInv => WalkInMemory
  BY DEF TaskInv, Ranked, WalkOK, Listed, WalkInMemory
<1> QED
  BY <1>1, TaskSafety, PTL
==============================================================================
