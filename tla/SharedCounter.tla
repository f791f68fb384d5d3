----------------------------- MODULE SharedCounter -----------------------------
(***************************************************************************)
(* exp1/exp1.4.c and exp3/exp3.2.c: threads that increment sharedData      *)
(* under a semaphore until it reaches the limit of each, and a main that   *)
(* creates them, joins them in order and destroys the semaphore.           *)
(* The programs have two threads, with limits 5 and 5 (exp1.4) and 100 and *)
(* 5 (exp3.2).                                                             *)
(***************************************************************************)
EXTENDS Integers

CONSTANTS N,      \* number of threads
          Limit   \* per thread: the value of sharedData at which it exits

Threads == 1..N

ASSUME CounterAssumption == N \in Nat /\ Limit \in [Threads -> Nat]

VARIABLES sem,         \* the semaphore's value
          live,        \* the semaphore is initialised and not destroyed
          sharedData,
          tpc,         \* per thread: where it stands
          reg,         \* per thread: sharedData as it was loaded for the ++
          mpc, k,      \* where main stands, and the thread it creates or joins
          increments   \* history: how many ++ have been completed

vars == <<sem, live, sharedData, tpc, reg, mpc, k, increments>>

\* Mutant: sem_init(&semaphore, 0, 2)
SemValueTwo == 2
\* sem_init(&semaphore, 0, 1)
SemValue == 1

\* The state after sem_init.
Init ==
  /\ sem = SemValue /\ live = TRUE /\ sharedData = 0
  /\ tpc = [t \in Threads |-> "none"]
  /\ reg = [t \in Threads |-> 0]
  /\ mpc = "create" /\ k = 1
  /\ increments = 0

Goto(t, from, to) == tpc[t] = from /\ tpc' = [tpc EXCEPT ![t] = to]

------------------------------------------------------------------------------
(* thread1, thread2                                                        *)

SemWait(t) ==
  /\ Goto(t, "wait", "check")
  /\ sem > 0 /\ sem' = sem - 1
  /\ UNCHANGED <<live, sharedData, reg, mpc, k, increments>>

\* Mutant: the exit condition is sharedData > limit.
AtLimitLate(t) == sharedData > Limit[t]
\* if (sharedData >= 5)
AtLimit(t) == sharedData >= Limit[t]

Check(t) ==
  /\ Goto(t, "check", IF AtLimit(t) THEN "leave" ELSE "load")
  /\ UNCHANGED <<sem, live, sharedData, reg, mpc, k, increments>>

\* sharedData++ is a load and a store.
Load(t) ==
  /\ Goto(t, "load", "store")
  /\ reg' = [reg EXCEPT ![t] = sharedData]
  /\ UNCHANGED <<sem, live, sharedData, mpc, k, increments>>

Store(t) ==
  /\ Goto(t, "store", "post")
  /\ sharedData' = reg[t] + 1
  /\ increments' = increments + 1
  /\ UNCHANGED <<sem, live, reg, mpc, k>>

\* sem_post after sleep(1)
SemPost(t) ==
  /\ Goto(t, "post", "wait")
  /\ sem' = sem + 1
  /\ UNCHANGED <<live, sharedData, reg, mpc, k, increments>>

\* Mutant: the thread exits without releasing the semaphore.
LeaveLocked(t) ==
  /\ Goto(t, "leave", "exited")
  /\ UNCHANGED <<sem, live, sharedData, reg, mpc, k, increments>>
\* sem_post and pthread_exit
Leave(t) ==
  /\ Goto(t, "leave", "exited")
  /\ sem' = sem + 1
  /\ UNCHANGED <<live, sharedData, reg, mpc, k, increments>>

Thread(t) ==
  SemWait(t) \/ Check(t) \/ Load(t) \/ Store(t) \/ SemPost(t) \/ Leave(t)

------------------------------------------------------------------------------
(* main                                                                    *)

\* pthread_create, whose result is not looked at: it may fail.
Create ==
  /\ mpc = "create" /\ k <= N
  /\ \E to \in {"wait", "failed"} : Goto(k, "none", to)
  /\ k' = k + 1
  /\ UNCHANGED <<sem, live, sharedData, reg, mpc, increments>>

Created ==
  /\ mpc = "create" /\ k = N + 1
  /\ mpc' = "join" /\ k' = 1
  /\ UNCHANGED <<sem, live, sharedData, tpc, reg, increments>>

\* Mutant: main does not wait for the thread.
JoinAny ==
  /\ mpc = "join" /\ k <= N
  /\ k' = k + 1
  /\ UNCHANGED <<sem, live, sharedData, tpc, reg, mpc, increments>>
\* pthread_join; after a failed creation it is given an uninitialised thread
\* id, and returns an error or crashes.
Join ==
  /\ mpc = "join" /\ k <= N
  /\ tpc[k] \in {"exited", "failed"}
  /\ k' = k + 1
  /\ UNCHANGED <<sem, live, sharedData, tpc, reg, mpc, increments>>

JoinCrashes ==
  /\ mpc = "join" /\ k <= N
  /\ tpc[k] = "failed"
  /\ mpc' = "crashed"
  /\ UNCHANGED <<sem, live, sharedData, tpc, reg, k, increments>>

\* sem_destroy and the printing of the result.
Destroy ==
  /\ mpc = "join" /\ k = N + 1
  /\ live' = FALSE /\ mpc' = "done"
  /\ UNCHANGED <<sem, sharedData, tpc, reg, k, increments>>

Main == Create \/ Created \/ Join \/ JoinCrashes \/ Destroy

\* When main has returned or crashed the process is gone.
Running == mpc \notin {"done", "crashed"}
Ended == ~Running /\ UNCHANGED vars

Next == (Running /\ (Main \/ \E t \in Threads : Thread(t))) \/ Ended

\* The scheduler runs every thread again and again; nothing is assumed of the
\* order in which the semaphore lets waiting threads in.
Spec ==
  /\ Init /\ [][Next]_vars
  /\ WF_vars(Running /\ Main)
  /\ \A t \in Threads : WF_vars(Running /\ Thread(t))

------------------------------------------------------------------------------
(* Properties                                                              *)

\* The semaphore value and the registers of the threads of exp1.4 and exp3.2
\* are natural numbers, and every thread is at a step of its loop.
TypeOK ==
  /\ sem \in Nat /\ live \in BOOLEAN /\ sharedData \in Nat
  /\ tpc \in [Threads -> {"none", "failed", "wait", "check", "load", "store",
                          "post", "leave", "exited"}]
  /\ reg \in [Threads -> Nat]
  /\ mpc \in {"create", "join", "done", "crashed"} /\ k \in 1..(N + 1)
  /\ increments \in Nat

\* No ++ of any thread is lost, whatever the interleaving of loads and stores.
NoLostUpdate == sharedData = increments

\* When main prints sharedData it is the largest limit of the threads that
\* could be created (0 if none): every thread reached its limit, and none
\* went past it.
FinalValue ==
  mpc = "done" =>
    LET started == {t \in Threads : tpc[t] # "failed"}
    IN  /\ \A t \in started : sharedData >= Limit[t]
        /\ sharedData = 0 \/ \E t \in started : sharedData = Limit[t]

\* sem_destroy comes after the last sem_wait and sem_post of any thread.
DestroyedUnused ==
  ~live => \A t \in Threads : tpc[t] \in {"exited", "failed"}

\* The program ends: no thread waits for ever for the semaphore, and main's
\* joins return, also when one thread leaves much earlier than the other.  (For
\* exp3.2 the exercise asks for an endless loop at the end; the code has none.)
ProgramEnds == <>~Running
==============================================================================
