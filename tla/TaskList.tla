-------------------------------- MODULE TaskList --------------------------------
(***************************************************************************)
(* exp1/exp1_8.c: a module that walks the kernel's list of processes while *)
(* other processors create and reap processes.  The lock it takes is its   *)
(* own and protects nothing, but it turns interrupts off, and the kernel   *)
(* frees a task only when no processor that ran with interrupts off at its *)
(* removal still does (RCU).                                               *)
(*                                                                         *)
(* Links are next pointers; a removed task keeps its own.  The head of     *)
(* the list is init_task.tasks.                                            *)
(***************************************************************************)
EXTENDS Integers, FiniteSets

CONSTANTS Tasks, InitTask

ASSUME TaskAssumption == InitTask \notin Tasks /\ IsFiniteSet(Tasks)

VARIABLES pc,        \* absent, walking or loaded
          next,      \* list_head.next of InitTask and of every task
          on,        \* the tasks on the list
          limbo,     \* removed tasks that the kernel may not free yet
          pos,       \* list, the walk's position
          count,     \* processes counted
          seen,      \* history: how often each list node was counted
          lived,     \* history: tasks on the list at some time of this walk
          resident   \* history: tasks on the list throughout this walk

taskVars == <<pc, next, on, limbo, pos, count, seen, lived, resident>>

Nodes == Tasks \cup {InitTask}
Unseen == [n \in Nodes |-> 0]

\* The node whose next is n, among those on the list.
Prev(n) == CHOOSE m \in on \cup {InitTask} : next[m] = n

TaskInit ==
  /\ pc = "absent" /\ on = {} /\ limbo = {} /\ next = [n \in Nodes |-> InitTask]
  /\ pos = InitTask /\ count = 0 /\ seen = Unseen /\ lived = {} /\ resident = {}

------------------------------------------------------------------------------
(* The module                                                              *)

\* insmod: spin_lock_irqsave, and the first step of list_for_each.
Start ==
  /\ pc = "absent" /\ pc' = "walking"
  /\ pos' = next[InitTask] /\ count' = 0
  /\ seen' = Unseen /\ lived' = on /\ resident' = on
  /\ UNCHANGED <<next, on, limbo>>

\* Mutant: advances before it counts.
VisitedNext == next[pos]
\* The entry that the body of the loop prints and counts.
Visited == pos

Visit ==
  /\ pc = "walking" /\ pos # InitTask
  /\ count' = count + 1 /\ seen' = [seen EXCEPT ![Visited] = @ + 1]
  /\ pos' = next[pos]
  /\ UNCHANGED <<pc, next, on, limbo, lived, resident>>

\* Back at the head: spin_unlock_irqrestore; removed tasks may now be freed.
Finish ==
  /\ pc = "walking" /\ pos = InitTask
  /\ pc' = "loaded" /\ limbo' = {}
  /\ UNCHANGED <<next, on, pos, count, seen, lived, resident>>

Rmmod ==
  /\ pc = "loaded" /\ pc' = "absent"
  /\ UNCHANGED <<next, on, limbo, pos, count, seen, lived, resident>>

\* Mutant: the walk runs with interrupts on and outside a reader section.
IrqsOffNever == FALSE
\* The walk counts as an RCU reader.
IrqsOff == pc = "walking"

------------------------------------------------------------------------------
(* Other processors (external)                                             *)

\* fork: list_add_tail_rcu of a task whose memory is free.
CopyProcess(t) ==
  /\ t \notin on \cup limbo
  /\ next' = [next EXCEPT ![t] = InitTask, ![Prev(InitTask)] = t]
  /\ on' = on \cup {t} /\ lived' = lived \cup {t}
  /\ UNCHANGED <<pc, limbo, pos, count, seen, resident>>

\* A process is reaped: list_del_rcu.
Reap(t) ==
  /\ t \in on
  /\ next' = [next EXCEPT ![Prev(t)] = next[t]]
  /\ on' = on \ {t} /\ resident' = resident \ {t}
  /\ limbo' = IF IrqsOff THEN limbo \cup {t} ELSE limbo
  /\ UNCHANGED <<pc, pos, count, seen, lived>>

TaskNext ==
  \/ Start \/ Visit \/ Finish \/ Rmmod
  \/ \E t \in Tasks : CopyProcess(t) \/ Reap(t)

TaskSpec == TaskInit /\ [][TaskNext]_taskVars

------------------------------------------------------------------------------
(* Properties                                                              *)

\* The position of list_for_each is a node of the list, and links lead to nodes.
TaskTypeOK ==
  /\ pc \in {"absent", "walking", "loaded"} /\ pos \in Nodes
  /\ next \in [Nodes -> Nodes] /\ seen \in [Nodes -> Nat] /\ count \in Nat
  /\ {on, limbo, lived, resident} \subseteq SUBSET Tasks

\* A process that exists from the beginning to the end of the walk is counted
\* exactly once, whatever is created and reaped around it and under the
\* walk's position.
ResidentCountedOnce ==
  pc = "walking" /\ pos = InitTask => \A t \in resident : seen[t] = 1

\* What list_for_each counts is a process that existed at some time of the
\* walk, counted once: never the list head, never a process that was gone
\* before the walk began.  The total it prints is their number.
CountedLived ==
  /\ \A n \in Nodes : seen[n] <= (IF n \in lived THEN 1 ELSE 0)
  /\ count = Cardinality({n \in Nodes : seen[n] = 1})
==============================================================================
