------------------------------- MODULE PipeDemo -------------------------------
(***************************************************************************)
(* exp1/exp1.5.c: a parent forks two children, each writes one message of  *)
(* 50 bytes to a pipe under lockf, and the parent twice waits for a child  *)
(* and reads 50 bytes.  The results of pipe, fork, wait and read are not   *)
(* looked at.  A message is smaller than PIPE_BUF and two of them than the *)
(* pipe, so a write is atomic and does not block.                          *)
(* When pipe fails, fd[] stays as it was, uninitialised: the descriptors   *)
(* may be closed or any open ones (fd[0] the terminal, say), so that each  *)
(* later call may fail, succeed or block for ever ("stuck").               *)
(***************************************************************************)
EXTENDS Integers, Sequences, FiniteSets

CONSTANT MayFail   \* the calls that may fail: "pipe", "fork"

ASSUME PipeAssumption == MayFail \subseteq {"pipe", "fork"}

Children == {1, 2}
None == 0

VARIABLES pipe,      \* the messages in the pipe; each is its sender
          piped,     \* pipe(2) succeeded
          lock,      \* the child that holds the lockf lock, or None
          cpc,       \* per child: where it stands
          ppc,       \* where the parent stands
          reaped,    \* children the parent has waited for
          received,  \* what the parent printed: a sender, or None for garbage
          failures   \* history: the forks that failed

pipeVars == <<pipe, piped, lock, cpc, ppc, reaped, received, failures>>

PipeInit ==
  /\ pipe = <<>> /\ piped \in (IF "pipe" \in MayFail THEN BOOLEAN ELSE {TRUE})
  /\ lock = None
  /\ cpc = [c \in Children |-> "none"]
  /\ ppc = "fork1"
  /\ reaped = {} /\ received = <<>> /\ failures = {}

------------------------------------------------------------------------------
(* The children                                                            *)

\* lockf(fd[1], F_LOCK, 0).  Of an indeterminate fd[1] it fails at once, takes
\* a lock on some file, or waits for one that a stranger keeps.
Lock(c) ==
  /\ cpc[c] = "lock"
  /\ \/ lock = None /\ lock' = c /\ cpc' = [cpc EXCEPT ![c] = "write"]
     \/ ~piped /\ cpc' \in {[cpc EXCEPT ![c] = s] : s \in {"write", "stuck"}}
              /\ UNCHANGED lock
  /\ UNCHANGED <<pipe, piped, ppc, reaped, received, failures>>

\* Mutant: the second child's text is a copy of the first one's.
MessageCopied(c) == 1
\* sprintf(outpipe, "child c process is sending message!")
Message(c) == c

\* write(fd[1], outpipe, 50)
Write(c) ==
  /\ cpc[c] = "write" /\ piped
  /\ pipe' = Append(pipe, Message(c))
  /\ cpc' = [cpc EXCEPT ![c] = "unlock"]
  /\ UNCHANGED <<piped, lock, ppc, reaped, received, failures>>

\* write(fd[1], ...) of an indeterminate fd[1]: it fails or goes elsewhere, it
\* blocks, or SIGPIPE kills the child, whose lock goes with it.
WriteAstray(c) ==
  /\ cpc[c] = "write" /\ ~piped
  /\ \/ /\ cpc' \in {[cpc EXCEPT ![c] = s] : s \in {"unlock", "stuck"}}
        /\ UNCHANGED lock
     \/ /\ cpc' = [cpc EXCEPT ![c] = "zombie"]
        /\ lock' = IF lock = c THEN None ELSE lock
  /\ UNCHANGED <<pipe, piped, ppc, reaped, received, failures>>

\* lockf(fd[1], F_ULOCK, 0)
Unlock(c) ==
  /\ cpc[c] = "unlock"
  /\ lock' = IF lock = c THEN None ELSE lock
  /\ cpc' = [cpc EXCEPT ![c] = "exit"]
  /\ UNCHANGED <<pipe, piped, ppc, reaped, received, failures>>

Exit(c) ==
  /\ cpc[c] = "exit"
  /\ cpc' = [cpc EXCEPT ![c] = "zombie"]
  /\ UNCHANGED <<pipe, piped, lock, ppc, reaped, received, failures>>

Child(c) == Lock(c) \/ Write(c) \/ WriteAstray(c) \/ Unlock(c) \/ Exit(c)

------------------------------------------------------------------------------
(* The parent                                                              *)

\* fork: -1 is not 0, so after a failure the parent goes on.
Fork(c, from, to) ==
  /\ ppc = from /\ ppc' = to
  /\ \/ cpc' = [cpc EXCEPT ![c] = "lock"] /\ UNCHANGED failures
     \/ /\ "fork" \in MayFail
        /\ failures' = failures \cup {c} /\ UNCHANGED cpc
  /\ UNCHANGED <<pipe, piped, lock, reaped, received>>

\* Mutant: a wait that has a child to wait for returns at once (WNOHANG).
WaitNoHang(from, to) ==
  /\ ppc = from /\ ppc' = to
  /\ \E r \in SUBSET {c \in Children : cpc[c] = "zombie"} : reaped' = reaped \cup r
  /\ UNCHANGED <<pipe, piped, lock, cpc, received, failures>>
\* wait(0) reaps any one child that has exited, and returns at once when there
\* is none left to wait for.
Wait(from, to) ==
  /\ ppc = from /\ ppc' = to
  /\ LET alive == {c \in Children : cpc[c] # "none"} \ reaped
     IN  \/ \E c \in alive : cpc[c] = "zombie" /\ reaped' = reaped \cup {c}
         \/ alive = {} /\ UNCHANGED reaped
  /\ UNCHANGED <<pipe, piped, lock, cpc, received, failures>>

\* Mutant: the read asks for 100 bytes.
TakesBoth == Len(pipe)
\* read(fd[0], inpipe, 50): one message.
Takes == 1

\* It blocks while the pipe is empty: the parent itself holds fd[1] open.
Read(from, to) ==
  /\ ppc = from /\ ppc' = to
  /\ piped /\ pipe # <<>>
  /\ received' = Append(received, Head(pipe))
  /\ pipe' = SubSeq(pipe, Takes + 1, Len(pipe))
  /\ UNCHANGED <<piped, lock, cpc, reaped, failures>>

\* read(fd[0], ...) of an indeterminate fd[0]: the parent prints what is in
\* inpipe, or waits for ever for a descriptor that gives nothing.
ReadAstray(from, to) ==
  /\ ppc = from /\ ~piped
  /\ \/ ppc' = to /\ received' = Append(received, None)
     \/ ppc' = "stuck" /\ UNCHANGED received
  /\ UNCHANGED <<pipe, piped, lock, cpc, reaped, failures>>

Parent ==
  \/ Fork(1, "fork1", "fork2") \/ Fork(2, "fork2", "wait1")
  \/ Wait("wait1", "read1") \/ Read("read1", "wait2") \/ ReadAstray("read1", "wait2")
  \/ Wait("wait2", "read2") \/ Read("read2", "done") \/ ReadAstray("read2", "done")

PipeNext == Parent \/ \E c \in Children : Child(c)

\* Parent and children are scheduled again and again.
PipeSpec ==
  /\ PipeInit /\ [][PipeNext]_pipeVars
  /\ WF_pipeVars(Parent) /\ \A c \in Children : WF_pipeVars(Child(c))

------------------------------------------------------------------------------
(* Properties                                                              *)

\* The pipe of exp1.5 holds whole messages of the two children only, and the
\* lock of lockf has at most one of them as its holder.
PipeTypeOK ==
  /\ pipe \in Seq(Children) /\ piped \in BOOLEAN
  /\ lock \in Children \cup {None}
  /\ cpc \in [Children ->
               {"none", "lock", "write", "unlock", "exit", "zombie", "stuck"}]
  /\ ppc \in {"fork1", "fork2", "wait1", "read1", "wait2", "read2", "done", "stuck"}
  /\ reaped \subseteq Children /\ received \in Seq(Children \cup {None})
  /\ failures \subseteq Children

\* When the parent has printed twice and nothing failed, it has printed the
\* message of each child once.
BothReceived ==
  ppc = "done" /\ piped /\ failures = {} =>
    {received[i] : i \in 1..Len(received)} = Children

\* The parent's reads happen after as many children have exited as it has
\* waited for, so unless a fork failed a read never finds the pipe empty.
ReadNeverBlocks ==
  ppc \in {"read1", "read2"} /\ piped /\ failures = {} => pipe # <<>>

\* The parent ends, unless a fork failed, when a read may block for ever on a
\* pipe that only the parent can write, or pipe failed, when any call may.
ParentEnds == <>(ppc = "done" \/ failures # {} \/ ~piped)
==============================================================================
