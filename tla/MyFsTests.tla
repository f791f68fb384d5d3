------------------------------- MODULE MyFsTests -------------------------------
(***************************************************************************)
(* The repository's user programs run against the shared fifo:             *)
(* course_design/test1.c and test2.c (open O_RDWR, write a message, read   *)
(* up to twice its length back, close) and test1rdonly.c, test2rdonly.c    *)
(* (the same without the write).  Any number of them run at the same time. *)
(* Their buffers are mapped, so no copy faults.                            *)
(***************************************************************************)
EXTENDS MyFsFifo

CONSTANTS MsgLen,         \* sizeof("I am myfs"): 10 in the code
          ReadOnlyTests   \* the testers that are test1rdonly or test2rdonly

ASSUME TestAssumption ==
  /\ MsgLen \in Nat \ {0}
  /\ Readers = Writers \cup ReadOnlyTests   \* test1 and test2 open O_RDWR
  /\ Writers \cap ReadOnlyTests = {}

VARIABLE tpc   \* where each program stands; "wrong" is the exit after "wrong write"

testVars == <<fifoVars, tpc>>

Message == [i \in 1..MsgLen |-> Zero]

TestInit == Init /\ tpc = [t \in Files |-> "open"]

Goto(t, from, to) == tpc[t] = from /\ tpc' = [tpc EXCEPT ![t] = to]

\* open(2) may fail ("wrong open"); the read-only programs go on to the read.
OpenFails(t) == Goto(t, "open", "exited") /\ UNCHANGED fifoVars
OpenSucceeds(t) ==
  /\ Goto(t, "open", IF t \in ReadOnlyTests THEN "read" ELSE "write")
  /\ UNCHANGED fifoVars

CallWrite(t) == Goto(t, "write", "writing") /\ WriteStart(t, Message)

\* Mutant: the length compared with leaves out the terminating zero.
AfterWriteOff(ret) == IF ret # MsgLen - 1 THEN "wrong" ELSE "read"
\* if (ret != len) { printf("wrong write\n"); return -1; }
AfterWrite(ret) == IF ret # MsgLen THEN "wrong" ELSE "read"

WriteReturns(t) == WriteCommit(t) /\ Goto(t, "writing", AfterWrite(last'.ret))

\* Mutant: the read asks for half the message.
ReadCountHalf == MsgLen \div 2
\* read(fd, read_buffer, 2*len)
ReadCount == 2 * MsgLen

\* Mutant: a read blocks until the fifo holds something.
CallReadBlocking(t) ==
  Used > 0 /\ Goto(t, "read", "reading") /\ ReadStart(t, ReadCount)
CallRead(t) == Goto(t, "read", "reading") /\ ReadStart(t, ReadCount)
ReadReturns(t) == ReadCommit(t) /\ Goto(t, "reading", "close")
Close(t) == Goto(t, "close", "exited") /\ UNCHANGED fifoVars

Copies(t) ==
  /\ WriteCopy(t) \/ ReadCopy(t)
  /\ ~fault'[t]
  /\ UNCHANGED tpc

Test(t) ==
  \/ OpenFails(t) \/ OpenSucceeds(t)
  \/ CallWrite(t) \/ Copies(t) \/ WriteReturns(t)
  \/ CallRead(t) \/ ReadReturns(t)
  \/ Close(t)

Finished(t) == tpc[t] \in {"exited", "wrong"}
AllFinished == (\A t \in Files : Finished(t)) /\ UNCHANGED testVars

TestNext == (\E t \in Files : Test(t)) \/ AllFinished

\* Each program is scheduled again and again until it exits.
TestSpec == TestInit /\ [][TestNext]_testVars /\ \A t \in Files : WF_testVars(Test(t))

------------------------------------------------------------------------------
(* Properties                                                              *)

\* No program reports "wrong write": every write(2) of the message moves all of
\* it.  myfs_file_write returns less when the fifo shared by all files is full.
NoWrongWrite == \A t \in Files : tpc[t] # "wrong"

\* Once every program is through and no two calls of a kind have overlapped,
\* nothing is left in the fifo: each program reads at least what it wrote.
DrainedAtEnd ==
  ~raced /\ (\A t \in Files : tpc[t] = "exited") => Used = 0

\* Reads of an empty fifo and writes to a full one return at once, so every
\* program ends whatever the others do.
TestsTerminate == \A t \in Files : <>Finished(t)
==============================================================================
