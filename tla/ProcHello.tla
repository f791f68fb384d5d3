------------------------------- MODULE ProcHello -------------------------------
(***************************************************************************)
(* exp3/exp3.1.c: /proc/hello/world, a file whose content is the buffer    *)
(* PROC_MSG.  Readers open it again and again and call proc_read until it  *)
(* returns 0, as cat does, or give up earlier; writers call proc_write.    *)
(* Nothing locks PROC_MSG or the static variable finished, which tells     *)
(* proc_read that the message has been given out.                          *)
(***************************************************************************)
EXTENDS Integers, FiniteSets, FiniteSetsExt

CONSTANTS Readers, Writers,
          Size,      \* PROC_MSG_LEN: 256 in the code
          Hello,     \* length of the initial message: 14 in the code
          MaxCount   \* bound on the count passed to write

ASSUME ProcAssumption ==
  /\ Size \in Nat \ {0} /\ Hello \in 0..(Size - 1) /\ MaxCount \in Nat

VARIABLES dir, world,  \* /proc/hello and /proc/hello/world exist
          mod,         \* absent, loading or loaded
          createFailed,\* history: a load has failed at proc_create
          msg,         \* PROC_MSG: 0 is the terminator
          finished,
          rpc,         \* per reader: where it stands
          got,         \* per reader: messages received since it opened the file
          upset,       \* history: finished may have been left set (see below)
          wpc, count, pos  \* per writer: where it stands, its count, bytes copied

loadVars == <<dir, world, mod, createFailed>>
readVars == <<rpc, got, upset>>
writeVars == <<wpc, count, pos>>
vars == <<loadVars, readVars, writeVars, msg, finished>>

Cells == 0..(Size - 1)
Terminated == \E i \in Cells : msg[i] = 0
Strlen == Min({i \in Cells : msg[i] = 0})

\* PROC_MSG as it is initialised.
HelloMsg == [i \in Cells |-> IF i < Hello THEN 1 ELSE 0]

Init ==
  /\ dir = FALSE /\ world = FALSE /\ mod = "absent" /\ createFailed = FALSE
  /\ msg = HelloMsg
  /\ finished = 0
  /\ rpc = [r \in Readers |-> "closed"] /\ got = [r \in Readers |-> 0]
  /\ upset = FALSE
  /\ wpc = [w \in Writers |-> "idle"]
  /\ count = [w \in Writers |-> 0] /\ pos = [w \in Writers |-> 0]

------------------------------------------------------------------------------
(* initexp3_1 and exitexp3_1                                               *)

\* proc_mkdir; without memory, or when /proc/hello is there already, it fails
\* and nothing has changed.  A fresh module has fresh static variables.
Mkdir ==
  /\ mod = "absent" /\ ~dir
  /\ dir' = TRUE /\ mod' = "loading"
  /\ msg' = HelloMsg /\ finished' = 0
  /\ UNCHANGED <<world, createFailed, readVars, writeVars>>

\* proc_create; when it fails initexp3_1 returns -ENOMEM as it is.
Create ==
  /\ mod = "loading"
  /\ \/ world' = TRUE /\ mod' = "loaded" /\ UNCHANGED createFailed
     \/ mod' = "absent" /\ createFailed' = TRUE /\ UNCHANGED world
  /\ UNCHANGED <<dir, readVars, writeVars, msg, finished>>

\* done: closed after the end of the file; gone: open, but the entry is removed.
Closed == {"closed", "done"}
\* The reader has the file open.
Reading(r) == rpc[r] \notin Closed \cup {"gone"}

\* No call into the module is in progress; open is between two calls.
Quiet ==
  /\ \A r \in Readers : rpc[r] \in Closed \cup {"open", "gone"}
  /\ \A w \in Writers : wpc[w] = "idle"

\* The files that are open keep pointing to the entry that is removed.
Removed == [r \in Readers |-> IF rpc[r] = "open" THEN "gone" ELSE rpc[r]]

\* Mutant: the directory is left behind.
ExitKeepsDir ==
  /\ mod = "loaded" /\ Quiet
  /\ world' = FALSE /\ mod' = "absent" /\ rpc' = Removed
  /\ UNCHANGED <<dir, createFailed, got, upset, writeVars, msg, finished>>
\* remove_proc_entry, twice; it waits for the calls in progress (external), not
\* for files to be closed, since nothing pins the module.
Exit ==
  /\ mod = "loaded" /\ Quiet
  /\ dir' = FALSE /\ world' = FALSE /\ mod' = "absent" /\ rpc' = Removed
  /\ UNCHANGED <<createFailed, got, upset, writeVars, msg, finished>>

------------------------------------------------------------------------------
(* proc_read                                                               *)

GotoR(r, from, to) == rpc[r] = from /\ rpc' = [rpc EXCEPT ![r] = to]

OpenFile(r) ==
  /\ world /\ rpc[r] \in Closed
  /\ rpc' = [rpc EXCEPT ![r] = "open"] /\ got' = [got EXCEPT ![r] = 0]
  /\ upset' = (upset \/ \E q \in Readers : Reading(q))
  /\ UNCHANGED <<loadVars, writeVars, msg, finished>>

\* The reader gives up before the end of the file.
CloseEarly(r) ==
  /\ GotoR(r, "open", "closed")
  /\ upset' = (upset \/ got[r] # 0)
  /\ UNCHANGED <<loadVars, got, writeVars, msg, finished>>

\* A call on a file whose entry is gone is -EIO (external).
ReadGone(r) ==
  /\ GotoR(r, "gone", "closed")
  /\ UNCHANGED <<loadVars, got, upset, writeVars, msg, finished>>

\* if (finished)
CheckFinished(r) ==
  /\ GotoR(r, "open", IF finished = 1 THEN "eof" ELSE "claim")
  /\ UNCHANGED <<loadVars, got, upset, writeVars, msg, finished>>

\* Mutant: finished stays set after the end of file.
AfterEofKept == finished
AfterEof == 0

\* finished = 0; return 0: the reader is through.
Eof(r) ==
  /\ GotoR(r, "eof", "done")
  /\ finished' = AfterEof
  /\ UNCHANGED <<loadVars, got, upset, writeVars, msg>>

\* Mutant: finished is never set.
ClaimedNever == 0
Claimed == 1

Claim(r) ==
  /\ GotoR(r, "claim", "copy")
  /\ finished' = Claimed
  /\ UNCHANGED <<loadVars, got, upset, writeVars, msg>>

\* copy_to_user(buffer, PROC_MSG, strlen(PROC_MSG))
CopyOut(r) ==
  /\ GotoR(r, "copy", "return")
  /\ UNCHANGED <<loadVars, got, upset, writeVars, msg, finished>>

\* return -EFAULT: finished stays set.
CopyOutFaults(r) ==
  /\ GotoR(r, "copy", "open")
  /\ upset' = TRUE
  /\ UNCHANGED <<loadVars, got, writeVars, msg, finished>>

\* return strlen(PROC_MSG): computed again, and by now perhaps another.  A
\* reader takes 0 for the end of the file.  Messages are counted up to 2.
ReturnMsg(r) ==
  /\ GotoR(r, "return", IF Strlen = 0 THEN "done" ELSE "open")
  /\ got' = [got EXCEPT ![r] = Min({@ + 1, 2})]
  /\ upset' = (upset \/ Strlen = 0)
  /\ UNCHANGED <<loadVars, writeVars, msg, finished>>

\* What a reader does with a file that it has open.
Reads(r) ==
  \/ CloseEarly(r) \/ ReadGone(r) \/ CheckFinished(r) \/ Eof(r) \/ Claim(r)
  \/ CopyOut(r) \/ CopyOutFaults(r) \/ ReturnMsg(r)

------------------------------------------------------------------------------
(* proc_write                                                              *)

GotoW(w, from, to) == wpc[w] = from /\ wpc' = [wpc EXCEPT ![w] = to]

\* Mutant: count > PROC_MSG_LEN
TooLongLate(n) == n > Size
\* count > PROC_MSG_LEN - 1: -EINVAL, and nothing happens.
TooLong(n) == n > Size - 1

WriteCall(w, n) ==
  /\ world /\ ~TooLong(n) /\ GotoW(w, "idle", "copy")
  /\ count' = [count EXCEPT ![w] = n] /\ pos' = [pos EXCEPT ![w] = 0]
  /\ UNCHANGED <<loadVars, readVars, msg, finished>>

\* copy_from_user, a byte at a time; the user may write any bytes.
CopyIn(w, b) ==
  /\ wpc[w] = "copy" /\ pos[w] < count[w]
  /\ msg' = [msg EXCEPT ![pos[w]] = b]
  /\ pos' = [pos EXCEPT ![w] = @ + 1]
  /\ UNCHANGED <<loadVars, readVars, wpc, count, finished>>

\* -EFAULT: what was copied stays, copy_from_user zeroes what it could not copy,
\* and the byte after that is left alone.
CopyInFaults(w) ==
  /\ GotoW(w, "copy", "idle") /\ pos[w] < count[w]
  /\ msg' = [i \in Cells |-> IF i \in pos[w]..(count[w] - 1) THEN 0 ELSE msg[i]]
  /\ UNCHANGED <<loadVars, readVars, count, pos, finished>>

\* PROC_MSG[count] = '\0'; return count
Terminate(w) ==
  /\ GotoW(w, "copy", "idle") /\ pos[w] = count[w]
  /\ msg' = [msg EXCEPT ![count[w]] = 0]
  /\ UNCHANGED <<loadVars, readVars, count, pos, finished>>

Writer(w) ==
  \/ \E n \in 0..MaxCount : WriteCall(w, n)
  \/ \E b \in {0, 1} : CopyIn(w, b)
  \/ CopyInFaults(w) \/ Terminate(w)

Next ==
  \/ Mkdir \/ Create \/ Exit
  \/ \E r \in Readers : OpenFile(r) \/ Reads(r)
  \/ \E w \in Writers : Writer(w)

\* A reader that has the file open goes on; nobody has to open it, to write, to
\* load or to unload.
Spec ==
  /\ Init /\ [][Next]_vars
  /\ \A r \in Readers : WF_vars(Reads(r))

------------------------------------------------------------------------------
(* Properties                                                              *)

\* PROC_MSG, finished and the positions of readers and writers of exp3.1 stay
\* in range: no write reaches past the buffer.
TypeOK ==
  /\ dir \in BOOLEAN /\ world \in BOOLEAN /\ createFailed \in BOOLEAN
  /\ mod \in {"absent", "loading", "loaded"}
  /\ msg \in [Cells -> {0, 1}] /\ finished \in {0, 1}
  /\ rpc \in [Readers -> {"closed", "open", "gone", "eof", "claim", "copy",
                          "return", "done"}]
  /\ got \in [Readers -> 0..2] /\ upset \in BOOLEAN
  /\ wpc \in [Writers -> {"idle", "copy"}]
  /\ count \in [Writers -> 0..MaxCount] /\ pos \in [Writers -> 0..MaxCount]

\* PROC_MSG holds a terminator at every instant, also in the middle of writes
\* that overlap or fault: strlen in proc_read stays inside the buffer.
MsgTerminated == Terminated

\* As long as readers take turns, none gives up half way or gets -EFAULT, and
\* none finds the message empty, each of them receives exactly one message
\* before the end of the file, through any number of readers, loads and
\* concurrent writes: proc_read leaves finished as it found it.
LoneReaderGetsOnce == ~upset => \A r \in Readers : rpc[r] = "done" => got[r] = 1

\* /proc/hello exists without the module only after proc_create has failed.
DirLeftOnlyByFailure == mod = "absent" /\ dir => createFailed

\* A reader comes to the end of the file, unless for ever another one takes it
\* away by finding finished set first; neither writes, faults, empty messages
\* nor unloads can keep it reading.
ReadersEnd ==
  \A r \in Readers :
    \/ []<>(rpc[r] \in Closed)
    \/ \E q \in Readers \ {r} : []<>(rpc[q] = "eof")
==============================================================================
