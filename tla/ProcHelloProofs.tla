---------------------------- MODULE ProcHelloProofs ----------------------------
(***************************************************************************)
(* Proofs about ProcHello, for any size of the buffer and any number of    *)
(* readers and writers.                                                    *)
(***************************************************************************)
EXTENDS ProcHello, WellFoundedInduction, TLAPS

\* A writer that has passed the length test stays below the last byte, which
\* therefore remains the terminator it is initialised to.
LastByte ==
  /\ msg[Size - 1] = 0
  /\ \A w \in Writers :
       wpc[w] = "copy" => count[w] <= Size - 1 /\ pos[w] <= count[w]

\* Without its entry the file is not open and not being written.
NeedsFile ==
  /\ world => mod = "loaded"
  /\ ~world => /\ \A r \in Readers : ~Reading(r)
               /\ \A w \in Writers : wpc[w] = "idle"

\* What a reader has received where it stands, and what finished says.
GotSoFar(r) ==
  \/ rpc[r] \in {"closed", "gone"}
  \/ rpc[r] = "open" /\ got[r] = finished
  \/ rpc[r] = "eof" /\ got[r] = 1
  \/ rpc[r] = "claim" /\ got[r] = 0
  \/ rpc[r] \in {"copy", "return"} /\ got[r] = 0 /\ finished = 1
  \/ rpc[r] = "done" /\ got[r] = 1

\* Readers that take turns and go on to the end: one at a time has the file
\* open, and finished is clear when none has.
Turns ==
  ~upset =>
    /\ \A q, r \in Readers : Reading(q) /\ Reading(r) => q = r
    /\ mod # "absent" /\ (\A r \in Readers : ~Reading(r)) => finished = 0
    /\ \A r \in Readers : GotSoFar(r)

ProcInv == TypeOK /\ LastByte /\ NeedsFile /\ Turns /\ DirLeftOnlyByFailure

------------------------------------------------------------------------------
(* The operators                                                           *)

\* A set of lengths that is not empty has a least one.
LEMMA MinFacts ==
  ASSUME NEW T, T \subseteq Nat, T # {}
  PROVE  Min(T) \in T /\ \A k \in T : Min(T) <= k
<1> DEFINE R == {ss \in Nat \X Nat : ss[1] < ss[2]}
<1>1. IsWellFoundedOn(R, Nat)
  BY NatLessThanWellFounded, Zenon DEF OpToRel
<1>2. PICK m \in T : \A k \in T : ~(<<k, m>> \in R)
  <2> HIDE DEF R
  <2> QED BY <1>1, WFMin
<1>3. \A k \in T : ~(k < m)
  BY <1>2
<1>4. \A k \in T : m <= k
  <2>1. \A k \in T : k \in Nat /\ m \in Nat
    OBVIOUS
  <2> QED BY <1>3, <2>1
<1> QED
  BY <1>4 DEF Min

\* The least element, once one knows it.
LEMMA MinIs ==
  ASSUME NEW T, T \subseteq Nat, NEW m \in T, \A k \in T : m <= k
  PROVE  Min(T) = m
<1>1. Min(T) \in T /\ \A k \in T : Min(T) <= k
  BY MinFacts
<1>2. Min(T) <= m /\ m <= Min(T) /\ m \in Nat /\ Min(T) \in Nat
  BY <1>1
<1> QED
  BY <1>2

\* The last byte of the buffer is a terminator.
LEMMA LastByteTerminates == LastByte => Terminated
  BY ProcAssumption DEF LastByte, Terminated, Cells

\* Messages are counted up to two.
LEMMA MinTwo ==
  ASSUME NEW n \in 0..2
  PROVE  Min({n + 1, 2}) = IF n = 0 THEN 1 ELSE 2
<1>1. {n + 1, 2} \subseteq Nat
  OBVIOUS
<1>2. CASE n = 0
  <2>1. 1 \in {n + 1, 2} /\ \A k \in {n + 1, 2} : 1 <= k
    BY <1>2
  <2> QED
    BY <1>1, <1>2, <2>1, MinIs
<1>3. CASE n # 0
  <2>1. 2 \in {n + 1, 2} /\ \A k \in {n + 1, 2} : 2 <= k
    BY <1>3
  <2> QED
    BY <1>1, <1>3, <2>1, MinIs
<1> QED
  BY <1>2, <1>3

------------------------------------------------------------------------------
(* Loading and unloading                                                   *)

\* The module is not loaded, the buffer holds the initial message.
LEMMA ProcInit == Init => ProcInv
<1> SUFFICES ASSUME Init PROVE ProcInv
  OBVIOUS
<1> USE ProcAssumption DEF Init
<1>1. TypeOK
  <2>1. msg \in [Cells -> {0, 1}]
    BY DEF HelloMsg
  <2>2. 0 \in 0..MaxCount /\ 0 \in 0..2
    OBVIOUS
  <2> QED
    BY <2>1, <2>2 DEF TypeOK
<1>2. LastByte
  BY DEF LastByte, HelloMsg, Cells
<1>3. NeedsFile /\ DirLeftOnlyByFailure
  BY DEF NeedsFile, Reading, Closed, DirLeftOnlyByFailure
<1>4. Turns
  BY DEF Turns, Reading, Closed, GotSoFar
<1> QED
  BY <1>1, <1>2, <1>3, <1>4 DEF ProcInv

\* initexp3_1: a fresh buffer and a fresh finished, while nobody has the file open.
LEMMA LoadInv ==
  ASSUME ProcInv, Mkdir \/ Create
  PROVE  ProcInv'
<1> USE ProcAssumption DEF ProcInv
<1>1. UNCHANGED <<rpc, got, upset, wpc, count, pos>> /\ ~world
  BY DEF Mkdir, Create, readVars, writeVars, NeedsFile
<1>2. \/ UNCHANGED <<msg, finished>> /\ mod = "loading"
      \/ msg' = HelloMsg /\ finished' = 0
  BY DEF Mkdir, Create
<1>3. TypeOK'
  <2>1. msg' \in [Cells -> {0, 1}] /\ finished' \in {0, 1}
    BY <1>2 DEF TypeOK, HelloMsg
  <2>2. /\ dir' \in BOOLEAN /\ world' \in BOOLEAN /\ createFailed' \in BOOLEAN
        /\ mod' \in {"absent", "loading", "loaded"}
    BY DEF Mkdir, Create, TypeOK
  <2> QED
    BY <1>1, <2>1, <2>2 DEF TypeOK
<1>4. LastByte'
  BY <1>1, <1>2 DEF LastByte, HelloMsg, Cells
<1>5. NeedsFile'
  BY <1>1 DEF Mkdir, Create, NeedsFile, Reading
<1>6. Turns'
  <2>1. \A r \in Readers : ~Reading(r) /\ ~Reading(r)'
    BY <1>1 DEF NeedsFile, Reading
  <2>2. ~upset => finished' = 0 /\ \A r \in Readers : GotSoFar(r)'
    <3>1. SUFFICES ASSUME ~upset PROVE finished' = 0 /\ \A r \in Readers : GotSoFar(r)'
      OBVIOUS
    <3>2. finished' = 0
      BY <1>2, <2>1, <3>1 DEF Turns
    <3> QED
      BY <1>1, <2>1, <3>1, <3>2 DEF Turns, GotSoFar, Reading, Closed
  <2> QED
    BY <1>1, <2>1, <2>2 DEF Turns
<1>7. DirLeftOnlyByFailure'
  BY DEF Mkdir, Create, DirLeftOnlyByFailure
<1> QED
  BY <1>3, <1>4, <1>5, <1>6, <1>7

\* exitexp3_1: files that are open between two calls lose their entry.
LEMMA ExitInv ==
  ASSUME ProcInv, Exit
  PROVE  ProcInv'
<1> USE DEF ProcInv, Exit
<1>1. UNCHANGED <<got, upset, wpc, count, pos, msg, finished, createFailed>>
  BY DEF writeVars
<1>2. \A r \in Readers : rpc'[r] = IF rpc[r] = "open" THEN "gone" ELSE rpc[r]
  BY DEF Removed
<1>3. /\ \A r \in Readers : rpc'[r] \in {"closed", "done", "gone"}
      /\ \A w \in Writers : wpc[w] = "idle"
  BY <1>2 DEF Quiet, Closed
<1>4. TypeOK'
  BY <1>1, <1>3 DEF TypeOK, Removed
<1>5. LastByte' /\ DirLeftOnlyByFailure'
  BY <1>1 DEF LastByte, DirLeftOnlyByFailure
<1>6. NeedsFile'
  BY <1>1, <1>3 DEF NeedsFile, Reading, Closed
<1>7. Turns'
  BY <1>1, <1>2, <1>3 DEF Turns, GotSoFar, Reading, Closed
<1> QED
  BY <1>4, <1>5, <1>6, <1>7

------------------------------------------------------------------------------
(* proc_write                                                              *)

\* A write stays below the last byte, whatever other writers do and whether or
\* not it faults, and does not touch finished.
LEMMA WriterInv ==
  ASSUME ProcInv, NEW w \in Writers, Writer(w)
  PROVE  ProcInv'
<1> USE ProcAssumption DEF ProcInv, GotoW
<1>1. UNCHANGED <<dir, world, mod, createFailed, rpc, got, upset, finished>>
  BY DEF Writer, WriteCall, CopyIn, CopyInFaults, Terminate, loadVars, readVars
<1>2. TypeOK' /\ LastByte'
  <2>1. ASSUME NEW n \in 0..MaxCount, WriteCall(w, n) PROVE TypeOK' /\ LastByte'
    <3>1. /\ count' = [count EXCEPT ![w] = n] /\ pos' = [pos EXCEPT ![w] = 0]
          /\ msg' = msg /\ n <= Size - 1
          /\ wpc' = [wpc EXCEPT ![w] = "copy"]
      BY <2>1 DEF WriteCall, TooLong
    <3> QED
      BY <1>1, <3>1 DEF TypeOK, LastByte
  <2>2. ASSUME NEW b \in {0, 1}, CopyIn(w, b) PROVE TypeOK' /\ LastByte'
    <3>1. /\ wpc[w] = "copy" /\ pos[w] < count[w]
          /\ msg' = [msg EXCEPT ![pos[w]] = b] /\ pos' = [pos EXCEPT ![w] = @ + 1]
          /\ wpc' = wpc /\ count' = count
      BY <2>2 DEF CopyIn
    <3>2. /\ pos[w] \in 0..(Size - 2) /\ pos[w] + 1 \in 0..MaxCount
          /\ pos[w] + 1 <= count[w]
      BY <3>1 DEF TypeOK, LastByte
    <3>3. TypeOK'
      BY <1>1, <3>1, <3>2 DEF TypeOK
    <3>4. LastByte'
      BY <3>1, <3>2 DEF TypeOK, LastByte, Cells
    <3> QED
      BY <3>3, <3>4
  <2>3. CASE CopyInFaults(w)
    <3>1. /\ msg' = [i \in Cells |-> IF i \in pos[w]..(count[w] - 1) THEN 0 ELSE msg[i]]
          /\ wpc' = [wpc EXCEPT ![w] = "idle"] /\ count' = count /\ pos' = pos
      BY <2>3 DEF CopyInFaults
    <3>2. msg' \in [Cells -> {0, 1}] /\ msg'[Size - 1] = 0
      BY <3>1 DEF TypeOK, LastByte, Cells
    <3> QED
      BY <1>1, <3>1, <3>2 DEF TypeOK, LastByte
  <2>4. CASE Terminate(w)
    <3>1. /\ wpc[w] = "copy" /\ msg' = [msg EXCEPT ![count[w]] = 0]
          /\ wpc' = [wpc EXCEPT ![w] = "idle"] /\ count' = count /\ pos' = pos
      BY <2>4 DEF Terminate
    <3>2. TypeOK'
      BY <1>1, <3>1 DEF TypeOK
    <3>3. LastByte'
      BY <3>1 DEF TypeOK, LastByte, Cells
    <3> QED
      BY <3>2, <3>3
  <2> QED
    BY <2>1, <2>2, <2>3, <2>4 DEF Writer
<1>3. NeedsFile'
  <2>1. world
    BY DEF Writer, WriteCall, CopyIn, CopyInFaults, Terminate, NeedsFile
  <2> QED
    BY <1>1, <2>1 DEF NeedsFile
<1>4. Turns' /\ DirLeftOnlyByFailure'
  BY <1>1 DEF Turns, GotSoFar, Reading, DirLeftOnlyByFailure
<1> QED
  BY <1>2, <1>3, <1>4

------------------------------------------------------------------------------
(* proc_read                                                               *)

\* A step of one reader, as the others see it.
LEMMA ReaderMoves ==
  ASSUME TypeOK, NEW r \in Readers, OpenFile(r) \/ Reads(r)
  PROVE  /\ UNCHANGED <<dir, world, mod, createFailed, wpc, count, pos, msg>>
         /\ \A q \in Readers \ {r} : rpc'[q] = rpc[q] /\ got'[q] = got[q]
         /\ ~upset' => ~upset
         /\ OpenFile(r) => world
         /\ ~OpenFile(r) => Reading(r) \/ (rpc[r] = "gone" /\ ~Reading(r)')
<1> USE DEF GotoR
<1>1. UNCHANGED <<dir, world, mod, createFailed, wpc, count, pos, msg>>
  BY DEF Reads, OpenFile, CloseEarly, ReadGone, CheckFinished, Eof, Claim, CopyOut,
     CopyOutFaults, ReturnMsg, loadVars, writeVars
<1>2. \A q \in Readers \ {r} : rpc'[q] = rpc[q] /\ got'[q] = got[q]
  BY DEF Reads, OpenFile, CloseEarly, ReadGone, CheckFinished, Eof, Claim, CopyOut,
     CopyOutFaults, ReturnMsg, TypeOK
<1>3. ~upset' => ~upset
  BY DEF Reads, OpenFile, CloseEarly, ReadGone, CheckFinished, Eof, Claim, CopyOut,
     CopyOutFaults, ReturnMsg
<1>4. OpenFile(r) => world
  BY DEF OpenFile
<1>5. ~OpenFile(r) => Reading(r) \/ (rpc[r] = "gone" /\ ~Reading(r)')
  BY DEF Reads, CloseEarly, ReadGone, CheckFinished, Eof, Claim, CopyOut,
     CopyOutFaults, ReturnMsg, Reading, Closed, TypeOK
<1> QED
  BY <1>1, <1>2, <1>3, <1>4, <1>5

\* The types of what a reader changes.
LEMMA ReaderType ==
  ASSUME ProcInv, NEW r \in Readers, OpenFile(r) \/ Reads(r)
  PROVE  TypeOK'
<1> USE DEF ProcInv, GotoR
<1>1. UNCHANGED <<dir, world, mod, createFailed, wpc, count, pos, msg>>
  BY ReaderMoves
<1>2. rpc' \in [Readers -> {"closed", "open", "gone", "eof", "claim", "copy",
                          "return", "done"}]
  BY DEF Reads, OpenFile, CloseEarly, ReadGone, CheckFinished, Eof, Claim, CopyOut,
     CopyOutFaults, ReturnMsg, TypeOK
<1>3. finished' \in {0, 1} /\ upset' \in BOOLEAN
  BY DEF Reads, OpenFile, CloseEarly, ReadGone, CheckFinished, Eof, Claim, CopyOut,
     CopyOutFaults, ReturnMsg, TypeOK, AfterEof, Claimed
<1>4. got' \in [Readers -> 0..2]
  <2>1. CASE ReturnMsg(r)
    <3>1. got[r] \in 0..2
      BY DEF TypeOK
    <3>2. Min({got[r] + 1, 2}) \in 0..2
      BY <3>1, MinTwo
    <3> QED
      BY <2>1, <3>2 DEF ReturnMsg, TypeOK
  <2>2. CASE ~ReturnMsg(r)
    BY <2>2 DEF Reads, OpenFile, CloseEarly, ReadGone, CheckFinished, Eof, Claim,
       CopyOut, CopyOutFaults, TypeOK
  <2> QED
    BY <2>1, <2>2
<1> QED
  BY <1>1, <1>2, <1>3, <1>4 DEF TypeOK

\* Readers that take turns: what each has received, and finished.
LEMMA ReaderTurns ==
  ASSUME ProcInv, NEW r \in Readers, OpenFile(r) \/ Reads(r)
  PROVE  Turns'
<1> USE DEF ProcInv, GotoR
<1> SUFFICES ASSUME ~upset' PROVE Turns'
  BY DEF Turns
<1>1. /\ ~upset /\ world' = world /\ mod' = mod
      /\ \A q \in Readers \ {r} : rpc'[q] = rpc[q] /\ got'[q] = got[q]
  BY ReaderMoves
<1>2. /\ \A p, q \in Readers : Reading(p) /\ Reading(q) => p = q
      /\ mod # "absent" /\ (\A q \in Readers : ~Reading(q)) => finished = 0
      /\ \A q \in Readers : GotSoFar(q)
  BY <1>1 DEF Turns
<1>3. CASE ReadGone(r)
  <2>1. /\ finished' = finished /\ rpc'[r] = "closed" /\ rpc[r] = "gone"
    BY <1>3 DEF ReadGone, TypeOK
  <2>2. \A q \in Readers : Reading(q)' <=> Reading(q)
    BY <1>1, <2>1 DEF Reading, Closed
  <2>3. \A q \in Readers : GotSoFar(q)'
    BY <1>1, <1>2, <2>1 DEF GotSoFar
  <2> QED
    BY <1>1, <1>2, <2>1, <2>2, <2>3 DEF Turns
<1>4. CASE ~ReadGone(r)
  <2>1. \A q \in Readers \ {r} : ~Reading(q)
    <3>1. CASE OpenFile(r)
      BY <3>1 DEF OpenFile
    <3>2. CASE ~OpenFile(r)
      <4>1. Reading(r)
        BY <1>4, <3>2 DEF Reads, CloseEarly, CheckFinished, Eof, Claim, CopyOut,
           CopyOutFaults, ReturnMsg, Reading, Closed
      <4> QED
        BY <1>2, <4>1
    <3> QED
      BY <3>1, <3>2
  <2>2. \A q \in Readers \ {r} : GotSoFar(q)' /\ ~Reading(q)'
    BY <1>1, <1>2, <2>1 DEF GotSoFar, Reading, Closed
  <2>3. GotSoFar(r)' /\ (~Reading(r)' => finished' = 0)
    <3>1. CASE OpenFile(r)
      <4>1. (\A q \in Readers : ~Reading(q)) /\ mod = "loaded"
        BY <2>1, <3>1 DEF OpenFile, Reading, NeedsFile
      <4>2. finished = 0
        BY <1>2, <4>1
      <4>3. finished' = 0 /\ rpc'[r] = "open" /\ got'[r] = 0
        BY <3>1, <4>2 DEF OpenFile, TypeOK
      <4> QED
        BY <4>3 DEF GotSoFar
    <3>2. CASE CloseEarly(r)
      BY <1>1, <1>2, <3>2 DEF CloseEarly, GotSoFar, TypeOK
    <3>3. CASE CheckFinished(r)
      BY <1>2, <3>3 DEF CheckFinished, GotSoFar, Reading, Closed, TypeOK
    <3>4. CASE Eof(r)
      BY <1>2, <3>4 DEF Eof, AfterEof, GotSoFar, TypeOK
    <3>5. CASE Claim(r)
      BY <1>2, <3>5 DEF Claim, Claimed, GotSoFar, Reading, Closed, TypeOK
    <3>6. CASE CopyOut(r)
      BY <1>2, <3>6 DEF CopyOut, GotSoFar, Reading, Closed, TypeOK
    <3>7. CASE CopyOutFaults(r)
      BY <3>7 DEF CopyOutFaults
    <3>8. CASE ReturnMsg(r)
      <4>1. Strlen # 0
        BY <3>8 DEF ReturnMsg
      <4>2. got[r] = 0 /\ finished = 1
        BY <1>2, <3>8 DEF ReturnMsg, GotSoFar
      <4>3. Min({got[r] + 1, 2}) = 1
        BY <4>2, MinTwo
      <4> QED
        BY <3>8, <4>1, <4>2, <4>3 DEF ReturnMsg, GotSoFar, Reading, Closed, TypeOK
    <3> QED
      BY <1>4, <3>1, <3>2, <3>3, <3>4, <3>5, <3>6, <3>7, <3>8 DEF Reads
  <2> QED
    BY <2>2, <2>3 DEF Turns
<1> QED
  BY <1>3, <1>4

\* A step of proc_read or of the program that calls it.
LEMMA ReaderInv ==
  ASSUME ProcInv, NEW r \in Readers, OpenFile(r) \/ Reads(r)
  PROVE  ProcInv'
<1> USE DEF ProcInv
<1>1. /\ UNCHANGED <<dir, world, mod, createFailed, wpc, count, pos, msg>>
      /\ \A q \in Readers \ {r} : rpc'[q] = rpc[q]
  BY ReaderMoves
<1>2. LastByte' /\ DirLeftOnlyByFailure'
  BY <1>1 DEF LastByte, DirLeftOnlyByFailure
<1>3. NeedsFile'
  <2>1. world \/ ~Reading(r)'
    BY ReaderMoves DEF NeedsFile
  <2> QED
    BY <1>1, <2>1 DEF NeedsFile, Reading
<1> QED
  BY <1>2, <1>3, ReaderTurns, ReaderType

------------------------------------------------------------------------------
(* The theorems                                                            *)

\* Every step of the module, its readers and its writers keeps the invariant.
LEMMA ProcNext == ProcInv /\ [Next]_vars => ProcInv'
<1> SUFFICES ASSUME ProcInv, [Next]_vars PROVE ProcInv'
  OBVIOUS
<1>1. CASE UNCHANGED vars
  BY <1>1 DEF vars, loadVars, readVars, writeVars, ProcInv, TypeOK, LastByte,
     NeedsFile, Turns, Reading, GotSoFar, DirLeftOnlyByFailure
<1> QED
  BY <1>1, LoadInv, ExitInv, ReaderInv, WriterInv DEF Next

\* Through loads and unloads, and reads and writes that nothing locks.
THEOREM ProcSafety == Spec => []ProcInv
  BY ProcInit, ProcNext, PTL DEF Spec

\* strlen in proc_read always finds a terminator inside PROC_MSG.
THEOREM ProcMsgTerminated == Spec => []MsgTerminated
<1>1. ProcInv => MsgTerminated
  BY LastByteTerminates DEF ProcInv, MsgTerminated
<1> QED
  BY <1>1, ProcSafety, PTL

\* Readers that take turns and go on to the end get one message each, through
\* the one static variable finished, whatever is written meanwhile.
THEOREM ProcLoneReader == Spec => []LoneReaderGetsOnce
<1>1. ProcInv => LoneReaderGetsOnce
  BY DEF ProcInv, Turns, GotSoFar, LoneReaderGetsOnce
<1> QED
  BY <1>1, ProcSafety, PTL

\* Only a failed proc_create leaves /proc/hello behind.
THEOREM ProcDirLeft == Spec => []DirLeftOnlyByFailure
<1>1. ProcInv => DirLeftOnlyByFailure
  BY DEF ProcInv
<1> QED
  BY <1>1, ProcSafety, PTL
==============================================================================
