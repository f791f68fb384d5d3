---------------------------- MODULE MyFsFifoProofs ----------------------------
(***************************************************************************)
(* Proofs about MyFsFifo, for every ring size, counter width and number of *)
(* open files, and about the test programs of MyFsTests that use it.  The  *)
(* theorems on the fifo rest on FifoAssumption alone.                      *)
(***************************************************************************)
EXTENDS MyFsTests, FiniteSetTheorems, TLAPS

(***************************************************************************)
(* Arithmetic modulo the ring size and the counter width.                  *)
(***************************************************************************)

\* Division with remainder, for a positive divisor.
LEMMA DivMod ==
  ASSUME NEW a \in Int, NEW m \in Nat \ {0}
  PROVE  /\ a % m \in 0..(m - 1)
         /\ a \div m \in Int
         /\ a = m * (a \div m) + (a % m)
  OBVIOUS

\* The remainder is determined by any such decomposition.
LEMMA ModUnique ==
  ASSUME NEW m \in Nat \ {0}, NEW q \in Int, NEW r \in 0..(m - 1)
  PROVE  (m * q + r) % m = r
  OBVIOUS

\* Adding a multiple of the divisor does not change the remainder.
LEMMA ModShift ==
  ASSUME NEW m \in Nat \ {0}, NEW a \in Int, NEW k \in Int
  PROVE  (a + m * k) % m = a % m
<1> DEFINE q == a \div m
           r == a % m
<1>1. /\ q \in Int
      /\ r \in 0..(m - 1)
      /\ a = m * q + r
  BY DivMod
<1> HIDE DEF q, r
<1>2. a + m * k = m * (q + k) + r
  BY <1>1
<1>3. q + k \in Int
  BY <1>1
<1>4. (m * (q + k) + r) % m = r
  BY <1>1, <1>3, ModUnique
<1> QED
  BY <1>2, <1>4 DEF r

\* Near zero, reduction is at most one addition or subtraction.
LEMMA ModCases ==
  ASSUME NEW m \in Nat \ {0}, NEW a \in Int, -m <= a, a < 2 * m
  PROVE  a % m = IF a < 0 THEN a + m ELSE IF a < m THEN a ELSE a - m
<1>1. ASSUME a < 0 PROVE a % m = a + m
  <2>1. a + m \in 0..(m - 1)
    BY <1>1
  <2>2. a = m * (-1) + (a + m)
    OBVIOUS
  <2> QED
    BY <2>1, <2>2, ModUnique
<1>2. ASSUME 0 <= a, a < m PROVE a % m = a
  <2>1. a \in 0..(m - 1) /\ a = m * 0 + a
    BY <1>2
  <2> QED
    BY <2>1, ModUnique
<1>3. ASSUME m <= a PROVE a % m = a - m
  <2>1. a - m \in 0..(m - 1) /\ a = m * 1 + (a - m)
    BY <1>3
  <2> QED
    BY <2>1, ModUnique
<1> QED
  BY <1>1, <1>2, <1>3

(***************************************************************************)
(* Facts about the constants and the counters.                             *)
(***************************************************************************)

\* The ring is not empty and smaller than the range of the counters.
LEMMA Widths ==
  Size \in Nat \ {0} /\ Modulus \in Nat \ {0} /\ 2 * Size <= Modulus
<1>1. Size \in Nat \ {0} /\ Wraps \in Nat /\ Wraps >= 2
  BY FifoAssumption
<1>2. Size * Wraps \in Nat /\ Size * Wraps >= Size * 2
  BY <1>1
<1> QED
  BY <1>1, <1>2 DEF Modulus

\* Reducing a sum or difference of counters to their width.
LEMMA CounterCases ==
  ASSUME NEW a \in Int, -Modulus <= a, a < 2 * Modulus
  PROVE  a % Modulus = IF a < 0 THEN a + Modulus
                       ELSE IF a < Modulus THEN a ELSE a - Modulus
  BY ModCases, Widths

\* The same for slots.
LEMMA SlotCases ==
  ASSUME NEW a \in Int, -Size <= a, a < Size
  PROVE  a % Size = IF a < 0 THEN a + Size ELSE a
<1>1. a < 2 * Size /\ Size \in Nat \ {0}
  BY Widths
<1> QED
  BY <1>1, ModCases

LEMMA SlotRange == ASSUME NEW a \in Int PROVE a % Size \in 0..(Size - 1)
  BY DivMod, Widths

\* Reducing a counter to its width does not change the slot it points to.
LEMMA SlotOfCounter ==
  ASSUME NEW a \in Int
  PROVE  (a % Modulus) % Size = a % Size
<1> DEFINE q == a \div Modulus
           r == a % Modulus
<1>1. q \in Int /\ r \in Int /\ a = Modulus * q + r
  BY DivMod, Widths
<1> HIDE DEF q, r
<1>2. Wraps * q \in Int /\ Size \in Nat \ {0}
  BY <1>1, FifoAssumption
<1>3. a = r + Size * (Wraps * q)
  BY <1>1, FifoAssumption DEF Modulus
<1>4. a % Size = r % Size
  BY <1>1, <1>2, <1>3, ModShift
<1> QED
  BY <1>4 DEF r

\* Slots are reduced indices: shifting before or after reduction is the same.
LEMMA SlotAdd ==
  ASSUME NEW a \in Int, NEW b \in Int
  PROVE  /\ ((a % Size) + b) % Size = (a + b) % Size
         /\ ((a % Modulus) + b) % Size = (a + b) % Size
<1>1. ASSUME NEW m \in Nat \ {0}, NEW k \in Nat, m = Size * k
      PROVE  ((a % m) + b) % Size = (a + b) % Size
  <2> DEFINE q == a \div m
             r == a % m
  <2>1. q \in Int /\ r \in Int /\ a = m * q + r
    BY DivMod
  <2> HIDE DEF q, r
  <2>2. k * q \in Int /\ Size \in Nat \ {0} /\ r + b \in Int
    BY <1>1, <2>1, FifoAssumption
  <2>3. a + b = (r + b) + Size * (k * q)
    BY <1>1, <2>1, FifoAssumption
  <2>4. (a + b) % Size = (r + b) % Size
    BY <2>2, <2>3, ModShift
  <2> QED
    BY <2>4 DEF r
<1>2. Size = Size * 1
  BY FifoAssumption
<1> QED
  BY <1>1, <1>2, Widths, FifoAssumption DEF Modulus

\* The bytes in the fifo, counted from out, end at in.
LEMMA InIsOutPlusUsed ==
  ASSUME in \in 0..(Modulus - 1), out \in 0..(Modulus - 1), NEW b \in Int
  PROVE  /\ Used \in 0..(Modulus - 1)
         /\ (out + Used + b) % Size = (in + b) % Size
<1>1. Used \in 0..(Modulus - 1)
  BY DivMod, Widths DEF Used
<1>2. (((in - out) % Modulus) + (out + b)) % Size = ((in - out) + (out + b)) % Size
  <2>1. in - out \in Int /\ out + b \in Int
    BY Widths
  <2> QED
    BY <2>1, SlotAdd
<1>3. Used + (out + b) = out + Used + b /\ (in - out) + (out + b) = in + b
  BY <1>1, Widths
<1> QED
  BY <1>1, <1>2, <1>3 DEF Used

\* Moving in forward makes the fifo longer, moving out forward shorter.
LEMMA UsedAfterMove ==
  ASSUME in \in 0..(Modulus - 1), out \in 0..(Modulus - 1), NEW n \in Nat
  PROVE  /\ Used + n <= Size => (((in + n) % Modulus) - out) % Modulus = Used + n
         /\ n <= Used /\ Used <= Size
              => (in - ((out + n) % Modulus)) % Modulus = Used - n
<1>1. Used = IF in - out < 0 THEN in - out + Modulus ELSE in - out
  <2>1. in - out \in Int /\ -Modulus <= in - out /\ in - out < Modulus
    BY Widths
  <2> QED
    BY <2>1, CounterCases, Widths DEF Used
<1>2. Used \in Nat
  BY <1>1, Widths
<1>3. ASSUME Used + n <= Size
      PROVE  (((in + n) % Modulus) - out) % Modulus = Used + n
  <2> DEFINE x == (in + n) % Modulus
  <2>1. n <= Size
    BY <1>2, <1>3, Widths
  <2>2. x = IF in + n < Modulus THEN in + n ELSE in + n - Modulus
    <3>1. in + n \in Int /\ -Modulus <= in + n /\ in + n < 2 * Modulus
      BY <2>1, Widths
    <3> QED
      BY <3>1, CounterCases, Widths
  <2>3. x \in 0..(Modulus - 1)
    BY <2>1, <2>2, Widths
  <2> HIDE DEF x
  <2>4. (x - out) % Modulus = IF x - out < 0 THEN x - out + Modulus ELSE x - out
    <3>1. x - out \in Int /\ -Modulus <= x - out /\ x - out < Modulus
      BY <2>3, Widths
    <3> QED
      BY <3>1, CounterCases, Widths
  <2>5. (x - out) % Modulus = Used + n
    BY <1>1, <1>2, <1>3, <2>2, <2>3, <2>4, Widths
  <2> QED
    BY <2>5 DEF x
<1>4. ASSUME n <= Used, Used <= Size
      PROVE  (in - ((out + n) % Modulus)) % Modulus = Used - n
  <2> DEFINE x == (out + n) % Modulus
  <2>1. n <= Size
    BY <1>2, <1>4, Widths
  <2>2. x = IF out + n < Modulus THEN out + n ELSE out + n - Modulus
    <3>1. out + n \in Int /\ -Modulus <= out + n /\ out + n < 2 * Modulus
      BY <2>1, Widths
    <3> QED
      BY <3>1, CounterCases, Widths
  <2>3. x \in 0..(Modulus - 1)
    BY <2>1, <2>2, Widths
  <2> HIDE DEF x
  <2>4. (in - x) % Modulus = IF in - x < 0 THEN in - x + Modulus ELSE in - x
    <3>1. in - x \in Int /\ -Modulus <= in - x /\ in - x < Modulus
      BY <2>3, Widths
    <3> QED
      BY <3>1, CounterCases, Widths
  <2>5. (in - x) % Modulus = Used - n
    BY <1>1, <1>2, <1>4, <2>2, <2>3, <2>4, Widths
  <2> QED
    BY <2>5 DEF x
<1> QED
  BY <1>3, <1>4

(***************************************************************************)
(* The inductive invariant.                                                *)
(***************************************************************************)

\* A write never claims more than the user passed, a read has copied exactly
\* what it claims.
LengthsOK ==
  \A f \in Files :
    /\ pc[f] \in Writing => len[f] <= Len(buf[f])
    /\ pc[f] = "rcommit" => len[f] = Len(buf[f])

\* raced records every overlap: without it there is one writer and one reader.
Exclusive ==
  ~raced => \A f, g \in Files : f # g =>
    /\ ~(pc[f] \in Writing /\ pc[g] \in Writing)
    /\ ~(pc[f] \in Reading /\ pc[g] \in Reading)

FifoInv ==
  TypeOK /\ LengthsOK /\ Exclusive /\ RingIntact /\ ReadIntact /\ WriteIntact

\* The initial ring is empty and no call is in progress.
LEMMA InitInv == Init => FifoInv
<1> SUFFICES ASSUME Init PROVE FifoInv
  OBVIOUS
<1>1. Zero \in Byte
  BY FifoAssumption DEF Zero
<1>2. TypeOK
  <2>1. in \in 0..(Modulus - 1) /\ out \in 0..(Modulus - 1)
    BY Widths DEF Init
  <2>2. data \in [0..(Size - 1) -> Byte]
    BY <1>1 DEF Init
  <2>3. <<>> \in Seq(Byte)
    OBVIOUS
  <2>4. last \in [bytes : Seq(Byte), ret : Nat \cup {EIO}]
    BY <2>3 DEF Init
  <2> QED
    BY <2>1, <2>2, <2>3, <2>4 DEF Init, TypeOK
<1>3. Used = 0
  BY CounterCases, Widths DEF Init, Used
<1> QED
  BY <1>2, <1>3, Widths DEF Init, FifoInv, LengthsOK, Exclusive, RingIntact,
     ReadIntact, WriteIntact, Writing, Reading

\* A write that starts claims room that is free, and owns it alone.
LEMMA WriteStartInv ==
  ASSUME FifoInv, NEW f \in Files, NEW bytes \in Seq(Byte), WriteStart(f, bytes)
  PROVE  FifoInv'
<1>1. bytes \in Seq(Byte) /\ Len(bytes) \in Nat
  OBVIOUS
<1>2. Used \in 0..(Modulus - 1) /\ Unused \in 0..(Modulus - 1)
  <2>1. Used \in 0..(Modulus - 1)
    BY DivMod, Widths DEF Used, FifoInv, TypeOK
  <2> QED
    BY <2>1, DivMod, Widths DEF Unused
<1>3. Used' = Used
  BY DEF WriteStart, Used
<1>4. Used <= Size => Unused = Size - Used
  <2> SUFFICES ASSUME Used <= Size PROVE Unused = Size - Used
    OBVIOUS
  <2>1. Size - Used \in Int /\ 0 <= Size - Used /\ Size - Used < Modulus
    BY <1>2, Widths
  <2>2. (Size - Used) % Modulus = Size - Used
    BY <2>1, CounterCases, Widths
  <2> QED
    BY <2>2 DEF Unused
<1>5. /\ len' = [len EXCEPT ![f] = WriteClamp(Len(bytes))]
      /\ WriteClamp(Len(bytes)) \in Nat
      /\ WriteClamp(Len(bytes)) <= Len(bytes)
      /\ WriteClamp(Len(bytes)) <= Unused
  BY <1>1, <1>2 DEF WriteStart, WriteClamp, Min2
<1>6. TypeOK'
  BY <1>1, <1>5 DEF FifoInv, TypeOK, WriteStart, Writing
<1>7. LengthsOK'
  BY <1>1, <1>5 DEF FifoInv, TypeOK, LengthsOK, WriteStart, Writing
<1>8. Exclusive'
  BY DEF FifoInv, TypeOK, Exclusive, WriteStart, Writing, Reading
<1>9. RingIntact'
  BY <1>2, <1>3, <1>4, <1>5, Widths
     DEF FifoInv, TypeOK, RingIntact, WriteStart, Writing, Reading
<1>10. ReadIntact'
  BY DEF FifoInv, TypeOK, ReadIntact, WriteStart
<1>11. WriteIntact'
  BY DEF FifoInv, TypeOK, WriteIntact, WriteStart
<1> QED
  BY <1>6, <1>7, <1>8, <1>9, <1>10, <1>11 DEF FifoInv

\* What the copy does, with the end z of the part that it may zero: inside the
\* claimed room.
LEMMA WriteCopyForm ==
  ASSUME FifoInv, NEW f \in Files, WriteCopy(f)
  PROVE  \E bad \in 0..len[f], z \in Int :
         /\ z <= len[f]
         /\ data' = [s \in 0..(Size - 1) |->
                       IF (s - in) % Size < len[f] - bad THEN buf[f][((s - in) % Size) + 1]
                       ELSE IF (s - in) % Size < z THEN Zero ELSE data[s]]
         /\ len' = [len EXCEPT ![f] = len[f] - bad]
         /\ fault' = [fault EXCEPT ![f] = bad > 0]
<1>1. PICK bad \in 0..len[f] :
         /\ data' = [s \in 0..(Size - 1) |->
                       IF (s - in) % Size < len[f] - bad THEN buf[f][((s - in) % Size) + 1]
                       ELSE IF (s - in) % Size < ZeroedTo(f, len[f] - bad) THEN Zero
                       ELSE data[s]]
         /\ len' = [len EXCEPT ![f] = len[f] - bad]
         /\ fault' = [fault EXCEPT ![f] = bad > 0]
  BY DEF WriteCopy
<1>2. len[f] \in Nat /\ Size - (in % Size) \in Int
  <2>1. in \in Int /\ len[f] \in Nat
    BY Widths DEF FifoInv, TypeOK
  <2>2. in % Size \in 0..(Size - 1)
    BY <2>1, SlotRange
  <2> QED
    BY <2>1, <2>2, Widths
<1>3. ZeroedTo(f, len[f] - bad) \in Int /\ ZeroedTo(f, len[f] - bad) <= len[f]
  BY <1>2 DEF ZeroedTo, Min2
<1> QED
  BY <1>1, <1>3

\* Copying into claimed room fills exactly the claimed slots behind in and
\* leaves every unread byte alone.
LEMMA WriteCopySlots ==
  ASSUME FifoInv, ~raced, NEW f \in Files, WriteCopy(f)
  PROVE  /\ \A i \in 1..Used : data'[(out + i - 1) % Size] = data[(out + i - 1) % Size]
         /\ \A i \in 1..(len'[f]) : data'[(in + i - 1) % Size] = buf[f][i]
<1> DEFINE At(s) == (s - in) % Size
<1>1. PICK bad \in 0..len[f], z \in Int :
         /\ z <= len[f]
         /\ data' = [s \in 0..(Size - 1) |->
                       IF At(s) < len[f] - bad THEN buf[f][At(s) + 1]
                       ELSE IF At(s) < z THEN Zero ELSE data[s]]
         /\ len' = [len EXCEPT ![f] = len[f] - bad]
  BY WriteCopyForm
<1> DEFINE n == len[f] - bad
<1>2. /\ len[f] \in Nat
      /\ in \in 0..(Modulus - 1) /\ out \in 0..(Modulus - 1)
      /\ Used \in 0..(Modulus - 1)
      /\ Used <= Size
      /\ len[f] <= Size - Used
  BY InIsOutPlusUsed DEF FifoInv, TypeOK, RingIntact, WriteCopy, Writing
<1>3. n \in Nat /\ n <= Size - Used /\ z <= Size - Used /\ len'[f] = n
  <2>1. n \in Nat /\ n <= Size - Used /\ z <= Size - Used
    <3>1. z <= len[f] /\ z \in Int /\ bad \in 0..len[f]
      BY <1>1
    <3>2. len[f] \in Nat /\ len[f] <= Size - Used /\ Size - Used \in Int
      BY <1>2, Widths
    <3> QED
      BY <3>1, <3>2
  <2>2. len'[f] = n
    BY <1>1 DEF FifoInv, TypeOK
  <2> QED
    BY <2>1, <2>2
<1> HIDE DEF n
<1>4. ASSUME NEW i \in 1..Used
      PROVE  data'[(out + i - 1) % Size] = data[(out + i - 1) % Size]
  <2> DEFINE s == (out + i - 1) % Size
             d == Used - i + 1
  <2>1. s \in 0..(Size - 1)
    <3>1. out + i - 1 \in Int
      BY <1>2, Widths
    <3> QED
      BY <3>1, SlotRange
  <2>2. d \in 1..Size
    BY <1>2, Widths
  <2>3. (out + i - 1) - in \in Int /\ out + i - 1 \in Int /\ -in \in Int
    BY <1>2, Widths
  <2>4. At(s) = ((out + i - 1) + (-in)) % Size
    <3>1. (((out + i - 1) % Size) + (-in)) % Size = ((out + i - 1) + (-in)) % Size
      BY <2>3, SlotAdd
    <3>2. ((out + i - 1) % Size) - in = ((out + i - 1) % Size) + (-in)
      BY <2>1, <1>2, Widths
    <3> QED
      BY <3>1, <3>2
  <2>5. ((out + i - 1) + (-in)) % Size = (-d) % Size
    <3>1. (out + Used + (-in - d)) % Size = (in + (-in - d)) % Size
      BY <1>2, <2>2, InIsOutPlusUsed
    <3>2. /\ out + Used + (-in - d) = (out + i - 1) + (-in)
          /\ in + (-in - d) = -d
      BY <1>2, Widths
    <3> QED
      BY <3>1, <3>2
  <2>6. (-d) % Size = Size - d
    <3>1. -d \in Int /\ -Size <= -d /\ -d < 0 /\ -d < Size /\ -d + Size = Size - d
      BY <2>2, Widths
    <3> HIDE DEF d
    <3> QED
      BY <3>1, SlotCases
  <2>7. ~(At(s) < n) /\ ~(At(s) < z)
    BY <1>2, <1>3, <2>2, <2>4, <2>5, <2>6, Widths
  <2> HIDE DEF s
  <2>8. data'[s] = data[s]
    BY <1>1, <2>1, <2>7 DEF n
  <2> QED
    BY <2>8 DEF s
<1>5. ASSUME NEW i \in 1..n
      PROVE  data'[(in + i - 1) % Size] = buf[f][i]
  <2> DEFINE s == (in + i - 1) % Size
  <2>1. s \in 0..(Size - 1)
    <3>1. in + i - 1 \in Int
      BY <1>2, <1>3, Widths
    <3> QED
      BY <3>1, SlotRange
  <2>2. in + i - 1 \in Int /\ -in \in Int /\ i - 1 \in 0..(Size - 1)
    BY <1>2, <1>3, Widths
  <2>3. At(s) = ((in + i - 1) + (-in)) % Size
    <3>1. (((in + i - 1) % Size) + (-in)) % Size = ((in + i - 1) + (-in)) % Size
      BY <2>2, SlotAdd
    <3>2. ((in + i - 1) % Size) - in = ((in + i - 1) % Size) + (-in)
      BY <2>1, <1>2, Widths
    <3> QED
      BY <3>1, <3>2
  <2>4. (in + i - 1) + (-in) = i - 1
    BY <1>2, <1>3, Widths
  <2>5. (i - 1) % Size = i - 1
    <3>1. i - 1 \in Int /\ -Size <= i - 1 /\ i - 1 < Size /\ ~(i - 1 < 0)
      BY <2>2, Widths
    <3> QED
      BY <3>1, SlotCases
  <2>6. At(s) = i - 1 /\ At(s) < n /\ At(s) + 1 = i
    BY <1>3, <2>3, <2>4, <2>5
  <2> HIDE DEF s
  <2>7. data'[s] = buf[f][i]
    BY <1>1, <2>1, <2>6 DEF n
  <2> QED
    BY <2>7 DEF s
<1> QED
  BY <1>3, <1>4, <1>5

\* The copy keeps the invariant.
LEMMA WriteCopyInv ==
  ASSUME FifoInv, NEW f \in Files, WriteCopy(f)
  PROVE  FifoInv'
<1> DEFINE At(s) == (s - in) % Size
<1>1. PICK bad \in 0..len[f], z \in Int :
         /\ data' = [s \in 0..(Size - 1) |->
                       IF At(s) < len[f] - bad THEN buf[f][At(s) + 1]
                       ELSE IF At(s) < z THEN Zero ELSE data[s]]
         /\ len' = [len EXCEPT ![f] = len[f] - bad]
         /\ fault' = [fault EXCEPT ![f] = bad > 0]
  BY WriteCopyForm
<1>2. len[f] \in Nat /\ len[f] - bad \in Nat /\ len[f] - bad <= len[f]
  BY DEF FifoInv, TypeOK
<1>3. Used' = Used
  BY DEF WriteCopy, Used
<1>4. data' \in [0..(Size - 1) -> Byte]
  <2> SUFFICES ASSUME NEW s \in 0..(Size - 1), At(s) < len[f] - bad
               PROVE  buf[f][At(s) + 1] \in Byte
    <3>1. Zero \in Byte
      BY FifoAssumption DEF Zero
    <3> QED
      BY <1>1, <3>1 DEF FifoInv, TypeOK
  <2>1. At(s) \in Nat
    <3>1. s - in \in Int
      BY Widths DEF FifoInv, TypeOK
    <3>2. (s - in) % Size \in 0..(Size - 1)
      BY <3>1, SlotRange
    <3> QED
      BY <3>2, Widths
  <2>2. len[f] <= Len(buf[f]) /\ buf[f] \in Seq(Byte)
    BY DEF FifoInv, TypeOK, LengthsOK, WriteCopy, Writing
  <2>3. At(s) + 1 \in 1..Len(buf[f])
    BY <1>2, <2>1, <2>2
  <2> QED
    BY <2>2, <2>3
<1>5. TypeOK'
  BY <1>1, <1>2, <1>4 DEF FifoInv, TypeOK, WriteCopy, Writing
<1>6. LengthsOK'
  BY <1>1, <1>2 DEF FifoInv, TypeOK, LengthsOK, WriteCopy, Writing
<1>7. Exclusive'
  BY DEF FifoInv, TypeOK, Exclusive, WriteCopy, Writing, Reading
<1>8. RingIntact'
  <2>1. Used \in 0..(Modulus - 1)
    BY DivMod, Widths DEF Used, FifoInv, TypeOK
  <2> QED
    BY <1>1, <1>2, <1>3, <2>1, Widths
       DEF FifoInv, TypeOK, RingIntact, WriteCopy, Writing, Reading
<1>9. ReadIntact'
  <2> SUFFICES ASSUME ~raced, NEW g \in Files, pc[g] = "rcommit", g # f,
                      NEW i \in 1..len[g]
               PROVE  buf[g][i] = data'[(out + i - 1) % Size]
    BY <1>1 DEF FifoInv, TypeOK, ReadIntact, WriteCopy
  <2>1. i \in 1..Used
    <3>1. len[g] <= Used /\ len[g] \in Nat /\ Used \in Int
      BY DivMod, Widths DEF FifoInv, TypeOK, RingIntact, Reading, Used
    <3> QED
      BY <3>1
  <2> QED
    BY <2>1, WriteCopySlots DEF FifoInv, ReadIntact
<1>10. WriteIntact'
  <2> SUFFICES ASSUME ~raced, NEW g \in Files, pc'[g] = "wcommit",
                      NEW i \in 1..(len'[g])
               PROVE  data'[(in + i - 1) % Size] = buf[g][i]
    BY DEF FifoInv, TypeOK, WriteIntact, WriteCopy
  <2>1. g = f
    BY DEF FifoInv, TypeOK, Exclusive, WriteCopy, Writing
  <2> QED
    BY <2>1, WriteCopySlots
<1> QED
  BY <1>5, <1>6, <1>7, <1>8, <1>9, <1>10 DEF FifoInv

\* Publishing the copied bytes uses up the claimed room.
LEMMA WriteCommitInv ==
  ASSUME FifoInv, NEW f \in Files, WriteCommit(f)
  PROVE  FifoInv'
<1>1. /\ in' = (in + len[f]) % Modulus
      /\ UNCHANGED <<out, data, raced>>
      /\ pc[f] = "wcommit"
      /\ pc' = [pc EXCEPT ![f] = "idle"]
      /\ len' = [len EXCEPT ![f] = 0]
      /\ buf' = [buf EXCEPT ![f] = <<>>]
      /\ fault' = [fault EXCEPT ![f] = FALSE]
  BY DEF WriteCommit, Return
<1>2. /\ len[f] \in Nat /\ buf[f] \in Seq(Byte) /\ len[f] <= Len(buf[f])
      /\ in \in 0..(Modulus - 1) /\ out \in 0..(Modulus - 1)
      /\ Used \in 0..(Modulus - 1)
  BY <1>1, InIsOutPlusUsed DEF FifoInv, TypeOK, LengthsOK, Writing
<1>3. in' \in 0..(Modulus - 1)
  <2>1. in + len[f] \in Int
    BY <1>2, Widths
  <2> QED
    BY <1>1, <2>1, DivMod, Widths
<1>4. last' \in [bytes : Seq(Byte), ret : Nat \cup {EIO}]
  <2>1. SubSeq(buf[f], 1, len[f]) \in Seq(Byte)
    BY <1>2
  <2>2. Len(SubSeq(buf[f], 1, len[f])) \in Nat
    BY <2>1
  <2> QED
    BY <2>1, <2>2 DEF WriteCommit, Return
<1>5. TypeOK'
  BY <1>1, <1>3, <1>4 DEF FifoInv, TypeOK
<1>6. LengthsOK'
  BY <1>1 DEF FifoInv, TypeOK, LengthsOK, Writing
<1>7. Exclusive'
  BY <1>1 DEF FifoInv, TypeOK, Exclusive, Writing, Reading
<1>8. ~raced => Used' = Used + len[f] /\ Used + len[f] <= Size
  <2> SUFFICES ASSUME ~raced PROVE Used' = Used + len[f] /\ Used + len[f] <= Size
    OBVIOUS
  <2>1. Used + len[f] <= Size
    BY <1>1, <1>2, Widths DEF FifoInv, RingIntact, Writing
  <2>2. (((in + len[f]) % Modulus) - out) % Modulus = Used + len[f]
    BY <1>2, <2>1, UsedAfterMove
  <2> QED
    BY <1>1, <2>1, <2>2 DEF Used
<1>9. RingIntact'
  <2> SUFFICES ASSUME ~raced, NEW g \in Files, g # f
               PROVE  /\ Used' <= Size
                      /\ pc[g] \notin Writing
                      /\ pc[g] \in Reading => len[g] <= Used'
    BY <1>1, <1>8 DEF FifoInv, TypeOK, RingIntact, Writing, Reading
  <2>1. pc[g] \notin Writing
    BY <1>1 DEF FifoInv, Exclusive, Writing
  <2>2. pc[g] \in Reading => len[g] <= Used
    BY DEF FifoInv, RingIntact
  <2>3. len[g] \in Nat
    BY DEF FifoInv, TypeOK
  <2> QED
    BY <1>2, <1>8, <2>1, <2>2, <2>3, Widths
<1>10. ReadIntact'
  BY <1>1 DEF FifoInv, TypeOK, ReadIntact
<1>11. WriteIntact'
  BY <1>1 DEF FifoInv, TypeOK, WriteIntact, Exclusive, Writing
<1> QED
  BY <1>5, <1>6, <1>7, <1>9, <1>10, <1>11 DEF FifoInv

\* A read that starts claims bytes that are there, and owns them alone.
LEMMA ReadStartInv ==
  ASSUME FifoInv, NEW f \in Files, NEW count \in Nat, ReadStart(f, count)
  PROVE  FifoInv'
<1>1. Used \in 0..(Modulus - 1)
  BY DivMod, Widths DEF Used, FifoInv, TypeOK
<1>2. Used' = Used
  BY DEF ReadStart, Used
<1>3. /\ len' = [len EXCEPT ![f] = Min2(count, Used)]
      /\ Min2(count, Used) \in Nat
      /\ Min2(count, Used) <= Used
  BY <1>1 DEF ReadStart, Min2
<1>4. TypeOK'
  BY <1>3 DEF FifoInv, TypeOK, ReadStart, Reading
<1>5. LengthsOK'
  BY <1>3 DEF FifoInv, TypeOK, LengthsOK, ReadStart, Writing
<1>6. Exclusive'
  BY DEF FifoInv, TypeOK, Exclusive, ReadStart, Writing, Reading
<1>7. RingIntact'
  BY <1>1, <1>2, <1>3 DEF FifoInv, TypeOK, RingIntact, ReadStart, Writing, Reading
<1>8. ReadIntact'
  BY DEF FifoInv, TypeOK, ReadIntact, ReadStart
<1>9. WriteIntact'
  BY DEF FifoInv, TypeOK, WriteIntact, ReadStart
<1> QED
  BY <1>4, <1>5, <1>6, <1>7, <1>8, <1>9 DEF FifoInv

\* The bytes copied out are the oldest unread ones.
LEMMA ReadCopyInv ==
  ASSUME FifoInv, NEW f \in Files, ReadCopy(f)
  PROVE  FifoInv'
<1>1. PICK bad \in 0..len[f] :
         /\ buf' = [buf EXCEPT ![f] = [i \in 1..(len[f] - bad) |->
                                         data[(out + i - 1) % Size]]]
         /\ len' = [len EXCEPT ![f] = len[f] - bad]
         /\ fault' = [fault EXCEPT ![f] = bad > 0]
  BY DEF ReadCopy
<1> DEFINE n == len[f] - bad
           copied == [i \in 1..n |-> data[(out + i - 1) % Size]]
<1>2. len[f] \in Nat /\ n \in Nat /\ n <= len[f]
  BY DEF FifoInv, TypeOK
<1>3. copied \in Seq(Byte) /\ Len(copied) = n
  <2>1. \A i \in 1..n : data[(out + i - 1) % Size] \in Byte
    <3> SUFFICES ASSUME NEW i \in 1..n
                 PROVE  data[(out + i - 1) % Size] \in Byte
      OBVIOUS
    <3>1. out + i - 1 \in Int
      BY <1>2, Widths DEF FifoInv, TypeOK
    <3>2. (out + i - 1) % Size \in 0..(Size - 1)
      BY <3>1, SlotRange
    <3> QED
      BY <3>2 DEF FifoInv, TypeOK
  <2> HIDE DEF n
  <2> QED
    BY <1>2, <2>1
<1>4. buf' = [buf EXCEPT ![f] = copied] /\ len' = [len EXCEPT ![f] = n]
  BY <1>1
<1>5. buf'[f] = copied /\ len'[f] = n
  BY <1>4 DEF FifoInv, TypeOK
<1> HIDE DEF n
<1>6. Used' = Used /\ Used \in 0..(Modulus - 1)
  BY DivMod, Widths DEF ReadCopy, Used, FifoInv, TypeOK
<1>7. \A i \in 1..n : copied[i] = data[(out + i - 1) % Size]
  OBVIOUS
<1> HIDE DEF copied
<1>8. TypeOK'
  <2>1. UNCHANGED <<in, out, data, last, raced>>
    BY DEF ReadCopy
  <2>2. pc' \in [Files -> {"idle"} \cup Writing \cup Reading]
    BY DEF ReadCopy, Reading, FifoInv, TypeOK
  <2>3. len' \in [Files -> Nat]
    BY <1>2, <1>4 DEF FifoInv, TypeOK
  <2>4. buf' \in [Files -> Seq(Byte)]
    BY <1>3, <1>4 DEF FifoInv, TypeOK
  <2>5. fault' \in [Files -> BOOLEAN]
    <3>1. (bad > 0) \in BOOLEAN
      OBVIOUS
    <3> QED
      BY <1>1, <3>1 DEF FifoInv, TypeOK
  <2> QED
    BY <2>1, <2>2, <2>3, <2>4, <2>5 DEF FifoInv, TypeOK
<1>9. LengthsOK'
  BY <1>3, <1>4, <1>5 DEF FifoInv, TypeOK, LengthsOK, ReadCopy, Writing
<1>10. Exclusive'
  BY DEF FifoInv, TypeOK, Exclusive, ReadCopy, Writing, Reading
<1>11. RingIntact'
  BY <1>2, <1>4, <1>5, <1>6, Widths
     DEF FifoInv, TypeOK, RingIntact, ReadCopy, Writing, Reading
<1>12. ReadIntact'
  BY <1>4, <1>5, <1>7 DEF FifoInv, TypeOK, ReadIntact, ReadCopy, Exclusive, Reading
<1>13. WriteIntact'
  BY <1>4 DEF FifoInv, TypeOK, WriteIntact, ReadCopy
<1> QED
  BY <1>8, <1>9, <1>10, <1>11, <1>12, <1>13 DEF FifoInv

\* Moving out forward frees room and takes nothing from a writer.
LEMMA ReadCommitInv ==
  ASSUME FifoInv, NEW f \in Files, ReadCommit(f)
  PROVE  FifoInv'
<1>1. /\ out' = (out + len[f]) % Modulus
      /\ UNCHANGED <<in, data, raced>>
      /\ pc[f] = "rcommit"
      /\ pc' = [pc EXCEPT ![f] = "idle"]
      /\ len' = [len EXCEPT ![f] = 0]
      /\ buf' = [buf EXCEPT ![f] = <<>>]
      /\ fault' = [fault EXCEPT ![f] = FALSE]
  BY DEF ReadCommit, Return
<1>2. /\ len[f] \in Nat /\ buf[f] \in Seq(Byte)
      /\ in \in 0..(Modulus - 1) /\ out \in 0..(Modulus - 1)
      /\ Used \in 0..(Modulus - 1)
  BY <1>1, InIsOutPlusUsed DEF FifoInv, TypeOK
<1>3. out' \in 0..(Modulus - 1)
  <2>1. out + len[f] \in Int
    BY <1>2, Widths
  <2> QED
    BY <1>1, <2>1, DivMod, Widths
<1>4. last' \in [bytes : Seq(Byte), ret : Nat \cup {EIO}]
  BY <1>2 DEF ReadCommit, Return
<1>5. TypeOK'
  BY <1>1, <1>3, <1>4 DEF FifoInv, TypeOK
<1>6. LengthsOK'
  BY <1>1 DEF FifoInv, TypeOK, LengthsOK, Writing
<1>7. Exclusive'
  BY <1>1 DEF FifoInv, TypeOK, Exclusive, Writing, Reading
<1>8. ~raced => Used' = Used - len[f] /\ len[f] <= Used /\ Used <= Size
  <2> SUFFICES ASSUME ~raced
               PROVE  Used' = Used - len[f] /\ len[f] <= Used /\ Used <= Size
    OBVIOUS
  <2>1. len[f] <= Used /\ Used <= Size
    BY <1>1 DEF FifoInv, RingIntact, Reading
  <2>2. (in - ((out + len[f]) % Modulus)) % Modulus = Used - len[f]
    BY <1>2, <2>1, UsedAfterMove
  <2> QED
    BY <1>1, <2>1, <2>2 DEF Used
<1>9. RingIntact'
  <2> SUFFICES ASSUME ~raced, NEW g \in Files, g # f
               PROVE  /\ Used' <= Size
                      /\ pc[g] \in Writing => len[g] <= Size - Used'
                      /\ pc[g] \notin Reading
    <3>1. Used' <= Size \/ raced
      BY <1>2, <1>8, Widths
    <3> QED
      BY <1>1, <3>1 DEF FifoInv, TypeOK, RingIntact, Writing, Reading
  <2>1. pc[g] \notin Reading
    BY <1>1 DEF FifoInv, Exclusive, Reading
  <2>2. pc[g] \in Writing => len[g] <= Size - Used
    BY DEF FifoInv, RingIntact
  <2>3. len[g] \in Nat
    BY DEF FifoInv, TypeOK
  <2> QED
    BY <1>2, <1>8, <2>1, <2>2, <2>3, Widths
<1>10. ReadIntact'
  BY <1>1 DEF FifoInv, TypeOK, ReadIntact, Exclusive, Reading
<1>11. WriteIntact'
  BY <1>1 DEF FifoInv, TypeOK, WriteIntact
<1> QED
  BY <1>5, <1>6, <1>7, <1>9, <1>10, <1>11 DEF FifoInv

(***************************************************************************)
(* Safety.                                                                 *)
(***************************************************************************)

\* Every step of every description, and stuttering, keeps the invariant.
LEMMA NextInv == FifoInv /\ [Next]_fifoVars => FifoInv'
<1> SUFFICES ASSUME FifoInv, [Next]_fifoVars PROVE FifoInv'
  OBVIOUS
<1>1. ASSUME NEW f \in Writers, Write(f) PROVE FifoInv'
  <2>1. f \in Files
    BY DEF Files
  <2>2. ASSUME NEW bytes \in Buffers, WriteStart(f, bytes) PROVE FifoInv'
    <3>1. bytes \in Seq(Byte)
      BY DEF Buffers
    <3> QED
      BY <2>1, <2>2, <3>1, WriteStartInv
  <2> QED
    BY <1>1, <2>1, <2>2, WriteCopyInv, WriteCommitInv DEF Write
<1>2. ASSUME NEW f \in Readers, Read(f) PROVE FifoInv'
  <2>1. f \in Files
    BY DEF Files
  <2> QED
    BY <1>2, <2>1, ReadStartInv, ReadCopyInv, ReadCommitInv DEF Read
<1>3. CASE UNCHANGED fifoVars
  <2>1. Used' = Used
    BY <1>3 DEF fifoVars, Used
  <2> QED
    BY <1>3, <2>1 DEF fifoVars, FifoInv, TypeOK, LengthsOK, Exclusive,
       RingIntact, ReadIntact, WriteIntact
<1> QED
  BY <1>1, <1>2, <1>3 DEF Next

\* The invariant of myfs_file_read and myfs_file_write holds in every state,
\* for every ring size, counter width and number of open files.
THEOREM FifoSafety == Spec => []FifoInv
  BY InitInv, NextInv, PTL DEF Spec

\* Whatever the overlap, the variables of the two handlers keep their types:
\* the counters stay within their width.
THEOREM FifoTypes == Spec => []TypeOK
<1>1. FifoInv => TypeOK
  BY DEF FifoInv
<1> QED
  BY <1>1, FifoSafety, PTL

\* Until two reads or two writes overlap, myfs_file_write never claims a byte
\* that is unread and myfs_file_read never one that is not there.
THEOREM FifoRing == Spec => []RingIntact
<1>1. FifoInv => RingIntact
  BY DEF FifoInv
<1> QED
  BY <1>1, FifoSafety, PTL

\* Until then the bytes myfs_file_read has copied out are still the oldest
\* unread ones when it moves out, whatever a write has done meanwhile.
THEOREM FifoReadBytes == Spec => []ReadIntact
<1>1. FifoInv => ReadIntact
  BY DEF FifoInv
<1> QED
  BY <1>1, FifoSafety, PTL

\* Until then the bytes myfs_file_write has copied in are still in their slots,
\* in the user's order, when it publishes them.
THEOREM FifoWriteBytes == Spec => []WriteIntact
<1>1. FifoInv => WriteIntact
  BY DEF FifoInv
<1> QED
  BY <1>1, FifoSafety, PTL

(***************************************************************************)
(* Refinement: the fifo implements the byte queue.                         *)
(***************************************************************************)

\* Sequences with equal lengths and elements are equal.
LEMMA SeqExt ==
  ASSUME NEW S, NEW s \in Seq(S), NEW t \in Seq(S), Len(s) = Len(t),
         \A i \in 1..Len(s) : s[i] = t[i]
  PROVE  s = t
  OBVIOUS

\* A sequence is a concatenation when it has its length and its elements.
LEMMA IsConcat ==
  ASSUME NEW S, NEW s \in Seq(S), NEW t \in Seq(S), NEW u \in Seq(S),
         Len(u) = Len(s) + Len(t),
         \A i \in 1..Len(s) : u[i] = s[i],
         \A i \in 1..Len(t) : u[Len(s) + i] = t[i]
  PROVE  u = s \o t
<1>1. s \o t \in Seq(S) /\ Len(s \o t) = Len(u)
  OBVIOUS
<1>2. \A i \in 1..Len(u) : u[i] = (s \o t)[i]
  <2> SUFFICES ASSUME NEW i \in 1..Len(u) PROVE u[i] = (s \o t)[i]
    OBVIOUS
  <2>1. CASE i <= Len(s)
    BY <2>1
  <2>2. CASE i > Len(s)
    <3>1. i - Len(s) \in 1..Len(t) /\ Len(s) + (i - Len(s)) = i
      BY <2>2
    <3>2. u[i] = t[i - Len(s)]
      BY <3>1
    <3> QED
      BY <2>2, <3>2
  <2> QED
    BY <2>1, <2>2
<1> QED
  BY <1>1, <1>2, SeqExt

\* A sequence is a section of another when it has its length and its elements.
LEMMA IsSubSeq ==
  ASSUME NEW S, NEW s \in Seq(S), NEW u \in Seq(S), NEW m \in 0..Len(s),
         NEW k \in 0..Len(s), Len(u) = k - m, m <= k,
         \A i \in 1..(k - m) : u[i] = s[m + i]
  PROVE  u = SubSeq(s, m + 1, k)
<1>1. SubSeq(s, m + 1, k) \in Seq(S) /\ Len(SubSeq(s, m + 1, k)) = k - m
  OBVIOUS
<1>2. \A i \in 1..(k - m) : SubSeq(s, m + 1, k)[i] = s[m + i]
  OBVIOUS
<1> QED
  BY <1>1, <1>2, SeqExt

\* The abstract queue is a sequence of Used bytes.
ContentsOK ==
  /\ Used \in Nat
  /\ Contents \in Seq(Byte)
  /\ Len(Contents) = Used
  /\ \A i \in 1..Used : Contents[i] = data[(out + i - 1) % Size]

LEMMA ContentsSeq == TypeOK => ContentsOK
<1> SUFFICES ASSUME TypeOK PROVE ContentsOK
  OBVIOUS
<1>1. Used \in Nat
  BY InIsOutPlusUsed, Widths DEF TypeOK
<1>2. \A i \in 1..Used : data[(out + i - 1) % Size] \in Byte
  <2> SUFFICES ASSUME NEW i \in 1..Used
               PROVE  data[(out + i - 1) % Size] \in Byte
    OBVIOUS
  <2>1. out + i - 1 \in Int
    BY <1>1, Widths DEF TypeOK
  <2>2. (out + i - 1) % Size \in 0..(Size - 1)
    BY <2>1, SlotRange
  <2> QED
    BY <2>2 DEF TypeOK
<1> QED
  BY <1>1, <1>2 DEF Contents, ContentsOK

\* Nothing has been written yet.
LEMMA InitRefines == Init => Queue!Init
<1> SUFFICES ASSUME Init PROVE Queue!Init
  OBVIOUS
<1>1. Used = 0
  BY CounterCases, Widths DEF Init, Used
<1>2. Contents = <<>>
  BY <1>1 DEF Contents
<1> QED
  BY <1>2 DEF Init, Queue!Init

\* Publishing the copied bytes appends them to the queue.
LEMMA WriteCommitRefines ==
  ASSUME FifoInv, FifoInv', ~raced, NEW f \in Files, WriteCommit(f)
  PROVE  Queue!Write
<1> DEFINE bytes == SubSeq(buf[f], 1, len[f])
<1>1. /\ in' = (in + len[f]) % Modulus
      /\ UNCHANGED <<out, data, raced>>
      /\ pc[f] = "wcommit"
      /\ last' = [bytes |-> bytes, ret |-> IF fault[f] THEN EIO ELSE Len(bytes)]
  BY DEF WriteCommit, Return
<1>2. /\ len[f] \in Nat /\ buf[f] \in Seq(Byte) /\ len[f] <= Len(buf[f])
      /\ in \in 0..(Modulus - 1) /\ out \in 0..(Modulus - 1)
      /\ Used \in Nat /\ Used <= Size /\ len[f] <= Size - Used
  BY <1>1, ContentsSeq DEF ContentsOK, FifoInv, TypeOK, LengthsOK, RingIntact, Writing
<1>3. /\ bytes \in Seq(Byte) /\ Len(bytes) = len[f]
      /\ \A j \in 1..len[f] : bytes[j] = buf[f][j]
  BY <1>2
<1> HIDE DEF bytes
<1>4. Used + len[f] <= Size
  BY <1>2, Widths
<1>5. Used' = Used + len[f]
  <2>1. (((in + len[f]) % Modulus) - out) % Modulus = Used + len[f]
    BY <1>2, <1>4, UsedAfterMove
  <2> QED
    BY <1>1, <2>1 DEF Used
<1>6. /\ Contents \in Seq(Byte) /\ Len(Contents) = Used
      /\ Contents' \in Seq(Byte) /\ Len(Contents') = Used + len[f]
      /\ \A i \in 1..Used : Contents[i] = data[(out + i - 1) % Size]
      /\ \A i \in 1..(Used + len[f]) : Contents'[i] = data[(out + i - 1) % Size]
  <2>1. ContentsOK'
    <3>1. TypeOK'
      BY DEF FifoInv
    <3> QED
      BY <3>1, ContentsSeq, PTL
  <2>2. TypeOK
    BY DEF FifoInv
  <2> QED
    BY <1>1, <1>5, <2>1, <2>2, ContentsSeq DEF ContentsOK
<1>7. ASSUME NEW i \in (Used + 1)..(Used + len[f])
      PROVE  Contents'[i] = bytes[i - Used]
  <2> DEFINE j == i - Used
  <2>1. j \in 1..len[f] /\ j - 1 \in Int /\ out + Used + (j - 1) = out + i - 1
        /\ in + (j - 1) = in + j - 1
    BY <1>2, Widths
  <2> HIDE DEF j
  <2>2. (out + i - 1) % Size = (in + j - 1) % Size
    BY <1>2, <2>1, InIsOutPlusUsed
  <2>3. data[(in + j - 1) % Size] = buf[f][j]
    BY <1>1, <2>1 DEF FifoInv, WriteIntact
  <2>4. i \in 1..(Used + len[f])
    BY <1>2
  <2> QED
    BY <1>3, <1>6, <2>1, <2>2, <2>3, <2>4 DEF j
<1>8. Contents' = Contents \o bytes
  <2>1. ASSUME NEW i \in 1..Used PROVE Contents'[i] = Contents[i]
    <3>1. i \in 1..(Used + len[f])
      BY <1>2
    <3> QED
      BY <1>6, <3>1
  <2>2. ASSUME NEW i \in 1..len[f] PROVE Contents'[Used + i] = bytes[i]
    <3>1. Used + i \in (Used + 1)..(Used + len[f]) /\ (Used + i) - Used = i
      BY <1>2
    <3> QED
      BY <1>7, <3>1
  <2>3. /\ Len(Contents') = Len(Contents) + Len(bytes)
        /\ \A i \in 1..Len(Contents) : Contents'[i] = Contents[i]
        /\ \A i \in 1..Len(bytes) : Contents'[Len(Contents) + i] = bytes[i]
    BY <1>3, <1>6, <2>1, <2>2
  <2>4. /\ Contents \in Seq(Byte) /\ Contents' \in Seq(Byte)
        /\ bytes \in Seq(Byte)
    BY <1>3, <1>6
  <2> QED
    BY <2>3, <2>4, IsConcat
<1>9. bytes \in Queue!Chunks
  <2>1. len[f] \in 0..Size /\ bytes \in [1..len[f] -> Byte]
    BY <1>2, <1>3, <1>4, Widths
  <2> QED
    BY <2>1 DEF Queue!Chunks
<1>10. Queue!Returns(bytes)
  BY <1>1 DEF Queue!Returns
<1> QED
  BY <1>1, <1>3, <1>4, <1>6, <1>8, <1>9, <1>10 DEF Queue!Write

\* Moving out takes the bytes that were copied off the front of the queue.
LEMMA ReadCommitRefines ==
  ASSUME FifoInv, FifoInv', ~raced, NEW f \in Files, ReadCommit(f)
  PROVE  Queue!Read
<1> DEFINE n == len[f]
<1>1. /\ out' = (out + n) % Modulus
      /\ UNCHANGED <<in, data, raced>>
      /\ pc[f] = "rcommit"
      /\ last' = [bytes |-> buf[f], ret |-> IF fault[f] THEN EIO ELSE Len(buf[f])]
  BY DEF ReadCommit, Return
<1>2. /\ n \in Nat /\ buf[f] \in Seq(Byte) /\ Len(buf[f]) = n
      /\ in \in 0..(Modulus - 1) /\ out \in 0..(Modulus - 1)
      /\ Used \in Nat /\ Used <= Size /\ n <= Used
  BY <1>1, ContentsSeq DEF ContentsOK, FifoInv, TypeOK, LengthsOK, RingIntact, Reading
<1>3. \A i \in 1..n : buf[f][i] = data[(out + i - 1) % Size]
  BY <1>1 DEF FifoInv, ReadIntact
<1> HIDE DEF n
<1>4. Used' = Used - n
  <2>1. (in - ((out + n) % Modulus)) % Modulus = Used - n
    BY <1>2, UsedAfterMove
  <2> QED
    BY <1>1, <2>1 DEF Used
<1>5. /\ Contents \in Seq(Byte) /\ Len(Contents) = Used
      /\ Contents' \in Seq(Byte) /\ Len(Contents') = Used - n
      /\ \A i \in 1..Used : Contents[i] = data[(out + i - 1) % Size]
      /\ \A i \in 1..(Used - n) : Contents'[i] = data[(out' + i - 1) % Size]
  <2>1. ContentsOK'
    <3>1. TypeOK'
      BY DEF FifoInv
    <3> QED
      BY <3>1, ContentsSeq, PTL
  <2>2. TypeOK
    BY DEF FifoInv
  <2> QED
    BY <1>1, <1>4, <2>1, <2>2, ContentsSeq DEF ContentsOK
<1>6. ASSUME NEW i \in 1..(Used - n)
      PROVE  Contents'[i] = Contents[n + i]
  <2>1. n + i \in 1..Used /\ out + n \in Int /\ i - 1 \in Int
    BY <1>2, Widths
  <2>2. (((out + n) % Modulus) + (i - 1)) % Size = ((out + n) + (i - 1)) % Size
    BY <2>1, SlotAdd
  <2>3. (out + n) + (i - 1) = out + (n + i) - 1
    BY <1>2, <2>1, Widths
  <2>4. ((out + n) % Modulus) + (i - 1) = out' + i - 1
    <3>1. (out + n) % Modulus \in Int
      BY <2>1, DivMod, Widths
    <3> QED
      BY <1>1, <3>1
  <2> QED
    BY <1>5, <2>1, <2>2, <2>3, <2>4
<1>7. Contents' = SubSeq(Contents, n + 1, Len(Contents))
  <2>1. n \in 0..Len(Contents) /\ Used \in 0..Len(Contents)
    BY <1>2, <1>5
  <2> QED
    BY <1>2, <1>5, <1>6, <2>1, IsSubSeq
<1>8. buf[f] = SubSeq(Contents, 1, n)
  <2>1. 0 \in 0..Len(Contents) /\ n \in 0..Len(Contents) /\ n - 0 = n /\ 0 + 1 = 1
    BY <1>2, <1>5
  <2>2. ASSUME NEW i \in 1..n PROVE buf[f][i] = Contents[0 + i]
    <3>1. i \in 1..Used /\ 0 + i = i
      BY <1>2
    <3> QED
      BY <1>3, <1>5, <3>1
  <2>3. buf[f] = SubSeq(Contents, 0 + 1, n)
    BY <1>2, <1>5, <2>1, <2>2, IsSubSeq
  <2> QED
    BY <2>1, <2>3
<1>9. Queue!Returns(SubSeq(Contents, 1, n))
  BY <1>1, <1>8 DEF Queue!Returns
<1>10. n \in 0..Len(Contents)
  BY <1>2, <1>5
<1> QED
  BY <1>1, <1>7, <1>9, <1>10 DEF Queue!Read

\* Every other step leaves the queue alone, until an overlap voids the promise.
LEMMA StepRefines ==
  FifoInv /\ FifoInv' /\ [Next]_fifoVars => [Queue!Next]_(Queue!vars)
<1> SUFFICES ASSUME FifoInv, FifoInv', [Next]_fifoVars
             PROVE  [Queue!Next]_(Queue!vars)
  OBVIOUS
<1>1. ASSUME raced' PROVE Queue!Next
  BY <1>1 DEF Queue!Next, Queue!Overlap
<1>2. ASSUME UNCHANGED <<Contents, last, raced>> PROVE UNCHANGED Queue!vars
  BY <1>2 DEF Queue!vars
<1>3. ASSUME UNCHANGED <<in, out, data>> PROVE Contents' = Contents
  BY <1>3 DEF Contents, Used
<1>4. ASSUME NEW f \in Writers, Write(f) PROVE [Queue!Next]_(Queue!vars)
  <2>1. f \in Files
    BY DEF Files
  <2>2. CASE \E bytes \in Buffers : WriteStart(f, bytes)
    BY <1>1, <1>2, <1>3, <2>2 DEF WriteStart, FifoInv, TypeOK
  <2>3. CASE WriteCopy(f)
    <3>1. CASE raced
      BY <1>1, <2>3, <3>1 DEF WriteCopy
    <3>2. CASE ~raced
      <4>1. Used' = Used /\ out' = out /\ UNCHANGED <<last, raced>>
        BY <2>3 DEF WriteCopy, Used
      <4>2. \A i \in 1..Used : data'[(out + i - 1) % Size] = data[(out + i - 1) % Size]
        BY <2>1, <2>3, <3>2, WriteCopySlots
      <4>3. Contents' = Contents
        BY <4>1, <4>2 DEF Contents
      <4> QED
        BY <1>2, <4>1, <4>3
    <3> QED
      BY <3>1, <3>2
  <2>4. CASE WriteCommit(f)
    <3>1. CASE raced
      BY <1>1, <2>4, <3>1 DEF WriteCommit
    <3>2. CASE ~raced
      BY <2>1, <2>4, <3>2, WriteCommitRefines DEF Queue!Next
    <3> QED
      BY <3>1, <3>2
  <2> QED
    BY <1>4, <2>2, <2>3, <2>4 DEF Write
<1>5. ASSUME NEW f \in Readers, Read(f) PROVE [Queue!Next]_(Queue!vars)
  <2>1. f \in Files
    BY DEF Files
  <2>2. CASE \E count \in 0..MaxCount : ReadStart(f, count)
    BY <1>1, <1>2, <1>3, <2>2 DEF ReadStart, FifoInv, TypeOK
  <2>3. CASE ReadCopy(f)
    BY <1>2, <1>3, <2>3 DEF ReadCopy
  <2>4. CASE ReadCommit(f)
    <3>1. CASE raced
      BY <1>1, <2>4, <3>1 DEF ReadCommit
    <3>2. CASE ~raced
      BY <2>1, <2>4, <3>2, ReadCommitRefines DEF Queue!Next
    <3> QED
      BY <3>1, <3>2
  <2> QED
    BY <1>5, <2>2, <2>3, <2>4 DEF Read
<1>6. CASE UNCHANGED fifoVars
  BY <1>2, <1>3, <1>6 DEF fifoVars
<1> QED
  BY <1>4, <1>5, <1>6 DEF Next

\* Until calls of one kind overlap, myfs_file_read and myfs_file_write act as
\* atomic operations on one bounded byte queue shared by every file.
THEOREM FifoImplementsQueue == Spec => ImplementsQueue
<1>1. Spec => [][Queue!Next]_(Queue!vars)
  BY FifoSafety, StepRefines, PTL DEF Spec
<1> QED
  BY <1>1, InitRefines, PTL DEF Spec, ImplementsQueue, Queue!Spec

(***************************************************************************)
(* The test programs.                                                      *)
(***************************************************************************)

\* Where a program stands agrees with the call it has in progress; a program
\* writes the message, asks for at most twice its length and never faults.
Standing(t) ==
  /\ tpc[t] \in {"write", "writing"} => t \notin ReadOnlyTests
  /\ tpc[t] = "writing" <=> pc[t] \in Writing
  /\ tpc[t] = "reading" <=> pc[t] \in Reading
  /\ tpc[t] = "writing" => buf[t] = Message
  /\ tpc[t] = "reading" => len[t] <= ReadCount
  /\ ~fault[t]
Programs ==
  /\ tpc \in [Files -> {"open", "write", "writing", "read", "reading", "close",
                        "exited", "wrong"}]
  /\ \A t \in Files : Standing(t)

\* Programs that have written and not read.
Pending ==
  {t \in Files \ ReadOnlyTests : tpc[t] \in {"read", "reading", "wrong"}}

\* The fifo holds no more than what they wrote, and a read in progress will
\* leave no more than what the others wrote.
Drains ==
  /\ IsFiniteSet(Pending)
  /\ ~raced =>
       /\ Used <= MsgLen * Cardinality(Pending)
       /\ \A t \in Files : tpc[t] = "reading" =>
            Used - len[t] <= MsgLen * Cardinality(Pending \ {t})

TestInv == FifoInv /\ Programs /\ Drains

\* The fifo has room for the messages of all programs, and the reads of all of
\* them together do not take the counters around.
Room ==
  /\ IsFiniteSet(Files)
  /\ MsgLen * Cardinality(Writers) <= Size
  /\ Size + ReadCount * Cardinality(Files) < Modulus

\* Programs that may still write, and programs that will not read any more.
Unwritten == {t \in Writers : tpc[t] \in {"open", "write", "writing"}}
Through == {t \in Files : tpc[t] \in {"close", "exited", "wrong"}}

\* There is room for every message to come, although reads that overlap may
\* have moved out too far.
Plenty ==
  /\ MsgLen * Cardinality(Unwritten) <= Unused
  /\ Unused <= Size + ReadCount * Cardinality(Through)
  /\ \A t \in Files : tpc[t] = "writing" => len[t] = MsgLen
  /\ NoWrongWrite

RoomInv == FifoInv /\ Programs /\ Plenty

\* The message and the count of the reads.
LEMMA TestConstants ==
  /\ MsgLen \in Nat /\ MsgLen > 0 /\ ReadCount \in Nat /\ ReadCount = 2 * MsgLen
  /\ Message \in Seq(Byte) /\ Len(Message) = MsgLen
<1>1. MsgLen \in Nat /\ MsgLen > 0
  BY TestAssumption
<1>2. Zero \in Byte
  BY FifoAssumption DEF Zero
<1> QED
  BY <1>1, <1>2 DEF ReadCount, Message

\* A program that is not read-only is one of the writers.
LEMMA WhoWrites == ASSUME NEW t \in Files PROVE t \in Writers <=> t \notin ReadOnlyTests
  BY TestAssumption DEF Files

\* The fifo keeps its invariant under the programs.
LEMMA TestFifo ==
  ASSUME FifoInv, [TestNext]_testVars
  PROVE  FifoInv'
<1>1. CASE UNCHANGED fifoVars
  BY <1>1, NextInv
<1>2. ASSUME NEW t \in Files, Test(t), ~UNCHANGED fifoVars
      PROVE  FifoInv'
  <2>1. \/ WriteStart(t, Message) \/ WriteCopy(t) \/ WriteCommit(t)
        \/ ReadStart(t, ReadCount) \/ ReadCopy(t) \/ ReadCommit(t)
    BY <1>2 DEF Test, OpenFails, OpenSucceeds, CallWrite, Copies, WriteReturns,
                CallRead, ReadReturns, Close
  <2> QED
    BY <2>1, TestConstants, WriteStartInv, WriteCopyInv, WriteCommitInv,
       ReadStartInv, ReadCopyInv, ReadCommitInv
<1> QED
  BY <1>1, <1>2 DEF TestNext, AllFinished, testVars

\* A copy that does not fault keeps the length of the call.
LEMMA CopyStep ==
  ASSUME FifoInv, Programs, NEW t \in Files, Copies(t)
  PROVE  /\ UNCHANGED <<in, out, raced, tpc, len>>
         /\ \A u \in Files :
              /\ pc'[u] \in Writing <=> pc[u] \in Writing
              /\ pc'[u] \in Reading <=> pc[u] \in Reading
              /\ ~fault'[u]
              /\ pc[u] \in Writing => buf'[u] = buf[u]
<1>1. /\ len \in [Files -> Nat] /\ fault \in [Files -> BOOLEAN] /\ tpc' = tpc
      /\ pc \in [Files -> {"idle"} \cup Writing \cup Reading]
      /\ \A u \in Files : ~fault[u]
  BY DEF FifoInv, TypeOK, Programs, Standing, Copies
<1>2. /\ UNCHANGED <<in, out, raced>>
      /\ \E bad \in 0..len[t] : /\ len' = [len EXCEPT ![t] = len[t] - bad]
                                /\ fault' = [fault EXCEPT ![t] = bad > 0]
      /\ \/ /\ pc[t] = "wcopy" /\ pc' = [pc EXCEPT ![t] = "wcommit"] /\ buf' = buf
         \/ /\ pc[t] = "rcopy" /\ pc' = [pc EXCEPT ![t] = "rcommit"]
            /\ \A u \in Files : u # t => buf'[u] = buf[u]
  BY DEF Copies, WriteCopy, ReadCopy, FifoInv, TypeOK
<1>3. PICK bad \in 0..len[t] : /\ len' = [len EXCEPT ![t] = len[t] - bad]
                               /\ fault' = [fault EXCEPT ![t] = bad > 0]
  BY <1>2
<1>4. ~fault'[t]
  BY DEF Copies
<1>5. bad = 0
  <2>1. fault'[t] = (bad > 0)
    BY <1>1, <1>3
  <2>2. bad \in Nat
    BY <1>1, <1>3
  <2>3. ~(bad > 0)
    BY <1>4, <2>1, Zenon
  <2> QED
    BY <2>2, <2>3
<1>6. len' = len
  BY <1>1, <1>3, <1>5
<1>7. \A u \in Files : ~fault'[u]
  BY <1>1, <1>3, <1>4
<1>8. \A u \in Files : /\ pc'[u] \in Writing <=> pc[u] \in Writing
                       /\ pc'[u] \in Reading <=> pc[u] \in Reading
                       /\ pc[u] \in Writing => buf'[u] = buf[u]
  BY <1>1, <1>2 DEF Writing, Reading
<1> QED
  BY <1>1, <1>2, <1>6, <1>7, <1>8

\* What a return leaves: the counter of the call is moved, its locals are gone.
LEMMA ReturnStep ==
  ASSUME FifoInv, Programs, NEW t \in Files, WriteReturns(t) \/ ReadReturns(t)
  PROVE  /\ raced' = raced /\ pc'[t] = "idle" /\ len' = [len EXCEPT ![t] = 0]
         /\ \A u \in Files : ~fault'[u]
         /\ \A u \in Files \ {t} :
              pc'[u] = pc[u] /\ len'[u] = len[u] /\ buf'[u] = buf[u]
<1>1. /\ len \in [Files -> Nat] /\ fault \in [Files -> BOOLEAN]
      /\ pc \in [Files -> {"idle"} \cup Writing \cup Reading]
      /\ buf \in [Files -> Seq(Byte)] /\ \A u \in Files : ~fault[u]
  BY DEF FifoInv, TypeOK, Programs, Standing
<1>2. /\ pc' = [pc EXCEPT ![t] = "idle"] /\ len' = [len EXCEPT ![t] = 0]
      /\ buf' = [buf EXCEPT ![t] = <<>>] /\ fault' = [fault EXCEPT ![t] = FALSE]
      /\ raced' = raced
  BY DEF WriteReturns, ReadReturns, WriteCommit, ReadCommit, Return
<1>3. \A u \in Files : ~fault'[u]
  BY <1>1, <1>2
<1> QED
  BY <1>1, <1>2, <1>3

\* What write(2) returned: all of the bytes of the call.
LEMMA WriteReturnValue ==
  ASSUME FifoInv, Programs, NEW t \in Files, WriteReturns(t)
  PROVE  /\ last'.ret = len[t] /\ len[t] <= MsgLen /\ tpc[t] = "writing"
         /\ in' = (in + len[t]) % Modulus /\ out' = out
<1>1. /\ tpc[t] = "writing" /\ in' = (in + len[t]) % Modulus /\ out' = out
      /\ pc[t] = "wcommit"
      /\ last' = [bytes |-> SubSeq(buf[t], 1, len[t]),
                  ret |-> IF fault[t] THEN EIO ELSE Len(SubSeq(buf[t], 1, len[t]))]
  BY DEF WriteReturns, Goto, WriteCommit, Return
<1>2. buf[t] = Message /\ ~fault[t] /\ len[t] \in Nat /\ len[t] <= MsgLen
  BY <1>1, TestConstants DEF Programs, Standing, FifoInv, TypeOK, LengthsOK, Writing
<1>3. Len(SubSeq(Message, 1, len[t])) = len[t]
  BY <1>2, TestConstants
<1> QED
  BY <1>1, <1>2, <1>3

\* Programs and calls stay in agreement.
LEMMA ProgramsNext ==
  ASSUME FifoInv, Programs, [TestNext]_testVars
  PROVE  Programs'
<1> DEFINE Place == {"open", "write", "writing", "read", "reading", "close",
                     "exited", "wrong"}
<1>1. /\ tpc \in [Files -> Place] /\ len \in [Files -> Nat]
      /\ fault \in [Files -> BOOLEAN] /\ buf \in [Files -> Seq(Byte)]
      /\ pc \in [Files -> {"idle"} \cup Writing \cup Reading]
  BY DEF FifoInv, TypeOK, Programs
<1>2. ASSUME NEW t \in Files, OpenFails(t) \/ OpenSucceeds(t) \/ Close(t)
      PROVE  Programs'
  <2>1. /\ UNCHANGED <<pc, len, buf, fault>>
        /\ \E to \in {"exited", "read", "write"} :
             /\ tpc' = [tpc EXCEPT ![t] = to]
             /\ to = "write" => t \notin ReadOnlyTests
        /\ tpc[t] \in {"open", "close"}
    BY <1>2 DEF OpenFails, OpenSucceeds, Close, Goto, fifoVars
  <2> QED
    BY <1>1, <2>1 DEF Programs, Standing
<1>3. ASSUME NEW t \in Files, CallWrite(t)
      PROVE  Programs'
  <2>1. /\ tpc[t] = "write" /\ tpc' = [tpc EXCEPT ![t] = "writing"]
        /\ pc' = [pc EXCEPT ![t] = "wcopy"] /\ buf' = [buf EXCEPT ![t] = Message]
        /\ \A u \in Files : u # t => len'[u] = len[u]
        /\ fault' = fault
    BY <1>1, <1>3 DEF CallWrite, WriteStart, Goto
  <2> QED
    BY <1>1, <2>1 DEF Programs, Standing, Writing, Reading
<1>4. ASSUME NEW t \in Files, Copies(t)
      PROVE  Programs'
  BY <1>1, <1>4, CopyStep DEF Programs, Standing
<1>5. ASSUME NEW t \in Files, WriteReturns(t)
      PROVE  Programs'
  <2>1. \E to \in {"wrong", "read"} : tpc' = [tpc EXCEPT ![t] = to]
    BY <1>5 DEF WriteReturns, Goto, AfterWrite
  <2> QED
    BY <1>1, <1>5, <2>1, ReturnStep DEF Programs, Standing, Writing, Reading
<1>6. ASSUME NEW t \in Files, CallRead(t)
      PROVE  Programs'
  <2>1. /\ tpc[t] = "read" /\ tpc' = [tpc EXCEPT ![t] = "reading"]
        /\ pc' = [pc EXCEPT ![t] = "rcopy"]
        /\ len' = [len EXCEPT ![t] = Min2(ReadCount, Used)]
        /\ UNCHANGED <<fault, buf>>
    BY <1>6 DEF CallRead, ReadStart, Goto
  <2>2. Used \in Nat
    BY DivMod, Widths DEF Used, FifoInv, TypeOK
  <2>3. Min2(ReadCount, Used) <= ReadCount
    BY <2>2, TestConstants DEF Min2
  <2> QED
    BY <1>1, <2>1, <2>3 DEF Programs, Standing, Writing, Reading
<1>7. ASSUME NEW t \in Files, ReadReturns(t)
      PROVE  Programs'
  <2>1. tpc' = [tpc EXCEPT ![t] = "close"]
    BY <1>7 DEF ReadReturns, Goto
  <2> QED
    BY <1>1, <1>7, <2>1, ReturnStep DEF Programs, Standing, Writing, Reading
<1>8. CASE UNCHANGED testVars
  BY <1>8 DEF testVars, fifoVars, Programs, Standing
<1> QED
  BY <1>2, <1>3, <1>4, <1>5, <1>6, <1>7, <1>8 DEF TestNext, Test, AllFinished

LEMMA TestInvInit ==
  ASSUME TestInit
  PROVE  FifoInv /\ Programs /\ Drains
<1>1. FifoInv /\ tpc = [t \in Files |-> "open"]
  BY InitInv DEF TestInit
<1>2. Programs
  BY <1>1 DEF TestInit, Init, Programs, Standing, Writing, Reading
<1>3. Pending = {}
  BY <1>1 DEF Pending
<1>4. Used = 0
  BY CounterCases, Widths DEF TestInit, Init, Used
<1>5. IsFiniteSet(Pending) /\ Cardinality(Pending) = 0
  BY <1>3, FS_EmptySet
<1>6. Drains
  BY <1>1, <1>4, <1>5, TestConstants DEF Drains
<1> QED
  BY <1>1, <1>2, <1>6

\* Steps that leave the counters, the pending programs and the calls of the
\* others alone.
LEMMA DrainsKept ==
  ASSUME Drains, UNCHANGED <<in, out>>, Pending' = Pending, raced' \in BOOLEAN,
         raced => raced',
         \A u \in Files : tpc'[u] = "reading" => tpc[u] = "reading" /\ len'[u] = len[u]
  PROVE  Drains'
<1>1. Used' = Used
  BY DEF Used
<1> QED
  BY <1>1 DEF Drains

\* A write adds its bytes to those of the programs that have not read.
LEMMA DrainsWrite ==
  ASSUME TestInv, NEW t \in Files, WriteReturns(t)
  PROVE  Drains'
<1>1. /\ raced' = raced /\ len \in [Files -> Nat] /\ len' = [len EXCEPT ![t] = 0]
      /\ len[t] <= MsgLen /\ tpc[t] = "writing" /\ in' = (in + len[t]) % Modulus
      /\ out' = out /\ tpc \in [Files -> {"open", "write", "writing", "read",
                                          "reading", "close", "exited", "wrong"}]
  BY ReturnStep, WriteReturnValue DEF TestInv, FifoInv, TypeOK, Programs
<1>2. \E to \in {"wrong", "read"} : tpc' = [tpc EXCEPT ![t] = to]
  BY DEF WriteReturns, Goto, AfterWrite
<1>3. t \notin ReadOnlyTests
  BY <1>1 DEF TestInv, Programs, Standing
<1>4. Pending' = Pending \cup {t} /\ t \notin Pending
  BY <1>1, <1>2, <1>3 DEF Pending
<1>5. /\ IsFiniteSet(Pending') /\ Cardinality(Pending') = Cardinality(Pending) + 1
      /\ Cardinality(Pending) \in Nat
  BY <1>4, FS_AddElement, FS_CardinalityType DEF TestInv, Drains
<1>6. ASSUME ~raced'
      PROVE  /\ Used' <= MsgLen * Cardinality(Pending')
             /\ \A u \in Files : tpc'[u] = "reading" =>
                  Used' - len'[u] <= MsgLen * Cardinality(Pending' \ {u})
  <2>1. /\ Used <= MsgLen * Cardinality(Pending) /\ len[t] <= Size - Used
        /\ Used \in Nat /\ len[t] \in Nat
    <3>1. pc[t] \in Writing
      BY <1>1 DEF TestInv, Programs, Standing
    <3>2. Used \in Nat
      BY DivMod, Widths DEF Used, TestInv, FifoInv, TypeOK
    <3> QED
      BY <1>1, <1>6, <3>1, <3>2 DEF TestInv, FifoInv, RingIntact, Drains
  <2>2. Used' = Used + len[t]
    <3>1. Used + len[t] <= Size
      BY <2>1, Widths
    <3> QED
      BY <1>1, <2>1, <3>1, UsedAfterMove DEF Used, TestInv, FifoInv, TypeOK
  <2>3. MsgLen * (Cardinality(Pending) + 1) = MsgLen * Cardinality(Pending) + MsgLen
    BY <1>5, TestConstants
  <2>4. Used' <= MsgLen * Cardinality(Pending')
    BY <1>1, <1>5, <2>1, <2>2, <2>3, TestConstants
  <2>5. ASSUME NEW u \in Files, tpc'[u] = "reading"
        PROVE  Used' - len'[u] <= MsgLen * Cardinality(Pending' \ {u})
    <3>1. u # t /\ tpc[u] = "reading" /\ len'[u] = len[u] /\ len[u] \in Nat
      BY <1>1, <1>2, <2>5
    <3>2. Used - len[u] <= MsgLen * Cardinality(Pending \ {u})
      BY <1>1, <1>6, <3>1 DEF TestInv, Drains
    <3>3. Pending' \ {u} = (Pending \ {u}) \cup {t} /\ t \notin Pending \ {u}
      BY <1>4, <3>1
    <3>4. IsFiniteSet(Pending \ {u})
      BY FS_RemoveElement DEF TestInv, Drains
    <3> DEFINE c == Cardinality(Pending \ {u})
    <3>5. Cardinality(Pending' \ {u}) = c + 1 /\ c \in Nat
      BY <3>3, <3>4, FS_AddElement, FS_CardinalityType
    <3> HIDE DEF c
    <3>6. MsgLen * (c + 1) = MsgLen * c + MsgLen /\ MsgLen * c \in Nat
      BY <3>5, TestConstants
    <3> QED
      BY <1>1, <2>1, <2>2, <3>1, <3>2, <3>5, <3>6, TestConstants DEF c
  <2> QED
    BY <2>4, <2>5
<1> QED
  BY <1>5, <1>6 DEF Drains

\* A read takes two messages, or all there is.
LEMMA DrainsCallRead ==
  ASSUME TestInv, NEW t \in Files, CallRead(t)
  PROVE  Drains'
<1>1. /\ tpc[t] = "read" /\ tpc' = [tpc EXCEPT ![t] = "reading"]
      /\ len' = [len EXCEPT ![t] = Min2(ReadCount, Used)]
      /\ UNCHANGED <<in, out>> /\ (raced => raced') /\ raced' \in BOOLEAN
      /\ len \in [Files -> Nat]
      /\ tpc \in [Files -> {"open", "write", "writing", "read",
                            "reading", "close", "exited", "wrong"}]
  BY DEF CallRead, ReadStart, Goto, TestInv, FifoInv, TypeOK, Programs
<1>2. Used' = Used /\ Pending' = Pending
  BY <1>1 DEF Used, Pending
<1>3. Used \in Nat
  BY DivMod, Widths DEF Used, TestInv, FifoInv, TypeOK
<1>4. ASSUME ~raced
      PROVE  Used - Min2(ReadCount, Used) <= MsgLen * Cardinality(Pending \ {t})
  <2> DEFINE c == Cardinality(Pending)
             d == Cardinality(Pending \ {t})
  <2>1. c \in Nat /\ d \in Nat /\ d >= c - 1 /\ Used <= MsgLen * c
    <3>1. IsFiniteSet(Pending) /\ Used <= MsgLen * c
      BY <1>4 DEF TestInv, Drains
    <3> QED
      BY <3>1, FS_RemoveElement, FS_CardinalityType
  <2> HIDE DEF c, d
  <2>2. MsgLen * d \in Nat /\ MsgLen * c <= MsgLen * d + MsgLen
    <3>1. MsgLen * (d + 1) = MsgLen * d + MsgLen /\ MsgLen * c <= MsgLen * (d + 1)
      BY <2>1, TestConstants
    <3> QED
      BY <2>1, <3>1, TestConstants
  <2>3. Min2(ReadCount, Used) = IF 2 * MsgLen <= Used THEN 2 * MsgLen ELSE Used
    BY TestConstants DEF Min2
  <2>4. MsgLen * c \in Nat
    BY <2>1, TestConstants
  <2> QED
    BY <1>3, <2>1, <2>2, <2>3, <2>4, TestConstants DEF d
<1> QED
  BY <1>1, <1>2, <1>4 DEF TestInv, Drains

\* When a read returns, what is left was written by others.
LEMMA DrainsReadReturns ==
  ASSUME TestInv, NEW t \in Files, ReadReturns(t)
  PROVE  Drains'
<1>1. /\ tpc[t] = "reading" /\ tpc' = [tpc EXCEPT ![t] = "close"] /\ raced' = raced
      /\ out' = (out + len[t]) % Modulus /\ in' = in /\ len \in [Files -> Nat]
      /\ tpc \in [Files -> {"open", "write", "writing", "read",
                            "reading", "close", "exited", "wrong"}]
  BY DEF ReadReturns, ReadCommit, Goto, TestInv, FifoInv, TypeOK, Programs
<1>2. Pending' = Pending \ {t}
  BY <1>1 DEF Pending
<1>3. IsFiniteSet(Pending')
  BY <1>2, FS_RemoveElement DEF TestInv, Drains
<1>4. ASSUME ~raced'
      PROVE  /\ Used' <= MsgLen * Cardinality(Pending')
             /\ \A u \in Files : tpc'[u] # "reading"
  <2>1. pc[t] \in Reading /\ \A u \in Files : tpc[u] = "reading" => pc[u] \in Reading
    BY <1>1 DEF TestInv, Programs, Standing
  <2>2. \A u \in Files : u # t => tpc[u] # "reading"
    BY <1>1, <1>4, <2>1 DEF TestInv, FifoInv, Exclusive
  <2>3. /\ len[t] <= Used /\ Used <= Size /\ len[t] \in Nat
        /\ Used - len[t] <= MsgLen * Cardinality(Pending \ {t})
    BY <1>1, <1>4, <2>1 DEF TestInv, FifoInv, RingIntact, Drains
  <2>4. Used' = Used - len[t]
    BY <1>1, <2>3, UsedAfterMove DEF Used, TestInv, FifoInv, TypeOK
  <2> QED
    BY <1>1, <1>2, <2>2, <2>3, <2>4
<1> QED
  BY <1>3, <1>4 DEF Drains

LEMMA TestInvNext ==
  ASSUME TestInv, [TestNext]_testVars
  PROVE  TestInv'
<1>1. FifoInv' /\ Programs'
  BY TestFifo, ProgramsNext DEF TestInv
<1>2. /\ tpc \in [Files -> {"open", "write", "writing", "read",
                            "reading", "close", "exited", "wrong"}]
      /\ raced \in BOOLEAN /\ raced' \in BOOLEAN /\ len \in [Files -> Nat] /\ Drains
  BY <1>1 DEF TestInv, FifoInv, TypeOK, Programs
<1>3. ASSUME NEW t \in Files, OpenFails(t) \/ OpenSucceeds(t) \/ Close(t)
      PROVE  Drains'
  <2>1. /\ UNCHANGED <<in, out, raced, len>>
        /\ \E to \in {"exited", "read", "write"} :
             /\ tpc' = [tpc EXCEPT ![t] = to]
             /\ to = "read" => t \in ReadOnlyTests
        /\ tpc[t] \in {"open", "close"}
    BY <1>3 DEF OpenFails, OpenSucceeds, Close, Goto, fifoVars
  <2>2. Pending' = Pending
    BY <1>2, <2>1 DEF Pending
  <2> QED
    BY <1>2, <2>1, <2>2, DrainsKept
<1>4. ASSUME NEW t \in Files, CallWrite(t)
      PROVE  Drains'
  <2>1. /\ tpc[t] = "write" /\ tpc' = [tpc EXCEPT ![t] = "writing"]
        /\ UNCHANGED <<in, out>> /\ (raced => raced')
        /\ \A u \in Files : u # t => len'[u] = len[u]
    BY <1>2, <1>4 DEF CallWrite, WriteStart, Goto
  <2>2. Pending' = Pending
    BY <1>2, <2>1 DEF Pending
  <2> QED
    BY <1>2, <2>1, <2>2, DrainsKept
<1>5. ASSUME NEW t \in Files, Copies(t)
      PROVE  Drains'
  <2>1. UNCHANGED <<in, out, raced, tpc, len>>
    BY <1>5, CopyStep DEF TestInv
  <2> QED
    BY <1>2, <2>1, DrainsKept DEF Pending
<1>6. ASSUME UNCHANGED testVars
      PROVE  Drains'
  <2>1. UNCHANGED <<in, out, raced, tpc, len>>
    BY <1>6 DEF testVars, fifoVars
  <2>2. Pending' = Pending /\ Used' = Used
    BY <2>1 DEF Pending, Used
  <2> QED
    BY <1>2, <2>1, <2>2 DEF Drains
<1>7. Drains'
  <2>1. ASSUME NEW t \in Files, Test(t)
        PROVE  Drains'
    BY <1>3, <1>4, <1>5, <2>1, DrainsWrite, DrainsCallRead, DrainsReadReturns DEF Test
  <2>2. (\E t \in Files : Test(t)) \/ UNCHANGED testVars
    BY DEF TestNext, AllFinished
  <2> QED
    BY <1>6, <2>1, <2>2
<1> QED
  BY <1>1, <1>7 DEF TestInv

\* Once every test program has exited and no calls of a kind have overlapped,
\* the fifo is empty: for any number of programs, any message and ring size,
\* also when writes came back short.
THEOREM TestsDrained == TestSpec => []DrainedAtEnd
<1>1. TestInit => TestInv
  BY TestInvInit DEF TestInv
<1>2. TestInv /\ [TestNext]_testVars => TestInv'
  BY TestInvNext
<1>3. TestInv => DrainedAtEnd
  <2> SUFFICES ASSUME TestInv, ~raced, \A t \in Files : tpc[t] = "exited"
               PROVE  Used = 0
    BY DEF DrainedAtEnd
  <2>1. Pending = {}
    BY DEF Pending
  <2>2. Used \in Nat
    BY DivMod, Widths DEF Used, TestInv, FifoInv, TypeOK
  <2>3. Used <= MsgLen * 0
    BY <2>1, FS_EmptySet DEF TestInv, Drains
  <2> QED
    BY <2>2, <2>3, TestConstants
<1> QED
  BY <1>1, <1>2, <1>3, PTL DEF TestSpec

\* A step of a test program is a step of the data path, made on behalf of a
\* description that is open for it.
LEMMA TestStep ==
  ASSUME ReadCount <= MaxCount, Programs, [TestNext]_testVars
  PROVE  [Next]_fifoVars
<1> SUFFICES ASSUME NEW t \in Files, Test(t), ~UNCHANGED fifoVars
             PROVE  Next
  BY DEF TestNext, AllFinished, testVars
<1>1. t \in Readers
  BY TestAssumption DEF Files
<1>2. Message \in Buffers /\ ReadCount \in 0..MaxCount
  <2>1. MsgLen \in 0..MaxCount /\ ReadCount \in 0..MaxCount
    BY TestConstants, FifoAssumption
  <2>2. Message \in [1..MsgLen -> Byte]
    BY FifoAssumption DEF Message, Zero
  <2> QED
    BY <2>1, <2>2 DEF Buffers
<1>3. CASE CallWrite(t)
  <2>1. t \in Writers /\ WriteStart(t, Message)
    BY <1>3, WhoWrites DEF CallWrite, Goto, Programs, Standing
  <2> QED
    BY <1>2, <2>1 DEF Next, Write
<1>4. CASE CallRead(t)
  BY <1>1, <1>2, <1>4 DEF CallRead, Next, Read
<1>5. CASE Copies(t) \/ WriteReturns(t) \/ ReadReturns(t)
  <2>1. CASE WriteCopy(t) \/ WriteCommit(t)
    <3>1. pc[t] \in Writing
      BY <2>1 DEF WriteCopy, WriteCommit, Writing
    <3>2. t \in Writers
      BY <3>1, WhoWrites DEF Programs, Standing
    <3> QED
      BY <2>1, <3>2 DEF Next, Write
  <2>2. CASE ReadCopy(t) \/ ReadCommit(t)
    BY <1>1, <2>2 DEF Next, Read
  <2> QED
    BY <1>5, <2>1, <2>2 DEF Copies, WriteReturns, ReadReturns
<1> QED
  BY <1>3, <1>4, <1>5 DEF Test, OpenFails, OpenSucceeds, Close

\* test1, test2 and the read-only programs use the data path as MyFsFifo lets any
\* program use it: what is proved of myfs_file_read and myfs_file_write holds under
\* them.  MaxCount bounds the counts that MyFsFifo considers.
THEOREM TestsRunFifo ==
  ASSUME ReadCount <= MaxCount PROVE TestSpec => Spec
<1>1. TestInit => TestInv /\ Init
  BY TestInvInit DEF TestInv, TestInit
<1>2. TestInv /\ [TestNext]_testVars => TestInv'
  BY TestInvNext
<1>3. TestInv /\ [TestNext]_testVars => [Next]_fifoVars
  BY TestStep DEF TestInv
<1> QED
  BY <1>1, <1>2, <1>3, PTL DEF TestSpec, Spec

\* As long as no calls of a kind overlap, the programs of course_design see one
\* bounded byte queue, whichever file of the file system each of them opens.
THEOREM TestsImplementQueue ==
  ASSUME ReadCount <= MaxCount PROVE TestSpec => ImplementsQueue
  BY TestsRunFifo, FifoImplementsQueue, PTL

\* The room shrinks by what a write moves and grows by what a read moves, also
\* when the counters wrap or out has passed in.
LEMMA RoomAfterMove ==
  ASSUME in \in 0..(Modulus - 1), out \in 0..(Modulus - 1), NEW n \in Nat
  PROVE  /\ Unused \in 0..(Modulus - 1)
         /\ n <= Unused /\ in' = (in + n) % Modulus /\ out' = out
              => Unused' = Unused - n
         /\ Unused + n < Modulus /\ in' = in /\ out' = (out + n) % Modulus
              => Unused' = Unused + n
<1> DEFINE M == Modulus
<1>1. M \in Nat \ {0} /\ Size \in Int /\ in \in Int /\ out \in Int
  BY Widths
<1> HIDE DEF M
<1>2. ASSUME NEW c \in Int, NEW x \in Int
      PROVE  (c - (x % M)) % M = (c - x) % M
  <2> DEFINE q == x \div M
  <2>1. x % M \in Int /\ q \in Int /\ x = M * q + (x % M)
    BY <1>1, DivMod
  <2> DEFINE r == x % M
  <2> HIDE DEF q, r
  <2>2. c - r = (c - x) + M * q /\ c - x \in Int
    BY <1>1, <2>1 DEF r
  <2>3. ((c - x) + M * q) % M = (c - x) % M
    BY <1>1, <2>1, <2>2, ModShift
  <2> QED
    BY <2>2, <2>3 DEF r
<1>3. ASSUME NEW c \in Int, NEW x \in Int
      PROVE  (c + (x % M)) % M = (c + x) % M
  <2> DEFINE q == x \div M
  <2>1. x % M \in Int /\ q \in Int /\ x = M * q + (x % M)
    BY <1>1, DivMod
  <2> DEFINE r == x % M
  <2> HIDE DEF q, r
  <2>2. c + x = (c + r) + M * q /\ c + r \in Int
    BY <1>1, <2>1 DEF r
  <2>3. ((c + r) + M * q) % M = (c + r) % M
    BY <1>1, <2>1, <2>2, ModShift
  <2> QED
    BY <2>2, <2>3 DEF r
<1> DEFINE z == Size - (in - out)
<1>4. z \in Int /\ Unused = z % M
  <2>1. in - out \in Int /\ z \in Int
    BY <1>1
  <2>2. (Size - ((in - out) % M)) % M = (Size - (in - out)) % M
    BY <1>1, <1>2, <2>1
  <2> QED
    BY <2>1, <2>2 DEF Unused, Used, M
<1>5. Unused \in 0..(M - 1)
  BY <1>1, <1>4, DivMod
<1>6. ASSUME NEW k \in Int, Unused + k \in 0..(M - 1)
      PROVE  (z + k) % M = Unused + k
  <2> DEFINE q == z \div M
  <2>1. q \in Int /\ z = M * q + Unused
    BY <1>1, <1>4, DivMod
  <2> HIDE DEF q, z
  <2>2. z + k = M * q + (Unused + k)
    BY <1>1, <1>5, <2>1
  <2> QED
    BY <1>1, <1>6, <2>1, <2>2, ModUnique
<1>7. ASSUME n <= Unused, in' = (in + n) % M, out' = out
      PROVE  Unused' = Unused - n
  <2>1. Unused' = (Size - ((in' - out) % M)) % M
    BY <1>7 DEF Unused, Used, M
  <2>2. in' \in Int /\ in' - out \in Int /\ in + n \in Int
    BY <1>1, <1>7, DivMod
  <2>3. (Size - ((in' - out) % M)) % M = (Size - (in' - out)) % M
    BY <1>1, <1>2, <2>2
  <2>4. Size - (in' - out) = (Size + out) - in' /\ Size + out \in Int
    BY <1>1, <2>2
  <2>5. ((Size + out) - ((in + n) % M)) % M = ((Size + out) - (in + n)) % M
    BY <1>2, <2>2, <2>4
  <2>6. (Size + out) - (in + n) = z + (-n) /\ -n \in Int
    BY <1>1
  <2>7. Unused + (-n) \in 0..(M - 1) /\ Unused + (-n) = Unused - n
    BY <1>1, <1>5, <1>7
  <2> HIDE DEF z
  <2>8. (z + (-n)) % M = Unused + (-n)
    BY <1>6, <2>6, <2>7
  <2> QED
    BY <1>7, <2>1, <2>3, <2>4, <2>5, <2>6, <2>7, <2>8
<1>8. ASSUME Unused + n < M, in' = in, out' = (out + n) % M
      PROVE  Unused' = Unused + n
  <2>1. Unused' = (Size - ((in - out') % M)) % M
    BY <1>8 DEF Unused, Used, M
  <2>2. out' \in Int /\ in - out' \in Int /\ out + n \in Int
    BY <1>1, <1>8, DivMod
  <2>3. (Size - ((in - out') % M)) % M = (Size - (in - out')) % M
    BY <1>1, <1>2, <2>2
  <2>4. Size - (in - out') = (Size - in) + out' /\ Size - in \in Int
    BY <1>1, <2>2
  <2>5. ((Size - in) + ((out + n) % M)) % M = ((Size - in) + (out + n)) % M
    BY <1>3, <2>2, <2>4
  <2>6. (Size - in) + (out + n) = z + n
    BY <1>1
  <2>7. Unused + n \in 0..(M - 1)
    BY <1>1, <1>5, <1>8
  <2> HIDE DEF z
  <2>8. (z + n) % M = Unused + n
    BY <1>6, <2>7
  <2> QED
    BY <1>8, <2>1, <2>3, <2>4, <2>5, <2>6, <2>8
<1> QED
  BY <1>5, <1>7, <1>8 DEF M

LEMMA PlentyInit ==
  ASSUME Room, TestInit
  PROVE  Plenty
<1>1. tpc = [t \in Files |-> "open"] /\ Unused = Size
  <2>1. Used = 0
    BY CounterCases, Widths DEF TestInit, Init, Used
  <2>2. Size - 0 = Size /\ Size % Modulus = Size
    BY CounterCases, Widths
  <2> QED
    BY <2>1, <2>2 DEF TestInit, Unused
<1>2. Unwritten = Writers /\ Through = {}
  BY <1>1 DEF Unwritten, Through, Files
<1>3. Cardinality(Through) = 0
  BY <1>2, FS_EmptySet
<1> QED
  BY <1>1, <1>2, <1>3, Widths, TestConstants DEF Plenty, Room, NoWrongWrite

\* The two sets of programs are finite, and at most all of them are through.
LEMMA RoomSets ==
  ASSUME Room
  PROVE  /\ IsFiniteSet(Unwritten) /\ IsFiniteSet(Through)
         /\ Cardinality(Unwritten) \in Nat /\ Cardinality(Through) \in Nat
         /\ ReadCount * Cardinality(Through) <= ReadCount * Cardinality(Files)
         /\ ReadCount * Cardinality(Files) \in Nat
         /\ ReadCount * Cardinality(Through) \in Nat
<1>1. /\ IsFiniteSet(Files) /\ Unwritten \in SUBSET Files /\ Through \in SUBSET Files
  BY DEF Room, Unwritten, Through, Files
<1>2. /\ IsFiniteSet(Unwritten) /\ IsFiniteSet(Through)
      /\ Cardinality(Through) <= Cardinality(Files)
  BY <1>1, FS_Subset
<1>3. /\ Cardinality(Unwritten) \in Nat /\ Cardinality(Through) \in Nat
      /\ Cardinality(Files) \in Nat
  BY <1>1, <1>2, FS_CardinalityType
<1> QED
  BY <1>2, <1>3, TestConstants

\* A write takes one message's room, which was kept for it.
LEMMA PlentyWrite ==
  ASSUME Room, RoomInv, NEW t \in Files, WriteReturns(t)
  PROVE  Plenty'
<1>1. /\ len[t] = MsgLen /\ last'.ret = MsgLen /\ tpc[t] = "writing"
      /\ in' = (in + MsgLen) % Modulus /\ out' = out
      /\ tpc \in [Files -> {"open", "write", "writing", "read",
                            "reading", "close", "exited", "wrong"}]
      /\ len \in [Files -> Nat] /\ len' = [len EXCEPT ![t] = 0]
  BY WriteReturnValue, ReturnStep DEF RoomInv, Plenty, FifoInv, TypeOK, Programs
<1>2. tpc' = [tpc EXCEPT ![t] = "read"]
  BY <1>1 DEF WriteReturns, Goto, AfterWrite
<1>3. t \in Writers
  BY <1>1, WhoWrites DEF RoomInv, Programs, Standing
<1>4. /\ t \in Unwritten /\ Unwritten' = Unwritten \ {t} /\ Through' = Through
  BY <1>1, <1>2, <1>3 DEF Unwritten, Through, Files
<1> DEFINE c == Cardinality(Unwritten)
           b == Size + ReadCount * Cardinality(Through)
<1>5. c \in Nat /\ c >= 1 /\ Cardinality(Unwritten') = c - 1 /\ b \in Nat
  <2>1. IsFiniteSet(Unwritten) /\ c \in Nat /\ b \in Nat
    BY RoomSets, Widths
  <2>2. Cardinality(Unwritten \ {t}) = c - 1 /\ Cardinality(Unwritten \ {t}) \in Nat
    BY <1>4, <2>1, FS_RemoveElement, FS_CardinalityType
  <2> QED
    BY <1>4, <2>1, <2>2
<1>6. MsgLen * c <= Unused /\ Unused <= b
  BY DEF RoomInv, Plenty
<1> HIDE DEF c, b
<1>7. MsgLen * c = MsgLen * (c - 1) + MsgLen /\ MsgLen * (c - 1) \in Nat
  BY <1>5, TestConstants
<1>8. Unused \in Nat /\ Unused' = Unused - MsgLen
  <2>1. in \in 0..(Modulus - 1) /\ out \in 0..(Modulus - 1)
    BY DEF RoomInv, FifoInv, TypeOK
  <2>2. Unused \in 0..(Modulus - 1)
    BY <2>1, RoomAfterMove, TestConstants
  <2>3. MsgLen <= Unused /\ Unused \in Nat
    BY <1>6, <1>7, <2>2, Widths, TestConstants
  <2> QED
    BY <1>1, <2>1, <2>3, RoomAfterMove, TestConstants
<1>9. MsgLen * (c - 1) <= Unused' /\ Unused' <= b
  BY <1>5, <1>6, <1>7, <1>8, TestConstants
<1>10. \A u \in Files : tpc'[u] # "wrong" /\ (tpc'[u] = "writing" => len'[u] = MsgLen)
  BY <1>1, <1>2 DEF RoomInv, Plenty, NoWrongWrite
<1>11. /\ MsgLen * Cardinality(Unwritten') <= Unused'
       /\ Unused' <= Size + ReadCount * Cardinality(Through')
  BY <1>4, <1>5, <1>9 DEF b
<1> QED
  BY <1>10, <1>11 DEF Plenty, NoWrongWrite

\* A read makes room, and the reads of all programs are too few for the room
\* to wrap around.
LEMMA PlentyRead ==
  ASSUME Room, RoomInv, NEW t \in Files, ReadReturns(t)
  PROVE  Plenty'
<1>1. /\ tpc[t] = "reading" /\ tpc' = [tpc EXCEPT ![t] = "close"]
      /\ out' = (out + len[t]) % Modulus /\ in' = in /\ len \in [Files -> Nat]
      /\ tpc \in [Files -> {"open", "write", "writing", "read",
                            "reading", "close", "exited", "wrong"}]
  BY DEF ReadReturns, ReadCommit, Goto, RoomInv, FifoInv, TypeOK, Programs
<1>2. len[t] <= ReadCount /\ len[t] \in Nat
  BY <1>1 DEF RoomInv, Programs, Standing
<1>3. Unwritten' = Unwritten /\ Through' = Through \cup {t} /\ t \notin Through
  BY <1>1 DEF Unwritten, Through, Files
<1> DEFINE c == Cardinality(Through)
           f == Cardinality(Files)
<1>4. /\ c \in Nat /\ Cardinality(Through') = c + 1 /\ f \in Nat /\ c + 1 <= f
  <2>1. IsFiniteSet(Through) /\ c \in Nat /\ IsFiniteSet(Files) /\ f \in Nat
    BY RoomSets, FS_CardinalityType DEF Room
  <2>2. Cardinality(Through \cup {t}) = c + 1
    BY <1>3, <2>1, FS_AddElement
  <2>3. Through \cup {t} \in SUBSET Files
    BY DEF Through
  <2>4. Cardinality(Through \cup {t}) <= f
    BY <2>1, <2>3, FS_Subset
  <2> QED
    BY <1>3, <2>1, <2>2, <2>4
<1>5. Unused <= Size + ReadCount * c /\ Size + ReadCount * f < Modulus
  BY DEF RoomInv, Plenty, Room
<1>6. MsgLen * Cardinality(Unwritten) <= Unused /\ MsgLen * Cardinality(Unwritten) \in Nat
  BY RoomSets, TestConstants DEF RoomInv, Plenty
<1> HIDE DEF c, f
<1>7. /\ ReadCount * (c + 1) = ReadCount * c + ReadCount
      /\ ReadCount * (c + 1) <= ReadCount * f
      /\ ReadCount * c \in Nat /\ ReadCount * f \in Nat
  BY <1>4, TestConstants
<1>8. Unused \in Nat /\ Unused' = Unused + len[t]
  <2>1. in \in 0..(Modulus - 1) /\ out \in 0..(Modulus - 1)
    BY DEF RoomInv, FifoInv, TypeOK
  <2>2. Unused \in Nat
    BY <1>2, <2>1, RoomAfterMove, Widths
  <2>3. Unused + len[t] < Modulus
    BY <1>2, <1>5, <1>7, <2>2, Widths, TestConstants
  <2> QED
    BY <1>1, <1>2, <2>1, <2>2, <2>3, RoomAfterMove
<1>9. Unused' <= Size + ReadCount * (c + 1)
  BY <1>2, <1>5, <1>7, <1>8, Widths, TestConstants
<1>10. MsgLen * Cardinality(Unwritten) <= Unused'
  BY <1>2, <1>6, <1>8
<1>11. \A u \in Files : tpc'[u] # "wrong" /\ (tpc'[u] = "writing" => len'[u] = MsgLen)
  <2>1. \A u \in Files \ {t} : len'[u] = len[u]
    BY ReturnStep DEF RoomInv
  <2> QED
    BY <1>1, <2>1 DEF RoomInv, Plenty, NoWrongWrite
<1> QED
  BY <1>3, <1>4, <1>9, <1>10, <1>11 DEF Plenty, NoWrongWrite

\* Every other step leaves the counters, and only takes programs out of the
\* one set and into the other.
LEMMA PlentyKept ==
  ASSUME Room, Plenty, UNCHANGED <<in, out>>, in \in 0..(Modulus - 1),
         out \in 0..(Modulus - 1),
         Unwritten' \subseteq Unwritten, Through \subseteq Through',
         \A u \in Files : /\ tpc'[u] # "wrong"
                          /\ tpc'[u] = "writing" => len'[u] = MsgLen
  PROVE  Plenty'
<1>1. Unused' = Unused /\ Unused \in Nat
  <2>1. Unused \in 0..(Modulus - 1)
    BY RoomAfterMove
  <2> QED
    BY <2>1, Widths DEF Unused, Used
<1>2. Unwritten' \in SUBSET Unwritten /\ Through' \in SUBSET Files /\ IsFiniteSet(Files)
  BY DEF Through, Room
<1> DEFINE c == Cardinality(Unwritten)
           d == Cardinality(Unwritten')
           e == Cardinality(Through)
           f == Cardinality(Through')
<1>3. c \in Nat /\ d \in Nat /\ d <= c
  <2>1. IsFiniteSet(Unwritten)
    BY RoomSets
  <2>2. IsFiniteSet(Unwritten') /\ d <= c
    BY <1>2, <2>1, FS_Subset
  <2> QED
    BY <2>1, <2>2, FS_CardinalityType
<1>4. e \in Nat /\ f \in Nat /\ e <= f
  <2>1. IsFiniteSet(Through')
    BY <1>2, FS_Subset
  <2>2. IsFiniteSet(Through) /\ e <= f
    BY <2>1, FS_Subset
  <2> QED
    BY <2>1, <2>2, FS_CardinalityType
<1>5. MsgLen * c <= Unused /\ Unused <= Size + ReadCount * e
  BY DEF Plenty
<1> HIDE DEF c, d, e, f
<1>6. /\ MsgLen * d <= MsgLen * c /\ ReadCount * e <= ReadCount * f
      /\ MsgLen * d \in Nat /\ MsgLen * c \in Nat
      /\ ReadCount * e \in Nat /\ ReadCount * f \in Nat
  BY <1>3, <1>4, TestConstants
<1>7. MsgLen * d <= Unused' /\ Unused' <= Size + ReadCount * f
  BY <1>1, <1>5, <1>6, Widths
<1> QED
  BY <1>7 DEF Plenty, NoWrongWrite, d, f

LEMMA RoomInvNext ==
  ASSUME Room, RoomInv, [TestNext]_testVars
  PROVE  RoomInv'
<1> DEFINE Place == {"open", "write", "writing", "read", "reading", "close",
                     "exited", "wrong"}
<1>1. FifoInv' /\ Programs'
  BY TestFifo, ProgramsNext DEF RoomInv
<1>2. /\ tpc \in [Files -> Place] /\ len \in [Files -> Nat]
      /\ in \in 0..(Modulus - 1) /\ out \in 0..(Modulus - 1) /\ Plenty
      /\ \A u \in Files : tpc[u] # "wrong" /\ (tpc[u] = "writing" => len[u] = MsgLen)
  BY <1>1 DEF RoomInv, FifoInv, TypeOK, Programs, Plenty, NoWrongWrite
<1>3. ASSUME NEW t \in Files, OpenFails(t) \/ OpenSucceeds(t) \/ Close(t) \/ CallRead(t)
      PROVE  Plenty'
  <2>1. /\ UNCHANGED <<in, out>> /\ \A u \in Files : u # t => len'[u] = len[u]
        /\ \/ tpc[t] \in {"open", "close"} /\ tpc' = [tpc EXCEPT ![t] = "exited"]
           \/ tpc[t] = "open" /\ tpc' = [tpc EXCEPT ![t] = "read"]
           \/ tpc[t] = "open" /\ tpc' = [tpc EXCEPT ![t] = "write"]
           \/ tpc[t] = "read" /\ tpc' = [tpc EXCEPT ![t] = "reading"]
    BY <1>2, <1>3 DEF OpenFails, OpenSucceeds, Close, CallRead, ReadStart, Goto, fifoVars
  <2>2. Unwritten' \subseteq Unwritten /\ Through \subseteq Through'
    BY <1>2, <2>1 DEF Unwritten, Through, Files
  <2>3. \A u \in Files : /\ tpc'[u] # "wrong"
                         /\ tpc'[u] = "writing" => len'[u] = MsgLen
    BY <1>2, <2>1
  <2> QED
    BY <1>2, <2>1, <2>2, <2>3, PlentyKept
<1>4. ASSUME NEW t \in Files, CallWrite(t)
      PROVE  Plenty'
  <2>1. /\ tpc[t] = "write" /\ tpc' = [tpc EXCEPT ![t] = "writing"]
        /\ UNCHANGED <<in, out>>
        /\ len' = [len EXCEPT ![t] = Min2(MsgLen, Unused)]
    BY <1>4, TestConstants DEF CallWrite, WriteStart, WriteClamp, Goto
  <2>2. t \in Writers
    BY <2>1, WhoWrites DEF RoomInv, Programs, Standing
  <2>3. Unwritten' = Unwritten /\ Through' = Through /\ t \in Unwritten
    BY <1>2, <2>1, <2>2 DEF Unwritten, Through, Files
  <2>4. Min2(MsgLen, Unused) = MsgLen
    <3> DEFINE c == Cardinality(Unwritten)
    <3>1. c \in Nat /\ c # 0
      BY <2>3, RoomSets, FS_EmptySet
    <3>2. MsgLen * c <= Unused
      BY <1>2 DEF Plenty
    <3>3. Unused \in Int
      BY <1>2, RoomAfterMove, Widths
    <3> HIDE DEF c
    <3>4. MsgLen <= MsgLen * c /\ MsgLen * c \in Nat
      BY <3>1, TestConstants
    <3>5. MsgLen <= Unused
      BY <3>2, <3>3, <3>4, TestConstants
    <3> QED
      BY <3>5 DEF Min2
  <2>5. \A u \in Files : /\ tpc'[u] # "wrong"
                         /\ tpc'[u] = "writing" => len'[u] = MsgLen
    BY <1>2, <2>1, <2>4
  <2> QED
    BY <1>2, <2>1, <2>3, <2>5, PlentyKept
<1>5. ASSUME (\E t \in Files : Copies(t)) \/ UNCHANGED testVars
      PROVE  Plenty'
  <2>1. UNCHANGED <<in, out, tpc, len>>
    BY <1>5, CopyStep DEF RoomInv, testVars, fifoVars
  <2>2. Unwritten' = Unwritten /\ Through' = Through
    BY <2>1 DEF Unwritten, Through
  <2>3. \A u \in Files : /\ tpc'[u] # "wrong"
                         /\ tpc'[u] = "writing" => len'[u] = MsgLen
    BY <1>2, <2>1
  <2> QED
    BY <1>2, <2>1, <2>2, <2>3, PlentyKept
<1>6. Plenty'
  <2>1. ASSUME NEW t \in Files, Test(t)
        PROVE  Plenty'
    BY <1>3, <1>4, <1>5, <2>1, PlentyWrite, PlentyRead DEF Test
  <2>2. (\E t \in Files : Test(t)) \/ UNCHANGED testVars
    BY DEF TestNext, AllFinished
  <2> QED
    BY <1>5, <2>1, <2>2
<1> QED
  BY <1>1, <1>6 DEF RoomInv

\* When the ring has room for the messages of all test programs, and the
\* counters are wide enough for their reads, no write(2) comes back short,
\* whichever calls overlap: no program prints "wrong write".
THEOREM TestsNoWrongWrite ==
  ASSUME Room
  PROVE  TestSpec => []NoWrongWrite
<1>1. TestInit => RoomInv
  BY TestInvInit, PlentyInit DEF RoomInv
<1>2. RoomInv /\ [TestNext]_testVars => RoomInv'
  BY RoomInvNext
<1>3. RoomInv => NoWrongWrite
  BY DEF RoomInv, Plenty
<1> QED
  BY <1>1, <1>2, <1>3, PTL DEF TestSpec
==============================================================================
