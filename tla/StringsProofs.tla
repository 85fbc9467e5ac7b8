---------------------------- MODULE StringsProofs ----------------------------
(***************************************************************************)
(* Theorems about Strings, for memories, codes and setups of every kind:   *)
(* the state keeps its types, the registers agree with the number of       *)
(* elements that have been done, and these are the ones that the           *)
(* instruction should have moved, compared, sent or taken.                 *)
(***************************************************************************)
EXTENDS Strings, SequenceTheorems, TLAPS

-----------------------------------------------------------------------------
(* Remainders                                                              *)

LEMMA Remainder ==
  ASSUME NEW d \in Nat \ {0}, NEW x \in Int
  PROVE  /\ x % d \in 0 .. d - 1 /\ x \div d \in Int
         /\ x = d * (x \div d) + (x % d)
OBVIOUS

\* The remainder is the only one.
LEMMA Unique ==
  ASSUME NEW d \in Nat \ {0}, NEW q \in Int, NEW r \in 0 .. d - 1
  PROVE  (d * q + r) % d = r
<1>1. PICK x \in Int : x = d * q + r
  OBVIOUS
<1>2. PICK p \in Int : p = x \div d
  OBVIOUS
<1>3. PICK s \in 0 .. d - 1 : s = x % d
  BY Remainder
<1>4. x = d * p + s
  BY <1>2, <1>3, Remainder
<1>5. d * (p - q) = r - s
  BY <1>1, <1>4
<1>6. PICK k \in Int : k = p - q
  OBVIOUS
<1>7. k >= 1 => d * k >= d
  OBVIOUS
<1>8. k <= -1 => d * k <= - d
  OBVIOUS
<1>9. k = 0
  BY <1>5, <1>6, <1>7, <1>8
<1>10. p = q
  BY <1>6, <1>9
<1>11. s = r
  BY <1>1, <1>4, <1>10
<1> QED
  BY <1>1, <1>3, <1>11

\* A remainder may be taken before an addition.
LEMMA TakenBefore ==
  ASSUME NEW d \in Nat \ {0}, NEW x \in Int, NEW y \in Int
  PROVE  ((x % d) + y) % d = (x + y) % d
<1>1. PICK q \in Int : q = x \div d
  OBVIOUS
<1>2. PICK r \in 0 .. d - 1 : r = x % d
  BY Remainder
<1>3. x = d * q + r
  BY <1>1, <1>2, Remainder
<1>4. PICK z \in Int : z = r + y
  OBVIOUS
<1>5. PICK p \in Int : p = z \div d
  OBVIOUS
<1>6. PICK s \in 0 .. d - 1 : s = z % d
  BY Remainder
<1>7. z = d * p + s
  BY <1>5, <1>6, Remainder
<1>8. PICK t \in Int : t = q + p
  OBVIOUS
<1>9. x + y = d * t + s
  BY <1>3, <1>4, <1>7, <1>8
<1>10. (x + y) % d = s
  BY <1>9, Unique
<1> QED
  BY <1>2, <1>4, <1>6, <1>10

\* The part above the remainder does not change when the remainder does.
LEMMA PartAbove ==
  ASSUME NEW d \in Nat \ {0}, NEW x \in Int, NEW t \in 0 .. d - 1
  PROVE  /\ x - (x % d) + t \in Int
         /\ (x - (x % d) + t) % d = t
<1>1. PICK q \in Int : q = x \div d
  OBVIOUS
<1>2. PICK r \in 0 .. d - 1 : r = x % d
  BY Remainder
<1>3. x = d * q + r
  BY <1>1, <1>2, Remainder
<1>4. x - r + t = d * q + t
  BY <1>3
<1>5. (x - r + t) % d = t
  BY <1>4, Unique
<1> QED
  BY <1>2, <1>5

LEMMA Sizes ==
  /\ Half \in Nat \ {0} /\ Dwords \in Nat \ {0}
  /\ 4 <= Half /\ 4 <= Dwords /\ Half <= Dwords
<1>1. Half \in Nat /\ 4 <= Half
  BY StringsAssumption
<1>2. (Half - 4) * Half >= 0
  BY <1>1
<1>3. Dwords \in Nat /\ Dwords >= 4 * Half
  BY <1>1, <1>2 DEF Dwords
<1> QED
  BY <1>1, <1>3

\* A register whose lower half is replaced.
LEMMA LowerHalf ==
  ASSUME NEW x \in Dword, NEW t \in 0 .. Half - 1
  PROVE  x - (x % Half) + t \in Dword
<1> USE Sizes
<1>1. x \in Int /\ x >= 0 /\ x < Half * Half
  BY DEF Dword, Dwords
<1>2. PICK q \in Int : q = x \div Half
  BY <1>1
<1>3. PICK r \in 0 .. Half - 1 : r = x % Half
  BY <1>1, Remainder
<1>4. x = Half * q + r
  BY <1>1, <1>2, <1>3, Remainder
<1>5. q < Half
  <2>1. q >= Half => Half * q >= Half * Half
    OBVIOUS
  <2> QED
    BY <1>1, <1>4, <2>1
<1>6. Half * q <= Half * Half - Half
  <2>1. (Half - 1 - q) * Half >= 0
    BY <1>5
  <2> QED
    BY <2>1
<1>7. q >= 0
  <2>1. q <= -1 => Half * q <= - Half
    OBVIOUS
  <2> QED
    BY <1>1, <1>4, <2>1
<1>8. Half * q >= 0
  BY <1>7
<1>9. Half * q + t \in 0 .. Half * Half - 1
  BY <1>6, <1>8
<1>10. x - (x % Half) + t = Half * q + t
  BY <1>3, <1>4
<1> QED
  BY <1>9, <1>10 DEF Dword, Dwords

-----------------------------------------------------------------------------
(* Elements                                                                *)

LEMMA SizeIs ==
  ASSUME NEW i \in Instruction
  PROVE  Size(i) \in {1, 2, 4} /\ Size(i) <= 4
BY DEF Size

\* The bytes of an element are told apart by their distance from its address.
LEMMA InElement ==
  ASSUME NEW a \in Dword, NEW n \in {1, 2, 4}, NEW x \in At(a, n)
  PROVE  (x - a) % Dwords \in 0 .. n - 1
<1> USE Sizes
<1>1. PICK r \in 0 .. n - 1 : x = (a + r) % Dwords
  BY DEF At
<1>2. a \in Int /\ a + r \in Int /\ - a \in Int
  BY DEF Dword
<1>3. (x - a) % Dwords = ((a + r) + (- a)) % Dwords
  <2>1. (((a + r) % Dwords) + (- a)) % Dwords = ((a + r) + (- a)) % Dwords
    BY <1>2, TakenBefore
  <2>2. PICK y \in 0 .. Dwords - 1 : y = (a + r) % Dwords
    BY <1>2, Remainder
  <2> QED
    BY <1>1, <1>2, <2>1, <2>2
<1>4. (a + r) + (- a) = r
  BY <1>2
<1>5. r % Dwords = r
  <2>1. r \in 0 .. Dwords - 1
    OBVIOUS
  <2>2. (Dwords * 0 + r) % Dwords = r
    BY <2>1, Unique
  <2> QED
    BY <2>2
<1> QED
  BY <1>3, <1>4, <1>5

LEMMA RegIs ==
  ASSUME NEW i \in Instruction, NEW r \in Dword
  PROVE  Reg(i, r) \in Dword
<1> USE Sizes
<1>1. r \in Int
  BY DEF Dword
<1>2. r % Half \in 0 .. Half - 1
  BY <1>1, Remainder
<1> QED
  BY <1>1, <1>2 DEF Reg, Dword

LEMMA Addressed ==
  ASSUME TypeOK, NEW i \in Instruction
  PROVE  From(i) \in Dword /\ To(i) \in Dword
BY RegIs DEF TypeOK, From, To

\* What is served has a value.
LEMMA ServedBytes ==
  ASSUME TypeOK, NEW a, NEW n \in {1, 2, 4}, Served(a, n)
  PROVE  \A r \in 0 .. n - 1 : mem[(a + r) % Dwords] \in Byte
BY DEF TypeOK, Served, At

LEMMA ElementBytes ==
  ASSUME TypeOK, NEW a, NEW n \in {1, 2, 4}, Served(a, n)
  PROVE  \A r \in 0 .. n - 1 : Element(a, n)[r] \in Byte
BY ServedBytes DEF Element

LEMMA WrittenBytes ==
  ASSUME TypeOK, NEW a \in Dword, NEW n \in {1, 2, 4}, NEW e,
         \A r \in 0 .. n - 1 : e[r] \in Byte
  PROVE  Written(a, n, e) \in [Mapped -> Byte]
<1>1. ASSUME NEW x \in Mapped
      PROVE  (IF x \in At(a, n) THEN e[(x - a) % Dwords] ELSE mem[x]) \in Byte
  <2>1. CASE x \in At(a, n)
    <3>1. (x - a) % Dwords \in 0 .. n - 1
      BY <2>1, InElement
    <3> QED
      BY <2>1, <3>1
  <2>2. CASE x \notin At(a, n)
    BY <2>2 DEF TypeOK
  <2> QED
    BY <2>1, <2>2
<1> QED
  BY <1>1 DEF Written

LEMMA GivenBytes ==
  ASSUME TypeOK, NEW n \in {1, 2, 4}, Gives(n)
  PROVE  /\ inp + n \in 0 .. Len(Input)
         /\ \A r \in 0 .. n - 1 : Input[inp + r + 1] \in Byte
<1>1. Input \in Seq(Byte) /\ Len(Input) \in Nat /\ inp \in 0 .. Len(Input)
  BY StringsAssumption DEF TypeOK
<1>2. inp + n <= Len(Input)
  BY DEF Gives
<1>3. inp + n \in 0 .. Len(Input)
  BY <1>1, <1>2
<1>4. ASSUME NEW r \in 0 .. n - 1
      PROVE  Input[inp + r + 1] \in Byte
  <2>1. inp + r + 1 \in 1 .. Len(Input)
    BY <1>1, <1>2
  <2> QED
    BY <1>1, <2>1
<1> QED
  BY <1>3, <1>4

LEMMA SentBytes ==
  ASSUME TypeOK, NEW a \in Dword, NEW n \in {1, 2, 4}, Served(a, n)
  PROVE  out \o Sent(a, n) \in Seq(Byte)
<1>1. ASSUME NEW j \in 1 .. n
      PROVE  mem[(a + j - 1) % Dwords] \in Byte
  <2>1. j - 1 \in 0 .. n - 1
    OBVIOUS
  <2>2. mem[(a + (j - 1)) % Dwords] \in Byte
    BY <2>1, ServedBytes
  <2>3. a + (j - 1) = a + j - 1
    BY DEF Dword
  <2> QED
    BY <2>2, <2>3
<1>2. Sent(a, n) \in [1 .. n -> Byte]
  BY <1>1 DEF Sent
<1>3. n \in Nat
  OBVIOUS
<1>4. Sent(a, n) \in Seq(Byte)
  BY <1>2, <1>3
<1>5. out \in Seq(Byte)
  BY DEF TypeOK
<1> QED
  BY <1>4, <1>5

\* What an element leaves of memory, the accumulator and the devices.
DataOK ==
  /\ acc' \in [0 .. 3 -> Byte] /\ zf' \in BOOLEAN /\ mem' \in [Mapped -> Byte]
  /\ inp' \in 0 .. Len(Input) /\ out' \in Seq(Byte)

LEMMA MovsBytes ==
  ASSUME TypeOK, NEW i \in Instruction, NEW n \in {1, 2, 4}, Movs(i, n)
  PROVE  DataOK
<1>1. Served(From(i), n) /\ To(i) \in Dword
  BY Addressed DEF Movs
<1>2. mem' \in [Mapped -> Byte]
  BY <1>1, ElementBytes, WrittenBytes DEF Movs
<1> QED
  BY <1>2 DEF Movs, DataOK, TypeOK

LEMMA StosBytes ==
  ASSUME TypeOK, NEW i \in Instruction, NEW n \in {1, 2, 4}, Stos(i, n)
  PROVE  DataOK
<1>1. To(i) \in Dword
  BY Addressed
<1>2. \A r \in 0 .. n - 1 : acc[r] \in Byte
  BY DEF TypeOK
<1>3. mem' \in [Mapped -> Byte]
  BY <1>1, <1>2, WrittenBytes DEF Stos
<1> QED
  BY <1>3 DEF Stos, DataOK, TypeOK

LEMMA LodsBytes ==
  ASSUME TypeOK, NEW i \in Instruction, NEW n \in {1, 2, 4}, Lods(i, n)
  PROVE  DataOK
<1>1. Served(From(i), n)
  BY DEF Lods
<1>2. ASSUME NEW r \in 0 .. 3
      PROVE  (IF r < n THEN Element(From(i), n)[r] ELSE acc[r]) \in Byte
  <2>1. CASE r < n
    <3>1. r \in 0 .. n - 1
      BY <2>1
    <3> QED
      BY <1>1, <2>1, <3>1, ElementBytes
  <2>2. CASE ~ (r < n)
    BY <2>2 DEF TypeOK
  <2> QED
    BY <2>1, <2>2
<1>3. acc' \in [0 .. 3 -> Byte]
  BY <1>2 DEF Lods
<1> QED
  BY <1>3 DEF Lods, DataOK, TypeOK

LEMMA ComparesBytes ==
  ASSUME TypeOK, NEW i \in Instruction, NEW n \in {1, 2, 4}, Cmps(i, n) \/ Scas(i, n)
  PROVE  DataOK
<1>1. CASE Cmps(i, n)
  <2>1. zf' \in BOOLEAN
    BY <1>1, Zenon DEF Cmps
  <2> QED
    BY <1>1, <2>1 DEF Cmps, DataOK, TypeOK
<1>2. CASE Scas(i, n)
  <2>1. zf' \in BOOLEAN
    BY <1>2, Zenon DEF Scas
  <2> QED
    BY <1>2, <2>1 DEF Scas, DataOK, TypeOK
<1> QED
  BY <1>1, <1>2

LEMMA InsBytes ==
  ASSUME TypeOK, NEW i \in Instruction, NEW n \in {1, 2, 4}, Ins(i, n)
  PROVE  DataOK
<1> DEFINE e == [r \in 0 .. n - 1 |-> Input[inp + r + 1]]
<1>1. To(i) \in Dword
  BY Addressed
<1>2. inp + n \in 0 .. Len(Input) /\ \A r \in 0 .. n - 1 : Input[inp + r + 1] \in Byte
  BY GivenBytes DEF Ins
<1>3. \A r \in 0 .. n - 1 : e[r] \in Byte
  BY <1>2
<1>4. mem' = Written(To(i), n, e) /\ inp' = inp + n
  BY DEF Ins
<1> HIDE DEF e
<1>5. mem' \in [Mapped -> Byte]
  BY <1>1, <1>3, <1>4, WrittenBytes
<1> QED
  BY <1>2, <1>4, <1>5 DEF Ins, DataOK, TypeOK

LEMMA OutsBytes ==
  ASSUME TypeOK, NEW i \in Instruction, NEW n \in {1, 2, 4}, Outs(i, n)
  PROVE  DataOK
<1>1. out' \in Seq(Byte)
  BY Addressed, SentBytes DEF Outs
<1> QED
  BY <1>1 DEF Outs, DataOK, TypeOK

LEMMA FailsBytes ==
  ASSUME TypeOK, NEW i \in Instruction, NEW n \in {1, 2, 4}, Fails(i, n)
  PROVE  DataOK
<1>1. inp' = inp \/ (inp' = inp + n /\ Gives(n))
  BY DEF Fails
<1>2. inp' \in 0 .. Len(Input)
  BY <1>1, GivenBytes DEF TypeOK
<1> QED
  BY <1>2 DEF Fails, registers, DataOK, TypeOK

LEMMA WorksBytes ==
  ASSUME TypeOK, NEW i \in Instruction, NEW n \in {1, 2, 4}, Works(i, n)
  PROVE  DataOK
BY MovsBytes, StosBytes, LodsBytes, ComparesBytes, InsBytes, OutsBytes DEF Works

-----------------------------------------------------------------------------
(* Registers                                                               *)

\* A register behind one more element of instruction i.
Next1(i, s, r) ==
  IF i.wide /\ ~ i.op16 THEN (r + s) % Dwords ELSE r - (r % Half) + ((r + s) % Half)

LEMMA NextIs ==
  ASSUME NEW i \in Instruction, NEW s \in Int, NEW r \in Dword
  PROVE  Next1(i, s, r) \in Dword
<1> USE Sizes
<1>1. r + s \in Int
  BY DEF Dword
<1>2. (r + s) % Dwords \in Dword
  BY <1>1, Remainder DEF Dword
<1>3. (r + s) % Half \in 0 .. Half - 1
  BY <1>1, Remainder
<1>4. r - (r % Half) + ((r + s) % Half) \in Dword
  BY <1>3, LowerHalf
<1> QED
  BY <1>2, <1>4 DEF Next1

LEMMA SteppedIs ==
  ASSUME TypeOK, NEW i \in Instruction, NEW r \in Dword
  PROVE  Stepped(i, r) = Next1(i, Stride(i), r) /\ Stepped(i, r) \in Dword
<1>1. Stride(i) \in Int
  BY SizeIs DEF Stride
<1>2. Stepped(i, r) = Next1(i, Stride(i), r)
  BY DEF Stepped, Next1
<1> QED
  BY <1>1, <1>2, NextIs

\* One element after k is one after k + 1.
LEMMA ReachedNext ==
  ASSUME NEW j \in Job, NEW start \in Dword, NEW k \in Nat
  PROVE  Next1(j.ins, Step(j), Reached(j, start, k)) = Reached(j, start, k + 1)
<1> USE Sizes
<1>1. PICK s \in Int : s = Step(j)
  <2>1. j.ins \in Instruction
    BY DEF Job
  <2> QED
    BY <2>1, SizeIs DEF Step
<1>2. PICK x \in Int : x = start + k * s
  BY DEF Dword
<1>3. start + (k + 1) * s = x + s
  <2>1. (k + 1) * s = k * s + s
    OBVIOUS
  <2> QED
    BY <1>2, <2>1 DEF Dword
<1>4. CASE j.ins.wide /\ ~ j.ins.op16
  <2>1. Reached(j, start, k) = x % Dwords /\ Reached(j, start, k + 1) = (x + s) % Dwords
    BY <1>1, <1>2, <1>3, <1>4 DEF Reached
  <2>2. ((x % Dwords) + s) % Dwords = (x + s) % Dwords
    BY TakenBefore
  <2> QED
    BY <1>1, <1>4, <2>1, <2>2 DEF Next1
<1>5. CASE ~ (j.ins.wide /\ ~ j.ins.op16)
  <2>1. PICK t \in 0 .. Half - 1 : t = x % Half
    BY Remainder
  <2>2. start \in Int /\ start % Half \in Int
    BY Remainder DEF Dword
  <2>3. PICK r : r = start - (start % Half) + t
    OBVIOUS
  <2>4. r \in Int /\ r % Half = t
    BY <2>2, <2>3, PartAbove
  <2>5. Reached(j, start, k) = r
    BY <1>1, <1>2, <1>5, <2>1, <2>3 DEF Reached
  <2>6. Reached(j, start, k + 1) = start - (start % Half) + ((x + s) % Half)
    BY <1>1, <1>3, <1>5 DEF Reached
  <2>7. (r + s) % Half = (x + s) % Half
    <3>1. ((r % Half) + s) % Half = (r + s) % Half
      BY <2>4, TakenBefore
    <3>2. ((x % Half) + s) % Half = (x + s) % Half
      BY TakenBefore
    <3> QED
      BY <2>1, <2>4, <3>1, <3>2
  <2>8. Next1(j.ins, s, r) = r - (r % Half) + ((r + s) % Half)
    BY <1>5 DEF Next1
  <2>9. r - (r % Half) = start - (start % Half)
    BY <2>2, <2>3, <2>4
  <2> QED
    BY <1>1, <2>5, <2>6, <2>7, <2>8, <2>9
<1> QED
  BY <1>4, <1>5

LEMMA ReachedFirst ==
  ASSUME NEW j \in Job, NEW start \in Dword
  PROVE  Reached(j, start, 0) = start
<1> USE Sizes
<1>1. PICK s \in Int : s = Step(j)
  <2>1. j.ins \in Instruction
    BY DEF Job
  <2> QED
    BY <2>1, SizeIs DEF Step
<1>2. start \in Int /\ start + 0 * s = start
  BY DEF Dword
<1>3. start % Dwords = start
  <2>1. start \in 0 .. Dwords - 1
    BY DEF Dword
  <2>2. (Dwords * 0 + start) % Dwords = start
    BY <2>1, Unique
  <2> QED
    BY <1>2, <2>2
<1>4. start - (start % Half) + (start % Half) = start
  <2>1. start % Half \in Int
    BY <1>2, Remainder
  <2> QED
    BY <1>2, <2>1
<1> QED
  BY <1>1, <1>2, <1>3, <1>4 DEF Reached

\* The counter goes down by one; what is above CX stays when only CX counts.
CountedDown(i, c) == IF i.addr16 THEN c - (c % Half) + ((c % Half) - 1) ELSE c - 1

LEMMA CountIs ==
  ASSUME NEW i \in Instruction, NEW c \in Dword
  PROVE  Counts(i, c) \in Dword
BY RegIs, Sizes, Remainder DEF Counts, Dword

LEMMA CountsOneLess ==
  ASSUME NEW i \in Instruction, NEW c \in Dword, Counts(i, c) # 0
  PROVE  /\ CountedDown(i, c) \in Dword
         /\ Counts(i, CountedDown(i, c)) = Counts(i, c) - 1
         /\ CountedDown(i, c) - Counts(i, CountedDown(i, c)) = c - Counts(i, c)
<1> USE Sizes
<1>1. c \in Int
  BY DEF Dword
<1>2. CASE i.addr16
  <2>1. PICK t \in 0 .. Half - 1 : t = c % Half
    BY <1>1, Remainder
  <2>2. t # 0
    BY <1>2, <2>1 DEF Counts
  <2>3. t - 1 \in 0 .. Half - 1
    BY <2>2
  <2>4. PICK b \in Dword : b = c - (c % Half) + (t - 1)
    BY <2>3, LowerHalf
  <2>5. b % Half = t - 1
    BY <1>1, <2>3, <2>4, PartAbove
  <2>6. CountedDown(i, c) = b
    BY <1>2, <2>1, <2>4 DEF CountedDown
  <2>7. Counts(i, c) = t /\ Counts(i, b) = t - 1
    BY <1>2, <2>1, <2>5 DEF Counts
  <2>8. b - (t - 1) = c - t
    BY <1>1, <2>1, <2>4
  <2> QED
    BY <2>6, <2>7, <2>8
<1>3. CASE ~ i.addr16
  BY <1>1, <1>3 DEF Counts, CountedDown, Dword
<1> QED
  BY <1>2, <1>3

-----------------------------------------------------------------------------
(* A cycle                                                                 *)

RegistersOK ==
  /\ esi' \in Dword /\ edi' \in Dword /\ ecx' \in Dword /\ df' \in BOOLEAN
  /\ string_compares' \in BOOLEAN /\ pc' \in {"next", "repeat", "faulted"}
  /\ done' \in Nat /\ reach' \in Nat

\* What a cycle does: nothing more to do, one element, or an exception.
Nothing(i, d) ==
  /\ Repeats(i) /\ Counter(i) = 0
  /\ pc' = "next" /\ done' = d
  /\ UNCHANGED <<registers, string_compares, mem, inp, out>>

Moved(i, d) ==
  /\ ~ (Repeats(i) /\ Counter(i) = 0)
  /\ Works(i, Size(i)) /\ Moves(i) /\ Leaves(i, d)

Thrown(i, d) ==
  /\ ~ (Repeats(i) /\ Counter(i) = 0)
  /\ Fails(i, Size(i))
  /\ pc' = "faulted" /\ done' = d
  /\ string_compares' = (string_compares \/ Compares(i))

LEMMA CycleCases ==
  ASSUME NEW i, NEW d, NEW r, Cycle(i, d, r)
  PROVE  /\ Nothing(i, d) \/ Moved(i, d) \/ Thrown(i, d)
         /\ reach' = IF done' > r THEN done' ELSE r
         /\ UNCHANGED host
BY Zenon DEF Cycle, Nothing, Moved, Thrown

LEMMA MovedRegisters ==
  ASSUME TypeOK, NEW i \in Instruction, NEW d \in Nat, Moved(i, d)
  PROVE  /\ esi' = (IF i.op = "ins" THEN esi ELSE Next1(i, Stride(i), esi))
         /\ edi' = Next1(i, Stride(i), edi)
         /\ ecx' = (IF Repeats(i) THEN CountedDown(i, ecx) ELSE ecx)
         /\ esi' \in Dword /\ edi' \in Dword /\ ecx' \in Dword
         /\ df' = df /\ done' = d + 1
         /\ string_compares' \in BOOLEAN /\ pc' \in {"next", "repeat"}
<1>1. esi \in Dword /\ edi \in Dword /\ ecx \in Dword
  BY DEF TypeOK
<1>2. esi' = (IF i.op = "ins" THEN esi ELSE Stepped(i, esi)) /\ edi' = Stepped(i, edi) /\ df' = df
  BY DEF Moved, Moves
<1>3. /\ esi' = (IF i.op = "ins" THEN esi ELSE Next1(i, Stride(i), esi))
      /\ edi' = Next1(i, Stride(i), edi)
      /\ esi' \in Dword /\ edi' \in Dword
  BY <1>1, <1>2, SteppedIs
<1>4. done' = d + 1
  BY DEF Moved, Leaves
<1>5. CASE Repeats(i)
  <2>1. Counts(i, ecx) # 0
    BY <1>5 DEF Moved, Counter
  <2>2. ecx' = CountedDown(i, ecx) /\ string_compares' = FALSE
    BY <1>5 DEF Moved, Leaves, CountedDown
  <2>3. pc' \in {"next", "repeat"}
    BY <1>5 DEF Moved, Leaves
  <2> QED
    BY <1>1, <1>2, <1>3, <1>4, <1>5, <2>1, <2>2, <2>3, CountsOneLess
<1>6. CASE ~ Repeats(i)
  <2>1. ecx' = ecx /\ pc' = "next"
    BY <1>6 DEF Moved, Leaves
  <2>2. string_compares' = (string_compares \/ Compares(i))
    BY <1>6 DEF Moved, Leaves
  <2>3. string_compares' \in BOOLEAN
    BY <2>2, Zenon
  <2> QED
    BY <1>1, <1>2, <1>3, <1>4, <1>6, <2>1, <2>3
<1> QED
  BY <1>5, <1>6

LEMMA CycleTypes ==
  ASSUME TypeOK, NEW i \in Instruction, NEW d \in Nat, NEW r \in Nat, Cycle(i, d, r)
  PROVE  DataOK /\ RegistersOK
<1>1. Size(i) \in {1, 2, 4}
  BY SizeIs
<1>2. reach' = IF done' > r THEN done' ELSE r
  BY CycleCases
<1>3. CASE Nothing(i, d)
  <2>1. DataOK
    BY <1>3 DEF Nothing, registers, DataOK, TypeOK
  <2> QED
    BY <1>2, <1>3, <2>1 DEF Nothing, registers, RegistersOK, TypeOK
<1>4. CASE Moved(i, d)
  <2>1. DataOK
    BY <1>1, <1>4, WorksBytes DEF Moved
  <2>2. df' \in BOOLEAN
    BY <1>4, MovedRegisters DEF TypeOK
  <2> QED
    BY <1>2, <1>4, <2>1, <2>2, MovedRegisters DEF RegistersOK
<1>5. CASE Thrown(i, d)
  <2>1. DataOK
    BY <1>1, <1>5, FailsBytes DEF Thrown
  <2>2. string_compares' \in BOOLEAN
    BY <1>5, Zenon DEF Thrown
  <2> QED
    BY <1>2, <1>5, <2>1, <2>2 DEF Thrown, Fails, registers, RegistersOK, TypeOK
<1> QED
  BY <1>3, <1>4, <1>5, CycleCases

\* What the registers say of job j when instruction i is k elements on.
Follows(j, d, i, si, di, c, k) == d = j.df /\ i = j.ins /\ Agree(j, si, di, c, k)

LEMMA CycleFollows ==
  ASSUME TypeOK, NEW i \in Instruction, NEW d \in Nat, NEW r \in Nat, Cycle(i, d, r),
         NEW j \in Job, Follows(j, df, i, esi, edi, ecx, d)
  PROVE  Follows(j, df', i, esi', edi', ecx', done')
<1>1. CASE UNCHANGED registers /\ done' = d
  BY <1>1 DEF registers, Follows
<1>2. CASE Moved(i, d)
  <2>1. Stride(i) = Step(j) /\ i = j.ins
    BY DEF Follows, Stride, Step
  <2>2. /\ esi = (IF i.op = "ins" THEN j.esi ELSE Reached(j, j.esi, d))
        /\ edi = Reached(j, j.edi, d)
    BY <2>1 DEF Follows, Agree
  <2>3. j.esi \in Dword /\ j.edi \in Dword /\ j.count \in Nat /\ j.ecx \in Nat
    BY DEF Job, Dword
  <2>4. /\ esi' = (IF i.op = "ins" THEN j.esi ELSE Reached(j, j.esi, d + 1))
        /\ edi' = Reached(j, j.edi, d + 1)
    BY <1>2, <2>1, <2>2, <2>3, MovedRegisters, ReachedNext
  <2>5. ASSUME Repeats(i)
        PROVE  /\ d + 1 <= j.count /\ Counts(i, ecx') = j.count - (d + 1)
               /\ ecx' - Counts(i, ecx') = j.ecx - j.count
    <3>1. Counts(i, ecx) # 0 /\ ecx \in Dword
      BY <1>2, <2>5 DEF Moved, Counter, TypeOK
    <3>2. d <= j.count /\ Counts(i, ecx) = j.count - d /\ ecx - Counts(i, ecx) = j.ecx - j.count
      BY <2>1, <2>5 DEF Follows, Agree
    <3>3. ecx' = CountedDown(i, ecx)
      BY <1>2, <2>5, MovedRegisters
    <3>4. PICK b \in Dword : b = ecx'
      BY <1>2, MovedRegisters
    <3>5. Counts(i, b) = Counts(i, ecx) - 1 /\ b - Counts(i, b) = ecx - Counts(i, ecx)
      BY <3>1, <3>3, <3>4, CountsOneLess
    <3>6. d + 1 <= j.count
      BY <2>3, <3>1, <3>2
    <3>7. Counts(i, b) = j.count - (d + 1)
      BY <2>3, <3>2, <3>5
    <3> QED
      BY <3>2, <3>4, <3>5, <3>6, <3>7
  <2>6. df' = j.df /\ done' = d + 1
    BY <1>2, MovedRegisters DEF Follows
  <2> QED
    BY <2>1, <2>4, <2>5, <2>6 DEF Follows, Agree
<1> QED
  BY <1>1, <1>2, CycleCases DEF Nothing, Thrown, Fails

-----------------------------------------------------------------------------
(* The invariant                                                           *)

\* The registers say so, and so do those of a snapshot that the same instruction can go on
\* from: without that part a load would not keep the first.
Going == job # NoJob => Follows(job, df, ins, esi, edi, ecx, done)

Back ==
  saved # NotSaved =>
    /\ saved.steps <= steps
    /\ job # NoJob /\ saved.steps = steps =>
         Follows(job, saved.df, saved.ins, saved.esi, saved.edi, saved.ecx, saved.done)

StringsInv == TypeOK /\ Going /\ Back

LEMMA Remembered ==
  ASSUME NEW j \in Job
  PROVE  j # NoJob
<1>1. j.count \in Nat
  BY Sizes DEF Job, Dword
<1>2. NoJob.count = -1
  BY DEF NoJob
<1> QED
  BY <1>1, <1>2

LEMMA Kept ==
  ASSUME NEW j \in Snapshot
  PROVE  j # NotSaved
<1>1. j.pc \in {"next", "repeat"}
  BY DEF Snapshot
<1>2. NotSaved.pc = "none"
  BY DEF NotSaved
<1> QED
  BY <1>1, <1>2

LEMMA StringsInit == Init => StringsInv
<1> SUFFICES ASSUME Init PROVE StringsInv
  OBVIOUS
<1>1. esi \in Dword /\ edi \in Dword /\ ecx \in Dword /\ df \in BOOLEAN
  BY StringsAssumption DEF Init, Setup
<1>2. acc \in [0 .. 3 -> Byte] /\ mem \in [Mapped -> Byte]
  BY StringsAssumption DEF Init
<1>3. ins \in Instruction
  BY DEF Init, NoInstruction, Instruction, Ops
<1>4. inp \in 0 .. Len(Input) /\ out \in Seq(Byte)
  BY StringsAssumption DEF Init
<1>5. TypeOK
  BY <1>1, <1>2, <1>3, <1>4 DEF Init, TypeOK
<1> QED
  BY <1>5 DEF Init, StringsInv, Going, Back

LEMMA JobIs ==
  ASSUME TypeOK, NEW i \in Instruction, NEW j,
         j = [ins |-> i, esi |-> esi, edi |-> edi, ecx |-> ecx, df |-> df, zf |-> zf,
              count |-> Counter(i), mem |-> mem, inp |-> inp, out |-> out,
              clean |-> ~ string_compares]
  PROVE  j \in Job
<1>1. Counter(i) \in Dword
  BY CountIs DEF Counter, TypeOK
<1> QED
  BY <1>1 DEF TypeOK, Job

\* What a job says at its beginning.
LEMMA BeginsThere ==
  ASSUME TypeOK, NEW i \in Instruction, NEW j \in Job,
         j = [ins |-> i, esi |-> esi, edi |-> edi, ecx |-> ecx, df |-> df, zf |-> zf,
              count |-> Counter(i), mem |-> mem, inp |-> inp, out |-> out,
              clean |-> ~ string_compares]
  PROVE  Follows(j, df, i, esi, edi, ecx, 0)
<1>1. esi \in Dword /\ edi \in Dword /\ ecx \in Dword
  BY DEF TypeOK
<1>2. j.esi = esi /\ j.edi = edi /\ j.ecx = ecx /\ j.ins = i /\ j.df = df
      /\ j.count = Counts(i, ecx)
  BY DEF Counter
<1>3. Reached(j, j.esi, 0) = esi /\ Reached(j, j.edi, 0) = edi
  BY <1>1, <1>2, ReachedFirst
<1>4. Counts(i, ecx) \in Nat
  BY <1>1, CountIs DEF Dword
<1> QED
  BY <1>2, <1>3, <1>4 DEF Follows, Agree

LEMMA BeginKeeps ==
  ASSUME StringsInv, NEW i \in Code, Begin(i)
  PROVE  StringsInv'
<1>1. TypeOK /\ i \in Instruction
  BY StringsAssumption DEF StringsInv
<1>2. Cycle(i, 0, 0)
  BY DEF Begin
<1>3. DataOK /\ RegistersOK
  BY <1>1, <1>2, CycleTypes
<1>4. PICK j : j = [ins |-> i, esi |-> esi, edi |-> edi, ecx |-> ecx, df |-> df, zf |-> zf,
                    count |-> Counter(i), mem |-> mem, inp |-> inp, out |-> out,
                    clean |-> ~ string_compares]
  OBVIOUS
<1>5. j \in Job
  BY <1>1, <1>4, JobIs
<1>6. job' = j
  BY <1>4 DEF Begin
<1>7. ins' = i /\ steps' = steps + 1 /\ again' = FALSE /\ saved' = saved
      /\ saves' = saves /\ loads' = loads
  BY <1>2, CycleCases DEF Begin, host
<1>8. TypeOK'
  <2>1. job' = NoJob \/ job' \in Job
    BY <1>5, <1>6
  <2>2. saved' = NotSaved \/ saved' \in Snapshot
    BY <1>1, <1>7 DEF TypeOK
  <2>3. steps' \in Nat /\ saves' \in Nat /\ loads' \in Nat
    BY <1>1, <1>7 DEF TypeOK
  <2>4. ins' \in Instruction /\ again' \in BOOLEAN
    BY <1>1, <1>7
  <2> QED
    BY <1>3, <2>1, <2>2, <2>3, <2>4 DEF DataOK, RegistersOK, TypeOK
<1>9. Follows(j, df, i, esi, edi, ecx, 0)
  BY <1>1, <1>4, <1>5, BeginsThere
<1>10. Follows(j, df', i, esi', edi', ecx', done')
  BY <1>1, <1>2, <1>5, <1>9, CycleFollows
<1>11. Going'
  BY <1>6, <1>7, <1>10 DEF Going
<1>12. Back'
  <2>1. saved = NotSaved \/ (saved \in Snapshot /\ saved # NotSaved)
    BY <1>1, Kept DEF TypeOK
  <2>2. ASSUME saved # NotSaved
        PROVE  saved.steps < steps + 1
    <3>1. saved.steps \in Nat /\ steps \in Nat
      BY <1>1, <2>1, <2>2 DEF TypeOK, Snapshot
    <3>2. saved.steps <= steps
      BY <2>2 DEF StringsInv, Back
    <3> QED
      BY <3>1, <3>2
  <2>3. ASSUME saved # NotSaved
        PROVE  saved.steps <= steps' /\ saved.steps # steps'
    <3>1. saved.steps \in Nat /\ steps \in Nat
      BY <1>1, <2>1, <2>3 DEF TypeOK, Snapshot
    <3> QED
      BY <1>7, <2>2, <2>3, <3>1
  <2> QED
    BY <1>7, <2>3 DEF Back
<1> QED
  BY <1>8, <1>11, <1>12 DEF StringsInv

LEMMA ContinueKeeps ==
  ASSUME StringsInv, Continue
  PROVE  StringsInv'
<1>1. TypeOK /\ ins \in Instruction /\ done \in Nat /\ reach \in Nat
  BY DEF StringsInv, TypeOK
<1>2. Cycle(ins, done, reach)
  BY DEF Continue
<1>3. DataOK /\ RegistersOK
  BY <1>1, <1>2, CycleTypes
<1>4. /\ ins' = ins /\ steps' = steps /\ job' = job /\ again' = again
      /\ saved' = saved /\ saves' = saves /\ loads' = loads
  BY <1>2, CycleCases DEF Continue, host
<1>5. TypeOK'
  BY <1>1, <1>3, <1>4 DEF DataOK, RegistersOK, TypeOK
<1>6. Going'
  <2>1. ASSUME job # NoJob
        PROVE  Follows(job, df', ins, esi', edi', ecx', done')
    <3>1. PICK j \in Job : j = job
      BY <1>1, <2>1 DEF TypeOK
    <3>2. Follows(j, df, ins, esi, edi, ecx, done)
      BY <2>1, <3>1 DEF StringsInv, Going
    <3>3. Follows(j, df', ins, esi', edi', ecx', done')
      BY <1>1, <1>2, <3>2, CycleFollows
    <3> QED
      BY <3>1, <3>3
  <2> QED
    BY <1>4, <2>1 DEF Going
<1>7. Back'
  BY <1>4 DEF StringsInv, Back
<1> QED
  BY <1>5, <1>6, <1>7 DEF StringsInv

LEMMA PrepareKeeps ==
  ASSUME StringsInv, NEW s \in Reloads, Prepare(s)
  PROVE  StringsInv'
<1>1. s \in Setup
  BY StringsAssumption
<1>2. TypeOK
  BY DEF StringsInv
<1>3. TypeOK'
  BY <1>1, <1>2 DEF Prepare, Setup, host, TypeOK
<1>4. Going'
  BY DEF Prepare, Going
<1>5. Back'
  BY DEF Prepare, host, StringsInv, Back
<1> QED
  BY <1>3, <1>4, <1>5 DEF StringsInv

LEMMA SaveKeeps ==
  ASSUME StringsInv, SaveState
  PROVE  StringsInv'
<1>1. TypeOK
  BY DEF StringsInv
<1>2. saved' \in Snapshot
  BY <1>1 DEF SaveState, TypeOK, Snapshot
<1>3. /\ UNCHANGED <<esi, edi, ecx, acc, df, zf>>
      /\ UNCHANGED <<string_compares, mem, inp, out, ins, pc, loads, steps, job, done, reach, again>>
      /\ saves' = saves + 1
  BY DEF SaveState, registers
<1>4. TypeOK'
  BY <1>1, <1>2, <1>3 DEF TypeOK
<1>5. Going'
  BY <1>3 DEF StringsInv, Going
<1>6. Back'
  <2>1. /\ saved'.steps = steps /\ saved'.df = df /\ saved'.ins = ins
        /\ saved'.esi = esi /\ saved'.edi = edi /\ saved'.ecx = ecx /\ saved'.done = done
    BY DEF SaveState
  <2>2. steps \in Nat
    BY <1>1 DEF TypeOK
  <2> QED
    BY <1>3, <2>1, <2>2 DEF StringsInv, Going, Back
<1> QED
  BY <1>4, <1>5, <1>6 DEF StringsInv

LEMMA LoadKeeps ==
  ASSUME StringsInv, LoadState
  PROVE  StringsInv'
<1>1. TypeOK /\ saved # NotSaved
  BY DEF StringsInv, LoadState
<1>2. saved \in Snapshot
  BY <1>1 DEF TypeOK
<1>3. /\ esi' = saved.esi /\ edi' = saved.edi /\ ecx' = saved.ecx /\ df' = saved.df
      /\ acc' = saved.acc /\ zf' = saved.zf /\ ins' = saved.ins /\ pc' = saved.pc
      /\ done' = saved.done /\ string_compares' = FALSE /\ again' = TRUE
      /\ loads' = loads + 1
      /\ UNCHANGED <<mem, inp, out, saved, saves, steps, reach>>
  BY DEF LoadState
<1>4. job' = NoJob \/ (job' = job /\ saved.steps = steps)
  BY DEF LoadState
<1>5. TypeOK'
  <2>1. job' = NoJob \/ job' \in Job
    BY <1>1, <1>4 DEF TypeOK
  <2>2. saved' = NotSaved \/ saved' \in Snapshot
    BY <1>2, <1>3
  <2>3. steps' \in Nat /\ saves' \in Nat /\ loads' \in Nat /\ reach' \in Nat
    BY <1>1, <1>3 DEF TypeOK
  <2>4. /\ esi' \in Dword /\ edi' \in Dword /\ ecx' \in Dword
        /\ acc' \in [0 .. 3 -> Byte] /\ df' \in BOOLEAN /\ zf' \in BOOLEAN
        /\ ins' \in Instruction /\ pc' \in {"next", "repeat", "faulted"} /\ done' \in Nat
    BY <1>2, <1>3 DEF Snapshot
  <2>5. mem' \in [Mapped -> Byte] /\ inp' \in 0 .. Len(Input) /\ out' \in Seq(Byte)
    BY <1>1, <1>3 DEF TypeOK
  <2>6. string_compares' \in BOOLEAN /\ again' \in BOOLEAN
    BY <1>3
  <2> QED
    BY <2>1, <2>2, <2>3, <2>4, <2>5, <2>6 DEF TypeOK
<1>6. Going'
  BY <1>1, <1>3, <1>4 DEF StringsInv, Back, Going
<1>7. Back'
  BY <1>3, <1>4 DEF StringsInv, Back
<1> QED
  BY <1>5, <1>6, <1>7 DEF StringsInv

LEMMA StringsInductive == Spec => []StringsInv
<1>1. StringsInv /\ [Next]_vars => StringsInv'
  <2> SUFFICES ASSUME StringsInv, [Next]_vars PROVE StringsInv'
    OBVIOUS
  <2>1. ASSUME NEW i \in Code, Begin(i) PROVE StringsInv'
    BY <2>1, BeginKeeps
  <2>2. ASSUME NEW s \in Reloads, Prepare(s) PROVE StringsInv'
    BY <2>2, PrepareKeeps
  <2>3. CASE UNCHANGED vars
    BY <2>3 DEF vars, registers, host, StringsInv, TypeOK, Going, Back
  <2> QED
    BY <2>1, <2>2, <2>3, ContinueKeeps, SaveKeeps, LoadKeeps DEF Next
<1> QED
  BY <1>1, StringsInit, PTL DEF Spec

\* Registers, memory and devices keep their types (TypeOK): the lower half of a register is
\* never carried out of, and a counter of 0 is never counted down.
THEOREM StringsTypeCorrect == Spec => []TypeOK
<1>1. StringsInv => TypeOK
  BY DEF StringsInv
<1> QED
  BY <1>1, StringsInductive, PTL

\* ESI and EDI are as many elements from where they began as the counter has gone down by,
\* wherever the instruction has stopped, gone on or been taken back to (Progress).
THEOREM ProgressKept == Spec => []Progress
<1>1. StringsInv => Progress
  BY DEF StringsInv, Going, Follows, Progress
<1> QED
  BY <1>1, StringsInductive, PTL

-----------------------------------------------------------------------------
(* Blocks.  Where nothing wraps, the registers are on the elements of a    *)
(* block, and these do not overlap.                                        *)

LEMMA Itself ==
  ASSUME NEW d \in Nat \ {0}, NEW r \in 0 .. d - 1
  PROVE  r % d = r
<1>1. (d * 0 + r) % d = r
  BY Unique
<1> QED
  BY <1>1

\* Numbers less than d apart that leave the same remainder are one.
LEMMA Congruent ==
  ASSUME NEW d \in Nat \ {0}, NEW x \in Int, NEW y \in Int,
         x % d = y % d, x - y < d, y - x < d
  PROVE  x = y
<1>1. PICK q \in Int : q = x \div d
  BY Remainder
<1>0. PICK p \in Int : p = y \div d
  BY Remainder
<1>2. PICK r \in 0 .. d - 1 : r = x % d
  BY Remainder
<1>3. x = d * q + r /\ y = d * p + r
  BY <1>0, <1>1, <1>2, Remainder
<1>4. PICK k \in Int : k = q - p
  OBVIOUS
<1>5. d * k = x - y
  BY <1>3, <1>4
<1>6. k >= 1 => d * k >= d
  OBVIOUS
<1>7. k <= -1 => d * k <= - d
  OBVIOUS
<1>8. k = 0
  BY <1>5, <1>6, <1>7
<1> QED
  BY <1>5, <1>8

LEMMA DwordsByFour == \E m \in Nat : Dwords = 4 * m
<1>1. Half \in Nat /\ Half % 2 = 0
  BY StringsAssumption
<1>2. PICK q \in Int : q = Half \div 2
  BY <1>1
<1>3. Half = 2 * q
  BY <1>1, <1>2, Remainder
<1>4. PICK m \in Int : m = q * q
  OBVIOUS
<1>5. m >= 0
  BY <1>4
<1>6. Dwords = 4 * m
  BY <1>3, <1>4 DEF Dwords
<1> QED
  BY <1>5, <1>6

LEMMA StepIs ==
  ASSUME NEW j \in Job
  PROVE  /\ Size(j.ins) \in {1, 2, 4}
         /\ Step(j) = Size(j.ins) \/ Step(j) = - Size(j.ins)
         /\ j.ins \in Instruction /\ j.esi \in Dword /\ j.edi \in Dword
BY SizeIs DEF Job, Step

\* An element between the first and the last.
LEMMA Multiples ==
  ASSUME NEW z \in {1, 2, 4}, NEW n \in Nat, NEW k \in 0 .. n - 1
  PROVE  k * z \in Nat /\ (n - 1) * z \in Nat /\ k * z <= (n - 1) * z
OBVIOUS

LEMMA BetweenElements ==
  ASSUME NEW z \in {1, 2, 4}, NEW s \in {z, - z}, NEW n \in Nat, NEW k \in 0 .. n - 1,
         NEW a \in Int, NEW x \in Int, NEW y \in Int, x = a + k * s, y = a + (n - 1) * s
  PROVE  (a <= x /\ x <= y) \/ (a >= x /\ x >= y)
<1>1. PICK p \in Nat, l \in Nat : p = k * z /\ l = (n - 1) * z /\ p <= l
  BY Multiples
<1>2. CASE s = z
  BY <1>1, <1>2
<1>3. CASE s = - z
  <2>1. k * s = - p /\ (n - 1) * s = - l
    BY <1>1, <1>3
  <2> QED
    BY <1>1, <2>1
<1> QED
  BY <1>2, <1>3

\* A register on the k-th element of a block addresses it.
LEMMA OnElement ==
  ASSUME NEW j \in Job, NEW start \in Dword, NEW n \in Nat, Straight(j, start, n),
         NEW k \in 0 .. n - 1
  PROVE  /\ Reached(j, start, k) = start + k * Step(j)
         /\ start + k * Step(j) \in Dword
         /\ Reg(j.ins, start + k * Step(j)) = start + k * Step(j)
<1> USE Sizes
<1>1. PICK s \in Int : s = Step(j)
  BY StepIs
<1>2. PICK x \in Int, last \in Int : x = start + k * s /\ last = start + (n - 1) * s
  BY DEF Dword
<1>3. (start <= x /\ x <= last) \/ (start >= x /\ x >= last)
  <2>1. PICK z \in {1, 2, 4} : z = Size(j.ins)
    BY StepIs
  <2>2. s \in {z, - z} /\ start \in Int
    BY <1>1, <2>1, StepIs DEF Dword
  <2> QED
    BY <1>2, <2>2, BetweenElements
<1>4. start \in Int /\ start >= 0 /\ start < Dwords
  BY DEF Dword
<1>5. CASE j.ins.wide /\ ~ j.ins.op16
  <2>1. last \in Dword
    BY <1>1, <1>2, <1>5 DEF Straight
  <2>2. x \in 0 .. Dwords - 1
    BY <1>3, <1>4, <2>1 DEF Dword
  <2>3. x % Dwords = x
    BY <2>2, Itself
  <2> QED
    BY <1>1, <1>2, <1>5, <2>2, <2>3 DEF Reached, Reg, Dword
<1>6. CASE ~ (j.ins.wide /\ ~ j.ins.op16)
  <2>1. /\ last \in Dword /\ last \div Half = start \div Half
        /\ j.ins.op16 => start < Half
    BY <1>1, <1>2, <1>6 DEF Straight
  <2>2. PICK q \in Int : q = start \div Half
    BY <1>4
  <2>3. PICK a \in 0 .. Half - 1 : a = start % Half
    BY <1>4, Remainder
  <2>4. start = Half * q + a
    BY <1>4, <2>2, <2>3, Remainder
  <2>5. PICK b \in 0 .. Half - 1 : b = last % Half
    BY Remainder
  <2>6. last = Half * q + b
    BY <2>1, <2>2, <2>5, Remainder
  <2>7. PICK h \in Int : h = Half * q
    OBVIOUS
  <2>8. x - h \in 0 .. Half - 1
    BY <1>3, <2>4, <2>6, <2>7
  <2>9. PICK c \in 0 .. Half - 1 : c = x - h
    BY <2>8
  <2>10. x % Half = c
    <3>1. (Half * q + c) % Half = c
      BY Unique
    <3> QED
      BY <2>7, <2>9, <3>1
  <2>11. start - a + c = x
    BY <2>4, <2>7, <2>9
  <2>12. Reached(j, start, k) = x
    BY <1>1, <1>2, <1>6, <2>3, <2>10, <2>11 DEF Reached
  <2>13. x \in Dword
    BY <1>3, <1>4, <2>1 DEF Dword
  <2>14. j.ins.op16 => x = c
    <3>1. ASSUME start < Half PROVE h = 0
      <4>1. start % Half = start
        BY <1>4, <3>1, Itself
      <4> QED
        BY <1>4, <2>3, <2>4, <2>7, <4>1
    <3> QED
      BY <2>1, <2>9, <3>1
  <2> QED
    BY <1>1, <1>2, <2>10, <2>12, <2>13, <2>14 DEF Reg
<1> QED
  BY <1>5, <1>6

\* A part of a block is one.
LEMMA StraightPart ==
  ASSUME NEW j \in Job, NEW start \in Dword, NEW n \in Nat, Straight(j, start, n),
         NEW m \in 0 .. n
  PROVE  Straight(j, start, m)
<1> USE Sizes
<1>1. CASE m = 0
  BY <1>1 DEF Straight
<1>2. CASE m > 0
  <2>1. PICK x \in Int, last \in Int : /\ x = start + (m - 1) * Step(j)
                                       /\ last = start + (n - 1) * Step(j)
    BY StepIs DEF Dword
  <2>2. m - 1 \in 0 .. n - 1
    BY <1>2
  <2>3. x \in Dword
    BY <2>1, <2>2, OnElement
  <2>4. (start <= x /\ x <= last) \/ (start >= x /\ x >= last)
    <3>1. PICK z \in {1, 2, 4} : z = Size(j.ins)
      BY StepIs
    <3>2. PICK s \in {z, - z} : s = Step(j)
      BY <3>1, StepIs
    <3>3. PICK k \in 0 .. n - 1 : k = m - 1
      BY <2>2
    <3>4. x = start + k * s /\ last = start + (n - 1) * s /\ start \in Int
      BY <2>1, <3>2, <3>3 DEF Dword
    <3> QED
      BY <3>4, BetweenElements
  <2>5. CASE j.ins.wide /\ ~ j.ins.op16
    BY <2>1, <2>3, <2>5 DEF Straight
  <2>6. CASE ~ (j.ins.wide /\ ~ j.ins.op16)
    <3>1. /\ last \in Dword /\ last \div Half = start \div Half
          /\ j.ins.op16 => start < Half
      BY <1>2, <2>1, <2>6 DEF Straight
    <3>2. x \div Half = start \div Half
      <4>1. start \in Nat /\ last \in Nat /\ x \in Nat
        BY <2>3, <3>1 DEF Dword
      <4> QED
        BY <2>4, <3>1, <4>1
    <3> QED
      BY <2>1, <2>3, <2>6, <3>1, <3>2 DEF Straight
  <2> QED
    BY <2>5, <2>6
<1> QED
  BY <1>1, <1>2

\* The elements of a block fit in the address space together.
LEMMA BlockFits ==
  ASSUME NEW j \in Job, NEW start \in Dword, NEW n \in Nat, Straight(j, start, n)
  PROVE  n * Size(j.ins) <= Dwords
<1> USE Sizes
<1>1. CASE n = 0
  BY <1>1, StepIs
<1>2. CASE n > 0
  <2>1. PICK s \in Int, last \in Int : s = Step(j) /\ last = start + (n - 1) * s
    BY StepIs DEF Dword
  <2>2. PICK z \in {1, 2, 4} : z = Size(j.ins) /\ (s = z \/ s = - z)
    BY <2>1, StepIs
  <2>3. start \in Nat /\ start < Dwords
    BY DEF Dword
  <2>4. CASE j.ins.wide /\ ~ j.ins.op16
    <3>1. last \in Nat /\ last < Dwords
      BY <1>2, <2>1, <2>4 DEF Straight, Dword
    <3>2. z = 4
      BY <2>2, <2>4 DEF Size
    <3>3. PICK m \in Nat : Dwords = 4 * m
      BY DwordsByFour
    <3>4. 4 * (n - 1) < 4 * m
      BY <2>1, <2>2, <2>3, <3>1, <3>2, <3>3
    <3> QED
      BY <2>2, <3>2, <3>3, <3>4
  <2>5. CASE ~ (j.ins.wide /\ ~ j.ins.op16)
    <3>1. last \in Nat /\ last \div Half = start \div Half
      BY <1>2, <2>1, <2>5 DEF Straight, Dword
    <3>2. last - start < Half /\ start - last < Half
      <4>1. PICK q \in Int : q = start \div Half
        BY <2>3
      <4>0. start \in Int
        BY <2>3
      <4>2. PICK a \in 0 .. Half - 1 : a = start % Half
        BY <4>0, Remainder
      <4>3. PICK b \in 0 .. Half - 1 : b = last % Half
        BY Remainder
      <4>4. start = Half * q + a
        BY <4>0, <4>1, <4>2, Remainder
      <4>5. last = Half * q + b
        BY <3>1, <4>1, <4>3, Remainder
      <4>6. PICK h \in Int : h = Half * q
        OBVIOUS
      <4> QED
        BY <4>4, <4>5, <4>6
    <3>3. z \in {1, 2}
      BY <2>2, <2>5 DEF Size
    <3>4. (n - 1) * z < Half
      <4>1. last - start = (n - 1) * s
        BY <2>1, <2>3
      <4>2. PICK t \in Int, u \in Int : t = (n - 1) * s /\ u = (n - 1) * z
        OBVIOUS
      <4>3. t = u \/ t = - u
        BY <2>2, <4>2
      <4>4. t < Half /\ - t < Half
        BY <2>3, <3>1, <3>2, <4>1, <4>2
      <4> QED
        BY <4>2, <4>3, <4>4
    <3>5. Dwords >= Half + 2
      <4>1. (Half - 4) * Half >= 0
        OBVIOUS
      <4> QED
        BY <4>1 DEF Dwords
    <3> QED
      BY <2>2, <3>3, <3>4, <3>5
  <2> QED
    BY <2>4, <2>5
<1> QED
  BY <1>1, <1>2

\* No byte belongs to two elements, nor to two places in one.
LEMMA Apart ==
  ASSUME NEW j \in Job, NEW start \in Dword, NEW n \in Nat, Straight(j, start, n),
         NEW k \in 0 .. n - 1, NEW l \in 0 .. n - 1,
         NEW r \in 0 .. Size(j.ins) - 1, NEW q \in 0 .. Size(j.ins) - 1,
         (start + k * Step(j) + r) % Dwords = (start + l * Step(j) + q) % Dwords
  PROVE  k = l /\ r = q
<1> USE Sizes
<1>1. PICK z \in {1, 2, 4} : z = Size(j.ins)
  BY StepIs
<1>2. PICK s \in {z, - z} : s = Step(j)
  BY <1>1, StepIs
<1>3. n * z <= Dwords
  BY <1>1, BlockFits
<1>4. start \in Int
  BY DEF Dword
<1>5. PICK x \in Int, y \in Int : x = start + k * s + r /\ y = start + l * s + q
  BY <1>1, <1>2, <1>4
<1>6. x - y < Dwords /\ y - x < Dwords
  BY <1>1, <1>2, <1>3, <1>4, <1>5
<1>7. x % Dwords = y % Dwords
  BY <1>2, <1>5
<1>8. x = y
  BY <1>6, <1>7, Congruent
<1> QED
  BY <1>1, <1>2, <1>4, <1>5, <1>8

-----------------------------------------------------------------------------
(* How far an instruction has come at most, and what it leaves alone.      *)

Movers == {"movs", "stos", "ins"}

\* The snapshot is one of the instruction under way.
SavedHere == saved # NotSaved /\ saved.steps = steps

Extent ==
  job # NoJob =>
    /\ done <= reach /\ (~ again => reach = done)
    /\ job.ins.op \notin Movers => mem = job.mem
    /\ SavedHere => saved.done <= reach /\ (job.ins.op # "lods" => saved.acc = acc)

LEMMA CycleExtent ==
  ASSUME NEW i, NEW d \in Nat, NEW r \in Nat, d <= r, Cycle(i, d, r)
  PROVE  /\ done' \in {d, d + 1} /\ done' <= reach' /\ r <= reach'
         /\ d = r => reach' = done'
         /\ reach' \in {r, done'}
         /\ i.op \notin Movers => mem' = mem
         /\ i.op # "lods" => acc' = acc
<1>1. reach' = IF done' > r THEN done' ELSE r
  BY CycleCases
<1>2. CASE Nothing(i, d) \/ Thrown(i, d)
  <2>1. done' = d /\ mem' = mem /\ acc' = acc
    BY <1>2 DEF Nothing, Thrown, Fails, registers
  <2> QED
    BY <1>1, <2>1
<1>3. CASE Moved(i, d)
  <2>1. done' = d + 1
    BY <1>3 DEF Moved, Leaves
  <2>2. i.op \notin Movers => mem' = mem
    BY <1>3 DEF Moved, Works, Movs, Cmps, Lods, Scas, Stos, Ins, Outs, Movers
  <2>3. i.op # "lods" => acc' = acc
    BY <1>3 DEF Moved, Works, Movs, Cmps, Lods, Scas, Stos, Ins, Outs
  <2> QED
    BY <1>1, <2>1, <2>2, <2>3
<1> QED
  BY <1>2, <1>3, CycleCases

\* No snapshot is older than the instruction under way when that begins.
LEMMA BeginFresh ==
  ASSUME StringsInv, NEW i \in Code, Begin(i)
  PROVE  ~ SavedHere'
<1>1. steps' = steps + 1 /\ saved' = saved /\ steps \in Nat
  BY CycleCases DEF Begin, host, StringsInv, TypeOK
<1>2. ASSUME saved # NotSaved
      PROVE  saved.steps # steps + 1
  <2>1. saved.steps \in Nat /\ saved.steps <= steps
    BY <1>2 DEF StringsInv, Back, TypeOK, Snapshot
  <2> QED
    BY <1>1, <2>1
<1> QED
  BY <1>1, <1>2 DEF SavedHere

LEMMA ExtentStep ==
  ASSUME StringsInv, Extent, [Next]_vars
  PROVE  Extent'
<1>1. TypeOK
  BY DEF StringsInv
<1>2. ASSUME NEW i \in Code, Begin(i)
      PROVE  Extent'
  <2>1. Cycle(i, 0, 0) /\ job'.ins = i /\ job'.mem = mem /\ ~ SavedHere'
    BY <1>2, BeginFresh DEF Begin
  <2>2. /\ done' <= reach' /\ reach' = done'
        /\ i.op \notin Movers => mem' = mem
    BY <2>1, CycleExtent
  <2> QED
    BY <2>1, <2>2 DEF Extent
<1>3. ASSUME Continue
      PROVE  Extent'
  <2>1. /\ Cycle(ins, done, reach) /\ job' = job /\ again' = again /\ steps' = steps
        /\ saved' = saved
    BY <1>3, CycleCases DEF Continue, host
  <2>2. ASSUME job # NoJob
        PROVE  /\ done' <= reach' /\ (~ again => reach' = done')
               /\ job.ins.op \notin Movers => mem' = job.mem
               /\ SavedHere => saved.done <= reach' /\ (job.ins.op # "lods" => saved.acc = acc')
    <3>1. done \in Nat /\ reach \in Nat /\ ins = job.ins
      BY <2>2 DEF StringsInv, TypeOK, Going, Follows
    <3>2. /\ done <= reach /\ (~ again => reach = done)
          /\ job.ins.op \notin Movers => mem = job.mem
          /\ SavedHere => saved.done <= reach /\ (job.ins.op # "lods" => saved.acc = acc)
      BY <2>2 DEF Extent
    <3>3. /\ done' \in {done, done + 1} /\ done' <= reach' /\ reach <= reach'
          /\ done = reach => reach' = done'
          /\ reach' \in {reach, done'}
          /\ ins.op \notin Movers => mem' = mem
          /\ ins.op # "lods" => acc' = acc
      BY <2>1, <3>1, <3>2, CycleExtent
    <3>4. SavedHere => saved.done \in Nat
      BY <1>1 DEF SavedHere, TypeOK, Snapshot
    <3>5. reach' \in Nat
      BY <3>1, <3>3
    <3> QED
      BY <3>1, <3>2, <3>3, <3>4, <3>5
  <2> QED
    BY <2>1, <2>2 DEF Extent, SavedHere
<1>4. ASSUME SaveState
      PROVE  Extent'
  <2>1. /\ saved'.done = done /\ saved'.acc = acc
        /\ UNCHANGED <<acc, mem, job, done, reach, again>>
    BY <1>4 DEF SaveState, registers
  <2> QED
    BY <2>1 DEF Extent
<1>5. ASSUME LoadState
      PROVE  Extent'
  <2>1. /\ saved # NotSaved /\ done' = saved.done /\ acc' = saved.acc /\ again' = TRUE
        /\ mem' = mem /\ saved' = saved /\ steps' = steps /\ reach' = reach
        /\ job' = NoJob \/ (job' = job /\ saved.steps = steps)
    BY <1>5 DEF LoadState
  <2> QED
    BY <2>1 DEF Extent, SavedHere
<1>6. ASSUME NEW s \in Reloads, Prepare(s)
      PROVE  Extent'
  BY <1>6 DEF Prepare, Extent
<1>7. CASE UNCHANGED vars
  BY <1>7 DEF vars, registers, host, Extent, SavedHere
<1> QED
  BY <1>2, <1>3, <1>4, <1>5, <1>6, <1>7 DEF Next

LEMMA ExtentKept == Spec => [](StringsInv /\ Extent)
<1>1. Init => Extent
  BY DEF Init, Extent
<1>2. StringsInv /\ Extent /\ [Next]_vars => Extent'
  BY ExtentStep
<1> QED
  BY <1>1, <1>2, StringsInductive, PTL DEF Spec

-----------------------------------------------------------------------------
(* Where a repetition ends.                                                *)

\* The registers address the element that is the next of the job.
LEMMA OnSource ==
  ASSUME TypeOK, NEW j \in Job, NEW i, NEW d \in Nat, Follows(j, df, i, esi, edi, ecx, d),
         i.op # "ins", NEW n \in Nat, d < n, Straight(j, j.esi, n)
  PROVE  From(i) = Src(j, d) /\ Src(j, d) \in Dword
<1>1. i = j.ins /\ esi = Reached(j, j.esi, d)
  BY DEF Follows, Agree
<1>2. d \in 0 .. n - 1 /\ j.esi \in Dword
  BY StepIs
<1>3. /\ Reached(j, j.esi, d) = Src(j, d) /\ Src(j, d) \in Dword
      /\ Reg(j.ins, Src(j, d)) = Src(j, d)
  BY <1>2, OnElement DEF Src
<1> QED
  BY <1>1, <1>3 DEF From

LEMMA OnTarget ==
  ASSUME TypeOK, NEW j \in Job, NEW i, NEW d \in Nat, Follows(j, df, i, esi, edi, ecx, d),
         NEW n \in Nat, d < n, Straight(j, j.edi, n)
  PROVE  To(i) = Dst(j, d) /\ Dst(j, d) \in Dword
<1>1. i = j.ins /\ edi = Reached(j, j.edi, d)
  BY DEF Follows, Agree
<1>2. d \in 0 .. n - 1 /\ j.edi \in Dword
  BY StepIs
<1>3. /\ Reached(j, j.edi, d) = Dst(j, d) /\ Dst(j, d) \in Dword
      /\ Reg(j.ins, Dst(j, d)) = Dst(j, d)
  BY <1>2, OnElement DEF Dst
<1> QED
  BY <1>1, <1>3 DEF To

\* Two elements are equal if their bytes are.
LEMMA SameElement ==
  ASSUME NEW a, NEW n, NEW e
  PROVE  Element(a, n) = [r \in 0 .. n - 1 |-> e[r]] <=>
           \A r \in 0 .. n - 1 : mem[(a + r) % Dwords] = e[r]
<1>1. ASSUME NEW r \in 0 .. n - 1, Element(a, n) = [q \in 0 .. n - 1 |-> e[q]]
      PROVE  mem[(a + r) % Dwords] = e[r]
  <2>1. Element(a, n)[r] = mem[(a + r) % Dwords]
    BY Zenon DEF Element
  <2>2. [q \in 0 .. n - 1 |-> e[q]][r] = e[r]
    BY Zenon
  <2> QED
    BY <1>1, <2>1, <2>2
<1> QED
  BY <1>1, Zenon DEF Element

LEMMA Compared ==
  ASSUME TypeOK, NEW j \in Job, NEW i, NEW d \in Nat, Follows(j, df, i, esi, edi, ecx, d),
         i.op \in Compare, Works(i, Size(i)),
         Straight(j, j.edi, d + 1), i.op = "cmps" => Straight(j, j.esi, d + 1)
  PROVE  zf' = Equal(j, d)
<1>1. i = j.ins
  BY DEF Follows
<1>2. d + 1 \in Nat /\ d < d + 1
  OBVIOUS
<1>3. To(i) = Dst(j, d)
  BY <1>2, OnTarget
<1>4. CASE i.op = "cmps"
  <2>1. From(i) = Src(j, d)
    BY <1>2, <1>4, OnSource
  <2>2. zf' = (Element(Src(j, d), Size(i)) = Element(Dst(j, d), Size(i)))
    BY <1>3, <1>4, <2>1 DEF Works, Movs, Cmps, Lods, Scas, Stos, Ins, Outs
  <2> DEFINE e == Element(Src(j, d), Size(i))
  <2>3. e = [r \in 0 .. Size(i) - 1 |-> e[r]]
    BY DEF Element
  <2>4. \A r \in 0 .. Size(i) - 1 : e[r] = mem[(Src(j, d) + r) % Dwords]
    BY DEF Element
  <2>5. zf' = (Element(Dst(j, d), Size(i)) = e)
    BY <2>2, Zenon
  <2> HIDE DEF e
  <2>6. (Element(Dst(j, d), Size(i)) = [r \in 0 .. Size(i) - 1 |-> e[r]]) <=>
          \A r \in 0 .. Size(i) - 1 : mem[(Dst(j, d) + r) % Dwords] = e[r]
    BY SameElement
  <2>7. (Element(Dst(j, d), Size(i)) = e) <=> Equal(j, d)
    BY <1>1, <1>4, <2>3, <2>4, <2>6, Zenon DEF Equal
  <2> QED
    BY <2>5, <2>7, Zenon DEF Equal
<1>5. CASE i.op = "scas"
  <2>1. zf' = (Element(Dst(j, d), Size(i)) = [r \in 0 .. Size(i) - 1 |-> acc[r]])
    BY <1>3, <1>5 DEF Works, Movs, Cmps, Lods, Scas, Stos, Ins, Outs
  <2>2. (Element(Dst(j, d), Size(i)) = [r \in 0 .. Size(i) - 1 |-> acc[r]]) <=>
          \A r \in 0 .. Size(i) - 1 : mem[(Dst(j, d) + r) % Dwords] = acc[r]
    BY SameElement
  <2>3. j.ins.op # "cmps"
    BY <1>1, <1>5
  <2>4. (Element(Dst(j, d), Size(i)) = [r \in 0 .. Size(i) - 1 |-> acc[r]]) <=> Equal(j, d)
    BY <1>1, <2>2, <2>3, Zenon DEF Equal
  <2> QED
    BY <2>1, <2>4, Zenon DEF Equal
<1> QED
  BY <1>4, <1>5 DEF Compare

\* Equal and Ends of job j in memory m with accumulator a, when d elements are done and p and z
\* are pc and zf.
EqualIn(j, k, m, a) ==
  \A r \in 0 .. Size(j.ins) - 1 :
    m[(Dst(j, k) + r) % Dwords] =
      IF j.ins.op = "cmps" THEN m[(Src(j, k) + r) % Dwords] ELSE a[r]

EndsAt(j, p, z, d, m, a) ==
  LET stops == p = "next" /\ d # j.count
  IN  IF j.ins.op \in Compare
      THEN Straight(j, j.edi, d) /\ (j.ins.op = "cmps" => Straight(j, j.esi, d)) =>
             /\ d = 0 => z = j.zf /\ ~ stops
             /\ d > 0 => z = EqualIn(j, d - 1, m, a) /\ (stops => (j.ins.rep = "F2" <=> z))
             /\ \A k \in 0 .. d - (IF p = "next" THEN 2 ELSE 1) :
                  EqualIn(j, k, m, a) <=> j.ins.rep = "F3"
      ELSE stops => ~ j.clean /\ d = 1

\* string_compares is an earlier instruction's, if anything's.
Quiet ==
  /\ pc = "repeat" => ~ string_compares
  /\ job # NoJob /\ Repeats(job.ins) /\ pc \in {"next", "repeat"} =>
       EndsAt(job, pc, zf, done, mem, acc)
  /\ job # NoJob /\ SavedHere /\ Repeats(job.ins) =>
       EndsAt(job, saved.pc, saved.zf, saved.done, mem, acc)

\* Nothing is left to do.
LEMMA NothingEnds ==
  ASSUME TypeOK, NEW j \in Job, NEW i, NEW d \in Nat, Follows(j, df, i, esi, edi, ecx, d),
         EndsAt(j, "repeat", zf, d, mem, acc), Nothing(i, d)
  PROVE  EndsAt(j, "next", zf, d, mem, acc)
<1>1. Counts(i, ecx) = 0 /\ i = j.ins /\ Repeats(i)
  BY DEF Nothing, Counter, Follows
<1>2. d = j.count
  <2>1. Counts(j.ins, ecx) = j.count - d /\ j.count \in Nat
    BY <1>1 DEF Follows, Agree, Job, Dword
  <2> QED
    BY <1>1, <2>1
<1>3. \A k \in 0 .. d - 2 : k \in 0 .. d - 1
  OBVIOUS
<1> QED
  BY <1>2, <1>3 DEF EndsAt

\* One more element has been compared.
LEMMA ComparedEnds ==
  ASSUME TypeOK, NEW j \in Job, NEW i, NEW d \in Nat, Follows(j, df, i, esi, edi, ecx, d),
         EndsAt(j, "repeat", zf, d, mem, acc), Moved(i, d), Repeats(i), i.op \in Compare
  PROVE  EndsAt(j, pc', zf', d + 1, mem, acc)
<1>1. i = j.ins /\ j.ins.rep \in {"F2", "F3"} /\ Compares(i)
  BY DEF Follows, Repeats, Compares
<1>2. pc' = (IF i.rep = "F2" <=> zf' THEN "next" ELSE "repeat")
  BY <1>1 DEF Moved, Leaves, RepEnds
<1>3. SUFFICES ASSUME Straight(j, j.edi, d + 1), j.ins.op = "cmps" => Straight(j, j.esi, d + 1)
               PROVE  /\ d + 1 > 0
                      /\ zf' = EqualIn(j, d, mem, acc)
                      /\ pc' = "next" => (j.ins.rep = "F2" <=> zf')
                      /\ \A k \in 0 .. d - 1 : EqualIn(j, k, mem, acc) <=> j.ins.rep = "F3"
                      /\ pc' # "next" => (EqualIn(j, d, mem, acc) <=> j.ins.rep = "F3")
  <2>1. d + 1 - 1 = d /\ d + 1 # 0
    OBVIOUS
  <2>2. \A k \in 0 .. d + 1 - (IF pc' = "next" THEN 2 ELSE 1) :
          k \in 0 .. d - 1 \/ (pc' # "next" /\ k = d)
    OBVIOUS
  <2>3. j.ins.op \in Compare
    BY <1>1
  <2>4. ASSUME Straight(j, j.edi, d + 1), j.ins.op = "cmps" => Straight(j, j.esi, d + 1)
        PROVE  /\ zf' = EqualIn(j, d + 1 - 1, mem, acc)
               /\ pc' = "next" => (j.ins.rep = "F2" <=> zf')
               /\ \A k \in 0 .. d + 1 - (IF pc' = "next" THEN 2 ELSE 1) :
                    EqualIn(j, k, mem, acc) <=> j.ins.rep = "F3"
    <3>1. /\ zf' = EqualIn(j, d, mem, acc)
          /\ pc' = "next" => (j.ins.rep = "F2" <=> zf')
          /\ \A k \in 0 .. d - 1 : EqualIn(j, k, mem, acc) <=> j.ins.rep = "F3"
          /\ pc' # "next" => (EqualIn(j, d, mem, acc) <=> j.ins.rep = "F3")
      BY <2>4, Zenon
    <3>2. zf' = EqualIn(j, d + 1 - 1, mem, acc)
      BY <2>1, <3>1
    <3> QED
      BY <2>2, <3>1, <3>2, Zenon
  <2> QED
    BY <2>1, <2>3, <2>4 DEF EndsAt
<1>4. zf' = EqualIn(j, d, mem, acc)
  <2>1. zf' = Equal(j, d)
    BY <1>1, <1>3, Compared DEF Moved
  <2> QED
    BY <2>1, Zenon DEF Equal, EqualIn
<1>5. \A k \in 0 .. d - 1 : EqualIn(j, k, mem, acc) <=> j.ins.rep = "F3"
  <2>1. d \in 0 .. d + 1 /\ d + 1 \in Nat
    OBVIOUS
  <2>2. Straight(j, j.edi, d) /\ (j.ins.op = "cmps" => Straight(j, j.esi, d))
    BY <1>3, <2>1, StepIs, StraightPart
  <2> QED
    BY <1>1, <2>2, Zenon DEF EndsAt
<1>6. pc' # "next" => (EqualIn(j, d, mem, acc) <=> j.ins.rep = "F3")
  BY <1>1, <1>2, <1>4, Zenon
<1>7. pc' = "next" => (j.ins.rep = "F2" <=> zf')
  BY <1>1, <1>2, Zenon
<1> QED
  BY <1>4, <1>5, <1>6, <1>7

LEMMA CycleEnds ==
  ASSUME TypeOK, NEW j \in Job, NEW i \in Instruction, NEW d \in Nat, NEW r \in Nat, d <= r,
         Follows(j, df, i, esi, edi, ecx, d), Repeats(i), Cycle(i, d, r),
         EndsAt(j, "repeat", zf, d, mem, acc), string_compares => ~ j.clean /\ d = 0,
         pc' \in {"next", "repeat"}
  PROVE  EndsAt(j, pc', zf', done', mem', acc')
<1>1. i = j.ins
  BY DEF Follows
<1>2. CASE Nothing(i, d)
  <2>1. pc' = "next" /\ zf' = zf /\ done' = d /\ mem' = mem /\ acc' = acc
    BY <1>2 DEF Nothing, registers
  <2> QED
    BY <1>2, <2>1, NothingEnds
<1>3. CASE Moved(i, d) /\ i.op \in Compare
  <2>1. done' = d + 1
    BY <1>3 DEF Moved, Leaves
  <2>2. mem' = mem /\ acc' = acc
    BY <1>3, CycleExtent DEF Compare, Movers
  <2> QED
    BY <1>3, <2>1, <2>2, ComparedEnds
<1>4. CASE Moved(i, d) /\ i.op \notin Compare
  <2>1. done' = d + 1
    BY <1>4 DEF Moved, Leaves
  <2>2. pc' = "next" => string_compares
    BY <1>4 DEF Moved, Leaves, RepEnds, Compares
  <2> QED
    BY <1>1, <1>4, <2>1, <2>2 DEF EndsAt
<1>5. CASE Thrown(i, d)
  BY <1>5 DEF Thrown
<1> QED
  BY <1>2, <1>3, <1>4, <1>5, CycleCases

LEMMA CycleQuiet ==
  ASSUME NEW i, NEW d, NEW r, Cycle(i, d, r)
  PROVE  pc' = "repeat" => ~ string_compares'
BY CycleCases DEF Nothing, Moved, Leaves, Thrown

LEMMA BeginQuiet ==
  ASSUME StringsInv, NEW i \in Code, Begin(i)
  PROVE  Quiet'
<1>1. TypeOK /\ i \in Instruction
  BY StringsAssumption DEF StringsInv
<1>2. Cycle(i, 0, 0) /\ ~ SavedHere'
  BY BeginFresh DEF Begin
<1>3. TypeOK' /\ Going'
  BY BeginKeeps DEF StringsInv
<1>4. PICK j : j = job'
  OBVIOUS
<1>5. /\ j = [ins |-> i, esi |-> esi, edi |-> edi, ecx |-> ecx, df |-> df, zf |-> zf,
              count |-> Counter(i), mem |-> mem, inp |-> inp, out |-> out,
              clean |-> ~ string_compares]
  BY <1>4 DEF Begin
<1>6. j \in Job
  BY <1>1, <1>5, JobIs
<1>7. Follows(j, df, i, esi, edi, ecx, 0)
  BY <1>1, <1>5, <1>6, BeginsThere
<1>8. EndsAt(j, "repeat", zf, 0, mem, acc)
  <2>1. j.zf = zf /\ 0 .. 0 - 1 = {}
    BY <1>5
  <2> QED
    BY <2>1 DEF EndsAt
<1>9. string_compares => ~ j.clean
  BY <1>5
<1>10. Repeats(i) /\ pc' \in {"next", "repeat"} => EndsAt(j, pc', zf', done', mem', acc')
  BY <1>1, <1>2, <1>6, <1>7, <1>8, <1>9, CycleEnds
<1>11. j.ins = i
  BY <1>5
<1> QED
  BY <1>2, <1>4, <1>10, <1>11, CycleQuiet DEF Quiet

LEMMA QuietStep ==
  ASSUME StringsInv, Extent, Quiet, [Next]_vars
  PROVE  Quiet'
<1>1. TypeOK
  BY DEF StringsInv
<1>2. ASSUME NEW i \in Code, Begin(i)
      PROVE  Quiet'
  BY <1>2, BeginQuiet
<1>3. ASSUME Continue
      PROVE  Quiet'
  <2>1. /\ Cycle(ins, done, reach) /\ job' = job /\ steps' = steps /\ saved' = saved
        /\ pc = "repeat"
    BY <1>3, CycleCases DEF Continue, host
  <2>2. ASSUME job # NoJob, Repeats(job.ins)
        PROVE  /\ pc' \in {"next", "repeat"} => EndsAt(job, pc', zf', done', mem', acc')
               /\ SavedHere => EndsAt(job, saved.pc, saved.zf, saved.done, mem', acc')
    <3>1. PICK j \in Job : j = job
      BY <1>1, <2>2 DEF TypeOK
    <3>2. done \in Nat /\ reach \in Nat /\ ins \in Instruction /\ done <= reach
      BY <1>1, <2>2 DEF TypeOK, Extent
    <3>3. Follows(j, df, ins, esi, edi, ecx, done) /\ ins = j.ins
      BY <2>2, <3>1 DEF StringsInv, Going, Follows
    <3>4. EndsAt(j, "repeat", zf, done, mem, acc) /\ ~ string_compares
      BY <2>1, <2>2, <3>1 DEF Quiet
    <3>5. pc' \in {"next", "repeat"} => EndsAt(j, pc', zf', done', mem', acc')
      BY <1>1, <2>1, <2>2, <3>1, <3>2, <3>3, <3>4, CycleEnds
    <3>6. ASSUME SavedHere
          PROVE  EndsAt(j, saved.pc, saved.zf, saved.done, mem', acc')
      <4>1. EndsAt(j, saved.pc, saved.zf, saved.done, mem, acc)
        BY <2>2, <3>1, <3>6 DEF Quiet
      <4>2. j.ins.op \in Compare => mem' = mem /\ acc' = acc
        BY <2>1, <3>2, <3>3, CycleExtent DEF Compare, Movers
      <4> QED
        BY <4>1, <4>2 DEF EndsAt
    <3> QED
      BY <3>1, <3>5, <3>6
  <2>3. pc' = "repeat" => ~ string_compares'
    BY <2>1, CycleQuiet
  <2> QED
    BY <2>1, <2>2, <2>3 DEF Quiet, SavedHere
<1>4. ASSUME SaveState
      PROVE  Quiet'
  <2>1. /\ saved'.done = done /\ saved'.pc = pc /\ saved'.zf = zf
        /\ pc \in {"next", "repeat"}
        /\ UNCHANGED <<acc, zf, mem, pc, job, done, string_compares>>
    BY <1>4 DEF SaveState, registers
  <2> QED
    BY <2>1 DEF Quiet
<1>5. ASSUME LoadState
      PROVE  Quiet'
  <2>1. /\ saved # NotSaved /\ done' = saved.done /\ acc' = saved.acc
        /\ pc' = saved.pc /\ zf' = saved.zf
        /\ mem' = mem /\ saved' = saved /\ steps' = steps /\ string_compares' = FALSE
        /\ job' = NoJob \/ (job' = job /\ saved.steps = steps)
    BY <1>5 DEF LoadState
  <2>2. ASSUME job # NoJob, SavedHere, Repeats(job.ins)
        PROVE  EndsAt(job, saved.pc, saved.zf, saved.done, mem, saved.acc)
    <3>1. EndsAt(job, saved.pc, saved.zf, saved.done, mem, acc)
      BY <2>2 DEF Quiet
    <3>2. job.ins.op \in Compare => saved.acc = acc
      BY <2>2 DEF Extent, Compare
    <3> QED
      BY <3>1, <3>2 DEF EndsAt
  <2> QED
    BY <2>1, <2>2 DEF Quiet, SavedHere
<1>6. ASSUME NEW s \in Reloads, Prepare(s)
      PROVE  Quiet'
  BY <1>6 DEF Prepare, Quiet
<1>7. CASE UNCHANGED vars
  BY <1>7 DEF vars, registers, host, Quiet, SavedHere
<1> QED
  BY <1>2, <1>3, <1>4, <1>5, <1>6, <1>7 DEF Next

\* A repetition ends when all its elements are done, or where CMPS or SCAS has found what it
\* looks for, and ZF is that of the last comparison, for every instruction and every memory,
\* wherever the host saves and loads states.
THEOREM EndsRightly == Spec => []Ends
<1>1. Init => Quiet
  BY DEF Init, Quiet
<1>2. StringsInv /\ Extent /\ Quiet /\ [Next]_vars => Quiet'
  BY QuietStep
<1>3. Quiet => Ends
  BY Zenon DEF Quiet, Ends, EndsAt, Equal, EqualIn
<1> QED
  BY <1>1, <1>2, <1>3, ExtentKept, PTL DEF Spec

-----------------------------------------------------------------------------
(* Writing an element.                                                     *)

LEMMA Offset ==
  ASSUME NEW a \in Dword, NEW n \in {1, 2, 4}, NEW r \in 0 .. n - 1
  PROVE  (((a + r) % Dwords) - a) % Dwords = r
<1> USE Sizes
<1>1. a \in Int /\ a + r \in Int /\ - a \in Int
  BY DEF Dword
<1>2. (((a + r) % Dwords) + (- a)) % Dwords = ((a + r) + (- a)) % Dwords
  BY <1>1, TakenBefore
<1>3. PICK y \in 0 .. Dwords - 1 : y = (a + r) % Dwords
  BY <1>1, Remainder
<1>4. (a + r) + (- a) = r /\ y + (- a) = y - a
  BY <1>1, <1>3
<1>5. r % Dwords = r
  <2>1. r \in 0 .. Dwords - 1
    OBVIOUS
  <2> QED
    BY <2>1, Itself
<1> QED
  BY <1>2, <1>3, <1>4, <1>5

LEMMA Write ==
  ASSUME NEW a \in Dword, NEW n \in {1, 2, 4}, Served(a, n), NEW e, mem' = Written(a, n, e)
  PROVE  /\ \A r \in 0 .. n - 1 : mem'[(a + r) % Dwords] = e[r]
         /\ \A x \in Mapped : x \notin At(a, n) => mem'[x] = mem[x]
<1>1. ASSUME NEW r \in 0 .. n - 1
      PROVE  mem'[(a + r) % Dwords] = e[r]
  <2>1. PICK x : x = (a + r) % Dwords
    OBVIOUS
  <2>2. x \in At(a, n) /\ x \in Mapped
    BY <2>1 DEF At, Served
  <2>3. (x - a) % Dwords = r
    BY <2>1, Offset
  <2>4. mem'[x] = e[(x - a) % Dwords]
    BY <2>2, Zenon DEF Written
  <2> QED
    BY <2>1, <2>3, <2>4
<1>2. \A x \in Mapped : x \notin At(a, n) => mem'[x] = mem[x]
  BY Zenon DEF Written
<1> QED
  BY <1>1, <1>2

LEMMA PlaceIsAt ==
  ASSUME NEW j, NEW a
  PROVE  Place(j, a) = At(a, Size(j.ins))
BY DEF Place, At

\* What is in the k-th target, and when one has come further.
LEMMA TargetsAre ==
  ASSUME NEW j, NEW n
  PROVE  \A x : x \in Targets(j, n) <=>
           \E k \in 0 .. n - 1 : x \in At(Dst(j, k), Size(j.ins))
BY PlaceIsAt DEF Targets

LEMMA SourcesAre ==
  ASSUME NEW j, NEW n
  PROVE  \A x : x \in Sources(j, n) <=>
           \E k \in 0 .. n - 1 : x \in At(Src(j, k), Size(j.ins))
BY PlaceIsAt DEF Sources

LEMMA Further ==
  ASSUME NEW j, NEW n \in Nat, NEW m \in Nat, m <= n
  PROVE  Targets(j, m) \subseteq Targets(j, n) /\ Sources(j, m) \subseteq Sources(j, n)
<1>1. \A k \in 0 .. m - 1 : k \in 0 .. n - 1
  OBVIOUS
<1> QED
  BY <1>1, TargetsAre, SourcesAre

\* Another element than the d-th has no byte of its place.
LEMMA OtherPlace ==
  ASSUME NEW j \in Job, NEW n \in Nat, Straight(j, j.edi, n),
         NEW d \in 0 .. n - 1, NEW k \in 0 .. n - 1, k # d,
         NEW x \in At(Dst(j, k), Size(j.ins))
  PROVE  x \notin At(Dst(j, d), Size(j.ins))
<1>1. SUFFICES ASSUME x \in At(Dst(j, d), Size(j.ins)) PROVE FALSE
  OBVIOUS
<1>2. PICK r \in 0 .. Size(j.ins) - 1 : x = (Dst(j, k) + r) % Dwords
  BY DEF At
<1>3. PICK q \in 0 .. Size(j.ins) - 1 : x = (Dst(j, d) + q) % Dwords
  BY <1>1 DEF At
<1>4. j.edi \in Dword
  BY StepIs
<1> QED
  BY <1>2, <1>3, <1>4, Apart DEF Dst

\* What MOVS, STOS and INS do to memory, where the target does not wrap.
LEMMA Moving ==
  ASSUME TypeOK, NEW j \in Job, NEW i, NEW d \in Nat, Follows(j, df, i, esi, edi, ecx, d),
         NEW n \in Nat, d < n, Straight(j, j.edi, n), Works(i, Size(i)), i.op \in Movers
  PROVE  /\ Served(Dst(j, d), Size(i)) /\ Dst(j, d) \in Dword
         /\ \A x \in Mapped : x \notin At(Dst(j, d), Size(i)) => mem'[x] = mem[x]
         /\ i.op = "stos" =>
              \A r \in 0 .. Size(i) - 1 : mem'[(Dst(j, d) + r) % Dwords] = acc[r]
         /\ i.op = "ins" =>
              /\ inp' = inp + Size(i)
              /\ \A r \in 0 .. Size(i) - 1 :
                   mem'[(Dst(j, d) + r) % Dwords] = Input[inp + r + 1]
         /\ i.op = "movs" /\ Straight(j, j.esi, n) =>
              /\ Served(Src(j, d), Size(i))
              /\ \A r \in 0 .. Size(i) - 1 :
                   mem'[(Dst(j, d) + r) % Dwords] = mem[(Src(j, d) + r) % Dwords]
<1>1. To(i) = Dst(j, d) /\ Dst(j, d) \in Dword
  BY OnTarget
<1>2. Size(i) \in {1, 2, 4} /\ i = j.ins
  BY StepIs DEF Follows
<1>3. CASE i.op = "stos"
  <2>1. Served(To(i), Size(i)) /\ mem' = Written(To(i), Size(i), acc)
    BY <1>3 DEF Works, Movs, Cmps, Lods, Scas, Stos, Ins, Outs
  <2> QED
    BY <1>1, <1>2, <1>3, <2>1, Write
<1>4. CASE i.op = "ins"
  <2> DEFINE e == [r \in 0 .. Size(i) - 1 |-> Input[inp + r + 1]]
  <2>1. Served(To(i), Size(i)) /\ mem' = Written(To(i), Size(i), e) /\ inp' = inp + Size(i)
    BY <1>4 DEF Works, Movs, Cmps, Lods, Scas, Stos, Ins, Outs
  <2>2. \A r \in 0 .. Size(i) - 1 : e[r] = Input[inp + r + 1]
    OBVIOUS
  <2> HIDE DEF e
  <2> QED
    BY <1>1, <1>2, <1>4, <2>1, <2>2, Write
<1>5. CASE i.op = "movs"
  <2> DEFINE e == Element(From(i), Size(i))
  <2>1. /\ Served(To(i), Size(i)) /\ mem' = Written(To(i), Size(i), e)
        /\ Served(From(i), Size(i))
    BY <1>5 DEF Works, Movs, Cmps, Lods, Scas, Stos, Ins, Outs
  <2>2. \A r \in 0 .. Size(i) - 1 : e[r] = mem[(From(i) + r) % Dwords]
    BY DEF Element
  <2>3. Straight(j, j.esi, n) => From(i) = Src(j, d)
    BY <1>5, OnSource
  <2> HIDE DEF e
  <2>4. /\ \A r \in 0 .. Size(i) - 1 : mem'[(To(i) + r) % Dwords] = e[r]
        /\ \A x \in Mapped : x \notin At(To(i), Size(i)) => mem'[x] = mem[x]
    BY <1>1, <1>2, <2>1, Write
  <2> QED
    BY <1>1, <1>5, <2>1, <2>2, <2>3, <2>4
<1> QED
  BY <1>3, <1>4, <1>5 DEF Movers

\* The targets an instruction has come to are mapped.
Covers(j, r) == j.ins.op \in Movers /\ Straight(j, j.edi, r) => Targets(j, r) \subseteq Mapped

Covered == job # NoJob => Covers(job, reach)

LEMMA CycleCovers ==
  ASSUME TypeOK, NEW j \in Job, NEW i, NEW d \in Nat, Follows(j, df, i, esi, edi, ecx, d),
         NEW r \in Nat, d <= r, Cycle(i, d, r), Covers(j, r)
  PROVE  Covers(j, reach')
<1>1. CASE reach' = r
  BY <1>1
<1>2. CASE reach' # r
  <2>1. done' = d + 1 /\ reach' = d + 1 /\ d = r
    BY <1>2, CycleExtent
  <2>2. Moved(i, d)
    <3>1. Nothing(i, d) \/ Thrown(i, d) => done' = d
      BY DEF Nothing, Thrown
    <3>2. Nothing(i, d) \/ Moved(i, d) \/ Thrown(i, d)
      BY CycleCases
    <3>3. done' # d
      BY <2>1
    <3> QED
      BY <3>1, <3>2, <3>3
  <2>3. SUFFICES ASSUME j.ins.op \in Movers, Straight(j, j.edi, d + 1)
                 PROVE  Targets(j, d + 1) \subseteq Mapped
    BY <2>1 DEF Covers
  <2>4. i = j.ins /\ d + 1 \in Nat /\ d < d + 1 /\ d \in 0 .. d + 1
    BY DEF Follows
  <2>5. Served(Dst(j, d), Size(i))
    BY <2>2, <2>3, <2>4, Moving DEF Moved
  <2>6. Targets(j, d) \subseteq Mapped
    <3>1. Straight(j, j.edi, d)
      BY <2>3, <2>4, StepIs, StraightPart
    <3> QED
      BY <2>1, <2>3, <3>1 DEF Covers
  <2>7. \A k \in 0 .. (d + 1) - 1 : k = d \/ k \in 0 .. d - 1
    OBVIOUS
  <2> QED
    BY <2>4, <2>5, <2>6, <2>7, TargetsAre DEF Served
<1> QED
  BY <1>1, <1>2

LEMMA CoveredStep ==
  ASSUME StringsInv, Extent, Covered, [Next]_vars
  PROVE  Covered'
<1>1. TypeOK
  BY DEF StringsInv
<1>2. ASSUME NEW i \in Code, Begin(i)
      PROVE  Covered'
  <2>1. i \in Instruction /\ Cycle(i, 0, 0)
    BY <1>2, StringsAssumption DEF Begin
  <2>2. PICK j : j = job'
    OBVIOUS
  <2>3. j = [ins |-> i, esi |-> esi, edi |-> edi, ecx |-> ecx, df |-> df, zf |-> zf,
             count |-> Counter(i), mem |-> mem, inp |-> inp, out |-> out,
             clean |-> ~ string_compares]
    BY <1>2, <2>2 DEF Begin
  <2>4. j \in Job
    BY <1>1, <2>1, <2>3, JobIs
  <2>5. Follows(j, df, i, esi, edi, ecx, 0)
    BY <1>1, <2>1, <2>3, <2>4, BeginsThere
  <2>6. Covers(j, 0)
    BY TargetsAre DEF Covers
  <2>7. Covers(j, reach')
    BY <1>1, <2>1, <2>4, <2>5, <2>6, CycleCovers
  <2> QED
    BY <2>2, <2>7 DEF Covered
<1>3. ASSUME Continue
      PROVE  Covered'
  <2>1. Cycle(ins, done, reach) /\ job' = job
    BY <1>3 DEF Continue
  <2>2. ASSUME job # NoJob
        PROVE  Covers(job, reach')
    <3>1. PICK j \in Job : j = job
      BY <1>1, <2>2 DEF TypeOK
    <3>2. done \in Nat /\ reach \in Nat /\ done <= reach
      BY <1>1, <2>2 DEF TypeOK, Extent
    <3>3. Follows(j, df, ins, esi, edi, ecx, done) /\ Covers(j, reach)
      BY <2>2, <3>1 DEF StringsInv, Going, Covered
    <3> QED
      BY <1>1, <2>1, <3>1, <3>2, <3>3, CycleCovers
  <2> QED
    BY <2>1, <2>2 DEF Covered
<1>4. CASE SaveState
  BY <1>4 DEF SaveState, Covered
<1>5. CASE LoadState
  BY <1>5 DEF LoadState, Covered
<1>6. ASSUME NEW s \in Reloads, Prepare(s)
      PROVE  Covered'
  BY <1>6 DEF Prepare, Covered
<1>7. CASE UNCHANGED vars
  BY <1>7 DEF vars, Covered
<1> QED
  BY <1>2, <1>3, <1>4, <1>5, <1>6, <1>7 DEF Next

LEMMA CoveredKept == Spec => [](StringsInv /\ Extent /\ Covered)
<1>1. Init => Covered
  BY DEF Init, Covered
<1>2. StringsInv /\ Extent /\ Covered /\ [Next]_vars => Covered'
  BY CoveredStep
<1> QED
  BY <1>1, <1>2, ExtentKept, PTL DEF Spec

-----------------------------------------------------------------------------
(* Blocks that are moved and stored.                                       *)

\* MovesBlock for job j: m is the memory and a the accumulator, r elements have been reached,
\* and g tells whether a state has been loaded.
BlockAt(j, r, g, m, a) ==
  Straight(j, j.edi, r) =>
    /\ \A x \in Mapped : m[x] # j.mem[x] => j.ins.op \in Movers /\ x \in Targets(j, r)
    /\ j.ins.op = "stos" =>
         \A k \in 0 .. r - 1 : \A q \in 0 .. Size(j.ins) - 1 :
           m[(Dst(j, k) + q) % Dwords] = a[q]
    /\ j.ins.op = "movs" /\ Straight(j, j.esi, r)
       /\ (g => Sources(j, r) \cap Targets(j, r) = {}) =>
         \A k \in 0 .. r - 1 : \A q \in 0 .. Size(j.ins) - 1 :
           LET s == (Src(j, k) + q) % Dwords
           IN  m[(Dst(j, k) + q) % Dwords] = IF s \in Targets(j, k) THEN m[s] ELSE j.mem[s]

\* Steps that leave memory alone.
LEMMA BlockStays ==
  ASSUME NEW j \in Job, NEW d \in Nat, NEW r \in Nat, d <= r, NEW g \in BOOLEAN, BlockAt(j, r, g, mem, acc),
         j.ins.op \notin Movers \/ reach' = r, reach' \in Nat, r <= reach',
         mem' = mem, j.ins.op # "lods" => acc' = acc
  PROVE  BlockAt(j, reach', g, mem', acc')
<1>1. CASE reach' = r
  <2>1. j.ins.op = "stos" => acc' = acc
    OBVIOUS
  <2> QED
    BY <1>1, <2>1, Zenon DEF BlockAt
<1>2. CASE j.ins.op \notin Movers
  <2>1. Straight(j, j.edi, reach') => Straight(j, j.edi, r)
    BY StepIs, StraightPart
  <2>2. j.ins.op # "stos" /\ j.ins.op # "movs"
    BY <1>2 DEF Movers
  <2> QED
    BY <1>2, <2>1, <2>2, Zenon DEF BlockAt
<1> QED
  BY <1>1, <1>2

\* One more element, or one once more.
LEMMA BlockMoves ==
  ASSUME TypeOK, NEW j \in Job, NEW i, NEW d \in Nat, Follows(j, df, i, esi, edi, ecx, d),
         NEW r \in Nat, d <= r, NEW g \in BOOLEAN, ~ g => d = r,
         BlockAt(j, r, g, mem, acc), Covers(j, r),
         Works(i, Size(i)), i.op \in Movers,
         NEW n \in Nat, n = IF d = r THEN d + 1 ELSE r
  PROVE  BlockAt(j, n, g, mem', acc)
<1>1. i = j.ins /\ d < n /\ r <= n /\ r \in 0 .. n /\ d \in 0 .. n - 1
  BY DEF Follows
<1>2. SUFFICES ASSUME Straight(j, j.edi, n)
               PROVE  BlockAt(j, n, g, mem', acc)
  BY DEF BlockAt
<1>3. Straight(j, j.edi, r)
  BY <1>1, <1>2, StepIs, StraightPart
<1> DEFINE here == At(Dst(j, d), Size(i))
<1>4. /\ Served(Dst(j, d), Size(i))
      /\ \A x \in Mapped : x \notin here => mem'[x] = mem[x]
      /\ i.op = "stos" =>
           \A q \in 0 .. Size(i) - 1 : mem'[(Dst(j, d) + q) % Dwords] = acc[q]
      /\ i.op = "movs" /\ Straight(j, j.esi, n) =>
           /\ Served(Src(j, d), Size(i))
           /\ \A q \in 0 .. Size(i) - 1 :
                mem'[(Dst(j, d) + q) % Dwords] = mem[(Src(j, d) + q) % Dwords]
  BY <1>1, <1>2, Moving
<1>5. Targets(j, r) \subseteq Mapped
  BY <1>1, <1>3 DEF Covers
<1>6. \A x \in here : x \in Targets(j, n)
  BY <1>1, TargetsAre
<1>7. Targets(j, r) \subseteq Targets(j, n) /\ Sources(j, r) \subseteq Sources(j, n)
  BY <1>1, Further
<1>8. \A k \in 0 .. n - 1 : k = d \/ k \in 0 .. r - 1
  OBVIOUS
\* What the other elements have put stays.
<1>9. ASSUME NEW k \in 0 .. r - 1, k # d, NEW x \in At(Dst(j, k), Size(i))
      PROVE  mem'[x] = mem[x]
  <2>1. x \in Mapped
    BY <1>1, <1>5, <1>9, TargetsAre
  <2>2. k \in 0 .. n - 1
    BY <1>1
  <2>3. x \notin here
    BY <1>1, <1>2, <1>9, <2>2, OtherPlace
  <2> QED
    BY <1>4, <2>1, <2>3
<1>10. \A x \in Mapped : mem'[x] # j.mem[x] => j.ins.op \in Movers /\ x \in Targets(j, n)
  <2>1. \A x \in Mapped : mem[x] # j.mem[x] => x \in Targets(j, r)
    BY <1>3 DEF BlockAt
  <2> QED
    BY <1>1, <1>4, <1>6, <1>7, <2>1
<1>11. ASSUME NEW k, NEW q \in 0 .. Size(i) - 1
       PROVE  (Dst(j, k) + q) % Dwords \in At(Dst(j, k), Size(i))
  BY DEF At
<1>12. ASSUME j.ins.op = "stos", NEW k \in 0 .. n - 1, NEW q \in 0 .. Size(j.ins) - 1
       PROVE  mem'[(Dst(j, k) + q) % Dwords] = acc[q]
  <2>1. CASE k = d
    BY <1>1, <1>4, <1>12, <2>1
  <2>2. CASE k # d
    <3>1. k \in 0 .. r - 1
      BY <1>8, <2>2
    <3>2. mem[(Dst(j, k) + q) % Dwords] = acc[q]
      BY <1>3, <1>12, <3>1 DEF BlockAt
    <3> QED
      BY <1>1, <1>9, <1>11, <2>2, <3>1, <3>2
  <2> QED
    BY <2>1, <2>2
<1>13. ASSUME j.ins.op = "movs", Straight(j, j.esi, n),
              g => Sources(j, n) \cap Targets(j, n) = {},
              NEW k \in 0 .. n - 1, NEW q \in 0 .. Size(j.ins) - 1,
              NEW s, s = (Src(j, k) + q) % Dwords
       PROVE  mem'[(Dst(j, k) + q) % Dwords] = IF s \in Targets(j, k) THEN mem'[s] ELSE j.mem[s]
  <2>1. s \in At(Src(j, k), Size(i)) /\ s \in Sources(j, n)
    BY <1>1, <1>13, SourcesAre DEF At
  \* The target of another element that is read: written already, and not by this one.
  <2>2. ASSUME s \in Targets(j, k), k = d \/ k \in 0 .. r - 1
        PROVE  mem'[s] = mem[s]
    <3>1. PICK p \in 0 .. k - 1 : s \in At(Dst(j, p), Size(i))
      BY <1>1, <2>2, TargetsAre
    <3>2. p \in 0 .. r - 1
      BY <2>2, <3>1
    <3>3. p # d
      <4>1. SUFFICES ASSUME p = d PROVE FALSE
        OBVIOUS
      <4>2. d < k /\ k \in 0 .. r - 1
        BY <2>2, <3>1, <4>1
      <4>3. g
        BY <4>2
      <4>4. s \in Targets(j, n)
        BY <1>6, <3>1, <4>1
      <4> QED
        BY <1>13, <2>1, <4>3, <4>4
    <3> QED
      BY <1>9, <3>1, <3>2, <3>3
  <2>3. CASE k = d
    <3>1. mem'[(Dst(j, k) + q) % Dwords] = mem[s] /\ Served(Src(j, d), Size(i))
      BY <1>1, <1>4, <1>13, <2>3
    <3>2. ASSUME s \notin Targets(j, d)
          PROVE  mem[s] = j.mem[s]
      <4>1. s \in Mapped
        BY <2>1, <2>3, <3>1 DEF Served
      <4>2. s \notin Targets(j, r)
        <5>1. CASE g
          BY <1>7, <1>13, <2>1, <5>1
        <5>2. CASE ~ g
          BY <3>2, <5>2
        <5> QED
          BY <5>1, <5>2
      <4> QED
        BY <1>3, <4>1, <4>2 DEF BlockAt
    <3> QED
      BY <2>2, <2>3, <3>1, <3>2
  <2>4. CASE k # d
    <3>1. k \in 0 .. r - 1
      BY <1>8, <2>4
    <3>2. Straight(j, j.esi, r) /\ (g => Sources(j, r) \cap Targets(j, r) = {})
      BY <1>1, <1>7, <1>13, StepIs, StraightPart
    <3>3. mem[(Dst(j, k) + q) % Dwords] = IF s \in Targets(j, k) THEN mem[s] ELSE j.mem[s]
      BY <1>3, <1>13, <3>1, <3>2 DEF BlockAt
    <3>4. mem'[(Dst(j, k) + q) % Dwords] = mem[(Dst(j, k) + q) % Dwords]
      BY <1>1, <1>9, <1>11, <2>4, <3>1
    <3> QED
      BY <2>2, <3>1, <3>3, <3>4
  <2> QED
    BY <2>3, <2>4
<1> QED
  BY <1>10, <1>12, <1>13 DEF BlockAt

LEMMA CycleBlock ==
  ASSUME TypeOK, NEW j \in Job, NEW i \in Instruction, NEW d \in Nat,
         Follows(j, df, i, esi, edi, ecx, d),
         NEW r \in Nat, d <= r, NEW g \in BOOLEAN, ~ g => d = r,
         BlockAt(j, r, g, mem, acc), Covers(j, r), Cycle(i, d, r)
  PROVE  BlockAt(j, reach', g, mem', acc')
<1>1. i = j.ins
  BY DEF Follows
<1>2. /\ done' \in {d, d + 1} /\ r <= reach' /\ reach' \in {r, done'}
      /\ i.op \notin Movers => mem' = mem
      /\ i.op # "lods" => acc' = acc
  BY CycleExtent
<1>3. reach' \in Nat
  BY <1>2
<1>4. CASE Nothing(i, d) \/ Thrown(i, d)
  <2>1. done' = d /\ mem' = mem
    BY <1>4 DEF Nothing, Thrown, Fails
  <2>2. reach' = r
    BY <1>2, <2>1
  <2> QED
    BY <1>1, <1>2, <1>3, <2>1, <2>2, BlockStays
<1>5. CASE Moved(i, d) /\ i.op \notin Movers
  BY <1>1, <1>2, <1>3, <1>5, BlockStays
<1>6. CASE Moved(i, d) /\ i.op \in Movers
  <2>1. PICK n \in Nat : n = IF d = r THEN d + 1 ELSE r
    OBVIOUS
  <2>2. BlockAt(j, n, g, mem', acc)
    BY <1>6, <2>1, BlockMoves DEF Moved
  <2>3. done' = d + 1 /\ reach' = IF done' > r THEN done' ELSE r
    BY <1>6, CycleCases DEF Moved, Leaves
  <2>4. reach' = n
    BY <2>1, <2>3
  <2>5. acc' = acc
    BY <1>2, <1>6 DEF Movers
  <2> QED
    BY <2>2, <2>4, <2>5
<1> QED
  BY <1>4, <1>5, <1>6, CycleCases

Block == job # NoJob => BlockAt(job, reach, again, mem, acc)

LEMMA BlockStep ==
  ASSUME StringsInv, Extent, Covered, Block, [Next]_vars
  PROVE  Block'
<1>1. TypeOK
  BY DEF StringsInv
<1>2. ASSUME NEW i \in Code, Begin(i)
      PROVE  Block'
  <2>0. PICK g \in BOOLEAN : g = again'
    BY <1>2 DEF Begin
  <2>1. i \in Instruction /\ Cycle(i, 0, 0) /\ ~ g
    BY <1>2, <2>0, StringsAssumption DEF Begin
  <2>2. PICK j : j = job'
    OBVIOUS
  <2>3. j = [ins |-> i, esi |-> esi, edi |-> edi, ecx |-> ecx, df |-> df, zf |-> zf,
             count |-> Counter(i), mem |-> mem, inp |-> inp, out |-> out,
             clean |-> ~ string_compares]
    BY <1>2, <2>2 DEF Begin
  <2>4. j \in Job
    BY <1>1, <2>1, <2>3, JobIs
  <2>5. Follows(j, df, i, esi, edi, ecx, 0)
    BY <1>1, <2>1, <2>3, <2>4, BeginsThere
  <2>6. Covers(j, 0)
    BY TargetsAre DEF Covers
  <2>7. BlockAt(j, 0, g, mem, acc)
    <3>1. mem = j.mem /\ 0 .. 0 - 1 = {}
      BY <2>3
    <3> QED
      BY <3>1 DEF BlockAt
  <2>8. BlockAt(j, reach', g, mem', acc')
    BY <1>1, <2>1, <2>4, <2>5, <2>6, <2>7, CycleBlock
  <2> QED
    BY <2>0, <2>2, <2>8 DEF Block
<1>3. ASSUME Continue
      PROVE  Block'
  <2>1. Cycle(ins, done, reach) /\ job' = job /\ again' = again
    BY <1>3 DEF Continue
  <2>2. ASSUME job # NoJob
        PROVE  BlockAt(job, reach', again, mem', acc')
    <3>1. PICK j \in Job : j = job
      BY <1>1, <2>2 DEF TypeOK
    <3>2. /\ done \in Nat /\ reach \in Nat /\ done <= reach /\ ins \in Instruction
          /\ again \in BOOLEAN /\ (~ again => done = reach)
      BY <1>1, <2>2 DEF TypeOK, Extent
    <3>3. /\ Follows(j, df, ins, esi, edi, ecx, done) /\ Covers(j, reach)
          /\ BlockAt(j, reach, again, mem, acc)
      BY <2>2, <3>1 DEF StringsInv, Going, Covered, Block
    <3>4. PICK g \in BOOLEAN : g = again
      BY <3>2
    <3>5. ~ g => done = reach
      BY <3>2, <3>4
    <3>6. BlockAt(j, reach, g, mem, acc)
      BY <3>3, <3>4
    <3>7. BlockAt(j, reach', g, mem', acc')
      BY <1>1, <2>1, <3>2, <3>3, <3>5, <3>6, CycleBlock
    <3> QED
      BY <3>1, <3>4, <3>7
  <2> QED
    BY <2>1, <2>2 DEF Block
<1>4. CASE SaveState
  BY <1>4 DEF SaveState, registers, Block
<1>5. CASE LoadState
  <2>1. /\ saved # NotSaved /\ acc' = saved.acc /\ again' = TRUE
        /\ mem' = mem /\ reach' = reach
        /\ job' = NoJob \/ (job' = job /\ saved.steps = steps)
    BY <1>5 DEF LoadState
  <2>2. ASSUME job # NoJob, saved.steps = steps
        PROVE  BlockAt(job, reach, TRUE, mem, saved.acc)
    <3>1. BlockAt(job, reach, again, mem, acc)
      BY <2>2 DEF Block
    <3>2. job.ins.op = "stos" => saved.acc = acc
      BY <2>1, <2>2 DEF Extent, SavedHere
    <3> QED
      BY <3>1, <3>2 DEF BlockAt
  <2> QED
    BY <2>1, <2>2 DEF Block
<1>6. ASSUME NEW s \in Reloads, Prepare(s)
      PROVE  Block'
  BY <1>6 DEF Prepare, Block
<1>7. CASE UNCHANGED vars
  BY <1>7 DEF vars, registers, Block
<1> QED
  BY <1>2, <1>3, <1>4, <1>5, <1>6, <1>7 DEF Next

\* MOVS and STOS change what they have come to and nothing else, and each element moved is what
\* its source held, for blocks of every length and direction, overlapping or not, across
\* exceptions, snapshots and loads (MovesBlock).
THEOREM BlocksMoved == Spec => []MovesBlock
<1>1. Init => Block
  BY DEF Init, Block
<1>2. StringsInv /\ Extent /\ Covered /\ Block /\ [Next]_vars => Block'
  BY BlockStep
<1>3. Block => MovesBlock
  BY DEF Block, BlockAt, MovesBlock, Repeated, Movers
<1> QED
  BY <1>1, <1>2, <1>3, CoveredKept, PTL DEF Spec

-----------------------------------------------------------------------------
(* What goes to a device and comes from one.                               *)

\* The bytes of the first d elements of job j, as they stood in memory at its beginning.
Elements(j, d) ==
  LET n == Size(j.ins)
  IN  [x \in 1 .. n * d |-> j.mem[(Src(j, (x - 1) \div n) + ((x - 1) % n)) % Dwords]]

\* Streams for job j: p is pc, d elements are done, m is the memory, in and o are inp and out.
StreamAt(j, p, d, m, in, o) ==
  LET n == Size(j.ins)
      op == j.ins.op
  IN  /\ op # "outs" => o = j.out
      /\ op # "ins" => in = j.inp
      /\ op = "outs" /\ Straight(j, j.esi, d) => o = j.out \o Elements(j, d)
      /\ op = "ins" =>
           /\ in = j.inp + n * (IF p = "faulted" /\ in # j.inp + n * d THEN d + 1 ELSE d)
           /\ Straight(j, j.edi, d) =>
                \A k \in 0 .. d - 1 : \A r \in 0 .. n - 1 :
                  m[(Dst(j, k) + r) % Dwords] = Input[j.inp + k * n + r + 1]

\* A byte of the element behind d others.
LEMMA LastElement ==
  ASSUME NEW n \in {1, 2, 4}, NEW d \in Nat, NEW x \in 1 .. n
  PROVE  (n * d + x - 1) \div n = d /\ (n * d + x - 1) % n = x - 1
<1>1. PICK r \in 0 .. n - 1 : r = x - 1
  OBVIOUS
<1>2. (n * d + r) % n = r
  BY Unique
<1>3. PICK z \in Int : z = n * d + r
  OBVIOUS
<1>4. PICK q \in Int : q = z \div n
  BY Remainder
<1>5. z = n * q + r
  BY <1>2, <1>3, <1>4, Remainder
<1>6. q = d
  <2>1. n * q = n * d
    BY <1>3, <1>5
  <2> QED
    BY <2>1
<1>7. n * d + x - 1 = z
  BY <1>1, <1>3
<1> QED
  BY <1>1, <1>2, <1>3, <1>4, <1>6, <1>7

LEMMA JoinedSeq ==
  ASSUME NEW S, NEW p \in Nat, NEW q \in Nat, NEW f \in [1 .. p -> S], NEW g \in [1 .. q -> S],
         NEW h \in [1 .. p + q -> S], \A x \in 1 .. p : h[x] = f[x],
         \A x \in 1 .. q : h[p + x] = g[x]
  PROVE  f \in Seq(S) /\ g \in Seq(S) /\ h = f \o g
<1>1. f \in Seq(S) /\ g \in Seq(S) /\ Len(f) = p /\ Len(g) = q /\ h \in Seq(S) /\ Len(h) = p + q
  OBVIOUS
<1>2. PICK u \in Seq(S) : u = f \o g
  BY <1>1, ConcatProperties
<1>3. Len(u) = p + q
  BY <1>1, <1>2, ConcatProperties
<1>4. ASSUME NEW x \in 1 .. p + q
      PROVE  u[x] = h[x]
  <2>1. u[x] = IF x <= p THEN f[x] ELSE g[x - p]
    BY <1>1, <1>2, ConcatProperties
  <2>2. CASE x <= p
    BY <2>1, <2>2
  <2>3. CASE ~ (x <= p)
    <3>1. PICK y \in 1 .. q : y = x - p /\ p + y = x
      BY <2>3
    <3> QED
      BY <2>1, <2>3, <3>1
  <2> QED
    BY <2>2, <2>3
<1> QED
  BY <1>1, <1>2, <1>3, <1>4, SeqEqual

\* Sending the next element makes one more.
LEMMA OneMore ==
  ASSUME NEW j \in Job, NEW d \in Nat, NEW e,
         e = [x \in 1 .. Size(j.ins) |-> j.mem[(Src(j, d) + x - 1) % Dwords]]
  PROVE  (j.out \o Elements(j, d)) \o e = j.out \o Elements(j, d + 1)
<1>1. PICK n \in {1, 2, 4} : n = Size(j.ins)
  BY StepIs
<1> DEFINE byte(x) == j.mem[(Src(j, (x - 1) \div n) + ((x - 1) % n)) % Dwords]
           S == Byte \cup {byte(x) : x \in 1 .. n * (d + 1)}
<1>2. PICK p \in Nat : p = n * d /\ n * (d + 1) = p + n
  OBVIOUS
<1>3. ASSUME NEW x \in 1 .. n
      PROVE  byte(p + x) = j.mem[(Src(j, d) + x - 1) % Dwords]
  <2>1. (p + x - 1) \div n = d /\ (p + x - 1) % n = x - 1
    BY <1>2, LastElement
  <2>2. Src(j, d) + (x - 1) = Src(j, d) + x - 1
    BY StepIs DEF Src, Dword
  <2> QED
    BY <2>1, <2>2
<1>4. Elements(j, d) = [x \in 1 .. p |-> byte(x)]
  BY <1>1, <1>2 DEF Elements
<1>5. Elements(j, d + 1) = [x \in 1 .. p + n |-> byte(x)]
  BY <1>1, <1>2 DEF Elements
<1>6. e = [x \in 1 .. n |-> byte(p + x)]
  BY <1>1, <1>3
<1> HIDE DEF byte
<1>7. \A x \in 1 .. p : byte(x) \in S
  BY <1>2
<1>8. /\ \A x \in 1 .. n : byte(p + x) \in S
      /\ \A x \in 1 .. p + n : byte(x) \in S
  BY <1>2
<1> HIDE DEF S
<1>9. /\ Elements(j, d) \in [1 .. p -> S] /\ e \in [1 .. n -> S]
      /\ Elements(j, d + 1) \in [1 .. p + n -> S]
  BY <1>4, <1>5, <1>6, <1>7, <1>8
<1>10. PICK f \in [1 .. p -> S], g \in [1 .. n -> S], h \in [1 .. p + n -> S] :
         f = Elements(j, d) /\ g = e /\ h = Elements(j, d + 1)
  BY <1>9
<1>11. f \in Seq(S) /\ g \in Seq(S) /\ h = f \o g
  <2>1. \A x \in 1 .. p : h[x] = f[x]
    BY <1>4, <1>5, <1>10
  <2>2. \A x \in 1 .. n : h[p + x] = g[x]
    BY <1>5, <1>6, <1>10
  <2>3. p \in Nat /\ n \in Nat
    OBVIOUS
  <2>4. PICK T : T = S
    OBVIOUS
  <2>5. f \in [1 .. p -> T] /\ g \in [1 .. n -> T] /\ h \in [1 .. p + n -> T]
    BY <2>4
  <2>6. f \in Seq(T) /\ g \in Seq(T) /\ h = f \o g
    BY ONLY <2>1, <2>2, <2>3, <2>5, JoinedSeq
  <2> QED
    BY <2>4, <2>6
<1>12. PICK o \in Seq(S) : o = j.out
  <2>1. PICK o \in Seq(Byte) : o = j.out
    BY DEF Job
  <2>2. PICK l \in Nat : o \in [1 .. l -> Byte]
    BY <2>1
  <2>3. \A x \in 1 .. l : o[x] \in S
    BY <2>2 DEF S
  <2>4. o \in [1 .. l -> S]
    BY <2>2, <2>3
  <2>5. o \in Seq(S)
    BY <2>4
  <2> QED
    BY <2>1, <2>5
<1>13. (o \o f) \o g = o \o (f \o g)
  BY <1>11, ConcatAssociative
<1> QED
  BY <1>10, <1>11, <1>12, <1>13

\* Nothing has happened, or memory or the device has refused.
LEMMA NoStream ==
  ASSUME TypeOK, NEW j \in Job, NEW i, NEW d \in Nat, NEW p, p # "faulted",
         Follows(j, df, i, esi, edi, ecx, d),
         StreamAt(j, p, d, mem, inp, out), Nothing(i, d) \/ Thrown(i, d)
  PROVE  StreamAt(j, pc', done', mem', inp', out')
<1>1. i = j.ins /\ done' = d /\ mem' = mem /\ out' = out
  BY DEF Follows, Nothing, Thrown, Fails
<1>2. PICK n \in {1, 2, 4} : n = Size(j.ins)
  BY StepIs
<1>3. \/ inp' = inp
      \/ i.op = "ins" /\ inp' = inp + n /\ pc' = "faulted"
  BY <1>1, <1>2 DEF Nothing, Thrown, Fails
<1>4. ASSUME i.op = "ins"
      PROVE  inp' = j.inp + n * (IF pc' = "faulted" /\ inp' # j.inp + n * d THEN d + 1 ELSE d)
  <2>1. inp = j.inp + n * d
    BY <1>1, <1>2, <1>4 DEF StreamAt
  <2>2. PICK t \in Nat, u \in Nat : t = n * d /\ u = n * (d + 1) /\ u = t + n
    OBVIOUS
  <2>3. j.inp \in Nat
    BY StringsAssumption DEF Job
  <2>4. inp' = j.inp + t \/ (inp' = j.inp + u /\ pc' = "faulted" /\ inp' # j.inp + t)
    BY <1>3, <2>1, <2>2, <2>3
  <2> QED
    BY <2>2, <2>4
<1> QED
  BY <1>1, <1>2, <1>3, <1>4 DEF StreamAt

\* One more element has come.
LEMMA InsStream ==
  ASSUME TypeOK, NEW j \in Job, NEW i, NEW d \in Nat, NEW p, p # "faulted",
         Follows(j, df, i, esi, edi, ecx, d), Covers(j, d),
         StreamAt(j, p, d, mem, inp, out), Works(i, Size(i)), i.op = "ins"
  PROVE  StreamAt(j, "next", d + 1, mem', inp', out')
<1>1. i = j.ins /\ d + 1 \in Nat /\ d \in 0 .. d + 1 /\ d \in 0 .. (d + 1) - 1 /\ d < d + 1
  BY DEF Follows
<1>2. PICK n \in {1, 2, 4} : n = Size(j.ins)
  BY StepIs
<1>3. inp' = inp + n /\ out' = out
  BY <1>1, <1>2 DEF Works, Movs, Cmps, Lods, Scas, Stos, Ins, Outs
<1>4. inp = j.inp + n * d /\ j.inp \in Nat /\ out = j.out
  BY <1>1, <1>2, StringsAssumption DEF StreamAt, Job
<1>5. inp' = j.inp + n * (d + 1)
  <2>1. n * (d + 1) = n * d + n
    OBVIOUS
  <2> QED
    BY <1>3, <1>4, <2>1
<1>6. ASSUME Straight(j, j.edi, d + 1), NEW k \in 0 .. (d + 1) - 1, NEW r \in 0 .. n - 1
      PROVE  mem'[(Dst(j, k) + r) % Dwords] = Input[j.inp + k * n + r + 1]
  <2>1. /\ \A q \in 0 .. n - 1 : mem'[(Dst(j, d) + q) % Dwords] = Input[inp + q + 1]
        /\ \A x \in Mapped : x \notin At(Dst(j, d), n) => mem'[x] = mem[x]
    BY <1>1, <1>2, <1>6, Moving DEF Movers
  <2>2. CASE k = d
    <3>1. inp + r + 1 = j.inp + k * n + r + 1
      BY <1>4, <2>2
    <3> QED
      BY <2>1, <2>2, <3>1
  <2>3. CASE k # d
    <3>1. k \in 0 .. d - 1
      BY <2>3
    <3>2. Straight(j, j.edi, d)
      BY <1>1, <1>6, StepIs, StraightPart
    <3>3. PICK x : x = (Dst(j, k) + r) % Dwords
      OBVIOUS
    <3>4. x \in At(Dst(j, k), n)
      BY <3>3 DEF At
    <3>5. x \in Mapped
      <4>1. Targets(j, d) \subseteq Mapped
        BY <1>1, <3>2 DEF Covers, Movers
      <4> QED
        BY <1>2, <3>1, <3>4, <4>1, TargetsAre
    <3>6. x \notin At(Dst(j, d), n)
      BY <1>1, <1>2, <1>6, <2>3, <3>4, OtherPlace
    <3>7. mem[x] = Input[j.inp + k * n + r + 1]
      BY <1>1, <1>2, <3>1, <3>2, <3>3 DEF StreamAt
    <3> QED
      BY <2>1, <3>3, <3>5, <3>6, <3>7
  <2> QED
    BY <2>2, <2>3
<1>7. out' = j.out
  BY <1>3, <1>4
<1> QED
  BY <1>1, <1>2, <1>5, <1>6, <1>7 DEF StreamAt

\* One more element has been sent.
LEMMA OutsStream ==
  ASSUME TypeOK, NEW j \in Job, NEW i, NEW d \in Nat, NEW p,
         Follows(j, df, i, esi, edi, ecx, d), mem = j.mem,
         StreamAt(j, p, d, mem, inp, out), Works(i, Size(i)), i.op = "outs"
  PROVE  StreamAt(j, "next", d + 1, mem', inp', out')
<1>1. i = j.ins /\ d + 1 \in Nat /\ d \in 0 .. d + 1 /\ d < d + 1
  BY DEF Follows
<1>2. inp' = inp /\ out' = out \o Sent(From(i), Size(i))
  BY DEF Works, Movs, Cmps, Lods, Scas, Stos, Ins, Outs
<1>3. inp' = j.inp
  BY <1>1, <1>2 DEF StreamAt
<1>4. ASSUME Straight(j, j.esi, d + 1)
      PROVE  out' = j.out \o Elements(j, d + 1)
  <2>1. From(i) = Src(j, d)
    BY <1>1, <1>4, OnSource
  <2>2. Straight(j, j.esi, d)
    BY <1>1, <1>4, StepIs, StraightPart
  <2>3. out = j.out \o Elements(j, d)
    BY <1>1, <2>2 DEF StreamAt
  <2>4. Sent(From(i), Size(i)) =
          [x \in 1 .. Size(j.ins) |-> j.mem[(Src(j, d) + x - 1) % Dwords]]
    BY <1>1, <2>1 DEF Sent
  <2> QED
    BY <1>2, <2>3, <2>4, OneMore
<1> QED
  BY <1>1, <1>3, <1>4 DEF StreamAt

LEMMA CycleStream ==
  ASSUME TypeOK, NEW j \in Job, NEW i \in Instruction, NEW d \in Nat,
         Follows(j, df, i, esi, edi, ecx, d), Covers(j, d),
         i.op \notin Movers => mem = j.mem,
         StreamAt(j, "repeat", d, mem, inp, out), Cycle(i, d, d)
  PROVE  StreamAt(j, pc', done', mem', inp', out')
<1>1. CASE Nothing(i, d) \/ Thrown(i, d)
  BY <1>1, NoStream
<1>2. CASE Moved(i, d)
  <2>1. done' = d + 1 /\ pc' # "faulted" /\ i = j.ins
    BY <1>2, MovedRegisters DEF Follows
  <2>2. CASE i.op = "ins"
    <3>1. StreamAt(j, "next", d + 1, mem', inp', out')
      BY <1>2, <2>2, InsStream DEF Moved
    <3> QED
      BY <2>1, <3>1 DEF StreamAt
  <2>3. CASE i.op = "outs"
    <3>1. StreamAt(j, "next", d + 1, mem', inp', out')
      BY <1>2, <2>3, OutsStream DEF Moved, Movers
    <3> QED
      BY <2>1, <2>3, <3>1 DEF StreamAt
  <2>4. CASE i.op # "ins" /\ i.op # "outs"
    <3>1. inp' = inp /\ out' = out
      BY <1>2, <2>4 DEF Moved, Works, Movs, Cmps, Lods, Scas, Stos, Ins, Outs
    <3> QED
      BY <2>1, <2>4, <3>1 DEF StreamAt
  <2> QED
    BY <2>2, <2>3, <2>4
<1> QED
  BY <1>1, <1>2, CycleCases

Stream == job # NoJob /\ ~ again => StreamAt(job, pc, done, mem, inp, out)

LEMMA StreamStep ==
  ASSUME StringsInv, Extent, Covered, Stream, [Next]_vars
  PROVE  Stream'
<1>1. TypeOK
  BY DEF StringsInv
<1>2. ASSUME NEW i \in Code, Begin(i)
      PROVE  Stream'
  <2>1. i \in Instruction /\ Cycle(i, 0, 0)
    BY <1>2, StringsAssumption DEF Begin
  <2>2. PICK j : j = job'
    OBVIOUS
  <2>3. j = [ins |-> i, esi |-> esi, edi |-> edi, ecx |-> ecx, df |-> df, zf |-> zf,
             count |-> Counter(i), mem |-> mem, inp |-> inp, out |-> out,
             clean |-> ~ string_compares]
    BY <1>2, <2>2 DEF Begin
  <2>4. j \in Job /\ mem = j.mem
    BY <1>1, <2>1, <2>3, JobIs
  <2>5. Follows(j, df, i, esi, edi, ecx, 0)
    BY <1>1, <2>1, <2>3, <2>4, BeginsThere
  <2>6. Covers(j, 0)
    BY TargetsAre DEF Covers
  <2>7. StreamAt(j, "repeat", 0, mem, inp, out)
    <3>1. PICK n \in {1, 2, 4} : n = Size(j.ins)
      BY <2>4, StepIs
    <3>2. n * 0 = 0 /\ 0 .. 0 - 1 = {} /\ 1 .. 0 = {}
      OBVIOUS
    <3>3. j.out = out /\ j.inp = inp /\ out \in Seq(Byte) /\ inp \in Nat
      BY <1>1, <2>3, StringsAssumption DEF TypeOK
    <3>4. Elements(j, 0) = << >>
      BY <3>1, <3>2 DEF Elements
    <3>5. out \o << >> = out
      BY <3>3
    <3> QED
      BY <3>1, <3>2, <3>3, <3>4, <3>5 DEF StreamAt
  <2>8. StreamAt(j, pc', done', mem', inp', out')
    BY <1>1, <2>1, <2>4, <2>5, <2>6, <2>7, CycleStream
  <2> QED
    BY <2>2, <2>8 DEF Stream
<1>3. ASSUME Continue
      PROVE  Stream'
  <2>1. Cycle(ins, done, reach) /\ job' = job /\ again' = again /\ pc = "repeat"
    BY <1>3 DEF Continue
  <2>2. ASSUME job # NoJob, ~ again
        PROVE  StreamAt(job, pc', done', mem', inp', out')
    <3>1. PICK j \in Job : j = job
      BY <1>1, <2>2 DEF TypeOK
    <3>2. done \in Nat /\ reach = done /\ ins \in Instruction
      BY <1>1, <2>2 DEF TypeOK, Extent
    <3>3. /\ Follows(j, df, ins, esi, edi, ecx, done) /\ Covers(j, done)
          /\ StreamAt(j, "repeat", done, mem, inp, out)
      BY <2>1, <2>2, <3>1, <3>2 DEF StringsInv, Going, Covered, Stream
    <3>4. ins.op \notin Movers => mem = j.mem
      BY <2>2, <3>1, <3>3 DEF Extent, Follows
    <3>5. StreamAt(j, pc', done', mem', inp', out')
      BY <1>1, <2>1, <3>2, <3>3, <3>4, CycleStream
    <3> QED
      BY <3>1, <3>5
  <2> QED
    BY <2>1, <2>2 DEF Stream
<1>4. CASE SaveState
  BY <1>4 DEF SaveState, registers, Stream
<1>5. CASE LoadState
  BY <1>5 DEF LoadState, Stream
<1>6. ASSUME NEW s \in Reloads, Prepare(s)
      PROVE  Stream'
  BY <1>6 DEF Prepare, Stream
<1>7. CASE UNCHANGED vars
  BY <1>7 DEF vars, registers, Stream
<1> QED
  BY <1>2, <1>3, <1>4, <1>5, <1>6, <1>7 DEF Next

\* OUTS sends its elements in their order and once each, and INS stores what the device has given
\* in its order and loses none but the one that memory refuses, as long as no state is loaded
\* (Streams).
THEOREM StreamsKept == Spec => []Streams
<1>1. Init => Stream
  BY DEF Init, Stream
<1>2. StringsInv /\ Extent /\ Covered /\ Stream /\ [Next]_vars => Stream'
  BY StreamStep
<1>3. Stream => Streams
  BY DEF Stream, StreamAt, Streams, Elements
<1> QED
  BY <1>1, <1>2, <1>3, CoveredKept, PTL DEF Spec

=============================================================================
