---------------------------- MODULE DecoderProofs ---------------------------
(***************************************************************************)
(* Theorems about Decoder, for every code and every content of memory and  *)
(* registers: TypeCorrect, LandsOnNext, FaultsStayInside, OperandsInPlace. *)
(*                                                                         *)
(* Everything about an instruction that is being executed is a function of *)
(* the phase it has come to: how far eip is (Way), which bytes of it are   *)
(* known apart from those of the addressing (Known).  The phases between   *)
(* one that is executed and the next add nothing, since the opcode has no  *)
(* use for them (SkipsNothing).  That the accessors of ModRM find the      *)
(* address of an operand is arithmetic (PlaceIs); that a handler finds the *)
(* same again needs that it has changed only what Displaces says (Steady). *)
(***************************************************************************)
EXTENDS Decoder, TLAPS

(* The opcodes.                                                            *)

LEMMA Kinds ==
  ASSUME NEW i \in Instruction
  PROVE  /\ ImmSize(i) \in {0, 1, 2, 4} /\ Skip(i) \in {0, 1, 2, 4}
         /\ GetLength(i) \in 1 .. 6
         /\ OperandSize(i) \in {2, 4}
BY DEF Instruction, ImmSize, Skip, GetLength, OperandSize, AddressSize

LEMMA AheadAlone ==
  ASSUME NEW i \in Instruction, Ahead(i)
  PROVE  ~ HasModRM(i)
BY DEF Instruction, Ahead, HasModRM, Alu, Column, Moffs, WithModRM, Ext

\* Every instruction with a ModRM byte looks for its operand, but MOV to a segment register.
LEMMA OperandLooked ==
  ASSUME NEW i \in Instruction, HasModRM(i), ~ Undefined(i), i.op # \h8E
  PROVE  ReadSize(i) # 0 \/ Offset(i) \/ WriteSize(i) # 0
BY DEF Instruction, HasModRM, Alu, Column, WithModRM, Ext, ReadSize, WriteSize, Offset,
       Undefined, Extra, Compares, Bound, Far, OperandSize, AddressSize, ByteReads, WordReads,
       ByteWrites, WordWrites, Shift

\* Only XCHG writes its operand with a register behind it.
LEMMA WritersKeep ==
  ASSUME NEW i \in Instruction, WriteSize(i) # 0
  PROVE  (Dest(i) = {} \/ Exchanges(i)) /\ ~ Pushes(i)
BY DEF Instruction, HasModRM, Alu, Column, Moffs, WithModRM, Ext, WriteSize, Extra, Compares,
       OperandSize, ByteWrites, WordWrites, Dest, ToRegister, Exchanges, Pushes

LEMMA SendersKeep ==
  ASSUME NEW i \in Instruction, Pushes(i) \/ i.op \in \hE6 .. \hE7
  PROVE  Dest(i) = {} /\ WriteSize(i) = 0 /\ ~ Divides(i)
BY DEF Instruction, Alu, Column, Ext, WriteSize, Extra, Compares, ByteWrites, WordWrites, Dest,
       ToRegister, Pushes, Divides

LEMMA JumpsAlone ==
  ASSUME NEW i \in Instruction, Jumps(i)
  PROVE  /\ HasModRM(i) /\ ~ Undefined(i) /\ ~ Ahead(i)
         /\ ImmSize(i) = 0 /\ Dest(i) = {} /\ ReadSize(i) # 0 /\ i.op < 256
BY DEF Instruction, Alu, Column, Ext, Extra, Compares, Dest, ToRegister, Jumps, HasModRM,
       WithModRM, Undefined, Ahead, Moffs, ImmSize, WithImm8, WithImmW, ReadSize, OperandSize,
       AddressSize, Far, Bound, ByteReads, WordReads, Shift

LEMMA CallsJump ==
  ASSUME NEW i \in Instruction
  PROVE  /\ Calls(i) => Jumps(i)
         /\ Far(i) => Jumps(i)
BY DEF Instruction, Calls, Jumps, Far, Extra

LEMMA UndefinedGroups ==
  ASSUME NEW i \in Instruction, Undefined(i)
  PROVE  HasModRM(i) /\ ~ Ahead(i) /\ ~ Jumps(i)
BY DEF Instruction, Alu, Column, Ext, Extra, Jumps, HasModRM, WithModRM, Undefined, Ahead,
       Moffs, Shift

\* GetLength agrees with the bytes that GetDisp, GetDisp32 and GetSIBDisp take.
LEMMA Lengths ==
  ASSUME NEW i \in Instruction, NEW a \in Int, HasModRM(i)
  PROVE  /\ GetLength(i) = 1 + (IF HasSIB(i) THEN 1 ELSE 0) + DispSize(i)
         /\ Addressing(i, a) = a + 1 .. a + GetLength(i) - 1
BY DEF Instruction, GetLength, HasSIB, DispSize, Addressing, InMemory, AddressSize

-----------------------------------------------------------------------------
(* The phases.                                                             *)

LEMMA Uses ==
  ASSUME NEW i
  PROVE  /\ Needs(i, Constructs) <=> HasModRM(i)
         /\ Needs(i, Immediate) <=> ImmSize(i) # 0 /\ ~ Undefined(i)
         /\ Needs(i, Stack) <=> Pops(i) \/ Calls(i)
         /\ Needs(i, Reads) <=> ReadSize(i) # 0 \/ Offset(i) \/ Undefined(i)
         /\ Needs(i, Sets) <=> Dest(i) # {} \/ Traps(i)
         /\ Needs(i, Again) <=> Extra(i, \hF6, {6}) \/ Extra(i, \hF7, {6}) \/ Far(i)
         /\ Needs(i, Writes) <=> WriteSize(i) # 0
         /\ Needs(i, Sends) <=> Pushes(i) \/ i.op \in \hE6 .. \hE7
         /\ Needs(i, Skips) <=> Skip(i) # 0
         /\ Needs(i, Destroys) <=> HasModRM(i) /\ ~ Jumps(i)
         /\ Needs(i, Finishes)
BY DEF Needs, Constructs, Immediate, Stack, Reads, Sets, Again, Writes, Sends, Skips,
       Destroys, Finishes

LEMMA DividersKeep ==
  ASSUME NEW i \in Instruction, Divides(i), Needs(i, Again)
  PROVE  Dest(i) = {AX} /\ WriteSize(i) = 0
<1>1. Extra(i, \hF6, {6}) \/ Extra(i, \hF7, {6}) \/ Far(i)
  BY Uses
<1> QED
  BY <1>1 DEF Instruction, Alu, Column, Ext, WriteSize, Extra, Compares, ByteWrites, WordWrites,
              Dest, ToRegister, Divides, Far

LEMMA AfterIs ==
  ASSUME NEW i, NEW p \in Idle .. Finishes - 1
  PROVE  /\ After(i, p) \in p + 1 .. Finishes
         /\ Needs(i, After(i, p))
         /\ \A r \in p + 1 .. After(i, p) - 1 : ~ Needs(i, r)
<1> DEFINE S == {q \in p + 1 .. Finishes : Needs(i, q)}
<1>1. Finishes \in S
  BY Uses DEF Idle, Finishes
<1>2. S \subseteq Nat
  BY DEF Idle, Finishes
<1>3. PICK q \in S : \A r \in S : q <= r
  <2>1. ASSUME \A x \in S : \E r \in S : r < x
        PROVE  FALSE
    BY <1>1, <2>1 DEF Idle, Finishes
  <2> QED BY <2>1 DEF Idle, Finishes
<1>4. \A r \in p + 1 .. q - 1 : ~ Needs(i, r)
  <2> SUFFICES ASSUME NEW r \in p + 1 .. q - 1, Needs(i, r) PROVE FALSE
    OBVIOUS
  <2>1. r \in S /\ r < q
    BY <1>2 DEF Idle, Finishes
  <2> QED BY <2>1, <1>3 DEF Idle, Finishes
<1>5. \E x \in p + 1 .. Finishes : Needs(i, x) /\ \A r \in p + 1 .. x - 1 : ~ Needs(i, r)
  BY <1>3, <1>4
<1> QED BY <1>5, Zenon DEF After

\* How far eip is from the opcode, at phase p.
Way(i, p) ==
  (IF i.op < 256 THEN 0 ELSE 1) + (IF p > Constructs /\ HasModRM(i) THEN 1 ELSE 0)
  + (IF p > Immediate /\ Ahead(i) THEN ImmSize(i) ELSE 0)
  + (IF p > Skips THEN Skip(i) ELSE 0)
  + (IF p > Destroys /\ HasModRM(i) /\ ~ Jumps(i) THEN GetLength(i) - 1 ELSE 0)

\* The bytes known then: opcode, ModRM and immediate.
Known(i, p) ==
  LET head == (IF i.op < 256 THEN 0 ELSE 1) + (IF p > Constructs /\ HasModRM(i) THEN 1 ELSE 0)
      a == (IF i.op < 256 THEN 1 ELSE 2) + (IF HasModRM(i) THEN GetLength(i) ELSE 0)
  IN  0 .. head \cup (IF p > Immediate /\ ~ Undefined(i) THEN a .. a + ImmSize(i) - 1 ELSE {})

\* Those of the addressing, and whether they have to be known.
Addressed(i) == Addressing(i, IF i.op < 256 THEN 1 ELSE 2)
Looked(i, p) ==
  \/ p > Reads /\ (ReadSize(i) # 0 \/ Offset(i))
  \/ p > Writes /\ WriteSize(i) # 0

LEMMA SkipsNothing ==
  ASSUME NEW i \in Instruction, NEW p \in Idle .. Finishes - 1
  PROVE  /\ Way(i, After(i, p)) = Way(i, p + 1)
         /\ Known(i, After(i, p)) = Known(i, p + 1)
         /\ Looked(i, After(i, p)) <=> Looked(i, p + 1)
         /\ Undefined(i) /\ p < Reads => After(i, p) \in p + 1 .. Reads
<1> DEFINE q == After(i, p)
<1>1. /\ q \in p + 1 .. Finishes
      /\ \A r \in p + 1 .. q - 1 : ~ Needs(i, r)
  BY AfterIs
<1>2. /\ Needs(i, Constructs) <=> HasModRM(i)
      /\ Needs(i, Immediate) <=> ImmSize(i) # 0 /\ ~ Undefined(i)
      /\ Needs(i, Reads) <=> ReadSize(i) # 0 \/ Offset(i) \/ Undefined(i)
      /\ Needs(i, Writes) <=> WriteSize(i) # 0
      /\ Needs(i, Skips) <=> Skip(i) # 0
      /\ Needs(i, Destroys) <=> HasModRM(i) /\ ~ Jumps(i)
  BY Uses
<1>3. Undefined(i) => ~ Ahead(i)
  BY UndefinedGroups
<1>4. ImmSize(i) \in Nat /\ Skip(i) \in Nat /\ GetLength(i) \in Nat
  BY Kinds
<1> HIDE DEF q
<1>5. Way(i, q) = Way(i, p + 1)
  BY <1>1, <1>2, <1>3, <1>4
     DEF Way, Idle, Constructs, Immediate, Skips, Destroys, Finishes
<1>6. Known(i, q) = Known(i, p + 1)
  BY <1>1, <1>2, <1>4 DEF Known, Idle, Constructs, Immediate, Finishes
<1>7. Looked(i, q) <=> Looked(i, p + 1)
  BY <1>1, <1>2 DEF Looked, Idle, Reads, Writes, Finishes
<1>8. Undefined(i) /\ p < Reads => q \in p + 1 .. Reads
  BY <1>1, <1>2 DEF Idle, Reads, Finishes
<1> QED BY <1>5, <1>6, <1>7, <1>8 DEF q

-----------------------------------------------------------------------------
(* Types.                                                                  *)

LEMMA HalfWord ==
  ASSUME NEW H \in Nat \ {0}, NEW x \in 0 .. H * H - 1, NEW y \in 0 .. H - 1
  PROVE  x - (x % H) + y \in 0 .. H * H - 1
<1>1. PICK q \in Nat : q = x \div H
  OBVIOUS
<1>2. PICK r \in 0 .. H - 1 : r = x % H
  OBVIOUS
<1>3. x = H * q + r
  BY <1>1, <1>2
<1>4. q < H
  <2>1. q >= H => H * q >= H * H
    OBVIOUS
  <2> QED BY <2>1, <1>3
<1>5. H * q + H <= H * H
  BY <1>4
<1> QED BY <1>2, <1>3, <1>5

LEMMA Sized ==
  /\ Half \in Nat \ {0} /\ Dwords \in Nat \ {0} /\ Dwords = Half * Half
  /\ Dword = 0 .. Dwords - 1
<1>1. ByteMod \in Nat \ {0}
  BY DecoderAssumption
<1>2. \A x \in Nat \ {0} : x * x \in Nat \ {0}
  OBVIOUS
<1> QED BY <1>1, <1>2 DEF Half, Dwords, Dword

LEMMA MovedTyped ==
  ASSUME NEW rs \in [0 .. 7 -> Dword], NEW r \in 0 .. 7, NEW n \in Int
  PROVE  /\ Moved(rs, r, n) \in [0 .. 7 -> Dword]
         /\ \A k \in 0 .. 7 : k # r => Moved(rs, r, n)[k] = rs[k]
<1>1. PICK H \in Nat \ {0}, D \in Nat \ {0} : H = Half /\ D = Dwords /\ D = H * H
  BY Sized
<1>2. rs[r] \in 0 .. H * H - 1
  BY <1>1, Sized
<1>3. (rs[r] + n) % H \in 0 .. H - 1 /\ (rs[r] + n) % D \in 0 .. D - 1
  BY <1>1, <1>2
<1>4. rs[r] - (rs[r] % H) + ((rs[r] + n) % H) \in 0 .. H * H - 1
  BY <1>2, <1>3, HalfWord
<1>5. 0 .. H * H - 1 = Dword /\ 0 .. D - 1 = Dword
  BY <1>1, Sized
<1>6. rs[r] - (rs[r] % Half) + ((rs[r] + n) % Half) \in Dword /\ (rs[r] + n) % Dwords \in Dword
  BY <1>1, <1>3, <1>4, <1>5
<1> QED BY <1>6 DEF Moved

LEMMA TakesTyped ==
  ASSUME reg \in [0 .. 7 -> Dword], NEW ds, Takes(ds)
  PROVE  /\ reg' \in [0 .. 7 -> Dword]
         /\ \A k \in 0 .. 7 : k \notin ds => reg'[k] = reg[k]
BY DecoderAssumption DEF Takes

-----------------------------------------------------------------------------
(* The invariant.                                                          *)

Runs(p) == p \in Constructs .. Finishes

EipFits(p, i, o) == Runs(p) => o = Way(i, p)

BytesFit(p, i, u) ==
  Runs(p) => u = Known(i, p) \cup (IF Looked(i, p) THEN Addressed(i) ELSE {})

\* Until a handler can throw no more, it has changed no register but those of Torn.
Whole(p, i, rs, rs0) ==
  Runs(p) /\ p <= Sends /\ (p = Writes => Looks(i)) =>
    \A r \in 0 .. 7 : r \notin Torn(i) => rs[r] = rs0[r]

LinkFits(p, i, l, s) ==
  Runs(p) /\ l # NoLink => Calls(i) /\ l = (s + 1 + GetLength(i)) % Dwords

Wanted(p, i) ==
  /\ Runs(p) => Needs(i, p)
  /\ Runs(p) /\ p > Reads => ~ Undefined(i)

IInv ==
  /\ TypeOK /\ Wanted(pc, ins)
  /\ EipFits(pc, ins, off) /\ BytesFit(pc, ins, used) /\ Whole(pc, ins, reg, before)
  /\ LinkFits(pc, ins, link, start)
  /\ Lands /\ FaultsInside

\* From phase p to the next one that the opcode has a use for.
LEMMA Onward ==
  ASSUME NEW i \in Instruction, NEW p \in Idle .. Finishes - 1,
         p < Reads \/ ~ Undefined(i)
  PROVE  /\ After(i, p) \in Constructs .. Finishes /\ After(i, p) > p
         /\ Wanted(After(i, p), i)
         /\ EipFits(After(i, p), i, Way(i, p + 1))
         /\ \A u : BytesFit(p + 1, i, u) => BytesFit(After(i, p), i, u)
<1>1. /\ After(i, p) \in p + 1 .. Finishes /\ Needs(i, After(i, p))
      /\ After(i, p) \in Constructs .. Finishes /\ After(i, p) > p
  BY AfterIs DEF Idle, Constructs, Finishes
<1>2. Wanted(After(i, p), i)
  BY <1>1, SkipsNothing DEF Wanted, Idle, Reads, Finishes
<1>3. Runs(p + 1)
  BY DEF Runs, Idle, Constructs, Finishes
<1> QED BY <1>1, <1>2, <1>3, SkipsNothing DEF EipFits, BytesFit

\* What is known lies in reach of the types.
LEMMA Reach ==
  ASSUME NEW i \in Instruction, NEW p \in Idle .. Stopped
  PROVE  /\ Way(i, p) \in 0 .. 15
         /\ Known(i, p) \cup Addressed(i) \subseteq 0 .. 15
<1>1. /\ ImmSize(i) \in 0 .. 4 /\ Skip(i) \in 0 .. 4 /\ GetLength(i) \in 1 .. 6
      /\ (Ahead(i) => Skip(i) = 0)
  BY Kinds DEF Skip
<1>2. HasModRM(i) => \A a \in Int : Addressing(i, a) = a + 1 .. a + GetLength(i) - 1
  BY Lengths
<1>3. Addressed(i) \subseteq 0 .. 15
  <2>1. CASE HasModRM(i)
    <3> DEFINE a == IF i.op < 256 THEN 1 ELSE 2
    <3>1. a \in 1 .. 2
      OBVIOUS
    <3>2. Addressing(i, a) = a + 1 .. a + GetLength(i) - 1
      BY <2>1, <1>2, <3>1
    <3> HIDE DEF a
    <3>3. a + 1 .. a + GetLength(i) - 1 \subseteq 0 .. 15
      BY <1>1, <3>1
    <3> QED BY <3>2, <3>3 DEF Addressed, a
  <2>2. CASE ~ HasModRM(i)
    BY <2>2 DEF Addressed, Addressing, InMemory
  <2> QED BY <2>1, <2>2
<1>4. Way(i, p) \in 0 .. 15
  BY <1>1 DEF Way
<1>5. Known(i, p) \subseteq 0 .. 15
  BY <1>1 DEF Known
<1> QED BY <1>3, <1>4, <1>5
-----------------------------------------------------------------------------
(* The steps: to the next phase, or out of the handler.                    *)

LEMMA LengthIs ==
  ASSUME NEW i \in Instruction
  PROVE  /\ Length(i) = (IF i.op < 256 THEN 1 ELSE 2)
                        + (IF HasModRM(i) THEN GetLength(i) ELSE 0) + ImmSize(i)
         /\ Length(i) \in 1 .. 24 /\ (i.op >= 256 => Length(i) > 1)
<1>1. HasModRM(i) => GetLength(i) = 1 + (IF HasSIB(i) THEN 1 ELSE 0) + DispSize(i)
  <2>1. 0 \in Int
    OBVIOUS
  <2> QED BY <2>1, Lengths
<1>2. ImmSize(i) \in 0 .. 4 /\ GetLength(i) \in 1 .. 6
  BY Kinds
<1>3. PICK g \in 1 .. 6, m \in 0 .. 4 : g = GetLength(i) /\ m = ImmSize(i)
  BY <1>2
<1>4. Length(i) = (IF i.op < 256 THEN 1 ELSE 2) + (IF HasModRM(i) THEN g ELSE 0) + m
  BY <1>1, <1>3 DEF Length
<1> QED BY <1>3, <1>4 DEF Instruction

LEMMA Advances ==
  ASSUME IInv, pc \in Constructs .. Destroys, pc < Reads \/ ~ Undefined(ins), Goes,
         UNCHANGED <<start, ins, steps, before>>,
         off' = Way(ins, pc + 1), BytesFit(pc + 1, ins, used'),
         reg' \in [0 .. 7 -> Dword], Whole(pc', ins, reg', before),
         link' \in Dword \cup {NoLink}, LinkFits(pc', ins, link', start)
  PROVE  IInv'
<1>1. TypeOK /\ ins \in Instruction /\ pc \in Idle .. Finishes - 1
  BY DEF IInv, TypeOK, Idle, Constructs, Destroys, Finishes
<1>2. /\ pc' \in Constructs .. Finishes /\ Wanted(pc', ins)
      /\ EipFits(pc', ins, off') /\ BytesFit(pc', ins, used')
  BY <1>1, Onward DEF Goes
<1>3. off' \in 0 .. 24 /\ used' \subseteq 0 .. 24
  <2>1. pc + 1 \in Idle .. Stopped /\ Runs(pc + 1)
    BY DEF Runs, Idle, Constructs, Destroys, Finishes, Stopped
  <2>2. /\ Way(ins, pc + 1) \in 0 .. 15
        /\ Known(ins, pc + 1) \cup Addressed(ins) \subseteq 0 .. 15
    BY <1>1, <2>1, Reach
  <2> QED BY <2>1, <2>2 DEF BytesFit
<1>4. TypeOK'
  BY <1>1, <1>2, <1>3 DEF TypeOK, Idle, Constructs, Finishes, Stopped
<1>5. Lands' /\ FaultsInside'
  BY <1>2 DEF Lands, FaultsInside, Idle, Constructs, Finishes, Stopped
<1> QED BY <1>2, <1>4, <1>5 DEF IInv

LEMMA Unwinds ==
  ASSUME IInv, pc' = Stopped, UNCHANGED <<start, ins, steps, before, used, link>>,
         off' \in 0 .. Length(ins) - 1, reg' \in [0 .. 7 -> Dword],
         \A r \in 0 .. 7 : r \notin Torn(ins) => reg'[r] = before[r]
  PROVE  IInv'
<1>1. TypeOK /\ ins \in Instruction
  BY DEF IInv, TypeOK
<1>2. Length(ins) \in 0 .. 24
  BY <1>1, LengthIs
<1>3. TypeOK'
  BY <1>1, <1>2 DEF TypeOK, Idle, Stopped
<1>4. FaultsInside'
  <2>1. Length(ins') = Length(ins) /\ Torn(ins') = Torn(ins)
    OBVIOUS
  <2> QED BY <2>1 DEF FaultsInside
<1>5. ~ Runs(pc') /\ pc' # Idle
  BY DEF Runs, Constructs, Finishes, Stopped, Idle
<1> QED BY <1>3, <1>4, <1>5 DEF IInv, Wanted, EipFits, BytesFit, Whole, LinkFits, Lands

\* Whatever has been executed before the immediate is skipped, the destructor of ModRM
\* leaves eip in the instruction.
LEMMA Room ==
  ASSUME NEW i \in Instruction, NEW p \in Constructs .. Skips
  PROVE  LET on == IF HasModRM(i) /\ ~ Jumps(i) THEN GetLength(i) - 1 ELSE 0
         IN  /\ Way(i, p) + on \in 0 .. Length(i) - 1
             /\ HasModRM(i) => Way(i, Immediate) + on - 1 \in 0 .. Length(i) - 1
             /\ HasModRM(i) => Way(i, Immediate) \in 0 .. Length(i) - 1
<1>1. /\ ImmSize(i) \in Nat /\ GetLength(i) \in Nat \ {0}
  BY Kinds
<1>2. Length(i) = (IF i.op < 256 THEN 1 ELSE 2) + (IF HasModRM(i) THEN GetLength(i) ELSE 0)
                  + ImmSize(i)
  BY LengthIs
<1> QED
  BY <1>1, <1>2 DEF Way, Constructs, Immediate, Skips, Destroys

\* While nothing more than Torn has been changed, so it stays.
LEMMA Keeps ==
  ASSUME IInv, pc \in Constructs .. Sends, pc = Writes => Looks(ins)
  PROVE  /\ reg \in [0 .. 7 -> Dword]
         /\ \A r \in 0 .. 7 : r \notin Torn(ins) => reg[r] = before[r]
         /\ \A p : Whole(p, ins, reg, before)
         /\ link \in Dword \cup {NoLink}
         /\ \A p : LinkFits(p, ins, link, start)
         /\ off = Way(ins, pc) /\ BytesFit(pc, ins, used) /\ Needs(ins, pc)
         /\ ins \in Instruction /\ start \in Dword
         /\ pc > Reads => ~ Undefined(ins)
<1>1. Runs(pc) /\ pc <= Sends
  BY DEF Runs, Constructs, Sends, Finishes
<1> QED BY <1>1 DEF IInv, TypeOK, Wanted, EipFits, Whole, LinkFits

LEMMA InitInv == Init => IInv
<1> SUFFICES ASSUME Init PROVE IInv
  OBVIOUS
<1>1. Dwords \in Nat \ {0} /\ 0 \in Dword
  BY Sized
<1>2. Nop \in Instruction
  BY <1>1 DEF Nop, Instruction
<1>3. TypeOK
  BY <1>2, DecoderAssumption DEF Init, TypeOK, Idle, Stopped
<1>4. pc = Idle /\ ~ Runs(pc) /\ pc # Stopped
  BY DEF Init, Runs, Idle, Constructs, Finishes, Stopped
<1>5. Lands
  BY DEF Lands, Init, Nop, Idle, Jumps, Extra, NoLink
<1> QED BY <1>3, <1>4, <1>5 DEF IInv, Wanted, EipFits, BytesFit, Whole, LinkFits, FaultsInside

LEMMA FetchInv == IInv /\ Fetch => IInv'
<1> SUFFICES ASSUME IInv, Fetch PROVE IInv'
  OBVIOUS
<1>1. /\ TypeOK /\ reg' = reg /\ before' = reg /\ link' = NoLink /\ steps' \in 0 .. MaxSteps
  BY DecoderAssumption DEF IInv, TypeOK, Fetch
<1>2. start' \in Dword
  <2>1. start' \in Starts
    BY DEF Fetch
  <2>2. PICK H \in Nat \ {0}, D \in Nat \ {0} : H = Half /\ D = Dwords /\ D = H * H
    BY Sized
  <2>3. \A x \in Int : x % D \in 0 .. D - 1
    OBVIOUS
  <2>4. (start + off) % Dwords \in Dword
    <3>1. PICK x \in Int : x = start + off
      BY <1>1, Sized DEF TypeOK
    <3> QED BY <3>1, <2>2, <2>3, Sized
  <2>5. \A v \in Values : v \in Dword /\ v % Half \in Dword
    <3>1. \A v \in 0 .. H * H - 1 : v % H \in 0 .. H * H - 1
      <4> SUFFICES ASSUME NEW v \in 0 .. H * H - 1 PROVE v % H \in 0 .. H * H - 1
        OBVIOUS
      <4>1. v % H \in 0 .. H - 1
        OBVIOUS
      <4>2. H <= H * H
        OBVIOUS
      <4> QED BY <4>1, <4>2
    <3> QED BY <3>1, <2>2, Sized, DecoderAssumption
  <2> QED BY <2>1, <2>4, <2>5 DEF Starts
<1>3. PICK i \in Code :
        /\ ins' = i
        /\ \/ off' = (IF i.op < 256 THEN 0 ELSE 1) /\ used' = 0 .. off' /\ pc' = After(i, Idle)
           \/ off' \in 0 .. (IF i.op < 256 THEN 0 ELSE 1) /\ used' = 0 .. off' - 1 /\ pc' = Stopped
  BY DEF Fetch
<1>4. i \in Instruction
  BY DecoderAssumption
<1>5. CASE off' = (IF i.op < 256 THEN 0 ELSE 1) /\ used' = 0 .. off' /\ pc' = After(i, Idle)
  <2>1. off' = Way(i, Idle + 1) /\ used' = Known(i, Idle + 1) /\ ~ Looked(i, Idle + 1)
    BY <1>5 DEF Way, Known, Looked, Idle, Constructs, Immediate, Reads, Writes, Skips, Destroys
  <2>2. BytesFit(Idle + 1, i, used')
    BY <2>1 DEF BytesFit
  <2>3. /\ pc' \in Constructs .. Finishes
        /\ Wanted(pc', i) /\ EipFits(pc', i, off') /\ BytesFit(pc', i, used')
    BY <1>4, <1>5, <2>1, <2>2, Onward DEF Idle, Reads, Finishes
  <2>4. TypeOK'
    BY <1>1, <1>2, <1>3, <1>4, <1>5, <2>3
       DEF TypeOK, Idle, Constructs, Finishes, Stopped
  <2>5. Lands' /\ FaultsInside'
    BY <2>3 DEF Lands, FaultsInside, Idle, Constructs, Finishes, Stopped
  <2>6. Whole(pc', ins', reg', before') /\ LinkFits(pc', ins', link', start')
    BY <1>1 DEF Whole, LinkFits
  <2> QED BY <1>3, <2>3, <2>4, <2>5, <2>6 DEF IInv
<1>6. CASE off' \in 0 .. (IF i.op < 256 THEN 0 ELSE 1) /\ used' = 0 .. off' - 1 /\ pc' = Stopped
  <2>1. TypeOK'
    <3>1. PICK o \in 0 .. 1 : o = off'
      BY <1>4, <1>6 DEF Instruction
    <3>2. off' \in 0 .. 24 /\ used' \subseteq 0 .. 24
      <4>1. used' = 0 .. o - 1
        BY <3>1, <1>6
      <4>2. 0 .. o - 1 \subseteq 0 .. 24 /\ o \in 0 .. 24
        OBVIOUS
      <4> QED BY <4>1, <4>2, <3>1
    <3>3. ins' \in Instruction /\ pc' = Stopped
      BY <1>3, <1>4, <1>6
    <3> QED BY <1>1, <1>2, <3>2, <3>3 DEF TypeOK, Idle, Stopped
  <2>2. FaultsInside'
    <3>1. off' \in 0 .. Length(i) - 1
      <4>1. PICK o \in 0 .. 1 : o = off' /\ (i.op < 256 => o = 0)
        BY <1>4, <1>6 DEF Instruction
      <4>2. PICK n \in 1 .. 24 : n = Length(i) /\ (i.op >= 256 => n > 1)
        BY <1>4, LengthIs
      <4> QED BY <1>4, <4>1, <4>2 DEF Instruction
    <3>2. Length(ins') = Length(i)
      BY <1>3
    <3> QED BY <1>1, <3>1, <3>2 DEF FaultsInside
  <2>3. ~ Runs(pc') /\ pc' # Idle
    BY <1>6 DEF Runs, Constructs, Finishes, Stopped, Idle
  <2> QED BY <2>1, <2>2, <2>3 DEF IInv, Wanted, EipFits, BytesFit, Whole, LinkFits, Lands
<1> QED BY <1>3, <1>5, <1>6

\* What an exception leaves, when eip is at from.
LEMMA ThrowInv ==
  ASSUME IInv, NEW from \in Int, Throws(from), UNCHANGED <<start, ins, steps, before>>,
         from + (IF HasModRM(ins) /\ ~ Jumps(ins) THEN GetLength(ins) - 1 ELSE 0)
           \in 0 .. Length(ins) - 1,
         reg' \in [0 .. 7 -> Dword],
         \A r \in 0 .. 7 : r \notin Torn(ins) => reg'[r] = before[r]
  PROVE  IInv'
BY Unwinds DEF Throws

LEMMA ConstructInv == IInv /\ Construct => IInv'
<1> SUFFICES ASSUME IInv, Construct PROVE IInv'
  OBVIOUS
<1>1. /\ pc = Constructs /\ pc \in Constructs .. Sends /\ pc # Writes /\ pc < Reads
      /\ pc \in Constructs .. Skips /\ pc \in Constructs .. Destroys
  BY DEF Construct, Constructs, Reads, Writes, Sends, Skips, Destroys
<1>2. HasModRM(ins)
  BY <1>1, Keeps, Uses
<1>3. off = Way(ins, pc) /\ ins \in Instruction
  BY <1>1, Keeps
<1>4. off' = Way(ins, pc + 1) /\ off' = Way(ins, Immediate)
  BY <1>1, <1>2, <1>3, Kinds DEF Construct, Way, Constructs, Immediate, Skips, Destroys
<1>5. CASE Goes /\ used' = used \cup {off + 1}
  <2>1. used = Known(ins, pc)
    BY <1>1, Keeps DEF BytesFit, Runs, Looked, Constructs, Reads, Writes, Finishes
  <2>2. BytesFit(pc + 1, ins, used')
    BY <1>1, <1>2, <1>3, <1>5, <2>1 DEF BytesFit, Known, Looked, Way, Constructs, Immediate,
       Reads, Writes, Skips, Destroys
  <2> QED
    BY <1>1, <1>4, <1>5, <2>2, Keeps, Advances DEF Construct
<1>6. CASE pc' = Stopped /\ UNCHANGED used
  <2>1. off' \in 0 .. Length(ins) - 1
    BY <1>1, <1>2, <1>3, <1>4, Room
  <2> QED
    BY <1>1, <1>6, <2>1, Keeps, Unwinds DEF Construct
<1> QED BY <1>5, <1>6 DEF Construct

LEMMA ImmediateInv == IInv /\ ReadImmediate => IInv'
<1> SUFFICES ASSUME IInv, ReadImmediate PROVE IInv'
  OBVIOUS
<1> DEFINE a == off + IF HasModRM(ins) THEN GetLength(ins) ELSE 1
           on == off + IF Ahead(ins) THEN ImmSize(ins) ELSE 0
<1>1. /\ pc = Immediate /\ pc \in Constructs .. Sends /\ pc # Writes /\ pc < Reads
      /\ pc + 1 \in Constructs .. Skips /\ pc \in Constructs .. Destroys
  BY DEF ReadImmediate, Immediate, Constructs, Reads, Writes, Sends, Skips, Destroys
<1>2. ~ Undefined(ins)
  BY <1>1, Keeps, Uses
<1>3. off = Way(ins, pc) /\ ins \in Instruction
  BY <1>1, Keeps
<1>4. /\ ImmSize(ins) \in Nat /\ GetLength(ins) \in Nat \ {0}
  BY <1>3, Kinds
<1>5. on = Way(ins, pc + 1) /\ on \in Int
  BY <1>1, <1>3, <1>4 DEF Way, Constructs, Immediate, Skips, Destroys
<1>6. CASE Goes /\ off' = on /\ used' = used \cup a .. a + ImmSize(ins) - 1
           /\ UNCHANGED <<places, link>>
  <2>1. used = Known(ins, pc)
    BY <1>1, Keeps DEF BytesFit, Runs, Looked, Immediate, Reads, Writes, Constructs, Finishes
  <2>2. a = (IF ins.op < 256 THEN 1 ELSE 2) + (IF HasModRM(ins) THEN GetLength(ins) ELSE 0)
    BY <1>1, <1>3, <1>4 DEF Way, Constructs, Immediate, Skips, Destroys
  <2> HIDE DEF a, on
  <2>3. Known(ins, pc + 1) = Known(ins, pc) \cup a .. a + ImmSize(ins) - 1
    BY <1>1, <1>2, <2>2 DEF Known, Constructs, Immediate
  <2>4. ~ Looked(ins, pc + 1)
    BY <1>1 DEF Looked, Immediate, Reads, Writes
  <2>5. BytesFit(pc + 1, ins, used')
    BY <1>6, <2>1, <2>3, <2>4 DEF BytesFit
  <2> QED
    BY <1>1, <1>5, <1>6, <2>5, Keeps, Advances DEF ReadImmediate
<1>7. CASE Throws(on)
  <2> HIDE DEF on
  <2>1. on + (IF HasModRM(ins) /\ ~ Jumps(ins) THEN GetLength(ins) - 1 ELSE 0)
          \in 0 .. Length(ins) - 1
    BY <1>1, <1>3, <1>5, Room
  <2> QED
    BY <1>1, <1>5, <1>7, <2>1, Keeps, ThrowInv DEF ReadImmediate
<1> QED BY <1>6, <1>7 DEF ReadImmediate

\* The phases that move eip no further: it is in the instruction if they throw.
LEMMA Stays ==
  ASSUME IInv, pc \in Stack .. Sends
  PROVE  /\ off \in Int /\ off = Way(ins, pc) /\ off = Way(ins, pc + 1)
         /\ off + (IF HasModRM(ins) /\ ~ Jumps(ins) THEN GetLength(ins) - 1 ELSE 0)
              \in 0 .. Length(ins) - 1
         /\ pc # Reads /\ pc # Writes => BytesFit(pc + 1, ins, used)
         /\ pc \in Constructs .. Destroys /\ pc \in Constructs .. Sends
         /\ Goes => pc' \in pc + 1 .. Finishes /\ Needs(ins, pc')
<1>1. /\ ins \in Instruction /\ off = Way(ins, pc) /\ BytesFit(pc, ins, used)
  BY DEF IInv, TypeOK, EipFits, Runs, Stack, Sends, Constructs, Finishes
<1>2. /\ pc \in Constructs .. Skips /\ pc \in Constructs .. Destroys /\ pc \in Constructs .. Sends
      /\ pc \in Idle .. Finishes - 1 /\ pc \in Idle .. Stopped
  BY DEF Stack, Sends, Constructs, Skips, Destroys, Idle, Finishes, Stopped
<1>3. Way(ins, pc) = Way(ins, pc + 1)
  BY DEF Way, Stack, Sends, Constructs, Immediate, Skips, Destroys
<1>4. pc # Reads /\ pc # Writes => BytesFit(pc + 1, ins, used)
  <2>1. Known(ins, pc) = Known(ins, pc + 1)
    BY DEF Known, Stack, Sends, Constructs, Immediate
  <2>2. pc # Reads /\ pc # Writes => (Looked(ins, pc) <=> Looked(ins, pc + 1))
    BY DEF Looked, Stack, Sends, Reads, Writes
  <2> QED BY <1>1, <2>1, <2>2 DEF BytesFit, Runs, Stack, Sends, Constructs, Finishes
<1>5. Goes => pc' \in pc + 1 .. Finishes /\ Needs(ins, pc')
  BY <1>2, AfterIs DEF Goes
<1>6. off \in Int
  BY <1>1, <1>2, Reach
<1>7. off + (IF HasModRM(ins) /\ ~ Jumps(ins) THEN GetLength(ins) - 1 ELSE 0)
        \in 0 .. Length(ins) - 1
  BY <1>1, <1>2, Room
<1> QED BY <1>1, <1>2, <1>3, <1>4, <1>5, <1>6, <1>7

LEMMA TornIs ==
  ASSUME NEW i
  PROVE  /\ Pops(i) \/ Calls(i) \/ Pushes(i) => Torn(i) = {SP}
         /\ Exchanges(i) => Torn(i) = Dest(i)
         /\ Divides(i) => Torn(i) = {AX}
BY DEF Torn, Pops, Calls, Pushes, Exchanges, Divides, Extra

LEMMA StackInv == IInv /\ (PopFirst \/ PushLink) => IInv'
<1> SUFFICES ASSUME IInv, PopFirst \/ PushLink PROVE IInv'
  OBVIOUS
<1>1. /\ pc = Stack /\ pc \in Stack .. Sends /\ pc # Writes /\ pc # Reads /\ pc < Reads
      /\ Pops(ins) \/ Calls(ins)
      /\ UNCHANGED <<start, ins, steps, before>>
  BY DEF PopFirst, PushLink, Stack, Reads, Writes, Sends
<1>2. Torn(ins) = {SP} /\ SP \in 0 .. 7
  BY <1>1, TornIs DEF SP
<1>3. OperandSize(ins) \in {2, 4} /\ ins \in Instruction
  BY Kinds DEF IInv, TypeOK
<1>4. \A n \in Int : /\ Moved(reg, SP, n) \in [0 .. 7 -> Dword]
                     /\ \A r \in 0 .. 7 : r \notin Torn(ins) => Moved(reg, SP, n)[r] = before[r]
  <2>1. /\ reg \in [0 .. 7 -> Dword]
        /\ \A r \in 0 .. 7 : r \notin Torn(ins) => reg[r] = before[r]
    BY <1>1, Keeps, Stays
  <2>2. ASSUME NEW n \in Int
        PROVE  /\ Moved(reg, SP, n) \in [0 .. 7 -> Dword]
               /\ \A r \in 0 .. 7 : r # SP => Moved(reg, SP, n)[r] = reg[r]
    BY <1>2, <2>1, MovedTyped
  <2> QED BY <1>2, <2>1, <2>2
<1>5. /\ reg' \in [0 .. 7 -> Dword]
      /\ \A r \in 0 .. 7 : r \notin Torn(ins) => reg'[r] = before[r]
  <2>1. reg' = reg \/ \E n \in Int : reg' = Moved(reg, SP, n)
    <3>1. PICK s \in {2, 4} : s = OperandSize(ins)
      BY <1>3
    <3>2. CASE PopFirst
      BY <3>1, <3>2 DEF PopFirst
    <3>3. CASE PushLink
      <4>1. \E k \in 1 .. 2 : reg' = Moved(reg, SP, - (k * s))
        BY <3>1, <3>3 DEF PushLink
      <4> QED BY <4>1
    <3> QED BY <3>2, <3>3
  <2> QED BY <2>1, <1>1, <1>4, Stays, Keeps
<1>6. CASE Goes /\ UNCHANGED <<off, used>>
           /\ (UNCHANGED link \/ (Calls(ins) /\ link' = (start + off + GetLength(ins)) % Dwords))
  <2>1. Whole(pc', ins, reg', before)
    BY <1>5 DEF Whole
  <2>2. link' \in Dword \cup {NoLink} /\ LinkFits(pc', ins, link', start)
    <3>1. CASE UNCHANGED link
      BY <3>1, <1>1, Stays, Keeps
    <3>2. CASE Calls(ins) /\ link' = (start + off + GetLength(ins)) % Dwords
      <4>1. HasModRM(ins) /\ ~ Ahead(ins) /\ ins.op < 256
        BY <1>3, <3>2, CallsJump, JumpsAlone
      <4>2. off = 1
        BY <1>1, <4>1, Stays DEF Way, Stack, Constructs, Immediate, Skips, Destroys
      <4>3. link' = (start + 1 + GetLength(ins)) % Dwords
        BY <3>2, <4>2
      <4>4. PICK x \in Int : x = start + 1 + GetLength(ins)
        <5>1. PICK D \in Nat \ {0} : D = Dwords /\ Dword = 0 .. D - 1
          BY Sized
        <5>2. start \in 0 .. D - 1
          BY <5>1 DEF IInv, TypeOK
        <5>3. PICK g \in 1 .. 6 : g = GetLength(ins)
          BY <1>3, Kinds
        <5> QED BY <5>2, <5>3
      <4>5. x % Dwords \in Dword
        <5>1. PICK D \in Nat \ {0} : D = Dwords
          BY Sized
        <5>2. x % D \in 0 .. D - 1
          OBVIOUS
        <5> QED BY <5>1, <5>2, Sized
      <4> QED BY <3>2, <4>3, <4>4, <4>5 DEF LinkFits
    <3> QED BY <1>6, <3>1, <3>2
  <2> QED BY <1>1, <1>5, <1>6, <2>1, <2>2, Stays, Advances
<1>7. CASE Throws(off)
  BY <1>1, <1>5, <1>7, Stays, ThrowInv
<1> QED BY <1>6, <1>7 DEF PopFirst, PushLink

LEMMA ReadInv == IInv /\ (ReadOperand \/ UndefinedGroup) => IInv'
<1> SUFFICES ASSUME IInv, ReadOperand \/ UndefinedGroup PROVE IInv'
  OBVIOUS
<1>1. /\ pc = Reads /\ pc \in Stack .. Sends /\ pc # Writes
      /\ UNCHANGED <<start, ins, reg, steps, before>>
  BY DEF ReadOperand, UndefinedGroup, Stack, Reads, Writes, Sends
<1>2. ins \in Instruction
  BY DEF IInv, TypeOK
<1>3. CASE UndefinedGroup
  <2>1. HasModRM(ins) /\ ~ Ahead(ins) /\ ~ Jumps(ins)
    BY <1>2, <1>3, UndefinedGroups DEF UndefinedGroup
  <2>2. off = Way(ins, Immediate) /\ off \in Int
    BY <1>1, <2>1, Stays DEF Way, Constructs, Immediate, Reads, Skips, Destroys
  <2>3. Way(ins, Immediate) + (GetLength(ins) - 1) - 1 \in 0 .. Length(ins) - 1
    <3>1. Immediate \in Constructs .. Skips
      BY DEF Constructs, Immediate, Skips
    <3> QED BY <1>2, <2>1, <3>1, Room
  <2>4. GetLength(ins) \in Nat
    BY <1>2, Kinds
  <2>5. off - 1 \in Int
        /\ off - 1 + (IF HasModRM(ins) /\ ~ Jumps(ins) THEN GetLength(ins) - 1 ELSE 0)
             \in 0 .. Length(ins) - 1
    BY <2>1, <2>2, <2>3, <2>4
  <2> QED
    BY <1>1, <1>3, <2>5, Stays, Keeps, ThrowInv DEF UndefinedGroup
<1>4. CASE ReadOperand
  <2>1. ~ Undefined(ins) /\ (ReadSize(ins) # 0 \/ Offset(ins))
    BY <1>1, <1>4, Stays, Keeps, Uses DEF ReadOperand
  <2>2. CASE Goes /\ UNCHANGED <<off, link>> /\ used' = used \cup Addressing(ins, off)
    <3>1. Looked(ins, pc + 1) /\ Known(ins, pc) = Known(ins, pc + 1)
      BY <1>1, <2>1 DEF Looked, Known, Constructs, Immediate, Reads
    <3>2. used = Known(ins, pc) \/ used = Known(ins, pc) \cup Addressed(ins)
      BY <1>1, Stays, Keeps DEF BytesFit, Runs, Reads, Constructs, Finishes
    <3>3. Addressing(ins, off) = Addressed(ins)
      <4>1. CASE InMemory(ins)
        <5>1. off = IF ins.op < 256 THEN 1 ELSE 2
          BY <1>1, <1>2, <4>1, Stays, AheadAlone
             DEF InMemory, Way, Constructs, Immediate, Reads, Skips, Destroys
        <5> QED BY <5>1 DEF Addressed
      <4> QED BY <4>1 DEF Addressed, Addressing
    <3>4. BytesFit(pc + 1, ins, used')
      BY <2>2, <3>1, <3>2, <3>3 DEF BytesFit
    <3> QED BY <1>1, <2>1, <2>2, <3>4, Stays, Keeps, Advances
  <2>3. CASE Goes /\ ~ Looks(ins) /\ UNCHANGED <<off, used, link>>
    <3>1. Addressing(ins, off) = {}
      BY <2>3 DEF Looks, Addressing
    <3> QED BY <2>2, <2>3, <3>1
  <2>4. CASE Throws(off)
    BY <1>1, <2>4, Stays, Keeps, ThrowInv
  <2> QED BY <1>4, <2>2, <2>3, <2>4 DEF ReadOperand, Finds
<1> QED BY <1>3, <1>4

LEMMA SetInv == IInv /\ SetRegister => IInv'
<1> SUFFICES ASSUME IInv, SetRegister PROVE IInv'
  OBVIOUS
<1>1. /\ pc = Sets /\ pc \in Stack .. Sends /\ pc # Writes /\ pc # Reads /\ pc > Reads
      /\ UNCHANGED <<start, ins, steps, before>>
  BY DEF SetRegister, Stack, Reads, Sets, Writes, Sends
<1>2. /\ ins \in Instruction /\ ~ Undefined(ins) /\ reg \in [0 .. 7 -> Dword]
      /\ \A r \in 0 .. 7 : r \notin Torn(ins) => reg[r] = before[r]
  BY <1>1, Stays, Keeps
<1>3. CASE Goes /\ Takes(Dest(ins)) /\ UNCHANGED <<off, used, places, link>>
  <2>1. /\ reg' \in [0 .. 7 -> Dword]
        /\ \A k \in 0 .. 7 : k \notin Dest(ins) => reg'[k] = reg[k]
    BY <1>2, <1>3, TakesTyped
  <2>2. pc' \in Again .. Finishes /\ Needs(ins, pc')
    BY <1>1, <1>3, Stays DEF Sets, Again, Finishes
  <2>3. ASSUME pc' <= Sends PROVE Dest(ins) \subseteq Torn(ins)
    <3>1. CASE pc' = Again
      <4>1. Divides(ins) \/ Far(ins)
        BY <2>2, <3>1, Uses DEF Extra, Divides
      <4>2. CASE Divides(ins)
        BY <1>2, <2>2, <3>1, <4>2, DividersKeep, TornIs
      <4>3. CASE Far(ins)
        BY <1>2, <4>3, CallsJump, JumpsAlone
      <4> QED BY <4>1, <4>2, <4>3
    <3>2. CASE pc' = Writes
      <4>1. Dest(ins) = {} \/ Exchanges(ins)
        BY <1>2, <2>2, <3>2, Uses, WritersKeep
      <4> QED BY <4>1, TornIs
    <3>3. CASE pc' = Sends
      BY <1>2, <2>2, <3>3, Uses, SendersKeep
    <3> QED BY <2>2, <2>3, <3>1, <3>2, <3>3 DEF Again, Writes, Sends, Finishes
  <2>4. Whole(pc', ins, reg', before)
    BY <1>2, <2>1, <2>3 DEF Whole
  <2> QED BY <1>1, <1>2, <1>3, <2>1, <2>4, Stays, Keeps, Advances
<1>4. CASE Throws(off) /\ UNCHANGED reg
  BY <1>1, <1>2, <1>4, Stays, ThrowInv
<1>5. CASE Extra(ins, \hF6, {7}) /\ Throws(off) /\ Takes({AX})
  <2>1. AX \in Torn(ins)
    BY <1>5, TornIs DEF Extra, Divides
  <2>2. /\ reg' \in [0 .. 7 -> Dword]
        /\ \A r \in 0 .. 7 : r \notin Torn(ins) => reg'[r] = before[r]
    BY <1>2, <1>5, <2>1, TakesTyped
  <2> QED BY <1>1, <1>5, <2>2, Stays, ThrowInv
<1> QED BY <1>3, <1>4, <1>5 DEF SetRegister

LEMMA AgainInv == IInv /\ (ReadAgain \/ Follow) => IInv'
<1> SUFFICES ASSUME IInv, ReadAgain \/ Follow PROVE IInv'
  OBVIOUS
<1>1. /\ pc = Again /\ pc \in Stack .. Sends /\ pc # Writes /\ pc # Reads /\ pc > Reads
      /\ UNCHANGED <<start, ins, steps, before>>
  BY DEF ReadAgain, Follow, Stack, Reads, Again, Writes, Sends
<1>2. /\ ins \in Instruction /\ ~ Undefined(ins) /\ reg \in [0 .. 7 -> Dword]
      /\ \A r \in 0 .. 7 : r \notin Torn(ins) => reg[r] = before[r]
      /\ Needs(ins, Again)
  BY <1>1, Stays, Keeps
<1>3. CASE ReadAgain /\ Goes
  <2>1. UNCHANGED <<off, link>> /\ (UNCHANGED used \/ used' = used \cup Addressing(ins, off))
    <3>1. pc' # Stopped
      BY <1>1, <1>3, Stays DEF Finishes, Stopped
    <3> QED BY <1>3, <3>1 DEF ReadAgain, Throws, Finds
  <2>2. reg' \in [0 .. 7 -> Dword]
    BY <1>2, <1>3, TakesTyped DEF ReadAgain
  <2>3. Divides(ins) /\ WriteSize(ins) = 0
    BY <1>2, <1>3, DividersKeep DEF ReadAgain
  <2>4. pc' > Sends
    <3>1. pc' \in Writes .. Finishes /\ Needs(ins, pc')
      BY <1>1, <1>3, Stays DEF Again, Writes, Finishes
    <3>2. pc' # Writes
      BY <2>3, <3>1, Uses
    <3>3. pc' # Sends
      BY <1>2, <2>3, <3>1, Uses, SendersKeep
    <3> QED BY <3>1, <3>2, <3>3 DEF Writes, Sends, Finishes
  <2>5. Whole(pc', ins, reg', before)
    BY <2>4 DEF Whole, Sends, Runs, Constructs, Finishes
  <2>6. BytesFit(pc + 1, ins, used')
    <3>1. CASE UNCHANGED used
      BY <1>1, <3>1, Stays
    <3>2. CASE used' = used \cup Addressing(ins, off)
      <4>1. Addressing(ins, off) = Addressed(ins)
        <5>1. CASE InMemory(ins)
          <6>1. off = IF ins.op < 256 THEN 1 ELSE 2
            BY <1>1, <1>2, <5>1, Stays, AheadAlone
               DEF InMemory, Way, Constructs, Immediate, Again, Skips, Destroys
          <6> QED BY <6>1 DEF Addressed
        <5> QED BY <5>1 DEF Addressed, Addressing
      <4>2. Looked(ins, pc + 1)
        <5>1. ReadSize(ins) # 0
          BY <1>2, <2>3 DEF Divides, ReadSize, Instruction, Alu, ByteReads, WordReads, Extra,
             OperandSize, Bound, Far, Column, AddressSize
        <5> QED BY <1>1, <5>1 DEF Looked, Again, Reads
      <4>3. BytesFit(pc + 1, ins, used)
        BY <1>1, Stays
      <4> QED BY <1>1, <3>2, <4>1, <4>2, <4>3
                 DEF BytesFit, Runs, Again, Constructs, Finishes
    <3> QED BY <2>1, <3>1, <3>2
  <2> QED BY <1>1, <1>2, <1>3, <2>1, <2>2, <2>5, <2>6, Stays, Keeps, Advances
<1>4. CASE Follow /\ Goes
  <2>1. UNCHANGED <<off, used, link, reg>>
    <3>1. pc' # Stopped
      BY <1>1, <1>4, Stays DEF Finishes, Stopped
    <3> QED BY <1>1, <1>4, <3>1 DEF Follow, Throws
  <2> QED BY <1>1, <1>2, <1>4, <2>1, Stays, Keeps, Advances
<1>5. CASE Throws(off) /\ UNCHANGED reg
  BY <1>1, <1>2, <1>5, Stays, ThrowInv
<1> QED BY <1>3, <1>4, <1>5 DEF ReadAgain, Follow

LEMMA WriteInv == IInv /\ WriteOperand => IInv'
<1> SUFFICES ASSUME IInv, WriteOperand PROVE IInv'
  OBVIOUS
<1>1. /\ pc = Writes /\ pc \in Stack .. Sends /\ pc # Reads /\ pc > Reads
      /\ Runs(pc)
      /\ UNCHANGED <<start, ins, steps, before>>
  BY DEF WriteOperand, Stack, Reads, Writes, Sends, Runs, Constructs, Finishes
<1>2. /\ ins \in Instruction /\ ~ Undefined(ins) /\ reg \in [0 .. 7 -> Dword]
      /\ Needs(ins, Writes) /\ BytesFit(pc, ins, used)
      /\ link \in Dword \cup {NoLink} /\ \A p : LinkFits(p, ins, link, start)
  BY <1>1 DEF IInv, TypeOK, Wanted, LinkFits
<1>3. WriteSize(ins) # 0
  BY <1>2, Uses
<1>4. Goes => pc' \in Sends .. Finishes /\ pc' # Sends
  BY <1>1, <1>2, <1>3, Stays, Uses, SendersKeep DEF Writes, Sends, Finishes
<1>5. Goes => \A rs : Whole(pc', ins, rs, before)
  BY <1>4 DEF Whole, Sends, Finishes
<1>6. Looked(ins, pc + 1) /\ Known(ins, pc) = Known(ins, pc + 1)
  BY <1>1, <1>3 DEF Looked, Known, Writes, Constructs, Immediate
<1>7. used \cup Addressed(ins) = Known(ins, pc) \cup Addressed(ins)
  BY <1>1, <1>2 DEF BytesFit
<1>8. Addressing(ins, off) = Addressed(ins)
  <2>1. CASE InMemory(ins)
    <3>1. off = IF ins.op < 256 THEN 1 ELSE 2
      BY <1>1, <1>2, <2>1, Stays, AheadAlone
         DEF InMemory, Way, Constructs, Immediate, Writes, Skips, Destroys
    <3> QED BY <3>1 DEF Addressed
  <2> QED BY <2>1 DEF Addressed, Addressing
<1>9. CASE Goes /\ used' = used \cup Addressing(ins, off) /\ UNCHANGED <<off, link, reg>>
  <2>1. BytesFit(pc + 1, ins, used')
    BY <1>6, <1>7, <1>8, <1>9 DEF BytesFit
  <2> QED BY <1>1, <1>2, <1>5, <1>9, <2>1, Stays, Advances
<1>10. CASE /\ ~ Looks(ins) /\ Goes /\ UNCHANGED <<off, used, link>>
            /\ Takes({IF WriteSize(ins) = 1 THEN ByteRegister(ins.rm) ELSE ins.rm})
  <2>1. Addressed(ins) = {}
    BY <1>8, <1>10 DEF Looks, Addressing
  <2>2. BytesFit(pc + 1, ins, used')
    BY <1>6, <1>7, <1>10, <2>1 DEF BytesFit
  <2>3. reg' \in [0 .. 7 -> Dword]
    BY <1>2, <1>10, TakesTyped
  <2> QED BY <1>1, <1>2, <1>5, <1>10, <2>2, <2>3, Stays, Advances
<1>11. CASE Looks(ins) /\ Throws(off) /\ UNCHANGED reg
  BY <1>1, <1>2, <1>11, Stays, Keeps, ThrowInv
<1> QED BY <1>9, <1>10, <1>11 DEF WriteOperand, Finds

LEMMA SendInv == IInv /\ Send => IInv'
<1> SUFFICES ASSUME IInv, Send PROVE IInv'
  OBVIOUS
<1>1. /\ pc = Sends /\ pc \in Stack .. Sends /\ pc # Writes /\ pc # Reads /\ pc > Reads
      /\ UNCHANGED <<start, ins, steps, before>>
  BY DEF Send, Stack, Reads, Writes, Sends
<1>2. /\ ins \in Instruction /\ ~ Undefined(ins) /\ reg \in [0 .. 7 -> Dword]
      /\ \A r \in 0 .. 7 : r \notin Torn(ins) => reg[r] = before[r]
  BY <1>1, Stays, Keeps
<1>3. /\ reg' \in [0 .. 7 -> Dword]
      /\ \A r \in 0 .. 7 : r \notin Torn(ins) => reg'[r] = before[r]
  <2>1. CASE Pushes(ins)
    <3>1. PICK s \in Int : s = - OperandSize(ins)
      BY <1>2, Kinds
    <3>2. reg' = Moved(reg, SP, s) /\ SP \in 0 .. 7
      BY <2>1, <3>1 DEF Send, SP
    <3>3. /\ reg' \in [0 .. 7 -> Dword]
          /\ \A r \in 0 .. 7 : r # SP => reg'[r] = reg[r]
      BY <1>2, <3>2, MovedTyped
    <3> QED BY <1>2, <2>1, <3>3, TornIs
  <2>2. CASE ~ Pushes(ins)
    BY <1>2, <2>2 DEF Send
  <2> QED BY <2>1, <2>2
<1>4. CASE Goes /\ UNCHANGED <<off, used, link>>
  <2>1. Whole(pc', ins, reg', before)
    BY <1>1, <1>4, Stays DEF Whole, Sends, Finishes
  <2> QED BY <1>1, <1>2, <1>3, <1>4, <2>1, Stays, Keeps, Advances
<1>5. CASE Throws(off)
  BY <1>1, <1>3, <1>5, Stays, ThrowInv
<1> QED BY <1>4, <1>5 DEF Send

LEMMA MovesInv == IInv /\ (SkipImmediate \/ Destroy) => IInv'
<1> SUFFICES ASSUME IInv, SkipImmediate \/ Destroy PROVE IInv'
  OBVIOUS
<1>1. /\ pc \in {Skips, Destroys} /\ pc \in Constructs .. Destroys /\ pc > Reads /\ Goes
      /\ pc \in Idle .. Finishes - 1 /\ Runs(pc) /\ pc > Sends
      /\ UNCHANGED <<start, ins, reg, steps, before, used, places, link>>
  BY DEF SkipImmediate, Destroy, Constructs, Reads, Sends, Skips, Destroys, Idle, Finishes, Runs
<1>2. /\ ins \in Instruction /\ ~ Undefined(ins) /\ reg \in [0 .. 7 -> Dword] /\ Needs(ins, pc)
      /\ off = Way(ins, pc) /\ BytesFit(pc, ins, used)
      /\ link \in Dword \cup {NoLink} /\ \A p : LinkFits(p, ins, link, start)
  BY <1>1 DEF IInv, TypeOK, Wanted, EipFits, LinkFits
<1>3. ImmSize(ins) \in Nat /\ Skip(ins) \in Nat /\ GetLength(ins) \in Nat
  BY <1>2, Kinds
<1>4. off' = Way(ins, pc + 1)
  <2>1. CASE SkipImmediate
    BY <1>2, <1>3, <2>1 DEF SkipImmediate, Way, Constructs, Immediate, Skips, Destroys
  <2>2. CASE Destroy
    <3>1. HasModRM(ins) /\ ~ Jumps(ins)
      BY <1>2, <2>2, Uses DEF Destroy
    <3> QED BY <1>2, <1>3, <2>2, <3>1 DEF Destroy, Way, Constructs, Immediate, Skips, Destroys
  <2> QED BY <2>1, <2>2
<1>5. BytesFit(pc + 1, ins, used')
  BY <1>1, <1>2 DEF BytesFit, Known, Looked, Constructs, Immediate, Reads, Writes, Skips, Destroys
<1>6. pc' > Sends
  BY <1>1, AfterIs DEF Goes, Skips, Destroys, Idle, Finishes, Sends
<1>7. Whole(pc', ins, reg', before)
  BY <1>6 DEF Whole, Sends, Runs, Constructs, Finishes
<1> QED BY <1>1, <1>2, <1>4, <1>5, <1>7, Advances

\* The bytes that an instruction that is done has taken.
LEMMA Whereto ==
  ASSUME NEW i \in Instruction, ~ Undefined(i), NEW u, BytesFit(Finishes, i, u)
  PROVE  /\ ~ Jumps(i) /\ i.op \notin {\h82, \h8E} => u = 0 .. Way(i, Finishes)
         /\ i.op = \h8E => u \subseteq 0 .. Way(i, Finishes)
         /\ i.op = \h82 => u = 0 .. Way(i, Finishes) + 1 - OperandSize(i)
         /\ Calls(i) => u = 0 .. GetLength(i)
<1> DEFINE b == IF i.op < 256 THEN 1 ELSE 2
<1>1. PICK g \in 1 .. 6, m \in 0 .. 4 : g = GetLength(i) /\ m = ImmSize(i)
  BY Kinds
<1>2. u = Known(i, Finishes) \cup (IF Looked(i, Finishes) THEN Addressed(i) ELSE {})
  BY DEF BytesFit, Runs, Constructs, Finishes
<1>3. b \in 1 .. 2
  OBVIOUS
<1>4. CASE HasModRM(i)
  <2>1. Known(i, Finishes) = 0 .. b \cup b + g .. b + g + m - 1
    <3>1. Known(i, Finishes) = 0 .. (IF i.op < 256 THEN 0 ELSE 1) + 1 \cup b + g .. b + g + m - 1
      BY <1>1, <1>4 DEF Known, Constructs, Immediate, Finishes
    <3>2. (IF i.op < 256 THEN 0 ELSE 1) + 1 = b
      OBVIOUS
    <3> QED BY <3>1, <3>2
  <2>2. Addressed(i) = b + 1 .. b + g - 1
    <3>1. Addressed(i) = Addressing(i, b) /\ b \in Int
      BY <1>3 DEF Addressed
    <3> HIDE DEF b
    <3> QED BY <1>1, <1>4, <3>1, Lengths
  <2>3. ~ Jumps(i) /\ i.op # \h82 => Way(i, Finishes) = b + g + m - 1
    <3>1. ~ Ahead(i)
      BY <1>4, AheadAlone
    <3> QED BY <1>1, <1>4, <3>1
            DEF Way, Skip, Constructs, Immediate, Skips, Destroys, Finishes
  <2>4. i.op # \h8E => Looked(i, Finishes)
    BY <1>4, OperandLooked DEF Looked, Reads, Writes, Finishes
  <2>5. Calls(i) => Jumps(i) /\ m = 0 /\ b = 1
    BY <1>1, CallsJump, JumpsAlone
  <2> HIDE DEF b
  <2>6. i.op # \h8E => u = 0 .. b + g + m - 1
    BY <1>2, <1>3, <2>1, <2>2, <2>4
  <2>7. u \subseteq 0 .. b + g + m - 1
    BY <1>2, <1>3, <2>1, <2>2
  <2>8. Calls(i) => i.op = \hFF
    BY DEF Calls, Extra
  <2>9. Calls(i) => u = 0 .. GetLength(i)
    BY <1>1, <2>5, <2>6, <2>8
  <2>10. i.op = \h8E => ~ Jumps(i)
    BY DEF Jumps, Extra
  <2>11. i.op = \h82 => Way(i, Finishes) = b + g + OperandSize(i) - 1 /\ m = 1
    <3> SUFFICES ASSUME i.op = \h82
                 PROVE  Way(i, Finishes) = b + g + OperandSize(i) - 1 /\ m = 1
      OBVIOUS
    <3>1. ~ Ahead(i) /\ ~ Jumps(i)
      BY <1>4, AheadAlone DEF Jumps, Extra
    <3>2. i.op \in WithImm8 /\ i.op \notin WithImmW /\ ~ Alu(i)
          /\ ~ Extra(i, \hF7, {0}) /\ ~ Moffs(i)
      BY DEF WithImm8, WithImmW, Alu, Extra, Moffs, Ext
    <3>3. ImmSize(i) = 1
      BY <3>2 DEF ImmSize
    <3>4. Skip(i) = OperandSize(i)
      BY <3>1 DEF Skip
    <3>5. Skip(i) \in Nat
      BY <3>4 DEF OperandSize
    <3>6. Way(i, Finishes) = b + Skip(i) + (g - 1)
      BY <1>1, <1>4, <3>1, <3>5 DEF b, Way, Constructs, Immediate, Skips, Destroys, Finishes
    <3>7. PICK o \in Nat : o = OperandSize(i)
      BY DEF OperandSize
    <3> QED BY <1>1, <1>3, <3>3, <3>4, <3>6, <3>7
  <2>12. i.op = \h82 => u = 0 .. Way(i, Finishes) + 1 - OperandSize(i)
    <3>1. OperandSize(i) \in Nat
      BY DEF OperandSize
    <3> QED BY <1>1, <1>3, <2>6, <2>11, <3>1
  <2> QED BY <2>3, <2>6, <2>7, <2>9, <2>10, <2>12
<1>5. CASE ~ HasModRM(i)
  <2>1. Known(i, Finishes) = 0 .. b - 1 \cup b .. b + m - 1
    <3>1. Known(i, Finishes) = 0 .. (IF i.op < 256 THEN 0 ELSE 1) \cup b .. b + m - 1
      BY <1>1, <1>5 DEF Known, Constructs, Immediate, Finishes
    <3>2. (IF i.op < 256 THEN 0 ELSE 1) = b - 1
      OBVIOUS
    <3> QED BY <3>1, <3>2
  <2>2. Addressed(i) = {}
    BY <1>5 DEF Addressed, Addressing, InMemory
  <2>3. i.op # \h82 => Way(i, Finishes) = b + m - 1
    BY <1>1, <1>5 DEF Way, Skip, Constructs, Immediate, Skips, Destroys, Finishes
  <2>4. ~ Calls(i) /\ i.op # \h8E /\ i.op # \h82
    BY <1>5 DEF HasModRM, WithModRM, Calls, Extra
  <2> HIDE DEF b
  <2>5. u = 0 .. b + m - 1
    BY <1>2, <1>3, <2>1, <2>2
  <2> QED BY <2>3, <2>4, <2>5
<1> QED BY <1>4, <1>5

LEMMA FinishInv == IInv /\ Finish => IInv'
<1> SUFFICES ASSUME IInv, Finish PROVE IInv'
  OBVIOUS
<1>1. /\ pc = Finishes /\ Runs(pc) /\ pc > Reads /\ pc' = Idle /\ pc' # Stopped /\ ~ Runs(pc')
      /\ pc \in Idle .. Stopped
      /\ UNCHANGED <<start, ins, reg, steps, before, used, places, link>>
  BY DEF Finish, Finishes, Runs, Constructs, Reads, Idle, Stopped
<1>2. /\ ins \in Instruction /\ ~ Undefined(ins) /\ off = Way(ins, Finishes)
      /\ BytesFit(Finishes, ins, used) /\ LinkFits(Finishes, ins, link, start)
  BY <1>1 DEF IInv, TypeOK, Wanted, EipFits
<1>3. PICK w \in 0 .. 15 : w = off /\ w = Way(ins, Finishes) /\ off' = w + 1
  BY <1>1, <1>2, Reach DEF Finish
<1>4. TypeOK'
  <2>1. off' \in 0 .. 24 /\ pc' \in Idle .. Stopped
    BY <1>1, <1>3 DEF Idle, Stopped
  <2> QED BY <1>1, <2>1 DEF IInv, TypeOK
<1>5. Lands'
  <2>1. off' - 1 = w
    BY <1>3
  <2>2. /\ ~ Jumps(ins) /\ ins.op \notin {\h82, \h8E} => used' = 0 .. off' - 1
        /\ ins.op = \h8E => used' \subseteq 0 .. off' - 1
        /\ ins.op = \h82 => used' = 0 .. off' - OperandSize(ins)
    <3>1. Way(ins, Finishes) + 1 - OperandSize(ins) = off' - OperandSize(ins)
      BY <1>3 DEF OperandSize
    <3> QED BY <1>1, <1>2, <1>3, <2>1, <3>1, Whereto
  <2>3. link # NoLink => \E n \in 1 .. 24 : used = 0 .. n - 1 /\ link = (start + n) % Dwords
    <3>1. SUFFICES ASSUME link # NoLink
                   PROVE  \E n \in 1 .. 24 : used = 0 .. n - 1 /\ link = (start + n) % Dwords
      OBVIOUS
    <3>2. Calls(ins) /\ link = (start + 1 + GetLength(ins)) % Dwords /\ used = 0 .. GetLength(ins)
      BY <1>1, <1>2, <3>1, Whereto DEF LinkFits
    <3>3. PICK g \in 1 .. 6 : g = GetLength(ins)
      BY <1>2, Kinds
    <3>4. g + 1 \in 1 .. 24 /\ g = (g + 1) - 1
      OBVIOUS
    <3>5. start + 1 + g = start + (g + 1)
      <4>1. PICK D \in Nat \ {0} : Dword = 0 .. D - 1
        BY Sized
      <4>2. PICK s \in Nat : s = start
        BY <4>1 DEF IInv, TypeOK
      <4> QED BY <4>2
    <3> QED BY <3>2, <3>3, <3>4, <3>5
  <2> QED BY <1>1, <2>2, <2>3 DEF Lands
<1> QED
  BY <1>1, <1>4, <1>5 DEF IInv, Wanted, EipFits, BytesFit, Whole, LinkFits, FaultsInside

LEMMA StepInv == IInv /\ [Next]_vars => IInv'
<1>1. CASE UNCHANGED vars
  BY <1>1 DEF vars, IInv, TypeOK, Wanted, EipFits, BytesFit, Whole, LinkFits, Lands, FaultsInside
<1> QED
  BY <1>1, FetchInv, ConstructInv, ImmediateInv, StackInv, ReadInv, SetInv, AgainInv, WriteInv,
     SendInv, MovesInv, FinishInv DEF Next

-----------------------------------------------------------------------------
(* Where operands are looked for.                                          *)

\* What the handlers read and write has the size the opcode tells.
LEMMA Parity ==
  ASSUME NEW i \in Instruction
  PROVE  /\ Alu(i) /\ Column(i) \in {0, 2} => Width(i) = {1}
         /\ Alu(i) /\ Column(i) \in {1, 3} => Width(i) = {OperandSize(i)}
<1>1. PICK n \in Nat : n = i.op
  BY DEF Instruction
<1>2. /\ n % 8 \in {0, 2} => n % 2 = 0
      /\ n % 8 \in {1, 3} => n % 2 # 0
  OBVIOUS
<1>3. n < \h40 => n \notin {\h80, \h82, \hC1, \h8C, 256 + \hB7, \h69, \h6B, \h83, \hFF, \h62}
                          \cup Ext({\hA4, \hAC, \h0D} \cup {\hB6, \hBE} \cup \h90 .. \h9F)
  BY DEF Ext
<1>4. Alu(i) => Width(i) = IF n % 2 = 0 THEN {1} ELSE {OperandSize(i)}
  BY <1>1, <1>3 DEF Alu, Width, Bound, Far, Extra, Ext
<1> QED BY <1>1, <1>2, <1>4 DEF Column

LEMMA Evens ==
  ASSUME NEW i \in Instruction,
         i.op \in {\h80, \h82, \h84, \h86, \h88, \h8A, \hA0, \hA2}
                  \cup {\hC0, \hC6, \hD0, \hD2, \hF6, \hFE}
  PROVE  /\ 1 \in Width(i)
         /\ i.op \in {\h80, \h82} /\ i.extra = 0 => Width(i) = {1, 2}
<1>1. i.op % 2 = 0
  OBVIOUS
<1> QED BY <1>1 DEF Width, Bound, Far, Extra, Ext

LEMMA Odds ==
  ASSUME NEW i \in Instruction,
         i.op \in {\h81, \h85, \h87, \h89, \h8B, \h8F, \hA1, \hA3, \hC1, \hC7, \hD1, \hD3}
                  \cup {\hF7, \hFF, 256 + \hA3, 256 + \hA5, 256 + \hAB, 256 + \hAD}
  PROVE  (IF Far(i) THEN AddressSize(i) ELSE IF Extra(i, \hC1, {7}) THEN 1 ELSE OperandSize(i))
           \in Width(i)
<1>1. i.op % 2 = 1
  OBVIOUS
<1> QED BY <1>1 DEF Width, Bound, Far, Extra, Ext

LEMMA Others ==
  ASSUME NEW i \in Instruction
  PROVE  /\ i.op \in {256 + \hB6, 256 + \hBE} \cup Ext(\h90 .. \h9F) => Width(i) = {1}
         /\ i.op \in {\h69, \h6B, \h83, 256 + \hA4, 256 + \hAC, 256 + \h0D} =>
              Width(i) = {OperandSize(i)}
         /\ i.op \in {\h8C, 256 + \hB7} => Width(i) = {2}
         /\ i.op = \h62 => Width(i) = {AddressSize(i)}
BY DEF Width, Bound, Far, Extra, Ext

LEMMA ReadsWidth ==
  ASSUME NEW i \in Instruction, ReadSize(i) # 0
  PROVE  ReadSize(i) \in Width(i)
<1>1. CASE Alu(i)
  BY <1>1, Parity DEF ReadSize, Alu, Extra, Bound, Far, ByteReads, WordReads, Ext
<1>2. CASE i.op \in {\h84, \h86, \h8A, \hA0, \hC0, \hD0, \hD2, \hF6, \hFE}
  <2>1. ReadSize(i) = 1
    BY <1>2 DEF ReadSize, ByteReads
  <2> QED BY <1>2, <2>1, Evens
<1>3. CASE i.op \in {256 + \hB6, 256 + \hBE}
  BY <1>3, Others DEF ReadSize, ByteReads, Ext
<1>4. CASE i.op \in {\h81, \h85, \h87, \h8B, \hA1, \hC1, \hD1, \hD3, \hF7, \hFF}
                    \cup {256 + \hA3, 256 + \hA5, 256 + \hAB, 256 + \hAD}
  <2>1. ReadSize(i) = IF Far(i) THEN AddressSize(i) ELSE IF Extra(i, \hC1, {7}) THEN 1
                      ELSE OperandSize(i)
    BY <1>4 DEF ReadSize, WordReads, ByteReads, Alu, Extra, Bound, Far, Ext
  <2> QED BY <1>4, <2>1, Odds
<1>5. CASE i.op \in {\h69, \h6B, \h83, 256 + \hA4, 256 + \hAC, 256 + \h0D}
  <2>1. ReadSize(i) = OperandSize(i)
    BY <1>5 DEF ReadSize, WordReads, ByteReads, Alu, Extra, Bound, Far, Ext
  <2> QED BY <1>5, <2>1, Others
<1>6. CASE i.op \in {\h80, \h82}
  <2>1. ReadSize(i) \in {1, 2} /\ (i.extra # 0 => ReadSize(i) = 1)
    BY <1>6 DEF ReadSize, ByteReads, Alu, Extra, Ext
  <2> QED BY <1>6, <2>1, Evens
<1>7. CASE i.op \in {256 + \hB7, \h62}
  BY <1>7, Others DEF ReadSize, ByteReads, WordReads, Alu, Extra, Bound, Far, Ext
<1>8. i.op \in WordReads => i.op \in {\h81, \h85, \h87, \h8B, \hA1, \hC1, \hD1, \hD3, \hF7, \hFF}
                    \cup {256 + \hA3, 256 + \hA5, 256 + \hAB, 256 + \hAD}
                    \cup {\h69, \h6B, \h83, 256 + \hA4, 256 + \hAC, 256 + \h0D}
  BY DEF WordReads, Ext
<1>9. i.op \in ByteReads => i.op \in {\h84, \h86, \h8A, \hA0, \hC0, \hD0, \hD2, \hF6, \hFE}
                                     \cup {256 + \hB6, 256 + \hBE}
  BY DEF ByteReads, Ext
<1> QED
  BY <1>1, <1>2, <1>3, <1>4, <1>5, <1>6, <1>7, <1>8, <1>9 DEF ReadSize, Extra, Bound, Far

LEMMA WritesWidth ==
  ASSUME NEW i \in Instruction, WriteSize(i) # 0
  PROVE  WriteSize(i) \in Width(i)
<1>1. CASE Alu(i)
  BY <1>1, Parity DEF WriteSize, Alu, Extra, Compares, ByteWrites, WordWrites, Ext
<1>2. CASE i.op \in {\h86, \h88, \hA2, \hC0, \hC6, \hD0, \hD2, \hFE, \h80, \h82, \hF6}
  <2>1. WriteSize(i) = 1
    BY <1>2 DEF WriteSize, ByteWrites, WordWrites, Alu, Extra, Ext
  <2> QED BY <1>2, <2>1, Evens
<1>3. CASE i.op \in Ext(\h90 .. \h9F)
  <2>1. WriteSize(i) = 1
    BY <1>3 DEF WriteSize, ByteWrites, Alu, Extra, Compares, Ext
  <2> QED BY <1>3, <2>1, Others
<1>4. CASE i.op \in {\h81, \h87, \h89, \h8F, \hA3, \hC1, \hC7, \hD1, \hD3, \hF7, \hFF}
                    \cup {256 + \hA5, 256 + \hAB, 256 + \hAD}
  <2>1. WriteSize(i) = IF Extra(i, \hC1, {7}) THEN 1 ELSE OperandSize(i)
    BY <1>4 DEF WriteSize, ByteWrites, WordWrites, Alu, Extra, Ext
  <2>2. ~ Far(i)
    BY <1>4 DEF WriteSize, ByteWrites, WordWrites, Alu, Extra, Ext, Far, Compares
  <2> QED BY <1>4, <2>1, <2>2, Odds
<1>5. CASE i.op \in {\h83, 256 + \hA4, 256 + \hAC}
  <2>1. WriteSize(i) = OperandSize(i)
    BY <1>5 DEF WriteSize, ByteWrites, WordWrites, Alu, Extra, Ext
  <2> QED BY <1>5, <2>1, Others
<1>6. CASE i.op = \h8C
  <2>1. WriteSize(i) = 2
    BY <1>6 DEF WriteSize, ByteWrites, WordWrites, Alu, Extra, Ext, Compares
  <2> QED BY <1>6, <2>1, Others
<1>7. i.op \in WordWrites => i.op \in {\h81, \h87, \h89, \h8F, \hA3, \hC1, \hC7, \hD1, \hD3}
                    \cup {256 + \hA5, 256 + \hAB, 256 + \hAD, \h83, 256 + \hA4, 256 + \hAC}
  BY DEF WordWrites, Ext
<1>8. i.op \in ByteWrites => i.op \in {\h86, \h88, \hA2, \hC0, \hC6, \hD0, \hD2, \hFE, \h80, \h82}
                                     \cup Ext(\h90 .. \h9F)
  BY DEF ByteWrites
<1> QED BY <1>1, <1>2, <1>3, <1>4, <1>5, <1>6, <1>7, <1>8 DEF WriteSize, Extra

\* An address is changed by registers only that are in it.
LEMMA SameAddress ==
  ASSUME NEW i \in Instruction, NEW rs \in [0 .. 7 -> Dword], NEW rs0 \in [0 .. 7 -> Dword],
         \A r \in 0 .. 7 : rs[r] = rs0[r] \/ Weight(i)[r] = 0
  PROVE  Address(i, rs) = Address(i, rs0)
<1>1. \A r \in 0 .. 7 : Weight(i)[r] * rs[r] = Weight(i)[r] * rs0[r]
  <2> SUFFICES ASSUME NEW r \in 0 .. 7
               PROVE  Weight(i)[r] * rs[r] = Weight(i)[r] * rs0[r]
    OBVIOUS
  <2>1. PICK a \in Int, b \in Int : a = rs[r] /\ b = rs0[r]
    <3>1. PICK D \in Nat \ {0} : Dword = 0 .. D - 1
      BY Sized
    <3>2. rs[r] \in 0 .. D - 1 /\ rs0[r] \in 0 .. D - 1
      BY <3>1
    <3> QED BY <3>2
  <2> QED BY <2>1
<1> QED BY <1>1 DEF Address

\* The register an address starts from, the one that is scaled, and its scale.
None == 8
BaseOf(i) ==
  IF i.addr16
  THEN IF i.rm \in {0, 1, 7} THEN BX
       ELSE IF i.rm \in {2, 3} \/ (i.rm = 6 /\ i.mod # 0) THEN BP ELSE None
  ELSE IF i.rm = 4 THEN IF i.base = 5 /\ i.mod = 0 THEN None ELSE i.base
  ELSE IF i.rm = 5 /\ i.mod = 0 THEN None ELSE i.rm
IndexOf(i) ==
  IF i.addr16
  THEN IF i.rm > 5 THEN None ELSE IF i.rm \in {0, 2, 4} THEN SI ELSE DI
  ELSE IF i.rm = 4 /\ i.index # 4 THEN i.index ELSE None
ScaleOf(i) == IF i.addr16 THEN 1 ELSE <<1, 2, 4, 8>>[i.ss + 1]

Part(rs, n) == IF n = None THEN 0 ELSE rs[n]

LEMMA Parts ==
  ASSUME NEW i \in Instruction
  PROVE  BaseOf(i) \in 0 .. 8 /\ IndexOf(i) \in 0 .. 8 /\ ScaleOf(i) \in {1, 2, 4, 8}
<1>1. ScaleOf(i) \in {1, 2, 4, 8}
  <2>1. i.ss + 1 \in {1, 2, 3, 4}
    BY DEF Instruction
  <2> QED BY <2>1 DEF ScaleOf
<1> QED BY <1>1 DEF BaseOf, IndexOf, Instruction, None, BX, BP, SI, DI

LEMMA WeightIs ==
  ASSUME NEW i \in Instruction, InMemory(i), NEW r \in 0 .. 7
  PROVE  Weight(i)[r] = (IF r = BaseOf(i) THEN 1 ELSE 0)
                        + ScaleOf(i) * (IF r = IndexOf(i) THEN 1 ELSE 0)
BY DEF Weight, BaseOf, IndexOf, ScaleOf, Instruction, None, BX, BP, SI, DI

\* How much one register adds to an address.
LEMMA Adds ==
  ASSUME NEW o \in {0, 1}, NEW x \in {0, 1}, NEW s \in {1, 2, 4, 8}, NEW v \in Int
  PROVE  (o + s * x) * v = (IF o = 1 THEN v ELSE 0) + s * (IF x = 1 THEN v ELSE 0)
BY o \in {0, 1}, x \in {0, 1}, s \in {1, 2, 4, 8}

\* The sum of one register, and of one that is scaled.
LEMMA Sums ==
  ASSUME NEW rs, \A r \in 0 .. 7 : rs[r] \in Int, NEW b \in 0 .. 8, NEW x \in 0 .. 8,
         NEW s \in {1, 2, 4, 8},
         NEW w, \A r \in 0 .. 7 : w[r] = (IF r = b THEN 1 ELSE 0) + s * (IF r = x THEN 1 ELSE 0)
  PROVE  w[0] * rs[0] + w[1] * rs[1] + w[2] * rs[2] + w[3] * rs[3]
         + w[4] * rs[4] + w[5] * rs[5] + w[6] * rs[6] + w[7] * rs[7] = Part(rs, b) + s * Part(rs, x)
<1>1. ASSUME NEW r \in 0 .. 7
      PROVE  w[r] * rs[r] = (IF r = b THEN rs[r] ELSE 0) + s * (IF r = x THEN rs[r] ELSE 0)
  <2>1. PICK o \in {0, 1}, y \in {0, 1} : /\ o = IF r = b THEN 1 ELSE 0
                                         /\ y = IF r = x THEN 1 ELSE 0
    OBVIOUS
  <2>2. PICK v \in Int : v = rs[r]
    OBVIOUS
  <2>3. w[r] = o + s * y
    BY <2>1
  <2>4. (o + s * y) * v = (IF o = 1 THEN v ELSE 0) + s * (IF y = 1 THEN v ELSE 0)
    BY Adds
  <2> QED BY <2>1, <2>2, <2>3, <2>4
<1>2. PICK v0 \in Int, v1 \in Int, v2 \in Int, v3 \in Int, v4 \in Int, v5 \in Int, v6 \in Int,
           v7 \in Int :
        /\ v0 = rs[0] /\ v1 = rs[1] /\ v2 = rs[2] /\ v3 = rs[3]
        /\ v4 = rs[4] /\ v5 = rs[5] /\ v6 = rs[6] /\ v7 = rs[7]
  BY 0 \in 0 .. 7, 1 \in 0 .. 7, 2 \in 0 .. 7, 3 \in 0 .. 7, 4 \in 0 .. 7, 5 \in 0 .. 7,
     6 \in 0 .. 7, 7 \in 0 .. 7
<1> DEFINE At(n, v, k) == IF k = n THEN v ELSE 0
           All(n) == At(n, v0, 0) + At(n, v1, 1) + At(n, v2, 2) + At(n, v3, 3)
                     + At(n, v4, 4) + At(n, v5, 5) + At(n, v6, 6) + At(n, v7, 7)
<1>3. \A n \in 0 .. 8 : Part(rs, n) = All(n)
  BY <1>2 DEF Part, None
<1>4. /\ w[0] * rs[0] = At(b, v0, 0) + s * At(x, v0, 0)
      /\ w[1] * rs[1] = At(b, v1, 1) + s * At(x, v1, 1)
      /\ w[2] * rs[2] = At(b, v2, 2) + s * At(x, v2, 2)
      /\ w[3] * rs[3] = At(b, v3, 3) + s * At(x, v3, 3)
      /\ w[4] * rs[4] = At(b, v4, 4) + s * At(x, v4, 4)
      /\ w[5] * rs[5] = At(b, v5, 5) + s * At(x, v5, 5)
      /\ w[6] * rs[6] = At(b, v6, 6) + s * At(x, v6, 6)
      /\ w[7] * rs[7] = At(b, v7, 7) + s * At(x, v7, 7)
  BY <1>1, <1>2
<1>5. All(b) + s * All(x) =
          (At(b, v0, 0) + s * At(x, v0, 0)) + (At(b, v1, 1) + s * At(x, v1, 1))
        + (At(b, v2, 2) + s * At(x, v2, 2)) + (At(b, v3, 3) + s * At(x, v3, 3))
        + (At(b, v4, 4) + s * At(x, v4, 4)) + (At(b, v5, 5) + s * At(x, v5, 5))
        + (At(b, v6, 6) + s * At(x, v6, 6)) + (At(b, v7, 7) + s * At(x, v7, 7))
  BY s \in {1, 2, 4, 8}
<1>6. PICK t0 \in Int, t1 \in Int, t2 \in Int, t3 \in Int, t4 \in Int, t5 \in Int, t6 \in Int,
           t7 \in Int :
        /\ t0 = At(b, v0, 0) + s * At(x, v0, 0) /\ t1 = At(b, v1, 1) + s * At(x, v1, 1)
        /\ t2 = At(b, v2, 2) + s * At(x, v2, 2) /\ t3 = At(b, v3, 3) + s * At(x, v3, 3)
        /\ t4 = At(b, v4, 4) + s * At(x, v4, 4) /\ t5 = At(b, v5, 5) + s * At(x, v5, 5)
        /\ t6 = At(b, v6, 6) + s * At(x, v6, 6) /\ t7 = At(b, v7, 7) + s * At(x, v7, 7)
  BY s \in {1, 2, 4, 8}
<1> HIDE DEF At, All
<1>7. All(b) + s * All(x) = t0 + t1 + t2 + t3 + t4 + t5 + t6 + t7
  BY <1>5, <1>6
<1> QED BY <1>3, <1>4, <1>6, <1>7

LEMMA Remainder ==
  ASSUME NEW d \in Nat \ {0}, NEW x \in Int
  PROVE  /\ x % d \in 0 .. d - 1 /\ x \div d \in Int
         /\ x = d * (x \div d) + (x % d)
OBVIOUS

\* The remainder is the only one.
LEMMA Unique ==
  ASSUME NEW d \in Nat \ {0}, NEW q \in Int, NEW r \in 0 .. d - 1
  PROVE  (d * q + r) % d = r
<1>1. PICK x \in Int : x = d * q + r
  OBVIOUS
<1>2. PICK p \in Int : p = x \div d
  OBVIOUS
<1>3. PICK s \in 0 .. d - 1 : s = x % d
  BY Remainder
<1>4. x = d * p + s
  BY <1>2, <1>3, Remainder
<1>5. d * (p - q) = r - s
  BY <1>1, <1>4
<1>6. PICK k \in Int : k = p - q
  OBVIOUS
<1>7. k >= 1 => d * k >= d
  OBVIOUS
<1>8. k <= -1 => d * k <= - d
  OBVIOUS
<1>9. k = 0
  BY <1>5, <1>6, <1>7, <1>8
<1>10. p = q
  BY <1>6, <1>9
<1>11. s = r
  BY <1>1, <1>4, <1>10
<1> QED
  BY <1>1, <1>3, <1>11

\* A remainder may be taken before an addition.
LEMMA TakenBefore ==
  ASSUME NEW d \in Nat \ {0}, NEW x \in Int, NEW y \in Int
  PROVE  ((x % d) + y) % d = (x + y) % d
<1>1. PICK q \in Int : q = x \div d
  OBVIOUS
<1>2. PICK r \in 0 .. d - 1 : r = x % d
  BY Remainder
<1>3. x = d * q + r
  BY <1>1, <1>2, Remainder
<1>4. PICK z \in Int : z = r + y
  OBVIOUS
<1>5. PICK p \in Int : p = z \div d
  OBVIOUS
<1>6. PICK s \in 0 .. d - 1 : s = z % d
  BY Remainder
<1>7. z = d * p + s
  BY <1>5, <1>6, Remainder
<1>8. PICK t \in Int : t = q + p
  OBVIOUS
<1>9. x + y = d * t + s
  BY <1>3, <1>4, <1>7, <1>8
<1>10. (x + y) % d = s
  BY <1>9, Unique
<1> QED
  BY <1>2, <1>4, <1>6, <1>10

\* What the registers of the address add up to.
Sum(i, rs) == Part(rs, BaseOf(i)) + ScaleOf(i) * Part(rs, IndexOf(i))

LEMMA SumIs ==
  ASSUME NEW i \in Instruction, NEW rs \in [0 .. 7 -> Dword]
  PROVE  /\ Sum(i, rs) \in Int
         /\ InMemory(i) =>
              Address(i, rs)
                = (Sum(i, rs) + (IF DispSize(i) = 0 THEN 0
                                 ELSE IF DispSize(i) = 1 THEN SignExtend(i.disp % ByteMod)
                                 ELSE i.disp)) % (IF i.addr16 THEN Half ELSE Dwords)
<1>1. \A r \in 0 .. 7 : rs[r] \in Int
  <2>1. PICK D \in Nat \ {0} : Dword = 0 .. D - 1
    BY Sized
  <2> QED BY <2>1
<1>2. Sum(i, rs) \in Int
  <2>1. Part(rs, BaseOf(i)) \in Int /\ Part(rs, IndexOf(i)) \in Int
    BY <1>1, Parts DEF Part, None
  <2> QED BY <2>1, Parts DEF Sum
<1>3. ASSUME InMemory(i)
      PROVE  Address(i, rs)
                = (Sum(i, rs) + (IF DispSize(i) = 0 THEN 0
                                 ELSE IF DispSize(i) = 1 THEN SignExtend(i.disp % ByteMod)
                                 ELSE i.disp)) % (IF i.addr16 THEN Half ELSE Dwords)
  <2> DEFINE w == Weight(i)
  <2>1. \A r \in 0 .. 7 : w[r] = (IF r = BaseOf(i) THEN 1 ELSE 0)
                                 + ScaleOf(i) * (IF r = IndexOf(i) THEN 1 ELSE 0)
    BY <1>3, WeightIs
  <2> HIDE DEF w
  <2>2. w[0] * rs[0] + w[1] * rs[1] + w[2] * rs[2] + w[3] * rs[3]
        + w[4] * rs[4] + w[5] * rs[5] + w[6] * rs[6] + w[7] * rs[7] = Sum(i, rs)
    BY <1>1, <2>1, Parts, Sums DEF Sum
  <2>3. ~ Moffs(i)
    BY <1>3 DEF InMemory, HasModRM, Moffs, Alu, WithModRM, Ext
  <2> QED BY <2>2, <2>3 DEF Address, w
<1> QED BY <1>2, <1>3

\* The place that the accessors of ModRM find is the address of the operand.
LEMMA PlaceIs ==
  ASSUME NEW i \in Instruction, Looks(i), NEW rs \in [0 .. 7 -> Dword]
  PROVE  Place(i, rs) = Address(i, rs)
<1>1. PICK H \in Nat \ {0}, D \in Nat \ {0} : H = Half /\ D = Dwords
  BY Sized
<1>2. PICK d \in 0 .. D - 1 : d = i.disp
  BY <1>1, Sized DEF Instruction
<1>3. CASE Moffs(i)
  <2>1. ~ InMemory(i)
    BY <1>3 DEF InMemory, HasModRM, Moffs, Alu, WithModRM, Ext
  <2>2. \A r \in 0 .. 7 : Weight(i)[r] = 0
    BY <2>1 DEF Weight
  <2>3. \A r \in 0 .. 7 : Weight(i)[r] * rs[r] = 0
    <3>1. \A r \in 0 .. 7 : rs[r] \in 0 .. D - 1
      BY <1>1, Sized
    <3> QED BY <2>2, <3>1
  <2>4. Address(i, rs) = (0 + d) % (IF i.addr16 THEN H ELSE D)
    BY <1>1, <1>2, <1>3, <2>3 DEF Address
  <2> QED BY <1>1, <1>2, <1>3, <2>4 DEF Place
<1>4. CASE InMemory(i)
  <2>1. ~ Moffs(i) /\ i.mod \in {0, 1, 2}
    BY <1>4 DEF InMemory, HasModRM, Moffs, Alu, WithModRM, Ext, Instruction
  <2>2. PICK s \in Int : s = Sum(i, rs)
    BY SumIs
  <2>3. PICK e \in Int : e = SignExtend(i.disp % ByteMod)
    <3>1. PICK B \in Nat \ {0} : B = ByteMod
      BY DecoderAssumption
    <3> QED BY <1>2, <3>1 DEF SignExtend
  <2>4. \A r \in 0 .. 7 : rs[r] \in Int
    <3>1. \A r \in 0 .. 7 : rs[r] \in 0 .. D - 1
      BY <1>1, Sized
    <3> QED BY <3>1
  <2>5. CASE i.addr16
    <3>1. i.mod = 0 /\ i.rm = 6 => s = 0
      BY <2>2, <2>5 DEF Sum, BaseOf, IndexOf, ScaleOf, Part, None
    <3>2. ~ (i.mod = 0 /\ i.rm = 6) => GetRegD(i, rs) = s
      BY <2>2, <2>4, <2>5
         DEF Sum, BaseOf, IndexOf, ScaleOf, Part, None, GetRegD, BX, BP, SI, DI, Instruction
    <3>3. Address(i, rs) = (s + (IF DispSize(i) = 0 THEN 0 ELSE IF DispSize(i) = 1 THEN e ELSE d)) % H
      BY <1>1, <1>2, <1>4, <2>2, <2>3, <2>5, SumIs
    <3>4. Place(i, rs) = GetDisp(i, rs)
      BY <2>1, <2>5 DEF Place
    <3>5. CASE i.mod = 0
      <4>1. DispSize(i) = IF i.rm = 6 THEN 2 ELSE 0
        BY <2>5, <3>5 DEF DispSize, AddressSize
      <4>2. GetDisp(i, rs) = (IF i.rm = 6 THEN d ELSE s) % H
        BY <1>1, <1>2, <3>2, <3>5 DEF GetDisp
      <4> QED BY <3>1, <3>3, <3>4, <3>5, <4>1, <4>2
    <3>6. CASE i.mod = 1
      BY <1>1, <2>3, <3>2, <3>3, <3>4, <3>6 DEF GetDisp, DispSize
    <3>7. CASE i.mod = 2
      <4>1. DispSize(i) = 2
        BY <2>5, <3>7 DEF DispSize, AddressSize
      <4>2. GetDisp(i, rs) = (s + (d % H)) % H
        BY <1>1, <1>2, <3>2, <3>7 DEF GetDisp
      <4>3. ((d % H) + s) % H = (d + s) % H
        <5>1. d \in Int /\ H \in Nat \ {0}
          OBVIOUS
        <5> QED BY <5>1, TakenBefore
      <4>4. PICK r \in Int : r = d % H
        OBVIOUS
      <4>5. s + r = r + s /\ s + d = d + s
        OBVIOUS
      <4> QED BY <3>3, <3>4, <4>1, <4>2, <4>3, <4>4, <4>5
    <3> QED BY <2>1, <3>5, <3>6, <3>7
  <2>6. CASE ~ i.addr16
    <3>1. (IF i.rm = 4 THEN GetSIBDisp(i, rs) ELSE GetRegD32(i, rs)) = s
      <4>1. CASE i.rm = 4
        <5>1. PICK b \in Int : b = IF i.base = 5 /\ i.mod = 0 THEN 0 ELSE rs[i.base]
          BY <2>4 DEF Instruction
        <5>2. PICK x \in Int : x = IF i.index = 4 THEN 0 ELSE rs[i.index]
          BY <2>4 DEF Instruction
        <5>3. PICK k \in {1, 2, 4, 8} : /\ k = <<1, 2, 4, 8>>[i.ss + 1]
                                        /\ k = CASE i.ss = 0 -> 1 [] i.ss = 1 -> 2
                                                 [] i.ss = 2 -> 4 [] i.ss = 3 -> 8
          <6>1. i.ss \in {0, 1, 2, 3}
            BY DEF Instruction
          <6> QED BY <6>1
        <5>4. GetSIBDisp(i, rs) = k * x + b
          BY <5>1, <5>2, <5>3 DEF GetSIBDisp
        <5>5. s = b + k * x
          BY <2>2, <2>6, <4>1, <5>1, <5>2, <5>3
             DEF Sum, BaseOf, IndexOf, ScaleOf, Part, None, Instruction
        <5> QED BY <4>1, <5>4, <5>5
      <4>2. CASE i.rm # 4
        BY <2>2, <2>4, <2>6, <4>2, Parts
           DEF Sum, BaseOf, IndexOf, Part, None, GetRegD32, Instruction
      <4> QED BY <4>1, <4>2
    <3>2. Address(i, rs) = (s + (IF DispSize(i) = 0 THEN 0 ELSE IF DispSize(i) = 1 THEN e ELSE d)) % D
      BY <1>1, <1>2, <1>4, <2>2, <2>3, <2>6, SumIs
    <3>3. Place(i, rs) = GetDisp32(i, rs)
      BY <2>1, <2>6 DEF Place
    <3>4. CASE i.mod = 0
      <4>1. DispSize(i) = IF i.rm = 5 THEN 4 ELSE 0
        BY <2>6, <3>4 DEF DispSize, AddressSize
      <4>2. i.rm = 5 => s = 0
        BY <2>2, <2>6, <3>4, Parts DEF Sum, BaseOf, IndexOf, Part, None
      <4>3. GetDisp32(i, rs) = IF i.rm = 5 THEN d ELSE s % D
        BY <1>1, <1>2, <3>1, <3>4 DEF GetDisp32
      <4>4. d % D = d
        OBVIOUS
      <4> QED BY <3>2, <3>3, <3>4, <4>1, <4>2, <4>3, <4>4
    <3>5. CASE i.mod = 1
      BY <1>1, <2>3, <3>1, <3>2, <3>3, <3>5 DEF GetDisp32, DispSize
    <3>6. CASE i.mod = 2
      <4>1. DispSize(i) = 4
        BY <2>6, <3>6 DEF DispSize, AddressSize
      <4> QED BY <1>1, <1>2, <3>1, <3>2, <3>3, <3>6, <4>1 DEF GetDisp32
    <3> QED BY <2>1, <3>4, <3>5, <3>6
  <2> QED BY <2>5, <2>6
<1> QED BY <1>3, <1>4 DEF Looks

-----------------------------------------------------------------------------
(* The invariant for it.                                                   *)

\* Before the operand is read, only POP and CALL have changed a register.
Fresh(p, i, rs, rs0) == Runs(p) /\ p <= Reads /\ ~ Pops(i) /\ ~ Calls(i) => rs = rs0

\* What OperandPlace says of places found so far.
Found(i, rs0, ps) ==
  \A p \in ps :
    /\ p.size \in Width(i)
    /\ (\A r \in Displaces(i) : Weight(i)[r] = 0) =>
         \/ p.at = Address(i, rs0)
         \/ Bound(i) /\ p.at = (Address(i, rs0) + AddressSize(i)) % Dwords

PlaceInv == IInv /\ Fresh(pc, ins, reg, before) /\ Found(ins, before, places)

\* When a handler looks for its operand, only what Displaces tells has been changed.
LEMMA Steady ==
  ASSUME PlaceInv, pc \in {Reads, Again, Writes}, Looks(ins), ~ Far(ins) \/ pc = Reads
  PROVE  /\ ins \in Instruction
         /\ reg \in [0 .. 7 -> Dword] /\ before \in [0 .. 7 -> Dword]
         /\ \A r \in 0 .. 7 : r \notin Displaces(ins) => reg[r] = before[r]
<1>1. /\ pc \in Constructs .. Sends /\ Runs(pc) /\ IInv
  BY DEF PlaceInv, Reads, Again, Writes, Constructs, Sends, Runs, Finishes
<1>2. /\ ins \in Instruction /\ reg \in [0 .. 7 -> Dword] /\ before \in [0 .. 7 -> Dword]
      /\ \A r \in 0 .. 7 : r \notin Torn(ins) => reg[r] = before[r]
      /\ Needs(ins, pc) /\ (pc > Reads => ~ Undefined(ins))
  BY <1>1, Keeps DEF IInv, TypeOK
<1>3. CASE pc = Reads
  <2>1. ~ Pops(ins) /\ ~ Calls(ins) => reg = before
    BY <1>1, <1>3 DEF PlaceInv, Fresh
  <2>2. Pops(ins) \/ Calls(ins) => Torn(ins) = {SP} /\ Displaces(ins) = {SP}
    BY TornIs DEF Displaces, Pops, Calls, Extra, Exchanges, Divides
  <2> QED BY <1>2, <1>3, <2>1, <2>2
<1>4. CASE pc = Again
  <2>1. Extra(ins, \hF6, {6}) \/ Extra(ins, \hF7, {6})
    BY <1>2, <1>4, Uses DEF Reads, Again
  <2>2. Torn(ins) = {AX} /\ Displaces(ins) = {AX}
    BY <2>1, TornIs DEF Displaces, Pops, Calls, Extra, Exchanges, Divides
  <2> QED BY <1>2, <1>4, <2>2 DEF Reads, Again
<1>5. CASE pc = Writes
  <2>1. WriteSize(ins) # 0
    BY <1>2, <1>5, Uses
  <2>2. ~ Pushes(ins) /\ ~ Extra(ins, \hF6, {6, 7}) /\ ~ Extra(ins, \hF7, {6, 7})
    BY <1>2, <2>1, WritersKeep
       DEF WriteSize, Extra, ByteWrites, WordWrites, Alu, Compares, Ext
  <2>3. Torn(ins) = Displaces(ins)
    BY <2>2 DEF Torn, Displaces, Pops, Calls, Extra, Exchanges, Divides
  <2> QED BY <1>2, <1>5, <2>3 DEF Reads, Writes
<1> QED BY <1>3, <1>4, <1>5

\* What it finds then is the operand's place.
LEMMA FindsFit ==
  ASSUME PlaceInv, pc \in {Reads, Again, Writes}, Looks(ins), ~ Far(ins) \/ pc = Reads,
         NEW size \in Width(ins), NEW ats,
         \A a \in ats : \/ a = Place(ins, reg)
                        \/ Bound(ins) /\ a = (Place(ins, reg) + AddressSize(ins)) % Dwords
  PROVE  Found(ins, before, places \cup {[at |-> a, size |-> size] : a \in ats})
<1>1. /\ ins \in Instruction /\ reg \in [0 .. 7 -> Dword] /\ before \in [0 .. 7 -> Dword]
      /\ \A r \in 0 .. 7 : r \notin Displaces(ins) => reg[r] = before[r]
  BY Steady
<1>2. Place(ins, reg) = Address(ins, reg)
  BY <1>1, PlaceIs
<1>3. (\A r \in Displaces(ins) : Weight(ins)[r] = 0) => Address(ins, reg) = Address(ins, before)
  BY <1>1, SameAddress
<1> QED BY <1>2, <1>3 DEF PlaceInv, Found

LEMMA FreshStep == PlaceInv /\ Next => Fresh(pc', ins', reg', before')
<1> SUFFICES ASSUME PlaceInv, Next PROVE Fresh(pc', ins', reg', before')
  OBVIOUS
<1>1. IInv /\ Fresh(pc, ins, reg, before) /\ pc \in Idle .. Stopped
  BY DEF PlaceInv, IInv, TypeOK
<1>2. CASE Fetch
  BY <1>2 DEF Fetch, Fresh
<1>3. CASE pc' = Stopped \/ pc' = Idle
  BY <1>3 DEF Fresh, Runs, Stopped, Idle, Constructs, Finishes
<1>4. CASE /\ UNCHANGED <<ins, before>> /\ Goes /\ pc \in Constructs .. Destroys
           /\ pc >= Reads \/ Pops(ins) \/ Calls(ins) \/ UNCHANGED reg
  <2>1. pc \in Idle .. Finishes - 1
    BY <1>4 DEF Constructs, Destroys, Idle, Finishes
  <2>2. pc' \in pc + 1 .. Finishes
    BY <1>4, <2>1, AfterIs DEF Goes
  <2> QED BY <1>1, <1>4, <2>2 DEF Fresh, Runs, Constructs, Destroys, Reads, Finishes
<1>5. CASE UNCHANGED <<ins, before>> /\ (Construct \/ ReadImmediate)
  BY <1>3, <1>4, <1>5 DEF Construct, ReadImmediate, Throws, Constructs, Immediate, Destroys
<1>6. CASE PopFirst \/ PushLink
  BY <1>3, <1>4, <1>6 DEF PopFirst, PushLink, Throws, Constructs, Stack, Destroys
<1>7. CASE ReadOperand \/ UndefinedGroup \/ SetRegister \/ ReadAgain \/ Follow
  BY <1>3, <1>4, <1>7 DEF ReadOperand, UndefinedGroup, SetRegister, ReadAgain, Follow, Throws,
     Constructs, Reads, Sets, Again, Destroys
<1>8. CASE WriteOperand \/ Send \/ SkipImmediate \/ Destroy
  BY <1>3, <1>4, <1>8 DEF WriteOperand, Send, SkipImmediate, Destroy, Throws,
     Constructs, Reads, Writes, Sends, Skips, Destroys
<1>9. CASE Finish
  BY <1>3, <1>9 DEF Finish
<1> QED BY <1>2, <1>5, <1>6, <1>7, <1>8, <1>9 DEF Next, Construct, ReadImmediate

LEMMA FoundStep == PlaceInv /\ Next => Found(ins', before', places')
<1> SUFFICES ASSUME PlaceInv, Next PROVE Found(ins', before', places')
  OBVIOUS
<1>1. /\ IInv /\ Found(ins, before, places) /\ ins \in Instruction
  BY DEF PlaceInv, IInv, TypeOK
<1>2. CASE Fetch
  BY <1>2 DEF Fetch, Found
<1>3. CASE UNCHANGED <<ins, before, places>>
  BY <1>1, <1>3
<1>4. CASE ReadOperand /\ Looks(ins) /\ ~ UNCHANGED places
  <2> DEFINE at == Place(ins, reg)
             ats == IF Bound(ins) THEN {at, (at + AddressSize(ins)) % Dwords}
                    ELSE IF Offset(ins) THEN {} ELSE {at}
  <2>1. /\ pc = Reads /\ ~ Undefined(ins) /\ UNCHANGED <<ins, before>>
        /\ places' = places \cup {[at |-> a, size |-> ReadSize(ins)] : a \in ats}
    BY <1>4 DEF ReadOperand, Finds, Throws
  <2>2. ats = {} \/ ReadSize(ins) \in Width(ins)
    <3>1. ReadSize(ins) # 0 \/ Offset(ins)
      <4>1. Runs(pc)
        BY <2>1 DEF Runs, Reads, Constructs, Finishes
      <4> QED BY <1>1, <2>1, <4>1, Uses DEF IInv, Wanted
    <3>2. Bound(ins) => ReadSize(ins) # 0
      BY DEF Bound, ReadSize, Alu, Extra, ByteReads, Ext, AddressSize
    <3> QED BY <1>1, <3>1, <3>2, ReadsWidth
  <2>3. CASE ats = {}
    <3>1. places' = places
      BY <2>1, <2>3
    <3> QED BY <1>4, <3>1
  <2>4. CASE ReadSize(ins) \in Width(ins)
    <3>1. \A a \in ats : \/ a = Place(ins, reg)
                         \/ Bound(ins) /\ a = (Place(ins, reg) + AddressSize(ins)) % Dwords
      OBVIOUS
    <3> HIDE DEF ats
    <3> QED BY <1>4, <2>1, <2>4, <3>1, FindsFit
  <2> QED BY <2>2, <2>3, <2>4
<1>5. CASE ReadAgain /\ Looks(ins) /\ ~ UNCHANGED places
  <2>1. /\ pc = Again /\ Divides(ins) /\ UNCHANGED <<ins, before>>
        /\ places' = places \cup {[at |-> a, size |-> ReadSize(ins)] : a \in {Place(ins, reg)}}
    BY <1>5 DEF ReadAgain, Finds, Throws
  <2>2. ~ Far(ins)
    BY <2>1 DEF Divides, Far, Extra
  <2>3. ReadSize(ins) # 0
    BY <1>1, <2>1 DEF Divides, ReadSize, Instruction, Alu, ByteReads, WordReads, Extra,
       OperandSize, Bound, Far, Column, AddressSize
  <2> QED BY <1>1, <1>5, <2>1, <2>2, <2>3, ReadsWidth, FindsFit
<1>6. CASE WriteOperand /\ Looks(ins) /\ ~ UNCHANGED places
  <2>1. /\ pc = Writes /\ UNCHANGED <<ins, before>>
        /\ places' = places \cup {[at |-> a, size |-> WriteSize(ins)] : a \in {Place(ins, reg)}}
    BY <1>6 DEF WriteOperand, Finds, Throws
  <2>2. WriteSize(ins) # 0
    <3>1. Runs(pc)
      BY <2>1 DEF Runs, Writes, Constructs, Finishes
    <3> QED BY <1>1, <2>1, <3>1, Uses DEF IInv, Wanted
  <2>3. ~ Far(ins)
    BY <2>2 DEF Far, Extra, WriteSize, Alu, ByteWrites, WordWrites, Ext, Compares
  <2> QED BY <1>1, <1>6, <2>1, <2>2, <2>3, WritesWidth, FindsFit
<1>7. Fetch \/ UNCHANGED <<ins, before>>
  BY DEF Next, Construct, ReadImmediate, PopFirst, PushLink, ReadOperand, UndefinedGroup,
     SetRegister, ReadAgain, Follow, WriteOperand, Send, SkipImmediate, Destroy, Finish
<1>8. \/ Fetch \/ UNCHANGED places
      \/ (ReadOperand \/ ReadAgain \/ WriteOperand) /\ Looks(ins)
  BY DEF Next, Construct, ReadImmediate, PopFirst, PushLink, ReadOperand, UndefinedGroup,
     SetRegister, ReadAgain, Follow, WriteOperand, Send, SkipImmediate, Destroy, Finish, Throws
<1> QED BY <1>2, <1>3, <1>4, <1>5, <1>6, <1>7, <1>8

LEMMA PlaceStep == PlaceInv /\ [Next]_vars => PlaceInv'
<1>1. CASE UNCHANGED vars
  BY <1>1, StepInv DEF vars, PlaceInv, Fresh, Found
<1>2. CASE PlaceInv /\ Next
  BY <1>2, StepInv, FreshStep, FoundStep DEF PlaceInv
<1> QED BY <1>1, <1>2

-----------------------------------------------------------------------------
(* The theorems.                                                           *)

LEMMA Invariant == Spec => []IInv
BY InitInv, StepInv, PTL DEF Spec

\* The registers stay dwords, and eip within the longest instruction.
THEOREM TypeCorrect == Spec => []TypeOK
<1>1. IInv => TypeOK
  BY DEF IInv
<1> QED BY <1>1, Invariant, PTL

\* Whatever the instruction and its operands, eip is behind the bytes that the constructor
\* and the accessors of ModRM and the immediates have taken when the handler is done.
THEOREM LandsOnNext == Spec => []Lands
<1>1. IInv => Lands
  BY DEF IInv
<1> QED BY <1>1, Invariant, PTL

\* Wherever a handler throws, the destructor of ModRM leaves eip in the instruction, and no
\* register is changed but those of Torn.
THEOREM FaultsStayInside == Spec => []FaultsInside
<1>1. IInv => FaultsInside
  BY DEF IInv
<1> QED BY <1>1, Invariant, PTL

\* However often a handler works the address of its operand out, and whatever it has read
\* between, it looks in one place: the one x86 gives it from the registers at the start of
\* the instruction, as long as the operand, unless it has changed a register of the address.
THEOREM OperandsInPlace == Spec => []OperandPlace
<1>1. Init => PlaceInv
  BY InitInv DEF PlaceInv, Init, Fresh, Found, Runs, Idle, Constructs, Finishes
<1>2. PlaceInv => OperandPlace
  BY DEF PlaceInv, Found, OperandPlace
<1> QED BY <1>1, <1>2, PlaceStep, PTL DEF Spec

=============================================================================
