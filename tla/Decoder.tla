------------------------------ MODULE Decoder -------------------------------
(***************************************************************************)
(* Instructions with operands in the code or behind a ModRM byte: class    *)
(* ModRM of vm/modrm.cpp, the groups of vm/ops/groups.cpp, the handlers    *)
(* the opcode tables of vm/x86lib.cpp name for them.                       *)
(*                                                                         *)
(* A handler is a sequence of phases; one that its opcode has no use for   *)
(* is passed over.  Every phase with an access to memory or to a port may  *)
(* fail: the exception unwinds the handler and runs the destructor of its  *)
(* ModRM.  eip is start + off, where the opcode byte is at start.          *)
(*                                                                         *)
(* What stands in the code, what memory holds and what is computed from it *)
(* is any value; exact is where the code is read and operands are looked   *)
(* for, how far eip goes and when which register changes.  Prefixes are    *)
(* the two size flags (ExecLoop has them), jumps and the stack otherwise   *)
(* are Flow's.                                                             *)
(***************************************************************************)
EXTENDS Integers

CONSTANTS
  ByteMod,    \* values of a byte
  Code,       \* the instructions there may be
  Values,     \* what an instruction may compute or read
  Origin,     \* address of the first instruction
  Files,      \* what the registers hold then
  MaxSteps    \* bound: instructions

Half == ByteMod * ByteMod
Dwords == Half * Half
Dword == 0 .. Dwords - 1

\* An instruction behind its prefixes.  op counts from 256 for opcodes behind 0F; disp is
\* the dword where a displacement would be.
Instruction ==
  [op : 0 .. 511, mod : 0 .. 3, extra : 0 .. 7, rm : 0 .. 7,
   ss : 0 .. 3, index : 0 .. 7, base : 0 .. 7, disp : Dword,
   op16 : BOOLEAN, addr16 : BOOLEAN]

VARIABLES
  start, off,   \* address of the opcode, and of eip from there
  ins,          \* the instruction
  pc,           \* the phase its handler comes to
  reg,          \* registers
  steps,        \* instructions so far
  before,       \* history: the registers at its start
  used,         \* history: the bytes of code, from start, that have told something
  places,       \* history: where operands have been looked for, and how long they were
  link          \* history: the address a call has pushed

vars == <<start, off, ins, pc, reg, steps, before, used, places, link>>

\* Register numbers.
AX == 0
DX == 2
BX == 3
SP == 4
BP == 5
SI == 6
DI == 7

\* The phases in their order.
Idle == 0
Constructs == 1   \* the ModRM object
Immediate == 2
Stack == 3        \* what a POP or a CALL does before it looks for its operand
Reads == 4
Sets == 5         \* a register
Again == 6        \* a division reads its operand again for the remainder
Writes == 7
Sends == 8        \* a PUSH or an OUT, when the operand is there
Skips == 9        \* eip goes over the immediate
Destroys == 10
Finishes == 11    \* Cycle goes to the next instruction
Stopped == 12     \* by an exception

OperandSize(i) == IF i.op16 THEN 2 ELSE 4
AddressSize(i) == IF i.addr16 THEN 2 ELSE 4

-----------------------------------------------------------------------------
(* What the opcodes take                                                   *)

Ext(ops) == {256 + o : o \in ops}

\* The arithmetic block: column 0 .. 5 tells the operands, CMP is its last row.
Column(i) == i.op % 8
Alu(i) == i.op < \h40 /\ Column(i) < 6
Compares(i) ==
  \/ Alu(i) /\ i.op >= \h38
  \/ i.op \in \h80 .. \h83 /\ i.extra = 7

Shift(i) == i.op \in {\hC0, \hC1, \hD0, \hD1, \hD2, \hD3}

WithModRM ==
  {\h62, \h69, \h6B, \hC0, \hC1, \hC6, \hC7, \hF6, \hF7, \hFE, \hFF} \cup \h80 .. \h8F
  \cup \hD0 .. \hD3 \cup Ext({\h0D, \hA3, \hA4, \hA5, \hAB, \hAC, \hAD, \hB6, \hB7, \hBE})
  \cup Ext(\h90 .. \h9F)
HasModRM(i) ==
  \/ Alu(i) /\ Column(i) < 4
  \/ i.op \in WithModRM

Extra(i, op, ks) == i.op = op /\ i.extra \in ks

\* The default of a group.
Undefined(i) ==
  \/ Extra(i, \h8F, 1 .. 7) \/ Extra(i, \hF6, {1}) \/ Extra(i, \hF7, {1})
  \/ Extra(i, \hFE, 2 .. 7) \/ Extra(i, \hFF, {7})
  \/ Shift(i) /\ i.extra = 6

Pops(i) == Extra(i, \h8F, {0})
Calls(i) == Extra(i, \hFF, {2, 3})
Jumps(i) == Extra(i, \hFF, 2 .. 5)
Far(i) == Extra(i, \hFF, {3, 5})
Pushes(i) == i.op \in {\h68, \h6A} \/ Extra(i, \hFF, {6})
Exchanges(i) == i.op \in {\h86, \h87}
Divides(i) == i.op \in {\hF6, \hF7} /\ i.extra \in {6, 7}
Bound(i) == i.op = \h62
Offset(i) == i.op \in {\h62, \h8D}
Moffs(i) == i.op \in \hA0 .. \hA3

\* Bytes of the immediate.
WithImm8 ==
  {\h6A, \h6B, \h80, \h82, \h83, \hA8, \hC0, \hC1, \hC6, \hD4, \hD5} \cup \hB0 .. \hB7
  \cup \hE4 .. \hE7 \cup Ext({\hA4, \hAC})
WithImmW == {\h68, \h69, \h81, \hA9, \hC7} \cup \hB8 .. \hBF
ImmSize(i) ==
  CASE i.op \in WithImm8 \/ (Alu(i) /\ Column(i) = 4) \/ Extra(i, \hF6, {0}) -> 1
    [] i.op \in WithImmW \/ (Alu(i) /\ Column(i) = 5) \/ Extra(i, \hF7, {0}) -> OperandSize(i)
    [] Moffs(i) -> AddressSize(i)
    [] OTHER -> 0

\* ImmW and ImmA move eip before they read the immediate.
Ahead(i) ==
  \/ Alu(i) /\ Column(i) = 5
  \/ i.op \in {\h68, \hA9} \/ Moffs(i)

\* How far the handler or its group moves eip then: that of 82 goes by the operand size.
Skip(i) ==
  IF Ahead(i) THEN 0 ELSE IF i.op = \h82 THEN OperandSize(i) ELSE ImmSize(i)

\* Bytes of the operand that is read: ADD of an immediate to a byte reads a word.
ByteReads == {\h84, \h86, \h8A, \hA0, \hC0, \hD0, \hD2, \hF6, \hFE} \cup Ext({\hB6, \hBE})
WordReads ==
  {\h69, \h6B, \h81, \h83, \h85, \h87, \h8B, \hA1, \hC1, \hD1, \hD3, \hF7, \hFF}
  \cup Ext({\h0D, \hA3, \hA4, \hA5, \hAB, \hAC, \hAD})
ReadSize(i) ==
  IF \/ Alu(i) /\ Column(i) \in {0, 2}
     \/ i.op \in {\h80, \h82} /\ i.extra # 0
     \/ i.op \in ByteReads \/ Extra(i, \hC1, {7}) THEN 1
  ELSE IF i.op \in {\h80, \h82, 256 + \hB7} THEN 2
  ELSE IF Bound(i) \/ Far(i) THEN AddressSize(i)
  ELSE IF i.op \in WordReads \/ (Alu(i) /\ Column(i) \in {1, 3}) THEN OperandSize(i)
  ELSE 0

\* Bytes of the operand that is written.
ByteWrites ==
  {\h80, \h82, \h86, \h88, \hA2, \hC0, \hC6, \hD0, \hD2, \hFE} \cup Ext(\h90 .. \h9F)
WordWrites ==
  {\h81, \h83, \h87, \h89, \h8F, \hA3, \hC1, \hC7, \hD1, \hD3}
  \cup Ext({\hA4, \hA5, \hAB, \hAC, \hAD})
WriteSize(i) ==
  IF Compares(i) THEN 0
  ELSE IF \/ Alu(i) /\ Column(i) = 0
          \/ i.op \in ByteWrites \/ Extra(i, \hF6, {2, 3}) \/ Extra(i, \hC1, {7}) THEN 1
  ELSE IF i.op = \h8C THEN 2
  ELSE IF \/ Alu(i) /\ Column(i) = 1
          \/ i.op \in WordWrites \/ Extra(i, \hF7, {2, 3}) \/ Extra(i, \hFF, {0, 1})
  THEN OperandSize(i)
  ELSE 0

ByteRegister(r) == IF r < 4 THEN r ELSE r - 4

\* The registers that are written; a division by DIV writes one more when it reads again.
ToRegister == {\h69, \h6B, \h87, \h8B, \h8D} \cup Ext({\hB6, \hB7, \hBE})
Dest(i) ==
  CASE i.op \in {\h86, \h8A} \/ (Alu(i) /\ Column(i) = 2 /\ ~ Compares(i)) -> {ByteRegister(i.extra)}
    [] i.op \in ToRegister \/ (Alu(i) /\ Column(i) = 3 /\ ~ Compares(i)) -> {i.extra}
    [] \/ Alu(i) /\ Column(i) \in {4, 5} /\ ~ Compares(i)
       \/ i.op \in {\hA0, \hA1, \hD4, \hD5, \hE4, \hE5}
       \/ Extra(i, \hF6, 4 .. 7) \/ Extra(i, \hF7, {6}) -> {AX}
    [] Extra(i, \hF7, {4, 5, 7}) -> {AX, DX}
    [] i.op \in \hB0 .. \hB7 -> {ByteRegister(i.op - \hB0)}
    [] i.op \in \hB8 .. \hBF -> {i.op - \hB8}
    [] OTHER -> {}

\* IN, AAM and the divisions may throw before they change their register.
Traps(i) == Divides(i) \/ i.op \in {\hD4, \hE4, \hE5}

Handled(i) == HasModRM(i) \/ ImmSize(i) # 0

ASSUME DecoderAssumption ==
  /\ ByteMod \in Nat /\ 1 < ByteMod
  /\ Code \subseteq Instruction /\ \A i \in Code : Handled(i)
  /\ Values \subseteq Dword /\ Origin \in Dword /\ Files \subseteq [0 .. 7 -> Dword]
  /\ MaxSteps \in Nat

-----------------------------------------------------------------------------
(* The place of an operand                                                 *)

InMemory(i) == HasModRM(i) /\ i.mod # 3

SignExtend(b) == IF b < ByteMod \div 2 THEN b ELSE b - ByteMod

GetRegD(i, rs) ==
  CASE i.rm = 0 -> rs[BX] + rs[SI]
    [] i.rm = 1 -> rs[BX] + rs[DI]
    [] i.rm = 2 -> rs[BP] + rs[SI]
    [] i.rm = 3 -> rs[BP] + rs[DI]
    [] i.rm = 4 -> rs[SI]
    [] i.rm = 5 -> rs[DI]
    [] i.rm = 6 -> rs[BP]
    [] i.rm = 7 -> rs[BX]

GetDisp(i, rs) ==
  CASE i.mod = 0 /\ i.rm = 6 -> i.disp % Half
    [] i.mod = 0 /\ i.rm # 6 -> GetRegD(i, rs) % Half
    [] i.mod = 1 -> (GetRegD(i, rs) + SignExtend(i.disp % ByteMod)) % Half
    [] i.mod = 2 -> (GetRegD(i, rs) + (i.disp % Half)) % Half

\* Slip: the scale multiplies the sum.
GetSIBDispSum(i, rs) ==
  LET scale == CASE i.ss = 0 -> 1 [] i.ss = 1 -> 2 [] i.ss = 2 -> 4 [] i.ss = 3 -> 8
      index == IF i.index = 4 THEN 0 ELSE rs[i.index]
      base == IF i.base = 5 /\ i.mod = 0 THEN 0 ELSE rs[i.base]
  IN  scale * (index + base)

GetSIBDisp(i, rs) ==
  LET scale == CASE i.ss = 0 -> 1 [] i.ss = 1 -> 2 [] i.ss = 2 -> 4 [] i.ss = 3 -> 8
      index == IF i.index = 4 THEN 0 ELSE rs[i.index]
      base == IF i.base = 5 /\ i.mod = 0 THEN 0 ELSE rs[i.base]
  IN  scale * index + base

GetRegD32(i, rs) == IF i.rm = 4 \/ (i.rm = 5 /\ i.mod = 0) THEN 0 ELSE rs[i.rm]

GetDisp32(i, rs) ==
  LET place == IF i.rm = 4 THEN GetSIBDisp(i, rs) ELSE GetRegD32(i, rs)
  IN  CASE i.mod = 0 /\ i.rm = 5 -> i.disp
        [] i.mod = 0 /\ i.rm # 5 -> place % Dwords
        [] i.mod = 1 -> (place + SignExtend(i.disp % ByteMod)) % Dwords
        [] i.mod = 2 -> (place + i.disp) % Dwords

\* Where the handler looks for the operand, when the registers are rs.
Place(i, rs) ==
  IF Moffs(i) THEN IF i.addr16 THEN i.disp % Half ELSE i.disp
  ELSE IF i.addr16 THEN GetDisp(i, rs) ELSE GetDisp32(i, rs)

HasSIB(i) == ~ i.addr16 /\ i.mod # 3 /\ i.rm = 4

\* Bytes of the displacement that GetDisp and GetDisp32 read.
DispSize(i) ==
  CASE i.mod = 0 -> IF i.rm = (IF i.addr16 THEN 6 ELSE 5) THEN AddressSize(i) ELSE 0
    [] i.mod = 1 -> 1
    [] i.mod = 2 -> AddressSize(i)
    [] OTHER -> 0

\* The bytes they take, where a is the ModRM byte.
Addressing(i, a) ==
  IF ~ InMemory(i) THEN {}
  ELSE IF HasSIB(i) THEN a + 1 .. a + 1 + DispSize(i) ELSE a + 1 .. a + DispSize(i)

\* Slip: no count of the SIB byte.
GetLengthNoSIB(i) ==
  IF i.addr16
  THEN CASE i.mod = 0 -> IF i.rm = 6 THEN 3 ELSE 1
         [] i.mod = 1 -> 2
         [] i.mod = 2 -> 3
         [] i.mod = 3 -> 1
  ELSE CASE i.mod = 0 /\ i.rm = 5 -> 5
         [] i.mod = 3 -> 1
         [] OTHER -> 1 + (CASE i.mod = 0 -> 0 [] i.mod = 1 -> 1 [] i.mod = 2 -> 4)

\* Bytes of the ModRM block: byte, SIB and displacement.
GetLength(i) ==
  IF i.addr16
  THEN CASE i.mod = 0 -> IF i.rm = 6 THEN 3 ELSE 1
         [] i.mod = 1 -> 2
         [] i.mod = 2 -> 3
         [] i.mod = 3 -> 1
  ELSE CASE i.mod = 0 /\ i.rm = 5 -> 5
         [] i.mod = 3 -> 1
         [] OTHER -> (IF i.rm = 4 THEN 2 ELSE 1)
                     + (CASE i.mod = 0 -> 0 [] i.mod = 1 -> 1 [] i.mod = 2 -> 4)

-----------------------------------------------------------------------------
(* The handlers                                                            *)

Looks(i) == InMemory(i) \/ Moffs(i)

\* Whether the handler of i has use for phase p.
Needs(i, p) ==
  \/ p = Constructs /\ HasModRM(i)
  \/ p = Immediate /\ ImmSize(i) # 0 /\ ~ Undefined(i)
  \/ p = Stack /\ (Pops(i) \/ Calls(i))
  \/ p = Reads /\ (ReadSize(i) # 0 \/ Offset(i) \/ Undefined(i))
  \/ p = Sets /\ (Dest(i) # {} \/ Traps(i))
  \/ p = Again /\ (Extra(i, \hF6, {6}) \/ Extra(i, \hF7, {6}) \/ Far(i))
  \/ p = Writes /\ WriteSize(i) # 0
  \/ p = Sends /\ (Pushes(i) \/ i.op \in \hE6 .. \hE7)
  \/ p = Skips /\ Skip(i) # 0
  \/ p = Destroys /\ HasModRM(i) /\ ~ Jumps(i)
  \/ p = Finishes

\* The phase behind p.
After(i, p) ==
  CHOOSE q \in p + 1 .. Finishes : Needs(i, q) /\ \A r \in p + 1 .. q - 1 : ~ Needs(i, r)

Goes == pc' = After(ins, pc)

\* Slip: as if an exception ran the whole of the group and the handler.
ThrowsBehind(from) ==
  /\ pc' = Stopped
  /\ off' = from + ImmSize(ins) + (IF HasModRM(ins) THEN GetLength(ins) ELSE 0)
  /\ UNCHANGED <<used, places, link>>

\* An exception: the destructor of ModRM moves eip, unless the handler jumps.
Throws(from) ==
  /\ pc' = Stopped
  /\ off' = from + (IF HasModRM(ins) /\ ~ Jumps(ins) THEN GetLength(ins) - 1 ELSE 0)
  /\ UNCHANGED <<used, places, link>>

\* Registers rs with the operands' part of r moved by n.
Moved(rs, r, n) ==
  IF ins.op16 THEN [rs EXCEPT ![r] = @ - (@ % Half) + ((@ + n) % Half)]
  ELSE [rs EXCEPT ![r] = (@ + n) % Dwords]

\* The operand is looked for in memory, size bytes long.
Finds(size, ats) ==
  /\ used' = used \cup Addressing(ins, off)
  /\ places' = places \cup {[at |-> a, size |-> size] : a \in ats}

\* Registers ds take values.
Takes(ds) == \E v \in [ds -> Values] : reg' = [r \in 0 .. 7 |-> IF r \in ds THEN v[r] ELSE reg[r]]

NoLink == -1
Nop == [op |-> \h90, mod |-> 3, extra |-> 0, rm |-> 0, ss |-> 0, index |-> 0, base |-> 0,
        disp |-> 0, op16 |-> FALSE, addr16 |-> FALSE]

Init ==
  /\ start = Origin /\ off = 1 /\ ins = Nop /\ pc = Idle
  /\ reg \in Files /\ before = reg
  /\ steps = 0 /\ used = {0} /\ places = {} /\ link = NoLink

\* Where eip is between instructions.
Starts ==
  IF pc = Idle /\ Jumps(ins) THEN {IF ins.op16 THEN v % Half ELSE v : v \in Values}
  ELSE {(start + off) % Dwords}

\* Cycle and op_ext_0F read the opcode.
Fetch ==
  /\ pc \in {Idle, Stopped} /\ steps < MaxSteps /\ steps' = steps + 1
  /\ start' \in Starts /\ before' = reg
  /\ \E i \in Code :
       /\ ins' = i
       /\ \/ off' = (IF i.op < 256 THEN 0 ELSE 1) /\ used' = 0 .. off' /\ pc' = After(i, Idle)
          \/ off' \in 0 .. (IF i.op < 256 THEN 0 ELSE 1) /\ used' = 0 .. off' - 1 /\ pc' = Stopped
  /\ places' = {} /\ link' = NoLink
  /\ UNCHANGED reg

\* The constructor of ModRM reads its byte and the one behind it; there is no destructor
\* to run when it throws.
Construct ==
  /\ pc = Constructs
  /\ off' = off + 1
  /\ \/ Goes /\ used' = used \cup {off + 1}
     \/ pc' = Stopped /\ UNCHANGED used
  /\ UNCHANGED <<start, ins, reg, steps, before, places, link>>

ReadImmediate ==
  LET a == off + IF HasModRM(ins) THEN GetLength(ins) ELSE 1
      on == off + IF Ahead(ins) THEN ImmSize(ins) ELSE 0
  IN  /\ pc = Immediate
      /\ \/ Goes /\ off' = on /\ used' = used \cup a .. a + ImmSize(ins) - 1
            /\ UNCHANGED <<places, link>>
         \/ Throws(on)
      /\ UNCHANGED <<start, ins, reg, steps, before>>

\* POP takes its value off the stack before it looks for the operand.
PopFirst ==
  /\ pc = Stack /\ Pops(ins)
  /\ \/ Goes /\ reg' = Moved(reg, SP, OperandSize(ins)) /\ UNCHANGED <<off, used, places, link>>
     \/ Throws(off) /\ UNCHANGED reg
  /\ UNCHANGED <<start, ins, steps, before>>

\* CALL pushes the address behind it, a far call a segment before.
PushLink ==
  LET size == OperandSize(ins)
      down(n) == Moved(reg, SP, - (n * size))
  IN  /\ pc = Stack /\ Calls(ins)
      /\ \/ /\ Goes /\ reg' = down(IF Far(ins) THEN 2 ELSE 1)
            /\ link' = (start + off + GetLength(ins)) % Dwords
            /\ UNCHANGED <<off, used, places>>
         \/ Throws(off) /\ reg' \in {down(n) : n \in 1 .. IF Far(ins) THEN 2 ELSE 1}
      /\ UNCHANGED <<start, ins, steps, before>>

\* LEA has no access of its own and no use for a register; BOUND reads two operands and
\* may throw for what they are.
ReadOperand ==
  LET at == Place(ins, reg)
      ats == IF Bound(ins) THEN {at, (at + AddressSize(ins)) % Dwords}
             ELSE IF Offset(ins) THEN {} ELSE {at}
  IN  /\ pc = Reads /\ ~ Undefined(ins)
      /\ \/ Goes /\ Looks(ins) /\ Finds(ReadSize(ins), ats) /\ UNCHANGED <<off, link>>
         \/ Goes /\ ~ Looks(ins) /\ ~ Offset(ins) /\ UNCHANGED <<off, used, places, link>>
         \/ (Looks(ins) \/ Offset(ins)) /\ Throws(off)
      /\ UNCHANGED <<start, ins, reg, steps, before>>

\* The default of a group steps back "to get actual opcode".
UndefinedGroup ==
  /\ pc = Reads /\ Undefined(ins)
  /\ Throws(off - 1)
  /\ UNCHANGED <<start, ins, reg, steps, before>>

\* The first results; IDIV of a byte has made AX positive when it finds it too large.
SetRegister ==
  /\ pc = Sets
  /\ \/ Goes /\ Takes(Dest(ins)) /\ UNCHANGED <<off, used, places, link>>
     \/ Traps(ins) /\ Throws(off) /\ UNCHANGED reg
     \/ Extra(ins, \hF6, {7}) /\ Throws(off) /\ Takes({AX})
  /\ UNCHANGED <<start, ins, steps, before>>

\* DIV reads its divisor again when the quotient is in AX.
ReadAgain ==
  /\ pc = Again /\ Divides(ins)
  /\ \/ /\ Goes /\ Takes({IF ins.op = \hF6 THEN AX ELSE DX})
        /\ IF Looks(ins) THEN Finds(ReadSize(ins), {Place(ins, reg)})
           ELSE UNCHANGED <<used, places>>
        /\ UNCHANGED <<off, link>>
     \/ Looks(ins) /\ Throws(off) /\ UNCHANGED reg
  /\ UNCHANGED <<start, ins, steps, before>>

\* A far jump or call follows the address its operand holds, wherever that is.
Follow ==
  /\ pc = Again /\ Far(ins)
  /\ \/ Goes /\ UNCHANGED <<off, used, places, link>>
     \/ Throws(off)
  /\ UNCHANGED <<start, ins, reg, steps, before>>

WriteOperand ==
  /\ pc = Writes
  /\ IF Looks(ins)
     THEN /\ \/ Goes /\ Finds(WriteSize(ins), {Place(ins, reg)}) /\ UNCHANGED <<off, link>>
             \/ Throws(off)
          /\ UNCHANGED reg
     ELSE /\ Goes /\ Takes({IF WriteSize(ins) = 1 THEN ByteRegister(ins.rm) ELSE ins.rm})
          /\ UNCHANGED <<off, used, places, link>>
  /\ UNCHANGED <<start, ins, steps, before>>

\* A PUSH has moved the stack pointer when its write fails.
Send ==
  /\ pc = Sends
  /\ reg' = IF Pushes(ins) THEN Moved(reg, SP, - OperandSize(ins)) ELSE reg
  /\ \/ Goes /\ UNCHANGED <<off, used, places, link>>
     \/ Throws(off)
  /\ UNCHANGED <<start, ins, steps, before>>

SkipImmediate ==
  /\ pc = Skips /\ Goes
  /\ off' = off + Skip(ins)
  /\ UNCHANGED <<start, ins, reg, steps, before, used, places, link>>

\* The destructor: on the last byte of the ModRM block.
Destroy ==
  /\ pc = Destroys /\ Goes
  /\ off' = off + GetLength(ins) - 1
  /\ UNCHANGED <<start, ins, reg, steps, before, used, places, link>>

\* Cycle steps from the last byte to the next instruction.
Finish ==
  /\ pc = Finishes /\ pc' = Idle
  /\ off' = off + 1
  /\ UNCHANGED <<start, ins, reg, steps, before, used, places, link>>

Next ==
  \/ Fetch \/ Construct \/ ReadImmediate \/ PopFirst \/ PushLink \/ ReadOperand \/ UndefinedGroup
  \/ SetRegister \/ ReadAgain \/ Follow \/ WriteOperand \/ Send
  \/ SkipImmediate \/ Destroy \/ Finish

Spec == Init /\ [][Next]_vars

-----------------------------------------------------------------------------
(* Properties                                                              *)

\* The registers hold dwords, eip stays near the instruction, the code read is behind
\* its start.
TypeOK ==
  /\ start \in Dword /\ off \in 0 .. 24 /\ ins \in Instruction /\ pc \in Idle .. Stopped
  /\ reg \in [0 .. 7 -> Dword] /\ before \in [0 .. 7 -> Dword] /\ steps \in 0 .. MaxSteps
  /\ used \subseteq 0 .. 24 /\ link \in Dword \cup {NoLink}

\* When an instruction is done, the bytes that have told it what to do are those from its
\* opcode to the next instruction: GetLength, the accessors and the handlers' skips agree
\* on where the displacement and the immediate are, and a CALL pushes the address behind
\* it.  MOV to a segment register leaves its displacement unread; the group of 82, whose
\* immediate is a byte, goes over one of the operand size.
Lands ==
  pc = Idle =>
    /\ ~ Jumps(ins) /\ ins.op \notin {\h82, \h8E} => used = 0 .. off - 1
    /\ ins.op = \h8E => used \subseteq 0 .. off - 1
    /\ ins.op = \h82 => used = 0 .. off - OperandSize(ins)
    /\ link # NoLink => \E n \in 1 .. 24 : used = 0 .. n - 1 /\ link = (start + n) % Dwords

\* The sum of registers a memory operand is addressed by: how often each is in it.
Weight(i) ==
  LET once(rs) == [r \in 0 .. 7 |-> IF r \in rs THEN 1 ELSE 0]
      base == CASE i.addr16 -> CASE i.rm \in 0 .. 1 -> {BX}
                                 [] i.rm \in 2 .. 3 \/ (i.rm = 6 /\ i.mod # 0) -> {BP}
                                 [] i.rm = 7 -> {BX}
                                 [] OTHER -> {}
                [] ~ i.addr16 /\ i.rm = 4 -> IF i.base = 5 /\ i.mod = 0 THEN {} ELSE {i.base}
                [] OTHER -> IF i.rm = 5 /\ i.mod = 0 THEN {} ELSE {i.rm}
      index == IF i.addr16
               THEN IF i.rm > 5 THEN {} ELSE IF i.rm \in {0, 2, 4} THEN {SI} ELSE {DI}
               ELSE IF i.rm = 4 /\ i.index # 4 THEN {i.index} ELSE {}
      scale == IF i.addr16 THEN 1 ELSE <<1, 2, 4, 8>>[i.ss + 1]
  IN  IF ~ InMemory(i) THEN once({})
      ELSE [r \in 0 .. 7 |-> once(base)[r] + scale * once(index)[r]]

\* The address of x86 for it: the sum and the displacement, cut to the address size.  Only
\* that of a SIB byte without base lacks the displacement of x86.
Address(i, rs) ==
  LET w == Weight(i)
      disp == CASE ~ Moffs(i) /\ DispSize(i) = 0 -> 0
                [] ~ Moffs(i) /\ DispSize(i) = 1 -> SignExtend(i.disp % ByteMod)
                [] OTHER -> i.disp
      sum == w[0] * rs[0] + w[1] * rs[1] + w[2] * rs[2] + w[3] * rs[3]
             + w[4] * rs[4] + w[5] * rs[5] + w[6] * rs[6] + w[7] * rs[7]
  IN  (sum + disp) % (IF i.addr16 THEN Half ELSE Dwords)

\* The registers that an instruction changes between two looks for its operand, or before
\* the first: XCHG its register, DIV the accumulator, POP and CALL the stack pointer.
Displaces(i) ==
  CASE Exchanges(i) -> Dest(i)
    [] Divides(i) /\ i.extra = 6 -> {AX}
    [] Pops(i) \/ Calls(i) -> {SP}
    [] OTHER -> {}

\* Bytes of the operand by the opcode, but for BOUND and a far address.  ADD of a byte reads
\* a word, and SAR by an immediate takes a byte for a word.
Width(i) ==
  CASE Bound(i) \/ Far(i) -> {AddressSize(i)}
    [] i.op \in {\h80, \h82} /\ i.extra = 0 -> {1, 2}
    [] Extra(i, \hC1, {7}) -> {1}
    [] i.op \in {\h8C, 256 + \hB7} -> {2}
    [] i.op \in {\h69, \h6B, \h83} \cup Ext({\hA4, \hAC, \h0D}) -> {OperandSize(i)}
    [] i.op \in Ext({\hB6, \hBE} \cup \h90 .. \h9F) -> {1}
    [] OTHER -> IF i.op % 2 = 0 THEN {1} ELSE {OperandSize(i)}

\* Every look for an operand finds the place x86 gives it from the registers at the start
\* of the instruction, as long as the operand's size, although the handlers work the
\* address out anew each time: unless the instruction changes a register of the address.
OperandPlace ==
  \A p \in places :
    /\ p.size \in Width(ins)
    /\ (\A r \in Displaces(ins) : Weight(ins)[r] = 0) =>
         \/ p.at = Address(ins, before)
         \/ Bound(ins) /\ p.at = (Address(ins, before) + AddressSize(ins)) % Dwords

\* The bytes of an instruction.
Length(i) ==
  LET block == 1 + (IF HasSIB(i) THEN 1 ELSE 0) + DispSize(i)
  IN  (IF i.op < 256 THEN 1 ELSE 2) + (IF HasModRM(i) THEN block ELSE 0) + ImmSize(i)

\* The registers an instruction may leave changed when it throws.
Torn(i) ==
  CASE Pops(i) \/ Calls(i) \/ Pushes(i) -> {SP}
    [] Exchanges(i) -> Dest(i)
    [] Divides(i) -> {AX}
    [] OTHER -> {}

\* An exception leaves eip in the instruction that has thrown it, never behind it, though
\* the destructor of ModRM and the handlers that read ahead have moved it; and it leaves
\* the registers as they were, but for those the stack, XCHG and the divisions have changed.
FaultsInside ==
  pc = Stopped =>
    /\ off \in 0 .. Length(ins) - 1
    /\ \A r \in 0 .. 7 : r \notin Torn(ins) => reg[r] = before[r]

=============================================================================
