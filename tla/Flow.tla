-------------------------------- MODULE Flow --------------------------------
(***************************************************************************)
(* Control flow and the stack: vm/ops/flow.cpp, the stack instructions of  *)
(* vm/ops/store.cpp, Push, Pop and the near jumps of vm/cpu_helpers.cpp.   *)
(*                                                                         *)
(* One instruction is one step; eip is the address of its opcode byte.     *)
(* Which instruction stands there is not fixed, so every program is        *)
(* covered.  size is OperandSize(): 2 behind the prefix 0x66, else 4.  A   *)
(* push or pop of 2 bytes addresses memory by SP alone, one of 4 by ESP.   *)
(*                                                                         *)
(* A handler is a function of the machine it changes: an access that fails *)
(* stops it where it is, with what it has done so far.                     *)
(*                                                                         *)
(* A definition marked "Slip" is a mistake one could make here; the        *)
(* specification does not use it.                                          *)
(***************************************************************************)
EXTENDS Integers, Sequences

CONSTANTS
  ByteMod,    \* values of a byte
  Mapped,     \* addresses that memory is mapped to
  Origin,     \* address of the first instruction
  Registers,  \* what they hold then
  Operands,   \* registers that are pushed, popped and called
  Rels,       \* offsets of relative jumps and calls
  Places,     \* targets of far calls and jumps
  Frees,      \* operands of RET
  Allocs,     \* operands of ENTER: locals and
  Levels,     \*   nesting
  MaxSteps,   \* bound: instructions
  MaxLoose,   \* bound: instructions with an empty stack
  MaxJumps,   \* bound: instructions among which jumps are
  MaxFrames   \* bound: frames

Half == ByteMod * ByteMod
Dwords == Half * Half
Dword == 0 .. Dwords - 1
Sizes == {2, 4}

ASSUME FlowAssumption ==
  /\ ByteMod \in Nat /\ 3 < ByteMod
  /\ Mapped \subseteq Dword /\ Origin \in Dword
  /\ Registers \in [0 .. 7 -> Dword] /\ Operands \subseteq 0 .. 7
  /\ Rels \subseteq Int /\ Places \subseteq Dword
  /\ Frees \subseteq Nat /\ Allocs \subseteq Nat /\ Levels \subseteq 0 .. 31
  /\ MaxSteps \in Nat /\ MaxLoose \in Nat /\ MaxJumps \in Nat /\ MaxFrames \in Nat

VARIABLES
  eip, reg, mem,  \* memory: the bytes written so far
  steps,          \* instructions so far
  frames,         \* history: what pushes have left on the stack
  unwound         \* history: what the last pop took off, and what it had to be

machine == <<eip, reg, mem>>
vars == <<machine, steps, frames, unwound>>

\* Register numbers.
CX == 1
SP == 4
BP == 5

NoPop == [kind |-> "none"]

Init ==
  /\ eip = Origin
  /\ reg = Registers
  /\ mem = << >>
  /\ steps = 0 /\ frames = << >>
  /\ unwound = NoPop

-----------------------------------------------------------------------------
(* Registers, memory, Push and Pop                                         *)

W(size, v) == IF size = 2 THEN v % Half ELSE v % Dwords

Reg(rs, size, r) == W(size, rs[r])

\* Slip: a value is not cut to 16 bits.
SetRegUncut(rs, size, r, v) ==
  [rs EXCEPT ![r] = IF size = 2 THEN @ - (@ % Half) + v ELSE v % Dwords]

SetReg(rs, size, r, v) ==
  [rs EXCEPT ![r] = IF size = 2 THEN @ - (@ % Half) + (v % Half) ELSE v % Dwords]

Bytes(a, size) == {(a + k) % Dwords : k \in 0 .. size - 1}

ByteOf(v, k) == (v \div <<1, ByteMod, Half, ByteMod * Half>>[k + 1]) % ByteMod
At(m, a) == IF a % Dwords \in DOMAIN m THEN m[a % Dwords] ELSE 0

Load(m, a, size) ==
  LET low == At(m, a) + ByteMod * At(m, a + 1)
  IN  IF size = 2 THEN low ELSE low + Half * (At(m, a + 2) + ByteMod * At(m, a + 3))

Store(m, a, size, v) ==
  [x \in DOMAIN m \cup Bytes(a, size) |->
     IF x \in Bytes(a, size) THEN ByteOf(v, (x - a) % Dwords) ELSE m[x]]

\* The machine a handler works on; ok is FALSE behind an exception.
Now == [reg |-> reg, mem |-> mem, ok |-> TRUE]

Set(m, size, r, v) == IF m.ok THEN [m EXCEPT !.reg = SetReg(@, size, r, v)] ELSE m

\* The address of the stack's top.
Top(rs, size) == Reg(rs, size, SP)

\* Slip: the value goes where the stack pointer was.
PushBehind(m, size, v) ==
  LET a == Top(m.reg, size)
      down == SetReg(m.reg, size, SP, m.reg[SP] - size)
  IN  IF ~ m.ok THEN m
      ELSE IF Bytes(a, size) \subseteq Mapped
      THEN [reg |-> down, mem |-> Store(m.mem, a, size, v), ok |-> TRUE]
      ELSE [reg |-> down, mem |-> m.mem, ok |-> FALSE]

\* The stack pointer has moved already when the write fails.
Push(m, size, v) ==
  LET down == SetReg(m.reg, size, SP, m.reg[SP] - size)
      a == Top(down, size)
  IN  IF ~ m.ok THEN m
      ELSE IF Bytes(a, size) \subseteq Mapped
      THEN [reg |-> down, mem |-> Store(m.mem, a, size, v), ok |-> TRUE]
      ELSE [reg |-> down, mem |-> m.mem, ok |-> FALSE]

Popped(m, size) == Load(m.mem, Top(m.reg, size), size)
Pop(m, size) ==
  IF ~ m.ok THEN m
  ELSE IF Bytes(Top(m.reg, size), size) \subseteq Mapped
  THEN [m EXCEPT !.reg = SetReg(@, size, SP, @[SP] + size)]
  ELSE [m EXCEPT !.ok = FALSE]

PopInto(m, size, r) == Set(Pop(m, size), size, r, Popped(m, size))

\* The relative jumps of cpu_helpers.cpp: the target is truncated like an operand.
Near(from, off, size) == W(size, (from + off) % Dwords)

-----------------------------------------------------------------------------
(* History: frames                                                         *)

\* How many bytes the frames have taken off ESP.
Depth == IF frames = << >> THEN 0 ELSE frames[Len(frames)].to

\* What pushing vals leaves on the stack.  esp and after are ESP before and behind it, from
\* and to the depths it lies at, next the address behind a call.
Frame(kind, size, vals, bytes, m, next) ==
  [kind |-> kind, size |-> size, vals |-> vals, esp |-> reg[SP], after |-> m.reg[SP],
   from |-> Depth, to |-> Depth + bytes, next |-> next]

\* Frames are followed as long as they, and all bytes their instruction has pushed, fit in
\* the memory SP can address.
Grow(f, pushed) ==
  /\ Len(frames) < MaxFrames
  /\ frames' = IF f.to <= Half /\ f.from + pushed <= Half THEN Append(frames, f) ELSE << >>
  /\ unwound' = NoPop

\* Neither a push nor a pop that belongs to one.
Forget ==
  frames' = << >> /\ unwound' = NoPop

\* A pop takes off all frames from the k-th on.
Unwind(k, got) ==
  /\ frames' = SubSeq(frames, 1, k - 1)
  /\ unwound' = [kind |-> frames[k].kind, size |-> frames[k].size, want |-> frames[k].vals,
                 got |-> got, esp |-> frames[k].esp, next |-> frames[k].next]

OnTop(kind, size) ==
  /\ frames # << >>
  /\ frames[Len(frames)].kind = kind /\ frames[Len(frames)].size = size

GrowOr(m, f, pushed) == IF m.ok THEN Grow(f, pushed) ELSE Forget
UnwindOr(m, kind, size, got) ==
  IF m.ok /\ OnTop(kind, size) THEN Unwind(Len(frames), got) ELSE Forget

-----------------------------------------------------------------------------
(* The stack                                                               *)

\* The handler has worked on m; next is the address behind it, and stopped the one an
\* exception leaves.
Ends(m, next, stopped) ==
  /\ steps < MaxSteps /\ steps' = steps + 1
  /\ frames # << >> \/ steps < MaxLoose
  /\ reg' = m.reg /\ mem' = m.mem
  /\ eip' = (IF m.ok THEN next ELSE stopped) % Dwords

\* PUSH of a register; that of an immediate value (whose sign is not extended) is longer.
PushReg(size, r) ==
  LET v == Reg(reg, size, r)
      m == Push(Now, size, v)
  IN  Ends(m, eip + 1, eip) /\ GrowOr(m, Frame("data", size, <<v>>, size, m, 0), size)

\* POP to a register; POP to a segment register drops what it pops.
PopReg(size, r) ==
  LET m == PopInto(Now, size, r)
  IN  /\ Ends(m, eip + 1, eip)
      /\ IF r = SP THEN Forget ELSE UnwindOr(m, "data", size, <<Reg(m.reg, size, r)>>)

PopSegment(size) ==
  LET m == Pop(Now, size)
  IN  Ends(m, eip + 1, eip) /\ UnwindOr(m, "data", size, <<Popped(Now, size)>>)

\* Four values, from the k-th on.
PushFour(m, size, vals, k) ==
  Push(Push(Push(Push(m, size, vals[k]), size, vals[k + 1]), size, vals[k + 2]),
       size, vals[k + 3])

\* PUSHA: all registers by their numbers, SP as it was.
Pusha(size) ==
  LET vals == [k \in 1 .. 8 |-> Reg(reg, size, k - 1)]
      m == PushFour(PushFour(Now, size, vals, 1), size, vals, 5)
  IN  /\ Ends(m, eip + 1, eip)
      /\ GrowOr(m, Frame("all", size, vals, 8 * size, m, 0), 8 * size)

\* POPA passes over the place of SP.
SkipSP(m, size) == Set(m, size, SP, Top(m.reg, size) + size)

Popa(size) ==
  LET upper == PopInto(PopInto(PopInto(Now, size, 7), size, 6), size, 5)
      middle == PopInto(PopInto(SkipSP(upper, size), size, 3), size, 2)
      m == PopInto(PopInto(middle, size, 1), size, 0)
      got == [k \in 1 .. 8 |-> Reg(m.reg, size, k - 1)]
  IN  Ends(m, eip + 1, eip) /\ UnwindOr(m, "all", size, got)

Deeper(m, size) ==
  LET d == Set(m, size, BP, m.reg[BP] - size)
  IN  Push(d, size, Reg(d.reg, size, BP))

Nested(first, size) ==
  LET nested[i \in 0 .. 31] == IF i = 0 THEN first ELSE Deeper(nested[i - 1], size)
  IN  nested

\* ENTER: each level of nesting pushes the value of EBP, not what it points to, and the
\* locals lie over what the levels have pushed.
Enter(size, alloc, level) ==
  LET bp == Reg(reg, size, BP)
      first == Push(Now, size, bp)
      frameTemp == Top(first.reg, size)
      linked == IF level = 0 THEN first
                ELSE Push(Nested(first, size)[level - 1], size, frameTemp)
      based == Set(linked, size, BP, frameTemp)
      m == Set(based, size, SP, Reg(based.reg, size, BP) - alloc)
  IN  /\ Ends(m, eip + 4, eip + 3)
      /\ GrowOr(m, Frame("enter", size, <<bp>>, size + alloc, m, 0), size * (level + 1))

\* Slip: ESP does not go back to the frame.
LeftHere(size) == PopInto(Now, size, BP)

Left(size) == PopInto(Set(Now, size, SP, Reg(reg, size, BP)), size, BP)

\* EBP is where ENTER has left it for frame k, and frames behind it are the procedure's.
Based(k, size) ==
  /\ frames[k].kind = "enter" /\ frames[k].size = size
  /\ Reg(reg, size, BP) = W(size, frames[k].esp - size)
  /\ size = 4 \/ reg[SP] \div Half = frames[k].esp \div Half
  /\ \A i \in k + 1 .. Len(frames) : frames[i].kind # "enter"

Leave(size) ==
  LET m == Left(size)
  IN  /\ Ends(m, eip + 1, eip)
      /\ IF m.ok /\ \E k \in DOMAIN frames : Based(k, size)
         THEN Unwind(CHOOSE k \in DOMAIN frames : Based(k, size), <<Reg(m.reg, size, BP)>>)
         ELSE Forget

-----------------------------------------------------------------------------
(* Calls and returns                                                       *)

\* What all calls push: the address next behind them.
PushNext(m, size, next) == Push(m, size, W(size, next))

CallFrame(kind, size, next, m) == Frame(kind, size, <<W(size, next)>>, size, m, next)

CallRel(size, rel) ==
  LET next == (eip + size + 1) % Dwords
      m == PushNext(Now, size, next)
  IN  Ends(m, Near(next, rel, size), next) /\ GrowOr(m, CallFrame("near", size, next, m), size)

\* The register is read behind the push.
CallRm(size, r) ==
  LET next == (eip + 2) % Dwords
      m == PushNext(Now, size, next)
  IN  Ends(m, Reg(m.reg, size, r), eip + 1) /\ GrowOr(m, CallFrame("near", size, next, m), size)

\* A far call pushes a zero for CS in front.
CallFar(size, place) ==
  LET next == (eip + size + 3) % Dwords
      m == PushNext(Push(Now, size, 0), size, next)
  IN  /\ Ends(m, W(size, place), eip)
      /\ GrowOr(m, Frame("far", size, <<0, W(size, next)>>, 2 * size, m, next), 2 * size)

\* RET takes its operand off ESP, whatever the size of the operand.
Freed(size, n) ==
  LET m == Pop(Now, size)
  IN  Set(m, 4, SP, m.reg[SP] + n)

Retn(size) ==
  LET m == Pop(Now, size)
  IN  Ends(m, Popped(Now, size), eip) /\ UnwindOr(m, "near", size, <<Popped(Now, size)>>)

\* The n bytes are those of arguments, dwords that were pushed in front of the call.
Arguments(k, n) ==
  /\ n = 4 * (Len(frames) - k)
  /\ \A i \in k .. Len(frames) - 1 : frames[i].kind = "data" /\ frames[i].size = 4

RetnImm(size, n) ==
  LET m == Freed(size, n)
      top == Len(frames)
      k == top - (n \div 4)
  IN  /\ Ends(m, Popped(Now, size), eip)
      /\ IF m.ok /\ OnTop("near", size) /\ k \in 1 .. top /\ Arguments(k, n)
         THEN /\ frames' = SubSeq(frames, 1, k - 1)
              /\ unwound' = [kind |-> "near", size |-> size, want |-> frames[top].vals,
                             got |-> <<Popped(Now, size)>>, esp |-> frames[k].esp,
                             next |-> frames[top].next]
         ELSE Forget

\* RETF pops no CS and goes one byte too far, as does IRET, which pops three values.
Retf(size, n) == Ends(Freed(size, n), Popped(Now, size) + 1, eip) /\ Forget

Iret(size) ==
  LET first == Pop(Now, size)
      m == Pop(Pop(first, size), size)
  IN  /\ Ends(m, Popped(Now, size) + 1, IF first.ok THEN Popped(Now, size) ELSE eip)
      /\ Forget

-----------------------------------------------------------------------------
(* Jumps                                                                   *)

\* Instructions that move nothing but eip and ECX.
Jumps(m, to) ==
  /\ steps < MaxJumps
  /\ Ends(m, to, eip)
  /\ UNCHANGED frames /\ unwound' = NoPop

JmpRel8(size, off) == Jumps(Now, Near(eip + 2, off, size))
JmpRelW(size, off) == Jumps(Now, Near(eip + size + 1, off, size))

\* Jumps to an address: JMP to an operand and far JMP.
JmpTo(size, place) == Jumps(Now, W(size, place))

\* Jcc, whatever its condition.
Jcc8(size, off, taken) == Jumps(Now, IF taken THEN Near(eip + 2, off, size) ELSE eip + 2)
JccW(size, off, taken) ==
  LET next == eip + size + 1
  IN  Jumps(Now, IF taken THEN Near(next, off, size) ELSE next)

\* JCXZ jumps from one byte in front of the next instruction.
Zero(size) == Reg(reg, size, CX) = 0
Jcxz(size, off) == Jumps(Now, IF Zero(size) THEN Near(eip + 1, off, size) ELSE eip + 2)

\* LOOPcc falls through to one byte behind the next instruction.
Loopcc(size, off, condition) ==
  LET m == Set(Now, size, CX, reg[CX] - 1)
      taken == Reg(m.reg, size, CX) # 0 /\ condition
  IN  Jumps(m, IF taken THEN Near(eip + 2, off, size) ELSE eip + 3)

-----------------------------------------------------------------------------
Stack(size) ==
  \/ \E r \in Operands : PushReg(size, r) \/ PopReg(size, r)
  \/ PopSegment(size) \/ Pusha(size) \/ Popa(size)
  \/ \E alloc \in Allocs, level \in Levels : Enter(size, alloc, level)
  \/ Leave(size)

CallOrReturn(size) ==
  \/ \E rel \in Rels : CallRel(size, rel)
  \/ \E r \in Operands : CallRm(size, r)
  \/ \E place \in Places : CallFar(size, place)
  \/ Retn(size) \/ Iret(size)
  \/ \E n \in Frees : RetnImm(size, n) \/ Retf(size, n)

Jump(size) ==
  \/ \E place \in Places : JmpTo(size, place)
  \/ \E off \in Rels :
       \/ JmpRel8(size, off) \/ JmpRelW(size, off) \/ Jcxz(size, off)
       \/ \E taken \in BOOLEAN :
            Jcc8(size, off, taken) \/ JccW(size, off, taken) \/ Loopcc(size, off, taken)

Next ==
  \E size \in Sizes : Stack(size) \/ CallOrReturn(size) \/ Jump(size)

Spec == Init /\ [][Next]_vars

-----------------------------------------------------------------------------
(* Properties                                                              *)

\* Registers, addresses and bytes stay in range, whatever wraps, is truncated or fails.
TypeOK ==
  /\ eip \in Dword
  /\ reg \in [0 .. 7 -> Dword]
  /\ DOMAIN mem \subseteq Mapped
  /\ \A a \in DOMAIN mem : mem[a] \in 0 .. ByteMod - 1

\* The address of the k-th value of a frame.
Slot(f, k) == W(f.size, f.esp - f.size * k)

\* Everything that is on the stack keeps its value and its place, for every mixture of
\* pushes of 2 bytes, which address memory by SP, and of 4, which address it by ESP, even
\* where one of them wraps around its 64 KiB and the other does not.
FramesIntact ==
  \A i \in DOMAIN frames :
    LET f == frames[i]
    IN  /\ \A k \in DOMAIN f.vals : Load(mem, Slot(f, k), f.size) = f.vals[k]
        /\ f.after = IF i = Len(frames) THEN reg[SP] ELSE frames[i + 1].esp

\* A pop takes off what the matching push has put there, and ESP is where it was before:
\* RET goes behind its CALL, POPA restores all registers, LEAVE restores EBP, and RET
\* with an operand removes the arguments.
Unwinds ==
  unwound.kind # "none" =>
    LET before == unwound.want
        now == unwound.got
    IN  /\ reg[SP] = unwound.esp
        /\ \A k \in DOMAIN before : now[k] = before[k] \/ (unwound.kind = "all" /\ k - 1 = SP)
        /\ unwound.kind = "near" => eip = W(unwound.size, unwound.next)

=============================================================================
