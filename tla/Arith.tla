-------------------------------- MODULE Arith --------------------------------
(***************************************************************************)
(* Addition, subtraction, comparison and decimal adjustment: the handlers  *)
(* of vm/ops/maths.cpp, the flags of vm/cpu_helpers.cpp, and the           *)
(* conditions of vm/ops/flags.cpp that read them.                          *)
(*                                                                         *)
(* One instruction is one step.  The accumulator holds an operand of the   *)
(* current size, which is given by the weight of its sign bit, half: 2^7,  *)
(* 2^15 and 2^31 in the code.  The second operand is an input.  The parity *)
(* flag is left out: nothing but itself depends on it.                     *)
(*                                                                         *)
(* A definition marked "Slip" is a mistake one could make here; the        *)
(* specification does not use it.                                          *)
(***************************************************************************)
EXTENDS Flags

CONSTANTS
  Nib,       \* values of a hexadecimal digit (16)
  Ten,       \* values of a decimal digit
  ByteHalf,  \* weight of bit 7
  Halves,    \* weights of the sign bits of all operand sizes
  MaxLimbs   \* bound: operands of one long addition

ByteMod == 2 * ByteHalf

ASSUME ArithAssumption ==
  /\ Nib \in Nat /\ Ten \in Nat /\ ByteHalf \in Nat /\ MaxLimbs \in Nat
  /\ 1 < Ten /\ Ten < Nib /\ ByteMod = Nib * Nib
  /\ ByteHalf \in Halves
  /\ \A half \in Halves : half \in Nat /\ \E k \in 1 .. half : half = k * ByteHalf

VARIABLES
  h,    \* operand size: weight of its sign bit
  acc,  \* the destination; AL if the size is a byte
  ah,   \* AH
  af,
  last, \* history: the instruction that set the flags
  chain \* history: the long addition or subtraction under way

regs == <<h, acc, ah>>
flags == <<cf, zf, sf, of, af>>
vars == <<regs, flags, last, chain>>

Flag(condition) == IF condition THEN 1 ELSE 0

\* Operands and values of the current size.
Mod == 2 * h
Operand == 0 .. Mod - 1
Byte == 0 .. ByteMod - 1
InByte == h = ByteHalf

NoInstr == [op |-> "none", base |-> 0, arg |-> 0, cin |-> 0, res |-> 0]
Instr(op, base, arg, cin, res) ==
  [op |-> op, base |-> base, arg |-> arg, cin |-> cin, res |-> res]

\* A long sum of operands of size half.  unit is the weight of the next operand, owed
\* the difference between the true result so far and what has been stored, lost the
\* part of it that the code has lost on the way.
NoChain == [kind |-> "none", half |-> ByteHalf, limbs |-> 0, unit |-> 1, owed |-> 0,
            lost |-> 0]
StartChain(kind, owed) ==
  [kind |-> kind, half |-> h, limbs |-> 1, unit |-> Mod, owed |-> owed, lost |-> 0]
ExtendChain(kind, owed, lost) ==
  IF chain.kind = kind /\ chain.half = h /\ chain.limbs < MaxLimbs
  THEN [chain EXCEPT !.limbs = @ + 1, !.unit = @ * Mod,
                     !.owed = @ + owed * chain.unit, !.lost = @ + lost * chain.unit]
  ELSE NoChain

Init ==
  /\ h = ByteHalf /\ acc = 0 /\ ah = 0
  /\ cf = 0 /\ zf = 0 /\ sf = 0 /\ of = 0 /\ af = 0
  /\ last = NoInstr /\ chain = NoChain

-----------------------------------------------------------------------------
(* Results and flags                                                       *)

Plus(base, adder) == (base + adder) % Mod
Minus(base, subt) == (base - subt) % Mod

SignBit(x) == x \div h
BitSeven(x) == (x \div ByteHalf) % 2

\* Add8, Add16, Add32.
CarryOut(base, adder) ==
  LET smaller == IF base < adder THEN base ELSE adder
  IN  Flag(Plus(base, adder) < smaller)

\* Slip: the result is compared with the larger operand.
BorrowInclusive(base, subt) == Flag(subt >= base)

\* Sub8, Sub16, Sub32.
Borrow(base, subt) == Flag(subt > base)

\* Slip: bit 7 of the operands is not compared.
OverflowUnmatched(res, v1, v2) == Flag(SignBit(v1) # SignBit(res))

\* CalculateOF8, -16, -32: all three look at bit 7 of the operands.
Overflow(res, v1, v2) ==
  Flag(BitSeven(v1) = BitSeven(v2) /\ SignBit(v1) # SignBit(res))

ResultFlags(res) ==
  /\ zf' = Flag(res = 0)
  /\ sf' = SignBit(res)

\* Everything but the carry, which INC and DEC restore.
AddFlags(base, adder) ==
  /\ ResultFlags(Plus(base, adder))
  /\ of' = Overflow(Plus(base, adder), base, adder)
  /\ af' = Flag((base % Nib) + (adder % Nib) > Nib - 1)

SubFlags(base, subt) ==
  /\ ResultFlags(Minus(base, subt))
  /\ of' = Overflow(Minus(base, subt), base, Minus(0, subt))
  /\ af' = Flag(base % Nib < subt % Nib)

\* jcc: the conditions by their numbers (10 and 11 test the parity).
Condition(cc) ==
  \/ cc = 0 /\ of = 1
  \/ cc = 1 /\ of = 0
  \/ cc = 2 /\ cf = 1
  \/ cc = 3 /\ cf = 0
  \/ cc = 4 /\ zf = 1
  \/ cc = 5 /\ zf = 0
  \/ cc = 6 /\ (cf = 1 \/ zf = 1)
  \/ cc = 7 /\ cf = 0 /\ zf = 0
  \/ cc = 8 /\ sf = 1
  \/ cc = 9 /\ sf = 0
  \/ cc = 12 /\ sf # of
  \/ cc = 13 /\ sf = of
  \/ cc = 14 /\ (sf # of \/ zf = 1)
  \/ cc = 15 /\ sf = of /\ zf = 0

-----------------------------------------------------------------------------
(* Moves, and instructions that read or write single flags                 *)

\* A new operand, in AX or EAX: one of a byte leaves AH empty.  MOV leaves the flags
\* alone, so a long addition goes on.
Mov(half, v) ==
  /\ v < 2 * half
  /\ h' = half /\ acc' = v /\ ah' = 0
  /\ last' = NoInstr
  /\ UNCHANGED <<flags, chain>>

Not ==
  /\ acc' = Mod - 1 - acc
  /\ last' = NoInstr
  /\ UNCHANGED <<h, ah, flags, chain>>

Setcc(cc) ==
  /\ acc' = Flag(Condition(cc))
  /\ InByte /\ last' = NoInstr
  /\ UNCHANGED <<h, ah, flags, chain>>

SetCarry(c) ==
  /\ cf' = c
  /\ last' = NoInstr /\ chain' = NoChain
  /\ UNCHANGED <<regs, zf, sf, of, af>>

Clc == SetCarry(0)
Stc == SetCarry(1)
Cmc == SetCarry(1 - cf)

\* And8 .. XorW.  af keeps its value.
LogicFlags(res) ==
  /\ cf' = 0 /\ of' = 0 /\ ResultFlags(res)
  /\ UNCHANGED af

\* AND, OR and XOR with a mask: some mask leads to any result.
Logic(res) ==
  /\ LogicFlags(res)
  /\ acc' = res
  /\ last' = NoInstr /\ chain' = NoChain
  /\ UNCHANGED <<h, ah>>

\* TEST: the flags of AND without its result.
Test(res) ==
  /\ LogicFlags(res)
  /\ last' = NoInstr /\ chain' = NoChain
  /\ UNCHANGED regs

-----------------------------------------------------------------------------
(* Binary arithmetic                                                       *)

Add(arg) ==
  /\ acc' = Plus(acc, arg)
  /\ cf' = CarryOut(acc, arg) /\ AddFlags(acc, arg)
  /\ last' = Instr("add", acc, arg, 0, acc')
  /\ chain' = StartChain("add", acc + arg - acc')
  /\ UNCHANGED <<h, ah>>

\* ADC adds the carry to its operand first.  Where that wraps, for an operand of all
\* ones, the carry of the sum is lost.
Adc(arg) ==
  LET adder == Plus(arg, cf)
  IN  /\ acc' = Plus(acc, adder)
      /\ cf' = CarryOut(acc, adder) /\ AddFlags(acc, adder)
      /\ last' = Instr("adc", acc, arg, cf, acc')
      /\ chain' = ExtendChain("add", acc + arg - acc', IF adder < arg THEN Mod ELSE 0)
      /\ UNCHANGED <<h, ah>>

Sub(arg) ==
  /\ acc' = Minus(acc, arg)
  /\ cf' = Borrow(acc, arg) /\ SubFlags(acc, arg)
  /\ last' = Instr("sub", acc, arg, 0, acc')
  /\ chain' = StartChain("sub", acc - arg - acc')
  /\ UNCHANGED <<h, ah>>

\* Slip: the borrow is forgotten.
TakenWhole(arg) == {arg}

\* What SBB subtracts: its operand, off which it takes the borrow.  A byte that is
\* extended to an operand has it taken off before, so that the least one becomes the
\* greatest.
Taken(arg) ==
  {Minus(arg, cf)} \cup
    IF cf = 1 /\ ~ InByte /\ arg = Minus(0, ByteHalf) THEN {ByteHalf - 1} ELSE {}

\* A borrow makes the result larger where it should be smaller, so it is lost twice, and
\* with it a modulus where taking it off the operand wraps.
Lost(arg, subt) ==
  (IF arg < cf THEN Mod ELSE 0) + (IF subt < arg - cf THEN ByteMod - Mod ELSE 0) - 2 * cf

Sbb(arg) ==
  \E subt \in Taken(arg) :
    /\ acc' = Minus(acc, subt)
    /\ cf' = Borrow(acc, subt) /\ SubFlags(acc, subt)
    /\ last' = Instr("sbb", acc, arg, cf, acc')
    /\ chain' = ExtendChain("sub", acc - arg - acc', Lost(arg, subt))
    /\ UNCHANGED <<h, ah>>

Cmp(arg) ==
  /\ cf' = Borrow(acc, arg) /\ SubFlags(acc, arg)
  /\ last' = Instr("cmp", acc, arg, 0, acc)
  /\ chain' = NoChain
  /\ UNCHANGED regs

\* Slip: the carry is not restored.
IncUnsaved ==
  /\ acc' = Plus(acc, 1)
  /\ cf' = CarryOut(acc, 1) /\ AddFlags(acc, 1)
  /\ last' = Instr("inc", acc, 1, 0, acc')
  /\ UNCHANGED <<h, ah, chain>>

\* INC and DEC keep the carry in a reserved flag and restore it.
Inc ==
  /\ acc' = Plus(acc, 1)
  /\ AddFlags(acc, 1)
  /\ last' = Instr("inc", acc, 1, 0, acc')
  /\ UNCHANGED <<h, ah, cf, chain>>

Dec ==
  /\ acc' = Minus(acc, 1)
  /\ SubFlags(acc, 1)
  /\ last' = Instr("dec", acc, 1, 0, acc')
  /\ UNCHANGED <<h, ah, cf, chain>>

\* NEG of a byte 0xFF sets of and does nothing else.
Neg ==
  /\ IF InByte /\ acc = Mod - 1
     THEN /\ of' = 1
          /\ UNCHANGED <<acc, cf, zf, sf, af>>
     ELSE /\ acc' = Minus(0, acc)
          /\ SubFlags(0, acc)
          /\ cf' = Flag(acc # 0)
  /\ last' = NoInstr /\ chain' = NoChain
  /\ UNCHANGED <<h, ah>>

-----------------------------------------------------------------------------
(* Decimal adjustment of AL after an addition or subtraction.  Whatever al *)
(* holds, the conditions look at its digits and at af and cf.              *)

LowDigit(x) == x % Nib

LowOut == LowDigit(acc) > Ten - 1 \/ af = 1

Raised(x, amount) == (x + amount) % ByteMod
Lowered(x, amount) == (x - amount) % ByteMod

\* History: which instruction was adjusted.
Adjusting(name, ops) ==
  /\ last' = IF last.op \in ops THEN [last EXCEPT !.op = name] ELSE NoInstr
  /\ chain' = NoChain

\* Slip: the carry of the digit is not recorded.
AaaSilent ==
  /\ InByte
  /\ IF LowOut
     THEN /\ acc' = LowDigit(Raised(acc, Nib - Ten))
          /\ ah' = Raised(ah, 1) /\ af' = 1 /\ UNCHANGED cf
     ELSE /\ acc' = LowDigit(acc)
          /\ af' = 0 /\ cf' = 0 /\ UNCHANGED ah
  /\ Adjusting("aaa", {"add", "adc"})
  /\ UNCHANGED <<h, zf, sf, of>>

Aaa ==
  /\ InByte
  /\ IF LowOut
     THEN /\ acc' = LowDigit(Raised(acc, Nib - Ten))
          /\ ah' = Raised(ah, 1) /\ af' = 1 /\ cf' = 1
     ELSE /\ acc' = LowDigit(acc)
          /\ af' = 0 /\ cf' = 0 /\ UNCHANGED ah
  /\ Adjusting("aaa", {"add", "adc"})
  /\ UNCHANGED <<h, zf, sf, of>>

Aas ==
  /\ InByte
  /\ IF LowOut
     THEN /\ acc' = LowDigit(Lowered(acc, Nib - Ten))
          /\ ah' = Lowered(ah, 1) /\ af' = 1 /\ cf' = 1
     ELSE /\ acc' = LowDigit(acc)
          /\ af' = 0 /\ cf' = 0 /\ UNCHANGED ah
  /\ Adjusting("aas", {"sub", "sbb"})
  /\ UNCHANGED <<h, zf, sf, of>>

\* The high digit of DAA and DAS, after the low one has been adjusted to al.
HighOut(al) == al > Ten * Nib - 1 \/ cf = 1

\* DAA counts AH up, as AAA does, and leaves af as it is.
Daa ==
  LET al == IF LowOut THEN Raised(acc, Nib - Ten) ELSE acc
  IN  /\ InByte
      /\ IF LowOut
         THEN ah' = Raised(ah, 1) /\ UNCHANGED af
         ELSE af' = 0 /\ UNCHANGED ah
      /\ IF HighOut(al)
         THEN acc' = Raised(al, (Nib - Ten) * Nib) /\ cf' = 1
         ELSE acc' = al /\ cf' = 0
      /\ Adjusting("daa", {"add", "adc"})
      /\ UNCHANGED <<h, zf, sf, of>>

Das ==
  LET al == IF LowOut THEN Lowered(acc, Nib - Ten) ELSE acc
  IN  /\ InByte
      /\ af' = Flag(LowOut)
      /\ IF HighOut(al)
         THEN acc' = Lowered(al, (Nib - Ten) * Nib) /\ cf' = 1
         ELSE acc' = al /\ cf' = 0
      /\ Adjusting("das", {"sub", "sbb"})
      /\ UNCHANGED <<h, ah, zf, sf, of>>

\* AAM fails for a zero divisor and changes nothing.  Neither sets a flag.
Aad(imm) ==
  /\ InByte
  /\ acc' = (ah * imm + acc) % ByteMod /\ ah' = 0
  /\ last' = NoInstr
  /\ UNCHANGED <<h, flags, chain>>

Aam(imm) ==
  /\ InByte /\ imm # 0
  /\ ah' = acc \div imm /\ acc' = acc % imm
  /\ last' = NoInstr
  /\ UNCHANGED <<h, flags, chain>>

-----------------------------------------------------------------------------
WithOperand(arg) == Add(arg) \/ Adc(arg) \/ Sub(arg) \/ Sbb(arg) \/ Cmp(arg)

Flip == Clc \/ Stc \/ Cmc

Decimal == Aaa \/ Aas \/ Daa \/ Das \/ Aad(Ten) \/ Aam(Ten)

Next ==
  \/ \E half \in Halves : \E v \in 0 .. 2 * half - 1 : Mov(half, v)
  \/ \E v \in Operand : WithOperand(v) \/ Logic(v) \/ Test(v)
  \/ \E cc \in 0 .. 15 : Setcc(cc)
  \/ Not \/ Inc \/ Dec \/ Neg \/ Flip \/ Decimal

Spec == Init /\ [][Next]_vars

-----------------------------------------------------------------------------
(* Properties                                                              *)

\* Operands keep their size and flags are bits, through all wrapping and adjusting
\* (the casts of the handlers and SetReg8).
TypeOK ==
  /\ h \in Halves /\ acc \in Operand /\ ah \in Byte
  /\ cf \in Bit /\ zf \in Bit /\ sf \in Bit /\ of \in Bit /\ af \in Bit
  /\ last \in [op : {"none", "add", "adc", "sub", "sbb", "cmp", "inc", "dec",
                     "aaa", "aas", "daa", "das"},
               base : Nat, arg : Nat, cin : Bit, res : Nat]
  /\ chain \in [kind : {"none", "add", "sub"}, half : Halves, limbs : Nat, unit : Nat,
                owed : Int, lost : Int]

\* What a long addition or subtraction (ADD, ADC ... or SUB, SBB ..., with loads, INC,
\* DEC and stores between them) has not stored yet is exactly its carry, but for what
\* single instructions have lost: an ADC whose operand and carry wrap its carry out, an
\* SBB the borrow it takes in, twice (see Lost).  A long addition without an operand of all ones
\* and a long subtraction without borrows are exact, however many operands they have.
LongResult ==
  /\ chain.kind = "add" => chain.owed = chain.lost + cf * chain.unit
  /\ chain.kind = "sub" => chain.owed = chain.lost - cf * chain.unit

\* After a comparison the conditions B, AE, E, NE, BE and A mean the relation of the
\* operands as unsigned numbers, for every operand size.
UnsignedConditions ==
  last.op \in {"sub", "cmp"} =>
    /\ Condition(2) <=> last.base < last.arg
    /\ Condition(3) <=> last.base >= last.arg
    /\ Condition(4) <=> last.base = last.arg
    /\ Condition(5) <=> last.base # last.arg
    /\ Condition(6) <=> last.base <= last.arg
    /\ Condition(7) <=> last.base > last.arg

Signed(x) == IF x < h THEN x ELSE x - Mod

\* Operands for which bit 7 is the sign, and whose negation is one as well.
Small(x) == -ByteHalf <= Signed(x) /\ Signed(x) < ByteHalf

\* After a comparison the conditions L, GE, LE and G mean the relation of the operands as
\* signed numbers when both fit in a signed byte and the second is not the least one: the
\* operands for which the test of bit 7 in CalculateOF16 and -32 is one of the sign.
SignedConditions ==
  (last.op \in {"sub", "cmp"} /\ Small(last.base) /\ Small(last.arg)
   /\ Signed(last.arg) # -ByteHalf) =>
    /\ Condition(12) <=> Signed(last.base) < Signed(last.arg)
    /\ Condition(13) <=> Signed(last.base) >= Signed(last.arg)
    /\ Condition(14) <=> Signed(last.base) <= Signed(last.arg)
    /\ Condition(15) <=> Signed(last.base) > Signed(last.arg)

Digit(x) == x < Ten
Packed(x) == Digit(x % Nib) /\ Digit(x \div Nib)
Decimals(x) == Ten * (x \div Nib) + (x % Nib)

\* The adjustment behind an addition or subtraction of decimal digits gives the decimal
\* result and carry, including a carry that ADC took in.  DAA is right unless the
\* correction of the low digit leaves the byte, whose carry the code drops.
DecimalAdjust ==
  LET base == last.base
      arg == last.arg
  IN  /\ (last.op = "aaa" /\ Digit(base) /\ Digit(arg)) =>
           base + arg + last.cin = Ten * cf + acc
      /\ (last.op = "aas" /\ Digit(base) /\ Digit(arg) /\ last.cin = 0) =>
           base - arg = acc - Ten * cf
      /\ (/\ last.op = "daa" /\ Packed(base) /\ Packed(arg)
          /\ last.res + (Nib - Ten) < ByteMod) =>
           Decimals(base) + Decimals(arg) + last.cin = Ten * Ten * cf + Decimals(acc)
      /\ (last.op = "das" /\ Packed(base) /\ Packed(arg) /\ last.cin = 0) =>
           Decimals(base) - Decimals(arg) = Decimals(acc) - Ten * Ten * cf

=============================================================================
