------------------------------- MODULE Shifter -------------------------------
(***************************************************************************)
(* Shifts and rotates: ShiftLogicalRight8 ... RotateCarryRightW and their  *)
(* handlers in vm/ops/maths.cpp.                                           *)
(*                                                                         *)
(* An operand is a function from bit numbers to bits.  The source combines *)
(* two shifted copies with |; here bit i of a copy shifted left by n is    *)
(* At(x, i - n), and of one shifted right At(x, i + n).  An instruction is *)
(* one step on the operand bits of width size.  A masked count of 0        *)
(* returns at once and changes nothing.                                    *)
(*                                                                         *)
(* A definition marked "Slip" is a mistake one could make here; the        *)
(* specification does not use it.                                          *)
(***************************************************************************)
EXTENDS Flags

CONSTANTS
  ByteW, WordW, LongW,  \* widths of operands (8, 16, 32)
  Counts,               \* counts in CL or behind the instruction
  Sources,              \* widths to second operands of SHLD and SHRD
  MaxOperands           \* bound: operands of one long shift

Widths == {ByteW, WordW, LongW}
Bits(width) == [0 .. width - 1 -> Bit]

ASSUME ShifterAssumption ==
  /\ ByteW \in Nat /\ WordW \in Nat /\ LongW \in Nat /\ MaxOperands \in Nat
  /\ 1 < ByteW /\ ByteW < WordW /\ WordW < LongW
  /\ LongW % ByteW = 0 /\ LongW % WordW = 0
  /\ Counts \subseteq Nat
  /\ \A width \in Widths : Sources[width] \subseteq Bits(width)

VARIABLES
  size, bits,      \* width and value of the operand
  shift,           \* history: the shift that set the flags
  ring,            \* history: the rotation under way
  long             \* history: the shift of several operands under way

shiftFlags == <<cf, of, zf, sf>>
shiftVars == <<size, bits, shiftFlags, shift, ring, long>>

\* Bits outside a value are zero, as those that a shift brings in.
At(x, i) == IF i \in DOMAIN x THEN x[i] ELSE 0
Or(a, b) == IF a = 1 \/ b = 1 THEN 1 ELSE 0
Xor(a, b) == IF a = b THEN 0 ELSE 1

\* The weight of each bit, and of the one behind the widest operand.
Power[n \in 0 .. LongW] == IF n = 0 THEN 1 ELSE 2 * Power[n - 1]
Modulus(width) == Power[width]

\* What the bits of a value below each of them stand for.
LowBits(x, width) ==
  LET low[k \in 0 .. width] == IF k = 0 THEN 0 ELSE low[k - 1] + x[k - 1] * Power[k - 1]
  IN  low

\* A value as a number, and as a signed one.
Num(x, width) == LowBits(x, width)[width]
SignedNum(x, width) == Num(x, width) - x[width - 1] * Modulus(width)

NoShift == [op |-> "none", base |-> << >>, src |-> << >>, n |-> 0]
Shifted(op, src, n) == [op |-> op, base |-> bits, src |-> src, n |-> n]

\* A rotation: what was there at its start, and by how many places to the left it has
\* been turned since.  kind tells whether the carry is a part of it.
NoRing == [kind |-> "none", orig |-> << >>, turn |-> 0]
Turned(kind, m, whole, n) ==
  IF ring.kind = kind THEN [ring EXCEPT !.turn = (@ + n) % m]
  ELSE [kind |-> kind, orig |-> whole, turn |-> n % m]

\* A shift by one place of a number that consists of several operands.  owed is twice
\* the old number less the new one, for a shift to the right the other way round.
NoLong == [kind |-> "none", width |-> ByteW, limbs |-> 0, unit |-> 1, owed |-> 0]
StartLong(n, kind, unit, owed) ==
  IF n = 1 THEN [kind |-> kind, width |-> size, limbs |-> 1, unit |-> unit, owed |-> owed]
  ELSE NoLong
Extending(n, kind) ==
  n = 1 /\ long.kind = kind /\ long.width = size /\ long.limbs < MaxOperands

ShiftInit ==
  /\ size = ByteW /\ bits = [i \in 0 .. ByteW - 1 |-> 0]
  /\ cf = 0 /\ of = 0 /\ zf = 0 /\ sf = 0
  /\ shift = NoShift /\ ring = NoRing /\ long = NoLong

-----------------------------------------------------------------------------
(* Loads and carries between shifts                                        *)

\* MOV leaves the flags alone, so a long shift goes on.
MovBits(width, x) ==
  /\ size' = width /\ bits' = x
  /\ shift' = NoShift /\ ring' = NoRing
  /\ UNCHANGED <<shiftFlags, long>>

PutCarry(c) ==
  /\ cf' = c
  /\ shift' = NoShift /\ ring' = NoRing /\ long' = NoLong
  /\ UNCHANGED <<size, bits, of, zf, sf>>

-----------------------------------------------------------------------------
(* Shifts                                                                  *)

\* The low five bits of a count.
Masked(count) == count % LongW

ShiftFlags(x, width) ==
  /\ zf' = IF \A i \in 0 .. width - 1 : x[i] = 0 THEN 1 ELSE 0
  /\ sf' = x[width - 1]

\* Slip: the last bit shifted out is taken one place off.
ShlCarryLate(n) == At(bits, size - n - 1)

ShlCarry(n) == At(bits, size - n)

Shl(count) ==
  LET n == Masked(count)
      res == [i \in 0 .. size - 1 |-> At(bits, i - n)]
  IN  /\ n # 0
      /\ bits' = res
      /\ cf' = ShlCarry(n)
      /\ of' = IF n = 1 THEN Xor(res[size - 1], ShlCarry(n)) ELSE of
      /\ ShiftFlags(res, size)
      /\ shift' = Shifted("shl", << >>, n) /\ ring' = NoRing
      /\ long' = StartLong(n, "left", Modulus(size), 2 * Num(bits, size) - Num(res, size))
      /\ UNCHANGED size

Shr(count) ==
  LET n == Masked(count)
      res == [i \in 0 .. size - 1 |-> At(bits, i + n)]
  IN  /\ n # 0
      /\ bits' = res
      /\ cf' = At(bits, n - 1)
      /\ of' = IF n = 1 THEN bits[size - 1] ELSE 0
      /\ ShiftFlags(res, size)
      /\ shift' = Shifted("shr", << >>, n) /\ ring' = NoRing
      /\ long' = StartLong(n, "right", 1, Num(bits, size) - 2 * Num(res, size))
      /\ UNCHANGED size

\* Slip: zeros are shifted in.
SarBitUnsigned(x, width, n, i) == At(x, i + n)

\* Bit i of a value shifted right by n with copies of its sign.
SarBit(x, width, n, i) == IF i + n >= width THEN x[width - 1] ELSE x[i + n]

Sar(count) ==
  LET n == Masked(count)
      res == [i \in 0 .. size - 1 |-> SarBit(bits, size, n, i)]
  IN  /\ n # 0
      /\ bits' = res
      /\ cf' = At(bits, n - 1) /\ of' = 0
      /\ ShiftFlags(res, size)
      /\ shift' = Shifted("sar", << >>, n) /\ ring' = NoRing
      /\ long' = StartLong(n, "right", 1, SignedNum(bits, size) - 2 * SignedNum(res, size))
      /\ UNCHANGED size

\* WriteByte to an operand that is wider.
LowByteWritten(res) == [i \in 0 .. size - 1 |-> IF i < ByteW THEN res[i] ELSE bits[i]]

\* SAR of a wide operand by an immediate works on its low byte.  (Where the operand is
\* one of SP to DI, it works on one of AH to BH, which is not the operand here.)
SarWideImm(count) ==
  LET n == Masked(count)
      low == [i \in 0 .. ByteW - 1 |-> bits[i]]
      res == [i \in 0 .. ByteW - 1 |-> SarBit(low, ByteW, n, i)]
  IN  /\ n # 0 /\ size # ByteW
      /\ bits' = LowByteWritten(res)
      /\ cf' = At(low, n - 1) /\ of' = 0
      /\ ShiftFlags(res, ByteW)
      /\ shift' = NoShift /\ ring' = NoRing /\ long' = NoLong
      /\ UNCHANGED size

\* SHLD and SHRD: the bits that come in are those of src.  The count is taken modulo
\* the width, and there is no form for bytes.
Shld(src, count) ==
  LET n == count % size
      res == [i \in 0 .. size - 1 |-> Or(At(bits, i - n), At(src, i + (size - n)))]
  IN  /\ n # 0 /\ size # ByteW
      /\ bits' = res
      /\ cf' = ShlCarry(n)
      /\ of' = IF n = 1 THEN Xor(res[size - 1], ShlCarry(n)) ELSE of
      /\ ShiftFlags(res, size)
      /\ shift' = Shifted("shld", src, n) /\ ring' = NoRing /\ long' = NoLong
      /\ UNCHANGED size

Shrd(src, count) ==
  LET n == count % size
      res == [i \in 0 .. size - 1 |-> Or(At(bits, i + n), At(src, i - (size - n)))]
  IN  /\ n # 0 /\ size # ByteW
      /\ bits' = res
      /\ cf' = At(bits, n - 1)
      /\ of' = IF n = 1 THEN Xor(res[size - 1], res[size - 2]) ELSE 0
      /\ ShiftFlags(res, size)
      /\ shift' = Shifted("shrd", src, n) /\ ring' = NoRing /\ long' = NoLong
      /\ UNCHANGED size

-----------------------------------------------------------------------------
(* Rotates.  They leave zf and sf alone.                                   *)

\* 8 and 16 bits take the masked count modulo their width once more.
Places(count) == Masked(count) % size

Rol(count) ==
  LET n == Places(count)
      res == [i \in 0 .. size - 1 |-> Or(At(bits, i - n), At(bits, i + (size - n)))]
  IN  /\ n # 0
      /\ bits' = res
      /\ cf' = res[0]
      /\ of' = IF n = 1 THEN Xor(res[size - 1], res[0]) ELSE 0
      /\ ring' = Turned("plain", size, bits, n)
      /\ shift' = NoShift /\ long' = NoLong
      /\ UNCHANGED <<size, zf, sf>>

\* Slip: the second copy is shifted one place too far.
RorBitFar(n, i) == Or(At(bits, i + n), At(bits, i - (size - n) - 1))

RorBit(n, i) == Or(At(bits, i + n), At(bits, i - (size - n)))

Ror(count) ==
  LET n == Places(count)
      res == [i \in 0 .. size - 1 |-> RorBit(n, i)]
  IN  /\ n # 0
      /\ bits' = res
      /\ cf' = res[size - 1]
      /\ of' = IF n = 1 THEN Xor(res[size - 1], res[size - 2]) ELSE 0
      /\ ring' = Turned("plain", size, bits, size - n)
      /\ shift' = NoShift /\ long' = NoLong
      /\ UNCHANGED <<size, zf, sf>>

\* Operand and carry as the ring that RCL and RCR turn.
Whole == [i \in 0 .. size |-> IF i = size THEN cf ELSE bits[i]]

\* Slip: the carry is not part of what is rotated.
BigLeftEmpty == [i \in 0 .. size |-> IF i = 0 THEN 0 ELSE bits[i - 1]]

\* bigbase of RCL: the carry below the operand.
BigLeft == [i \in 0 .. size |-> IF i = 0 THEN cf ELSE bits[i - 1]]

Rcl(count) ==
  LET n == Places(count)
      bit(i) == Or(At(BigLeft, i - n), At(BigLeft, i + (size + 1 - n)))
      res == [i \in 0 .. size - 1 |-> bit(i + 1)]
  IN  /\ n # 0
      /\ bits' = res
      /\ cf' = bit(size + 1)
      /\ of' = IF n = 1 THEN Xor(res[size - 1], bit(size + 1)) ELSE 0
      /\ ring' = Turned("carry", size + 1, Whole, n)
      /\ shift' = NoShift
      /\ long' = IF Extending(n, "left")
                 THEN [long EXCEPT !.limbs = @ + 1, !.unit = @ * Modulus(size),
                                   !.owed = @ + long.unit * (2 * Num(bits, size) - Num(res, size))]
                 ELSE NoLong
      /\ UNCHANGED <<size, zf, sf>>

\* bigbase of RCR has the carry above the operand.  RotateCarryRight16 keeps its result
\* in 16 bits and so loses the new carry.
Rcr(count) ==
  LET n == Places(count)
      bit(i) == Or(At(Whole, i + n), At(Whole, i - (size + 1 - n)))
      res == [i \in 0 .. size - 1 |-> bit(i)]
  IN  /\ n # 0
      /\ bits' = res
      /\ cf' = IF size = WordW THEN 0 ELSE bit(size)
      /\ of' = IF n = 1 THEN Xor(res[size - 1], res[size - 2]) ELSE 0
      /\ ring' = IF size = WordW THEN NoRing ELSE Turned("carry", size + 1, Whole, size + 1 - n)
      /\ shift' = NoShift
      /\ long' = IF Extending(n, "right") /\ size # WordW
                 THEN [long EXCEPT !.limbs = @ + 1,
                                   !.owed = @ * Modulus(size)
                                              + Num(bits, size) - 2 * Num(res, size)]
                 ELSE NoLong
      /\ UNCHANGED <<size, zf, sf>>

-----------------------------------------------------------------------------
ShiftNext ==
  \/ \E width \in Widths : \E x \in Bits(width) : MovBits(width, x)
  \/ \E c \in Bit : PutCarry(c)
  \/ \E count \in Counts :
       \/ Shl(count) \/ Shr(count) \/ Sar(count) \/ SarWideImm(count)
       \/ Rol(count) \/ Ror(count) \/ Rcl(count) \/ Rcr(count)
       \/ \E src \in Sources[size] : Shld(src, count) \/ Shrd(src, count)

ShiftSpec == ShiftInit /\ [][ShiftNext]_shiftVars

-----------------------------------------------------------------------------
(* Properties                                                              *)

ShiftTypeOK ==
  /\ size \in Widths /\ bits \in Bits(size)
  /\ cf \in Bit /\ of \in Bit /\ zf \in Bit /\ sf \in Bit

\* After any sequence of ROL and ROR the operand is the old one turned by the sum of the
\* counts, and after any sequence of RCL and RCR operand and carry together are; the
\* sequence ends where RotateCarryRight16 loses the carry.
Rotation ==
  /\ ring.kind = "plain" =>
       \A i \in 0 .. size - 1 : bits[i] = ring.orig[(i - ring.turn) % size]
  /\ ring.kind = "carry" =>
       \A i \in 0 .. size : Whole[i] = ring.orig[(i - ring.turn) % (size + 1)]

\* A number of several operands is shifted by one place with SHL, RCL, RCL ... from its
\* low end or SHR or SAR, RCR, RCR ... from its high end, with loads in between: what is
\* missing from twice or half of it is the carry.
LongShift == long.kind # "none" => long.owed = cf * long.unit

\* SHL, SHR and SAR are multiplication and (rounding down) division by a power of two,
\* SHLD and SHRD one half of the same on a double operand, and cf is the last bit shifted
\* out, for every count below the width; of after SHL by one tells whether the signed
\* value has overflowed.  Whatever is shifted in, the operand keeps its width and the flags
\* are bits.
ShiftValue ==
  LET base == Num(shift.base, size)
      src == Num(shift.src, size)
      signed == SignedNum(shift.base, size)
      power == Power[shift.n]
      half == Power[shift.n - 1]
      mod == Modulus(size)
  IN  /\ ShiftTypeOK
      /\ shift.op = "shl" =>
           /\ Num(bits, size) = (base * power) % mod
           /\ cf = ((base * power) \div mod) % 2
           /\ shift.n = 1 => (of = 1 <=> 2 * signed # SignedNum(bits, size))
      /\ shift.op = "shr" => Num(bits, size) = base \div power /\ cf = (base \div half) % 2
      /\ shift.op = "sar" =>
           /\ SignedNum(bits, size) = signed \div power
           /\ shift.n <= size => cf = (signed \div half) % 2
      /\ shift.op = "shld" =>
           /\ Num(bits, size) = (((base * mod + src) * power) \div mod) % mod
           /\ cf = ((base * power) \div mod) % 2
      /\ shift.op = "shrd" =>
           /\ Num(bits, size) = ((src * mod + base) \div power) % mod
           /\ cf = (base \div half) % 2
      /\ shift.op # "none" => (zf = 1 <=> Num(bits, size) = 0) /\ sf = bits[size - 1]

=============================================================================
