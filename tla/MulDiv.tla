------------------------------- MODULE MulDiv -------------------------------
(***************************************************************************)
(* Multiplication and division of vm/ops/maths.cpp: MUL, IMUL, DIV, IDIV   *)
(* of bytes, words and dwords, IMUL with an immediate, AAM and AAD, and    *)
(* the sign extensions CBW, CWD, CDQ that come before an IDIV.             *)
(*                                                                         *)
(* The accumulator is a pair hi, lo: AH and AL for a byte, DX and AX for a *)
(* word, EDX and EAX for a dword.  One modulus stands for the three sizes: *)
(* what differs are the handlers.  Where the handlers read their operand   *)
(* and how its address is found is Decoder's.                              *)
(***************************************************************************)
EXTENDS Integers

CONSTANTS
  Half,       \* an operand has 2 * Half values
  ImmHalf,    \* an immediate byte has 2 * ImmHalf
  Values      \* the operands and immediates there may be

ASSUME MulDivAssumption ==
  /\ Half \in Nat \ {0}
  /\ ImmHalf \in Nat \ {0} /\ ImmHalf <= Half
  /\ Values \subseteq 0 .. 2 * Half - 1

M == 2 * Half
Operands == 0 .. M - 1

VARIABLES
  size,         \* of the operands
  hi, lo,       \* the accumulator
  cf, of,
  alive,        \* the emulator has not divided by zero itself
  last          \* history: the last instruction, its operand, hi and lo before it

vars == <<size, hi, lo, cf, of, alive, last>>

Sizes == {"byte", "word", "dword"}

\* An operand that is memory, or a half of the accumulator, or memory at an address that has
\* the accumulator in it.
Places == {"memory", "lo", "hi", "moved"}

\* What a handler may read there; and again, when it has read d and lo has become q.
Read(place) == CASE place = "lo" -> {lo} [] place = "hi" -> {hi} [] OTHER -> Values
Again(place, d, q) ==
  CASE place = "lo" -> {q} [] place = "hi" -> {hi} [] place = "moved" -> Values [] OTHER -> {d}

-----------------------------------------------------------------------------
(* Signs: Unsign8 .. Unsign64, Resign8 .. Resign64, SignExtend of          *)
(* x86lib_internal.h.                                                      *)

Signed(x) == IF x < Half THEN x ELSE x - M
WideSigned(x) == IF x < Half * M THEN x ELSE x - M * M

Negative(x) == x >= Half
WideNegative(x) == x >= Half * M

\* Slip: the complement of x, without the one that is added.
WideUnsignComplement(x) == IF WideNegative(x) THEN M * M - 1 - x ELSE x

Unsign(x) == IF Negative(x) THEN M - x ELSE x
WideUnsign(x) == IF WideNegative(x) THEN M * M - x ELSE x

\* Slip: the same.
ResignComplement(x, negate, modulus) == IF negate THEN modulus - 1 - x ELSE x

\* x, negated or not, in so many values.
Resign(x, negate, modulus) == IF negate /\ x # 0 THEN modulus - x ELSE x

SignExtend(b) == IF b < ImmHalf THEN b ELSE M - 2 * ImmHalf + b

\* / and % of C.
Quotient(x, d) == IF x < 0 THEN - ((- x) \div d) ELSE x \div d
Remainder(x, d) == IF x < 0 THEN - ((- x) % d) ELSE x % d

Pair(h, l) == h * M + l

-----------------------------------------------------------------------------
(* The instructions                                                        *)

Nothing ==
  [op |-> "none", place |-> "memory", d |-> 0, imm |-> 0, hi |-> 0, lo |-> 0, fault |-> FALSE]
Done(op, place, d, imm, fault) ==
  last' = [op |-> op, place |-> place, d |-> d, imm |-> imm, hi |-> hi, lo |-> lo,
           fault |-> fault]

Init ==
  /\ size \in Sizes /\ hi \in Operands /\ lo \in Operands
  /\ cf = FALSE /\ of = FALSE /\ alive = TRUE /\ last = Nothing

Flags(c) == cf' = c /\ of' = c

Mul(place, d) ==
  LET result == lo * d
  IN  /\ alive
      /\ hi' = result \div M /\ lo' = result % M
      /\ Flags(result \div M > 0)
      /\ Done("mul", place, d, 0, FALSE)
      /\ UNCHANGED <<size, alive>>

\* The flags are those of the magnitude: for a byte of all of it, else of its high half.
IMul(place, d) ==
  LET magnitude == Unsign(lo) * Unsign(d)
      result == Resign(magnitude, Negative(lo) # Negative(d), M * M)
  IN  /\ alive
      /\ hi' = result \div M /\ lo' = result % M
      /\ Flags((IF size = "byte" THEN magnitude ELSE magnitude \div M) > 0)
      /\ Done("imul", place, d, 0, FALSE)
      /\ UNCHANGED <<size, alive>>

\* IMUL of an operand with an immediate into a register, here lo.  The products of words
\* are compared in a wider type, a signed one for immW, an unsigned one for imm8; those of
\* dwords in their own, where nothing overflows.
IMulImm(place, d, imm) ==
  LET short == Signed(d) * Signed(imm)
  IN  /\ alive /\ size # "byte"
      /\ lo' = (d * imm) % M
      /\ Flags(size = "word" /\ Signed((d * imm) % M) # short)
      /\ Done("imul_immW", place, d, imm, FALSE)
      /\ UNCHANGED <<size, hi, alive>>

IMulImm8(place, d, b) ==
  LET imm == SignExtend(b)
  IN  /\ alive /\ size # "byte"
      /\ lo' = (d * imm) % M
      /\ Flags(size = "word" /\ d * imm >= M)
      /\ Done("imul_imm8", place, d, imm, FALSE)
      /\ UNCHANGED <<size, hi, alive>>

\* What DIV divides when hi and l are in the accumulator: DX << 16 is an int.
Dividend(l) == IF size = "word" THEN WideSigned(Pair(hi, l)) ELSE Pair(hi, l)

\* The quotient goes to the accumulator before the remainder is computed from it, by an
\* operand that is read again; for a byte the remainder then goes where the quotient is.
Div(place, d) ==
  LET q == Quotient(Dividend(lo), d)
      into == q % M
  IN  /\ alive
      /\ \/ /\ d = 0 \/ (d # 0 /\ q > M - 1)
            /\ Done("div", place, d, 0, TRUE)
            /\ UNCHANGED <<hi, lo, alive>>
         \/ /\ d # 0 /\ q <= M - 1
            /\ \E e \in Again(place, d, into) :
                 \/ /\ e = 0 /\ alive' = FALSE
                    /\ lo' = into /\ UNCHANGED hi
                 \/ /\ e # 0 /\ UNCHANGED alive
                    /\ LET r == Remainder(Dividend(into), e) % M
                       IN  IF size = "byte" THEN lo' = r /\ UNCHANGED hi
                           ELSE lo' = into /\ hi' = r
            /\ Done("div", place, d, 0, FALSE)
      /\ UNCHANGED <<size, cf, of>>

\* Magnitudes are divided, and the quotient gets its sign back, the remainder none.  For a
\* byte AX itself becomes the magnitude, and then gets the quotient before the remainder.
IDiv(place, d) ==
  LET x == WideUnsign(Pair(hi, lo))
      by == Unsign(d)
      q == x \div by
      negate == WideNegative(Pair(hi, lo)) # Negative(d)
  IN  /\ alive
      /\ \/ /\ d = 0
            /\ Done("idiv", place, d, 0, TRUE)
            /\ UNCHANGED <<hi, lo>>
         \/ /\ d # 0 /\ q > M - 1
            /\ Done("idiv", place, d, 0, TRUE)
            /\ IF size = "byte" THEN hi' = x \div M /\ lo' = x % M ELSE UNCHANGED <<hi, lo>>
         \/ /\ d # 0 /\ q <= M - 1
            /\ hi' = (IF size = "byte" THEN Pair(x \div M, q) ELSE x) % by
            /\ lo' = Resign(q, negate, M)
            /\ Done("idiv", place, d, 0, FALSE)
      /\ UNCHANGED <<size, cf, of, alive>>

AAD(imm) ==
  /\ alive /\ size = "byte"
  /\ lo' = (hi * imm + lo) % M /\ hi' = 0
  /\ Done("aad", "memory", 0, imm, FALSE)
  /\ UNCHANGED <<size, cf, of, alive>>

AAM(imm) ==
  /\ alive /\ size = "byte"
  /\ \/ imm = 0 /\ Done("aam", "memory", 0, imm, TRUE) /\ UNCHANGED <<hi, lo>>
     \/ imm # 0 /\ Done("aam", "memory", 0, imm, FALSE) /\ hi' = lo \div imm /\ lo' = lo % imm
  /\ UNCHANGED <<size, cf, of, alive>>

\* Slip: the least number is positive.
ExtendAbove ==
  /\ alive
  /\ hi' = IF lo > Half THEN M - 1 ELSE 0
  /\ Done("extend", "memory", 0, 0, FALSE)
  /\ UNCHANGED <<size, lo, cf, of, alive>>

\* CBW, CWD, CDQ; and CWDE, for the halves of EAX.
Extend ==
  /\ alive
  /\ hi' = IF Negative(lo) THEN M - 1 ELSE 0
  /\ Done("extend", "memory", 0, 0, FALSE)
  /\ UNCHANGED <<size, lo, cf, of, alive>>

Next ==
  \/ \E place \in Places : \E d \in Read(place) :
       \/ Mul(place, d) \/ IMul(place, d) \/ Div(place, d) \/ IDiv(place, d)
       \/ \E imm \in Values : IMulImm(place, d, imm)
       \/ \E b \in Values : b < 2 * ImmHalf /\ IMulImm8(place, d, b)
  \/ \E imm \in Values : AAD(imm) \/ AAM(imm)
  \/ Extend

Spec == Init /\ [][Next]_vars

-----------------------------------------------------------------------------
(* Properties                                                              *)

TypeOK ==
  /\ size \in Sizes /\ hi \in Operands /\ lo \in Operands
  /\ cf \in BOOLEAN /\ of \in BOOLEAN /\ alive \in BOOLEAN
  /\ last \in [op : {"none", "mul", "imul", "imul_immW", "imul_imm8", "div", "idiv", "aad", "aam",
                     "extend"},
               place : Places, d : Operands, imm : Operands, hi : Operands, lo : Operands,
               fault : BOOLEAN]

Abs(x) == IF x < 0 THEN - x ELSE x
Fits(x) == - Half <= x /\ x < Half

\* A multiplication leaves the whole product, of signed operands a signed one, although IMUL
\* goes by way of magnitudes; of one with an immediate the low half.  CF and OF are those
\* of x86 for MUL and for IMUL of words with an immediate word.  Elsewhere they are not: IMUL
\* compares the magnitude with 0 for a byte, where they are set too often, and with M for
\* the others, where they are not set from Half to M; so does IMUL of a word with an
\* immediate byte, for factors that are not negative.
Products ==
  LET product == Signed(last.lo) * Signed(last.d)
      short == Signed(last.d) * Signed(last.imm)
  IN  /\ last.op \in {"mul", "imul", "imul_immW", "imul_imm8"} => cf = of
      /\ last.op = "mul" => /\ Pair(hi, lo) = last.lo * last.d
                            /\ cf <=> last.lo * last.d >= M
      /\ last.op = "imul" => /\ WideSigned(Pair(hi, lo)) = product
                             /\ size = "byte" => (~ Fits(product) => cf)
                             /\ size # "byte" =>
                                  (cf => ~ Fits(product)) /\ (~ cf => Abs(product) < M)
      /\ last.op \in {"imul_immW", "imul_imm8"} => lo = short % M
      /\ last.op = "imul_immW" /\ size = "word" => (cf <=> ~ Fits(short))
      /\ last.op = "imul_imm8" /\ size = "word" /\ ~ Negative(last.d) /\ ~ Negative(last.imm) =>
           (cf <=> short >= M)

\* The dividend and the divisor of the last division.
X == Pair(last.hi, last.lo)
SX == WideSigned(X)
SD == Signed(last.d)

\* Quotient of signed numbers.
Ratio(n, d) == IF d < 0 THEN - Quotient(n, - d) ELSE Quotient(n, d)

\* A word is divided by DIV as x86 does only if its dividend is not negative as an int.
Divisible == size # "word" \/ last.hi < Half

\* A division raises the fault exactly if the quotient is undefined or does not fit, where IDIV
\* asks if its magnitude fits an unsigned operand; and then, a byte's IDIV apart, leaves the
\* accumulator.  If there is no fault, lo is the quotient: of DIV for words and dwords, of
\* IDIV for all sizes when it fits as a signed one.  hi is the magnitude of the remainder
\* after IDIV for words and dwords.  The emulator divides by zero itself only if the divisor
\* is at an address that has the accumulator in it, or if a word's dividend is negative.
Quotients ==
  /\ last.op = "div" /\ Divisible => (last.fault <=> last.hi >= last.d)
  /\ last.op = "idiv" => (last.fault <=> Abs(SX) >= M * Abs(SD))
  /\ last.op = "aam" => (last.fault <=> last.imm = 0)
  /\ last.fault /\ ~ (last.op = "idiv" /\ size = "byte") => hi = last.hi /\ lo = last.lo
  /\ last.op = "div" /\ ~ last.fault /\ size # "byte" /\ Divisible =>
       lo * last.d <= X /\ X < (lo + 1) * last.d
  /\ last.op = "idiv" /\ ~ last.fault =>
       LET fits == Fits(Ratio(SX, SD))
           remainder == Abs(SX) - Abs(Signed(lo)) * Abs(SD)
       IN  /\ fits => /\ remainder \in 0 .. Abs(SD) - 1
                      /\ Signed(lo) * SD * SX >= 0
           /\ fits /\ size # "byte" => hi = remainder
  /\ ~ alive => last.place = "moved" \/ ~ Divisible

\* DIV after MUL by the same operand, IDIV after IMUL, IDIV after an extension, AAD after AAM.
MulUndone ==
  last.op = "mul" /\ last'.op = "div" /\ last'.d = last.d /\ last.d # 0
  /\ size # "byte" /\ (size = "word" => hi < Half) =>
    ~ last'.fault /\ lo' = last.lo

IMulUndone ==
  last.op = "imul" /\ last'.op = "idiv" /\ last'.d = last.d /\ last.d # 0 =>
    /\ ~ last'.fault /\ lo' = last.lo
    /\ size # "byte" => hi' = 0

Extended ==
  last.op = "extend" /\ last'.op = "idiv" /\ last'.d # 0 =>
    /\ ~ last'.fault
    /\ LET n == Signed(last.lo)
           d == Signed(last'.d)
       IN  Signed(lo') = IF n = - Half /\ d = -1 THEN - Half ELSE Ratio(n, d)

AamUndone ==
  last.op = "aam" /\ ~ last.fault /\ last'.op = "aad" /\ last'.imm = last.imm =>
    lo' = last.lo /\ hi' = 0

\* A multiplication is undone by a division by the same operand: DIV gives back the factor of
\* MUL, for words when the product is no negative int; IDIV that of IMUL, and the number that
\* CBW, CWD or CDQ has extended divided by it; AAD gives back what AAM has taken apart.
Undone == [][MulUndone /\ IMulUndone /\ Extended /\ AamUndone]_vars

=============================================================================
