----------------------------- MODULE ArithProofs -----------------------------
(***************************************************************************)
(* Proofs about Arith, for digits, bytes and operands of every size and    *)
(* long additions of every length, and about Shifter, for operands of      *)
(* every width, every count and long shifts of every length.               *)
(***************************************************************************)
EXTENDS Arith, Shifter, WellFoundedInduction, TLAPS

-----------------------------------------------------------------------------
(* Arithmetic modulo the operand size.                                     *)

\* A sum or difference of two residues leaves the range at most once.
LEMMA WrapOnce ==
  ASSUME NEW m \in Nat \ {0}, NEW a \in 0 .. m - 1, NEW b \in 0 .. m - 1
  PROVE  /\ (a + b) % m = IF a + b < m THEN a + b ELSE a + b - m
         /\ (a - b) % m = IF b <= a THEN a - b ELSE a - b + m
  OBVIOUS

\* What is left of a number modulo m is below m, and the sign bit of an operand is a bit.
LEMMA Remainder ==
  ASSUME NEW m \in Nat \ {0}, NEW x \in Int
  PROVE  x % m \in 0 .. m - 1
  OBVIOUS

LEMMA TopBit ==
  ASSUME NEW half \in Nat \ {0}, NEW x \in 0 .. 2 * half - 1
  PROVE  x \div half \in {0, 1}
  OBVIOUS

\* Weights of sign bits are positive.
LEMMA Sizes ==
  /\ ByteHalf \in Nat \ {0} /\ Nib \in Nat \ {0} /\ Ten \in Nat \ {0}
  /\ ByteMod \in Nat \ {0}
  /\ \A half \in Halves : half \in Nat \ {0}
<1>1. /\ Nib \in Nat /\ Ten \in Nat /\ ByteHalf \in Nat /\ 1 < Ten /\ Ten <= Nib
      /\ 2 * ByteHalf = Nib * Nib
  BY ArithAssumption DEF ByteMod
<1>2. Nib * Nib >= Nib
  BY <1>1
<1>3. ByteHalf \in Nat \ {0}
  BY <1>1, <1>2
<1>4. ASSUME NEW half \in Halves PROVE half \in Nat \ {0}
  <2>1. PICK k \in 1 .. half : half = k * ByteHalf
    BY ArithAssumption
  <2> QED
    BY <2>1, ArithAssumption
<1> QED
  BY <1>1, <1>3, <1>4 DEF ByteMod

\* An addition stores the sum less the carry, and a subtraction the difference plus the
\* borrow, in units of the operand size.
LEMMA AddCarries ==
  ASSUME h \in Halves, NEW a \in Operand, NEW b \in Operand
  PROVE  /\ Plus(a, b) \in Operand /\ CarryOut(a, b) \in Bit
         /\ a + b - Plus(a, b) = CarryOut(a, b) * Mod
<1>1. Mod \in Nat \ {0} /\ a \in 0 .. Mod - 1 /\ b \in 0 .. Mod - 1
  BY Sizes DEF Mod, Operand
<1>2. Plus(a, b) = IF a + b < Mod THEN a + b ELSE a + b - Mod
  BY <1>1, WrapOnce DEF Plus
<1> HIDE DEF Mod
<1>3. CASE a + b < Mod
  <2>1. Plus(a, b) = a + b /\ CarryOut(a, b) = 0
    BY <1>1, <1>2, <1>3 DEF CarryOut, Flag
  <2> QED
    BY <1>1, <1>3, <2>1 DEF Operand, Bit
<1>4. CASE ~ (a + b < Mod)
  <2>1. Plus(a, b) = a + b - Mod /\ CarryOut(a, b) = 1
    BY <1>1, <1>2, <1>4 DEF CarryOut, Flag
  <2> QED
    BY <1>1, <1>4, <2>1 DEF Operand, Bit
<1> QED
  BY <1>3, <1>4

LEMMA SubBorrows ==
  ASSUME h \in Halves, NEW a \in Operand, NEW b \in Operand
  PROVE  /\ Minus(a, b) \in Operand /\ Borrow(a, b) \in Bit
         /\ a - b - Minus(a, b) = -(Borrow(a, b) * Mod)
         /\ Minus(a, b) = 0 <=> a = b
<1>1. Mod \in Nat \ {0} /\ a \in 0 .. Mod - 1 /\ b \in 0 .. Mod - 1
  BY Sizes DEF Mod, Operand
<1>2. Minus(a, b) = IF b <= a THEN a - b ELSE a - b + Mod
  BY <1>1, WrapOnce DEF Minus
<1> HIDE DEF Mod
<1>3. CASE b <= a
  <2>1. Minus(a, b) = a - b /\ Borrow(a, b) = 0
    BY <1>1, <1>2, <1>3 DEF Borrow, Flag
  <2> QED
    BY <1>1, <1>3, <2>1 DEF Operand, Bit
<1>4. CASE ~ (b <= a)
  <2>1. Minus(a, b) = a - b + Mod /\ Borrow(a, b) = 1
    BY <1>1, <1>2, <1>4 DEF Borrow, Flag
  <2> QED
    BY <1>1, <1>4, <2>1 DEF Operand, Bit
<1> QED
  BY <1>3, <1>4

\* The flags an addition, subtraction or logical instruction sets are bits.
LEMMA FlagBits ==
  ASSUME h \in Halves, NEW a, NEW b,
         \/ AddFlags(a, b) /\ Plus(a, b) \in Operand
         \/ SubFlags(a, b) /\ Minus(a, b) \in Operand
  PROVE  zf' \in Bit /\ sf' \in Bit /\ of' \in Bit /\ af' \in Bit
<1>1. \A x \in Operand : SignBit(x) \in Bit
  BY Sizes, TopBit DEF Operand, Mod, SignBit, Bit
<1>2. \A p : Flag(p) \in Bit
  BY DEF Flag, Bit
<1>3. CASE AddFlags(a, b) /\ Plus(a, b) \in Operand
  BY <1>1, <1>2, <1>3 DEF AddFlags, ResultFlags, Overflow
<1>4. CASE SubFlags(a, b) /\ Minus(a, b) \in Operand
  BY <1>1, <1>2, <1>4 DEF SubFlags, ResultFlags, Overflow
<1> QED
  BY <1>3, <1>4

-----------------------------------------------------------------------------
(* The long sum.  unit, owed and lost are multiplied, so the steps name them *)
(* and speak of numbers only.                                              *)

ChainType ==
  [kind : {"none", "add", "sub"}, half : Halves, limbs : Nat, unit : Nat, owed : Int,
   lost : Int]

\* What an operand adds to the long sum, multiplied out: x is lost in its place, it
\* takes one carry in and gives another.
LEMMA Spread ==
  ASSUME NEW m \in Nat, NEW unit \in Nat, NEW carry \in Bit, NEW c \in Bit, NEW x \in Int
  PROVE  /\ (x + c * m - carry) * unit = x * unit + c * (unit * m) - carry * unit
         /\ (x + carry - c * m) * unit = x * unit + carry * unit - c * (unit * m)
<1>1. /\ c = 0 \/ c = 1
      /\ carry = 0 \/ carry = 1
  BY DEF Bit
<1>2. unit * m \in Int /\ x * unit \in Int
  OBVIOUS
<1>3. (x + c * m - carry) * unit = x * unit + c * (unit * m) - carry * unit
  <2>1. CASE c = 0 /\ carry = 0
    <3>1. x + c * m - carry = x
      BY <2>1
    <3>2. (x) * unit = x * unit
      OBVIOUS
    <3>3. c * (unit * m) = 0 /\ carry * unit = 0
      BY <1>2, <2>1
    <3> QED
      BY <1>2, <3>1, <3>2, <3>3
  <2>2. CASE c = 0 /\ carry = 1
    <3>1. x + c * m - carry = x - 1
      BY <2>2
    <3>2. (x - 1) * unit = x * unit - unit
      OBVIOUS
    <3>3. c * (unit * m) = 0 /\ carry * unit = unit
      BY <1>2, <2>2
    <3> QED
      BY <1>2, <3>1, <3>2, <3>3
  <2>3. CASE c = 1 /\ carry = 0
    <3>1. x + c * m - carry = x + m
      BY <2>3
    <3>2. (x + m) * unit = x * unit + unit * m
      OBVIOUS
    <3>3. c * (unit * m) = unit * m /\ carry * unit = 0
      BY <1>2, <2>3
    <3> QED
      BY <1>2, <3>1, <3>2, <3>3
  <2>4. CASE c = 1 /\ carry = 1
    <3>1. x + c * m - carry = x + m - 1
      BY <2>4
    <3>2. (x + m - 1) * unit = x * unit + unit * m - unit
      OBVIOUS
    <3>3. c * (unit * m) = unit * m /\ carry * unit = unit
      BY <1>2, <2>4
    <3> QED
      BY <1>2, <3>1, <3>2, <3>3
  <2> QED
    BY <1>1, <2>1, <2>2, <2>3, <2>4
<1>4. (x + carry - c * m) * unit = x * unit + carry * unit - c * (unit * m)
  <2>1. CASE c = 0 /\ carry = 0
    <3>1. x + carry - c * m = x
      BY <2>1
    <3>2. (x) * unit = x * unit
      OBVIOUS
    <3>3. c * (unit * m) = 0 /\ carry * unit = 0
      BY <1>2, <2>1
    <3> QED
      BY <1>2, <3>1, <3>2, <3>3
  <2>2. CASE c = 0 /\ carry = 1
    <3>1. x + carry - c * m = x + 1
      BY <2>2
    <3>2. (x + 1) * unit = x * unit + unit
      OBVIOUS
    <3>3. c * (unit * m) = 0 /\ carry * unit = unit
      BY <1>2, <2>2
    <3> QED
      BY <1>2, <3>1, <3>2, <3>3
  <2>3. CASE c = 1 /\ carry = 0
    <3>1. x + carry - c * m = x - m
      BY <2>3
    <3>2. (x - m) * unit = x * unit - unit * m
      OBVIOUS
    <3>3. c * (unit * m) = unit * m /\ carry * unit = 0
      BY <1>2, <2>3
    <3> QED
      BY <1>2, <3>1, <3>2, <3>3
  <2>4. CASE c = 1 /\ carry = 1
    <3>1. x + carry - c * m = x + 1 - m
      BY <2>4
    <3>2. (x + 1 - m) * unit = x * unit + unit - unit * m
      OBVIOUS
    <3>3. c * (unit * m) = unit * m /\ carry * unit = unit
      BY <1>2, <2>4
    <3> QED
      BY <1>2, <3>1, <3>2, <3>3
  <2> QED
    BY <1>1, <2>1, <2>2, <2>3, <2>4
<1> QED
  BY <1>3, <1>4

\* Starting a long sum with an operand whose carry is c.
LEMMA Starts ==
  ASSUME h \in Halves, NEW kind \in {"add", "sub"}, NEW d \in Int, chain' = StartChain(kind, d)
  PROVE  /\ chain' \in ChainType
         /\ chain'.kind = kind /\ chain'.unit = Mod /\ chain'.owed = d /\ chain'.lost = 0
<1>1. Mod \in Nat
  BY Sizes DEF Mod
<1> QED
  BY <1>1 DEF StartChain, ChainType

\* Going on with one, or giving it up.
LEMMA Extends ==
  ASSUME chain \in ChainType, h \in Halves, NEW kind \in {"add", "sub"}, NEW d \in Int,
         NEW x \in Int, chain' = ExtendChain(kind, d, x)
  PROVE  /\ chain' \in ChainType
         /\ \/ chain'.kind = "none"
            \/ /\ chain'.kind = kind /\ chain.kind = kind
               /\ chain'.unit = chain.unit * Mod
               /\ chain'.owed = chain.owed + d * chain.unit
               /\ chain'.lost = chain.lost + x * chain.unit
<1>1. PICK unit \in Nat, owed \in Int, lost \in Int, limbs \in Nat :
        /\ unit = chain.unit /\ owed = chain.owed /\ lost = chain.lost
        /\ limbs = chain.limbs
  BY DEF ChainType
<1>2. Mod \in Nat
  BY Sizes DEF Mod
<1>3. /\ unit * Mod \in Nat /\ limbs + 1 \in Nat
      /\ owed + d * unit \in Int /\ lost + x * unit \in Int
  BY <1>1, <1>2
<1>4. CASE chain' = NoChain
  BY <1>4, ArithAssumption DEF NoChain, ChainType
<1>5. CASE chain' # NoChain
  <2>1. /\ chain.kind = kind
        /\ chain' = [chain EXCEPT !.limbs = limbs + 1, !.unit = unit * Mod,
                                  !.owed = owed + d * unit, !.lost = lost + x * unit]
    BY <1>1, <1>5 DEF ExtendChain
  <2> HIDE DEF Mod
  <2> QED
    BY <1>1, <1>3, <2>1 DEF ChainType
<1> QED
  BY <1>4, <1>5

\* Both properties of the long sum without the records.
ChainOK ==
  /\ chain \in ChainType
  /\ LongResult

\* No long sum.
LEMMA NoSum == chain' = NoChain => ChainOK'
  BY ArithAssumption DEF ChainOK, NoChain, ChainType, LongResult

\* The carry and the long sum stay as they are.
LEMMA SumStays == ChainOK /\ UNCHANGED <<cf, chain>> => ChainOK'
  BY DEF ChainOK, LongResult

\* What SBB may subtract are operands, without a borrow its own, and what it loses is what
\* it subtracts less than its operand and the borrow.
LEMMA TakenOperands ==
  ASSUME h \in Halves, cf \in Bit, NEW arg \in Operand
  PROVE  /\ Taken(arg) \subseteq Operand /\ (cf = 0 => Taken(arg) = {arg})
         /\ \A subt \in Taken(arg) : Lost(arg, subt) = subt - arg - cf
<1>1. Mod \in Nat \ {0} /\ h \in Nat \ {0} /\ ByteHalf \in Nat \ {0}
  BY Sizes DEF Mod
<1>2. arg \in 0 .. Mod - 1 /\ cf \in 0 .. Mod - 1
  BY <1>1 DEF Operand, Bit, Mod
<1>3. Minus(arg, cf) = IF cf <= arg THEN arg - cf ELSE arg - cf + Mod
  BY <1>1, <1>2, WrapOnce DEF Minus
<1>4. Minus(arg, cf) \in Operand /\ (cf = 0 => Minus(arg, cf) = arg)
  <2> HIDE DEF Mod
  <2> QED
    BY <1>1, <1>2, <1>3 DEF Operand, Bit
<1>5. ByteHalf <= h
  <2>1. PICK k \in 1 .. h : h = k * ByteHalf
    BY ArithAssumption
  <2> QED
    BY <1>1, <2>1
<1>6. ByteHalf - 1 \in Operand
  BY <1>1, <1>5 DEF Operand, Mod
<1>7. ASSUME NEW subt \in Taken(arg) PROVE Lost(arg, subt) = subt - arg - cf
  <2>1. CASE subt = Minus(arg, cf)
    <3> HIDE DEF Mod
    <3>1. cf = 0 \/ cf = 1
      BY DEF Bit
    <3>2. CASE cf <= arg
      <4>1. subt = arg - cf /\ ~ (arg < cf) /\ ~ (subt < arg - cf)
        BY <1>1, <1>2, <1>3, <2>1, <3>2
      <4> QED
        BY <1>1, <1>2, <3>1, <4>1 DEF Lost
    <3>3. CASE ~ (cf <= arg)
      <4>1. subt = arg - cf + Mod /\ arg < cf /\ ~ (subt < arg - cf)
        BY <1>1, <1>2, <1>3, <2>1, <3>3
      <4> QED
        BY <1>1, <1>2, <3>1, <4>1 DEF Lost
    <3> QED
      BY <3>2, <3>3
  <2>2. CASE cf = 1 /\ ~ InByte /\ arg = Minus(0, ByteHalf) /\ subt = ByteHalf - 1
    <3>1. ByteHalf < h
      BY <1>1, <1>5, <2>2 DEF InByte
    <3>2. ByteHalf \in 0 .. Mod - 1 /\ 0 \in 0 .. Mod - 1 /\ ByteMod < Mod
      BY <1>1, <3>1 DEF Mod, ByteMod
    <3> HIDE DEF Mod
    <3>3. arg = Mod - ByteHalf
      <4>1. Minus(0, ByteHalf) = 0 - ByteHalf + Mod
        BY <1>1, <3>2, WrapOnce DEF Minus
      <4> QED
        BY <1>1, <2>2, <4>1
    <3>4. ~ (arg < cf) /\ subt < arg - cf
      BY <1>1, <2>2, <3>2, <3>3 DEF ByteMod
    <3> QED
      BY <1>1, <2>2, <3>3, <3>4 DEF Lost, ByteMod
  <2> QED
    BY <2>1, <2>2 DEF Taken
<1> QED
  BY <1>4, <1>6, <1>7 DEF Taken

\* ADD and SUB start a long sum, ADC and SBB go on with it.
LEMMA ArithmeticKeepsSum ==
  ASSUME ChainOK, h \in Halves, acc \in Operand, cf \in Bit, NEW arg \in Operand,
         Add(arg) \/ Adc(arg) \/ Sub(arg) \/ Sbb(arg)
  PROVE  ChainOK'
<1>1. Mod \in Nat \ {0} /\ acc \in Nat /\ arg \in Nat
  BY Sizes DEF Mod, Operand
<1> USE DEF ChainOK
<1>2. CASE Add(arg)
  <2>1. acc + arg - acc' = cf' * Mod /\ cf' \in Bit /\ acc' \in Operand
    BY <1>2, AddCarries DEF Add
  <2>2. cf' * Mod \in Int
    BY <1>1, <2>1 DEF Bit
  <2>3. chain' \in ChainType /\ chain'.kind = "add" /\ chain'.unit = Mod
        /\ chain'.owed = cf' * Mod /\ chain'.lost = 0
    BY <1>2, <2>1, <2>2, Starts DEF Add
  <2> QED
    BY <2>2, <2>3 DEF LongResult
<1>3. CASE Sub(arg)
  <2>1. acc - arg - acc' = -(cf' * Mod) /\ cf' \in Bit /\ acc' \in Operand
    BY <1>3, SubBorrows DEF Sub
  <2>2. -(cf' * Mod) \in Int /\ cf' * Mod \in Int
    BY <1>1, <2>1 DEF Bit
  <2>3. chain' \in ChainType /\ chain'.kind = "sub" /\ chain'.unit = Mod
        /\ chain'.owed = -(cf' * Mod) /\ chain'.lost = 0
    BY <1>3, <2>1, <2>2, Starts DEF Sub
  <2> QED
    BY <2>2, <2>3 DEF LongResult
<1>4. CASE Adc(arg)
  <2> DEFINE adder == Plus(arg, cf)
             x == IF adder < arg THEN Mod ELSE 0
  <2>1. adder \in Operand /\ adder = arg + cf - x /\ x \in Int
    <3>1. cf \in 0 .. Mod - 1 /\ arg \in 0 .. Mod - 1
      BY <1>1, Sizes DEF Bit, Mod, Operand
    <3>2. adder = IF arg + cf < Mod THEN arg + cf ELSE arg + cf - Mod
      BY <1>1, <3>1, WrapOnce DEF Plus
    <3> HIDE DEF adder, Mod
    <3> QED
      BY <1>1, <3>1, <3>2 DEF Operand, Bit
  <2>2. acc + adder - acc' = cf' * Mod /\ cf' \in Bit /\ acc' \in Operand
    BY <1>4, <2>1, AddCarries DEF Adc
  <2>3. chain' = ExtendChain("add", acc + arg - acc', x)
    BY <1>4 DEF Adc
  <2> HIDE DEF adder, x
  <2>4. PICK d \in Int : d = acc + arg - acc' /\ d = x + cf' * Mod - cf
    <3>1. acc' \in Nat /\ cf \in Nat /\ cf' * Mod \in Int
      BY <1>1, <2>2 DEF Operand, Bit
    <3>2. PICK r \in Nat, c \in Nat, p \in Int : r = acc' /\ c = cf /\ p = cf' * Mod
      BY <3>1
    <3>3. acc + (arg + c - x) - r = p
      BY <2>1, <2>2, <3>2
    <3>4. acc + arg - r \in Int /\ acc + arg - r = x + p - c
      BY <1>1, <2>1, <3>3
    <3> QED
      BY <3>2, <3>4
  <2>5. chain' \in ChainType
        /\ \/ chain'.kind = "none"
           \/ /\ chain'.kind = "add" /\ chain.kind = "add"
              /\ chain'.unit = chain.unit * Mod
              /\ chain'.owed = chain.owed + d * chain.unit
              /\ chain'.lost = chain.lost + x * chain.unit
    BY <2>1, <2>3, <2>4, Extends
  <2>6. ASSUME chain'.kind = "add" PROVE chain'.owed = chain'.lost + cf' * chain'.unit
    <3>1. PICK unit \in Nat, owed \in Int, lost \in Int :
            unit = chain.unit /\ owed = chain.owed /\ lost = chain.lost
      BY DEF ChainType
    <3>2. owed = lost + cf * unit
      BY <2>5, <2>6, <3>1 DEF LongResult
    <3>3. PICK c \in Bit, m \in Nat : c = cf' /\ m = Mod
      BY <1>1, <2>2
    <3>4. d = x + c * m - cf
      BY <2>4, <3>3
    <3>5. d * unit = x * unit + c * (unit * m) - cf * unit
      <4>1. (x + c * m - cf) * unit = x * unit + c * (unit * m) - cf * unit
        BY <2>1, Spread
      <4> QED
        BY <3>4, <4>1, Zenon
    <3>6. cf * unit \in Int /\ c * (unit * m) \in Int /\ x * unit \in Int
      BY <2>1 DEF Bit
    <3>7. owed + d * unit = (lost + x * unit) + c * (unit * m)
      BY <3>2, <3>5, <3>6
    <3> QED
      BY <2>5, <2>6, <3>1, <3>3, <3>7
  <2> QED
    BY <2>5, <2>6 DEF LongResult
<1>5. CASE Sbb(arg)
  <2>1. PICK subt \in Taken(arg) :
          /\ acc' = Minus(acc, subt) /\ cf' = Borrow(acc, subt)
          /\ chain' = ExtendChain("sub", acc - arg - acc', subt - arg - cf)
    BY <1>5, TakenOperands DEF Sbb
  <2>2. subt \in Operand /\ subt \in Nat
    BY TakenOperands DEF Operand
  <2>3. acc - subt - acc' = -(cf' * Mod) /\ cf' \in Bit /\ acc' \in Operand
    BY <2>1, <2>2, SubBorrows
  <2>4. PICK x \in Int : x = subt - arg - cf
    BY <1>1, <2>2 DEF Bit
  <2>5. PICK d \in Int : d = acc - arg - acc' /\ d = x + cf - cf' * Mod
    <3>1. acc' \in Nat /\ cf \in Nat /\ cf' * Mod \in Int
      BY <1>1, <2>3 DEF Operand, Bit
    <3>2. PICK r \in Nat, c \in Nat, p \in Int : r = acc' /\ c = cf /\ p = cf' * Mod
      BY <3>1
    <3>3. acc - subt - r = -p /\ x = subt - arg - c
      BY <2>3, <2>4, <3>2
    <3>4. acc - arg - r \in Int /\ acc - arg - r = x + c - p
      BY <1>1, <2>2, <3>3
    <3> QED
      BY <3>2, <3>4
  <2>6. chain' \in ChainType
        /\ \/ chain'.kind = "none"
           \/ /\ chain'.kind = "sub" /\ chain.kind = "sub"
              /\ chain'.unit = chain.unit * Mod
              /\ chain'.owed = chain.owed + d * chain.unit
              /\ chain'.lost = chain.lost + x * chain.unit
    BY <2>1, <2>4, <2>5, Extends
  <2>7. ASSUME chain'.kind = "sub" PROVE chain'.owed = chain'.lost - cf' * chain'.unit
    <3>1. PICK unit \in Nat, owed \in Int, lost \in Int :
            unit = chain.unit /\ owed = chain.owed /\ lost = chain.lost
      BY DEF ChainType
    <3>2. owed = lost - cf * unit
      BY <2>6, <2>7, <3>1 DEF LongResult
    <3>3. PICK c \in Bit, m \in Nat : c = cf' /\ m = Mod
      BY <1>1, <2>3
    <3>4. d = x + cf - c * m
      BY <2>5, <3>3
    <3>5. d * unit = x * unit + cf * unit - c * (unit * m)
      <4>1. (x + cf - c * m) * unit = x * unit + cf * unit - c * (unit * m)
        BY Spread
      <4> QED
        BY <3>4, <4>1, Zenon
    <3>6. cf * unit \in Int /\ c * (unit * m) \in Int /\ x * unit \in Int
      BY DEF Bit
    <3>7. owed + d * unit = (lost + x * unit) - c * (unit * m)
      BY <3>2, <3>5, <3>6
    <3> QED
      BY <2>6, <2>7, <3>1, <3>3, <3>7
  <2> QED
    BY <2>6, <2>7 DEF LongResult
<1> QED
  BY <1>2, <1>3, <1>4, <1>5

-----------------------------------------------------------------------------
(* Types                                                                   *)

LastType ==
  [op : {"none", "add", "adc", "sub", "sbb", "cmp", "inc", "dec", "aaa", "aas", "daa", "das"},
   base : Nat, arg : Nat, cin : Bit, res : Nat]

RegsOK == h \in Halves /\ acc \in Operand /\ ah \in Byte
FlagsOK == cf \in Bit /\ zf \in Bit /\ sf \in Bit /\ of \in Bit /\ af \in Bit
LastOK == last \in LastType

ArithInv == RegsOK /\ FlagsOK /\ LastOK /\ ChainOK /\ UnsignedConditions

LEMMA ArithInvTypes == ArithInv => TypeOK /\ LongResult
  BY DEF ArithInv, RegsOK, FlagsOK, LastOK, LastType, ChainOK, ChainType, TypeOK

\* Results of the size in use.
LEMMA InstrType ==
  ASSUME NEW op \in {"add", "adc", "sub", "sbb", "cmp", "inc", "dec"},
         NEW base \in Operand, NEW arg \in Operand, NEW cin \in Bit, NEW res \in Operand,
         h \in Halves
  PROVE  Instr(op, base, arg, cin, res) \in LastType
<1>1. base \in Nat /\ arg \in Nat /\ res \in Nat
  BY Sizes DEF Operand, Mod
<1> QED
  BY <1>1 DEF Instr, LastType

LEMMA NoInstrType == NoInstr \in LastType
  BY DEF NoInstr, LastType, Bit

\* A result of zero means equal operands, a borrow a smaller first one.
LEMMA Compares ==
  ASSUME h \in Halves, NEW base \in Operand, NEW arg \in Operand, NEW op, NEW res,
         cf' = Borrow(base, arg), SubFlags(base, arg),
         last' = Instr(op, base, arg, 0, res)
  PROVE  UnsignedConditions'
<1>1. base \in Nat /\ arg \in Nat
  BY Sizes DEF Operand, Mod
<1>2. zf' = Flag(base = arg)
  BY SubBorrows DEF SubFlags, ResultFlags, Flag
<1>3. last'.base = base /\ last'.arg = arg
  BY DEF Instr
<1>4. cf' = 1 <=> base < arg
  BY <1>1 DEF Borrow, Flag
<1>5. cf' = 0 <=> base >= arg
  BY <1>1 DEF Borrow, Flag
<1>6. /\ zf' = 1 <=> base = arg
      /\ zf' = 0 <=> base # arg
  BY <1>2 DEF Flag
<1>7. /\ Condition(2)' <=> cf' = 1
      /\ Condition(3)' <=> cf' = 0
      /\ Condition(4)' <=> zf' = 1
      /\ Condition(5)' <=> zf' = 0
      /\ Condition(6)' <=> cf' = 1 \/ zf' = 1
      /\ Condition(7)' <=> cf' = 0 /\ zf' = 0
  BY DEF Condition
<1>8. /\ Condition(2)' <=> last'.base < last'.arg
      /\ Condition(3)' <=> last'.base >= last'.arg
      /\ Condition(4)' <=> last'.base = last'.arg
      /\ Condition(5)' <=> last'.base # last'.arg
  BY <1>3, <1>4, <1>5, <1>6, <1>7
<1>9. /\ Condition(6)' <=> last'.base <= last'.arg
      /\ Condition(7)' <=> last'.base > last'.arg
  BY <1>1, <1>3, <1>4, <1>5, <1>6, <1>7
<1> QED
  BY <1>8, <1>9 DEF UnsignedConditions

\* The part of an instruction that every addition and subtraction has.
LEMMA SameSize ==
  ASSUME h \in Halves, ah \in Byte, UNCHANGED <<h, ah>>, NEW x \in Operand, acc' = x
  PROVE  RegsOK'
  BY DEF RegsOK, Operand, Mod

LEMMA OtherInstr ==
  ASSUME last'.op \notin {"sub", "cmp"} PROVE UnsignedConditions'
  BY DEF UnsignedConditions

LEMMA ArithmeticStep ==
  ASSUME ArithInv, NEW arg \in Operand, WithOperand(arg)
  PROVE  ArithInv'
<1>1. h \in Halves /\ acc \in Operand /\ ah \in Byte /\ cf \in Bit
  BY DEF ArithInv, RegsOK, FlagsOK
<1>2. cf \in Operand /\ 0 \in Bit
  BY <1>1, Sizes DEF Operand, Mod, Bit
<1>3. CASE Add(arg)
  <2>1. acc' = Plus(acc, arg) /\ Plus(acc, arg) \in Operand /\ cf' \in Bit
    BY <1>1, <1>3, AddCarries DEF Add
  <2>2. RegsOK'
    BY <1>1, <1>3, <2>1, SameSize DEF Add
  <2>3. FlagsOK'
    BY <1>1, <1>3, <2>1, FlagBits DEF Add, FlagsOK
  <2>4. last' = Instr("add", acc, arg, 0, Plus(acc, arg))
    BY <1>3 DEF Add
  <2>5. LastOK'
    BY <1>1, <1>2, <2>1, <2>4, InstrType DEF LastOK
  <2>6. UnsignedConditions'
    BY <2>4, OtherInstr DEF Instr
  <2> QED
    BY <1>1, <1>3, <2>2, <2>3, <2>5, <2>6, ArithmeticKeepsSum DEF ArithInv
<1>4. CASE Adc(arg)
  <2> DEFINE adder == Plus(arg, cf)
  <2>1. adder \in Operand
    BY <1>1, <1>2, AddCarries
  <2>2. acc' = Plus(acc, adder) /\ Plus(acc, adder) \in Operand /\ cf' \in Bit
    BY <1>1, <1>4, <2>1, AddCarries DEF Adc
  <2>3. RegsOK'
    BY <1>1, <1>4, <2>2, SameSize DEF Adc
  <2>4. FlagsOK'
    BY <1>1, <1>4, <2>2, FlagBits DEF Adc, FlagsOK
  <2>5. last' = Instr("adc", acc, arg, cf, Plus(acc, adder))
    BY <1>4 DEF Adc
  <2>6. LastOK'
    BY <1>1, <2>2, <2>5, InstrType DEF LastOK
  <2>7. UnsignedConditions'
    BY <2>5, OtherInstr DEF Instr
  <2> QED
    BY <1>1, <1>4, <2>3, <2>4, <2>6, <2>7, ArithmeticKeepsSum DEF ArithInv
<1>5. CASE Sub(arg)
  <2>1. acc' = Minus(acc, arg) /\ Minus(acc, arg) \in Operand /\ cf' \in Bit
    BY <1>1, <1>5, SubBorrows DEF Sub
  <2>2. RegsOK'
    BY <1>1, <1>5, <2>1, SameSize DEF Sub
  <2>3. FlagsOK'
    BY <1>1, <1>5, <2>1, FlagBits DEF Sub, FlagsOK
  <2>4. last' = Instr("sub", acc, arg, 0, Minus(acc, arg))
    BY <1>5 DEF Sub
  <2>5. LastOK'
    BY <1>1, <1>2, <2>1, <2>4, InstrType DEF LastOK
  <2>6. UnsignedConditions'
    BY <1>1, <1>5, <2>4, Compares DEF Sub
  <2> QED
    BY <1>1, <1>5, <2>2, <2>3, <2>5, <2>6, ArithmeticKeepsSum DEF ArithInv
<1>6. CASE Sbb(arg)
  <2>1. PICK subt \in Taken(arg) :
          /\ acc' = Minus(acc, subt) /\ cf' = Borrow(acc, subt) /\ SubFlags(acc, subt)
          /\ last' = Instr("sbb", acc, arg, cf, Minus(acc, subt))
          /\ UNCHANGED <<h, ah>>
    BY <1>6 DEF Sbb
  <2>2. subt \in Operand /\ Minus(acc, subt) \in Operand /\ cf' \in Bit
    BY <1>1, <1>2, <2>1, TakenOperands, SubBorrows
  <2>3. RegsOK'
    BY <1>1, <2>1, <2>2, SameSize
  <2>4. FlagsOK'
    BY <1>1, <2>1, <2>2, FlagBits DEF FlagsOK
  <2>5. last' = Instr("sbb", acc, arg, cf, Minus(acc, subt))
    BY <2>1
  <2>6. LastOK'
    BY <1>1, <2>2, <2>5, InstrType DEF LastOK
  <2>7. UnsignedConditions'
    BY <2>5, OtherInstr DEF Instr
  <2> QED
    BY <1>1, <1>6, <2>3, <2>4, <2>6, <2>7, ArithmeticKeepsSum DEF ArithInv
<1>7. CASE Cmp(arg)
  <2>1. Minus(acc, arg) \in Operand /\ cf' \in Bit
    BY <1>1, <1>7, SubBorrows DEF Cmp
  <2>2. RegsOK'
    BY <1>1, <1>7, SameSize DEF Cmp, regs
  <2>3. FlagsOK'
    BY <1>1, <1>7, <2>1, FlagBits DEF Cmp, FlagsOK
  <2>4. last' = Instr("cmp", acc, arg, 0, acc)
    BY <1>7 DEF Cmp
  <2>5. LastOK'
    BY <1>1, <1>2, <2>4, InstrType DEF LastOK
  <2>6. UnsignedConditions'
    BY <1>1, <1>7, <2>4, Compares DEF Cmp
  <2> QED
    BY <1>7, <2>2, <2>3, <2>5, <2>6, NoSum DEF ArithInv, Cmp
<1> QED
  BY <1>3, <1>4, <1>5, <1>6, <1>7 DEF WithOperand

\* INC and DEC leave the carry, and so a long sum, alone.
LEMMA CountStep ==
  ASSUME ArithInv, Inc \/ Dec
  PROVE  ArithInv'
<1>1. h \in Halves /\ acc \in Operand /\ ah \in Byte /\ cf \in Bit
  BY DEF ArithInv, RegsOK, FlagsOK
<1>2. 1 \in Operand /\ 0 \in Bit
  BY <1>1, Sizes DEF Operand, Mod, Bit
<1>3. CASE Inc
  <2>1. acc' = Plus(acc, 1) /\ Plus(acc, 1) \in Operand
    BY <1>1, <1>2, <1>3, AddCarries DEF Inc
  <2>2. RegsOK'
    BY <1>1, <1>3, <2>1, SameSize DEF Inc
  <2>3. FlagsOK'
    BY <1>1, <1>3, <2>1, FlagBits DEF Inc, FlagsOK
  <2>4. last' = Instr("inc", acc, 1, 0, Plus(acc, 1))
    BY <1>3 DEF Inc
  <2>5. LastOK' /\ UnsignedConditions'
    BY <1>1, <1>2, <2>1, <2>4, InstrType, OtherInstr DEF LastOK, Instr
  <2> QED
    BY <1>3, <2>2, <2>3, <2>5, SumStays DEF ArithInv, Inc
<1>4. CASE Dec
  <2>1. acc' = Minus(acc, 1) /\ Minus(acc, 1) \in Operand
    BY <1>1, <1>2, <1>4, SubBorrows DEF Dec
  <2>2. RegsOK'
    BY <1>1, <1>4, <2>1, SameSize DEF Dec
  <2>3. FlagsOK'
    BY <1>1, <1>4, <2>1, FlagBits DEF Dec, FlagsOK
  <2>4. last' = Instr("dec", acc, 1, 0, Minus(acc, 1))
    BY <1>4 DEF Dec
  <2>5. LastOK' /\ UnsignedConditions'
    BY <1>1, <1>2, <2>1, <2>4, InstrType, OtherInstr DEF LastOK, Instr
  <2> QED
    BY <1>4, <2>2, <2>3, <2>5, SumStays DEF ArithInv, Dec
<1> QED
  BY <1>3, <1>4

\* Instructions after which the flags speak of no operands.
LEMMA Forgets ==
  last' = NoInstr => LastOK' /\ UnsignedConditions'
  BY NoInstrType, OtherInstr DEF LastOK, NoInstr

LEMMA MoveStep ==
  ASSUME ArithInv,
         \/ \E half \in Halves : \E v \in 0 .. 2 * half - 1 : Mov(half, v)
         \/ Not
         \/ \E cc \in 0 .. 15 : Setcc(cc)
  PROVE  ArithInv'
<1>1. h \in Halves /\ acc \in Operand /\ ah \in Byte /\ FlagsOK /\ ChainOK
  BY DEF ArithInv, RegsOK
<1>2. ASSUME NEW half \in Halves, NEW v \in 0 .. 2 * half - 1, Mov(half, v)
      PROVE  ArithInv'
  <2>1. RegsOK'
    BY <1>2, Sizes DEF Mov, RegsOK, Operand, Mod, Byte
  <2> QED
    BY <1>1, <1>2, <2>1, Forgets, SumStays DEF ArithInv, Mov, FlagsOK, flags
<1>3. CASE Not
  <2>1. Mod - 1 - acc \in Operand
    BY <1>1, Sizes DEF Operand, Mod
  <2>2. RegsOK'
    BY <1>1, <1>3, <2>1, SameSize DEF Not
  <2> QED
    BY <1>1, <1>3, <2>2, Forgets, SumStays DEF ArithInv, Not, FlagsOK, flags
<1>4. ASSUME NEW cc \in 0 .. 15, Setcc(cc) PROVE ArithInv'
  <2>1. Flag(Condition(cc)) \in Operand
    BY <1>1, Sizes DEF Operand, Mod, Flag
  <2>2. RegsOK'
    BY <1>1, <1>4, <2>1, SameSize DEF Setcc
  <2> QED
    BY <1>1, <1>4, <2>2, Forgets, SumStays DEF ArithInv, Setcc, FlagsOK, flags
<1> QED
  BY <1>2, <1>3, <1>4

LEMMA FlagStep ==
  ASSUME ArithInv, Flip \/ Neg \/ \E v \in Operand : Logic(v) \/ Test(v)
  PROVE  ArithInv'
<1>1. h \in Halves /\ acc \in Operand /\ ah \in Byte /\ FlagsOK
  BY DEF ArithInv, RegsOK
<1>2. CASE Flip
  <2>1. PICK c \in Bit : SetCarry(c)
    <3>1. 0 \in Bit /\ 1 \in Bit /\ 1 - cf \in Bit
      BY <1>1 DEF FlagsOK, Bit
    <3> QED
      BY <1>2, <3>1 DEF Flip, Clc, Stc, Cmc
  <2>2. RegsOK'
    BY <1>1, <2>1, SameSize DEF SetCarry, regs
  <2>3. FlagsOK'
    BY <1>1, <2>1 DEF SetCarry, FlagsOK
  <2> QED
    BY <2>1, <2>2, <2>3, Forgets, NoSum DEF ArithInv, SetCarry
<1>3. CASE Neg
  <2>1. Minus(0, acc) \in Operand
    BY <1>1, Sizes, SubBorrows DEF Operand, Mod
  <2>2. RegsOK'
    BY <1>1, <1>3, <2>1, SameSize DEF Neg
  <2>3. FlagsOK'
    <3>1. CASE InByte /\ acc = Mod - 1
      BY <1>1, <1>3, <3>1 DEF Neg, FlagsOK, Bit
    <3>2. CASE ~ (InByte /\ acc = Mod - 1)
      <4>1. SubFlags(0, acc) /\ cf' = Flag(acc # 0)
        BY <1>3, <3>2 DEF Neg
      <4>2. cf' \in Bit
        BY <4>1 DEF Flag, Bit
      <4> QED
        BY <1>1, <2>1, <4>1, <4>2, FlagBits DEF FlagsOK
    <3> QED
      BY <3>1, <3>2
  <2> QED
    BY <1>3, <2>2, <2>3, Forgets, NoSum DEF ArithInv, Neg
<1>4. ASSUME NEW v \in Operand, Logic(v) \/ Test(v) PROVE ArithInv'
  <2>1. RegsOK'
    BY <1>1, <1>4, SameSize DEF Logic, Test, regs
  <2>2. SignBit(v) \in Bit /\ Flag(v = 0) \in Bit
    BY <1>1, Sizes, TopBit DEF Operand, Mod, SignBit, Bit, Flag
  <2>3. FlagsOK'
    BY <1>1, <1>4, <2>2 DEF Logic, Test, LogicFlags, ResultFlags, FlagsOK, Bit
  <2> QED
    BY <1>4, <2>1, <2>3, Forgets, NoSum DEF ArithInv, Logic, Test
<1> QED
  BY <1>2, <1>3, <1>4

\* Decimal adjustment works on bytes and digits.
LEMMA DecimalStep ==
  ASSUME ArithInv, Decimal
  PROVE  ArithInv'
<1>1. h \in Halves /\ acc \in Operand /\ ah \in Byte /\ FlagsOK /\ last \in LastType /\ ChainOK
  BY DEF ArithInv, RegsOK, LastOK
<1>2. InByte
  BY DEF Decimal, Aaa, Aas, Daa, Das, Aad, Aam
<1>3. Operand = Byte /\ acc \in Nat /\ ah \in Nat
  BY <1>1, <1>2, Sizes DEF InByte, Operand, Mod, Byte, ByteMod
<1>4. Nib \in Nat /\ Ten \in Nat /\ 1 < Ten /\ Ten <= Nib /\ Nib <= ByteMod
  <2>1. Nib \in Nat /\ Nib > 0 /\ ByteMod = Nib * Nib
    BY ArithAssumption, Sizes
  <2>2. Nib <= Nib * Nib
    BY <2>1
  <2> QED
    BY <2>1, <2>2, ArithAssumption
<1>5. \A x \in Int : x % ByteMod \in Byte /\ x % Nib \in Byte
  <2>1. ASSUME NEW x \in Int PROVE x % ByteMod \in Byte
    BY Sizes, Remainder DEF Byte
  <2>2. ASSUME NEW x \in Int PROVE x % Nib \in Byte
    <3>1. x % Nib \in 0 .. Nib - 1
      BY Sizes, Remainder
    <3>2. ByteMod \in Nat
      BY Sizes
    <3> QED
      BY <1>4, <3>1, <3>2 DEF Byte
  <2> QED
    BY <2>1, <2>2
<1>6. /\ Nib - Ten \in Int /\ (Nib - Ten) * Nib \in Int /\ 1 \in Int
      /\ Byte \subseteq Int
  BY <1>4, Sizes DEF Byte
<1>7. ASSUME NEW x \in Byte, NEW n \in Int
      PROVE  Raised(x, n) \in Byte /\ Lowered(x, n) \in Byte
  <2>1. x + n \in Int /\ x - n \in Int
    BY <1>6
  <2> QED
    BY <1>5, <2>1 DEF Raised, Lowered
<1>8. ASSUME NEW x \in Byte PROVE LowDigit(x) \in Byte
  BY <1>5, <1>6 DEF LowDigit
<1>9. CASE Aaa \/ Aas \/ Daa \/ Das
  <2>1. acc \in Byte
    BY <1>1, <1>3
  <2>2. acc' \in Byte /\ ah' \in Byte /\ h' = h
    <3>1. CASE Aaa
      BY <1>1, <1>6, <1>7, <1>8, <2>1, <3>1 DEF Aaa
    <3>2. CASE Aas
      BY <1>1, <1>6, <1>7, <1>8, <2>1, <3>2 DEF Aas
    <3>3. CASE Daa
      BY <1>1, <1>6, <1>7, <2>1, <3>3 DEF Daa
    <3>4. CASE Das
      BY <1>1, <1>6, <1>7, <2>1, <3>4 DEF Das
    <3> QED
      BY <1>9, <3>1, <3>2, <3>3, <3>4
  <2>3. RegsOK'
    BY <1>1, <1>3, <2>2 DEF RegsOK, Operand, Mod, Byte
  <2>4. FlagsOK'
    <3>1. cf' \in Bit /\ af' \in Bit
      BY <1>1, <1>9 DEF Aaa, Aas, Daa, Das, FlagsOK, Bit, Flag
    <3>2. UNCHANGED <<zf, sf, of>>
      BY <1>9 DEF Aaa, Aas, Daa, Das
    <3> QED
      BY <1>1, <3>1, <3>2 DEF FlagsOK
  <2>5. PICK name \in {"aaa", "aas", "daa", "das"} :
          chain' = NoChain /\ (last' = NoInstr \/ last' = [last EXCEPT !.op = name])
    BY <1>9 DEF Aaa, Aas, Daa, Das, Adjusting
  <2>6. LastOK' /\ UnsignedConditions'
    <3>1. CASE last' = NoInstr
      BY <3>1, Forgets
    <3>2. CASE last' = [last EXCEPT !.op = name]
      <4>1. last' \in LastType /\ last'.op = name
        BY <1>1, <3>2 DEF LastType
      <4> QED
        BY <4>1, OtherInstr DEF LastOK
    <3> QED
      BY <2>5, <3>1, <3>2
  <2> QED
    BY <2>3, <2>4, <2>5, <2>6, NoSum DEF ArithInv
<1>10. CASE Aad(Ten)
  <2>1. (ah * Ten + acc) % ByteMod \in Byte /\ 0 \in Byte
    <3>1. ah * Ten \in Int
      BY <1>3, <1>4
    <3>2. ah * Ten + acc \in Int
      BY <1>3, <3>1
    <3>3. (ah * Ten + acc) % ByteMod \in Byte
      BY <1>5, <3>2
    <3>4. 0 \in Byte
      BY Sizes DEF Byte
    <3> QED
      BY <3>3, <3>4
  <2>2. RegsOK'
    BY <1>1, <1>3, <1>10, <2>1 DEF Aad, RegsOK, Operand, Mod, Byte
  <2> QED
    BY <1>1, <1>10, <2>2, Forgets, SumStays DEF ArithInv, Aad, FlagsOK, flags
<1>11. CASE Aam(Ten)
  <2>1. acc \div Ten \in Byte
    <3>1. acc \div Ten \in Nat /\ acc \div Ten <= acc
      BY <1>3, <1>4
    <3>2. ByteMod \in Nat /\ acc \in Byte
      BY <1>1, <1>3, Sizes
    <3> QED
      BY <3>1, <3>2 DEF Byte
  <2>2. acc % Ten \in Byte
    <3>1. acc % Ten \in 0 .. Ten - 1
      BY <1>3, Sizes, Remainder
    <3>2. ByteMod \in Nat
      BY Sizes
    <3> QED
      BY <1>4, <3>1, <3>2 DEF Byte
  <2>3. RegsOK'
    BY <1>1, <1>3, <1>11, <2>1, <2>2 DEF Aam, RegsOK, Operand, Mod, Byte
  <2> QED
    BY <1>1, <1>11, <2>3, Forgets, SumStays DEF ArithInv, Aam, FlagsOK, flags
<1> QED
  BY <1>9, <1>10, <1>11 DEF Decimal

-----------------------------------------------------------------------------
(* Signed comparison.  Small numbers are those bit 7 is the sign of; a     *)
(* byte's difference of two may leave its range, a wider one's cannot.     *)

\* Both sign bits of a small number x that is z as a signed one.
LEMMA SmallBits ==
  ASSUME NEW half \in Halves, NEW z \in Int, - ByteHalf <= z, z < ByteHalf,
         NEW x \in Int, x = IF z < 0 THEN z + 2 * half ELSE z
  PROVE  /\ (x \div ByteHalf) % 2 = IF z < 0 THEN 1 ELSE 0
         /\ x \div half = IF z < 0 THEN 1 ELSE 0
<1>1. PICK b \in Nat \ {0}, k \in Nat \ {0} : b = ByteHalf /\ half = k * b /\ half \in Nat
  <2>1. \E k \in 1 .. half : half = k * ByteHalf
    BY ArithAssumption
  <2> QED
    BY <2>1, Sizes
<1>2. k * b >= b
  <2>1. (k - 1) * b >= 0
    OBVIOUS
  <2> QED
    BY <2>1
<1>3. PICK g \in Nat : g = k * b /\ g = half /\ g >= b
  BY <1>1, <1>2
<1>4. CASE z >= 0
  <2>1. x \div b = 0 /\ x \div g = 0
    BY <1>1, <1>3, <1>4
  <2> QED
    BY <1>1, <1>3, <1>4, <2>1
<1>5. CASE z < 0
  <2>1. x \in g .. 2 * g - 1
    BY <1>1, <1>3, <1>5
  <2>2. x \div g = 1
    BY <2>1
  <2>3. PICK j \in Nat : j = 2 * k - 1
    OBVIOUS
  <2>4. x = j * b + (z + b) /\ z + b \in 0 .. b - 1
    <3>1. j * b = 2 * (k * b) - b
      BY <2>3
    <3> QED
      BY <1>1, <1>3, <1>5, <3>1
  <2>5. x \div b = j
    <3>1. PICK q \in Int : q = x \div b
      OBVIOUS
    <3>2. b * q <= x /\ x < b * q + b
      BY <3>1
    <3>3. PICK t \in Int : t = q - j
      OBVIOUS
    <3>4. b * t < b /\ - b < b * t
      BY <2>4, <3>2, <3>3
    <3>5. (t >= 1 => b * t >= b) /\ (t <= -1 => b * t <= - b)
      OBVIOUS
    <3> QED
      BY <3>1, <3>3, <3>4, <3>5
  <2>6. j % 2 = 1
    BY <2>3
  <2> QED
    BY <1>1, <1>3, <1>5, <2>2, <2>5, <2>6
<1> QED
  BY <1>4, <1>5

\* The flags of a difference of two of them: u and v are the sign bits of s and - t.
LEMMA SignAndOverflow ==
  ASSUME NEW b \in Nat \ {0}, NEW g \in Nat \ {0}, g = b \/ g >= 2 * b,
         NEW s \in Int, NEW t \in Int, - b <= s, s < b, - b < t, t < b,
         NEW res \in Int, res = IF s - t < 0 THEN s - t + 2 * g ELSE s - t,
         NEW u \in {0, 1}, u = IF s < 0 THEN 1 ELSE 0,
         NEW v \in {0, 1}, v = IF - t < 0 THEN 1 ELSE 0,
         NEW sf1 \in {0, 1}, sf1 = IF res < g THEN 0 ELSE 1,
         NEW of1 \in {0, 1}, of1 = IF u = v /\ u # sf1 THEN 1 ELSE 0
  PROVE  sf1 # of1 <=> s < t
<1>1. CASE s < 0 /\ t > 0
  <2>1. res = s - t + 2 * g /\ u = 1 /\ v = 1 /\ s < t
    BY <1>1
  <2>2. sf1 = 1 => of1 = 0
    BY <2>1
  <2>3. sf1 = 0 => of1 = 1
    BY <2>1
  <2> QED
    BY <2>1, <2>2, <2>3
<1>2. CASE s < 0 /\ t <= 0
  <2>1. u = 1 /\ v = 0 /\ of1 = 0
    BY <1>2
  <2>2. s - t < b /\ - b <= s - t
    BY <1>2
  <2>3. sf1 = 1 <=> s < t
    BY <2>2
  <2> QED
    BY <2>1, <2>3
<1>3. CASE s >= 0 /\ t > 0
  <2>1. u = 0 /\ v = 1 /\ of1 = 0
    BY <1>3
  <2>2. s - t < b /\ - b <= s - t
    BY <1>3
  <2>3. sf1 = 1 <=> s < t
    BY <2>2
  <2> QED
    BY <2>1, <2>3
<1>4. CASE s >= 0 /\ t <= 0
  <2>1. u = 0 /\ v = 0 /\ ~ (s < t)
    BY <1>4
  <2>2. sf1 = of1
    BY <2>1
  <2> QED
    BY <2>1, <2>2
<1> QED
  BY <1>1, <1>2, <1>3, <1>4

LEMMA SignedCompare ==
  ASSUME h \in Halves, NEW base \in Operand, NEW arg \in Operand, Small(base), Small(arg),
         Signed(arg) # - ByteHalf
  PROVE  LET of1 == Overflow(Minus(base, arg), base, Minus(0, arg))
             sf1 == SignBit(Minus(base, arg))
         IN  (sf1 # of1) <=> Signed(base) < Signed(arg)
<1>1. PICK b \in Nat \ {0}, g \in Nat \ {0} :
        b = ByteHalf /\ g = h /\ Mod = 2 * g /\ (g = b \/ g >= 2 * b)
  <2>1. PICK k \in 1 .. h : h = k * ByteHalf
    BY ArithAssumption
  <2>2. PICK b \in Nat \ {0} : b = ByteHalf
    BY Sizes
  <2>3. PICK n \in Nat \ {0} : n = k /\ h = n * b /\ h \in Nat \ {0}
    BY <2>1, <2>2, Sizes
  <2>4. n = 1 \/ n * b >= 2 * b
    <3>1. n >= 2 => (n - 2) * b >= 0
      OBVIOUS
    <3> QED
      BY <3>1
  <2>5. n = 1 => n * b = b
    OBVIOUS
  <2>6. h = b \/ h >= 2 * b
    BY <2>3, <2>4, <2>5
  <2> QED
    BY <2>2, <2>3, <2>6 DEF Mod
<1>2. base \in 0 .. 2 * g - 1 /\ arg \in 0 .. 2 * g - 1
  BY <1>1 DEF Operand
<1>3. PICK s \in Int, t \in Int :
        /\ s = Signed(base) /\ t = Signed(arg)
        /\ - b <= s /\ s < b /\ - b < t /\ t < b
        /\ base = IF s < 0 THEN s + 2 * g ELSE s
        /\ arg = IF t < 0 THEN t + 2 * g ELSE t
  <2>1. PICK s \in Int : s = Signed(base) /\ s = IF base < g THEN base ELSE base - 2 * g
    BY <1>1, <1>2 DEF Signed
  <2>2. PICK t \in Int : t = Signed(arg) /\ t = IF arg < g THEN arg ELSE arg - 2 * g
    BY <1>1, <1>2 DEF Signed
  <2>3. - b <= s /\ s < b /\ - b <= t /\ t < b /\ t # - b
    BY <1>1, <2>1, <2>2 DEF Small
  <2>4. - b < t
    BY <2>3
  <2>5. base = IF s < 0 THEN s + 2 * g ELSE s
    BY <1>2, <2>1
  <2>6. arg = IF t < 0 THEN t + 2 * g ELSE t
    BY <1>2, <2>2
  <2> QED
    BY <2>1, <2>2, <2>3, <2>4, <2>5, <2>6
<1>4. PICK res \in 0 .. 2 * g - 1 :
        /\ res = Minus(base, arg)
        /\ res = IF s - t < 0 THEN s - t + 2 * g ELSE s - t
  <2>1. Minus(base, arg) = IF arg <= base THEN base - arg ELSE base - arg + 2 * g
    BY <1>1, <1>2, WrapOnce DEF Minus
  <2> QED
    BY <1>1, <1>2, <1>3, <2>1
<1>5. PICK neg \in 0 .. 2 * g - 1 :
        neg = Minus(0, arg) /\ neg = IF - t < 0 THEN - t + 2 * g ELSE - t
  <2>1. Minus(0, arg) = IF arg <= 0 THEN 0 - arg ELSE 0 - arg + 2 * g
    BY <1>1, <1>2, WrapOnce DEF Minus
  <2> QED
    BY <1>1, <1>2, <1>3, <2>1
<1>6. PICK u \in {0, 1} :
        u = BitSeven(base) /\ u = SignBit(base) /\ u = IF s < 0 THEN 1 ELSE 0
  <2>1. - ByteHalf <= s /\ s < ByteHalf /\ base = (IF s < 0 THEN s + 2 * h ELSE s) /\ base \in Int
    BY <1>1, <1>2, <1>3
  <2>2. /\ (base \div ByteHalf) % 2 = IF s < 0 THEN 1 ELSE 0
        /\ base \div h = IF s < 0 THEN 1 ELSE 0
    BY <2>1, SmallBits
  <2> QED
    BY <2>2 DEF BitSeven, SignBit
<1>7. PICK v \in {0, 1} : v = BitSeven(neg) /\ v = IF - t < 0 THEN 1 ELSE 0
  <2>1. PICK z \in Int : z = - t /\ - b <= z /\ z < b
    <3>1. - b < t /\ t < b
      BY <1>3, Zenon
    <3> QED
      BY <3>1
  <2>2. - ByteHalf <= z /\ z < ByteHalf /\ neg = (IF z < 0 THEN z + 2 * h ELSE z) /\ neg \in Int
    <3>1. neg = IF z < 0 THEN z + 2 * g ELSE z
      BY <1>5, <2>1
    <3> QED
      BY <1>1, <2>1, <3>1
  <2>3. (neg \div ByteHalf) % 2 = IF z < 0 THEN 1 ELSE 0
    BY <2>2, SmallBits
  <2> QED
    BY <2>1, <2>3 DEF BitSeven
<1>8. SignBit(res) = IF res < g THEN 0 ELSE 1
  <2>1. res \div g = IF res < g THEN 0 ELSE 1
    OBVIOUS
  <2> QED
    BY <1>1, <2>1 DEF SignBit
<1>9. PICK sf1 \in {0, 1} :
        sf1 = SignBit(res) /\ sf1 = IF res < g THEN 0 ELSE 1
  BY <1>8
<1>10. PICK of1 \in {0, 1} :
         of1 = Overflow(res, base, neg) /\ of1 = IF u = v /\ u # sf1 THEN 1 ELSE 0
  BY <1>6, <1>7, <1>9 DEF Overflow, Flag
<1>11. sf1 # of1 <=> s < t
  <2>1. (g = b \/ g >= 2 * b) /\ - b <= s /\ s < b /\ - b < t /\ t < b
    BY <1>1, <1>3, Zenon
  <2>2. res \in Int /\ res = IF s - t < 0 THEN s - t + 2 * g ELSE s - t
    BY <1>4
  <2>3. /\ u = IF s < 0 THEN 1 ELSE 0
        /\ v = IF - t < 0 THEN 1 ELSE 0
        /\ sf1 = IF res < g THEN 0 ELSE 1
        /\ of1 = IF u = v /\ u # sf1 THEN 1 ELSE 0
    BY <1>6, <1>7, <1>9, <1>10, Zenon
  <2> QED
    BY <2>1, <2>2, <2>3, SignAndOverflow
<1> QED
  BY <1>3, <1>4, <1>5, <1>9, <1>10, <1>11

LEMMA SignedCompares ==
  ASSUME h \in Halves, NEW base \in Operand, NEW arg \in Operand, NEW op, NEW res,
         SubFlags(base, arg), UNCHANGED h, last' = Instr(op, base, arg, 0, res)
  PROVE  SignedConditions'
<1>1. last'.base = base /\ last'.arg = arg
  BY DEF Instr
<1>2. \A x : Signed(x)' = Signed(x') /\ Small(x)' = Small(x')
  BY DEF Signed, Small, Mod
<1>3. SUFFICES ASSUME Small(base), Small(arg), Signed(arg) # - ByteHalf
               PROVE  /\ Condition(12)' <=> Signed(base) < Signed(arg)
                      /\ Condition(13)' <=> Signed(base) >= Signed(arg)
                      /\ Condition(14)' <=> Signed(base) <= Signed(arg)
                      /\ Condition(15)' <=> Signed(base) > Signed(arg)
  BY <1>1 DEF SignedConditions, Signed, Small, Mod
<1>4. sf' # of' <=> Signed(base) < Signed(arg)
  BY <1>3, SignedCompare DEF SubFlags, ResultFlags
<1>5. /\ zf' = 1 <=> base = arg
      /\ zf' = 0 <=> base # arg
  BY SubBorrows DEF SubFlags, ResultFlags, Flag
<1>6. /\ Condition(12)' <=> sf' # of'
      /\ Condition(13)' <=> sf' = of'
      /\ Condition(14)' <=> sf' # of' \/ zf' = 1
      /\ Condition(15)' <=> sf' = of' /\ zf' = 0
  BY DEF Condition
<1>7. PICK m \in Nat : m = h /\ Mod = 2 * m /\ base \in 0 .. 2 * m - 1 /\ arg \in 0 .. 2 * m - 1
  BY Sizes DEF Mod, Operand
<1>8. PICK s \in Int, t \in Int :
        s = Signed(base) /\ t = Signed(arg) /\ (s = t <=> base = arg)
  <2>1. PICK s \in Int : s = Signed(base) /\ s = IF base < m THEN base ELSE base - 2 * m
    BY <1>7 DEF Signed
  <2>2. PICK t \in Int : t = Signed(arg) /\ t = IF arg < m THEN arg ELSE arg - 2 * m
    BY <1>7 DEF Signed
  <2>3. s = t <=> base = arg
    BY <1>7, <2>1, <2>2
  <2> QED
    BY <2>1, <2>2, <2>3
<1>9. /\ s >= t <=> ~ (s < t)
      /\ s <= t <=> s < t \/ s = t
      /\ s > t <=> ~ (s < t) /\ s # t
  OBVIOUS
<1> QED
  BY <1>4, <1>5, <1>6, <1>8, <1>9

LEMMA SignedStep == ArithInv /\ SignedConditions /\ [Next]_vars => SignedConditions'
<1> SUFFICES ASSUME ArithInv, SignedConditions, [Next]_vars PROVE SignedConditions'
  OBVIOUS
<1>1. h \in Halves /\ acc \in Operand
  BY DEF ArithInv, RegsOK
<1>2. ASSUME last'.op \notin {"sub", "cmp"} PROVE SignedConditions'
  BY <1>2 DEF SignedConditions
<1>3. ASSUME last' = NoInstr PROVE SignedConditions'
  BY <1>2, <1>3 DEF NoInstr
<1>4. ASSUME NEW arg \in Operand, WithOperand(arg) PROVE SignedConditions'
  <2>1. CASE Add(arg) \/ Adc(arg) \/ Sbb(arg)
    <3>1. last'.op \in {"add", "adc", "sbb"}
      BY <2>1 DEF Add, Adc, Sbb, Instr
    <3> QED
      BY <1>2, <3>1
  <2>2. CASE Sub(arg)
    BY <1>1, <2>2, SignedCompares DEF Sub
  <2>3. CASE Cmp(arg)
    BY <1>1, <2>3, SignedCompares DEF Cmp, regs
  <2> QED
    BY <1>4, <2>1, <2>2, <2>3 DEF WithOperand
<1>5. ASSUME NEW v \in Operand, Logic(v) \/ Test(v) PROVE SignedConditions'
  BY <1>3, <1>5 DEF Logic, Test
<1>6. ASSUME NEW half \in Halves, NEW v, Mov(half, v) PROVE SignedConditions'
  BY <1>3, <1>6 DEF Mov
<1>7. ASSUME NEW cc, Setcc(cc) PROVE SignedConditions'
  BY <1>3, <1>7 DEF Setcc
<1>8. CASE Not \/ Neg \/ Flip
  BY <1>3, <1>8 DEF Not, Neg, Flip, Clc, Stc, Cmc, SetCarry
<1>9. CASE Inc \/ Dec
  <2>1. last'.op \in {"inc", "dec"}
    BY <1>9 DEF Inc, Dec, Instr
  <2> QED
    BY <1>2, <2>1
<1>10. CASE Aad(Ten) \/ Aam(Ten)
  BY <1>3, <1>10 DEF Aad, Aam
<1>11. CASE Aaa \/ Aas \/ Daa \/ Das
  <2>1. \E name \in {"aaa", "aas", "daa", "das"} :
          last' = NoInstr \/ last' = [last EXCEPT !.op = name]
    BY <1>11 DEF Aaa, Aas, Daa, Das, Adjusting
  <2>2. last \in LastType
    BY DEF ArithInv, LastOK
  <2>3. last' = NoInstr \/ last'.op \in {"aaa", "aas", "daa", "das"}
    BY <2>1, <2>2 DEF LastType
  <2> QED
    BY <1>2, <1>3, <2>3
<1>12. CASE UNCHANGED vars
  BY <1>12 DEF vars, regs, flags, SignedConditions, Signed, Small, Mod, Condition
<1> QED
  BY <1>4, <1>5, <1>6, <1>7, <1>8, <1>9, <1>10, <1>11, <1>12 DEF Next, Decimal

-----------------------------------------------------------------------------
(* Decimal adjustment, of numbers: n values of a hexadecimal digit, t of a *)
(* decimal one, hi and s what the high and the low digits add up to.       *)

LEMMA DigitOf ==
  ASSUME NEW n \in Nat \ {0}, NEW q \in Int, NEW r \in 0 .. n - 1
  PROVE  (n * q + r) \div n = q /\ (n * q + r) % n = r
<1>1. PICK x \in Int : x = n * q + r
  OBVIOUS
<1>2. PICK p \in Int, z \in 0 .. n - 1 : p = x \div n /\ z = x % n /\ x = n * p + z
  <2>1. PICK p \in Int : p = x \div n
    OBVIOUS
  <2>2. PICK z \in 0 .. n - 1 : z = x % n
    OBVIOUS
  <2> QED
    BY <2>1, <2>2
<1>3. PICK k \in Int : k = p - q
  OBVIOUS
<1>4. n * k = r - z
  BY <1>1, <1>2, <1>3
<1>5. (k >= 1 => n * k >= n) /\ (k <= -1 => n * k <= - n)
  OBVIOUS
<1>6. k = 0
  BY <1>4, <1>5
<1>7. p = q
  BY <1>3, <1>6
<1>8. z = r
  BY <1>1, <1>2, <1>7
<1> QED
  BY <1>1, <1>2, <1>7, <1>8

\* Less than a byte: two digits.
LEMMA TwoDigits ==
  ASSUME NEW n \in Nat \ {0}, NEW q \in 0 .. n - 1, NEW r \in 0 .. n - 1
  PROVE  n * q + r \in 0 .. n * n - 1
<1>1. n * q >= 0 /\ n * (n - 1 - q) >= 0
  OBVIOUS
<1>2. n * (n - 1 - q) = n * n - n - n * q
  OBVIOUS
<1> QED
  BY <1>1, <1>2

\* The high digits with the borrow, and the low digit without it.
LEMMA CarryDown ==
  ASSUME NEW t \in Nat, 1 < t, NEW hi \in 1 - t .. t - 1, NEW s \in 1 - t .. t - 1
  PROVE  \E k \in - t .. t - 1, d \in 0 .. t - 1 :
           /\ k = IF s < 0 THEN hi - 1 ELSE hi
           /\ d = IF s < 0 THEN s + t ELSE s
<1>1. CASE s >= 0
  BY <1>1
<1>2. CASE s < 0
  BY <1>2
<1> QED
  BY <1>1, <1>2

LEMMA AaaNumbers ==
  ASSUME NEW n \in Nat, NEW t \in Nat, 1 < t, t < n, NEW s \in 0 .. 2 * t - 1,
         NEW low \in BOOLEAN, low <=> s % n > t - 1 \/ s >= n
  PROVE  s = IF low THEN t + (((s + (n - t)) % (n * n)) % n) ELSE s % n
<1>1. n * n >= 2 * n
  <2>1. (n - 2) * n >= 0
    OBVIOUS
  <2> QED
    BY <2>1
<1>2. CASE s < t
  BY <1>2
<1>3. CASE s >= t
  <2>1. low
    BY <1>3
  <2>2. PICK m \in Nat : m = n * n /\ m >= 2 * n
    BY <1>1
  <2>3. PICK y \in Nat : y = s + (n - t) /\ y < m
    BY <1>3, <2>2
  <2>4. y % m = y
    BY <2>2, <2>3
  <2>5. y % n = s - t
    <3>1. PICK z \in 0 .. n - 1 : z = s - t
      BY <1>3
    <3>2. (n * 1 + z) % n = z
      BY DigitOf
    <3>3. y = n * 1 + z
      BY <2>3, <3>1
    <3> QED
      BY <3>1, <3>2, <3>3
  <2> QED
    BY <2>1, <2>2, <2>3, <2>4, <2>5
<1> QED
  BY <1>2, <1>3

AasGives(n, t, m, s, x, low) == s = IF low THEN (((x - (n - t)) % m) % n) - t ELSE x % n

LEMMA AasNumbers ==
  ASSUME NEW n \in Nat, NEW t \in Nat, 1 < t, t < n, NEW s \in 1 - t .. t - 1,
         NEW m \in Nat, m = n * n, NEW x \in Nat, s >= 0 => x = s, s < 0 => x = s + m,
         NEW low \in BOOLEAN, low <=> x % n > t - 1 \/ s < 0
  PROVE  AasGives(n, t, m, s, x, low)
<1> USE DEF AasGives
<1>1. CASE s >= 0
  BY <1>1
<1>2. CASE s < 0
  <2>1. low
    BY <1>2
  <2>2. n * (n - 1) + (s + t) \in 0 .. n * n - 1 /\ s + t \in 0 .. n - 1
    BY <1>2, TwoDigits
  <2>3. PICK y \in Nat : y = n * (n - 1) + (s + t) /\ y = x - (n - t)
    BY <1>2, <2>2
  <2>5. y % m = y
    BY <2>2, <2>3
  <2>6. y % n = s + t
    <3>1. PICK z \in 0 .. n - 1 : z = s + t
      BY <2>2
    <3>2. (n * (n - 1) + z) % n = z
      <4>1. n \in Nat \ {0} /\ n - 1 \in Int
        OBVIOUS
      <4> QED
        BY ONLY z \in 0 .. n - 1, <4>1, DigitOf
    <3> QED
      BY <2>3, <3>1, <3>2
  <2> QED
    BY <2>1, <2>3, <2>5, <2>6
<1> QED
  BY <1>1, <1>2

DaaGives(n, t, hi, s, c, x, low, al, out) ==
  \E g \in 0 .. n - 1, d \in 0 .. n - 1 :
    /\ n * g + d = IF out THEN (al + (n - t) * n) % (n * n) ELSE al
    /\ t * hi + s = IF out THEN t * t + (t * g + d) ELSE t * g + d

LEMMA DaaNumbers ==
  ASSUME NEW n \in Nat, NEW t \in Nat, 1 < t, t < n,
         NEW hi \in 0 .. 2 * t - 2, NEW s \in 0 .. 2 * t - 1,
         NEW c \in 0 .. 1, c = IF n * hi + s < n * n THEN 0 ELSE 1,
         NEW x \in Nat, x = IF c = 0 THEN n * hi + s ELSE n * hi + s - n * n, x + (n - t) < n * n,
         NEW low \in BOOLEAN, low <=> x % n > t - 1 \/ s >= n,
         NEW al \in Nat, al = IF low THEN (x + (n - t)) % (n * n) ELSE x,
         NEW out \in BOOLEAN, out <=> al > t * n - 1 \/ c = 1
  PROVE  DaaGives(n, t, hi, s, c, x, low, al, out)
<1> USE DEF DaaGives
<1>1. PICK m \in Nat : m = n * n
  OBVIOUS
<1>2. low <=> s >= t
  <2>1. CASE s >= n
    BY <2>1
  <2>2. CASE s < n
    <3>1. PICK q \in Int : x = n * q + s
      <4>1. n * (hi - n) = n * hi - n * n /\ hi - n \in Int
        OBVIOUS
      <4>2. CASE c = 0
        BY <4>2
      <4>3. CASE c = 1
        <5>1. x = n * hi + s - n * n
          BY <4>3
        <5>2. PICK a \in Int, b \in Int : a = n * hi /\ b = n * n
          OBVIOUS
        <5>3. x = n * (hi - n) + s
          BY <4>1, <5>1, <5>2
        <5> QED
          BY <4>1, <5>3
      <4> QED
        BY <4>2, <4>3
    <3>2. s \in 0 .. n - 1
      BY <2>2
    <3>3. (n * q + s) % n = s
      <4>1. n \in Nat \ {0}
        OBVIOUS
      <4> QED
        BY ONLY q \in Int, <3>2, <4>1, DigitOf
    <3>4. x % n = s
      BY <3>1, <3>3
    <3> QED
      BY <2>2, <3>4
  <2> QED
    BY <2>1, <2>2
<1>3. PICK k \in 0 .. 2 * t - 1, d \in 0 .. t - 1 :
        /\ k = IF s >= t THEN hi + 1 ELSE hi
        /\ d = IF s >= t THEN s - t ELSE s
  <2>1. CASE s >= t
    <3>1. hi + 1 \in 0 .. 2 * t - 1 /\ s - t \in 0 .. t - 1
      BY ONLY t \in Nat, 1 < t, hi \in 0 .. 2 * t - 2, s \in 0 .. 2 * t - 1, <2>1
    <3> QED
      BY ONLY <2>1, <3>1
  <2>2. CASE ~ (s >= t)
    <3>1. hi \in 0 .. 2 * t - 1 /\ s \in 0 .. t - 1
      BY ONLY t \in Nat, 1 < t, hi \in 0 .. 2 * t - 2, s \in 0 .. 2 * t - 1, <2>2
    <3> QED
      BY ONLY <2>2, <3>1
  <2> QED
    BY <2>1, <2>2
<1>4. PICK p \in Int, w \in Int : p = n * hi /\ w = n * k /\ w = IF s >= t THEN p + n ELSE p
  <2>1. PICK p \in Int, w \in Int : p = n * hi /\ w = n * k
    OBVIOUS
  <2>2. n * (hi + 1) = n * hi + n
    OBVIOUS
  <2> QED
    BY ONLY <1>3, <2>1, <2>2
<1>5. al = w + d - (IF c = 1 THEN m ELSE 0)
  <2>1. x = p + s - (IF c = 1 THEN m ELSE 0)
    BY <1>1, <1>4
  <2>2. x + (n - t) \in 0 .. m - 1
    BY <1>1
  <2>3. (x + (n - t)) % m = x + (n - t)
    BY <1>1, <2>2
  <2> QED
    BY <1>1, <1>2, <1>3, <1>4, <2>1, <2>3
<1>6. PICK v \in Int, u \in Int, r \in Int : v = n * t /\ u = n * (k - t) /\ w = v + u /\ r = t * n /\ r = v
  BY <1>4
<1>7. t * hi + s = t * k + d
  BY <1>3
<1>8. (n - t) * n = m - v
  BY <1>1, <1>6
<1>9. CASE k < t
  <2>1. n * k + d \in 0 .. n * n - 1
    BY <1>3, <1>9, TwoDigits
  <2>2. u <= - n
    <3>1. n * (k - t + 1) <= 0
      BY <1>9
    <3>2. n * (k - t + 1) = u + n
      BY <1>6
    <3> QED
      BY <3>1, <3>2
  <2>3. c = 0
    <3>1. p + s < m
      BY <1>1, <1>3, <1>4, <2>1
    <3> QED
      BY <1>1, <1>4, <3>1
  <2>4. ~ out /\ al = w + d
    BY <1>3, <1>5, <1>6, <2>2, <2>3
  <2>5. k \in 0 .. n - 1 /\ d \in 0 .. n - 1
    BY <1>9
  <2>6. n * k + d = al /\ t * hi + s = t * k + d
    BY <1>4, <1>7, <2>4
  <2> QED
    BY <2>4, <2>5, <2>6
<1>10. CASE k >= t
  <2>1. n * (k - t) + d \in 0 .. n * n - 1 /\ k - t \in 0 .. n - 1 /\ d \in 0 .. n - 1
    BY <1>3, <1>10, TwoDigits
  <2>2. out
    BY <1>3, <1>5, <1>6, <2>1
  <2>3. al + (n - t) * n = u + d + (IF c = 1 THEN 0 ELSE m)
    BY <1>5, <1>6, <1>8
  <2>4. (al + (n - t) * n) % (n * n) = u + d
    <3>1. PICK y \in 0 .. m - 1 : y = u + d
      BY <1>1, <1>6, <2>1
    <3>2. y % m = y /\ (y + m) % m = y
      OBVIOUS
    <3> QED
      BY <1>1, <2>3, <3>1, <3>2
  <2>5. t * hi + s = t * t + (t * (k - t) + d)
    BY <1>7
  <2> QED
    BY <1>6, <2>1, <2>2, <2>4, <2>5
<1> QED
  BY <1>9, <1>10

DasGives(n, t, hi, s, c, x, low, al, out) ==
  \E g \in 0 .. n - 1, d \in 0 .. n - 1 :
    /\ n * g + d = IF out THEN (al - (n - t) * n) % (n * n) ELSE al
    /\ t * hi + s = IF out THEN (t * g + d) - t * t ELSE t * g + d

LEMMA DasNumbers ==
  ASSUME NEW n \in Nat, NEW t \in Nat, 1 < t, t < n,
         NEW hi \in 1 - t .. t - 1, NEW s \in 1 - t .. t - 1,
         NEW c \in 0 .. 1, c = IF n * hi + s >= 0 THEN 0 ELSE 1,
         NEW x \in Nat, x = IF c = 0 THEN n * hi + s ELSE n * hi + s + n * n,
         NEW low \in BOOLEAN, low <=> x % n > t - 1 \/ s < 0,
         NEW al \in Nat, al = IF low THEN (x - (n - t)) % (n * n) ELSE x,
         NEW out \in BOOLEAN, out <=> al > t * n - 1 \/ c = 1
  PROVE  DasGives(n, t, hi, s, c, x, low, al, out)
<1> USE DEF DasGives
<1>1. PICK m \in Nat : m = n * n
  OBVIOUS
<1>2. low <=> s < 0
  <2>1. CASE s < 0
    BY <2>1
  <2>2. CASE s >= 0
    <3>1. PICK q \in Int : x = n * q + s
      <4>1. n * (hi + n) = n * hi + n * n /\ hi + n \in Int
        OBVIOUS
      <4>2. CASE c = 0
        BY <4>2
      <4>3. CASE c = 1
        <5>1. x = n * hi + s + n * n
          BY <4>3
        <5>2. PICK a \in Int, b \in Int : a = n * hi /\ b = n * n
          OBVIOUS
        <5>3. x = n * (hi + n) + s
          BY <4>1, <5>1, <5>2
        <5> QED
          BY <4>1, <5>3
      <4> QED
        BY <4>2, <4>3
    <3>2. s \in 0 .. n - 1
      BY <2>2
    <3>3. (n * q + s) % n = s
      <4>1. n \in Nat \ {0}
        OBVIOUS
      <4> QED
        BY ONLY q \in Int, <3>2, <4>1, DigitOf
    <3>4. x % n = s
      BY <3>1, <3>3
    <3> QED
      BY <2>2, <3>4
  <2> QED
    BY <2>1, <2>2
<1>3. PICK k \in - t .. t - 1, d \in 0 .. t - 1 :
        /\ k = IF s < 0 THEN hi - 1 ELSE hi
        /\ d = IF s < 0 THEN s + t ELSE s
  BY ONLY t \in Nat, 1 < t, hi \in 1 - t .. t - 1, s \in 1 - t .. t - 1, CarryDown
<1>4. PICK p \in Int, w \in Int : p = n * hi /\ w = n * k /\ w = IF s < 0 THEN p - n ELSE p
  <2>1. PICK p \in Int, w \in Int : p = n * hi /\ w = n * k
    OBVIOUS
  <2>2. n * (hi - 1) = n * hi - n
    OBVIOUS
  <2> QED
    BY ONLY <1>3, <2>1, <2>2
<1>5. x = p + s + (IF c = 1 THEN m ELSE 0)
  BY <1>1, <1>4
<1>6. t * hi + s = t * k + d
  BY <1>3
<1>7. PICK v \in Int, u \in Int : v = t * n /\ u = n * (k + t) /\ w = u - v /\ (n - t) * n = m - v
  BY <1>1, <1>4
<1>8. c = 0 <=> k >= 0
  <2>1. c = 0 <=> p + s >= 0
    BY <1>4
  <2>2. (k >= 0 => w >= 0) /\ (k <= -1 => w <= - n)
    <3>1. (k >= 0 => n * k >= 0) /\ (k <= -1 => n * (k + 1) <= 0)
      BY <1>3
    <3>2. n * (k + 1) = n * k + n
      BY <1>3
    <3> QED
      BY <1>4, <3>1, <3>2
  <2>3. p + s = w + d + (IF s < 0 THEN n - t ELSE 0)
    BY <1>3, <1>4
  <2>4. k <= -1 => p + s < 0
    BY <1>3, <2>2, <2>3
  <2> QED
    BY <1>3, <2>1, <2>2, <2>3, <2>4
<1>9. CASE k >= 0
  <2>1. n * k + d \in 0 .. n * n - 1 /\ k \in 0 .. n - 1 /\ d \in 0 .. n - 1
    BY <1>3, <1>9, TwoDigits
  <2>2. al = w + d
    <3>1. (w + d) % m = w + d
      BY <1>1, <1>4, <2>1
    <3>2. IF low THEN x - (n - t) = w + d ELSE x = w + d
      BY <1>2, <1>3, <1>4, <1>5, <1>8, <1>9
    <3> QED
      BY <1>1, <3>1, <3>2
  <2>3. ~ out
    <3>1. u >= 0 /\ w <= v - n
      <4>1. n * (k - t + 1) <= 0
        BY <1>3
      <4>2. n * (k - t + 1) = n * k - t * n + n
        BY <1>3
      <4> QED
        BY <1>3, <1>4, <1>7, <1>9, <4>1, <4>2
    <3> QED
      BY <1>3, <1>7, <1>8, <1>9, <2>2, <3>1
  <2> QED
    BY <1>4, <1>6, <2>1, <2>2, <2>3
<1>10. CASE k < 0
  <2>1. n * (k + t) + d \in 0 .. n * n - 1 /\ k + t \in 0 .. n - 1 /\ d \in 0 .. n - 1
    BY <1>3, <1>10, TwoDigits
  <2>2. n * (k + n) + d \in 0 .. n * n - 1
    BY <1>3, <1>10, TwoDigits
  <2>3. c = 1 /\ out
    BY <1>8, <1>10
  <2>4. PICK y \in 0 .. m - 1 : y = w + m + d
    <3>1. n * (k + n) = w + m
      BY <1>1, <1>4
    <3> QED
      BY <1>1, <2>2, <3>1
  <2>5. al = y
    <3>1. y % m = y
      OBVIOUS
    <3>2. IF low THEN x - (n - t) = y ELSE x = y
      BY <1>2, <1>3, <1>4, <1>5, <2>3, <2>4
    <3> QED
      BY <1>1, <3>1, <3>2
  <2>6. (al - (n - t) * n) % (n * n) = u + d
    <3>1. PICK z \in 0 .. m - 1 : z = u + d
      BY <1>1, <1>7, <2>1
    <3>2. al - (n - t) * n = z
      BY <1>7, <2>4, <2>5, <3>1
    <3>3. z % m = z
      OBVIOUS
    <3> QED
      BY <1>1, <3>1, <3>2, <3>3
  <2>7. t * hi + s = (t * (k + t) + d) - t * t
    BY <1>6
  <2> QED
    BY <1>7, <2>1, <2>3, <2>6, <2>7
<1> QED
  BY <1>9, <1>10

-----------------------------------------------------------------------------
(* Decimal adjustment.  AddLeaves and SubLeaves: what an adjustment finds, *)
(* of operands below m, behind the instruction l.                          *)

AddLeaves(m, l, a, c, f) ==
  LET adder == (l.arg + l.cin) % m
  IN  /\ l.base \in 0 .. m - 1 /\ l.arg \in 0 .. m - 1 /\ l.res = a
      /\ a = (l.base + adder) % m
      /\ c = Flag(l.base + adder >= m)
      /\ f = Flag((l.base % Nib) + (adder % Nib) > Nib - 1)

SubLeaves(m, l, a, c, f) ==
  /\ l.base \in 0 .. m - 1 /\ l.arg \in 0 .. m - 1
  /\ a = (l.base - l.arg) % m
  /\ c = Flag(l.arg > l.base)
  /\ f = Flag(l.base % Nib < l.arg % Nib)

Adjustable ==
  /\ last.op \in {"add", "adc"} => AddLeaves(Mod, last, acc, cf, af)
  /\ last.op \in {"sub", "sbb"} /\ last.cin = 0 => SubLeaves(Mod, last, acc, cf, af)

DecimalInv == ArithInv /\ Adjustable /\ DecimalAdjust

LEMMA AddsLeave ==
  ASSUME h \in Halves, h' = h, NEW base \in Operand, NEW arg \in Operand, NEW cin \in Bit,
         NEW adder, adder = Plus(arg, cin), NEW op,
         acc' = Plus(base, adder), cf' = CarryOut(base, adder), AddFlags(base, adder),
         last' = Instr(op, base, arg, cin, acc')
  PROVE  AddLeaves(Mod', last', acc', cf', af')
<1>1. PICK m \in Nat \ {0} : m = Mod /\ m = Mod' /\ 1 < m
  <2>1. PICK k \in Nat \ {0} : k = h
    BY Sizes
  <2> QED
    BY <2>1 DEF Mod
<1>2. base \in 0 .. m - 1 /\ arg \in 0 .. m - 1 /\ cin \in 0 .. m - 1
  <2>1. Operand = 0 .. m - 1
    BY <1>1 DEF Operand
  <2>2. cin = 0 \/ cin = 1
    BY DEF Bit
  <2>3. base \in 0 .. m - 1 /\ arg \in 0 .. m - 1
    BY <2>1
  <2>4. cin \in 0 .. m - 1
    BY ONLY m \in Nat \ {0}, <1>1, <2>2
  <2> QED
    BY <2>3, <2>4
<1>3. adder = (arg + cin) % m /\ adder \in 0 .. m - 1
  <2>1. arg + cin \in Int
    BY <1>2
  <2> QED
    BY <1>1, <2>1, Remainder DEF Plus
<1>4. Plus(base, adder) = IF base + adder < m THEN base + adder ELSE base + adder - m
  <2>1. Plus(base, adder) = (base + adder) % m
    BY <1>1 DEF Plus
  <2>2. base \in 0 .. m - 1 /\ adder \in 0 .. m - 1 /\ m \in Nat \ {0}
    BY <1>2, <1>3
  <2> QED
    BY ONLY <2>1, <2>2, WrapOnce
<1>5. CarryOut(base, adder) = Flag(base + adder >= m)
  <2>1. PICK b \in 0 .. m - 1, d \in 0 .. m - 1 : b = base /\ d = adder
    BY <1>2, <1>3
  <2>2. Plus(b, d) < (IF b < d THEN b ELSE d) <=> b + d >= m
    BY <1>4, <2>1
  <2> QED
    BY <2>1, <2>2 DEF CarryOut, Flag
<1>6. /\ last'.base = base /\ last'.arg = arg /\ last'.cin = cin /\ last'.res = acc'
      /\ af' = Flag((base % Nib) + (adder % Nib) > Nib - 1)
      /\ acc' = (base + adder) % m
  BY <1>1 DEF Instr, AddFlags, Plus
<1> QED
  BY <1>1, <1>2, <1>3, <1>5, <1>6 DEF AddLeaves

LEMMA SubsLeave ==
  ASSUME h \in Halves, h' = h, NEW base \in Operand, NEW arg \in Operand, NEW op,
         acc' = Minus(base, arg), cf' = Borrow(base, arg), SubFlags(base, arg),
         last' = Instr(op, base, arg, 0, acc')
  PROVE  SubLeaves(Mod', last', acc', cf', af')
<1>1. Mod' = Mod
  BY DEF Mod
<1>2. last'.base = base /\ last'.arg = arg
  BY DEF Instr
<1> QED
  BY <1>1, <1>2 DEF SubLeaves, Operand, Minus, Borrow, SubFlags

LEMMA AdjustableStep == ArithInv /\ Adjustable /\ [Next]_vars => Adjustable'
<1> SUFFICES ASSUME ArithInv, Adjustable, [Next]_vars PROVE Adjustable'
  OBVIOUS
<1>1. h \in Halves /\ acc \in Operand /\ cf \in Bit /\ last \in LastType
  BY DEF ArithInv, RegsOK, FlagsOK, LastOK
<1>2. ASSUME last'.op \notin {"add", "adc", "sub", "sbb"} PROVE Adjustable'
  BY <1>2 DEF Adjustable
<1>3. ASSUME last' = NoInstr PROVE Adjustable'
  BY <1>2, <1>3 DEF NoInstr
<1>4. ASSUME NEW arg \in Operand, WithOperand(arg) PROVE Adjustable'
  <2>1. 0 \in Bit /\ arg \in Nat
    BY <1>1, <1>4, Sizes DEF Bit, Operand, Mod
  <2>2. Plus(arg, 0) = arg /\ Minus(arg, 0) = arg
    <3>1. PICK m \in Nat \ {0} : m = Mod
      BY <1>1, Sizes DEF Mod
    <3>2. arg \in 0 .. m - 1 /\ 0 \in 0 .. m - 1
      BY <3>1 DEF Operand
    <3> QED
      BY <3>1, <3>2, WrapOnce DEF Plus, Minus
  <2>3. CASE Add(arg)
    <3>1. AddLeaves(Mod', last', acc', cf', af')
      BY <1>1, <2>1, <2>2, <2>3, AddsLeave DEF Add
    <3>2. last'.op = "add"
      BY <2>3 DEF Add, Instr
    <3> QED
      BY <3>1, <3>2 DEF Adjustable
  <2>4. CASE Adc(arg)
    <3>1. AddLeaves(Mod', last', acc', cf', af')
      BY <1>1, <2>4, AddsLeave DEF Adc
    <3>2. last'.op = "adc"
      BY <2>4 DEF Adc, Instr
    <3> QED
      BY <3>1, <3>2 DEF Adjustable
  <2>5. CASE Sub(arg)
    <3>1. SubLeaves(Mod', last', acc', cf', af')
      BY <1>1, <2>5, SubsLeave DEF Sub
    <3>2. last'.op = "sub"
      BY <2>5 DEF Sub, Instr
    <3> QED
      BY <3>1, <3>2 DEF Adjustable
  <2>6. CASE Sbb(arg)
    <3>1. last'.op = "sbb" /\ last'.cin = cf
      BY <2>6 DEF Sbb, Instr
    <3>2. cf = 0 => SubLeaves(Mod', last', acc', cf', af')
      BY <1>1, <2>2, <2>6, TakenOperands, SubsLeave DEF Sbb
    <3> QED
      BY <3>1, <3>2 DEF Adjustable
  <2>7. CASE Cmp(arg)
    <3>1. last'.op = "cmp"
      BY <2>7 DEF Cmp, Instr
    <3> QED
      BY <1>2, <3>1
  <2> QED
    BY <1>4, <2>3, <2>4, <2>5, <2>6, <2>7 DEF WithOperand
<1>5. ASSUME NEW v \in Operand, Logic(v) \/ Test(v) PROVE Adjustable'
  BY <1>3, <1>5 DEF Logic, Test
<1>6. ASSUME NEW half \in Halves, NEW v, Mov(half, v) PROVE Adjustable'
  BY <1>3, <1>6 DEF Mov
<1>7. ASSUME NEW cc, Setcc(cc) PROVE Adjustable'
  BY <1>3, <1>7 DEF Setcc
<1>8. CASE Not \/ Neg \/ Flip
  BY <1>3, <1>8 DEF Not, Neg, Flip, Clc, Stc, Cmc, SetCarry
<1>9. CASE Inc \/ Dec
  <2>1. last'.op \in {"inc", "dec"}
    BY <1>9 DEF Inc, Dec, Instr
  <2> QED
    BY <1>2, <2>1
<1>10. CASE Aad(Ten) \/ Aam(Ten)
  BY <1>3, <1>10 DEF Aad, Aam
<1>11. CASE Aaa \/ Aas \/ Daa \/ Das
  <2>1. \E name \in {"aaa", "aas", "daa", "das"} :
          last' = NoInstr \/ last' = [last EXCEPT !.op = name]
    BY <1>11 DEF Aaa, Aas, Daa, Das, Adjusting
  <2>2. last' = NoInstr \/ last'.op \in {"aaa", "aas", "daa", "das"}
    BY <1>1, <2>1 DEF LastType
  <2> QED
    BY <1>2, <1>3, <2>2
<1>12. CASE UNCHANGED vars
  BY <1>12 DEF vars, regs, flags, Adjustable, AddLeaves, SubLeaves, Mod
<1> QED
  BY <1>4, <1>5, <1>6, <1>7, <1>8, <1>9, <1>10, <1>11, <1>12 DEF Next, Decimal

\* What is adjusted is a byte, of two digits.
LEMMA Bytes ==
  ASSUME InByte
  PROVE  \E n \in Nat, t \in Nat :
           /\ n = Nib /\ t = Ten /\ 1 < t /\ t < n
           /\ ByteMod = n * n /\ Mod = n * n /\ n * n >= 2 * n
<1>1. PICK n \in Nat, t \in Nat : n = Nib /\ t = Ten /\ 1 < t /\ t < n /\ ByteMod = n * n
  BY ArithAssumption
<1>2. Mod = n * n
  BY <1>1 DEF InByte, Mod, ByteMod
<1>3. n * n >= 2 * n
  <2>1. (n - 2) * n >= 0
    BY <1>1
  <2>2. (n - 2) * n = n * n - 2 * n
    OBVIOUS
  <2>3. PICK m \in Int : m = n * n
    OBVIOUS
  <2> QED
    BY <2>1, <2>2, <2>3
<1> QED
  BY <1>1, <1>2, <1>3

LEMMA AaaRight ==
  ASSUME InByte, acc \in Nat,
         NEW l, l.base \in Nat, l.arg \in Nat, l.cin \in Bit, Digit(l.base), Digit(l.arg),
         AddLeaves(Mod, l, acc, cf, af),
         IF LowOut THEN acc' = LowDigit(Raised(acc, Nib - Ten)) /\ cf' = 1
         ELSE acc' = LowDigit(acc) /\ cf' = 0
  PROVE  l.base + l.arg + l.cin = Ten * cf' + acc'
<1>1. PICK n \in Nat, t \in Nat : /\ n = Nib /\ t = Ten /\ 1 < t /\ t < n
                                  /\ ByteMod = n * n /\ Mod = n * n /\ n * n >= 2 * n
  BY Bytes
<1>2. PICK b \in 0 .. t - 1, a \in 0 .. t - 1, c \in 0 .. 1 : b = l.base /\ a = l.arg /\ c = l.cin
  BY <1>1 DEF Digit, Bit
<1>3. PICK m \in Nat : m = n * n /\ m >= 2 * n
  BY <1>1
<1>4. (a + c) % m = a + c /\ (b + (a + c)) % m = b + a + c
  BY ONLY b \in 0 .. t - 1, a \in 0 .. t - 1, c \in 0 .. 1, m \in Nat, n \in Nat, t \in Nat,
          <1>1, <1>3
<1>5. (a + c) % n = a + c /\ b % n = b
  BY ONLY b \in 0 .. t - 1, a \in 0 .. t - 1, c \in 0 .. 1, n \in Nat, t \in Nat, <1>1
<1>6. acc = b + a + c /\ af = Flag(b + (a + c) > n - 1)
  BY <1>1, <1>2, <1>3, <1>4, <1>5 DEF AddLeaves
<1>7. PICK s \in 0 .. 2 * t - 1 : s = b + a + c
  BY ONLY b \in 0 .. t - 1, a \in 0 .. t - 1, c \in 0 .. 1, t \in Nat, <1>1
<1>8. PICK low \in BOOLEAN : low <=> LowOut
  OBVIOUS
<1>9. low <=> s % n > t - 1 \/ s >= n
  <2>1. af = 1 <=> s >= n
    BY <1>1, <1>6, <1>7 DEF Flag
  <2> QED
    BY <1>1, <1>6, <1>7, <1>8, <2>1 DEF LowOut, LowDigit
<1>10. s = IF low THEN t + (((s + (n - t)) % (n * n)) % n) ELSE s % n
  BY ONLY n \in Nat, t \in Nat, s \in 0 .. 2 * t - 1, low \in BOOLEAN, <1>1, <1>9, AaaNumbers
<1>11. /\ low => acc' = ((s + (n - t)) % (n * n)) % n /\ cf' = 1
       /\ ~ low => acc' = s % n /\ cf' = 0
  BY <1>1, <1>6, <1>7, <1>8 DEF LowDigit, Raised
<1>12. s = t * cf' + acc'
  <2>1. CASE low
    <3>1. PICK z \in Int : z = ((s + (n - t)) % (n * n)) % n
      <4>1. PICK y \in Int : y = (s + (n - t)) % m
        BY <1>1, <1>3
      <4>2. y % n \in Int
        BY <1>1
      <4> QED
        BY <1>3, <4>1, <4>2
    <3>2. s = t + z /\ acc' = z /\ cf' = 1
      BY <1>10, <1>11, <2>1, <3>1
    <3> QED
      BY <3>2
  <2>2. CASE ~ low
    BY <1>10, <1>11, <2>2
  <2> QED
    BY <2>1, <2>2
<1> QED
  BY <1>1, <1>2, <1>7, <1>12

LEMMA AasRight ==
  ASSUME InByte, acc \in Nat,
         NEW l, l.base \in Nat, l.arg \in Nat, Digit(l.base), Digit(l.arg),
         SubLeaves(Mod, l, acc, cf, af),
         IF LowOut THEN acc' = LowDigit(Lowered(acc, Nib - Ten)) /\ cf' = 1
         ELSE acc' = LowDigit(acc) /\ cf' = 0
  PROVE  l.base - l.arg = acc' - Ten * cf'
<1>1. PICK n \in Nat, t \in Nat : /\ n = Nib /\ t = Ten /\ 1 < t /\ t < n
                                  /\ ByteMod = n * n /\ Mod = n * n /\ n * n >= 2 * n
  BY Bytes
<1>2. PICK b \in 0 .. t - 1, a \in 0 .. t - 1 : b = l.base /\ a = l.arg
  BY <1>1 DEF Digit
<1>3. PICK m \in Nat \ {0} : m = n * n /\ m >= 2 * n
  BY <1>1
<1>4. (b - a) % m = IF a <= b THEN b - a ELSE b - a + m
  <2>1. a \in 0 .. m - 1 /\ b \in 0 .. m - 1
    BY ONLY b \in 0 .. t - 1, a \in 0 .. t - 1, m \in Nat, n \in Nat, t \in Nat, <1>1, <1>3
  <2> QED
    BY ONLY m \in Nat \ {0}, <2>1, WrapOnce
<1>5. a % n = a /\ b % n = b
  BY ONLY b \in 0 .. t - 1, a \in 0 .. t - 1, n \in Nat, t \in Nat, <1>1
<1>6. PICK s \in 1 - t .. t - 1 : s = b - a
  BY ONLY b \in 0 .. t - 1, a \in 0 .. t - 1, t \in Nat, <1>1
<1>7. PICK x \in Nat : x = acc
  OBVIOUS
<1>8. (s >= 0 => x = s) /\ (s < 0 => x = s + m)
  BY <1>1, <1>2, <1>3, <1>4, <1>6, <1>7 DEF SubLeaves
<1>9. PICK low \in BOOLEAN : low <=> LowOut
  OBVIOUS
<1>10. low <=> x % n > t - 1 \/ s < 0
  <2>1. af = 1 <=> s < 0
    BY <1>1, <1>2, <1>5, <1>6 DEF SubLeaves, Flag
  <2> QED
    BY <1>1, <1>7, <1>9, <2>1 DEF LowOut, LowDigit
<1>11. AasGives(n, t, m, s, x, low)
  BY ONLY n \in Nat, t \in Nat, s \in 1 - t .. t - 1, x \in Nat, low \in BOOLEAN, m \in Nat,
          <1>1, <1>3, <1>8, <1>10, AasNumbers
<1>12. /\ low => acc' = ((x - (n - t)) % m) % n /\ cf' = 1
       /\ ~ low => acc' = x % n /\ cf' = 0
  BY <1>1, <1>3, <1>7, <1>9 DEF LowDigit, Lowered
<1>13. s = acc' - t * cf'
  BY <1>11, <1>12 DEF AasGives
<1> QED
  BY <1>1, <1>2, <1>6, <1>13

\* Two decimal digits behind one another.
AsDigits(n, t, x, q, r) == x = n * q + r /\ x % Nib = r /\ Decimals(x) = t * q + r

LEMMA Unpacked ==
  ASSUME NEW n \in Nat, NEW t \in Nat, 1 < t, t < n, n = Nib, t = Ten,
         NEW x \in 0 .. n * n - 1, Packed(x)
  PROVE  \E q \in 0 .. t - 1, r \in 0 .. t - 1 : AsDigits(n, t, x, q, r)
<1>1. PICK q \in Int, r \in 0 .. n - 1 : q = x \div n /\ r = x % n /\ x = n * q + r
  <2>1. PICK q \in Int : q = x \div n
    OBVIOUS
  <2>2. PICK r \in 0 .. n - 1 : r = x % n
    OBVIOUS
  <2> QED
    BY <2>1, <2>2
<1>2. q < t /\ r < t
  BY <1>1 DEF Packed, Digit
<1>3. q >= 0
  <2>1. q <= -1 => n * q <= - n
    <3>1. n * (q + 1) = n * q + n
      OBVIOUS
    <3>2. q <= -1 => n * (q + 1) <= 0
      OBVIOUS
    <3> QED
      BY <3>1, <3>2
  <2> QED
    BY <1>1, <2>1
<1>4. Decimals(x) = t * q + r
  BY <1>1 DEF Decimals
<1>5. q \in 0 .. t - 1 /\ r \in 0 .. t - 1
  BY ONLY q \in Int, r \in 0 .. n - 1, t \in Nat, <1>2, <1>3
<1>6. x = n * q + r /\ x % Nib = r
  BY <1>1
<1> QED
  BY <1>4, <1>5, <1>6 DEF AsDigits

LEMMA Repacked ==
  ASSUME NEW n \in Nat \ {0}, n = Nib, NEW g \in 0 .. n - 1, NEW d \in 0 .. n - 1, NEW x,
         x = n * g + d
  PROVE  Decimals(x) = Ten * g + d
<1>1. (n * g + d) \div n = g /\ (n * g + d) % n = d
  BY DigitOf
<1> QED
  BY <1>1 DEF Decimals

LEMMA DaaRight ==
  ASSUME InByte, acc \in Nat, acc + (Nib - Ten) < ByteMod,
         NEW l, l.cin \in Bit, Packed(l.base), Packed(l.arg), AddLeaves(Mod, l, acc, cf, af),
         NEW al, al = IF LowOut THEN Raised(acc, Nib - Ten) ELSE acc,
         IF HighOut(al) THEN acc' = Raised(al, (Nib - Ten) * Nib) /\ cf' = 1
         ELSE acc' = al /\ cf' = 0
  PROVE  Decimals(l.base) + Decimals(l.arg) + l.cin = Ten * Ten * cf' + Decimals(acc')
<1>1. PICK n \in Nat, t \in Nat : /\ n = Nib /\ t = Ten /\ 1 < t /\ t < n
                                  /\ ByteMod = n * n /\ Mod = n * n /\ n * n >= 2 * n
  BY Bytes
<1>2. l.base \in 0 .. n * n - 1 /\ l.arg \in 0 .. n * n - 1
  BY <1>1 DEF AddLeaves
<1>3. PICK bh \in 0 .. t - 1, bl \in 0 .. t - 1 :
        /\ l.base = n * bh + bl /\ l.base % Nib = bl /\ Decimals(l.base) = t * bh + bl
  <2>1. PICK q \in 0 .. t - 1, r \in 0 .. t - 1 : AsDigits(n, t, l.base, q, r)
    BY <1>1, <1>2, Unpacked
  <2> QED
    BY <2>1, Zenon DEF AsDigits
<1>4. PICK ah0 \in 0 .. t - 1, a0 \in 0 .. t - 1 :
        /\ l.arg = n * ah0 + a0 /\ l.arg % Nib = a0 /\ Decimals(l.arg) = t * ah0 + a0
  <2>1. PICK q \in 0 .. t - 1, r \in 0 .. t - 1 : AsDigits(n, t, l.arg, q, r)
    BY <1>1, <1>2, Unpacked
  <2> QED
    BY <2>1, Zenon DEF AsDigits
<1>5. PICK ci \in 0 .. 1 : ci = l.cin
  BY DEF Bit
<1>6. PICK r \in 0 .. n - 1 : r = a0 + ci
  BY ONLY a0 \in 0 .. t - 1, ci \in 0 .. 1, n \in Nat, t \in Nat, <1>1
<1>7. PICK hi \in 0 .. 2 * t - 2, s \in 0 .. 2 * t - 1 : hi = bh + ah0 /\ s = bl + r
  BY ONLY bh \in 0 .. t - 1, bl \in 0 .. t - 1, ah0 \in 0 .. t - 1, a0 \in 0 .. t - 1,
          ci \in 0 .. 1, <1>6, t \in Nat, <1>1
<1>8. /\ (l.arg + l.cin) % (n * n) = n * ah0 + r /\ (n * ah0 + r) % n = r
      /\ n * ah0 + r \in 0 .. n * n - 1
  <2>1. ah0 \in 0 .. n - 1 /\ n \in Nat \ {0} /\ ah0 \in Int
    BY ONLY ah0 \in 0 .. t - 1, n \in Nat, t \in Nat, <1>1
  <2>2. n * ah0 + r \in 0 .. n * n - 1 /\ (n * ah0 + r) % n = r
    BY ONLY <2>1, r \in 0 .. n - 1, TwoDigits, DigitOf
  <2>3. PICK m \in Nat : m = n * n
    BY <1>1
  <2>4. PICK y \in 0 .. m - 1 : y = n * ah0 + r /\ y % m = y
    <3>1. PICK z \in 0 .. m - 1 : z = n * ah0 + r
      BY <2>2, <2>3
    <3>2. z % m = z
      BY ONLY m \in Nat, z \in 0 .. m - 1
    <3> QED
      BY <3>1, <3>2
  <2>5. l.arg + l.cin = y
    <3>1. PICK p \in Int : p = n * ah0
      OBVIOUS
    <3>2. l.arg = p + a0 /\ y = p + r
      BY <1>4, <2>4, <3>1
    <3> QED
      BY ONLY p \in Int, a0 \in 0 .. t - 1, t \in Nat, ci \in 0 .. 1, <1>5, <1>6, <3>2
  <2> QED
    BY <2>2, <2>3, <2>4, <2>5
<1>9. PICK m \in Nat \ {0}, w \in Int : m = n * n /\ w = n * hi + s /\ w = l.base + (n * ah0 + r)
  <2>1. PICK p \in Int, q \in Int : p = n * bh /\ q = n * ah0 /\ p + q = n * (bh + ah0)
    OBVIOUS
  <2> QED
    BY <1>1, <1>3, <1>7, <2>1
<1>10. /\ acc = w % m /\ cf = Flag(w >= m) /\ af = Flag(s > n - 1)
  <2>1. /\ acc = (l.base + (n * ah0 + r)) % (n * n)
        /\ cf = Flag(l.base + (n * ah0 + r) >= n * n)
        /\ af = Flag(bl + r > n - 1)
    BY <1>1, <1>3, <1>8 DEF AddLeaves
  <2> QED
    BY <1>7, <1>9, <2>1
<1>11. w % m = IF w < m THEN w ELSE w - m
  <2>1. m \in Nat \ {0} /\ m = n * n
    BY <1>9
  <2>2. PICK a \in 0 .. m - 1, b \in 0 .. m - 1 : a = l.base /\ b = n * ah0 + r
    BY ONLY <1>2, <1>8, <2>1
  <2>3. w = a + b
    BY <1>9, <2>2
  <2> QED
    <3>1. m \in Nat \ {0} /\ a \in 0 .. m - 1 /\ b \in 0 .. m - 1
      BY <2>1
    <3>2. (a + b) % m = IF a + b < m THEN a + b ELSE a + b - m
      BY ONLY <3>1, WrapOnce
    <3> QED
      BY ONLY <2>3, <3>1, <3>2
<1>12. PICK c \in 0 .. 1 : c = cf /\ c = IF n * hi + s < n * n THEN 0 ELSE 1
  <2>1. PICK c \in 0 .. 1 : c = IF w < m THEN 0 ELSE 1
    OBVIOUS
  <2>2. c = cf
    BY <1>10, <2>1 DEF Flag
  <2> QED
    BY <1>9, <2>1, <2>2
<1>13. PICK x \in Nat : x = acc
  OBVIOUS
<1>14. x = (IF c = 0 THEN n * hi + s ELSE n * hi + s - n * n) /\ x + (n - t) < n * n
  <2>1. c = 0 <=> w < m
    BY <1>9, <1>12
  <2>2. x = IF c = 0 THEN w ELSE w - m
    BY <1>10, <1>11, <1>13, <2>1
  <2> QED
    BY <1>1, <1>9, <1>13, <2>2
<1>15. PICK low \in BOOLEAN : low <=> LowOut
  OBVIOUS
<1>16. low <=> x % n > t - 1 \/ s >= n
  <2>1. af = 1 <=> s >= n
    BY <1>1, <1>10 DEF Flag
  <2> QED
    BY <1>1, <1>13, <1>15, <2>1 DEF LowOut, LowDigit
<1>17. PICK k \in Nat : k = al /\ k = IF low THEN (x + (n - t)) % (n * n) ELSE x
  <2>1. al = IF low THEN (x + (n - t)) % (n * n) ELSE x
    BY <1>1, <1>13, <1>15 DEF Raised
  <2>2. (x + (n - t)) % m \in 0 .. m - 1
    <3>1. x + (n - t) \in Int
      OBVIOUS
    <3> QED
      BY <3>1, Remainder
  <2> QED
    BY <1>9, <2>1, <2>2
<1>18. PICK out \in BOOLEAN : out <=> HighOut(al)
  OBVIOUS
<1>19. out <=> k > t * n - 1 \/ c = 1
  BY <1>1, <1>12, <1>17, <1>18 DEF HighOut
<1>20. DaaGives(n, t, hi, s, c, x, low, k, out)
  BY ONLY n \in Nat, t \in Nat, <1>1, hi \in 0 .. 2 * t - 2, s \in 0 .. 2 * t - 1, c \in 0 .. 1,
          <1>12, x \in Nat, <1>14, low \in BOOLEAN, <1>16, k \in Nat, <1>17, out \in BOOLEAN, <1>19,
          DaaNumbers
<1>21. PICK g \in 0 .. n - 1, d \in 0 .. n - 1 :
         /\ n * g + d = IF out THEN (k + (n - t) * n) % (n * n) ELSE k
         /\ t * hi + s = IF out THEN t * t + (t * g + d) ELSE t * g + d
  BY <1>20 DEF DaaGives
<1>22. acc' = n * g + d /\ cf' = IF out THEN 1 ELSE 0
  BY <1>1, <1>17, <1>18, <1>21 DEF Raised
<1>23. Decimals(acc') = t * g + d
  BY <1>1, <1>22, Repacked
<1>24. Decimals(l.base) + Decimals(l.arg) + l.cin = t * hi + s
  <2>1. PICK p \in Int, q \in Int : p = t * bh /\ q = t * ah0 /\ p + q = t * (bh + ah0)
    OBVIOUS
  <2> QED
    BY <1>3, <1>4, <1>5, <1>6, <1>7, <2>1
<1>25. t * hi + s = t * t * cf' + Decimals(acc')
  BY <1>21, <1>22, <1>23
<1> QED
  BY <1>1, <1>24, <1>25

LEMMA DasRight ==
  ASSUME InByte, acc \in Nat,
         NEW l, Packed(l.base), Packed(l.arg), SubLeaves(Mod, l, acc, cf, af),
         NEW al, al = IF LowOut THEN Lowered(acc, Nib - Ten) ELSE acc,
         IF HighOut(al) THEN acc' = Lowered(al, (Nib - Ten) * Nib) /\ cf' = 1
         ELSE acc' = al /\ cf' = 0
  PROVE  Decimals(l.base) - Decimals(l.arg) = Decimals(acc') - Ten * Ten * cf'
<1>1. PICK n \in Nat, t \in Nat : /\ n = Nib /\ t = Ten /\ 1 < t /\ t < n
                                  /\ ByteMod = n * n /\ Mod = n * n /\ n * n >= 2 * n
  BY Bytes
<1>2. l.base \in 0 .. n * n - 1 /\ l.arg \in 0 .. n * n - 1
  BY <1>1 DEF SubLeaves
<1>3. PICK bh \in 0 .. t - 1, bl \in 0 .. t - 1 :
        /\ l.base = n * bh + bl /\ l.base % Nib = bl /\ Decimals(l.base) = t * bh + bl
  <2>1. PICK q \in 0 .. t - 1, r \in 0 .. t - 1 : AsDigits(n, t, l.base, q, r)
    BY <1>1, <1>2, Unpacked
  <2> QED
    BY <2>1, Zenon DEF AsDigits
<1>4. PICK gh \in 0 .. t - 1, gl \in 0 .. t - 1 :
        /\ l.arg = n * gh + gl /\ l.arg % Nib = gl /\ Decimals(l.arg) = t * gh + gl
  <2>1. PICK q \in 0 .. t - 1, r \in 0 .. t - 1 : AsDigits(n, t, l.arg, q, r)
    BY <1>1, <1>2, Unpacked
  <2> QED
    BY <2>1, Zenon DEF AsDigits
<1>5. PICK hi \in 1 - t .. t - 1, s \in 1 - t .. t - 1 : hi = bh - gh /\ s = bl - gl
  BY ONLY bh \in 0 .. t - 1, bl \in 0 .. t - 1, gh \in 0 .. t - 1, gl \in 0 .. t - 1,
          t \in Nat, <1>1
<1>6. PICK m \in Nat \ {0}, w \in Int : m = n * n /\ w = n * hi + s /\ w = l.base - l.arg
  <2>1. PICK p \in Int, q \in Int : p = n * bh /\ q = n * gh /\ p - q = n * (bh - gh)
    OBVIOUS
  <2> QED
    BY <1>1, <1>3, <1>4, <1>5, <2>1
<1>7. acc = w % m /\ cf = Flag(w < 0) /\ af = Flag(s < 0)
  BY <1>1, <1>2, <1>3, <1>4, <1>5, <1>6 DEF SubLeaves
<1>8. w % m = IF w >= 0 THEN w ELSE w + m
  <2>1. PICK u \in 0 .. m - 1, v \in 0 .. m - 1 : u = l.base /\ v = l.arg /\ w = u - v
    BY <1>2, <1>6
  <2>2. (u - v) % m = IF v <= u THEN u - v ELSE u - v + m
    BY ONLY m \in Nat \ {0}, u \in 0 .. m - 1, v \in 0 .. m - 1, WrapOnce
  <2> QED
    BY <2>1, <2>2
<1>9. PICK c \in 0 .. 1 : c = cf /\ c = IF n * hi + s >= 0 THEN 0 ELSE 1
  <2>1. PICK c \in 0 .. 1 : c = IF w >= 0 THEN 0 ELSE 1
    OBVIOUS
  <2>2. c = cf
    BY <1>7, <2>1 DEF Flag
  <2> QED
    BY <1>6, <2>1, <2>2
<1>10. PICK x \in Nat : x = acc
  OBVIOUS
<1>11. x = IF c = 0 THEN n * hi + s ELSE n * hi + s + n * n
  <2>1. c = 0 <=> w >= 0
    BY <1>6, <1>9
  <2>2. x = IF c = 0 THEN w ELSE w + m
    BY <1>7, <1>8, <1>10, <2>1
  <2> QED
    BY <1>6, <2>2
<1>12. PICK low \in BOOLEAN : low <=> LowOut
  OBVIOUS
<1>13. low <=> x % n > t - 1 \/ s < 0
  <2>1. af = 1 <=> s < 0
    BY <1>7 DEF Flag
  <2> QED
    BY <1>1, <1>10, <1>12, <2>1 DEF LowOut, LowDigit
<1>14. PICK k \in Nat : k = al /\ k = IF low THEN (x - (n - t)) % (n * n) ELSE x
  <2>1. al = IF low THEN (x - (n - t)) % (n * n) ELSE x
    BY <1>1, <1>10, <1>12 DEF Lowered
  <2>2. (x - (n - t)) % m \in 0 .. m - 1
    <3>1. x - (n - t) \in Int
      OBVIOUS
    <3> QED
      BY <3>1, Remainder
  <2> QED
    BY <1>6, <2>1, <2>2
<1>15. PICK out \in BOOLEAN : out <=> HighOut(al)
  OBVIOUS
<1>16. out <=> k > t * n - 1 \/ c = 1
  BY <1>1, <1>9, <1>14, <1>15 DEF HighOut
<1>17. DasGives(n, t, hi, s, c, x, low, k, out)
  BY ONLY n \in Nat, t \in Nat, <1>1, hi \in 1 - t .. t - 1, s \in 1 - t .. t - 1, c \in 0 .. 1,
          <1>9, x \in Nat, <1>11, low \in BOOLEAN, <1>13, k \in Nat, <1>14, out \in BOOLEAN, <1>16,
          DasNumbers
<1>18. PICK g \in 0 .. n - 1, d \in 0 .. n - 1 :
         /\ n * g + d = IF out THEN (k - (n - t) * n) % (n * n) ELSE k
         /\ t * hi + s = IF out THEN (t * g + d) - t * t ELSE t * g + d
  BY <1>17 DEF DasGives
<1>19. acc' = n * g + d /\ cf' = IF out THEN 1 ELSE 0
  BY <1>1, <1>14, <1>15, <1>18 DEF Lowered
<1>20. Decimals(acc') = t * g + d
  BY <1>1, <1>19, Repacked
<1>21. Decimals(l.base) - Decimals(l.arg) = t * hi + s
  <2>1. PICK p \in Int, q \in Int : p = t * bh /\ q = t * gh /\ p - q = t * (bh - gh)
    OBVIOUS
  <2> QED
    BY <1>3, <1>4, <1>5, <2>1
<1>22. t * hi + s = Decimals(acc') - t * t * cf'
  BY <1>18, <1>19, <1>20
<1> QED
  BY <1>1, <1>21, <1>22

\* The instruction adjusted is the one before, under the name of the adjustment.
LEMMA Renamed ==
  ASSUME last \in LastType, NEW name, NEW ops, Adjusting(name, ops)
  PROVE  \/ last' = NoInstr
         \/ /\ last.op \in ops /\ last'.op = name
            /\ last'.base = last.base /\ last'.arg = last.arg
            /\ last'.cin = last.cin /\ last'.res = last.res
  BY DEF Adjusting, LastType

LEMMA DecimalAdjustStep == DecimalInv /\ [Next]_vars => DecimalAdjust'
<1> SUFFICES ASSUME DecimalInv, [Next]_vars PROVE DecimalAdjust'
  OBVIOUS
<1>1. /\ acc \in Nat /\ last \in LastType /\ ArithInv
      /\ last.base \in Nat /\ last.arg \in Nat /\ last.cin \in Bit
  <2>1. acc \in Operand /\ last \in LastType /\ h \in Halves
    BY DEF DecimalInv, ArithInv, RegsOK, LastOK
  <2>2. acc \in Nat
    BY <2>1, Sizes DEF Operand, Mod
  <2> QED
    BY <2>1, <2>2 DEF DecimalInv, LastType
<1>2. ASSUME last'.op \notin {"aaa", "aas", "daa", "das"} PROVE DecimalAdjust'
  BY <1>2 DEF DecimalAdjust
<1>3. ASSUME last' = NoInstr PROVE DecimalAdjust'
  BY <1>2, <1>3 DEF NoInstr
<1>4. CASE Aaa
  <2>1. CASE last.op \in {"add", "adc"} /\ last'.op = "aaa" /\ last'.base = last.base
             /\ last'.arg = last.arg /\ last'.cin = last.cin
    <3>1. ASSUME Digit(last.base), Digit(last.arg)
          PROVE  last.base + last.arg + last.cin = Ten * cf' + acc'
      <4>1. AddLeaves(Mod, last, acc, cf, af)
        BY <2>1 DEF DecimalInv, Adjustable
      <4> QED
        BY <1>1, <1>4, <3>1, <4>1, AaaRight DEF Aaa
    <3> QED
      BY <2>1, <3>1 DEF DecimalAdjust, Digit
  <2> QED
    BY <1>1, <1>3, <1>4, <2>1, Renamed DEF Aaa
<1>5. CASE Aas
  <2>1. CASE last.op \in {"sub", "sbb"} /\ last'.op = "aas" /\ last'.base = last.base
             /\ last'.arg = last.arg /\ last'.cin = last.cin
    <3>1. ASSUME Digit(last.base), Digit(last.arg), last.cin = 0
          PROVE  last.base - last.arg = acc' - Ten * cf'
      <4>1. SubLeaves(Mod, last, acc, cf, af)
        BY <2>1, <3>1 DEF DecimalInv, Adjustable
      <4> QED
        BY <1>1, <1>5, <3>1, <4>1, AasRight DEF Aas
    <3> QED
      BY <2>1, <3>1 DEF DecimalAdjust, Digit
  <2> QED
    BY <1>1, <1>3, <1>5, <2>1, Renamed DEF Aas
<1>6. CASE Daa
  <2>1. CASE last.op \in {"add", "adc"} /\ last'.op = "daa" /\ last'.base = last.base
             /\ last'.arg = last.arg /\ last'.cin = last.cin /\ last'.res = last.res
    <3>1. ASSUME Packed(last.base), Packed(last.arg), last.res + (Nib - Ten) < ByteMod
          PROVE  Decimals(last.base) + Decimals(last.arg) + last.cin
                   = Ten * Ten * cf' + Decimals(acc')
      <4>1. AddLeaves(Mod, last, acc, cf, af)
        BY <2>1 DEF DecimalInv, Adjustable
      <4>2. acc + (Nib - Ten) < ByteMod
        BY <3>1, <4>1 DEF AddLeaves
      <4> DEFINE al == IF LowOut THEN Raised(acc, Nib - Ten) ELSE acc
      <4>3. IF HighOut(al) THEN acc' = Raised(al, (Nib - Ten) * Nib) /\ cf' = 1
            ELSE acc' = al /\ cf' = 0
        BY <1>6 DEF Daa
      <4>4. al = IF LowOut THEN Raised(acc, Nib - Ten) ELSE acc
        OBVIOUS
      <4> HIDE DEF al
      <4> QED
        BY <1>1, <1>6, <3>1, <4>1, <4>2, <4>3, <4>4, DaaRight DEF Daa
    <3> QED
      BY <2>1, <3>1 DEF DecimalAdjust
  <2> QED
    BY <1>1, <1>3, <1>6, <2>1, Renamed DEF Daa
<1>7. CASE Das
  <2>1. CASE last.op \in {"sub", "sbb"} /\ last'.op = "das" /\ last'.base = last.base
             /\ last'.arg = last.arg /\ last'.cin = last.cin
    <3>1. ASSUME Packed(last.base), Packed(last.arg), last.cin = 0
          PROVE  Decimals(last.base) - Decimals(last.arg)
                   = Decimals(acc') - Ten * Ten * cf'
      <4>1. SubLeaves(Mod, last, acc, cf, af)
        BY <2>1, <3>1 DEF DecimalInv, Adjustable
      <4> DEFINE al == IF LowOut THEN Lowered(acc, Nib - Ten) ELSE acc
      <4>2. IF HighOut(al) THEN acc' = Lowered(al, (Nib - Ten) * Nib) /\ cf' = 1
            ELSE acc' = al /\ cf' = 0
        BY <1>7 DEF Das
      <4>3. al = IF LowOut THEN Lowered(acc, Nib - Ten) ELSE acc
        OBVIOUS
      <4> HIDE DEF al
      <4> QED
        BY <1>1, <1>7, <3>1, <4>1, <4>2, <4>3, DasRight DEF Das
    <3> QED
      BY <2>1, <3>1 DEF DecimalAdjust
  <2> QED
    BY <1>1, <1>3, <1>7, <2>1, Renamed DEF Das
<1>8. ASSUME NEW arg \in Operand, WithOperand(arg) PROVE DecimalAdjust'
  <2>1. last'.op \in {"add", "adc", "sub", "sbb", "cmp"}
    BY <1>8 DEF WithOperand, Add, Adc, Sub, Sbb, Cmp, Instr
  <2> QED
    BY <1>2, <2>1
<1>9. ASSUME NEW v \in Operand, Logic(v) \/ Test(v) PROVE DecimalAdjust'
  BY <1>3, <1>9 DEF Logic, Test
<1>10. ASSUME NEW half \in Halves, NEW v, Mov(half, v) PROVE DecimalAdjust'
  BY <1>3, <1>10 DEF Mov
<1>11. ASSUME NEW cc, Setcc(cc) PROVE DecimalAdjust'
  BY <1>3, <1>11 DEF Setcc
<1>12. CASE Not \/ Neg \/ Flip \/ Aad(Ten) \/ Aam(Ten)
  BY <1>3, <1>12 DEF Not, Neg, Flip, Clc, Stc, Cmc, SetCarry, Aad, Aam
<1>13. CASE Inc \/ Dec
  <2>1. last'.op \in {"inc", "dec"}
    BY <1>13 DEF Inc, Dec, Instr
  <2> QED
    BY <1>2, <2>1
<1>14. CASE UNCHANGED vars
  BY <1>14 DEF vars, regs, flags, DecimalInv, DecimalAdjust, Digit, Packed, Decimals
<1> QED
  BY <1>4, <1>5, <1>6, <1>7, <1>8, <1>9, <1>10, <1>11, <1>12, <1>13, <1>14 DEF Next, Decimal

-----------------------------------------------------------------------------
(* Rotates.  With arithmetic they share the residues of one wrap.          *)

\* y is x turned by n places in a ring of m.
TurnOf(y, x, n, m) == \A i \in 0 .. m - 1 : y[i] = x[(i - n) % m]

\* The ring r is a rotation of kind that has led to x.
LeadsTo(r, kind, m, x) ==
  /\ r = [kind |-> kind, orig |-> r.orig, turn |-> r.turn]
  /\ r.turn \in 0 .. m - 1 /\ TurnOf(x, r.orig, r.turn, m)

RingOK ==
  \/ ring.kind \notin {"plain", "carry"}
  \/ LeadsTo(ring, "plain", size, bits)
  \/ LeadsTo(ring, "carry", size + 1, Whole)

RotInv == ShiftTypeOK /\ RingOK

LEMMA WidthsAre ==
  ASSUME NEW width \in Widths
  PROVE  width \in Nat /\ 1 < width /\ ByteW <= width /\ LongW \in Nat /\ 1 < LongW
BY ShifterAssumption DEF Widths

\* Turning by n, and then what had been turned by t before, turns by the sum.
TurnsAdd(m, n, t, i) ==
  /\ (i - n) % m \in 0 .. m - 1
  /\ (t + n) % m \in 0 .. m - 1
  /\ (((i - n) % m) - t) % m = (i - ((t + n) % m)) % m

LEMMA TurnOfTurn ==
  ASSUME NEW m \in Nat \ {0}, NEW n \in 0 .. m - 1, NEW t \in 0 .. m - 1, NEW i \in 0 .. m - 1
  PROVE  TurnsAdd(m, n, t, i)
<1>1. PICK j \in 0 .. m - 1 : j = (i - n) % m /\ j = IF n <= i THEN i - n ELSE i - n + m
  BY WrapOnce
<1>2. PICK u \in 0 .. m - 1 : u = (t + n) % m /\ u = IF t + n < m THEN t + n ELSE t + n - m
  BY WrapOnce
<1>3. (j - t) % m = IF t <= j THEN j - t ELSE j - t + m
  BY WrapOnce
<1>4. (i - u) % m = IF u <= i THEN i - u ELSE i - u + m
  BY WrapOnce
<1> QED
  BY <1>1, <1>2, <1>3, <1>4 DEF TurnsAdd

\* Two copies of x, shifted apart by its width, are x turned.
CopiesTurn(m, x, n, i) ==
  /\ Or(At(x, i - n), At(x, i + (m - n))) = x[(i - n) % m]
  /\ Or(At(x, i + (m - n)), At(x, i - n)) = x[(i - n) % m]

LEMMA TurnedBit ==
  ASSUME NEW m \in Nat \ {0}, NEW x \in [0 .. m - 1 -> Bit],
         NEW n \in 1 .. m - 1, NEW i \in 0 .. m - 1
  PROVE  CopiesTurn(m, x, n, i)
<1>1. (i - n) % m = IF n <= i THEN i - n ELSE i - n + m
  <2>1. n \in 0 .. m - 1
    OBVIOUS
  <2> QED
    BY <2>1, WrapOnce
<1>2. CASE n <= i
  <2>1. i - n \in 0 .. m - 1 /\ i + (m - n) \notin 0 .. m - 1
    BY <1>2
  <2> QED
    BY <1>1, <1>2, <2>1 DEF CopiesTurn, Or, At, Bit
<1>3. CASE ~ (n <= i)
  <2>1. i - n \notin 0 .. m - 1 /\ i + (m - n) \in 0 .. m - 1 /\ i + (m - n) = i - n + m
    BY <1>3
  <2> QED
    BY <1>1, <1>3, <2>1 DEF CopiesTurn, Or, At, Bit
<1> QED
  BY <1>2, <1>3

\* The history of the ring follows a turn by n.
LEMMA RingTurns ==
  ASSUME NEW kind \in {"plain", "carry"}, NEW m \in Nat \ {0}, NEW n \in 1 .. m - 1,
         NEW x, NEW y,
         ring.kind = kind => LeadsTo(ring, kind, m, x),
         TurnOf(y, x, n, m)
  PROVE  LeadsTo(Turned(kind, m, x, n), kind, m, y)
<1>0. n \in 0 .. m - 1
  OBVIOUS
<1>1. CASE ring.kind = kind
  <2>1. PICK t, o : t = ring.turn /\ o = ring.orig
    OBVIOUS
  <2>2. /\ ring = [kind |-> kind, orig |-> o, turn |-> t]
        /\ t \in 0 .. m - 1 /\ TurnOf(x, o, t, m)
    BY <1>1, <2>1 DEF LeadsTo
  <2>3. PICK u : u = (t + n) % m
    OBVIOUS
  <2>4. Turned(kind, m, x, n) = [kind |-> kind, orig |-> o, turn |-> u]
    BY <1>1, <2>2, <2>3 DEF Turned
  <2>5. u \in 0 .. m - 1
    BY <1>0, <2>2, <2>3, WrapOnce
  <2>6. ASSUME NEW i \in 0 .. m - 1 PROVE y[i] = o[(i - u) % m]
    <3>1. TurnsAdd(m, n, t, i)
      BY <1>0, <2>2, TurnOfTurn
    <3>2. PICK j : j = (i - n) % m
      OBVIOUS
    <3>3. j \in 0 .. m - 1 /\ (j - t) % m = (i - u) % m
      <4>1. /\ (i - n) % m \in 0 .. m - 1
            /\ (((i - n) % m) - t) % m = (i - ((t + n) % m)) % m
        BY <3>1, Zenon DEF TurnsAdd
      <4> QED
        BY <2>3, <3>2, <4>1, Zenon
    <3>4. y[i] = x[j] /\ x[j] = o[(j - t) % m]
      BY <2>2, <3>2, <3>3 DEF TurnOf
    <3> QED
      BY <3>3, <3>4
  <2> QED
    BY <2>4, <2>5, <2>6 DEF LeadsTo, TurnOf
<1>2. CASE ring.kind # kind
  <2>1. n % m = n
    OBVIOUS
  <2> QED
    BY <1>0, <1>2, <2>1 DEF Turned, LeadsTo
<1> QED
  BY <1>1, <1>2

\* Places lie inside the operand.
LEMMA PlacesAre ==
  ASSUME size \in Widths, NEW count \in Counts, Places(count) # 0
  PROVE  Places(count) \in 1 .. size - 1
<1>1. PICK n \in Nat : n = Masked(count)
  <2>1. count \in Nat /\ LongW \in Nat /\ LongW > 0
    BY ShifterAssumption
  <2> QED
    BY <2>1 DEF Masked
<1>2. size \in Nat /\ size > 0
  BY WidthsAre
<1>3. n % size \in 0 .. size - 1
  BY <1>2
<1> QED
  BY <1>1, <1>3 DEF Places

LEMMA OrBit ==
  ASSUME NEW a, NEW b
  PROVE  Or(a, b) \in Bit /\ Xor(a, b) \in Bit
BY DEF Or, Xor, Bit

LEMMA WholeIs ==
  ASSUME ShiftTypeOK
  PROVE  Whole \in [0 .. size -> Bit] /\ size \in Nat /\ 1 < size
BY WidthsAre DEF ShiftTypeOK, Whole, Bits, Bit

LEMMA RolStep ==
  ASSUME RotInv, NEW count \in Counts, Rol(count)
  PROVE  RotInv'
<1>1. size \in Nat /\ 1 < size /\ size \in Widths /\ bits \in [0 .. size - 1 -> Bit]
  BY WidthsAre DEF RotInv, ShiftTypeOK, Bits
<1>2. PICK n \in 1 .. size - 1 : n = Places(count)
  BY <1>1, PlacesAre DEF Rol
<1>3. bits' = [i \in 0 .. size - 1 |-> Or(At(bits, i - n), At(bits, i + (size - n)))]
  BY <1>2 DEF Rol
<1>4. bits' \in [0 .. size - 1 -> Bit] /\ size' = size
  BY <1>3, OrBit DEF Rol
<1>5. TurnOf(bits', bits, n, size)
  <2>1. \A i \in 0 .. size - 1 : CopiesTurn(size, bits, n, i)
    BY <1>1, TurnedBit
  <2> QED
    BY <1>3, <2>1 DEF CopiesTurn, TurnOf
<1>6. ShiftTypeOK'
  <2>1. zf' \in Bit /\ sf' \in Bit /\ size' \in Widths /\ bits' \in Bits(size')
    BY <1>1, <1>4 DEF Rol, RotInv, ShiftTypeOK, Bits
  <2>2. cf' \in Bit
    <3>1. 0 \in 0 .. size - 1
      BY <1>1
    <3> QED
      BY <1>4, <3>1 DEF Rol
  <2>3. of' \in Bit
    BY OrBit DEF Rol, Bit
  <2> QED
    BY <2>1, <2>2, <2>3 DEF ShiftTypeOK
<1>7. ring' = Turned("plain", size, bits, n)
  BY <1>2 DEF Rol
<1>8. ring.kind = "plain" => LeadsTo(ring, "plain", size, bits)
  BY DEF RotInv, RingOK, LeadsTo
<1>9. LeadsTo(ring', "plain", size, bits')
  BY <1>1, <1>5, <1>7, <1>8, RingTurns
<1> QED
  BY <1>4, <1>6, <1>9 DEF RotInv, RingOK

LEMMA RorStep ==
  ASSUME RotInv, NEW count \in Counts, Ror(count)
  PROVE  RotInv'
<1>1. size \in Nat /\ 1 < size /\ size \in Widths /\ bits \in [0 .. size - 1 -> Bit]
  BY WidthsAre DEF RotInv, ShiftTypeOK, Bits
<1>2. PICK n \in 1 .. size - 1 : n = Places(count)
  BY <1>1, PlacesAre DEF Ror
<1>3. PICK k \in 1 .. size - 1 : k = size - n /\ n = size - k
  BY <1>1
<1>4. bits' = [i \in 0 .. size - 1 |-> Or(At(bits, i + (size - k)), At(bits, i - k))]
  BY <1>2, <1>3 DEF Ror, RorBit
<1>5. bits' \in [0 .. size - 1 -> Bit] /\ size' = size
  BY <1>4, OrBit DEF Ror
<1>6. TurnOf(bits', bits, k, size)
  <2>1. \A i \in 0 .. size - 1 : CopiesTurn(size, bits, k, i)
    BY <1>1, TurnedBit
  <2> QED
    BY <1>4, <2>1 DEF CopiesTurn, TurnOf
<1>7. ShiftTypeOK'
  <2>1. zf' \in Bit /\ sf' \in Bit /\ size' \in Widths /\ bits' \in Bits(size')
    BY <1>1, <1>5 DEF Ror, RotInv, ShiftTypeOK, Bits
  <2>2. cf' \in Bit
    <3>1. size - 1 \in 0 .. size - 1
      BY <1>1
    <3> QED
      BY <1>5, <3>1 DEF Ror
  <2>3. of' \in Bit
    BY OrBit DEF Ror, Bit
  <2> QED
    BY <2>1, <2>2, <2>3 DEF ShiftTypeOK
<1>8. ring' = Turned("plain", size, bits, k)
  BY <1>2, <1>3 DEF Ror
<1>9. ring.kind = "plain" => LeadsTo(ring, "plain", size, bits)
  BY DEF RotInv, RingOK, LeadsTo
<1>10. LeadsTo(ring', "plain", size, bits')
  BY <1>1, <1>6, <1>8, <1>9, RingTurns
<1> QED
  BY <1>5, <1>7, <1>10 DEF RotInv, RingOK

\* RCL turns operand and carry, which it finds below the operand.
LEMMA RclStep ==
  ASSUME RotInv, NEW count \in Counts, Rcl(count)
  PROVE  RotInv'
<1>1. size \in Nat /\ 1 < size /\ size \in Widths /\ bits \in [0 .. size - 1 -> Bit]
      /\ cf \in Bit
  BY WidthsAre DEF RotInv, ShiftTypeOK, Bits
<1>2. PICK n \in 1 .. size - 1 : n = Places(count)
  BY <1>1, PlacesAre DEF Rcl
<1>3. PICK m \in Nat \ {0} : m = size + 1
  BY <1>1
<1> DEFINE bit(i) == Or(At(BigLeft, i - n), At(BigLeft, i + (m - n)))
<1>4. /\ bits' = [i \in 0 .. size - 1 |-> bit(i + 1)] /\ cf' = bit(size + 1) /\ size' = size
      /\ ring' = Turned("carry", m, Whole, n)
  <2>1. bits' = [i \in 0 .. size - 1 |->
                   Or(At(BigLeft, (i + 1) - n),
                         At(BigLeft, (i + 1) + (size + (1 - n))))]
    BY <1>2 DEF Rcl
  <2>2. cf' = Or(At(BigLeft, (size + 1) - n),
                    At(BigLeft, (size + 1) + (size + (1 - n))))
    BY <1>2 DEF Rcl
  <2>3. size' = size /\ ring' = Turned("carry", size + 1, Whole, n)
    BY <1>2 DEF Rcl
  <2>0. size + (1 - n) = m - n
    BY <1>1, <1>3
  <2>4. cf' = bit(size + 1)
    BY <2>0, <2>2
  <2>5. bits' = [i \in 0 .. size - 1 |-> bit(i + 1)]
    BY <2>0, <2>1
  <2>6. ring' = Turned("carry", m, Whole, n)
    BY <1>3, <2>3
  <2> QED
    BY <2>3, <2>4, <2>5, <2>6
<1>5. ASSUME NEW j \in Int
      PROVE  At(BigLeft, j) = IF j = 0 THEN cf
                                     ELSE IF j \in 1 .. size THEN bits[j - 1] ELSE 0
  BY <1>1 DEF At, BigLeft
<1>6. ASSUME NEW i \in 0 .. size PROVE bit(i + 1) = Whole[(i - n) % m]
  <2>1. (i - n) % m = IF n <= i THEN i - n ELSE i - n + m
    <3>1. n \in 0 .. m - 1 /\ i \in 0 .. m - 1
      BY <1>1, <1>3
    <3> QED
      BY <3>1, WrapOnce
  <2>2. PICK a \in Int, b \in Int : a = i + 1 - n /\ b = i + 1 + (m - n)
    BY <1>1, <1>3
  <2>3. CASE n <= i
    <3>1. a \in 1 .. size /\ b > size /\ a - 1 = i - n /\ i - n \in 0 .. size - 1
      BY <1>1, <1>3, <2>2, <2>3
    <3>2. At(BigLeft, a) = bits[i - n] /\ At(BigLeft, b) = 0
      BY <1>1, <1>5, <3>1
    <3>3. Whole[(i - n) % m] = bits[i - n] /\ bits[i - n] \in Bit
      BY <1>1, <2>1, <2>3, <3>1 DEF Whole
    <3> QED
      BY <2>2, <3>2, <3>3 DEF Or, Bit
  <2>4. CASE n = i + 1
    <3>1. a = 0 /\ b > size /\ i - n + m = size
      BY <1>1, <1>3, <2>2, <2>4
    <3>2. At(BigLeft, a) = cf /\ At(BigLeft, b) = 0
      BY <1>1, <1>5, <3>1
    <3>3. Whole[(i - n) % m] = cf
      BY <1>1, <2>1, <2>4, <3>1 DEF Whole
    <3> QED
      BY <1>1, <2>2, <3>2, <3>3 DEF Or, Bit
  <2>5. CASE n > i + 1
    <3>1. a < 0 /\ b \in 1 .. size /\ b - 1 = i - n + m /\ i - n + m \in 0 .. size - 1
      BY <1>1, <1>3, <2>2, <2>5
    <3>2. At(BigLeft, a) = 0 /\ At(BigLeft, b) = bits[i - n + m]
      BY <1>1, <1>5, <3>1
    <3>3. Whole[(i - n) % m] = bits[i - n + m] /\ bits[i - n + m] \in Bit
      BY <1>1, <2>1, <2>5, <3>1 DEF Whole
    <3> QED
      BY <2>2, <3>2, <3>3 DEF Or, Bit
  <2> QED
    BY <1>1, <2>3, <2>4, <2>5
<1>7. \A i : bit(i) \in Bit
  BY OrBit
<1> HIDE DEF bit
<1>8. bits' \in [0 .. size - 1 -> Bit] /\ cf' \in Bit
  BY <1>4, <1>7
<1>9. ShiftTypeOK'
  <2>1. zf' \in Bit /\ sf' \in Bit /\ size' \in Widths /\ bits' \in Bits(size')
    BY <1>1, <1>4, <1>8 DEF Rcl, RotInv, ShiftTypeOK, Bits
  <2>2. of' \in Bit
    BY OrBit DEF Rcl, Bit
  <2> QED
    BY <1>8, <2>1, <2>2 DEF ShiftTypeOK
<1>10. TurnOf(Whole', Whole, n, m)
  <2>1. ASSUME NEW i \in 0 .. size PROVE Whole'[i] = bit(i + 1)
    BY <1>1, <1>4 DEF Whole
  <2> QED
    BY <1>1, <1>3, <1>6, <2>1 DEF TurnOf
<1>11. n \in 1 .. m - 1
  BY <1>1, <1>3
<1>12. ring.kind = "carry" => LeadsTo(ring, "carry", m, Whole)
  BY <1>3 DEF RotInv, RingOK, LeadsTo
<1>13. LeadsTo(ring', "carry", m, Whole')
  BY <1>4, <1>10, <1>11, <1>12, RingTurns
<1> QED
  BY <1>3, <1>4, <1>9, <1>13 DEF RotInv, RingOK

LEMMA RcrStep ==
  ASSUME RotInv, NEW count \in Counts, Rcr(count)
  PROVE  RotInv'
<1>1. size \in Nat /\ 1 < size /\ size \in Widths /\ Whole \in [0 .. size -> Bit]
  BY WidthsAre, WholeIs DEF RotInv, ShiftTypeOK
<1>2. PICK n \in 1 .. size - 1 : n = Places(count)
  BY <1>1, PlacesAre DEF Rcr
<1>3. PICK m \in Nat \ {0} : m = size + 1
  BY <1>1
<1>4. PICK k \in 1 .. m - 1 : k = m - n /\ n = m - k
  BY <1>1, <1>3
<1> DEFINE bit(i) == Or(At(Whole, i + n), At(Whole, i - k))
<1>5. /\ bits' = [i \in 0 .. size - 1 |-> bit(i)] /\ size' = size
      /\ cf' = IF size = WordW THEN 0 ELSE bit(size)
      /\ ring' = IF size = WordW THEN NoRing ELSE Turned("carry", m, Whole, k)
  <2>1. size + (1 - n) = k
    BY <1>1, <1>3, <1>4
  <2>2. /\ bits' = [i \in 0 .. size - 1 |->
                      Or(At(Whole, i + n), At(Whole, i - (size + (1 - n))))]
        /\ cf' = IF size = WordW THEN 0
                 ELSE Or(At(Whole, size + n), At(Whole, size - (size + (1 - n))))
        /\ ring' = IF size = WordW THEN NoRing
                   ELSE Turned("carry", size + 1, Whole, size + (1 - n))
        /\ size' = size
    BY <1>2 DEF Rcr
  <2> QED
    BY <1>3, <2>1, <2>2
<1>6. ASSUME NEW i \in 0 .. m - 1 PROVE bit(i) = Whole[(i - k) % m]
  <2>1. Whole \in [0 .. m - 1 -> Bit]
    BY <1>1, <1>3
  <2>2. CopiesTurn(m, Whole, k, i)
    BY <2>1, TurnedBit
  <2> QED
    BY <1>4, <2>2 DEF CopiesTurn
<1>7. \A i : bit(i) \in Bit
  BY OrBit
<1> HIDE DEF bit
<1>8. bits' \in [0 .. size - 1 -> Bit] /\ cf' \in Bit
  BY <1>5, <1>7 DEF Bit
<1>9. ShiftTypeOK'
  <2>1. zf' \in Bit /\ sf' \in Bit /\ size' \in Widths /\ bits' \in Bits(size')
    BY <1>1, <1>5, <1>8 DEF Rcr, RotInv, ShiftTypeOK, Bits
  <2>2. of' \in Bit
    BY OrBit DEF Rcr, Bit
  <2> QED
    BY <1>8, <2>1, <2>2 DEF ShiftTypeOK
<1>10. CASE size = WordW
  BY <1>5, <1>9, <1>10 DEF NoRing, RotInv, RingOK
<1>11. CASE size # WordW
  <2>1. TurnOf(Whole', Whole, k, m)
    <3>1. ASSUME NEW i \in 0 .. size PROVE Whole'[i] = bit(i)
      BY <1>1, <1>5, <1>11 DEF Whole
    <3> QED
      BY <1>1, <1>3, <1>6, <3>1 DEF TurnOf
  <2>2. ring.kind = "carry" => LeadsTo(ring, "carry", m, Whole)
    BY <1>3 DEF RotInv, RingOK, LeadsTo
  <2>3. LeadsTo(ring', "carry", m, Whole')
    BY <1>5, <1>11, <2>1, <2>2, RingTurns
  <2> QED
    BY <1>3, <1>5, <1>9, <2>3 DEF RotInv, RingOK
<1> QED
  BY <1>10, <1>11

LEMMA FlagsTyped ==
  ASSUME NEW width \in Widths, NEW x \in [0 .. width - 1 -> Bit],
         ShiftFlags(x, width)
  PROVE  zf' \in Bit /\ sf' \in Bit
<1>1. width - 1 \in 0 .. width - 1
  BY WidthsAre
<1> QED
  BY <1>1 DEF ShiftFlags, Bit

\* A shift ends the rotation and leaves an operand of its width.
LEMMA ShiftStep ==
  ASSUME RotInv, NEW count \in Counts,
         \/ Shl(count) \/ Shr(count) \/ Sar(count) \/ SarWideImm(count)
         \/ \E src \in Sources[size] : Shld(src, count) \/ Shrd(src, count)
  PROVE  RotInv'
<1>1. size \in Nat /\ 1 < size /\ size \in Widths /\ bits \in [0 .. size - 1 -> Bit]
      /\ ByteW \in Widths
      /\ ByteW \in Nat /\ ByteW <= size /\ 1 < ByteW /\ cf \in Bit /\ of \in Bit
  BY ShifterAssumption, WidthsAre DEF RotInv, ShiftTypeOK, Bits, Widths
<1>2. \A i : At(bits, i) \in Bit
  BY <1>1 DEF At, Bit
<1>3. ring' = NoRing => RingOK'
  BY DEF NoRing, RingOK
<1>4. ASSUME NEW res \in [0 .. size - 1 -> Bit], bits' = res, ShiftFlags(res, size),
             cf' \in Bit, of' \in Bit, size' = size, ring' = NoRing
      PROVE  RotInv'
  <2>1. zf' \in Bit /\ sf' \in Bit
    BY <1>1, <1>4, FlagsTyped
  <2> QED
    BY <1>1, <1>3, <1>4, <2>1 DEF RotInv, ShiftTypeOK, Bits
<1>5. size - 1 \in 0 .. size - 1 /\ bits[size - 1] \in Bit /\ 0 \in Bit
  BY <1>1 DEF Bit
<1>6. CASE Shl(count)
  <2> DEFINE res == [i \in 0 .. size - 1 |-> At(bits, i - Masked(count))]
  <2>1. res \in [0 .. size - 1 -> Bit]
    BY <1>2
  <2>2. cf' \in Bit /\ of' \in Bit
    BY <1>1, <1>2, <1>6, OrBit DEF Shl, ShlCarry
  <2> QED
    BY <1>4, <1>6, <2>1, <2>2 DEF Shl
<1>7. CASE Shr(count)
  <2> DEFINE res == [i \in 0 .. size - 1 |-> At(bits, i + Masked(count))]
  <2>1. res \in [0 .. size - 1 -> Bit]
    BY <1>2
  <2>2. cf' \in Bit /\ of' \in Bit
    BY <1>2, <1>5, <1>7 DEF Shr
  <2> QED
    BY <1>4, <1>7, <2>1, <2>2 DEF Shr
<1>8. PICK n \in Nat : n = Masked(count)
  <2>1. count \in Nat /\ LongW \in Nat /\ LongW > 0
    BY ShifterAssumption
  <2> QED
    BY <2>1 DEF Masked
<1>9. CASE Sar(count)
  <2> DEFINE res == [i \in 0 .. size - 1 |-> SarBit(bits, size, n, i)]
  <2>1. res \in [0 .. size - 1 -> Bit]
    <3>1. ASSUME NEW i \in 0 .. size - 1 PROVE SarBit(bits, size, n, i) \in Bit
      <4>1. i + n < size => i + n \in 0 .. size - 1
        BY <1>1
      <4> QED
        BY <1>1, <1>5, <4>1 DEF SarBit
    <3> QED
      BY <3>1
  <2>2. cf' \in Bit /\ of' \in Bit
    BY <1>2, <1>5, <1>9 DEF Sar
  <2> QED
    BY <1>4, <1>8, <1>9, <2>1, <2>2 DEF Sar
<1>10. CASE SarWideImm(count)
  <2> DEFINE low == [i \in 0 .. ByteW - 1 |-> bits[i]]
  <2> DEFINE res == [i \in 0 .. ByteW - 1 |-> SarBit(low, ByteW, n, i)]
  <2>1. low \in [0 .. ByteW - 1 -> Bit]
    BY <1>1
  <2>2. /\ bits' = LowByteWritten(res) /\ cf' = At(low, n - 1) /\ of' = 0
        /\ ShiftFlags(res, ByteW) /\ size' = size /\ ring' = NoRing
    BY <1>8, <1>10 DEF SarWideImm
  <2> HIDE DEF low
  <2>3. res \in [0 .. ByteW - 1 -> Bit]
    <3>1. ASSUME NEW i \in 0 .. ByteW - 1 PROVE SarBit(low, ByteW, n, i) \in Bit
      <4>1. i + n < ByteW => i + n \in 0 .. ByteW - 1
        BY <1>1
      <4>2. ByteW - 1 \in 0 .. ByteW - 1
        BY <1>1
      <4> QED
        BY <1>1, <2>1, <4>1, <4>2 DEF SarBit
    <3> QED
      BY <3>1
  <2> HIDE DEF res
  <2>4. bits' \in [0 .. size - 1 -> Bit]
    <3>1. ASSUME NEW i \in 0 .. size - 1
          PROVE  (IF i < ByteW THEN res[i] ELSE bits[i]) \in Bit
      BY <1>1, <2>3
    <3> QED
      BY <2>2, <3>1 DEF LowByteWritten
  <2>5. cf' \in Bit /\ of' \in Bit
    BY <2>1, <2>2 DEF At, Bit
  <2>6. zf' \in Bit /\ sf' \in Bit
    BY <1>1, <2>2, <2>3, FlagsTyped
  <2> QED
    BY <1>1, <1>3, <2>2, <2>4, <2>5, <2>6 DEF RotInv, ShiftTypeOK, Bits
<1>11. ASSUME NEW src \in Sources[size], Shld(src, count) PROVE RotInv'
  <2> DEFINE res == [i \in 0 .. size - 1 |->
                      Or(At(bits, i - (count % size)),
                            At(src, i + (size - (count % size))))]
  <2>1. res \in [0 .. size - 1 -> Bit]
    BY OrBit
  <2>2. cf' \in Bit /\ of' \in Bit
    BY <1>1, <1>2, <1>11, OrBit DEF Shld, ShlCarry
  <2> QED
    BY <1>4, <1>11, <2>1, <2>2 DEF Shld
<1>12. ASSUME NEW src \in Sources[size], Shrd(src, count) PROVE RotInv'
  <2> DEFINE res == [i \in 0 .. size - 1 |->
                      Or(At(bits, i + (count % size)),
                            At(src, i - (size - (count % size))))]
  <2>1. res \in [0 .. size - 1 -> Bit]
    BY OrBit
  <2>2. cf' \in Bit /\ of' \in Bit
    BY <1>2, <1>5, <1>12, OrBit DEF Shrd
  <2> QED
    BY <1>4, <1>12, <2>1, <2>2 DEF Shrd
<1> QED
  BY <1>6, <1>7, <1>9, <1>10, <1>11, <1>12

LEMMA RotNext == RotInv /\ [ShiftNext]_shiftVars => RotInv'
<1> SUFFICES ASSUME RotInv, [ShiftNext]_shiftVars PROVE RotInv'
  OBVIOUS
<1>1. ASSUME NEW width \in Widths, NEW x \in Bits(width), MovBits(width, x) PROVE RotInv'
  BY <1>1 DEF MovBits, RotInv, ShiftTypeOK, RingOK, NoRing, shiftFlags
<1>2. ASSUME NEW c \in Bit, PutCarry(c) PROVE RotInv'
  BY <1>2 DEF PutCarry, RotInv, ShiftTypeOK, RingOK, NoRing
<1>3. CASE UNCHANGED shiftVars
  BY <1>3 DEF shiftVars, shiftFlags, RotInv, ShiftTypeOK, RingOK, LeadsTo, TurnOf, Whole
<1> QED
  BY <1>1, <1>2, <1>3, ShiftStep, RolStep, RorStep, RclStep, RcrStep DEF ShiftNext


-----------------------------------------------------------------------------
(* Powers of two and the numbers that bits stand for, of Shifter           *)

\* The remainder is the only one, and so is the quotient.
LEMMA Unique ==
  ASSUME NEW d \in Nat \ {0}, NEW q \in Int, NEW r \in 0 .. d - 1
  PROVE  (d * q + r) % d = r /\ (d * q + r) \div d = q
<1>1. PICK x \in Int : x = d * q + r
  OBVIOUS
<1>2. PICK p \in Int : p = x \div d
  OBVIOUS
<1>3. PICK s \in 0 .. d - 1 : s = x % d
  OBVIOUS
<1>4. x = d * p + s
  BY <1>2, <1>3
<1>5. d * (p - q) = r - s
  BY <1>1, <1>4
<1>6. PICK k \in Int : k = p - q
  OBVIOUS
<1>7. k >= 1 => d * k >= d
  OBVIOUS
<1>8. k <= -1 => d * k <= - d
  OBVIOUS
<1>9. k = 0
  BY <1>5, <1>6, <1>7, <1>8
<1>10. p = q
  BY <1>6, <1>9
<1>11. s = r
  BY <1>1, <1>4, <1>10
<1> QED
  BY <1>1, <1>2, <1>3, <1>10, <1>11

\* The least element of a set of numbers.
LEMMA Least ==
  ASSUME NEW T, T \subseteq Nat, T # {}
  PROVE  \E j \in T : \A k \in T : ~ (k < j)
<1>1. PICK j \in T : \A k \in T : ~ (<<k, j>> \in OpToRel(<, Nat))
  BY NatLessThanWellFounded, WFMin
<1>2. j \in Nat /\ \A k \in T : ~ (k < j)
  BY <1>1 DEF OpToRel
<1> QED
  BY <1>2

\* The recursion of Power, as far as n.
PowersTo(f, n) == f = [k \in 0 .. n |-> IF k = 0 THEN 1 ELSE 2 * f[k - 1]]

LEMMA OnePowerMore ==
  ASSUME NEW n \in Nat, NEW f, PowersTo(f, n)
  PROVE  \E g : PowersTo(g, n + 1)
<1>1. PICK top : top = 2 * f[n]
  OBVIOUS
<1>2. PICK g : g = [k \in 0 .. n + 1 |-> IF k = n + 1 THEN top ELSE f[k]]
  OBVIOUS
<1>3. \A k \in 0 .. n + 1 : g[k] = IF k = 0 THEN 1 ELSE 2 * g[k - 1]
  <2> TAKE k \in 0 .. n + 1
  <2>1. CASE k = n + 1
    <3>1. k # 0 /\ k - 1 = n /\ n \in 0 .. n + 1 /\ n # n + 1
      BY <2>1
    <3>2. g[k] = top /\ g[n] = f[n]
      BY <1>2, <2>1, <3>1
    <3> QED
      BY <1>1, <3>1, <3>2, Zenon
  <2>2. CASE k \in 0 .. n
    <3>1. f[k] = IF k = 0 THEN 1 ELSE 2 * f[k - 1]
      BY <2>2, Zenon DEF PowersTo
    <3>2. g[k] = f[k] /\ (k # 0 => g[k - 1] = f[k - 1])
      BY <1>2, <2>2
    <3> QED
      BY <3>1, <3>2, Zenon
  <2> QED
    BY <2>1, <2>2
<1>4. PICK e : e = [k \in 0 .. n + 1 |-> IF k = 0 THEN 1 ELSE 2 * g[k - 1]]
  OBVIOUS
<1>5. \A k \in 0 .. n + 1 : e[k] = g[k]
  BY <1>3, <1>4, Zenon
<1>6. g = e
  BY <1>2, <1>4, <1>5
<1> QED
  BY <1>4, <1>6, Zenon DEF PowersTo

LEMMA PowersExist ==
  ASSUME NEW n \in Nat
  PROVE  \E f : PowersTo(f, n)
<1> DEFINE T == {k \in Nat : ~ \E f : PowersTo(f, k)}
<1> SUFFICES ASSUME T # {} PROVE FALSE
  OBVIOUS
<1>1. PICK j \in T : \A k \in T : ~ (k < j)
  <2>1. T \subseteq Nat
    OBVIOUS
  <2> HIDE DEF T
  <2> QED
    BY <2>1, Least
<1>2. CASE j = 0
  <2>1. PICK f : f = [k \in 0 .. 0 |-> 1]
    OBVIOUS
  <2>2. \A k \in 0 .. 0 : 1 = IF k = 0 THEN 1 ELSE 2 * f[k - 1]
    OBVIOUS
  <2>3. PowersTo(f, 0)
    BY <2>1, <2>2, Zenon DEF PowersTo
  <2> QED
    BY <1>1, <1>2, <2>3
<1>3. CASE j # 0
  <2>1. PICK k \in Nat : j = k + 1 /\ k < j
    BY <1>1, <1>3
  <2>2. k \notin T
    BY <1>1, <2>1
  <2>3. \E f : PowersTo(f, k + 1)
    BY <2>2, OnePowerMore
  <2> QED
    BY <1>1, <2>1, <2>3
<1> QED
  BY <1>2, <1>3

LEMMA PowerIs ==
  /\ Power[0] = 1
         /\ \A k \in 0 .. LongW - 1 : Power[k + 1] = 2 * Power[k]
<1>1. LongW \in Nat
  BY ShifterAssumption
<1>2. PICK f : f = Power
  OBVIOUS
<1>3. Power = CHOOSE g : PowersTo(g, LongW)
  BY Zenon DEF Power, PowersTo
<1>4. PowersTo(f, LongW)
  <2>1. \E g : PowersTo(g, LongW)
    BY <1>1, PowersExist
  <2> QED
    BY <1>2, <1>3, <2>1, Zenon
<1>5. \A k \in 0 .. LongW : f[k] = IF k = 0 THEN 1 ELSE 2 * f[k - 1]
  BY <1>4, Zenon DEF PowersTo
<1>6. 0 \in 0 .. LongW
  BY <1>1
<1>7. ASSUME NEW k \in 0 .. LongW - 1 PROVE f[k + 1] = 2 * f[k]
  <2>1. k + 1 \in 0 .. LongW /\ k + 1 # 0 /\ (k + 1) - 1 = k
    BY <1>1
  <2>2. f[k + 1] = 2 * f[(k + 1) - 1]
    BY <1>5, <2>1, Zenon
  <2> QED
    BY <2>1, <2>2, Zenon
<1> QED
  BY <1>2, <1>5, <1>6, <1>7, Zenon

LEMMA PowerNat ==
  ASSUME NEW n \in 0 .. LongW
  PROVE  Power[n] \in Nat \ {0}
<1> DEFINE T == {k \in 0 .. LongW : ~ (Power[k] \in Nat \ {0})}
<1> SUFFICES ASSUME T # {} PROVE FALSE
  BY Zenon
<1>0. LongW \in Nat
  BY ShifterAssumption
<1>a. T \subseteq 0 .. LongW /\ 0 .. LongW \subseteq Nat
  BY <1>0
<1>1. PICK j \in T : \A k \in T : ~ (k < j)
  <2>1. T \subseteq Nat
    BY <1>a
  <2> HIDE DEF T
  <2> QED
    BY <2>1, Least
<1>2. CASE j = 0
  BY <1>1, <1>2, PowerIs
<1>3. CASE j # 0
  <2>1. PICK k \in 0 .. LongW - 1 : j = k + 1 /\ k < j /\ k \in 0 .. LongW
    BY <1>0, <1>1, <1>3
  <2>2. Power[k] \in Nat \ {0}
    BY <1>1, <2>1
  <2>3. Power[j] = 2 * Power[k]
    BY <2>1, PowerIs
  <2> QED
    BY <1>1, <2>2, <2>3
<1> QED
  BY <1>2, <1>3

LEMMA PowerSum ==
  ASSUME NEW a \in Nat, NEW b \in Nat, a + b <= LongW
  PROVE  Power[a + b] = Power[a] * Power[b]
<1> DEFINE T == {k \in 0 .. b : ~ (Power[a + k] = Power[a] * Power[k])}
<1>b. b \in 0 .. b
  OBVIOUS
<1> SUFFICES ASSUME T # {} PROVE FALSE
  BY <1>b, Zenon
<1>0. LongW \in Nat
  BY ShifterAssumption
<1>1. PICK j \in T : \A k \in T : ~ (k < j)
  <2>1. T \subseteq Nat
    OBVIOUS
  <2> HIDE DEF T
  <2> QED
    BY <2>1, Least
<1>2. a \in 0 .. LongW /\ Power[a] \in Nat
  BY <1>0, PowerNat
<1>3. CASE j = 0
  <2>1. a + j = a /\ Power[j] = 1
    BY <1>3, PowerIs
  <2> QED
    BY <1>1, <1>2, <2>1
<1>4. CASE j # 0
  <2>1. PICK k \in 0 .. b - 1 : j = k + 1 /\ k < j /\ k \in 0 .. b
    BY <1>1, <1>4
  <2>2. PICK s \in 0 .. LongW - 1 : s = a + k /\ a + j = s + 1
    BY <1>0, <2>1
  <2>3. Power[s] = Power[a] * Power[k]
    BY <1>1, <2>1, <2>2
  <2>4. Power[a + j] = 2 * Power[s]
    BY <2>2, PowerIs
  <2>5. k \in 0 .. LongW - 1 /\ k \in 0 .. LongW
    BY <1>0, <2>1
  <2>6. Power[j] = 2 * Power[k] /\ Power[k] \in Nat
    BY <2>1, <2>5, PowerIs, PowerNat
  <2>7. 2 * (Power[a] * Power[k]) = Power[a] * (2 * Power[k])
    BY <1>2, <2>6
  <2> QED
    BY <1>1, <2>3, <2>4, <2>6, <2>7
<1> QED
  BY <1>3, <1>4

\* The recursion of LowBits, as far as n.
SumsTo(f, x, n) ==
  f = [k \in 0 .. n |-> IF k = 0 THEN 0 ELSE f[k - 1] + x[k - 1] * Power[k - 1]]

LEMMA OneSumMore ==
  ASSUME NEW x, NEW n \in Nat, NEW f, SumsTo(f, x, n)
  PROVE  \E g : SumsTo(g, x, n + 1)
<1>1. PICK top : top = f[n] + x[n] * Power[n]
  OBVIOUS
<1>2. PICK g : g = [k \in 0 .. n + 1 |-> IF k = n + 1 THEN top ELSE f[k]]
  OBVIOUS
<1>3. \A k \in 0 .. n + 1 : g[k] = IF k = 0 THEN 0 ELSE g[k - 1] + x[k - 1] * Power[k - 1]
  <2> TAKE k \in 0 .. n + 1
  <2>1. CASE k = n + 1
    <3>1. k # 0 /\ k - 1 = n /\ n \in 0 .. n + 1 /\ n # n + 1
      BY <2>1
    <3>2. g[k] = top /\ g[n] = f[n]
      BY <1>2, <2>1, <3>1
    <3> QED
      BY <1>1, <3>1, <3>2, Zenon
  <2>2. CASE k \in 0 .. n
    <3>1. f[k] = IF k = 0 THEN 0 ELSE f[k - 1] + x[k - 1] * Power[k - 1]
      BY <2>2, Zenon DEF SumsTo
    <3>2. g[k] = f[k] /\ (k # 0 => g[k - 1] = f[k - 1])
      BY <1>2, <2>2
    <3> QED
      BY <3>1, <3>2, Zenon
  <2> QED
    BY <2>1, <2>2
<1>4. PICK e : e = [k \in 0 .. n + 1 |-> IF k = 0 THEN 0 ELSE g[k - 1] + x[k - 1] * Power[k - 1]]
  OBVIOUS
<1>5. \A k \in 0 .. n + 1 : e[k] = g[k]
  BY <1>3, <1>4, Zenon
<1>6. g = e
  BY <1>2, <1>4, <1>5
<1> QED
  BY <1>4, <1>6, Zenon DEF SumsTo

LEMMA SumsExist ==
  ASSUME NEW x, NEW n \in Nat
  PROVE  \E f : SumsTo(f, x, n)
<1> DEFINE T == {k \in Nat : ~ \E f : SumsTo(f, x, k)}
<1> SUFFICES ASSUME T # {} PROVE FALSE
  OBVIOUS
<1>1. PICK j \in T : \A k \in T : ~ (k < j)
  <2>1. T \subseteq Nat
    OBVIOUS
  <2> HIDE DEF T
  <2> QED
    BY <2>1, Least
<1>2. CASE j = 0
  <2>1. PICK f : f = [k \in 0 .. 0 |-> 0]
    OBVIOUS
  <2>2. \A k \in 0 .. 0 : 0 = IF k = 0 THEN 0 ELSE f[k - 1] + x[k - 1] * Power[k - 1]
    OBVIOUS
  <2>3. SumsTo(f, x, 0)
    BY <2>1, <2>2, Zenon DEF SumsTo
  <2> QED
    BY <1>1, <1>2, <2>3
<1>3. CASE j # 0
  <2>1. PICK k \in Nat : j = k + 1 /\ k < j
    BY <1>1, <1>3
  <2>2. k \notin T
    BY <1>1, <2>1
  <2>3. \E f : SumsTo(f, x, k + 1)
    BY <2>2, OneSumMore
  <2> QED
    BY <1>1, <2>1, <2>3
<1> QED
  BY <1>2, <1>3

LEMMA LowBitsIs ==
  ASSUME NEW width \in Nat, NEW x
  PROVE  /\ LowBits(x, width)[0] = 0
         /\ \A k \in 0 .. width - 1 :
              LowBits(x, width)[k + 1] = LowBits(x, width)[k] + x[k] * Power[k]
<1>1. PICK f : f = LowBits(x, width)
  OBVIOUS
<1>2. LowBits(x, width) = CHOOSE g : SumsTo(g, x, width)
  BY Zenon DEF LowBits, SumsTo
<1>3. SumsTo(f, x, width)
  <2>1. \E g : SumsTo(g, x, width)
    BY SumsExist
  <2> QED
    BY <1>1, <1>2, <2>1, Zenon
<1>4. \A k \in 0 .. width : f[k] = IF k = 0 THEN 0 ELSE f[k - 1] + x[k - 1] * Power[k - 1]
  BY <1>3, Zenon DEF SumsTo
<1>5. 0 \in 0 .. width
  OBVIOUS
<1>6. ASSUME NEW k \in 0 .. width - 1 PROVE f[k + 1] = f[k] + x[k] * Power[k]
  <2>1. k + 1 \in 0 .. width /\ k + 1 # 0 /\ (k + 1) - 1 = k
    OBVIOUS
  <2>2. f[k + 1] = f[(k + 1) - 1] + x[(k + 1) - 1] * Power[(k + 1) - 1]
    BY <1>4, <2>1, Zenon
  <2> QED
    BY <2>1, <2>2, Zenon
<1> QED
  BY <1>1, <1>4, <1>5, <1>6, Zenon

\* Values of that width.
Value(x, width) == width \in 1 .. LongW /\ x \in [0 .. width - 1 -> Bit]

LEMMA LowBitsBelow ==
  ASSUME NEW width, NEW x, Value(x, width), NEW n \in 0 .. width
  PROVE  /\ n \in 0 .. LongW /\ Power[n] \in Nat \ {0}
         /\ LowBits(x, width)[n] \in 0 .. Power[n] - 1
<1> DEFINE T == {k \in 0 .. width : ~ (LowBits(x, width)[k] \in 0 .. Power[k] - 1)}
<1>0. LongW \in Nat /\ width \in Nat /\ width <= LongW
  BY ShifterAssumption DEF Value
<1>1. \A k \in 0 .. width : k \in 0 .. LongW /\ Power[k] \in Nat \ {0}
  BY <1>0, PowerNat
<1> SUFFICES ASSUME T # {} PROVE FALSE
  BY <1>1, Zenon
<1>2. PICK j \in T : \A k \in T : ~ (k < j)
  <2>1. 0 .. width \subseteq Nat
    BY <1>0
  <2>2. T \subseteq Nat
    BY <2>1
  <2> HIDE DEF T
  <2> QED
    BY <2>2, Least
<1>3. CASE j = 0
  <2>1. LowBits(x, width)[0] = 0 /\ Power[0] = 1
    BY <1>0, LowBitsIs, PowerIs
  <2> QED
    BY <1>2, <1>3, <2>1
<1>4. CASE j # 0
  <2>a. j \in 0 .. width
    BY <1>2
  <2>1. PICK k \in 0 .. width - 1 : j = k + 1 /\ k < j /\ k \in 0 .. width /\ k \in 0 .. LongW - 1
    <3> HIDE DEF T
    <3> QED
      BY <1>0, <1>4, <2>a
  <2>2. PICK p \in Nat \ {0} : p = Power[k]
    BY <1>1, <2>1
  <2>3. PICK s \in 0 .. p - 1 : s = LowBits(x, width)[k]
    BY <1>2, <2>1, <2>2
  <2>4. PICK d \in Bit : d = x[k]
    BY <2>1 DEF Value
  <2>5. LowBits(x, width)[j] = s + d * p
    BY <1>0, <2>1, <2>2, <2>3, <2>4, LowBitsIs
  <2>6. Power[j] = 2 * p
    BY <2>1, <2>2, PowerIs
  <2>7. s + d * p \in 0 .. 2 * p - 1
    BY <2>3 DEF Bit
  <2> QED
    BY <1>2, <2>5, <2>6, <2>7
<1> QED
  BY <1>3, <1>4

\* The values agree on m bits, of x from b on and of y from a on: these stand for v in both.
Shares(x, y, width, a, b, m, v) ==
  /\ v \in 0 .. Power[m] - 1
  /\ LowBits(y, width)[a + m] = LowBits(y, width)[a] + Power[a] * v
  /\ LowBits(x, width)[b + m] = LowBits(x, width)[b] + Power[b] * v

LEMMA OneBitMore ==
  ASSUME NEW width, NEW x, NEW y, Value(x, width), Value(y, width),
         NEW a \in Nat, NEW b \in Nat, NEW m \in Nat, a + m < width, b + m < width,
         NEW v, Shares(x, y, width, a, b, m, v), y[a + m] = x[b + m]
  PROVE  Shares(x, y, width, a, b, m + 1, v + x[b + m] * Power[m])
<1>0. LongW \in Nat /\ width \in Nat /\ width <= LongW
  BY ShifterAssumption DEF Value
<1>1. PICK i \in 0 .. width - 1 : i = a + m
  BY <1>0
<1>2. PICK j \in 0 .. width - 1 : j = b + m
  BY <1>0
<1>3. m \in 0 .. LongW - 1 /\ m \in 0 .. width /\ a \in 0 .. width /\ b \in 0 .. width
  BY <1>0
<1>4. PICK p \in Nat \ {0}, q \in Nat \ {0} : p = Power[a] /\ q = Power[b]
  BY <1>3, LowBitsBelow
<1>5. PICK r \in Nat \ {0} : r = Power[m]
  BY <1>3, LowBitsBelow
<1>6. Power[a + m] = p * r /\ Power[b + m] = q * r
  <2>1. a + m <= LongW /\ b + m <= LongW
    BY <1>0
  <2> QED
    BY <1>4, <1>5, <2>1, PowerSum
<1>7. Power[m + 1] = 2 * r
  BY <1>3, <1>5, PowerIs
<1>8. PICK d \in Bit : d = x[j]
  BY DEF Value
<1>9. PICK s \in Int, t \in Int : s = LowBits(y, width)[a] /\ t = LowBits(x, width)[b]
  <2>1. LowBits(y, width)[a] \in 0 .. Power[a] - 1 /\ LowBits(x, width)[b] \in 0 .. Power[b] - 1
    BY <1>3, LowBitsBelow
  <2> QED
    BY <1>4, <2>1
<1>10. v \in 0 .. r - 1 /\ LowBits(y, width)[i] = s + p * v /\ LowBits(x, width)[j] = t + q * v
  BY <1>1, <1>2, <1>4, <1>5, <1>9 DEF Shares
<1>11. LowBits(y, width)[i + 1] = s + p * v + d * (p * r)
  <2>1. LowBits(y, width)[i + 1] = LowBits(y, width)[i] + y[i] * Power[i]
    BY <1>0, LowBitsIs
  <2>2. y[i] = d /\ Power[i] = p * r
    BY <1>1, <1>2, <1>6, <1>8
  <2> QED
    BY <1>10, <2>1, <2>2, Zenon
<1>12. LowBits(x, width)[j + 1] = t + q * v + d * (q * r)
  <2>1. LowBits(x, width)[j + 1] = LowBits(x, width)[j] + x[j] * Power[j]
    BY <1>0, LowBitsIs
  <2>2. x[j] = d /\ Power[j] = q * r
    BY <1>2, <1>6, <1>8
  <2> QED
    BY <1>10, <2>1, <2>2, Zenon
<1>13. /\ d * (p * r) = p * (d * r) /\ d * (q * r) = q * (d * r)
       /\ p * (v + d * r) = p * v + p * (d * r) /\ q * (v + d * r) = q * v + q * (d * r)
  <2>1. v \in Int
    BY <1>10
  <2>2. CASE d = 0
    BY <2>1, <2>2
  <2>3. CASE d = 1
    BY <2>1, <2>3
  <2> QED
    BY <1>8, <2>2, <2>3 DEF Bit
<1>14. PICK e \in Int : e = d * r /\ e \in {0, r}
  <2>1. 0 * r = 0 /\ 1 * r = r
    OBVIOUS
  <2> QED
    BY <1>8, <2>1 DEF Bit
<1>15. v + e \in 0 .. 2 * r - 1
  <2>1. v \in 0 .. r - 1
    BY <1>10
  <2> QED
    BY <1>14, <2>1
<1>16. PICK u \in Int : u = p * e
  BY <1>14
<1>17. PICK w \in Int : w = q * e
  BY <1>14
<1>18. PICK f \in Int : f = p * v
  BY <1>10
<1>19. PICK g \in Int : g = q * v
  BY <1>10
<1>20. a + (m + 1) = i + 1 /\ b + (m + 1) = j + 1
  BY <1>1, <1>2
<1>21. s + f + u = s + (f + u) /\ t + g + w = t + (g + w)
  BY <1>9, <1>16, <1>17, <1>18, <1>19
<1>22. LowBits(y, width)[a + (m + 1)] = s + p * (v + e)
  BY <1>11, <1>13, <1>14, <1>16, <1>18, <1>20, <1>21, Zenon
<1>23. LowBits(x, width)[b + (m + 1)] = t + q * (v + e)
  BY <1>12, <1>13, <1>14, <1>17, <1>19, <1>20, <1>21, Zenon
<1>24. v + x[b + m] * Power[m] = v + e
  BY <1>2, <1>5, <1>8, <1>14, Zenon
<1> QED
  BY <1>4, <1>7, <1>9, <1>15, <1>22, <1>23, <1>24, Zenon DEF Shares

LEMMA SharedValue ==
  ASSUME NEW width, NEW x, NEW y, Value(x, width), Value(y, width),
         NEW a \in Nat, NEW b \in Nat, NEW m \in Nat, a + m <= width, b + m <= width,
         \A i \in 0 .. m - 1 : y[a + i] = x[b + i]
  PROVE  \E v : Shares(x, y, width, a, b, m, v)
<1> DEFINE T == {k \in 0 .. m : ~ \E v : Shares(x, y, width, a, b, k, v)}
<1>0. LongW \in Nat /\ width \in Nat /\ width <= LongW
  BY ShifterAssumption DEF Value
<1>a. m \in 0 .. m
  OBVIOUS
<1> SUFFICES ASSUME T # {} PROVE FALSE
  BY <1>a, Zenon
<1>1. PICK j \in T : \A k \in T : ~ (k < j)
  <2>1. 0 .. m \subseteq Nat
    OBVIOUS
  <2>2. T \subseteq Nat
    BY <2>1
  <2> HIDE DEF T
  <2> QED
    BY <2>2, Least
<1>2. CASE j = 0
  <2>1. a \in 0 .. width /\ b \in 0 .. width
    BY <1>0
  <2>2. PICK p \in Nat \ {0}, q \in Nat \ {0} : p = Power[a] /\ q = Power[b]
    BY <2>1, LowBitsBelow
  <2>3. PICK s \in 0 .. p - 1, t \in 0 .. q - 1 :
          s = LowBits(y, width)[a] /\ t = LowBits(x, width)[b]
    BY <2>1, <2>2, LowBitsBelow
  <2>4. 0 \in 0 .. Power[0] - 1 /\ a + 0 = a /\ b + 0 = b
    BY PowerIs
  <2>5. s = s + p * 0 /\ t = t + q * 0
    OBVIOUS
  <2>6. Shares(x, y, width, a, b, 0, 0)
    BY <2>2, <2>3, <2>4, <2>5, Zenon DEF Shares
  <2> QED
    BY <1>1, <1>2, <2>6
<1>3. CASE j # 0
  <2>1. PICK k \in 0 .. m - 1 : j = k + 1 /\ k < j /\ k \in 0 .. m
    BY <1>1, <1>3
  <2>2. PICK v : Shares(x, y, width, a, b, k, v)
    BY <1>1, <2>1
  <2>3. a + k < width /\ b + k < width /\ k \in Nat /\ y[a + k] = x[b + k]
    BY <1>0, <2>1
  <2>4. Shares(x, y, width, a, b, k + 1, v + x[b + k] * Power[k])
    BY <2>2, <2>3, OneBitMore
  <2> QED
    BY <1>1, <2>1, <2>4
<1> QED
  BY <1>2, <1>3


\* m bits of y from a on are all s.
Filled(y, width, s, a, m) ==
  LowBits(y, width)[a + m] = LowBits(y, width)[a] + s * (Power[a] * (Power[m] - 1))

LEMMA Fill ==
  ASSUME NEW width, NEW y, Value(y, width), NEW s \in Bit,
         NEW a \in Nat, NEW m \in Nat, a + m <= width,
         \A i \in 0 .. m - 1 : y[a + i] = s
  PROVE  Filled(y, width, s, a, m)
<1> DEFINE T == {k \in 0 .. m : ~ (LowBits(y, width)[a + k] =
                                     LowBits(y, width)[a] + s * (Power[a] * (Power[k] - 1)))}
<1>0. LongW \in Nat /\ width \in Nat /\ width <= LongW
  BY ShifterAssumption DEF Value
<1>a. m \in 0 .. m
  OBVIOUS
<1> SUFFICES ASSUME T # {} PROVE FALSE
  BY <1>a, Zenon DEF Filled
<1>1. PICK j \in T : \A k \in T : ~ (k < j)
  <2>1. 0 .. m \subseteq Nat
    OBVIOUS
  <2>2. T \subseteq Nat
    BY <2>1
  <2> HIDE DEF T
  <2> QED
    BY <2>2, Least
<1>2. j \in 0 .. m
  BY <1>1
<1>3. a \in 0 .. width
  BY <1>0
<1>4. PICK p \in Nat \ {0} : p = Power[a]
  BY <1>3, LowBitsBelow
<1>5. PICK l \in Int : l = LowBits(y, width)[a]
  BY <1>3, <1>4, LowBitsBelow
<1>6. CASE j = 0
  <2>1. a + j = a /\ Power[j] = 1
    BY <1>6, PowerIs
  <2>2. l = l + s * (p * (1 - 1))
    BY DEF Bit
  <2> QED
    BY <1>1, <1>4, <1>5, <2>1, <2>2
<1>7. CASE j # 0
  <2>1. PICK k \in 0 .. m - 1 : j = k + 1 /\ k < j /\ k \in 0 .. m
    <3> HIDE DEF T
    <3> QED
      BY <1>2, <1>7
  <2>2. LowBits(y, width)[a + k] = l + s * (p * (Power[k] - 1))
    BY <1>1, <1>4, <1>5, <2>1
  <2>3. PICK i \in 0 .. width - 1 : i = a + k /\ a + j = i + 1
    BY <1>0, <2>1
  <2>4. k \in 0 .. LongW - 1 /\ k \in 0 .. width /\ a + k <= LongW
    BY <1>0, <2>1
  <2>5. PICK r \in Nat \ {0} : r = Power[k]
    BY <2>4, LowBitsBelow
  <2>6. Power[i] = p * r /\ Power[j] = 2 * r
    BY <1>4, <2>1, <2>3, <2>4, <2>5, PowerSum, PowerIs
  <2>7. LowBits(y, width)[a + j] = LowBits(y, width)[i] + y[i] * Power[i]
    BY <1>0, <2>3, LowBitsIs
  <2>8. y[i] = s
    BY <2>1, <2>3
  <2>9. LowBits(y, width)[a + j] = l + s * (p * (r - 1)) + s * (p * r)
    BY <2>2, <2>3, <2>5, <2>6, <2>7, <2>8, Zenon
  <2>10. p * (r - 1) + p * r = p * (2 * r - 1)
    OBVIOUS
  <2>11. l + s * (p * (r - 1)) + s * (p * r) = l + s * (p * (2 * r - 1))
    BY <2>10 DEF Bit
  <2> QED
    BY <1>1, <1>4, <1>5, <2>6, <2>9, <2>11, Zenon
<1> QED
  BY <1>6, <1>7

\* A number consists of the bits below b and those from b on, of which bit b is the lowest.
LEMMA Cut ==
  ASSUME NEW width, NEW x, Value(x, width), NEW b \in 0 .. width
  PROVE  \E high \in 0 .. Power[width - b] - 1 :
           /\ Num(x, width) = LowBits(x, width)[b] + Power[b] * high
           /\ b < width => high % 2 = x[b]
<1>0. LongW \in Nat /\ width \in Nat /\ width <= LongW
  BY ShifterAssumption DEF Value
<1>1. PICK m \in Nat : m = width - b /\ b + m = width
  BY <1>0
<1>2. PICK high : Shares(x, x, width, b, b, m, high)
  BY <1>1, SharedValue
<1>3. /\ high \in 0 .. Power[m] - 1
      /\ LowBits(x, width)[width] = LowBits(x, width)[b] + Power[b] * high
  BY <1>1, <1>2, Zenon DEF Shares
<1>4. ASSUME b < width PROVE high % 2 = x[b]
  <2>1. PICK k \in Nat : m = k + 1 /\ (b + 1) + k = width /\ b + 1 \in Nat /\ b \in 0 .. width - 1
    BY <1>0, <1>1, <1>4
  <2>b. PICK c \in Nat : c = b + 1 /\ c + k <= width
    BY <1>0, <2>1
  <2>c. PICK e : Shares(x, x, width, c, c, k, e)
    BY <2>b, SharedValue
  <2>2. Shares(x, x, width, b + 1, b + 1, k, e)
    BY <2>b, <2>c, Zenon
  <2>3. k \in 0 .. width /\ b \in 0 .. LongW - 1 /\ m \in 0 .. width
    BY <1>0, <1>1, <2>1
  <2>4. e \in Nat
    <3>1. Power[k] \in Nat \ {0}
      BY <2>3, LowBitsBelow
    <3> QED
      BY <2>2, <3>1 DEF Shares
  <2>5. high \in Nat
    <3>1. Power[m] \in Nat \ {0}
      BY <2>3, LowBitsBelow
    <3> QED
      BY <1>3, <3>1
  <2>6. PICK p \in Nat \ {0} : p = Power[b]
    BY LowBitsBelow
  <2>7. PICK l \in Int : l = LowBits(x, width)[b]
    BY <2>6, LowBitsBelow
  <2>8. PICK d \in Bit : d = x[b]
    BY <2>1 DEF Value
  <2>9. LowBits(x, width)[width] = LowBits(x, width)[b + 1] + Power[b + 1] * e
    BY <2>1, <2>2, Zenon DEF Shares
  <2>10. LowBits(x, width)[b + 1] = l + d * p
    BY <1>0, <2>1, <2>6, <2>7, <2>8, LowBitsIs
  <2>11. Power[b + 1] = 2 * p
    BY <2>3, <2>6, PowerIs
  <2>12. l + p * high = l + d * p + (2 * p) * e
    BY <1>3, <2>6, <2>7, <2>9, <2>10, <2>11, Zenon
  <2>13. PICK z \in Int : z = (high - d) - 2 * e
    BY <2>4, <2>5 DEF Bit
  <2>14. p * z = 0
    <3>1. p * z = p * high - d * p - (2 * p) * e
      BY <2>4, <2>5, <2>13 DEF Bit
    <3>2. PICK f \in Int, g \in Int, q \in Int : f = p * high /\ g = d * p /\ q = (2 * p) * e
      BY <2>4, <2>5 DEF Bit
    <3> QED
      BY <2>12, <3>1, <3>2
  <2>15. z = 0
    BY <2>14
  <2>16. high = 2 * e + d /\ d \in 0 .. 1
    BY <2>4, <2>5, <2>13, <2>15 DEF Bit
  <2> QED
    BY <2>4, <2>8, <2>16
<1> QED
  BY <1>1, <1>3, <1>4, Zenon DEF Num

\* A value is 0 exactly if all its bits are.
LEMMA ZeroIs ==
  ASSUME NEW width, NEW x, Value(x, width)
  PROVE  Num(x, width) = 0 <=> \A i \in 0 .. width - 1 : x[i] = 0
<1>0. LongW \in Nat /\ width \in Nat /\ width <= LongW
  BY ShifterAssumption DEF Value
<1>1. ASSUME \A i \in 0 .. width - 1 : x[i] = 0 PROVE Num(x, width) = 0
  <2>1. 0 + width = width /\ \A i \in 0 .. width - 1 : x[0 + i] = 0
    BY <1>0, <1>1
  <2>2. LowBits(x, width)[0 + width] = LowBits(x, width)[0] + 0 * (Power[0] * (Power[width] - 1))
    BY <1>0, <2>1, Fill DEF Bit, Filled
  <2>3. PICK p \in Nat : p = Power[width]
    BY <1>0, LowBitsBelow
  <2>4. Power[0] = 1 /\ LowBits(x, width)[0] = 0
    BY <1>0, LowBitsIs, PowerIs
  <2>5. 0 + 0 * (1 * (p - 1)) = 0
    OBVIOUS
  <2> QED
    BY <2>1, <2>2, <2>3, <2>4, <2>5, Zenon DEF Num
<1>2. ASSUME Num(x, width) = 0, NEW i \in 0 .. width - 1 PROVE x[i] = 0
  <2>1. i \in 0 .. width /\ i < width /\ x[i] \in Bit
    BY <1>0 DEF Value
  <2>2. PICK high \in 0 .. Power[width - i] - 1 :
          Num(x, width) = LowBits(x, width)[i] + Power[i] * high /\ high % 2 = x[i]
    BY <2>1, Cut
  <2>3. PICK p \in Nat \ {0} : p = Power[i] /\ LowBits(x, width)[i] \in Nat
    BY <2>1, LowBitsBelow
  <2>4. high \in Nat
    <3>1. width - i \in 0 .. width
      BY <1>0
    <3>2. Power[width - i] \in Nat
      BY <3>1, LowBitsBelow
    <3> QED
      BY <3>2
  <2>5. high # 0 => p * high >= 1
    BY <2>4
  <2>6. high = 0
    BY <1>2, <2>2, <2>3, <2>4, <2>5
  <2> QED
    BY <2>2, <2>6
<1> QED
  BY <1>1, <1>2

\* Where y holds the low bits of x from n on.
LeftParts(x, y, width, n, v, high) ==
  /\ v \in 0 .. Power[width - n] - 1 /\ high \in 0 .. Power[n] - 1
  /\ Num(y, width) = LowBits(y, width)[n] + Power[n] * v
  /\ Num(x, width) = v + Power[width - n] * high
  /\ high % 2 = x[width - n]
  /\ Power[width] = Power[n] * Power[width - n]

LEMMA Left ==
  ASSUME NEW width, NEW x, NEW y, Value(x, width), Value(y, width),
         NEW n \in 1 .. width, \A i \in 0 .. (width - n) - 1 : y[n + i] = x[i]
  PROVE  \E v, high : LeftParts(x, y, width, n, v, high)
<1>0. LongW \in Nat /\ width \in Nat /\ width <= LongW
  BY ShifterAssumption DEF Value
<1>1. PICK m \in 0 .. width : m = width - n /\ n + m = width /\ m + n = width /\ m < width
  BY <1>0
<1>2. PICK v : Shares(x, y, width, n, 0, m, v)
  <2>1. n + m <= width /\ 0 + m <= width /\ n \in Nat /\ m \in Nat /\ 0 \in Nat
    BY <1>0, <1>1
  <2>2. \A i \in 0 .. m - 1 : y[n + i] = x[0 + i]
    BY <1>1
  <2> QED
    BY <2>1, <2>2, SharedValue
<1>3. PICK high \in 0 .. Power[width - m] - 1 :
        Num(x, width) = LowBits(x, width)[m] + Power[m] * high /\ high % 2 = x[m]
  <2>1. \E e \in 0 .. Power[width - m] - 1 :
          Num(x, width) = LowBits(x, width)[m] + Power[m] * e /\ (m < width => e % 2 = x[m])
    BY Cut
  <2> QED
    BY <1>1, <2>1
<1>4. width - m = n /\ 0 + m = m
  BY <1>0, <1>1
<1>5. LowBits(x, width)[m] = v /\ v \in 0 .. Power[m] - 1
  <2>1. LowBits(x, width)[0 + m] = LowBits(x, width)[0] + Power[0] * v /\ v \in 0 .. Power[m] - 1
    BY <1>2, Zenon DEF Shares
  <2>2. LowBits(x, width)[0] = 0 /\ Power[0] = 1 /\ Power[m] \in Nat
    BY <1>0, <1>1, LowBitsBelow, LowBitsIs, PowerIs
  <2> QED
    BY <1>4, <2>1, <2>2
<1>6. Num(y, width) = LowBits(y, width)[n] + Power[n] * v
  BY <1>1, <1>2, Zenon DEF Shares, Num
<1>7. Power[width] = Power[n] * Power[m]
  <2>1. n \in Nat /\ m \in Nat /\ n + m <= LongW
    BY <1>0, <1>1
  <2> QED
    BY <1>1, <2>1, PowerSum
<1>8. LeftParts(x, y, width, n, v, high)
  BY <1>1, <1>3, <1>4, <1>5, <1>6, <1>7, Zenon DEF LeftParts
<1> QED
  BY <1>8

\* Where y holds the bits of x from n on.
RightParts(x, y, width, n, v) ==
  /\ v \in 0 .. Power[width - n] - 1
  /\ LowBits(y, width)[width - n] = v
  /\ Num(x, width) = LowBits(x, width)[n] + Power[n] * v
  /\ Power[width] = Power[n] * Power[width - n]

LEMMA Right ==
  ASSUME NEW width, NEW x, NEW y, Value(x, width), Value(y, width),
         NEW n \in 1 .. width, \A i \in 0 .. (width - n) - 1 : y[i] = x[n + i]
  PROVE  \E v : RightParts(x, y, width, n, v)
<1>0. LongW \in Nat /\ width \in Nat /\ width <= LongW
  BY ShifterAssumption DEF Value
<1>1. PICK m \in 0 .. width : m = width - n /\ n + m = width
  BY <1>0
<1>2. PICK v : Shares(x, y, width, 0, n, m, v)
  <2>1. n + m <= width /\ 0 + m <= width /\ n \in Nat /\ m \in Nat /\ 0 \in Nat
    BY <1>0, <1>1
  <2>2. \A i \in 0 .. m - 1 : y[0 + i] = x[n + i]
    BY <1>1
  <2> QED
    BY <2>1, <2>2, SharedValue
<1>3. LowBits(y, width)[m] = v /\ v \in 0 .. Power[m] - 1
  <2>1. LowBits(y, width)[0 + m] = LowBits(y, width)[0] + Power[0] * v /\ v \in 0 .. Power[m] - 1
    BY <1>2, Zenon DEF Shares
  <2>2. LowBits(y, width)[0] = 0 /\ Power[0] = 1 /\ Power[m] \in Nat /\ 0 + m = m
    BY <1>0, <1>1, LowBitsBelow, LowBitsIs, PowerIs
  <2> QED
    BY <2>1, <2>2
<1>4. Num(x, width) = LowBits(x, width)[n] + Power[n] * v
  BY <1>1, <1>2, Zenon DEF Shares, Num
<1>5. Power[width] = Power[n] * Power[m]
  <2>1. n \in Nat /\ m \in Nat /\ n + m <= LongW
    BY <1>0, <1>1
  <2> QED
    BY <1>1, <2>1, PowerSum
<1>6. RightParts(x, y, width, n, v)
  BY <1>1, <1>3, <1>4, <1>5, Zenon DEF RightParts
<1> QED
  BY <1>6

-----------------------------------------------------------------------------
(* What each shift makes of the number                                     *)

LEMMA ValueNum ==
  ASSUME NEW width, NEW x, Value(x, width)
  PROVE  /\ width \in Nat \ {0} /\ width <= LongW /\ LongW \in Nat
         /\ Power[width] \in Nat \ {0} /\ Num(x, width) \in 0 .. Power[width] - 1
         /\ x[width - 1] \in Bit
<1>1. LongW \in Nat /\ width \in Nat \ {0} /\ width <= LongW
  BY ShifterAssumption DEF Value
<1>2. width \in 0 .. width /\ width - 1 \in 0 .. width - 1
  BY <1>1
<1>3. Power[width] \in Nat \ {0} /\ LowBits(x, width)[width] \in 0 .. Power[width] - 1
  BY <1>2, LowBitsBelow
<1> QED
  BY <1>1, <1>2, <1>3 DEF Num, Value

\* A count above the width: a power that is at least the double of the modulus.
LEMMA PowerBeyond ==
  ASSUME NEW width \in Nat, NEW n \in Nat, width < n, n <= LongW
  PROVE  \E k \in Nat \ {0} : Power[n] = Power[width] * (2 * k)
<1>0. LongW \in Nat
  BY ShifterAssumption
<1>1. PICK d \in Nat : n = width + (d + 1)
  BY <1>0
<1>2. d \in 0 .. LongW - 1 /\ d \in 0 .. LongW
  BY <1>0, <1>1
<1>3. Power[d] \in Nat \ {0} /\ Power[d + 1] = 2 * Power[d]
  BY <1>2, PowerNat, PowerIs
<1>4. Power[n] = Power[width] * Power[d + 1]
  <2>1. d + 1 \in Nat /\ width + (d + 1) <= LongW
    BY <1>0, <1>1
  <2> QED
    BY <1>1, <2>1, PowerSum
<1> QED
  BY <1>3, <1>4

\* A shift to the left: y is x times a power of two, and c the last bit that falls off.
LEMMA LeftNumber ==
  ASSUME NEW width, NEW x, NEW y, Value(x, width), Value(y, width),
         NEW n \in 1 .. LongW - 1,
         \A i \in 0 .. width - 1 : y[i] = IF i < n THEN 0 ELSE x[i - n],
         NEW c, c = IF n <= width THEN x[width - n] ELSE 0
  PROVE  /\ Num(y, width) = (Num(x, width) * Power[n]) % Power[width]
         /\ c = ((Num(x, width) * Power[n]) \div Power[width]) % 2
<1>0. width \in Nat \ {0} /\ width <= LongW /\ LongW \in Nat
  BY ValueNum
<1>1. PICK w \in Nat \ {0} : w = Power[width]
  BY ValueNum
<1>2. PICK a \in Nat : a = Num(x, width)
  BY <1>1, ValueNum
<1>3. PICK z \in 0 .. w - 1 : z = Num(y, width)
  BY <1>1, ValueNum
<1>4. CASE n <= width
  <2>1. n \in 1 .. width /\ n \in 0 .. width /\ width - n \in 0 .. width
    BY <1>0, <1>4
  <2>2. \A i \in 0 .. (width - n) - 1 : y[n + i] = x[i]
    <3> TAKE i \in 0 .. (width - n) - 1
    <3>1. PICK k \in 0 .. width - 1 : k = n + i /\ ~ (k < n) /\ k - n = i
      BY <1>0, <2>1
    <3> QED
      BY <3>1
  <2>3. PICK v, high : LeftParts(x, y, width, n, v, high)
    BY <2>1, <2>2, Left
  <2>4. PICK p \in Nat \ {0}, q \in Nat \ {0} : p = Power[n] /\ q = Power[width - n]
    BY <2>1, LowBitsBelow
  <2>5. v \in Nat /\ high \in Nat
    BY <2>3, <2>4 DEF LeftParts
  <2>6. LowBits(y, width)[n] = 0
    <3>1. \A i \in 0 .. n - 1 : y[0 + i] = 0
      BY <1>0, <1>4
    <3>2. LowBits(y, width)[0 + n] = LowBits(y, width)[0] + 0 * (Power[0] * (Power[n] - 1))
      BY <1>0, <2>1, <3>1, Fill DEF Bit, Filled
    <3>3. LowBits(y, width)[0] = 0 /\ Power[0] = 1
      BY <1>0, LowBitsIs, PowerIs
    <3>4. 0 + n = n /\ 0 + 0 * (1 * (p - 1)) = 0
      OBVIOUS
    <3> QED
      BY <2>4, <3>2, <3>3, <3>4, Zenon
  <2>7. z = p * v /\ a = v + q * high /\ w = p * q /\ high % 2 = x[width - n]
    <3>1. z = 0 + p * v
      BY <1>3, <2>3, <2>4, <2>6, Zenon DEF LeftParts
    <3>2. a = v + q * high /\ w = p * q /\ high % 2 = x[width - n]
      BY <1>1, <1>2, <2>3, <2>4, Zenon DEF LeftParts
    <3> QED
      BY <2>5, <3>1, <3>2
  <2>8. a * p = w * high + z
    BY <2>5, <2>7
  <2>9. (w * high + z) % w = z /\ (w * high + z) \div w = high
    BY <2>5, Unique
  <2>10. c = high % 2
    BY <1>4, <2>7
  <2> QED
    BY <1>1, <1>2, <1>3, <2>4, <2>8, <2>9, <2>10, Zenon
<1>5. CASE width < n
  <2>1. PICK k \in Nat \ {0} : Power[n] = w * (2 * k)
    <3>1. width \in Nat /\ n \in Nat /\ n <= LongW
      BY <1>0
    <3>2. \E k \in Nat \ {0} : Power[n] = Power[width] * (2 * k)
      BY <1>5, <3>1, PowerBeyond
    <3> QED
      BY <1>1, <3>2
  <2>2. z = 0
    <3>1. \A i \in 0 .. width - 1 : y[i] = 0
      BY <1>0, <1>5
    <3> QED
      BY <1>3, <3>1, ZeroIs
  <2>3. PICK b \in Int : b = a * k
    OBVIOUS
  <2>4. a * (w * (2 * k)) = w * (2 * b) + 0
    BY <2>3
  <2>5. (w * (2 * b) + 0) % w = 0 /\ (w * (2 * b) + 0) \div w = 2 * b
    <3>1. 2 * b \in Int /\ 0 \in 0 .. w - 1
      OBVIOUS
    <3> QED
      BY <3>1, Unique
  <2>6. c = 0 /\ (2 * b) % 2 = 0
    BY <1>0, <1>5
  <2> QED
    BY <1>1, <1>2, <1>3, <2>1, <2>2, <2>4, <2>5, <2>6, Zenon
<1> QED
  BY <1>0, <1>4, <1>5

\* The bit that a shift to the right by n takes off last, and what is left of the bit.
LEMMA BitOff ==
  ASSUME NEW width, NEW x, Value(x, width), NEW n \in 1 .. width
  PROVE  /\ (Num(x, width) \div Power[n - 1]) % 2 = x[n - 1]
         /\ \E l \in 0 .. Power[n - 1] - 1, high \in Nat :
              Num(x, width) = l + Power[n - 1] * high /\ high % 2 = x[n - 1]
<1>0. width \in Nat \ {0} /\ width <= LongW /\ LongW \in Nat
  BY ValueNum
<1>1. PICK b \in 0 .. width : b = n - 1 /\ b < width
  BY <1>0
<1>2. PICK high \in 0 .. Power[width - b] - 1 :
        Num(x, width) = LowBits(x, width)[b] + Power[b] * high /\ high % 2 = x[b]
  BY <1>1, Cut
<1>3. high \in Nat
  <2>1. width - b \in 0 .. width
    BY <1>0
  <2>2. Power[width - b] \in Nat \ {0}
    BY <2>1, LowBitsBelow
  <2> QED
    BY <2>2
<1>4. PICK p \in Nat \ {0} : p = Power[b]
  BY LowBitsBelow
<1>5. PICK l \in 0 .. p - 1 : l = LowBits(x, width)[b]
  BY <1>4, LowBitsBelow
<1>6. Num(x, width) = p * high + l
  BY <1>2, <1>3, <1>4, <1>5
<1>7. (p * high + l) \div p = high
  BY <1>3, Unique
<1>8. (Num(x, width) \div p) % 2 = x[b]
  BY <1>2, <1>6, <1>7, Zenon
<1>9. Num(x, width) = l + p * high
  BY <1>3, <1>6
<1> QED
  BY <1>1, <1>2, <1>3, <1>4, <1>8, <1>9

\* A shift to the right with zeros: the quotient.
LEMMA RightNumber ==
  ASSUME NEW width, NEW x, NEW y, Value(x, width), Value(y, width),
         NEW n \in 1 .. LongW - 1,
         \A i \in 0 .. width - 1 : y[i] = IF i + n < width THEN x[i + n] ELSE 0,
         NEW c, c = IF n <= width THEN x[n - 1] ELSE 0
  PROVE  /\ Num(y, width) = Num(x, width) \div Power[n]
         /\ c = (Num(x, width) \div Power[n - 1]) % 2
<1>0. width \in Nat \ {0} /\ width <= LongW /\ LongW \in Nat
  BY ValueNum
<1>1. PICK w \in Nat \ {0} : w = Power[width]
  BY ValueNum
<1>2. PICK a \in 0 .. w - 1 : a = Num(x, width)
  BY <1>1, ValueNum
<1>3. PICK z \in 0 .. w - 1 : z = Num(y, width)
  BY <1>1, ValueNum
<1>4. CASE n <= width
  <2>1. n \in 1 .. width /\ n \in 0 .. width /\ width - n \in 0 .. width
    BY <1>0, <1>4
  <2>2. \A i \in 0 .. (width - n) - 1 : y[i] = x[n + i]
    <3> TAKE i \in 0 .. (width - n) - 1
    <3>1. i \in 0 .. width - 1 /\ i + n < width /\ i + n = n + i
      BY <1>0, <2>1
    <3> QED
      BY <3>1
  <2>3. PICK v : RightParts(x, y, width, n, v)
    BY <2>1, <2>2, Right
  <2>4. PICK p \in Nat \ {0}, q \in Nat \ {0} : p = Power[n] /\ q = Power[width - n]
    BY <2>1, LowBitsBelow
  <2>5. v \in Nat
    BY <2>3, <2>4 DEF RightParts
  <2>6. PICK l \in 0 .. p - 1 : l = LowBits(x, width)[n]
    BY <2>1, <2>4, LowBitsBelow
  <2>7. z = v
    <3>1. PICK m \in Nat : m = width - n /\ m + n = width /\ m + n <= width /\ n \in Nat
      BY <1>0, <2>1
    <3>2. \A i \in 0 .. n - 1 : y[m + i] = 0
      BY <1>0, <2>1, <3>1
    <3>a. 0 \in Bit
      BY DEF Bit
    <3>b. Filled(y, width, 0, m, n)
      BY <3>a, <3>1, <3>2, Fill
    <3>3. LowBits(y, width)[m + n] = LowBits(y, width)[m] + 0 * (Power[m] * (Power[n] - 1))
      BY <3>b, Zenon DEF Filled
    <3>4. LowBits(y, width)[m] = v
      BY <2>3, <3>1 DEF RightParts
    <3>5. v + 0 * (q * (p - 1)) = v
      BY <2>5
    <3> QED
      BY <1>3, <2>4, <3>1, <3>3, <3>4, <3>5, Zenon DEF Num
  <2>8. a = p * v + l
    <3>1. a = l + p * v
      BY <1>2, <2>3, <2>4, <2>6, Zenon DEF RightParts
    <3> QED
      BY <2>5, <3>1
  <2>9. (p * v + l) \div p = v
    BY <2>5, Unique
  <2>10. c = (Num(x, width) \div Power[n - 1]) % 2
    BY <1>4, <2>1, BitOff
  <2> QED
    BY <1>2, <1>3, <2>4, <2>7, <2>8, <2>9, <2>10, Zenon
<1>5. CASE width < n
  <2>1. PICK b \in Nat : b = n - 1 /\ width <= b /\ b <= LongW /\ n <= LongW /\ n \in Nat
    BY <1>0, <1>5
  <2>2. z = 0
    <3>1. \A i \in 0 .. width - 1 : y[i] = 0
      BY <1>0, <1>5
    <3> QED
      BY <1>3, <3>1, ZeroIs
  <2>3. ASSUME NEW k \in Nat, width <= k, k <= LongW PROVE a \div Power[k] = 0
    <3>1. PICK p \in Nat \ {0} : p = Power[k] /\ w <= p
      <4>1. CASE k = width
        BY <1>1, <4>1
      <4>2. CASE width < k
        <5>1. width \in Nat
          BY <1>0
        <5>2. PICK d \in Nat \ {0} : Power[k] = Power[width] * (2 * d)
          BY <2>3, <4>2, <5>1, PowerBeyond
        <5>3. w * (2 * d) \in Nat /\ w <= w * (2 * d)
          OBVIOUS
        <5> QED
          BY <1>1, <5>2, <5>3
      <4> QED
        BY <1>0, <2>3, <4>1, <4>2
    <3>a. a \in 0 .. p - 1 /\ 0 \in Int
      BY <3>1
    <3>2. (p * 0 + a) \div p = 0
      BY <3>a, Unique
    <3>3. p * 0 + a = a
      OBVIOUS
    <3> QED
      BY <3>1, <3>2, <3>3, Zenon
  <2>4. a \div Power[n] = 0 /\ a \div Power[b] = 0
    BY <1>0, <1>5, <2>1, <2>3
  <2>5. c = 0 /\ 0 % 2 = 0
    BY <1>0, <1>5
  <2> QED
    BY <1>2, <1>3, <2>1, <2>2, <2>4, <2>5, Zenon
<1> QED
  BY <1>0, <1>4, <1>5

\* A shift to the right with copies of the sign: the quotient of the signed value, which is
\* rounded down.
LEMMA SignNumber ==
  ASSUME NEW width, NEW x, NEW y, Value(x, width), Value(y, width),
         NEW n \in 1 .. LongW - 1,
         \A i \in 0 .. width - 1 : y[i] = IF i + n >= width THEN x[width - 1] ELSE x[i + n]
  PROVE  SignedNum(y, width) = SignedNum(x, width) \div Power[n]
<1>0. width \in Nat \ {0} /\ width <= LongW /\ LongW \in Nat
  BY ValueNum
<1>1. PICK w \in Nat \ {0} : w = Power[width]
  BY ValueNum
<1>2. PICK a \in 0 .. w - 1 : a = Num(x, width)
  BY <1>1, ValueNum
<1>3. PICK z \in 0 .. w - 1 : z = Num(y, width)
  BY <1>1, ValueNum
<1>4. PICK s \in Bit : s = x[width - 1] /\ s = y[width - 1]
  <2>1. x[width - 1] \in Bit
    BY ValueNum
  <2>2. width - 1 \in 0 .. width - 1 /\ (width - 1) + n >= width
    BY <1>0
  <2>3. y[width - 1] = x[width - 1]
    BY <2>2
  <2> QED
    BY <2>1, <2>3
<1>5. SignedNum(x, width) = a - s * w /\ SignedNum(y, width) = z - s * w
  BY <1>1, <1>2, <1>3, <1>4, Zenon DEF SignedNum, Modulus
<1>6. CASE n <= width
  <2>1. n \in 1 .. width /\ n \in 0 .. width /\ width - n \in 0 .. width
    BY <1>0, <1>6
  <2>2. \A i \in 0 .. (width - n) - 1 : y[i] = x[n + i]
    <3> TAKE i \in 0 .. (width - n) - 1
    <3>1. i \in 0 .. width - 1 /\ ~ (i + n >= width) /\ i + n = n + i
      BY <1>0, <2>1
    <3> QED
      BY <3>1
  <2>3. PICK v : RightParts(x, y, width, n, v)
    BY <2>1, <2>2, Right
  <2>4. PICK p \in Nat \ {0}, q \in Nat \ {0} : p = Power[n] /\ q = Power[width - n]
    BY <2>1, LowBitsBelow
  <2>5. v \in Nat /\ w = p * q
    BY <1>1, <2>3, <2>4 DEF RightParts
  <2>6. PICK l \in 0 .. p - 1 : l = LowBits(x, width)[n]
    BY <2>1, <2>4, LowBitsBelow
  <2>7. z = v + s * (q * (p - 1))
    <3>1. PICK m \in Nat : m = width - n /\ m + n = width /\ m + n <= width /\ n \in Nat
      BY <1>0, <2>1
    <3>2. \A i \in 0 .. n - 1 : y[m + i] = s
      <4> TAKE i \in 0 .. n - 1
      <4>1. m + i \in 0 .. width - 1 /\ (m + i) + n >= width
        BY <1>0, <2>1, <3>1
      <4> QED
        BY <1>4, <4>1
    <3>b. Filled(y, width, s, m, n)
      BY <3>1, <3>2, Fill
    <3>3. LowBits(y, width)[m + n] = LowBits(y, width)[m] + s * (Power[m] * (Power[n] - 1))
      BY <3>b, Zenon DEF Filled
    <3>4. LowBits(y, width)[m] = v
      BY <2>3, <3>1 DEF RightParts
    <3> QED
      BY <1>3, <2>4, <3>1, <3>3, <3>4, Zenon DEF Num
  <2>8. a = l + p * v
    BY <1>2, <2>3, <2>4, <2>6, Zenon DEF RightParts
  <2>9. q * (p - 1) = w - q
    BY <2>5
  <2>10. z - s * w = v - s * q
    BY <2>5, <2>7, <2>9 DEF Bit
  <2>11. PICK u \in Int : u = v - s * q
    BY <2>5 DEF Bit
  <2>12. a - s * w = p * u + l
    BY <2>5, <2>8, <2>11 DEF Bit
  <2>13. (p * u + l) \div p = u
    BY Unique
  <2> QED
    BY <1>5, <2>4, <2>10, <2>11, <2>12, <2>13, Zenon
<1>7. CASE width < n
  <2>1. PICK k \in Nat \ {0} : Power[n] = w * (2 * k)
    <3>1. width \in Nat /\ n \in Nat /\ n <= LongW
      BY <1>0
    <3>2. \E k \in Nat \ {0} : Power[n] = Power[width] * (2 * k)
      BY <1>7, <3>1, PowerBeyond
    <3> QED
      BY <1>1, <3>2
  <2>2. PICK p \in Nat \ {0} : p = w * (2 * k) /\ w <= p
    OBVIOUS
  <2>3. z = s * (w - 1)
    <3>1. \A i \in 0 .. width - 1 : y[0 + i] = s
      BY <1>0, <1>4, <1>7
    <3>2. 0 \in Nat /\ width \in Nat /\ 0 + width <= width /\ 0 + width = width
      BY <1>0
    <3>3. LowBits(y, width)[0 + width] = LowBits(y, width)[0] + s * (Power[0] * (Power[width] - 1))
      BY <3>1, <3>2, Fill DEF Filled
    <3>4. LowBits(y, width)[0] = 0 /\ Power[0] = 1
      BY <3>2, LowBitsIs, PowerIs
    <3>5. z = 0 + s * (1 * (w - 1))
      BY <1>1, <1>3, <3>2, <3>3, <3>4, Zenon DEF Num
    <3> QED
      BY <3>5 DEF Bit
  <2>4. z - s * w = - s
    BY <2>3 DEF Bit
  <2>5. PICK l \in 0 .. p - 1 : l = IF s = 0 THEN a ELSE (p - w) + a
    <3>1. a < w /\ w <= p
      BY <2>2
    <3> QED
      BY <3>1
  <2>6. a - s * w = p * (- s) + l
    BY <2>5 DEF Bit
  <2>7. (p * (- s) + l) \div p = - s
    <3>1. - s \in Int
      BY DEF Bit
    <3> QED
      BY <3>1, Unique
  <2> QED
    BY <1>5, <2>1, <2>2, <2>4, <2>6, <2>7, Zenon
<1> QED
  BY <1>0, <1>6, <1>7

\* The last bit it takes off is one of the signed value.
LEMMA SignBitOff ==
  ASSUME NEW width, NEW x, Value(x, width), NEW n \in 1 .. width
  PROVE  (SignedNum(x, width) \div Power[n - 1]) % 2 = x[n - 1]
<1>0. width \in Nat \ {0} /\ width <= LongW /\ LongW \in Nat
  BY ValueNum
<1>1. PICK b \in Nat : b = n - 1 /\ b \in 0 .. width /\ n = b + 1
  BY <1>0
<1>2. PICK p \in Nat \ {0} : p = Power[b]
  BY <1>1, LowBitsBelow
<1>3. PICK l \in 0 .. p - 1, high \in Nat : Num(x, width) = l + p * high /\ high % 2 = x[b]
  <2>1. \E l \in 0 .. Power[n - 1] - 1, high \in Nat :
          Num(x, width) = l + Power[n - 1] * high /\ high % 2 = x[n - 1]
    BY BitOff
  <2> QED
    BY <1>1, <1>2, <2>1
<1>4. PICK s \in Bit : s = x[width - 1]
  BY ValueNum
<1>5. PICK k \in Nat : Power[width] = p * (2 * k)
  <2>1. PICK m \in Nat : m = width - n /\ m \in 0 .. LongW - 1 /\ m \in 0 .. LongW
    BY <1>0
  <2>2. width = b + (m + 1) /\ m + 1 \in Nat /\ b + (m + 1) <= LongW
    BY <1>0, <1>1, <2>1
  <2>3. Power[b + (m + 1)] = Power[b] * Power[m + 1]
    BY <2>2, PowerSum
  <2>4. Power[m + 1] = 2 * Power[m] /\ Power[m] \in Nat
    BY <2>1, PowerIs, PowerNat
  <2> QED
    BY <1>2, <2>2, <2>3, <2>4
<1>6. PICK u \in Int : u = high - 2 * (s * k)
  BY DEF Bit
<1>7. (l + p * high) - s * (p * (2 * k)) = p * u + l
  BY <1>6 DEF Bit
<1>8. (p * u + l) \div p = u
  BY Unique
<1>9. u % 2 = high % 2
  BY <1>6 DEF Bit
<1>10. SignedNum(x, width) = p * u + l
  BY <1>3, <1>4, <1>5, <1>7, Zenon DEF SignedNum, Modulus
<1> QED
  BY <1>1, <1>2, <1>3, <1>8, <1>9, <1>10, Zenon

\* Bits of another value that come in from below.
LEMMA DoubleLeft ==
  ASSUME NEW width, NEW x, NEW y, NEW src,
         Value(x, width), Value(y, width), Value(src, width), NEW n \in 1 .. width - 1,
         \A i \in 0 .. width - 1 : y[i] = IF i < n THEN src[i + (width - n)] ELSE x[i - n]
  PROVE  /\ Num(y, width) =
              (((Num(x, width) * Power[width] + Num(src, width)) * Power[n]) \div Power[width])
                % Power[width]
         /\ x[width - n] = ((Num(x, width) * Power[n]) \div Power[width]) % 2
<1>0. width \in Nat \ {0} /\ width <= LongW /\ LongW \in Nat
  BY ValueNum
<1>1. PICK w \in Nat \ {0} : w = Power[width]
  BY ValueNum
<1>2. PICK a \in Nat, t \in Nat : a = Num(x, width) /\ t = Num(src, width)
  BY <1>1, ValueNum
<1>3. PICK z \in 0 .. w - 1 : z = Num(y, width)
  BY <1>1, ValueNum
<1>4. PICK m \in Nat : m = width - n /\ m + n = width /\ n + m = width /\ m + n <= width
  BY <1>0
<1>5. n \in 1 .. width /\ n \in 0 .. width /\ m \in 0 .. width /\ n \in Nat /\ 0 \in Nat
  BY <1>0, <1>4
<1>6. PICK p \in Nat \ {0}, q \in Nat \ {0} : p = Power[n] /\ q = Power[m]
  BY <1>5, LowBitsBelow
<1>7. PICK v, high : LeftParts(x, y, width, n, v, high)
  <2>1. \A i \in 0 .. (width - n) - 1 : y[n + i] = x[i]
    <3> TAKE i \in 0 .. (width - n) - 1
    <3>1. PICK k \in 0 .. width - 1 : k = n + i /\ ~ (k < n) /\ k - n = i
      BY <1>0, <1>5
    <3> QED
      BY <3>1
  <2> QED
    BY <1>5, <2>1, Left
<1>8. PICK u : Shares(src, y, width, 0, m, n, u)
  <2>1. \A i \in 0 .. n - 1 : y[0 + i] = src[m + i]
    <3> TAKE i \in 0 .. n - 1
    <3>1. i \in 0 .. width - 1 /\ i < n /\ i + (width - n) = m + i /\ 0 + i = i
      BY <1>0, <1>4
    <3> QED
      BY <3>1
  <2>2. 0 + n <= width
    BY <1>0, <1>5
  <2> QED
    BY <1>4, <1>5, <2>1, <2>2, SharedValue
<1>9. v \in Nat /\ high \in Nat /\ u \in 0 .. p - 1
  <2>1. v \in 0 .. q - 1 /\ high \in 0 .. p - 1
    BY <1>4, <1>6, <1>7, Zenon DEF LeftParts
  <2>2. u \in 0 .. p - 1
    BY <1>6, <1>8, Zenon DEF Shares
  <2> QED
    BY <2>1, <2>2
<1>10. PICK l \in 0 .. q - 1 : l = LowBits(src, width)[m]
  BY <1>5, <1>6, LowBitsBelow
<1>11. LowBits(y, width)[n] = u
  <2>1. LowBits(y, width)[0 + n] = LowBits(y, width)[0] + Power[0] * u
    BY <1>8, Zenon DEF Shares
  <2>2. LowBits(y, width)[0] = 0 /\ Power[0] = 1 /\ 0 + n = n
    BY <1>0, <1>5, LowBitsIs, PowerIs
  <2>3. 0 + 1 * u = u
    BY <1>9
  <2> QED
    BY <2>1, <2>2, <2>3, Zenon
<1>12. t = l + q * u
  BY <1>2, <1>4, <1>6, <1>8, <1>10, Zenon DEF Shares, Num
<1>13. z = u + p * v /\ a = v + q * high /\ w = p * q /\ high % 2 = x[width - n]
  BY <1>1, <1>2, <1>3, <1>4, <1>6, <1>7, <1>11, Zenon DEF LeftParts
<1>14. l * p \in 0 .. w - 1
  <2>1. l * p <= (q - 1) * p /\ 0 <= l * p
    OBVIOUS
  <2>2. (q - 1) * p = w - p
    BY <1>13
  <2> QED
    BY <2>1, <2>2
<1>15. PICK b \in Int : b = a * p
  OBVIOUS
<1>16. (a * w + t) * p = w * (b + u) + l * p
  <2>1. (a * w + t) * p = (a * w) * p + t * p
    OBVIOUS
  <2>2. (a * w) * p = w * b
    BY <1>15
  <2>3. t * p = l * p + (q * u) * p
    BY <1>9, <1>12
  <2>4. (q * u) * p = w * u
    BY <1>9, <1>13
  <2>5. w * (b + u) = w * b + w * u
    BY <1>9
  <2> QED
    BY <1>9, <2>1, <2>2, <2>3, <2>4, <2>5
<1>17. (w * (b + u) + l * p) \div w = b + u
  <2>1. b + u \in Int
    BY <1>9
  <2> QED
    BY <1>14, <2>1, Unique
<1>18. b = w * high + p * v
  BY <1>9, <1>13, <1>15
<1>19. b + u = w * high + z
  BY <1>9, <1>13, <1>18
<1>20. (w * high + z) % w = z
  BY <1>9, Unique
<1>21. b \div w = high
  <2>1. p * v \in 0 .. w - 1
    BY <1>9, <1>13
  <2>2. (w * high + p * v) \div w = high
    BY <1>9, <2>1, Unique
  <2> QED
    BY <1>18, <2>2
<1> QED
  BY <1>1, <1>2, <1>3, <1>6, <1>13, <1>15, <1>16, <1>17, <1>19, <1>20, <1>21, Zenon

\* Bits of another value that come in from above.
LEMMA DoubleRight ==
  ASSUME NEW width, NEW x, NEW y, NEW src,
         Value(x, width), Value(y, width), Value(src, width), NEW n \in 1 .. width - 1,
         \A i \in 0 .. width - 1 :
           y[i] = IF i + n < width THEN x[i + n] ELSE src[i - (width - n)]
  PROVE  Num(y, width) =
           ((Num(src, width) * Power[width] + Num(x, width)) \div Power[n]) % Power[width]
<1>0. width \in Nat \ {0} /\ width <= LongW /\ LongW \in Nat
  BY ValueNum
<1>1. PICK w \in Nat \ {0} : w = Power[width]
  BY ValueNum
<1>2. PICK a \in Nat, t \in Nat : a = Num(x, width) /\ t = Num(src, width)
  BY <1>1, ValueNum
<1>3. PICK z \in 0 .. w - 1 : z = Num(y, width)
  BY <1>1, ValueNum
<1>4. PICK m \in Nat : m = width - n /\ m + n = width /\ width - m = n /\ m + n <= width
  BY <1>0
<1>5. n \in 1 .. width /\ n \in 0 .. width /\ m \in 0 .. width /\ n \in Nat /\ 0 \in Nat
  BY <1>0, <1>4
<1>6. PICK p \in Nat \ {0}, q \in Nat \ {0} : p = Power[n] /\ q = Power[m]
  BY <1>5, LowBitsBelow
<1>7. PICK v : RightParts(x, y, width, n, v)
  <2>1. \A i \in 0 .. (width - n) - 1 : y[i] = x[n + i]
    <3> TAKE i \in 0 .. (width - n) - 1
    <3>1. i \in 0 .. width - 1 /\ i + n < width /\ i + n = n + i
      BY <1>0, <1>5
    <3> QED
      BY <3>1
  <2> QED
    BY <1>5, <2>1, Right
<1>8. PICK u : Shares(src, y, width, m, 0, n, u)
  <2>1. \A i \in 0 .. n - 1 : y[m + i] = src[0 + i]
    <3> TAKE i \in 0 .. n - 1
    <3>1. /\ m + i \in 0 .. width - 1 /\ ~ ((m + i) + n < width)
          /\ (m + i) - (width - n) = i /\ 0 + i = i
      BY <1>0, <1>4
    <3> QED
      BY <3>1
  <2>2. 0 + n <= width
    BY <1>0, <1>5
  <2> QED
    BY <1>4, <1>5, <2>1, <2>2, SharedValue
<1>9. v \in Nat /\ u \in Nat
  <2>1. v \in 0 .. q - 1
    BY <1>4, <1>6, <1>7, Zenon DEF RightParts
  <2>2. u \in 0 .. p - 1
    BY <1>6, <1>8, Zenon DEF Shares
  <2> QED
    BY <2>1, <2>2
<1>10. PICK l \in 0 .. p - 1 : l = LowBits(x, width)[n]
  BY <1>5, <1>6, LowBitsBelow
<1>11. z = v + q * u
  BY <1>3, <1>4, <1>6, <1>7, <1>8, Zenon DEF RightParts, Shares, Num
<1>12. a = l + p * v /\ w = p * q
  BY <1>1, <1>2, <1>4, <1>6, <1>7, <1>10, Zenon DEF RightParts
<1>13. PICK g \in Nat : t = u + p * g
  <2>1. PICK g \in 0 .. Power[width - n] - 1 :
          Num(src, width) = LowBits(src, width)[n] + Power[n] * g
    BY <1>5, Cut
  <2>2. g \in 0 .. q - 1
    BY <1>4, <1>6, <2>1, Zenon
  <2>3. LowBits(src, width)[0 + n] = LowBits(src, width)[0] + Power[0] * u
    BY <1>8, Zenon DEF Shares
  <2>4. LowBits(src, width)[0] = 0 /\ Power[0] = 1 /\ 0 + n = n
    BY <1>0, <1>5, LowBitsIs, PowerIs
  <2>5. 0 + 1 * u = u /\ g \in Nat
    BY <1>9, <2>2
  <2>6. LowBits(src, width)[n] = u
    BY <2>3, <2>4, <2>5, Zenon
  <2>7. t = u + p * g
    BY <1>2, <1>6, <2>1, <2>6, Zenon
  <2> QED
    BY <2>5, <2>7
<1>14. PICK b \in Int : b = t * q + v
  BY <1>9
<1>15. t * w + a = p * b + l
  <2>1. t * w = p * (t * q)
    BY <1>12
  <2>2. p * b = p * (t * q) + p * v
    BY <1>9, <1>14
  <2> QED
    BY <1>9, <1>12, <2>1, <2>2
<1>16. (p * b + l) \div p = b
  BY Unique
<1>17. b = w * g + z
  <2>1. t * q = u * q + (p * g) * q
    BY <1>9, <1>13
  <2>2. (p * g) * q = w * g
    BY <1>12
  <2> QED
    BY <1>9, <1>11, <1>14, <2>1, <2>2
<1>18. (w * g + z) % w = z
  BY Unique
<1> QED
  BY <1>1, <1>2, <1>3, <1>6, <1>15, <1>16, <1>17, <1>18, Zenon

\* By one place, with a bit that comes in: what is missing is that bit and the one that
\* falls off.
LEMMA OneLeft ==
  ASSUME NEW width, NEW x, NEW y, Value(x, width), Value(y, width),
         \A i \in 1 .. width - 1 : y[i] = x[i - 1]
  PROVE  2 * Num(x, width) - Num(y, width) = x[width - 1] * Power[width] - y[0]
<1>0. width \in Nat \ {0} /\ width <= LongW /\ LongW \in Nat
  BY ValueNum
<1>1. 1 \in 1 .. width /\ 1 \in 0 .. width /\ 0 \in 0 .. width - 1 /\ 0 \in 0 .. LongW - 1
      /\ width - 1 \in 0 .. width
  BY <1>0
<1>2. PICK v, high : LeftParts(x, y, width, 1, v, high)
  <2>1. \A i \in 0 .. (width - 1) - 1 : y[1 + i] = x[i]
    <3> TAKE i \in 0 .. (width - 1) - 1
    <3>1. PICK k \in 1 .. width - 1 : k = 1 + i /\ k - 1 = i
      BY <1>0
    <3> QED
      BY <3>1
  <2> QED
    BY <1>1, <2>1, Left
<1>3. Power[1] = 2
  <2>1. Power[0 + 1] = 2 * Power[0] /\ Power[0] = 1
    BY <1>1, PowerIs
  <2> QED
    BY <2>1
<1>4. PICK b \in Bit, d \in Bit : b = x[width - 1] /\ d = y[0]
  BY <1>1, ValueNum DEF Value
<1>5. LowBits(y, width)[1] = d
  <2>1. LowBits(y, width)[0 + 1] = LowBits(y, width)[0] + y[0] * Power[0]
    BY <1>0, <1>1, LowBitsIs
  <2>2. LowBits(y, width)[0] = 0 /\ Power[0] = 1 /\ 0 + 1 = 1
    BY <1>0, LowBitsIs, PowerIs
  <2>3. 0 + d * 1 = d
    BY DEF Bit
  <2> QED
    BY <1>4, <2>1, <2>2, <2>3, Zenon
<1>6. PICK q \in Nat \ {0} : q = Power[width - 1]
  BY <1>1, LowBitsBelow
<1>7. v \in Nat /\ high \in 0 .. 1 /\ high % 2 = b
  BY <1>3, <1>4, <1>6, <1>2 DEF LeftParts
<1>8. high = b
  BY <1>7
<1>9. Num(y, width) = d + 2 * v /\ Num(x, width) = v + q * b /\ Power[width] = 2 * q
  BY <1>2, <1>3, <1>5, <1>6, <1>8, Zenon DEF LeftParts
<1>10. 2 * (v + q * b) - (d + 2 * v) = b * (2 * q) - d
  BY <1>7 DEF Bit
<1> QED
  BY <1>4, <1>9, <1>10, Zenon

LEMMA OneRight ==
  ASSUME NEW width, NEW x, NEW y, Value(x, width), Value(y, width),
         \A i \in 0 .. width - 2 : y[i] = x[i + 1]
  PROVE  Num(x, width) - 2 * Num(y, width) = x[0] - y[width - 1] * Power[width]
<1>0. width \in Nat \ {0} /\ width <= LongW /\ LongW \in Nat
  BY ValueNum
<1>1. 1 \in 1 .. width /\ 1 \in 0 .. width /\ 0 \in 0 .. width - 1 /\ 0 \in 0 .. LongW - 1
      /\ width - 1 \in 0 .. width
  BY <1>0
<1>2. PICK v : RightParts(x, y, width, 1, v)
  <2>1. \A i \in 0 .. (width - 1) - 1 : y[i] = x[1 + i]
    <3> TAKE i \in 0 .. (width - 1) - 1
    <3>1. i \in 0 .. width - 2 /\ i + 1 = 1 + i
      BY <1>0
    <3> QED
      BY <3>1
  <2> QED
    BY <1>1, <2>1, Right
<1>3. Power[1] = 2
  <2>1. Power[0 + 1] = 2 * Power[0] /\ Power[0] = 1
    BY <1>1, PowerIs
  <2> QED
    BY <2>1
<1>4. PICK b \in Bit, d \in Bit : b = y[width - 1] /\ d = x[0]
  BY <1>1, ValueNum DEF Value
<1>5. LowBits(x, width)[1] = d
  <2>1. LowBits(x, width)[0 + 1] = LowBits(x, width)[0] + x[0] * Power[0]
    BY <1>0, <1>1, LowBitsIs
  <2>2. LowBits(x, width)[0] = 0 /\ Power[0] = 1 /\ 0 + 1 = 1
    BY <1>0, LowBitsIs, PowerIs
  <2>3. 0 + d * 1 = d
    BY DEF Bit
  <2> QED
    BY <1>4, <2>1, <2>2, <2>3, Zenon
<1>6. PICK q \in Nat \ {0} : q = Power[width - 1]
  BY <1>1, LowBitsBelow
<1>7. v \in Nat
  BY <1>6, <1>2 DEF RightParts
<1>8. Num(y, width) = v + b * q
  <2>1. PICK k \in 0 .. width - 1 : k = width - 1 /\ k + 1 = width
    BY <1>0
  <2>2. LowBits(y, width)[k + 1] = LowBits(y, width)[k] + y[k] * Power[k]
    BY <1>0, LowBitsIs
  <2>3. LowBits(y, width)[k] = v
    BY <1>2, <2>1, Zenon DEF RightParts
  <2> QED
    BY <1>4, <1>6, <2>1, <2>2, <2>3, Zenon DEF Num
<1>9. Num(x, width) = d + 2 * v /\ Power[width] = 2 * q
  BY <1>2, <1>3, <1>5, <1>6, Zenon DEF RightParts
<1>10. (d + 2 * v) - 2 * (v + b * q) = d - b * (2 * q)
  BY <1>7 DEF Bit
<1> QED
  BY <1>4, <1>8, <1>9, <1>10, Zenon


-----------------------------------------------------------------------------
(* The steps of Shifter                                                    *)

LongShifts ==
  [kind : {"none", "left", "right"}, width : Widths, limbs : Nat, unit : Int, owed : Int]

\* To the right, what is owed is below the lowest place of all.
LongOK == long \in LongShifts /\ (long.kind = "right" => long.unit = 1) /\ LongShift

ShiftInv == RotInv /\ LongOK /\ ShiftValue

LEMMA OperandIs ==
  ASSUME ShiftTypeOK
  PROVE  /\ Value(bits, size) /\ size \in Widths /\ size \in Nat /\ 1 < size /\ size < LongW + 1
         /\ LongW \in Nat /\ 1 < LongW
         /\ bits \in [0 .. size - 1 -> Bit] /\ bits[0] \in Bit /\ bits[size - 1] \in Bit
         /\ cf \in Bit /\ of \in Bit /\ Modulus(size) \in Nat \ {0} /\ Modulus(size) = Power[size]
<1>1. size \in Widths /\ size \in Nat /\ 1 < size /\ LongW \in Nat /\ 1 < LongW
  BY WidthsAre DEF ShiftTypeOK
<1>2. size < LongW + 1 /\ size \in 1 .. LongW
  BY <1>1, ShifterAssumption DEF Widths
<1>3. Value(bits, size) /\ bits \in [0 .. size - 1 -> Bit]
  BY <1>2 DEF Value, ShiftTypeOK, Bits
<1>4. bits[0] \in Bit /\ bits[size - 1] \in Bit
  BY <1>1, <1>3
<1>5. Modulus(size) \in Nat \ {0} /\ Modulus(size) = Power[size]
  BY <1>3, ValueNum DEF Modulus
<1> QED
  BY <1>1, <1>2, <1>3, <1>4, <1>5 DEF ShiftTypeOK

LEMMA MaskedIs ==
  ASSUME NEW count \in Counts, Masked(count) # 0
  PROVE  Masked(count) \in 1 .. LongW - 1
<1>1. count \in Nat /\ LongW \in Nat /\ LongW > 0
  BY ShifterAssumption
<1> QED
  BY <1>1 DEF Masked

\* A shift by one place starts a long one, any other ends it.
LEMMA LongStarts ==
  ASSUME ShiftTypeOK, NEW n \in Nat, NEW kind \in {"left", "right"}, NEW unit \in Int,
         NEW owed \in Int, long' = StartLong(n, kind, unit, owed),
         kind = "right" => unit = 1, n = 1 => owed = cf' * unit
  PROVE  LongOK'
<1>1. size \in Widths /\ ByteW \in Widths
  BY DEF ShiftTypeOK, Widths
<1>2. CASE n = 1
  <2>1. long' = [kind |-> kind, width |-> size, limbs |-> 1, unit |-> unit, owed |-> owed]
    BY <1>2 DEF StartLong
  <2>2. long' \in LongShifts
    BY <1>1, <2>1 DEF LongShifts
  <2>3. long'.kind = kind /\ long'.unit = unit /\ long'.owed = owed
    BY <2>1
  <2> QED
    BY <1>2, <2>2, <2>3 DEF LongOK, LongShift
<1>3. CASE n # 1
  BY <1>1, <1>3 DEF StartLong, NoLong, LongOK, LongShift, LongShifts
<1> QED
  BY <1>2, <1>3

LEMMA NoLongOK ==
  ASSUME long' = NoLong
  PROVE  LongOK'
BY DEF NoLong, LongOK, LongShift, LongShifts, Widths

LEMMA NoShiftOK ==
  ASSUME ShiftTypeOK', shift' = NoShift
  PROVE  ShiftValue'
BY DEF NoShift, ShiftValue

\* The flags of a result agree with its number.
LEMMA FlagsAgree ==
  ASSUME NEW width, NEW x, Value(x, width), ShiftFlags(x, width)
  PROVE  (zf' = 1 <=> Num(x, width) = 0) /\ sf' = x[width - 1]
BY ZeroIs DEF ShiftFlags

LEMMA ShlKeeps ==
  ASSUME ShiftTypeOK, ShiftTypeOK', NEW count \in Counts, Shl(count)
  PROVE  LongOK' /\ ShiftValue'
<1>1. PICK n \in 1 .. LongW - 1 : n = Masked(count)
  BY MaskedIs DEF Shl
<1>2. PICK y : y = [i \in 0 .. size - 1 |-> At(bits, i - n)]
  OBVIOUS
<1>3. PICK c : c = ShlCarry(n)
  OBVIOUS
<1>4. /\ bits' = y /\ cf' = c /\ size' = size /\ ShiftFlags(y, size)
      /\ n = 1 => of' = Xor(y[size - 1], c)
      /\ shift' = Shifted("shl", << >>, n)
      /\ long' = StartLong(n, "left", Modulus(size), 2 * Num(bits, size) - Num(y, size))
  BY <1>1, <1>2, <1>3, Zenon DEF Shl
<1>5. Value(bits, size) /\ Value(y, size) /\ size \in Nat /\ 1 < size /\ size < LongW + 1
  BY <1>4, OperandIs DEF Value, ShiftTypeOK, Bits
<1>6. \A i \in 0 .. size - 1 : y[i] = IF i < n THEN 0 ELSE bits[i - n]
  BY <1>2, <1>5 DEF At, Value
<1>7. c = IF n <= size THEN bits[size - n] ELSE 0
  BY <1>3, <1>5 DEF ShlCarry, At, Value
<1>8. /\ Num(y, size) = (Num(bits, size) * Power[n]) % Power[size]
      /\ c = ((Num(bits, size) * Power[n]) \div Power[size]) % 2
  BY <1>5, <1>6, <1>7, LeftNumber
<1>9. PICK a \in Nat, z \in Nat, w \in Nat \ {0} :
        a = Num(bits, size) /\ z = Num(y, size) /\ w = Power[size]
  BY <1>5, ValueNum
<1>10. c \in Bit
  BY <1>4 DEF ShiftTypeOK
<1>11. n = 1 => 2 * a - z = c * w /\ c = bits[size - 1]
  <2> HAVE n = 1
  <2>1. \A i \in 1 .. size - 1 : y[i] = bits[i - 1]
    BY <1>5, <1>6
  <2>2. y[0] = 0 /\ c = bits[size - 1]
    BY <1>5, <1>6, <1>7
  <2>3. 2 * a - z = bits[size - 1] * w - 0
    BY <1>5, <1>9, <2>1, <2>2, OneLeft
  <2>4. c * w \in Int
    BY <1>10 DEF Bit
  <2> QED
    BY <2>2, <2>3, <2>4
<1>12. LongOK'
  <2>1. Modulus(size) = w /\ 2 * a - z \in Int
    BY <1>9 DEF Modulus
  <2>2. long' = StartLong(n, "left", w, 2 * a - z)
    BY <1>4, <1>9, <2>1
  <2>3. "left" \in {"left", "right"} /\ "left" # "right" /\ n \in Nat /\ w \in Int
    OBVIOUS
  <2> QED
    BY <1>4, <1>11, <2>1, <2>2, <2>3, LongStarts
<1>13. n = 1 => (of' = 1 <=> 2 * SignedNum(bits, size) # SignedNum(y, size))
  <2> HAVE n = 1
  <2>1. PICK d \in Bit : d = y[size - 1]
    BY <1>5, ValueNum
  <2>2. SignedNum(bits, size) = a - c * w /\ SignedNum(y, size) = z - d * w
    BY <1>9, <1>11, <2>1, Zenon DEF SignedNum, Modulus
  <2>3. of' = 1 <=> d # c
    BY <1>4, <2>1 DEF Xor
  <2>4. 2 * (a - c * w) = z - d * w <=> c * w = d * w
    <3>1. PICK r \in Int, s \in Int : r = c * w /\ s = d * w
      BY <1>10 DEF Bit
    <3> QED
      BY <1>11, <3>1
  <2>5. c * w = d * w <=> c = d
    BY <1>10 DEF Bit
  <2> QED
    BY <2>2, <2>3, <2>4, <2>5
<1>14. /\ shift'.op = "shl" /\ shift'.base = bits /\ shift'.n = n
  BY <1>4 DEF Shifted
<1>15. (zf' = 1 <=> Num(y, size) = 0) /\ sf' = y[size - 1]
  BY <1>4, <1>5, FlagsAgree
<1> QED
  BY <1>4, <1>8, <1>12, <1>13, <1>14, <1>15 DEF ShiftValue, Modulus

LEMMA ShrKeeps ==
  ASSUME ShiftTypeOK, ShiftTypeOK', NEW count \in Counts, Shr(count)
  PROVE  LongOK' /\ ShiftValue'
<1>1. PICK n \in 1 .. LongW - 1 : n = Masked(count)
  BY MaskedIs DEF Shr
<1>2. PICK y : y = [i \in 0 .. size - 1 |-> At(bits, i + n)]
  OBVIOUS
<1>3. PICK c : c = At(bits, n - 1)
  OBVIOUS
<1>4. /\ bits' = y /\ cf' = c /\ size' = size /\ ShiftFlags(y, size)
      /\ shift' = Shifted("shr", << >>, n)
      /\ long' = StartLong(n, "right", 1, Num(bits, size) - 2 * Num(y, size))
  BY <1>1, <1>2, <1>3, Zenon DEF Shr
<1>5. Value(bits, size) /\ Value(y, size) /\ size \in Nat /\ 1 < size /\ size < LongW + 1
  BY <1>4, OperandIs DEF Value, ShiftTypeOK, Bits
<1>6. \A i \in 0 .. size - 1 : y[i] = IF i + n < size THEN bits[i + n] ELSE 0
  BY <1>2, <1>5 DEF At, Value
<1>7. c = IF n <= size THEN bits[n - 1] ELSE 0
  BY <1>3, <1>5 DEF At, Value
<1>8. /\ Num(y, size) = Num(bits, size) \div Power[n]
      /\ c = (Num(bits, size) \div Power[n - 1]) % 2
  BY <1>5, <1>6, <1>7, RightNumber
<1>9. PICK a \in Nat, z \in Nat, w \in Nat \ {0} :
        a = Num(bits, size) /\ z = Num(y, size) /\ w = Power[size]
  BY <1>5, ValueNum
<1>10. n = 1 => a - 2 * z = c
  <2> HAVE n = 1
  <2>1. \A i \in 0 .. size - 2 : y[i] = bits[i + 1]
    BY <1>5, <1>6
  <2>2. y[size - 1] = 0 /\ c = bits[0]
    BY <1>5, <1>6, <1>7
  <2>3. a - 2 * z = bits[0] - 0 * w
    BY <1>5, <1>9, <2>1, <2>2, OneRight
  <2> QED
    BY <1>4, <2>2, <2>3 DEF ShiftTypeOK, Bit
<1>11. LongOK'
  <2>1. a - 2 * z \in Int /\ "right" \in {"left", "right"} /\ n \in Nat /\ 1 \in Int
    OBVIOUS
  <2>2. long' = StartLong(n, "right", 1, a - 2 * z)
    BY <1>4, <1>9
  <2>3. n = 1 => a - 2 * z = cf' * 1
    BY <1>4, <1>10 DEF ShiftTypeOK, Bit
  <2> QED
    BY <2>1, <2>2, <2>3, LongStarts
<1>12. shift'.op = "shr" /\ shift'.base = bits /\ shift'.n = n
  BY <1>4 DEF Shifted
<1>13. (zf' = 1 <=> Num(y, size) = 0) /\ sf' = y[size - 1]
  BY <1>4, <1>5, FlagsAgree
<1> QED
  BY <1>4, <1>8, <1>11, <1>12, <1>13 DEF ShiftValue

LEMMA SarKeeps ==
  ASSUME ShiftTypeOK, ShiftTypeOK', NEW count \in Counts, Sar(count)
  PROVE  LongOK' /\ ShiftValue'
<1>1. PICK n \in 1 .. LongW - 1 : n = Masked(count)
  BY MaskedIs DEF Sar
<1>2. PICK y : y = [i \in 0 .. size - 1 |-> SarBit(bits, size, n, i)]
  OBVIOUS
<1>3. PICK c : c = At(bits, n - 1)
  OBVIOUS
<1>4. /\ bits' = y /\ cf' = c /\ size' = size /\ ShiftFlags(y, size)
      /\ shift' = Shifted("sar", << >>, n)
      /\ long' = StartLong(n, "right", 1, SignedNum(bits, size) - 2 * SignedNum(y, size))
  BY <1>1, <1>2, <1>3, Zenon DEF Sar
<1>5. Value(bits, size) /\ Value(y, size) /\ size \in Nat /\ 1 < size /\ size < LongW + 1
  BY <1>4, OperandIs DEF Value, ShiftTypeOK, Bits
<1>6. \A i \in 0 .. size - 1 : y[i] = IF i + n >= size THEN bits[size - 1] ELSE bits[i + n]
  BY <1>2 DEF SarBit
<1>7. n <= size => c = bits[n - 1]
  BY <1>3, <1>5 DEF At, Value
<1>8. SignedNum(y, size) = SignedNum(bits, size) \div Power[n]
  BY <1>5, <1>6, SignNumber
<1>9. n <= size => c = (SignedNum(bits, size) \div Power[n - 1]) % 2
  <2> HAVE n <= size
  <2>1. n \in 1 .. size
    BY <1>5
  <2> QED
    BY <1>5, <1>7, <2>1, SignBitOff
<1>10. PICK a \in Nat, z \in Nat, w \in Nat \ {0} :
         a = Num(bits, size) /\ z = Num(y, size) /\ w = Power[size]
  BY <1>5, ValueNum
<1>11. PICK s \in Bit : s = bits[size - 1] /\ y[size - 1] = s
  <2>1. bits[size - 1] \in Bit
    BY OperandIs
  <2>2. size - 1 \in 0 .. size - 1 /\ (size - 1) + n >= size
    BY <1>5
  <2> QED
    BY <1>6, <2>1, <2>2
<1>12. SignedNum(bits, size) = a - s * w /\ SignedNum(y, size) = z - s * w
  BY <1>10, <1>11, Zenon DEF SignedNum, Modulus
<1>13. (a - s * w) - 2 * (z - s * w) \in Int
       /\ (a - s * w) - 2 * (z - s * w) = (a - 2 * z) + s * w
  BY DEF Bit
<1>14. n = 1 => (a - s * w) - 2 * (z - s * w) = c
  <2> HAVE n = 1
  <2>1. \A i \in 0 .. size - 2 : y[i] = bits[i + 1]
    BY <1>5, <1>6
  <2>2. c = bits[0]
    BY <1>5, <1>7
  <2>3. a - 2 * z = c - s * w
    BY <1>5, <1>10, <1>11, <2>1, <2>2, OneRight
  <2> QED
    BY <1>4, <1>13, <2>3 DEF ShiftTypeOK, Bit
<1>15. LongOK'
  <2>1. "right" \in {"left", "right"} /\ n \in Nat /\ 1 \in Int
    OBVIOUS
  <2>2. long' = StartLong(n, "right", 1, (a - s * w) - 2 * (z - s * w))
    BY <1>4, <1>12
  <2>3. n = 1 => (a - s * w) - 2 * (z - s * w) = cf' * 1
    BY <1>4, <1>14 DEF ShiftTypeOK, Bit
  <2> QED
    BY <1>13, <2>1, <2>2, <2>3, LongStarts
<1>16. shift'.op = "sar" /\ shift'.base = bits /\ shift'.n = n
  BY <1>4 DEF Shifted
<1>17. (zf' = 1 <=> Num(y, size) = 0) /\ sf' = y[size - 1]
  BY <1>4, <1>5, FlagsAgree
<1> QED
  BY <1>4, <1>8, <1>9, <1>15, <1>16, <1>17 DEF ShiftValue

\* Counts of double shifts are taken modulo the width.
LEMMA DoubleCount ==
  ASSUME ShiftTypeOK, NEW count \in Counts, count % size # 0
  PROVE  count % size \in 1 .. size - 1
<1>1. count \in Nat /\ size \in Nat /\ 1 < size
  BY ShifterAssumption, OperandIs
<1> QED
  BY <1>1

LEMMA SourceIs ==
  ASSUME ShiftTypeOK, NEW src \in Sources[size]
  PROVE  Value(src, size)
<1>1. src \in Bits(size)
  BY ShifterAssumption DEF ShiftTypeOK
<1> QED
  BY <1>1, OperandIs DEF Value, Bits

LEMMA ShldKeeps ==
  ASSUME ShiftTypeOK, ShiftTypeOK', NEW count \in Counts, NEW src \in Sources[size],
         Shld(src, count)
  PROVE  LongOK' /\ ShiftValue'
<1>1. PICK n \in 1 .. size - 1 : n = count % size
  BY DoubleCount DEF Shld
<1>2. PICK y : y = [i \in 0 .. size - 1 |-> Or(At(bits, i - n), At(src, i + (size - n)))]
  OBVIOUS
<1>3. PICK c : c = ShlCarry(n)
  OBVIOUS
<1>4. /\ bits' = y /\ cf' = c /\ size' = size /\ ShiftFlags(y, size)
      /\ shift' = Shifted("shld", src, n) /\ long' = NoLong
  BY <1>1, <1>2, <1>3, Zenon DEF Shld
<1>5. Value(bits, size) /\ Value(y, size) /\ size \in Nat /\ 1 < size /\ size < LongW + 1
  BY <1>4, OperandIs DEF Value, ShiftTypeOK, Bits
<1>6. Value(src, size)
  BY SourceIs
<1>7. \A i \in 0 .. size - 1 : y[i] = IF i < n THEN src[i + (size - n)] ELSE bits[i - n]
  <2> TAKE i \in 0 .. size - 1
  <2>1. CASE i < n
    <3>1. PICK k \in 0 .. size - 1 : k = i + (size - n)
      BY <1>5, <2>1
    <3>2. At(bits, i - n) = 0 /\ At(src, k) = src[k] /\ src[k] \in Bit
      BY <1>5, <1>6, <2>1 DEF At, Value
    <3> QED
      BY <1>2, <2>1, <3>1, <3>2 DEF Or, Bit
  <2>2. CASE ~ (i < n)
    <3>1. PICK k \in 0 .. size - 1 : k = i - n
      BY <1>5, <2>2
    <3>2. At(src, i + (size - n)) = 0 /\ At(bits, k) = bits[k] /\ bits[k] \in Bit
      BY <1>5, <1>6, <2>2 DEF At, Value
    <3> QED
      BY <1>2, <2>2, <3>1, <3>2 DEF Or, Bit
  <2> QED
    BY <2>1, <2>2
<1>8. c = bits[size - n]
  BY <1>3, <1>5 DEF ShlCarry, At, Value
<1>9. /\ Num(y, size) =
           (((Num(bits, size) * Power[size] + Num(src, size)) * Power[n]) \div Power[size])
             % Power[size]
      /\ bits[size - n] = ((Num(bits, size) * Power[n]) \div Power[size]) % 2
  BY <1>5, <1>6, <1>7, DoubleLeft
<1>10. shift'.op = "shld" /\ shift'.base = bits /\ shift'.src = src /\ shift'.n = n
  BY <1>4 DEF Shifted
<1>11. (zf' = 1 <=> Num(y, size) = 0) /\ sf' = y[size - 1]
  BY <1>4, <1>5, FlagsAgree
<1>12. LongOK'
  BY <1>4, NoLongOK
<1> QED
  BY <1>4, <1>8, <1>9, <1>10, <1>11, <1>12 DEF ShiftValue, Modulus

LEMMA ShrdKeeps ==
  ASSUME ShiftTypeOK, ShiftTypeOK', NEW count \in Counts, NEW src \in Sources[size],
         Shrd(src, count)
  PROVE  LongOK' /\ ShiftValue'
<1>1. PICK n \in 1 .. size - 1 : n = count % size
  BY DoubleCount DEF Shrd
<1>2. PICK y : y = [i \in 0 .. size - 1 |-> Or(At(bits, i + n), At(src, i - (size - n)))]
  OBVIOUS
<1>3. PICK c : c = At(bits, n - 1)
  OBVIOUS
<1>4. /\ bits' = y /\ cf' = c /\ size' = size /\ ShiftFlags(y, size)
      /\ shift' = Shifted("shrd", src, n) /\ long' = NoLong
  BY <1>1, <1>2, <1>3, Zenon DEF Shrd
<1>5. Value(bits, size) /\ Value(y, size) /\ size \in Nat /\ 1 < size /\ size < LongW + 1
  BY <1>4, OperandIs DEF Value, ShiftTypeOK, Bits
<1>6. Value(src, size)
  BY SourceIs
<1>7. \A i \in 0 .. size - 1 : y[i] = IF i + n < size THEN bits[i + n] ELSE src[i - (size - n)]
  <2> TAKE i \in 0 .. size - 1
  <2>1. CASE i + n < size
    <3>1. PICK k \in 0 .. size - 1 : k = i + n
      BY <1>5, <2>1
    <3>2. At(src, i - (size - n)) = 0 /\ At(bits, k) = bits[k] /\ bits[k] \in Bit
      BY <1>5, <1>6, <2>1 DEF At, Value
    <3> QED
      BY <1>2, <2>1, <3>1, <3>2 DEF Or, Bit
  <2>2. CASE ~ (i + n < size)
    <3>1. PICK k \in 0 .. size - 1 : k = i - (size - n)
      BY <1>5, <2>2
    <3>2. At(bits, i + n) = 0 /\ At(src, k) = src[k] /\ src[k] \in Bit
      BY <1>5, <1>6, <2>2 DEF At, Value
    <3> QED
      BY <1>2, <2>2, <3>1, <3>2 DEF Or, Bit
  <2> QED
    BY <2>1, <2>2
<1>8. c = (Num(bits, size) \div Power[n - 1]) % 2
  <2>1. c = bits[n - 1] /\ n \in 1 .. size
    BY <1>3, <1>5 DEF At, Value
  <2> QED
    BY <1>5, <2>1, BitOff
<1>9. Num(y, size) =
        ((Num(src, size) * Power[size] + Num(bits, size)) \div Power[n]) % Power[size]
  BY <1>5, <1>6, <1>7, DoubleRight
<1>10. shift'.op = "shrd" /\ shift'.base = bits /\ shift'.src = src /\ shift'.n = n
  BY <1>4 DEF Shifted
<1>11. (zf' = 1 <=> Num(y, size) = 0) /\ sf' = y[size - 1]
  BY <1>4, <1>5, FlagsAgree
<1>12. LongOK'
  BY <1>4, NoLongOK
<1> QED
  BY <1>4, <1>8, <1>9, <1>10, <1>11, <1>12 DEF ShiftValue, Modulus

\* A long shift that goes on: the carry is paid back, and another one owed.
Longer(unit, owed) ==
  [kind |-> long.kind, width |-> long.width, limbs |-> long.limbs + 1,
   unit |-> unit, owed |-> owed]

LEMMA LongGoesOn ==
  ASSUME LongOK, NEW unit \in Int, NEW owed \in Int, long' = Longer(unit, owed),
         long.kind = "right" => unit = 1, owed = cf' * unit
  PROVE  LongOK'
<1>1. PICK k \in {"none", "left", "right"}, d \in Widths, l \in Nat, u \in Int, o \in Int :
        long = [kind |-> k, width |-> d, limbs |-> l, unit |-> u, owed |-> o]
  BY DEF LongOK, LongShifts
<1>2. long' = [kind |-> k, width |-> d, limbs |-> l + 1, unit |-> unit, owed |-> owed]
  BY <1>1 DEF Longer
<1>3. long' \in LongShifts
  BY <1>2 DEF LongShifts
<1>4. long'.kind = long.kind /\ long'.unit = unit /\ long'.owed = owed
  BY <1>1, <1>2
<1> QED
  BY <1>3, <1>4 DEF LongOK, LongShift

LEMMA RclKeeps ==
  ASSUME ShiftTypeOK, LongOK, ShiftTypeOK', NEW count \in Counts, Rcl(count)
  PROVE  LongOK' /\ ShiftValue'
<1>1. PICK n \in 1 .. size - 1 : n = Places(count)
  BY OperandIs, PlacesAre DEF Rcl
<1>2. PICK y : y = bits'
  OBVIOUS
<1>3. CASE Extending(n, "left")
  <2>1. n = 1 /\ long.kind = "left"
    BY <1>3 DEF Extending
  <2>2. Value(bits, size) /\ Value(y, size) /\ size \in Nat /\ 1 < size /\ cf \in Bit
    <3>1. size' = size
      BY DEF Rcl
    <3> QED
      BY <1>2, <3>1, OperandIs DEF Value, ShiftTypeOK, Bits
  <2>3. ASSUME NEW j \in Int
        PROVE  At(BigLeft, j) = IF j = 0 THEN cf
                                ELSE IF j \in 1 .. size THEN bits[j - 1] ELSE 0
    BY <2>2 DEF At, BigLeft
  <2>4. \A i \in 0 .. size - 1 :
          y[i] = Or(At(BigLeft, (i + 1) - n), At(BigLeft, (i + 1) + (size + (1 - n))))
    BY <1>1, <1>2 DEF Rcl
  <2>5. cf' = Or(At(BigLeft, (size + 1) - n), At(BigLeft, (size + 1) + (size + (1 - n))))
    BY <1>1 DEF Rcl
  <2>6. PICK c : c = bits[size - 1] /\ c \in Bit
    BY OperandIs
  <2>7. cf' = c
    <3>1. PICK a \in Int, b \in Int : a = (size + 1) - n /\ b = (size + 1) + (size + (1 - n))
      BY <2>2
    <3>2. a = size /\ a \in 1 .. size /\ a # 0 /\ b # 0 /\ b \notin 1 .. size
      BY <2>1, <2>2, <3>1
    <3>3. At(BigLeft, a) = c /\ At(BigLeft, b) = 0
      BY <2>3, <2>6, <3>2
    <3>4. cf' = Or(c, 0)
      BY <2>5, <3>1, <3>3, Zenon
    <3> QED
      BY <2>6, <3>4 DEF Or, Bit
  <2>8. ASSUME NEW i \in 0 .. size - 1 PROVE y[i] = IF i = 0 THEN cf ELSE bits[i - 1]
    <3>1. PICK a \in Int, b \in Int : a = (i + 1) - n /\ b = (i + 1) + (size + (1 - n))
      BY <2>2
    <3>2. a = i /\ b # 0 /\ b \notin 1 .. size /\ (i # 0 => i \in 1 .. size)
      BY <2>1, <2>2, <3>1
    <3>3. PICK d : d = IF i = 0 THEN cf ELSE bits[i - 1]
      OBVIOUS
    <3>4. At(BigLeft, a) = d /\ At(BigLeft, b) = 0
      BY <2>3, <3>2, <3>3
    <3>5. d \in Bit
      BY <2>2, <3>3 DEF Value
    <3>6. y[i] = Or(d, 0)
      BY <2>4, <3>1, <3>4, Zenon
    <3> QED
      BY <3>3, <3>5, <3>6 DEF Or, Bit
  <2>9. PICK a \in Nat, z \in Nat, w \in Nat \ {0} :
          a = Num(bits, size) /\ z = Num(y, size) /\ w = Power[size]
    BY <2>2, ValueNum
  <2>10. 2 * a - z = c * w - cf
    <3>1. \A i \in 1 .. size - 1 : y[i] = bits[i - 1]
      BY <2>2, <2>8
    <3>2. y[0] = cf
      BY <2>2, <2>8
    <3> QED
      BY <2>2, <2>6, <2>9, <3>1, <3>2, OneLeft
  <2>11. PICK u \in Int, o \in Int : u = long.unit /\ o = long.owed /\ o = cf * u
    <3>1. long.unit \in Int /\ long.owed \in Int
      BY DEF LongOK, LongShifts
    <3>2. long.owed = cf * long.unit
      BY <2>1 DEF LongOK, LongShift
    <3> QED
      BY <3>1, <3>2
  <2>12. PICK g \in Int : g = o + u * (2 * a - z)
    OBVIOUS
  <2>13. u * w \in Int /\ g = c * (u * w)
    <3>1. u * (c * w - cf) = c * (u * w) - cf * u
      BY <2>2, <2>6 DEF Bit
    <3>2. cf * u \in Int /\ c * (u * w) \in Int
      BY <2>2, <2>6 DEF Bit
    <3> QED
      BY <2>10, <2>11, <2>12, <3>1, <3>2
  <2>14. long' = Longer(u * w, g)
    <3>1. long' = [long EXCEPT !.limbs = @ + 1, !.unit = @ * Modulus(size),
                               !.owed = @ + long.unit * (2 * Num(bits, size) - Num(bits', size))]
      BY <1>1, <1>3 DEF Rcl
    <3>2. Modulus(size) = w
      BY <2>9 DEF Modulus
    <3>3. long \in LongShifts
      BY DEF LongOK
    <3> QED
      BY <1>2, <2>9, <2>11, <2>12, <3>1, <3>2, <3>3 DEF Longer, LongShifts
  <2> QED
    BY <2>1, <2>7, <2>13, <2>14, NoShiftOK, LongGoesOn DEF Rcl
<1>4. CASE ~ Extending(n, "left")
  <2>1. long' = NoLong /\ shift' = NoShift
    BY <1>1, <1>4 DEF Rcl
  <2> QED
    BY <2>1, NoLongOK, NoShiftOK
<1> QED
  BY <1>3, <1>4

LEMMA RcrKeeps ==
  ASSUME ShiftTypeOK, LongOK, ShiftTypeOK', NEW count \in Counts, Rcr(count)
  PROVE  LongOK' /\ ShiftValue'
<1>1. PICK n \in 1 .. size - 1 : n = Places(count)
  BY OperandIs, PlacesAre DEF Rcr
<1>2. PICK y : y = bits'
  OBVIOUS
<1>3. CASE Extending(n, "right") /\ size # WordW
  <2>1. n = 1 /\ long.kind = "right"
    BY <1>3 DEF Extending
  <2>2. Value(bits, size) /\ Value(y, size) /\ size \in Nat /\ 1 < size /\ cf \in Bit
    <3>1. size' = size
      BY DEF Rcr
    <3> QED
      BY <1>2, <3>1, OperandIs DEF Value, ShiftTypeOK, Bits
  <2>3. ASSUME NEW j \in Int
        PROVE  At(Whole, j) = IF j = size THEN cf
                              ELSE IF j \in 0 .. size - 1 THEN bits[j] ELSE 0
    BY <2>2 DEF At, Whole
  <2>4. \A i \in 0 .. size - 1 :
          y[i] = Or(At(Whole, i + n), At(Whole, i - (size + (1 - n))))
    BY <1>1, <1>2 DEF Rcr
  <2>5. cf' = Or(At(Whole, size + n), At(Whole, size - (size + (1 - n))))
    BY <1>1, <1>3 DEF Rcr
  <2>6. PICK c : c = bits[0] /\ c \in Bit
    BY OperandIs
  <2>7. cf' = c
    <3>1. PICK a \in Int, b \in Int : a = size + n /\ b = size - (size + (1 - n))
      BY <2>2
    <3>2. b = 0 /\ b \in 0 .. size - 1 /\ b # size /\ a # size /\ a \notin 0 .. size - 1
      BY <2>1, <2>2, <3>1
    <3>3. At(Whole, a) = 0 /\ At(Whole, b) = c
      BY <2>3, <2>6, <3>2
    <3>4. cf' = Or(0, c)
      BY <2>5, <3>1, <3>3, Zenon
    <3> QED
      BY <2>6, <3>4 DEF Or, Bit
  <2>8. ASSUME NEW i \in 0 .. size - 1 PROVE y[i] = IF i = size - 1 THEN cf ELSE bits[i + 1]
    <3>1. PICK a \in Int, b \in Int : a = i + n /\ b = i - (size + (1 - n))
      BY <2>2
    <3>2. /\ a = i + 1 /\ b # size /\ b \notin 0 .. size - 1
          /\ (i = size - 1 => a = size) /\ (i # size - 1 => a # size /\ a \in 0 .. size - 1)
      BY <2>1, <2>2, <3>1
    <3>3. PICK d : d = IF i = size - 1 THEN cf ELSE bits[i + 1]
      OBVIOUS
    <3>4. At(Whole, a) = d /\ At(Whole, b) = 0
      BY <2>3, <3>2, <3>3
    <3>5. d \in Bit
      BY <2>2, <3>3 DEF Value
    <3>6. y[i] = Or(d, 0)
      BY <2>4, <3>1, <3>4, Zenon
    <3> QED
      BY <3>3, <3>5, <3>6 DEF Or, Bit
  <2>9. PICK a \in Nat, z \in Nat, w \in Nat \ {0} :
          a = Num(bits, size) /\ z = Num(y, size) /\ w = Power[size]
    BY <2>2, ValueNum
  <2>10. a - 2 * z = c - cf * w
    <3>1. \A i \in 0 .. size - 2 : y[i] = bits[i + 1]
      BY <2>2, <2>8
    <3>2. y[size - 1] = cf
      BY <2>2, <2>8
    <3> QED
      BY <2>2, <2>6, <2>9, <3>1, <3>2, OneRight
  <2>11. long.unit = 1 /\ long.owed = cf
    <3>1. long.unit = 1 /\ long.owed = cf * long.unit
      BY <2>1 DEF LongOK, LongShift
    <3> QED
      BY <2>2, <3>1 DEF Bit
  <2>12. PICK g \in Int : g = cf * w + (a - 2 * z)
    BY <2>2 DEF Bit
  <2>13. g = cf' * 1 /\ 1 \in Int
    <3>1. cf * w \in Int
      BY <2>2 DEF Bit
    <3> QED
      BY <2>6, <2>7, <2>10, <2>12, <3>1 DEF Bit
  <2>14. long' = Longer(1, g)
    <3>1. long' = [long EXCEPT !.limbs = @ + 1,
                               !.owed = @ * Modulus(size)
                                          + (Num(bits, size) - 2 * Num(bits', size))]
      BY <1>1, <1>3 DEF Rcr
    <3>2. Modulus(size) = w
      BY <2>9 DEF Modulus
    <3>3. long.owed * Modulus(size) + (Num(bits, size) - 2 * Num(bits', size)) = g
      BY <1>2, <2>9, <2>11, <2>12, <3>2, Zenon
    <3>4. long \in LongShifts
      BY DEF LongOK
    <3> QED
      BY <2>11, <3>1, <3>3, <3>4 DEF Longer, LongShifts
  <2> QED
    BY <2>1, <2>13, <2>14, NoShiftOK, LongGoesOn DEF Rcr
<1>4. CASE ~ (Extending(n, "right") /\ size # WordW)
  <2>1. long' = NoLong /\ shift' = NoShift
    BY <1>1, <1>4 DEF Rcr
  <2> QED
    BY <2>1, NoLongOK, NoShiftOK
<1> QED
  BY <1>3, <1>4

\* What neither shifts nor goes on with a long shift.
LEMMA OthersKeep ==
  ASSUME ShiftTypeOK', shift' = NoShift, long' = NoLong
  PROVE  LongOK' /\ ShiftValue'
BY NoLongOK, NoShiftOK

LEMMA ShiftNextKeeps == ShiftInv /\ [ShiftNext]_shiftVars => ShiftInv'
<1> SUFFICES ASSUME ShiftInv, [ShiftNext]_shiftVars PROVE ShiftInv'
  OBVIOUS
<1>1. RotInv' /\ ShiftTypeOK /\ ShiftTypeOK' /\ LongOK /\ ShiftValue
  <2>1. RotInv'
    BY RotNext DEF ShiftInv
  <2> QED
    BY <2>1 DEF ShiftInv, RotInv
<1> SUFFICES LongOK' /\ ShiftValue'
  BY <1>1 DEF ShiftInv
<1>2. ASSUME NEW width \in Widths, NEW x \in Bits(width), MovBits(width, x)
      PROVE  LongOK' /\ ShiftValue'
  <2>1. long' = long /\ cf' = cf /\ shift' = NoShift
    BY <1>2 DEF MovBits, shiftFlags
  <2> QED
    BY <1>1, <2>1, NoShiftOK DEF LongOK, LongShift
<1>3. ASSUME NEW c \in Bit, PutCarry(c) PROVE LongOK' /\ ShiftValue'
  BY <1>1, <1>3, OthersKeep DEF PutCarry
<1>4. ASSUME NEW count \in Counts, Shl(count) \/ Shr(count) \/ Sar(count)
      PROVE  LongOK' /\ ShiftValue'
  BY <1>1, <1>4, ShlKeeps, ShrKeeps, SarKeeps
<1>5. ASSUME NEW count \in Counts, SarWideImm(count) \/ Rol(count) \/ Ror(count)
      PROVE  LongOK' /\ ShiftValue'
  <2>1. shift' = NoShift /\ long' = NoLong
    BY <1>5 DEF SarWideImm, Rol, Ror
  <2> QED
    BY <1>1, <2>1, OthersKeep
<1>6. ASSUME NEW count \in Counts, Rcl(count) \/ Rcr(count) PROVE LongOK' /\ ShiftValue'
  BY <1>1, <1>6, RclKeeps, RcrKeeps
<1>7. ASSUME NEW count \in Counts, NEW src \in Sources[size],
             Shld(src, count) \/ Shrd(src, count)
      PROVE  LongOK' /\ ShiftValue'
  BY <1>1, <1>7, ShldKeeps, ShrdKeeps
<1>8. CASE UNCHANGED shiftVars
  <2>1. /\ size' = size /\ bits' = bits /\ cf' = cf /\ of' = of /\ zf' = zf /\ sf' = sf
        /\ shift' = shift /\ ring' = ring /\ long' = long
    BY <1>8 DEF shiftVars, shiftFlags
  <2>2. LongOK'
    BY <1>1, <2>1 DEF LongOK, LongShift
  <2>3. ShiftValue'
    BY <1>1, <2>1 DEF ShiftValue, ShiftTypeOK
  <2> QED
    BY <2>2, <2>3
<1> QED
  BY <1>2, <1>3, <1>4, <1>5, <1>6, <1>7, <1>8 DEF ShiftNext

-----------------------------------------------------------------------------
(* The theorems                                                            *)

LEMMA ArithInit == Init => ArithInv
<1> SUFFICES ASSUME Init PROVE ArithInv
  OBVIOUS
<1>1. RegsOK
  BY ArithAssumption, Sizes DEF Init, RegsOK, Operand, Mod, Byte
<1>2. FlagsOK
  BY DEF Init, FlagsOK, Bit
<1>3. LastOK /\ UnsignedConditions
  BY NoInstrType DEF Init, LastOK, UnsignedConditions, NoInstr
<1>4. ChainOK
  BY ArithAssumption DEF Init, ChainOK, NoChain, ChainType, LongResult
<1> QED
  BY <1>1, <1>2, <1>3, <1>4 DEF ArithInv

LEMMA ArithStep == ArithInv /\ [Next]_vars => ArithInv'
<1> SUFFICES ASSUME ArithInv, [Next]_vars PROVE ArithInv'
  OBVIOUS
<1>1. CASE Next
  BY <1>1, ArithmeticStep, CountStep, MoveStep, FlagStep, DecimalStep DEF Next
<1>2. CASE UNCHANGED vars
  BY <1>2 DEF vars, regs, flags, ArithInv, RegsOK, FlagsOK, LastOK, ChainOK, LongResult,
              UnsignedConditions, Condition, Operand, Mod
<1> QED
  BY <1>1, <1>2

\* The inductive invariant of the arithmetic handlers: every handler keeps ArithInv
\* (vm/ops/maths.cpp).
THEOREM ArithInductive == Spec => []ArithInv
  BY ArithInit, ArithStep, PTL DEF Spec

\* Registers and flags keep their types for every width of digits, bytes and operands
\* (vm/ops/maths.cpp).
THEOREM ArithTypeCorrect == Spec => []TypeOK
  BY ArithInductive, ArithInvTypes, PTL

\* Long additions and subtractions are exact for operands of every size and number, but
\* for what ADC and SBB lose at single operands (op_add, op_adc, op_sub, op_sbb, op_inc,
\* op_dec).
THEOREM LongExact == Spec => []LongResult
  BY ArithInductive, ArithInvTypes, PTL

\* Unsigned conditions after a comparison mean what they say, for every operand size
\* (Sub8, Sub16, Sub32 and jcc).
THEOREM UnsignedExact == Spec => []UnsignedConditions
<1>1. ArithInv => UnsignedConditions
  BY DEF ArithInv
<1> QED
  BY <1>1, ArithInductive, PTL

\* Signed conditions after a comparison mean what they say for the operands whose sign bit 7
\* is, for every operand size (CalculateOF8, -16, -32 and jcc).
THEOREM SignedExact == Spec => []SignedConditions
<1>1. Init => SignedConditions
  BY DEF Init, NoInstr, SignedConditions
<1> QED
  BY <1>1, ArithInductive, SignedStep, PTL DEF Spec

\* Behind additions and subtractions of decimal digits AAA, AAS, DAA and DAS leave the
\* decimal result and carry, for every base and every width of a digit that exceeds it
\* (op_aaa, op_aas, op_daa, op_das).
THEOREM DecimalExact == Spec => []DecimalAdjust
<1>1. Init => DecimalInv
  <2>1. Init => Adjustable /\ DecimalAdjust
    BY DEF Init, NoInstr, Adjustable, DecimalAdjust
  <2> QED
    BY <2>1, ArithInit DEF DecimalInv
<1>2. DecimalInv /\ [Next]_vars => DecimalInv'
  BY ArithStep, AdjustableStep, DecimalAdjustStep DEF DecimalInv
<1>3. DecimalInv => DecimalAdjust
  BY DEF DecimalInv
<1> QED
  BY <1>1, <1>2, <1>3, PTL DEF Spec

LEMMA ShiftStarts == ShiftInit => ShiftInv
<1> SUFFICES ASSUME ShiftInit PROVE ShiftInv
  OBVIOUS
<1>1. ShiftTypeOK
  BY ShifterAssumption DEF ShiftInit, ShiftTypeOK, Bits, Bit, Widths
<1>2. RingOK
  BY DEF ShiftInit, RingOK, NoRing
<1>3. LongOK
  BY DEF ShiftInit, LongOK, LongShifts, LongShift, NoLong, Widths
<1>4. ShiftValue
  BY <1>1 DEF ShiftInit, ShiftValue, NoShift
<1> QED
  BY <1>1, <1>2, <1>3, <1>4 DEF ShiftInv, RotInv

\* The inductive invariant of the shifts and rotates: every handler keeps ShiftInv
\* (the helpers of vm/ops/maths.cpp and op_shl_* to op_rcr_*).
THEOREM ShiftInductive == ShiftSpec => []ShiftInv
  BY ShiftStarts, ShiftNextKeeps, PTL DEF ShiftSpec

(***************************************************************************)
(* After any sequence of ROL and ROR the operand is the old one turned by  *)
(* the sum of their places, and after any sequence of RCL and RCR operand  *)
(* and carry together are; MOV, a shift, STC or CLC and RCR of a word,     *)
(* which loses the carry, begin anew.                                      *)
(***************************************************************************)
THEOREM ShiftsRotate == ShiftSpec => []Rotation
<1>1. ShiftInv => Rotation
  <2> SUFFICES ASSUME RotInv PROVE Rotation
    BY DEF ShiftInv
  <2>1. (size + 1) - 1 = size
    BY WholeIs DEF RotInv
  <2>2. ring.kind = "plain" => LeadsTo(ring, "plain", size, bits)
    BY DEF RotInv, RingOK, LeadsTo
  <2>3. ring.kind = "carry" => LeadsTo(ring, "carry", size + 1, Whole)
    BY DEF RotInv, RingOK, LeadsTo
  <2>4. ring.kind = "plain" =>
          \A i \in 0 .. size - 1 : bits[i] = ring.orig[(i - ring.turn) % size]
    BY <2>2 DEF LeadsTo, TurnOf
  <2>5. ring.kind = "carry" =>
          \A i \in 0 .. size : Whole[i] = ring.orig[(i - ring.turn) % (size + 1)]
    <3>1. ring.kind = "carry" => TurnOf(Whole, ring.orig, ring.turn, size + 1)
      BY <2>3 DEF LeadsTo
    <3>2. ring.kind = "carry" =>
            \A i \in 0 .. (size + 1) - 1 : Whole[i] = ring.orig[(i - ring.turn) % (size + 1)]
      BY <3>1, Zenon DEF TurnOf
    <3>3. 0 .. (size + 1) - 1 = 0 .. size
      BY <2>1
    <3> QED
      BY <3>2, <3>3, Zenon
  <2> QED
    BY <2>4, <2>5 DEF Rotation
<1> QED
  BY <1>1, ShiftInductive, PTL

\* For operands of every width and every count SHL, SHR and SAR multiply and divide by a
\* power of two, SHLD and SHRD do so with a double operand, and the flags agree
\* (ShiftLogicalLeft8 to ShiftRightDoublePrecision and their handlers).
THEOREM ShiftsExact == ShiftSpec => []ShiftValue
<1>1. ShiftInv => ShiftValue
  BY DEF ShiftInv
<1> QED
  BY <1>1, ShiftInductive, PTL

\* A number of any number of operands of any width, shifted by one place through the carry,
\* is doubled or halved but for that carry (SHL and RCL, SHR or SAR and RCR).
THEOREM LongShiftsExact == ShiftSpec => []LongShift
<1>1. ShiftInv => LongShift
  BY DEF ShiftInv, LongOK
<1> QED
  BY <1>1, ShiftInductive, PTL

=============================================================================
