---------------------------- MODULE MulDivProofs ----------------------------
(***************************************************************************)
(* Theorems about MulDiv, for operands and immediates of every size.       *)
(*                                                                         *)
(* The products of symbols are beyond the prover unless a fact leaves it   *)
(* nothing but sums to look at: each of the lemmas of the first part is    *)
(* one such fact, about any modulus m.                                     *)
(***************************************************************************)
EXTENDS MulDiv, TLAPS

LEMMA Divided ==
  ASSUME NEW d \in Nat \ {0}, NEW x \in Nat
  PROVE  /\ x \div d \in Nat /\ x % d \in 0 .. d - 1
         /\ x = d * (x \div d) + (x % d)
OBVIOUS

\* Quotient and remainder are the only ones.
LEMMA Unique ==
  ASSUME NEW d \in Nat \ {0}, NEW q \in Int, NEW r \in 0 .. d - 1
  PROVE  /\ (d * q + r) \div d = q
         /\ (d * q + r) % d = r
<1>1. PICK x \in Int : x = d * q + r
  OBVIOUS
<1>2. PICK p \in Int : p = x \div d
  OBVIOUS
<1>3. PICK s \in 0 .. d - 1 : s = x % d
  OBVIOUS
<1>4. x = d * p + s
  BY <1>2, <1>3
<1>5. d * (p - q) = r - s
  BY <1>1, <1>4
<1>6. PICK k \in Int : k = p - q
  OBVIOUS
<1>7. k >= 1 => d * k >= d
  OBVIOUS
<1>8. k <= -1 => d * k <= - d
  OBVIOUS
<1>9. k = 0
  BY <1>5, <1>6, <1>7, <1>8
<1>10. p = q
  BY <1>6, <1>9
<1>11. s = r
  BY <1>1, <1>4, <1>10
<1> QED BY <1>1, <1>2, <1>3, <1>10, <1>11

\* Multiples of the modulus do not matter.
LEMMA Shifted ==
  ASSUME NEW d \in Nat \ {0}, NEW x \in Int, NEW k \in Int
  PROVE  (x + d * k) % d = x % d
<1>1. PICK q \in Int : q = x \div d
  OBVIOUS
<1>2. PICK r \in 0 .. d - 1 : r = x % d
  OBVIOUS
<1>3. x = d * q + r
  BY <1>1, <1>2
<1>4. PICK p \in Int : p = q + k
  OBVIOUS
<1>5. x + d * k = d * p + r
  BY <1>3, <1>4
<1>6. (d * p + r) % d = r
  BY Unique
<1> QED BY <1>2, <1>5, <1>6

\* Two operands make a pair.
LEMMA Together ==
  ASSUME NEW m \in Nat \ {0}, NEW h \in 0 .. m - 1, NEW l \in 0 .. m - 1
  PROVE  /\ h * m + l \in 0 .. m * m - 1
         /\ (h * m + l) \div m = h /\ (h * m + l) % m = l
<1>1. h * m <= m * m - m
  <2>1. (m - 1 - h) * m >= 0
    OBVIOUS
  <2> QED BY <2>1
<1>2. h * m >= 0
  OBVIOUS
<1>3. h * m + l = m * h + l
  OBVIOUS
<1> QED BY <1>1, <1>2, <1>3, Unique

\* A pair is two operands.
LEMMA Apart ==
  ASSUME NEW m \in Nat \ {0}, NEW x \in 0 .. m * m - 1
  PROVE  /\ x \div m \in 0 .. m - 1 /\ x % m \in 0 .. m - 1
         /\ x = (x \div m) * m + (x % m)
<1>1. PICK q \in Nat : q = x \div m
  BY Divided
<1>2. PICK r \in 0 .. m - 1 : r = x % m
  BY Divided
<1>3. x = m * q + r
  BY <1>1, <1>2
<1>4. q < m
  <2>1. q >= m => m * q >= m * m
    OBVIOUS
  <2> QED BY <2>1, <1>3
<1> QED BY <1>1, <1>2, <1>3, <1>4

\* The product of two numbers up to a bound.
LEMMA Below ==
  ASSUME NEW n \in Nat, NEW a \in 0 .. n, NEW b \in 0 .. n
  PROVE  a * b \in 0 .. n * n
<1>1. a * b <= n * b
  <2>1. (n - a) * b >= 0
    OBVIOUS
  <2> QED BY <2>1
<1>2. n * b <= n * n
  <2>1. (n - b) * n >= 0
    OBVIOUS
  <2> QED BY <2>1
<1>3. a * b >= 0
  OBVIOUS
<1> QED BY <1>1, <1>2, <1>3

-----------------------------------------------------------------------------
(* Signs.                                                                  *)

LEMMA Sized ==
  /\ Half \in Nat \ {0} /\ M \in Nat \ {0} /\ M = 2 * Half /\ Operands = 0 .. M - 1
  /\ Values \subseteq Operands
BY MulDivAssumption DEF M, Operands

\* An operand is its magnitude or the negation of it.
LEMMA Signs ==
  ASSUME NEW x \in Operands
  PROVE  /\ Unsign(x) \in 0 .. Half
         /\ Signed(x) = IF Negative(x) THEN - Unsign(x) ELSE Unsign(x)
         /\ Signed(x) \in - Half .. Half - 1
         /\ Unsign(x) = 0 <=> x = 0
         /\ Negative(x) \in BOOLEAN
BY Sized DEF Signed, Unsign, Negative

\* The magnitude of a product of operands, signed again, is the signed product.
LEMMA Resigned ==
  ASSUME NEW x \in 0 .. Half * Half, NEW n \in BOOLEAN
  PROVE  /\ Resign(x, n, M * M) \in 0 .. M * M - 1
         /\ WideSigned(Resign(x, n, M * M)) = IF n THEN - x ELSE x
<1>1. PICK h \in Nat \ {0} : h = Half /\ M = 2 * h
  BY Sized
<1>2. PICK s \in Nat \ {0} : s = h * h
  OBVIOUS
<1>3. Half * Half = s /\ Half * M = 2 * s /\ M * M = 4 * s
  BY <1>1, <1>2
<1>4. x \in 0 .. s
  BY <1>3
<1> QED BY <1>2, <1>3, <1>4 DEF Resign, WideSigned

LEMMA Squares ==
  /\ Half * Half \in Nat /\ M * M \in Nat \ {0}
  /\ Half * Half <= M * M - 1 /\ M * M = 4 * (Half * Half) /\ Half * M = 2 * (Half * Half)
<1>1. PICK h \in Nat \ {0} : h = Half /\ M = 2 * h
  BY Sized
<1>2. PICK s \in Nat \ {0} : s = h * h
  OBVIOUS
<1>3. Half * Half = s /\ M * M = 4 * s /\ Half * M = 2 * s
  BY <1>1, <1>2
<1> QED BY <1>2, <1>3

\* The same for the dividend.
LEMMA WideSigns ==
  ASSUME NEW x \in 0 .. M * M - 1
  PROVE  /\ WideUnsign(x) \in 0 .. Half * M
         /\ WideSigned(x) = IF WideNegative(x) THEN - WideUnsign(x) ELSE WideUnsign(x)
         /\ WideUnsign(x) \in 0 .. M * M - 1
<1>1. PICK s \in Nat \ {0} : Half * M = 2 * s /\ M * M = 4 * s
  BY Squares, Sized
<1>2. x \in 0 .. 4 * s - 1
  BY <1>1
<1> QED BY <1>1, <1>2 DEF WideUnsign, WideSigned, WideNegative

\* The product of signed operands is that of the magnitudes, with the signs compared.
LEMMA SignRule ==
  ASSUME NEW a \in Operands, NEW b \in Operands
  PROVE  /\ Unsign(a) * Unsign(b) \in 0 .. Half * Half
         /\ Signed(a) * Signed(b) =
              IF Negative(a) # Negative(b) THEN - (Unsign(a) * Unsign(b)) ELSE Unsign(a) * Unsign(b)
<1>1. PICK u \in 0 .. Half : u = Unsign(a)
  BY Signs
<1>2. PICK v \in 0 .. Half : v = Unsign(b)
  BY Signs
<1>3. u * v \in 0 .. Half * Half
  BY Sized, Below
<1>4. /\ Signed(a) = IF Negative(a) THEN - u ELSE u
      /\ Signed(b) = IF Negative(b) THEN - v ELSE v
  BY <1>1, <1>2, Signs
<1>5. /\ (- u) * v = - (u * v) /\ u * (- v) = - (u * v) /\ (- u) * (- v) = u * v
  BY Sized
<1>6. Negative(a) \in BOOLEAN /\ Negative(b) \in BOOLEAN
  BY Signs
<1>7. Signed(a) * Signed(b) = IF Negative(a) # Negative(b) THEN - (u * v) ELSE u * v
  <2>1. CASE Negative(a) /\ Negative(b)
    <3>1. Signed(a) = - u /\ Signed(b) = - v
      BY <1>4, <2>1
    <3>2. Signed(a) * Signed(b) = u * v
      BY <1>5, <3>1
    <3> QED BY <2>1, <3>2
  <2>2. CASE Negative(a) /\ ~ Negative(b)
    <3>1. Signed(a) = - u /\ Signed(b) = v
      BY <1>4, <2>2
    <3>2. Signed(a) * Signed(b) = - (u * v)
      BY <1>5, <3>1
    <3> QED BY <2>2, <3>2
  <2>3. CASE ~ Negative(a) /\ Negative(b)
    <3>1. Signed(a) = u /\ Signed(b) = - v
      BY <1>4, <2>3
    <3>2. Signed(a) * Signed(b) = - (u * v)
      BY <1>5, <3>1
    <3> QED BY <2>3, <3>2
  <2>4. CASE ~ Negative(a) /\ ~ Negative(b)
    <3>1. Signed(a) = u /\ Signed(b) = v
      BY <1>4, <2>4
    <3>2. Negative(a) = Negative(b)
      BY <1>6, <2>4
    <3> QED BY <3>1, <3>2
  <2> QED BY <1>6, <2>1, <2>2, <2>3, <2>4
<1> QED BY <1>1, <1>2, <1>3, <1>7

\* The low half of a product is that of the signed product.
LEMMA LowHalf ==
  ASSUME NEW a \in Operands, NEW b \in Operands
  PROVE  (a * b) % M = (Signed(a) * Signed(b)) % M
<1>1. PICK m \in Nat \ {0} : m = M /\ Operands = 0 .. m - 1
  BY Sized
<1>2. PICK j \in 0 .. 1 : Signed(a) = a - m * j
  <2>1. Signed(a) = a - m * 0 \/ Signed(a) = a - m * 1
    BY <1>1 DEF Signed
  <2> QED BY <2>1
<1>3. PICK k \in 0 .. 1 : Signed(b) = b - m * k
  <2>1. Signed(b) = b - m * 0 \/ Signed(b) = b - m * 1
    BY <1>1 DEF Signed
  <2> QED BY <2>1
<1>4. PICK c \in Int, d \in Int : c = a /\ d = b
  BY <1>1
<1>5. PICK t \in Int : t = - (c * k) - (d * j) + m * (j * k)
  BY <1>1
<1>6. (c - m * j) * (d - m * k) = c * d + m * t
  BY <1>5
<1>7. PICK x \in Int : x = c * d
  OBVIOUS
<1>8. (x + m * t) % m = x % m
  BY Shifted
<1> QED BY <1>1, <1>2, <1>3, <1>4, <1>6, <1>7, <1>8

-----------------------------------------------------------------------------
(* What all instructions share.                                            *)

Ops == {"none", "mul", "imul", "imul_immW", "imul_imm8", "div", "idiv", "aad", "aam", "extend"}

LEMMA Remembers ==
  ASSUME TypeOK, NEW op \in Ops, NEW place \in Places, NEW d \in Operands, NEW imm \in Operands,
         NEW fault \in BOOLEAN, Done(op, place, d, imm, fault)
  PROVE  /\ last' \in [op : Ops, place : Places, d : Operands, imm : Operands, hi : Operands,
                       lo : Operands, fault : BOOLEAN]
         /\ last'.op = op /\ last'.place = place /\ last'.d = d /\ last'.imm = imm
         /\ last'.hi = hi /\ last'.lo = lo /\ last'.fault = fault
BY DEF TypeOK, Done

LEMMA Readable ==
  ASSUME TypeOK, NEW place \in Places, NEW d \in Read(place)
  PROVE  d \in Operands
BY Sized DEF TypeOK, Read, Places

LEMMA Typed ==
  ASSUME TypeOK, UNCHANGED size, hi' \in Operands, lo' \in Operands, cf' \in BOOLEAN,
         of' \in BOOLEAN, alive' \in BOOLEAN,
         last' \in [op : Ops, place : Places, d : Operands, imm : Operands, hi : Operands,
                    lo : Operands, fault : BOOLEAN]
  PROVE  TypeOK'
BY DEF TypeOK, Ops

LEMMA NoQuotient ==
  ASSUME last'.op \notin {"div", "idiv", "aam"}, last'.fault = FALSE, alive' = TRUE
  PROVE  Quotients'
BY DEF Quotients

LEMMA NoProduct ==
  ASSUME last'.op \notin {"mul", "imul", "imul_immW", "imul_imm8"}
  PROVE  Products'
BY DEF Products

LEMMA Zero == 0 \in Operands
BY Sized

Inv == TypeOK /\ Products /\ Quotients

-----------------------------------------------------------------------------
(* Multiplications.                                                        *)

LEMMA MulStep ==
  ASSUME Inv, NEW place \in Places, NEW d \in Operands, Mul(place, d)
  PROVE  Inv'
<1>1. TypeOK /\ Done("mul", place, d, 0, FALSE) /\ alive = TRUE /\ UNCHANGED <<size, alive>>
  BY DEF Inv, Mul, TypeOK
<1>2. /\ last' \in [op : Ops, place : Places, d : Operands, imm : Operands, hi : Operands,
                    lo : Operands, fault : BOOLEAN]
      /\ last'.op = "mul" /\ last'.d = d /\ last'.lo = lo /\ last'.fault = FALSE
  BY <1>1, Zero, Remembers DEF Ops
<1>3. PICK m \in Nat \ {0} : m = M /\ Operands = 0 .. m - 1
  BY Sized
<1>4. PICK a \in 0 .. m - 1 : a = lo
  BY <1>1, <1>3 DEF TypeOK
<1>5. PICK x \in 0 .. m * m - 1 : x = lo * d
  <2>1. a * d \in 0 .. (m - 1) * (m - 1)
    BY <1>3, Below
  <2>2. (m - 1) * (m - 1) <= m * m - 1
    OBVIOUS
  <2> QED BY <1>4, <2>1, <2>2
<1>6. PICK h \in 0 .. m - 1, l \in 0 .. m - 1 : h = x \div m /\ l = x % m /\ x = h * m + l
  BY Apart
<1>7. /\ hi' = h /\ lo' = l
      /\ cf' = (h > 0) /\ of' = (h > 0)
  BY <1>3, <1>5, <1>6 DEF Mul, Flags
<1>8. h > 0 <=> x >= m
  <2>1. h > 0 => h * m >= m
    OBVIOUS
  <2>2. h = 0 => h * m = 0
    OBVIOUS
  <2> QED BY <1>6, <2>1, <2>2
<1>9. TypeOK'
  BY <1>1, <1>2, <1>3, <1>7, Typed DEF TypeOK
<1>10. Products'
  <2>1. Pair(hi', lo') = last'.lo * last'.d
    BY <1>2, <1>3, <1>5, <1>6, <1>7 DEF Pair
  <2>2. cf' <=> last'.lo * last'.d >= M
    BY <1>2, <1>3, <1>5, <1>7, <1>8
  <2> QED BY <1>2, <1>7, <2>1, <2>2 DEF Products
<1>11. Quotients'
  BY <1>1, <1>2, NoQuotient
<1> QED BY <1>9, <1>10, <1>11 DEF Inv

LEMMA IMulStep ==
  ASSUME Inv, NEW place \in Places, NEW d \in Operands, IMul(place, d)
  PROVE  Inv'
<1>1. TypeOK /\ Done("imul", place, d, 0, FALSE) /\ alive = TRUE /\ UNCHANGED <<size, alive>>
  BY DEF Inv, IMul, TypeOK
<1>2. /\ last' \in [op : Ops, place : Places, d : Operands, imm : Operands, hi : Operands,
                    lo : Operands, fault : BOOLEAN]
      /\ last'.op = "imul" /\ last'.d = d /\ last'.lo = lo /\ last'.fault = FALSE
  BY <1>1, Zero, Remembers DEF Ops
<1>3. PICK m \in Nat \ {0} : m = M /\ Operands = 0 .. m - 1 /\ m = 2 * Half
  BY Sized
<1>4. PICK s \in Nat \ {0} : s = Half * Half /\ m * m = 4 * s
  <2>1. PICK k \in Nat \ {0} : k = Half
    BY Sized
  <2>2. k * k \in Nat \ {0}
    OBVIOUS
  <2> QED BY <1>3, <2>1, <2>2, Squares
<1>5. lo \in Operands
  BY <1>1 DEF TypeOK
<1>6. PICK x \in 0 .. s : x = Unsign(lo) * Unsign(d)
  BY <1>4, <1>5, SignRule
<1>7. PICK n \in BOOLEAN : n = (Negative(lo) # Negative(d))
  OBVIOUS
<1>8. PICK p \in Int : p = Signed(lo) * Signed(d) /\ p = IF n THEN - x ELSE x
  <2>1. Signed(lo) * Signed(d) = IF n THEN - x ELSE x
    BY <1>5, <1>6, <1>7, SignRule
  <2>2. (IF n THEN - x ELSE x) \in Int
    OBVIOUS
  <2> QED BY <2>1, <2>2
<1>9. PICK w \in 0 .. m * m - 1 : w = Resign(x, n, M * M) /\ WideSigned(w) = p
  BY <1>3, <1>4, <1>8, Resigned
<1>10. PICK h \in 0 .. m - 1, l \in 0 .. m - 1 : h = w \div m /\ l = w % m /\ w = h * m + l
  BY Apart
<1>11. hi' = h /\ lo' = l
  BY <1>3, <1>6, <1>7, <1>9, <1>10 DEF IMul
<1>12. PICK k \in Int : k = IF size = "byte" THEN x ELSE x \div m
  <2>1. x \in Int /\ x \div m \in Int
    OBVIOUS
  <2> QED BY <2>1
<1>13. cf' = (k > 0) /\ of' = (k > 0)
  BY <1>3, <1>6, <1>12 DEF IMul, Flags
<1>14. x \div m > 0 <=> x >= m
  <2> x \in Nat
    OBVIOUS
  <2>1. PICK q \in Nat : q = x \div m
    BY Divided
  <2>4. PICK r \in 0 .. m - 1 : x = m * q + r
    BY <2>1, Divided
  <2>2. q > 0 => m * q >= m
    OBVIOUS
  <2>3. q = 0 => m * q = 0
    OBVIOUS
  <2> QED BY <2>1, <2>2, <2>3, <2>4
<1>15. TypeOK'
  BY <1>1, <1>2, <1>3, <1>11, <1>13, Typed
<1>16. Products'
  <2>1. WideSigned(Pair(hi', lo')) = p
    BY <1>3, <1>9, <1>10, <1>11 DEF Pair
  <2>2. Half \in Nat \ {0}
    BY Sized
  <2>3. size = "byte" => (~ Fits(p) => k > 0)
    BY <1>8, <1>12, <2>2 DEF Fits
  <2>4. size # "byte" => (k > 0 => ~ Fits(p)) /\ (~ (k > 0) => Abs(p) < m)
    BY <1>3, <1>8, <1>12, <1>14, <2>2 DEF Fits, Abs
  <2>5. Signed(last'.lo) * Signed(last'.d) = p /\ size' = size
    BY <1>1, <1>2, <1>8
  <2> QED BY <1>2, <1>3, <1>13, <2>1, <2>3, <2>4, <2>5 DEF Products
<1>17. Quotients'
  BY <1>1, <1>2, NoQuotient
<1> QED BY <1>15, <1>16, <1>17 DEF Inv

\* A signed product fits an operand if its low half, as a signed number, is all of it.
LEMMA FitsLow ==
  ASSUME NEW x \in Int
  PROVE  /\ x % M \in Operands
         /\ Signed(x % M) = x <=> Fits(x)
<1>1. PICK h \in Nat \ {0}, m \in Nat \ {0} : h = Half /\ m = M /\ m = 2 * h /\ Operands = 0 .. m - 1
  BY Sized
<1>2. PICK q \in Int : q = x \div m
  OBVIOUS
<1>3. PICK r \in 0 .. m - 1 : r = x % m
  OBVIOUS
<1>4. x = m * q + r
  BY <1>2, <1>3
<1>5. /\ q >= 1 => m * q >= m
      /\ q <= -2 => m * q <= - (2 * m)
      /\ q = 0 => m * q = 0
      /\ q = -1 => m * q = - m
  OBVIOUS
<1>6. Signed(r) = IF r < h THEN r ELSE r - m
  BY <1>1 DEF Signed
<1>7. Fits(x) <=> - h <= x /\ x < h
  BY <1>1 DEF Fits
<1>8. Signed(r) = x <=> Fits(x)
  BY <1>1, <1>4, <1>5, <1>6, <1>7
<1> QED BY <1>1, <1>3, <1>8

LEMMA IMulImmStep ==
  ASSUME Inv, NEW place \in Places, NEW d \in Operands, NEW imm \in Operands,
         IMulImm(place, d, imm)
  PROVE  Inv'
<1>1. /\ TypeOK /\ Done("imul_immW", place, d, imm, FALSE) /\ alive = TRUE
      /\ UNCHANGED <<size, hi, alive>> /\ lo' = (d * imm) % M
  BY DEF Inv, IMulImm, TypeOK
<1>2. /\ last' \in [op : Ops, place : Places, d : Operands, imm : Operands, hi : Operands,
                    lo : Operands, fault : BOOLEAN]
      /\ last'.op = "imul_immW" /\ last'.d = d /\ last'.imm = imm /\ last'.fault = FALSE
  BY <1>1, Remembers DEF Ops
<1>3. PICK p \in Int : p = Signed(d) * Signed(imm)
  <2>1. PICK a \in Int, b \in Int : a = Signed(d) /\ b = Signed(imm)
    BY Signs, Sized
  <2> QED BY <2>1
<1>4. lo' = p % M /\ lo' \in Operands
  BY <1>1, <1>3, LowHalf, FitsLow
<1>5. cf' = (size = "word" /\ Signed(p % M) # p) /\ of' = cf'
  BY <1>1, <1>3, LowHalf DEF IMulImm, Flags
<1>6. TypeOK'
  BY <1>1, <1>2, <1>4, <1>5, Typed DEF TypeOK
<1>7. Products'
  <2>1. Signed(last'.d) * Signed(last'.imm) = p /\ size' = size
    BY <1>1, <1>2, <1>3
  <2>2. size = "word" => (cf' <=> ~ Fits(p))
    BY <1>5, FitsLow
  <2> QED BY <1>2, <1>4, <1>5, <2>1, <2>2 DEF Products
<1>8. Quotients'
  BY <1>1, <1>2, NoQuotient
<1> QED BY <1>6, <1>7, <1>8 DEF Inv

LEMMA IMulImm8Step ==
  ASSUME Inv, NEW place \in Places, NEW d \in Operands, NEW b \in Values, b < 2 * ImmHalf,
         IMulImm8(place, d, b)
  PROVE  Inv'
<1>1. SignExtend(b) \in Operands
  BY MulDivAssumption, Sized DEF SignExtend
<1>2. PICK imm \in Operands : imm = SignExtend(b)
  BY <1>1
<1>3. /\ TypeOK /\ Done("imul_imm8", place, d, imm, FALSE) /\ alive = TRUE
      /\ UNCHANGED <<size, hi, alive>> /\ lo' = (d * imm) % M
  BY <1>2 DEF Inv, IMulImm8, TypeOK
<1>4. /\ last' \in [op : Ops, place : Places, d : Operands, imm : Operands, hi : Operands,
                    lo : Operands, fault : BOOLEAN]
      /\ last'.op = "imul_imm8" /\ last'.d = d /\ last'.imm = imm /\ last'.fault = FALSE
  BY <1>3, Remembers DEF Ops
<1>5. PICK p \in Int : p = Signed(d) * Signed(imm)
  <2>1. PICK s \in Int, t \in Int : s = Signed(d) /\ t = Signed(imm)
    BY Signs, Sized
  <2> QED BY <2>1
<1>6. lo' = p % M /\ lo' \in Operands
  BY <1>3, <1>5, LowHalf, FitsLow
<1>7. cf' = (size = "word" /\ d * imm >= M) /\ of' = cf'
  BY <1>2 DEF IMulImm8, Flags
<1>8. TypeOK'
  BY <1>3, <1>4, <1>6, <1>7, Typed DEF TypeOK
<1>9. Products'
  <2>1. Signed(last'.d) * Signed(last'.imm) = p /\ size' = size
    BY <1>3, <1>4, <1>5
  <2>2. ~ Negative(d) /\ ~ Negative(imm) => p = d * imm
    BY <1>5, Sized DEF Negative, Signed
  <2>3. size = "word" => (cf' <=> d * imm >= M)
    BY <1>7
  <2> QED BY <1>4, <1>6, <1>7, <2>1, <2>2, <2>3 DEF Products
<1>10. Quotients'
  BY <1>3, <1>4, NoQuotient
<1> QED BY <1>8, <1>9, <1>10 DEF Inv

-----------------------------------------------------------------------------
(* AAD, AAM and the sign extensions.                                       *)

LEMMA AdjustStep ==
  ASSUME Inv, NEW imm \in Operands, AAD(imm) \/ AAM(imm) \/ Extend
  PROVE  Inv'
<1>1. /\ TypeOK /\ alive = TRUE /\ UNCHANGED <<size, cf, of, alive>> /\ "memory" \in Places
  BY DEF Inv, TypeOK, AAD, AAM, Extend, Places
<1>2. PICK m \in Nat \ {0} : m = M /\ Operands = 0 .. m - 1
  BY Sized
<1>3. PICK h \in 0 .. m - 1, l \in 0 .. m - 1 : h = hi /\ l = lo
  BY <1>1, <1>2 DEF TypeOK
<1>4. CASE AAD(imm)
  <2>1. hi' \in Operands /\ lo' \in Operands
    <3>1. PICK x \in Int : x = h * imm + l
      BY <1>2
    <3>2. x % m \in 0 .. m - 1
      OBVIOUS
    <3> QED BY <1>2, <1>3, <1>4, <3>1, <3>2 DEF AAD
  <2>2. /\ last' \in [op : Ops, place : Places, d : Operands, imm : Operands, hi : Operands,
                      lo : Operands, fault : BOOLEAN]
        /\ last'.op = "aad" /\ last'.fault = FALSE
    BY <1>1, <1>4, Zero, Remembers DEF AAD, Ops
  <2> QED
    BY <1>1, <2>1, <2>2, Typed, NoQuotient, NoProduct DEF Inv, TypeOK
<1>5. CASE AAM(imm)
  <2>1. PICK f \in BOOLEAN : f = (imm = 0)
    OBVIOUS
  <2>2. Done("aam", "memory", 0, imm, f)
    BY <1>5, <2>1 DEF AAM
  <2>3. /\ last' \in [op : Ops, place : Places, d : Operands, imm : Operands, hi : Operands,
                      lo : Operands, fault : BOOLEAN]
        /\ last'.op = "aam" /\ last'.fault = f /\ last'.imm = imm
        /\ last'.hi = hi /\ last'.lo = lo
    BY <1>1, <2>2, Zero, Remembers DEF Ops
  <2>4. hi' \in Operands /\ lo' \in Operands
    <3>1. CASE imm = 0
      BY <1>1, <1>5, <3>1 DEF AAM, TypeOK
    <3>2. CASE imm # 0
      <4>1. imm \in Nat \ {0} /\ l \in Nat
        BY <1>2, <3>2
      <4>2. PICK q \in Nat : q = l \div imm
        BY <4>1, Divided
      <4>3. PICK r \in 0 .. imm - 1 : r = l % imm /\ l = imm * q + r
        BY <4>1, <4>2, Divided
      <4>4. imm * q >= q
        <5>1. (imm - 1) * q >= 0
          BY <4>1
        <5> QED BY <4>1, <5>1
      <4>5. q \in 0 .. m - 1 /\ r \in 0 .. m - 1
        BY <1>2, <4>1, <4>3, <4>4
      <4> QED BY <1>2, <1>3, <1>5, <3>2, <4>2, <4>3, <4>5 DEF AAM
    <3> QED BY <3>1, <3>2
  <2>5. Quotients'
    <3>1. f => hi' = hi /\ lo' = lo
      BY <1>5, <2>1 DEF AAM
    <3> QED BY <1>1, <2>1, <2>3, <3>1 DEF Quotients
  <2> QED
    BY <1>1, <2>3, <2>4, <2>5, Typed, NoProduct DEF Inv, TypeOK
<1>6. CASE Extend
  <2>1. hi' \in Operands /\ lo' \in Operands
    BY <1>1, <1>2, <1>6 DEF Extend, TypeOK
  <2>2. /\ last' \in [op : Ops, place : Places, d : Operands, imm : Operands, hi : Operands,
                      lo : Operands, fault : BOOLEAN]
        /\ last'.op = "extend" /\ last'.fault = FALSE
    BY <1>1, <1>6, Zero, Remembers DEF Extend, Ops
  <2> QED
    BY <1>1, <2>1, <2>2, Typed, NoQuotient, NoProduct DEF Inv, TypeOK
<1> QED BY <1>4, <1>5, <1>6

-----------------------------------------------------------------------------
(* Divisions.                                                              *)

\* A quotient is too large exactly if the dividend has as many moduli as the divisor.
LEMMA TooLarge ==
  ASSUME NEW m \in Nat \ {0}, NEW d \in Nat \ {0}, NEW x \in Nat
  PROVE  /\ x \div d > m - 1 <=> x >= m * d
         /\ (x \div d) * d <= x /\ x < ((x \div d) + 1) * d
         /\ x - (x \div d) * d = x % d
<1>1. PICK q \in Nat : q = x \div d
  BY Divided
<1>2. PICK r \in 0 .. d - 1 : r = x % d /\ x = d * q + r
  BY <1>1, Divided
<1>3. q >= m => x >= m * d
  <2>1. q >= m => (q - m) * d >= 0
    OBVIOUS
  <2> QED BY <1>2, <2>1
<1>4. q < m => x < m * d
  <2>1. q < m => (m - q - 1) * d >= 0
    OBVIOUS
  <2> QED BY <1>2, <2>1
<1> QED BY <1>1, <1>2, <1>3, <1>4

LEMMA DivFacts ==
  ASSUME NEW m \in Nat \ {0}, NEW h \in 0 .. m - 1, NEW l \in 0 .. m - 1, NEW d \in 1 .. m - 1
  PROVE  LET x == h * m + l
         IN  /\ x \in Nat
             /\ x \div d > m - 1 <=> h >= d
             /\ d = l => x \div d >= 1
<1>1. PICK x \in Nat : x = h * m + l
  BY Together
<1> d \in Nat \ {0}
  OBVIOUS
<1>2. PICK q \in Nat : q = x \div d
  BY Divided
<1>3. /\ q > m - 1 <=> x >= m * d
      /\ x < (q + 1) * d
  BY <1>2, TooLarge
<1>4. x >= m * d <=> h >= d
  <2>1. h >= d => (h - d) * m >= 0
    OBVIOUS
  <2>2. h < d => (d - h - 1) * m >= 0
    OBVIOUS
  <2> QED BY <1>1, <2>1, <2>2
<1>5. d = l => q >= 1
  <2>1. h * m >= 0
    OBVIOUS
  <2>2. q = 0 => (q + 1) * d = d
    OBVIOUS
  <2> QED BY <1>1, <1>3, <2>1, <2>2
<1> QED BY <1>1, <1>2, <1>3, <1>4, <1>5

\* What DIV computes are numbers.
LEMMA CNumbers ==
  ASSUME NEW x \in Int, NEW d \in Nat \ {0}
  PROVE  Quotient(x, d) \in Int /\ Remainder(x, d) \in Int
<1>1. CASE x < 0
  <2>1. PICK y \in Nat : y = - x
    BY <1>1
  <2>2. PICK q \in Nat, r \in Nat : q = y \div d /\ r = y % d
    <3>1. y \div d \in Nat /\ y % d \in 0 .. d - 1
      BY Divided
    <3> QED BY <3>1
  <2> QED BY <1>1, <2>1, <2>2 DEF Quotient, Remainder
<1>2. CASE x >= 0
  <2>0. x \in Nat
    BY <1>2
  <2>1. x \div d \in Nat /\ x % d \in 0 .. d - 1
    BY <2>0, Divided
  <2> QED BY <1>2, <2>1 DEF Quotient, Remainder
<1> QED BY <1>1, <1>2

LEMMA Dividends ==
  ASSUME TypeOK, NEW l \in Operands
  PROVE  /\ Pair(hi, l) \in 0 .. M * M - 1 /\ Dividend(l) \in Int
         /\ size # "word" \/ hi < Half => Dividend(l) = Pair(hi, l)
<1>1. PICK m \in Nat \ {0} : m = M /\ Operands = 0 .. m - 1
  BY Sized
<1>2. PICK h \in 0 .. m - 1, k \in 0 .. m - 1 : h = hi /\ k = l
  BY <1>1 DEF TypeOK
<1>3. PICK x \in 0 .. m * m - 1 : x = Pair(hi, l) /\ x = h * m + k
  BY <1>1, <1>2, Together DEF Pair
<1>4. WideSigned(x) \in Int
  <2>1. PICK n \in Nat : n = M * M
    BY Squares
  <2> QED BY <2>1 DEF WideSigned
<1>5. hi < Half => x < Half * M
  <2>1. PICK n \in Nat \ {0} : n = Half
    BY Sized
  <2>2. h < n => (n - h - 1) * m >= 0
    OBVIOUS
  <2> QED BY <1>1, <1>2, <1>3, <2>1, <2>2
<1>6. hi < Half => WideSigned(x) = x
  BY <1>5 DEF WideSigned
<1> QED BY <1>1, <1>3, <1>4, <1>6 DEF Dividend

LEMMA DivStep ==
  ASSUME Inv, NEW place \in Places, NEW d \in Read(place), Div(place, d)
  PROVE  Inv'
<1>1. TypeOK /\ alive = TRUE /\ UNCHANGED <<size, cf, of>> /\ d \in Operands
  BY Readable DEF Inv, TypeOK, Div
<1>2. PICK m \in Nat \ {0} : m = M /\ Operands = 0 .. m - 1
  BY Sized
<1>3. PICK h \in 0 .. m - 1, l \in 0 .. m - 1 : h = hi /\ l = lo
  BY <1>1, <1>2 DEF TypeOK
<1>4. PICK x \in Int : x = Dividend(lo)
  BY <1>1, <1>2, <1>3, Dividends
<1>5. Divisible' /\ last'.hi = hi => x = h * m + l
  BY <1>1, <1>2, <1>3, <1>4, Dividends DEF Divisible, Pair
<1> DEFINE q == Quotient(x, d)
           into == q % M
<1>6. CASE /\ d = 0 \/ (d # 0 /\ q > M - 1)
           /\ Done("div", place, d, 0, TRUE)
           /\ UNCHANGED <<hi, lo, alive>>
  <2>1. /\ last' \in [op : Ops, place : Places, d : Operands, imm : Operands, hi : Operands,
                      lo : Operands, fault : BOOLEAN]
        /\ last'.op = "div" /\ last'.d = d /\ last'.hi = hi /\ last'.lo = lo /\ last'.fault = TRUE
    BY <1>1, <1>6, Zero, Remembers DEF Ops
  <2>2. Divisible' => last'.hi >= last'.d
    <3>1. CASE d = 0
      BY <1>2, <1>3, <2>1, <3>1
    <3>2. CASE d # 0 /\ q > M - 1
      <4>1. SUFFICES ASSUME Divisible' PROVE h >= d
        BY <1>3, <2>1
      <4>2. d \in 1 .. m - 1 /\ x = h * m + l /\ x \in Nat
        BY <1>1, <1>2, <1>5, <2>1, <3>2, <4>1, DivFacts
      <4>3. q = x \div d
        BY <4>2 DEF Quotient
      <4> QED BY <1>2, <3>2, <4>2, <4>3, DivFacts
    <3> QED BY <1>6, <3>1, <3>2
  <2>3. Quotients'
    BY <1>1, <1>6, <2>1, <2>2 DEF Quotients
  <2>4. TypeOK'
    BY <1>1, <1>6, <2>1, Typed DEF TypeOK
  <2> QED BY <2>1, <2>3, <2>4, NoProduct DEF Inv
<1>7. CASE /\ d # 0 /\ q <= M - 1
           /\ \E e \in Again(place, d, into) :
                \/ /\ e = 0 /\ alive' = FALSE
                   /\ lo' = into /\ UNCHANGED hi
                \/ /\ e # 0 /\ UNCHANGED alive
                   /\ LET r == Remainder(Dividend(into), e) % M
                      IN  IF size = "byte" THEN lo' = r /\ UNCHANGED hi
                          ELSE lo' = into /\ hi' = r
           /\ Done("div", place, d, 0, FALSE)
  <2>1. /\ last' \in [op : Ops, place : Places, d : Operands, imm : Operands, hi : Operands,
                      lo : Operands, fault : BOOLEAN]
        /\ last'.op = "div" /\ last'.d = d /\ last'.hi = hi /\ last'.lo = lo /\ last'.fault = FALSE
        /\ last'.place = place
    BY <1>1, <1>7, Zero, Remembers DEF Ops
  <2>2. d \in 1 .. m - 1
    BY <1>1, <1>2, <1>7
  <2>3. q \in Int
    BY <2>2, CNumbers
  <2>4. PICK n \in 0 .. m - 1 : n = into
    BY <1>2, <2>3
  <2>5. PICK e \in Operands :
          /\ e \in Again(place, d, into)
          /\ \/ /\ e = 0 /\ alive' = FALSE
                /\ lo' = into /\ UNCHANGED hi
             \/ /\ e # 0 /\ alive' = TRUE
                /\ LET r == Remainder(Dividend(into), e) % M
                   IN  IF size = "byte" THEN lo' = r /\ UNCHANGED hi
                       ELSE lo' = into /\ hi' = r
    <3>1. Again(place, d, into) \subseteq Operands
      BY <1>1, <1>2, <2>4, Sized DEF Again, TypeOK
    <3> QED BY <1>1, <1>7, <3>1
  <2>6. e # 0 => Remainder(Dividend(into), e) % M \in Operands
    <3>1. SUFFICES ASSUME e # 0 PROVE Remainder(Dividend(into), e) % M \in Operands
      OBVIOUS
    <3>2. e \in Nat \ {0} /\ Dividend(into) \in Int
      BY <1>1, <1>2, <2>4, <3>1, Dividends
    <3>3. PICK y \in Int : y = Remainder(Dividend(into), e)
      BY <3>2, CNumbers
    <3>4. y % m \in 0 .. m - 1
      OBVIOUS
    <3> QED BY <1>2, <3>3, <3>4
  <2>7. hi' \in Operands /\ lo' \in Operands /\ alive' \in BOOLEAN
    BY <1>1, <1>2, <2>4, <2>5, <2>6 DEF TypeOK
  <2>8. TypeOK'
    BY <1>1, <2>1, <2>7, Typed DEF TypeOK
  <2>9. ASSUME Divisible'
        PROVE  /\ x = h * m + l /\ x \in Nat /\ q = x \div d
               /\ h < d /\ into = q
               /\ q * d <= x /\ x < (q + 1) * d
               /\ d = lo => into # 0
    <3>1. x = h * m + l /\ x \in Nat
      BY <1>5, <2>1, <2>2, <2>9, DivFacts
    <3>2. q = x \div d
      BY <3>1 DEF Quotient
    <3>3. PICK k \in Nat : k = q
      <4>1. d \in Nat \ {0} /\ x \in Nat
        BY <2>2, <3>1
      <4>2. PICK k \in Int : k = x \div d
        BY <4>1
      <4>3. x \div d \in Nat
        BY <4>1, Divided
      <4> QED BY <3>2, <4>2, <4>3
    <3>4. k <= m - 1 /\ k % m = k
      BY <1>2, <1>7, <3>3
    <3>5. h < d /\ (d = l => k >= 1)
      <4>1. /\ (h * m + l) \div d > m - 1 <=> h >= d
            /\ d = l => (h * m + l) \div d >= 1
        BY <2>2, DivFacts
      <4>2. (h * m + l) \div d = k
        BY <3>1, <3>2, <3>3
      <4> QED BY <2>2, <3>4, <4>1, <4>2
    <3>6. k * d <= x /\ x < (k + 1) * d
      BY <2>2, <3>1, <3>2, <3>3, TooLarge
    <3> QED BY <1>2, <1>3, <3>1, <3>2, <3>3, <3>4, <3>5, <3>6
  <2>10. Divisible' => ~ (last'.hi >= last'.d)
    BY <1>3, <2>1, <2>2, <2>9
  <2>11. size' # "byte" /\ Divisible' => lo' * last'.d <= X' /\ X' < (lo' + 1) * last'.d
    <3>1. X' = h * m + l
      BY <1>2, <1>3, <2>1 DEF X, Pair
    <3>2. size' # "byte" => lo' = into
      BY <1>1, <2>5
    <3> QED BY <2>1, <2>9, <3>1, <3>2
  <2>12. ~ alive' => place = "moved" \/ ~ Divisible'
    <3>1. SUFFICES ASSUME e = 0, Divisible', place # "moved" PROVE FALSE
      BY <2>5
    <3>2. CASE place = "lo"
      BY <2>5, <2>9, <3>1, <3>2 DEF Again, Read
    <3>3. CASE place = "hi"
      BY <2>2, <2>5, <3>1, <3>3 DEF Again, Read
    <3>4. CASE place = "memory"
      BY <2>2, <2>5, <3>1, <3>4 DEF Again
    <3> QED BY <3>1, <3>2, <3>3, <3>4 DEF Places
  <2>13. Quotients'
    BY <2>1, <2>10, <2>11, <2>12 DEF Quotients
  <2> QED BY <2>1, <2>8, <2>13, NoProduct DEF Inv
<1> QED BY <1>4, <1>6, <1>7 DEF Div

\* IDIV: x is the magnitude of the dividend p, by that of the divisor.
IDivides(p, d, x, by, q, n) ==
  /\ x \in 0 .. M * M - 1 /\ by \in 1 .. Half /\ q \in Nat
  /\ Abs(WideSigned(p)) = x /\ Abs(Signed(d)) = by
  /\ q > M - 1 <=> Abs(WideSigned(p)) >= M * Abs(Signed(d))
  /\ Ratio(WideSigned(p), Signed(d)) = IF n THEN - q ELSE q
  /\ x - q * by \in 0 .. by - 1 /\ x - q * by = x % by
  /\ q <= M - 1 => Resign(q, n, M) \in Operands
  /\ q <= M - 1 /\ Fits(IF n THEN - q ELSE q) =>
       /\ Abs(Signed(Resign(q, n, M))) = q
       /\ Signed(Resign(q, n, M)) = IF n THEN - q ELSE q
       /\ Signed(Resign(q, n, M)) * Signed(d) * WideSigned(p) >= 0

LEMMA IDivFacts ==
  ASSUME NEW p \in 0 .. M * M - 1, NEW d \in Operands, d # 0,
         NEW x, x = WideUnsign(p), NEW by, by = Unsign(d),
         NEW q, q = x \div by, NEW n \in BOOLEAN, n = (WideNegative(p) # Negative(d))
  PROVE  IDivides(p, d, x, by, q, n)
<1>1. /\ x \in 0 .. M * M - 1
      /\ WideSigned(p) = IF WideNegative(p) THEN - x ELSE x
  BY WideSigns
<1>2. /\ by \in 1 .. Half
      /\ Signed(d) = IF Negative(d) THEN - by ELSE by
  <2>1. by \in 0 .. Half /\ by # 0
    BY Signs
  <2> QED BY <2>1, Signs, Sized
<1>3. PICK m \in Nat \ {0}, h \in Nat \ {0} : m = M /\ h = Half /\ m = 2 * h /\ Operands = 0 .. m - 1
  BY Sized
<1>4. PICK y \in Nat, b \in Nat \ {0} : y = x /\ b = by /\ b <= h
  <2>1. M * M \in Nat
    BY Squares
  <2> QED BY <1>1, <1>2, <1>3, <2>1
<1>5. PICK k \in Nat : k = q /\ k = y \div b
  BY <1>4, Divided
<1>6. /\ k > m - 1 <=> y >= m * b
      /\ y - k * b = y % b
  BY <1>4, <1>5, TooLarge
<1>7. y - k * b \in 0 .. b - 1
  BY <1>4, <1>6, Divided
<1>8. WideNegative(p) => y > 0
  <2>1. PICK s \in Nat \ {0} : M * M = 4 * s /\ Half * M = 2 * s
    BY Squares, Sized
  <2>2. p \in 0 .. 4 * s - 1
    BY <2>1
  <2> QED BY <1>4, <2>1, <2>2 DEF WideNegative, WideUnsign
<1>9. /\ Abs(WideSigned(p)) = y /\ Abs(Signed(d)) = b
  BY <1>1, <1>2, <1>4 DEF Abs
<1>10. Ratio(WideSigned(p), Signed(d)) = IF n THEN - k ELSE k
  <2>1. Quotient(WideSigned(p), b) = IF WideNegative(p) THEN - k ELSE k
    BY <1>1, <1>4, <1>5, <1>8 DEF Quotient
  <2>2. Ratio(WideSigned(p), Signed(d)) =
          IF Negative(d) THEN - Quotient(WideSigned(p), b) ELSE Quotient(WideSigned(p), b)
    BY <1>2, <1>4 DEF Ratio
  <2>3. - (- k) = k
    OBVIOUS
  <2>4. WideNegative(p) \in BOOLEAN /\ Negative(d) \in BOOLEAN
    BY DEF WideNegative, Negative
  <2> QED BY <2>1, <2>2, <2>3, <2>4
<1>11. k <= m - 1 => Resign(k, n, m) \in 0 .. m - 1
  BY DEF Resign
<1>12. ASSUME k <= m - 1, Fits(IF n THEN - k ELSE k)
       PROVE  /\ Signed(Resign(k, n, m)) = IF n THEN - k ELSE k
              /\ Abs(IF n THEN - k ELSE k) = k
  BY <1>3, <1>12 DEF Resign, Signed, Fits, Abs
<1>13. (IF n THEN - k ELSE k) * Signed(d) * WideSigned(p) = k * b * y
  <2>1. /\ k * b * y = (- k) * (- b) * y /\ k * b * y = (- k) * b * (- y)
        /\ k * b * y = k * (- b) * (- y)
    OBVIOUS
  <2>2. WideNegative(p) \in BOOLEAN /\ Negative(d) \in BOOLEAN
    BY DEF WideNegative, Negative
  <2>3. CASE WideNegative(p) /\ Negative(d)
    <3>1. Signed(d) = - b /\ WideSigned(p) = - y /\ n = FALSE
      BY <1>1, <1>2, <1>4, <2>3
    <3> QED BY <2>1, <3>1
  <2>4. CASE WideNegative(p) /\ ~ Negative(d)
    <3>1. Signed(d) = b /\ WideSigned(p) = - y /\ n = TRUE
      BY <1>1, <1>2, <1>4, <2>2, <2>4
    <3> QED BY <2>1, <3>1
  <2>5. CASE ~ WideNegative(p) /\ Negative(d)
    <3>1. Signed(d) = - b /\ WideSigned(p) = y /\ n = TRUE
      BY <1>1, <1>2, <1>4, <2>2, <2>5
    <3> QED BY <2>1, <3>1
  <2>6. CASE ~ WideNegative(p) /\ ~ Negative(d)
    <3>1. Signed(d) = b /\ WideSigned(p) = y /\ n = FALSE
      BY <1>1, <1>2, <1>4, <2>2, <2>6
    <3> QED BY <3>1
  <2> QED BY <2>2, <2>3, <2>4, <2>5, <2>6
<1>14. k * b * y >= 0
  <2>1. PICK c \in Nat : c = k * b
    OBVIOUS
  <2>2. c * y >= 0
    OBVIOUS
  <2> QED BY <2>1, <2>2
<1> QED
  BY <1>1, <1>2, <1>3, <1>4, <1>5, <1>6, <1>7, <1>9, <1>10, <1>11, <1>12, <1>13, <1>14 DEF IDivides

LEMMA IDivStep ==
  ASSUME Inv, NEW place \in Places, NEW d \in Operands, IDiv(place, d)
  PROVE  Inv'
<1>1. TypeOK /\ alive = TRUE /\ UNCHANGED <<size, cf, of, alive>>
  BY DEF Inv, TypeOK, IDiv
<1>2. PICK m \in Nat \ {0} : m = M /\ Operands = 0 .. m - 1
  BY Sized
<1>3. PICK p \in 0 .. m * m - 1 : p = Pair(hi, lo)
  BY <1>1, <1>2, Together DEF TypeOK, Pair
<1>4. PICK x : x = WideUnsign(p)
  OBVIOUS
<1>5. PICK by : by = Unsign(d)
  OBVIOUS
<1>6. PICK q : q = x \div by
  OBVIOUS
<1>7. PICK n \in BOOLEAN : n = (WideNegative(p) # Negative(d))
  OBVIOUS
<1>8. p \in 0 .. M * M - 1 /\ x \in 0 .. m * m - 1
  <2>1. p \in 0 .. M * M - 1
    BY <1>2, <1>3
  <2> QED BY <1>2, <1>4, <2>1, WideSigns
<1>13. ASSUME d # 0 PROVE IDivides(p, d, x, by, q, n)
  <2> p \in 0 .. M * M - 1 /\ d \in Operands /\ d # 0 /\ n \in BOOLEAN
    BY <1>7, <1>8, <1>13
  <2>1. /\ x = WideUnsign(p) /\ by = Unsign(d) /\ q = x \div by
        /\ n = (WideNegative(p) # Negative(d))
    BY <1>4, <1>5, <1>6, <1>7
  <2> QED BY <2>1, IDivFacts
<1>9. ASSUME NEW f \in BOOLEAN, Done("idiv", place, d, 0, f)
      PROVE  /\ last' \in [op : Ops, place : Places, d : Operands, imm : Operands,
                           hi : Operands, lo : Operands, fault : BOOLEAN]
             /\ last'.op = "idiv" /\ last'.d = d /\ last'.hi = hi /\ last'.lo = lo
             /\ last'.fault = f /\ SX' = WideSigned(p) /\ SD' = Signed(d)
  <2>1. /\ last' \in [op : Ops, place : Places, d : Operands, imm : Operands,
                      hi : Operands, lo : Operands, fault : BOOLEAN]
        /\ last'.op = "idiv" /\ last'.d = d /\ last'.hi = hi /\ last'.lo = lo
        /\ last'.fault = f
    BY <1>1, <1>9, Zero, Remembers DEF Ops
  <2>2. X' = p
    BY <1>3, <2>1 DEF X, Pair
  <2> QED BY <2>1, <2>2 DEF SX, SD
<1>10. CASE d = 0 /\ Done("idiv", place, d, 0, TRUE) /\ UNCHANGED <<hi, lo>>
  <2>1. last'.fault /\ Abs(SX') >= M * Abs(SD')
    <3>1. Signed(0) = 0 /\ Abs(0) = 0
      BY Sized DEF Signed, Abs
    <3>2. WideSigned(p) \in Int
      BY <1>2, Squares DEF WideSigned
    <3>3. Abs(WideSigned(p)) >= 0 /\ m * 0 = 0
      BY <3>2 DEF Abs
    <3> QED BY <1>2, <1>9, <1>10, <3>1, <3>3
  <2>2. Quotients'
    BY <1>1, <1>9, <1>10, <2>1 DEF Quotients
  <2>3. TypeOK'
    BY <1>1, <1>9, <1>10, Typed DEF TypeOK
  <2> QED BY <1>9, <1>10, <2>2, <2>3, NoProduct DEF Inv
<1>11. CASE /\ d # 0 /\ q > M - 1
            /\ Done("idiv", place, d, 0, TRUE)
            /\ IF size = "byte" THEN hi' = x \div M /\ lo' = x % M ELSE UNCHANGED <<hi, lo>>
  <2>1. Abs(SX') >= M * Abs(SD')
    BY <1>9, <1>11, <1>13 DEF IDivides
  <2>2. hi' \in Operands /\ lo' \in Operands
    <3>1. x \div m \in 0 .. m - 1 /\ x % m \in 0 .. m - 1
      BY <1>2, <1>8, Apart
    <3> QED BY <1>1, <1>2, <1>11, <3>1 DEF TypeOK
  <2>3. last'.fault
    BY <1>9, <1>11
  <2>4. size' # "byte" => hi' = hi /\ lo' = lo
    BY <1>1, <1>11
  <2>5. Quotients'
    BY <1>1, <1>9, <1>11, <2>1, <2>3, <2>4 DEF Quotients
  <2>6. TypeOK'
    BY <1>1, <1>9, <1>11, <2>2, Typed DEF TypeOK
  <2> QED BY <1>9, <1>11, <2>5, <2>6, NoProduct DEF Inv
<1>12. CASE /\ d # 0 /\ q <= M - 1
            /\ hi' = (IF size = "byte" THEN Pair(x \div M, q) ELSE x) % by
            /\ lo' = Resign(q, n, M)
            /\ Done("idiv", place, d, 0, FALSE)
  <2>1. /\ by \in 1 .. Half /\ q \in Nat /\ lo' \in Operands
        /\ ~ (Abs(SX') >= M * Abs(SD'))
    <3>1. /\ by \in 1 .. Half /\ q \in Nat /\ Resign(q, n, M) \in Operands
          /\ q > M - 1 <=> Abs(WideSigned(p)) >= M * Abs(Signed(d))
      BY <1>12, <1>13 DEF IDivides
    <3>2. PICK k \in Nat : k = q
      BY <3>1
    <3>3. ~ (Abs(WideSigned(p)) >= M * Abs(Signed(d)))
      <4>1. k <= M - 1
        BY <1>12, <3>2
      <4>2. ~ (k > M - 1)
        BY <4>1, Sized
      <4> QED BY <3>1, <3>2, <4>2
    <3> QED BY <1>9, <1>12, <3>1, <3>3
  <2>2. hi' \in Operands
    <3>1. (IF size = "byte" THEN Pair(x \div M, q) ELSE x) \in Nat
      <4> m \in Nat \ {0} /\ x \in 0 .. m * m - 1
        BY <1>8
      <4>1. PICK t \in Nat : t = x \div m
        <5>1. x \div m \in 0 .. m - 1
          BY Apart
        <5> QED BY <5>1
      <4>2. PICK k \in Nat : k = q
        BY <2>1
      <4>3. t * m + k \in Nat
        OBVIOUS
      <4>4. Pair(x \div M, q) \in Nat
        BY <1>2, <4>1, <4>2, <4>3 DEF Pair
      <4> QED BY <1>8, <4>4
    <3>2. PICK z \in Nat : z = (IF size = "byte" THEN Pair(x \div M, q) ELSE x)
      BY <3>1
    <3>3. PICK b \in Nat \ {0} : b = by /\ b <= Half
      BY <2>1, Sized
    <3>4. z % b \in 0 .. b - 1
      BY Divided
    <3> QED BY <1>12, <3>2, <3>3, <3>4, Sized
  <2>3. Fits(Ratio(SX', SD')) =>
          /\ Abs(SX') - Abs(Signed(lo')) * Abs(SD') \in 0 .. Abs(SD') - 1
          /\ Signed(lo') * SD' * SX' >= 0
          /\ size' # "byte" => hi' = Abs(SX') - Abs(Signed(lo')) * Abs(SD')
    <3>1. SUFFICES ASSUME Fits(Ratio(WideSigned(p), Signed(d)))
                   PROVE  /\ x - q * by \in 0 .. by - 1
                          /\ Abs(Signed(lo')) = q
                          /\ Signed(lo') * Signed(d) * WideSigned(p) >= 0
                          /\ Abs(WideSigned(p)) = x /\ Abs(Signed(d)) = by
                          /\ size # "byte" => hi' = x - q * by
      BY <1>1, <1>9, <1>12
    <3>2. Fits(IF n THEN - q ELSE q)
      BY <1>12, <1>13, <3>1 DEF IDivides
    <3>3. /\ x - q * by \in 0 .. by - 1 /\ x - q * by = x % by
          /\ Abs(Signed(Resign(q, n, M))) = q
          /\ Signed(Resign(q, n, M)) * Signed(d) * WideSigned(p) >= 0
          /\ Abs(WideSigned(p)) = x /\ Abs(Signed(d)) = by
      BY <1>12, <1>13, <3>2 DEF IDivides
    <3> QED BY <1>12, <3>3
  <2>4. Quotients'
    BY <1>1, <1>9, <1>12, <2>1, <2>3 DEF Quotients
  <2>5. TypeOK'
    BY <1>1, <1>9, <1>12, <2>1, <2>2, Typed DEF TypeOK
  <2> QED BY <1>9, <1>12, <2>4, <2>5, NoProduct DEF Inv
<1> QED BY <1>3, <1>4, <1>5, <1>6, <1>7, <1>10, <1>11, <1>12 DEF IDiv

-----------------------------------------------------------------------------
(* Inverse instructions.                                                   *)

\* What the accumulator still holds of the operands of an extension and of AAM.
Kept ==
  /\ last.op = "extend" => lo = last.lo /\ hi = IF Negative(lo) THEN M - 1 ELSE 0
  /\ last.op = "aam" /\ ~ last.fault => hi * last.imm + lo = last.lo

LEMMA KeptStep == TypeOK /\ Kept /\ [Next]_vars => Kept'
<1> SUFFICES ASSUME TypeOK, Kept, [Next]_vars PROVE Kept'
  OBVIOUS
<1>1. CASE UNCHANGED vars
  BY <1>1 DEF vars, Kept
<1>2. ASSUME NEW place, NEW d,
             \/ Mul(place, d) \/ IMul(place, d) \/ Div(place, d) \/ IDiv(place, d)
             \/ \E imm \in Values : IMulImm(place, d, imm)
             \/ \E b \in Values : b < 2 * ImmHalf /\ IMulImm8(place, d, b)
      PROVE  Kept'
  <2>1. last'.op \in {"mul", "imul", "div", "idiv", "imul_immW", "imul_imm8"}
    BY <1>2 DEF Mul, IMul, Div, IDiv, IMulImm, IMulImm8, Done
  <2> QED BY <2>1 DEF Kept
<1>3. ASSUME NEW imm \in Values, AAD(imm) PROVE Kept'
  <2>1. last'.op = "aad"
    BY <1>3 DEF AAD, Done
  <2> QED BY <2>1 DEF Kept
<1>4. ASSUME NEW imm \in Values, AAM(imm) PROVE Kept'
  <2>1. last'.op = "aam" /\ last'.imm = imm /\ last'.lo = lo
    BY <1>4 DEF AAM, Done
  <2>2. SUFFICES ASSUME ~ last'.fault PROVE hi' * imm + lo' = lo
    BY <2>1 DEF Kept
  <2>3. imm # 0 /\ hi' = lo \div imm /\ lo' = lo % imm
    BY <1>4, <2>2 DEF AAM, Done
  <2>4. imm \in Nat \ {0} /\ lo \in Nat
    BY <2>3, Sized DEF TypeOK
  <2>5. PICK q \in Nat : q = lo \div imm
    BY <2>4, Divided
  <2>6. PICK r \in 0 .. imm - 1 : r = lo % imm
    BY <2>4, Divided
  <2>7. lo = imm * q + r
    BY <2>4, <2>5, <2>6, Divided
  <2> QED BY <2>3, <2>4, <2>5, <2>6, <2>7
<1>5. CASE Extend
  <2>1. last'.op = "extend" /\ last'.lo = lo
    BY <1>5 DEF Extend, Done
  <2> QED BY <1>5, <2>1 DEF Extend, Kept
<1> QED BY <1>1, <1>2, <1>3, <1>4, <1>5 DEF Next

\* The operand and the outcome of a division step.
LEMMA IsDiv ==
  ASSUME TypeOK, Next, last'.op = "div"
  PROVE  \E place \in Places : \E d \in Operands : Div(place, d) /\ last'.d = d
<1>1. PICK place \in Places : \E d \in Read(place) : Div(place, d)
  BY DEF Next, Mul, IMul, IDiv, IMulImm, IMulImm8, AAD, AAM, Extend, Done
<1>2. PICK d \in Read(place) : Div(place, d)
  BY <1>1
<1>3. \E fault \in BOOLEAN : Done("div", place, d, 0, fault)
  BY <1>2 DEF Div
<1>4. last'.d = d
  BY <1>3 DEF Done
<1> QED BY <1>2, <1>4, Readable

LEMMA IsIDiv ==
  ASSUME TypeOK, Next, last'.op = "idiv"
  PROVE  \E place \in Places : \E d \in Operands : IDiv(place, d) /\ last'.d = d
<1>1. PICK place \in Places : \E d \in Read(place) : IDiv(place, d)
  BY DEF Next, Mul, IMul, Div, IMulImm, IMulImm8, AAD, AAM, Extend, Done
<1>2. PICK d \in Read(place) : IDiv(place, d)
  BY <1>1
<1>3. \E fault \in BOOLEAN : Done("idiv", place, d, 0, fault)
  BY <1>2 DEF IDiv
<1>4. last'.d = d
  BY <1>3 DEF Done
<1> QED BY <1>2, <1>4, Readable

LEMMA MulUndoneStep ==
  ASSUME Inv, Next
  PROVE  MulUndone
<1> SUFFICES ASSUME last.op = "mul", last'.op = "div", last'.d = last.d, last.d # 0,
                    size # "byte", size = "word" => hi < Half
             PROVE  ~ last'.fault /\ lo' = last.lo
  BY DEF MulUndone
<1>1. PICK place \in Places, d \in Operands : Div(place, d) /\ last'.d = d
  BY IsDiv DEF Inv
<1>2. PICK m \in Nat \ {0} : m = M /\ Operands = 0 .. m - 1
  BY Sized
<1>3. PICK f \in 0 .. m - 1 : f = last.lo
  BY <1>2 DEF Inv, TypeOK
<1>4. Dividend(lo) = f * d
  <2>1. Pair(hi, lo) = f * d
    BY <1>1, <1>3 DEF Inv, Products
  <2> QED BY <2>1, Dividends DEF Inv, TypeOK
<1>5. Quotient(Dividend(lo), d) = f
  <2>1. d \in Nat \ {0}
    BY <1>1, <1>2
  <2>2. PICK x \in Nat : x = f * d
    BY <2>1
  <2>3. (d * f + 0) \div d = f
    BY <2>1, Unique
  <2>4. x = d * f + 0
    BY <2>1, <2>2
  <2>5. x \div d = f
    BY <2>3, <2>4
  <2> QED BY <1>4, <2>2, <2>5 DEF Quotient
<1>6. ~ (f > M - 1) /\ f % M = f
  BY <1>2
<1>7. lo' = f /\ Done("div", place, d, 0, FALSE)
  BY <1>1, <1>5, <1>6 DEF Div
<1>8. last'.fault = FALSE
  BY <1>7 DEF Done
<1> QED BY <1>3, <1>7, <1>8

LEMMA AamUndoneStep ==
  ASSUME Inv, Kept, Next
  PROVE  AamUndone
<1> SUFFICES ASSUME last.op = "aam", ~ last.fault, last'.op = "aad", last'.imm = last.imm
             PROVE  lo' = last.lo /\ hi' = 0
  BY DEF AamUndone
<1>1. PICK imm \in Values : AAD(imm)
  BY DEF Next, Mul, IMul, Div, IDiv, IMulImm, IMulImm8, AAM, Extend, Done
<1>2. last.imm = imm
  BY <1>1 DEF AAD, Done
<1>3. lo' = (hi * imm + lo) % M /\ hi' = 0
  BY <1>1 DEF AAD
<1>4. hi * imm + lo = last.lo
  BY <1>2 DEF Kept
<1>5. last.lo % M = last.lo
  <2>1. PICK m \in Nat \ {0} : m = M /\ Operands = 0 .. m - 1
    BY Sized
  <2>2. PICK x \in 0 .. m - 1 : x = last.lo
    BY <2>1 DEF Inv, TypeOK
  <2>3. x % m = x
    OBVIOUS
  <2> QED BY <2>1, <2>2, <2>3
<1> QED BY <1>3, <1>4, <1>5

\* An IDIV whose quotient fits an operand: no fault, and what it leaves.
LEMMA IDivided ==
  ASSUME NEW place \in Places, NEW d \in Operands, IDiv(place, d), d # 0,
         NEW q \in Nat, q = WideUnsign(Pair(hi, lo)) \div Unsign(d), q <= M - 1
  PROVE  /\ last'.fault = FALSE
         /\ lo' = Resign(q, WideNegative(Pair(hi, lo)) # Negative(d), M)
         /\ size # "byte" => hi' = WideUnsign(Pair(hi, lo)) % Unsign(d)
<1>1. ~ (q > M - 1)
  BY Sized
<1> QED BY <1>1 DEF IDiv, Done

LEMMA IMulUndoneStep ==
  ASSUME Inv, Next
  PROVE  IMulUndone
<1> SUFFICES ASSUME last.op = "imul", last'.op = "idiv", last'.d = last.d, last.d # 0
             PROVE  ~ last'.fault /\ lo' = last.lo /\ (size # "byte" => hi' = 0)
  BY DEF IMulUndone
<1>1. PICK place \in Places, d \in Operands : IDiv(place, d) /\ last'.d = d
  BY IsIDiv DEF Inv
<1>2. PICK f \in Operands : f = last.lo
  BY DEF Inv, TypeOK
<1>3. PICK m \in Nat \ {0}, h \in Nat \ {0} : m = M /\ h = Half /\ m = 2 * h /\ Operands = 0 .. m - 1
  BY Sized
<1>4. PICK p \in 0 .. M * M - 1 : p = Pair(hi, lo)
  BY <1>3, Together DEF Inv, TypeOK, Pair
<1>5. PICK u \in 0 .. h : u = Unsign(f)
  BY <1>2, <1>3, Signs
<1>6. PICK b \in 1 .. h : b = Unsign(d)
  BY <1>1, <1>3, Signs
<1>7. PICK x \in Nat : x = u * b
  BY <1>5, <1>6
<1>8. PICK n \in BOOLEAN : n = (Negative(f) # Negative(d))
  OBVIOUS
<1>9. WideSigned(p) = IF n THEN - x ELSE x
  <2>1. WideSigned(p) = Signed(f) * Signed(d)
    BY <1>1, <1>2, <1>4 DEF Inv, Products
  <2>2. Signed(f) * Signed(d) = IF n THEN - x ELSE x
    BY <1>5, <1>6, <1>7, <1>8, SignRule
  <2> QED BY <2>1, <2>2
<1>10. PICK y \in Nat : y = WideUnsign(p)
  <2>1. PICK s \in Nat : s = Half * M
    BY Sized
  <2> QED BY <2>1, WideSigns
<1>11. PICK w \in BOOLEAN : w = WideNegative(p)
  <2>1. WideNegative(p) \in BOOLEAN
    BY DEF WideNegative
  <2> QED BY <2>1
<1>12. WideSigned(p) = IF w THEN - y ELSE y
  BY <1>10, <1>11, WideSigns
<1>13. y = x
  BY <1>9, <1>12
<1>14. x \div b = u /\ x % b = 0
  <2>1. (b * u + 0) \div b = u /\ (b * u + 0) % b = 0
    BY Unique
  <2>2. b * u + 0 = x
    BY <1>7
  <2> QED BY <2>1, <2>2
<1>15. /\ last'.fault = FALSE /\ lo' = Resign(u, w # Negative(d), m)
       /\ size # "byte" => hi' = 0
  <2>1. u = WideUnsign(Pair(hi, lo)) \div Unsign(d)
    BY <1>4, <1>6, <1>10, <1>13, <1>14
  <2>2. u \in Nat /\ u <= M - 1
    BY <1>3
  <2>3. /\ last'.fault = FALSE
        /\ lo' = Resign(u, WideNegative(Pair(hi, lo)) # Negative(d), M)
        /\ size # "byte" => hi' = WideUnsign(Pair(hi, lo)) % Unsign(d)
    BY <1>1, <2>1, <2>2, IDivided
  <2> QED BY <1>3, <1>4, <1>6, <1>10, <1>11, <1>13, <1>14, <2>3
<1>16. Resign(u, w # Negative(d), m) = f
  <2>1. CASE u = 0
    <3>1. f = 0
      BY <1>2, <1>5, <2>1, Signs
    <3> QED BY <2>1, <3>1 DEF Resign
  <2>2. CASE u # 0
    <3>1. x > 0
      <4>1. (u - 1) * b >= 0
        BY <2>2
      <4> QED BY <1>7, <4>1
    <3>2. w <=> n
      BY <1>9, <1>12, <1>13, <3>1
    <3>3. Negative(d) \in BOOLEAN /\ Negative(f) \in BOOLEAN /\ f \in 0 .. m - 1
      BY <1>2, <1>3 DEF Negative
    <3>4. (w # Negative(d)) = Negative(f)
      BY <1>8, <3>2, <3>3
    <3>5. u = IF Negative(f) THEN m - f ELSE f
      BY <1>3, <1>5 DEF Unsign
    <3>6. (IF Negative(f) THEN m - u ELSE u) = f
      BY <3>3, <3>5
    <3> QED BY <2>2, <3>4, <3>6 DEF Resign
  <2> QED BY <2>1, <2>2
<1> QED BY <1>2, <1>15, <1>16

\* The wide number an extension has made is the operand.
LEMMA SameNumber ==
  ASSUME NEW l \in Operands
  PROVE  LET p == Pair(IF Negative(l) THEN M - 1 ELSE 0, l)
         IN  p \in 0 .. M * M - 1 /\ WideSigned(p) = Signed(l)
<1>1. PICK m \in Nat \ {0}, h \in Nat \ {0} : m = M /\ h = Half /\ m = 2 * h /\ l \in 0 .. m - 1
  BY Sized
<1>2. PICK s \in Nat \ {0} : s = h * h
  OBVIOUS
<1>3. Half * M = 2 * s /\ M * M = 4 * s /\ s >= h /\ (M - 1) * M = 4 * s - m
  <2>1. h * h >= h
    OBVIOUS
  <2>2. (m - 1) * m = m * m - m /\ m * m = 4 * (h * h) /\ h * m = 2 * (h * h)
    BY <1>1
  <2> QED BY <1>1, <1>2, <2>1, <2>2
<1>4. CASE Negative(l)
  <2>1. l >= h
    BY <1>1, <1>4 DEF Negative
  <2>2. PICK p \in Int : p = 4 * s - m + l /\ p = Pair(IF Negative(l) THEN M - 1 ELSE 0, l)
    BY <1>1, <1>3, <1>4 DEF Pair
  <2>3. p \in 0 .. 4 * s - 1 /\ ~ (p < 2 * s) /\ p - 4 * s = l - m
    BY <1>1, <1>3, <2>1, <2>2
  <2> QED BY <1>1, <1>3, <2>1, <2>2, <2>3 DEF WideSigned, Signed
<1>5. CASE ~ Negative(l)
  <2>1. l < h
    BY <1>1, <1>5 DEF Negative
  <2>2. 0 * M + l = l
    BY <1>1
  <2>3. l = Pair(IF Negative(l) THEN M - 1 ELSE 0, l)
    BY <1>5, <2>2 DEF Pair
  <2>4. l \in 0 .. 4 * s - 1 /\ l < 2 * s
    BY <1>1, <1>3, <2>1
  <2> QED BY <1>1, <1>3, <2>1, <2>3, <2>4 DEF WideSigned, Signed
<1> QED BY <1>4, <1>5

LEMMA ExtendedStep ==
  ASSUME Inv, Kept, Next
  PROVE  Extended
<1> SUFFICES ASSUME last.op = "extend", last'.op = "idiv", last'.d # 0
             PROVE  /\ ~ last'.fault
                    /\ Signed(lo') =
                         IF Signed(last.lo) = - Half /\ Signed(last'.d) = -1 THEN - Half
                         ELSE Ratio(Signed(last.lo), Signed(last'.d))
  BY DEF Extended
<1>1. PICK place \in Places, d \in Operands : IDiv(place, d) /\ last'.d = d
  BY IsIDiv DEF Inv
<1>2. PICK l \in Operands : l = lo /\ l = last.lo
  BY DEF Inv, TypeOK, Kept
<1>3. PICK p \in 0 .. M * M - 1 : p = Pair(hi, lo) /\ WideSigned(p) = Signed(l)
  <2>1. hi = IF Negative(l) THEN M - 1 ELSE 0
    BY <1>2 DEF Kept
  <2> QED BY <1>2, <2>1, SameNumber
<1>4. PICK h \in Nat \ {0} : h = Half /\ M = 2 * h
  BY Sized
<1>5. PICK k \in Int, e \in Int : k = Signed(l) /\ e = Signed(d) /\ - h <= k /\ k <= h - 1
  <2>1. Signed(l) \in - Half .. Half - 1 /\ Signed(d) \in - Half .. Half - 1
    BY Signs
  <2> QED BY <1>4, <2>1
<1>6. PICK x : x = WideUnsign(p)
  OBVIOUS
<1>7. PICK by : by = Unsign(d)
  OBVIOUS
<1>8. PICK q : q = x \div by
  OBVIOUS
<1>9. PICK n \in BOOLEAN : n = (WideNegative(p) # Negative(d))
  OBVIOUS
<1>10. IDivides(p, d, x, by, q, n)
  BY <1>1, <1>6, <1>7, <1>8, <1>9, IDivFacts
<1>11. PICK y \in Nat, b \in Nat \ {0}, g \in Nat :
         y = x /\ b = by /\ g = q /\ y = Abs(k) /\ b = Abs(e) /\ y - g * b \in 0 .. b - 1
  <2>1. PICK s \in Nat : s = M * M
    BY Squares
  <2> QED BY <1>3, <1>4, <1>5, <1>10, <2>1 DEF IDivides
<1>12. y <= h /\ (y = h => k = - h)
  BY <1>5, <1>11 DEF Abs
<1>13. g <= y /\ (g = h => y = h /\ b = 1)
  <2>1. g * b <= y
    BY <1>11
  <2>2. g * (b - 1) >= 0 /\ (g >= 1 /\ b >= 2 => (g - 1) * (b - 2) >= 0)
    BY <1>11
  <2>3. g * b >= g /\ (g >= 1 /\ b >= 2 => g * b >= 2 * g + b - 2)
    BY <2>2
  <2>4. PICK t \in Nat : t = g * b
    BY <1>11
  <2> QED BY <1>4, <1>11, <1>12, <2>1, <2>3, <2>4
<1>14. g <= M - 1
  BY <1>4, <1>12, <1>13
<1>15. last'.fault = FALSE /\ lo' = Resign(g, n, M)
  BY <1>1, <1>3, <1>6, <1>7, <1>8, <1>9, <1>11, <1>14, IDivided
<1>16. Ratio(k, e) = IF n THEN - g ELSE g
  BY <1>3, <1>5, <1>10, <1>11 DEF IDivides
<1>17. CASE Fits(IF n THEN - g ELSE g)
  <2>1. Signed(lo') = IF n THEN - g ELSE g
    BY <1>10, <1>11, <1>14, <1>15, <1>17 DEF IDivides
  <2>2. ~ (k = - h /\ e = -1)
    <3>1. SUFFICES ASSUME k = - h, e = -1 PROVE FALSE
      OBVIOUS
    <3>2. Ratio(k, e) = h
      BY <1>4, <3>1 DEF Ratio, Quotient
    <3>3. ~ Fits(h)
      BY <1>4 DEF Fits
    <3> QED BY <1>16, <1>17, <3>2, <3>3
  <2> QED BY <1>1, <1>2, <1>4, <1>5, <1>15, <1>16, <2>1, <2>2
<1>18. CASE ~ Fits(IF n THEN - g ELSE g)
  <2>1. n = FALSE /\ g = h
    BY <1>4, <1>12, <1>13, <1>18 DEF Fits
  <2>2. k = - h /\ b = 1
    BY <1>12, <1>13, <2>1
  <2>3. WideNegative(p)
    <3>1. PICK s \in Nat \ {0} : M * M = 4 * s /\ Half * M = 2 * s
      BY Squares, Sized
    <3>2. p \in 0 .. 4 * s - 1 /\ WideSigned(p) < 0
      BY <1>3, <1>5, <2>2, <3>1
    <3> QED BY <3>1, <3>2 DEF WideSigned, WideNegative
  <2>4. Negative(d)
    BY <1>9, <2>1, <2>3
  <2>5. e = -1
    <3>1. e < 0
      BY <1>4, <1>5, <2>4, Sized DEF Signed, Negative
    <3> QED BY <1>11, <2>2, <3>1 DEF Abs
  <2>6. Signed(lo') = - h
    BY <1>4, <1>15, <2>1 DEF Resign, Signed
  <2> QED BY <1>1, <1>2, <1>4, <1>5, <1>15, <2>2, <2>5, <2>6
<1> QED BY <1>17, <1>18

-----------------------------------------------------------------------------
(* The theorems.                                                           *)

LEMMA InitInv == Init => Inv
<1> SUFFICES ASSUME Init PROVE Inv
  OBVIOUS
<1>1. last.op = "none" /\ ~ last.fault /\ alive = TRUE
  BY DEF Init, Nothing
<1>2. TypeOK
  BY Zero DEF Init, Nothing, TypeOK, Places
<1>3. Products
  BY <1>1 DEF Products
<1>4. Quotients
  BY <1>1 DEF Quotients
<1> QED BY <1>2, <1>3, <1>4 DEF Inv

LEMMA NextInv == Inv /\ [Next]_vars => Inv'
<1> SUFFICES ASSUME Inv, [Next]_vars PROVE Inv'
  OBVIOUS
<1>1. CASE UNCHANGED vars
  BY <1>1 DEF vars, Inv, TypeOK, Products, Quotients, X, SX, SD, Divisible
<1>2. ASSUME NEW place \in Places, NEW d \in Read(place),
             \/ Mul(place, d) \/ IMul(place, d) \/ Div(place, d) \/ IDiv(place, d)
             \/ \E imm \in Values : IMulImm(place, d, imm)
             \/ \E b \in Values : b < 2 * ImmHalf /\ IMulImm8(place, d, b)
      PROVE  Inv'
  <2>1. d \in Operands
    BY <1>2, Readable DEF Inv
  <2> QED
    BY <1>2, <2>1, Sized, MulStep, IMulStep, DivStep, IDivStep, IMulImmStep, IMulImm8Step
<1>3. ASSUME NEW imm \in Values, AAD(imm) \/ AAM(imm) PROVE Inv'
  BY <1>3, Sized, AdjustStep
<1>4. CASE Extend
  BY <1>4, Zero, AdjustStep
<1> QED BY <1>1, <1>2, <1>3, <1>4 DEF Next

LEMMA Invariant == Spec => []Inv
BY InitInv, NextInv, PTL DEF Spec

\* Every half of the accumulator stays an operand.
THEOREM MulDivTypeCorrect == Spec => []TypeOK
<1>1. Inv => TypeOK
  BY DEF Inv
<1> QED BY <1>1, Invariant, PTL

\* Multiplications are exact for operands of every size, with the flags as far as the code
\* has them right.
THEOREM ProductsExact == Spec => []Products
<1>1. Inv => Products
  BY DEF Inv
<1> QED BY <1>1, Invariant, PTL

\* Divisions raise their fault, and leave quotient and remainder, as said in Quotients.
THEOREM QuotientsExact == Spec => []Quotients
<1>1. Inv => Quotients
  BY DEF Inv
<1> QED BY <1>1, Invariant, PTL

\* A division by the operand of a multiplication gives back its other factor, IDIV of a number
\* just extended its quotient, and AAD what AAM has taken apart.
THEOREM DivisionUndoes == Spec => Undone
<1>1. Init => Kept
  BY DEF Init, Nothing, Kept
<1>2. Inv => TypeOK
  BY DEF Inv
<1>3. Inv /\ Kept /\ [Next]_vars =>
        [MulUndone /\ IMulUndone /\ Extended /\ AamUndone]_vars
  BY MulUndoneStep, IMulUndoneStep, ExtendedStep, AamUndoneStep
<1> QED BY <1>1, <1>2, <1>3, KeptStep, Invariant, PTL DEF Spec, Undone

=============================================================================
