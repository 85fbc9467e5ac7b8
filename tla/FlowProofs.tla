----------------------------- MODULE FlowProofs -----------------------------
(***************************************************************************)
(* Theorems about Flow, for programs, memories and stacks of every size:   *)
(* the types, what is on the stack stays there, pops match pushes, and     *)
(* jumps land where they should.                                           *)
(***************************************************************************)
EXTENDS Flow, SequenceTheorems, WellFoundedInduction, TLAPS

-----------------------------------------------------------------------------
(* Remainders                                                              *)

LEMMA Remainder ==
  ASSUME NEW d \in Nat \ {0}, NEW x \in Int
  PROVE  /\ x % d \in 0 .. d - 1 /\ x \div d \in Int
         /\ x = d * (x \div d) + (x % d)
OBVIOUS

\* The remainder is the only one, and so is the quotient.
LEMMA Unique ==
  ASSUME NEW d \in Nat \ {0}, NEW q \in Int, NEW r \in 0 .. d - 1
  PROVE  (d * q + r) % d = r /\ (d * q + r) \div d = q
<1>1. PICK x \in Int : x = d * q + r
  OBVIOUS
<1>2. PICK p \in Int : p = x \div d
  OBVIOUS
<1>3. PICK s \in 0 .. d - 1 : s = x % d
  BY Remainder
<1>4. x = d * p + s
  BY <1>2, <1>3, Remainder
<1>5. d * (p - q) = r - s
  BY <1>1, <1>4
<1>6. PICK k \in Int : k = p - q
  OBVIOUS
<1>7. k >= 1 => d * k >= d
  OBVIOUS
<1>8. k <= -1 => d * k <= - d
  OBVIOUS
<1>9. k = 0
  BY <1>5, <1>6, <1>7, <1>8
<1>10. p = q
  BY <1>6, <1>9
<1>11. s = r
  BY <1>1, <1>4, <1>10
<1> QED
  BY <1>1, <1>2, <1>3, <1>10, <1>11

LEMMA SmallStays ==
  ASSUME NEW d \in Nat \ {0}, NEW r \in 0 .. d - 1
  PROVE  r % d = r
<1>1. (d * 0 + r) % d = r
  BY Unique
<1> QED
  BY <1>1

\* A remainder may be taken before an addition.
LEMMA TakenBefore ==
  ASSUME NEW d \in Nat \ {0}, NEW x \in Int, NEW y \in Int
  PROVE  ((x % d) + y) % d = (x + y) % d
<1>1. PICK q \in Int : q = x \div d
  OBVIOUS
<1>2. PICK r \in 0 .. d - 1 : r = x % d
  BY Remainder
<1>3. x = d * q + r
  BY <1>1, <1>2, Remainder
<1>4. PICK z \in Int : z = r + y
  OBVIOUS
<1>5. PICK p \in Int : p = z \div d
  OBVIOUS
<1>6. PICK s \in 0 .. d - 1 : s = z % d
  BY Remainder
<1>7. z = d * p + s
  BY <1>5, <1>6, Remainder
<1>8. PICK t \in Int : t = q + p
  OBVIOUS
<1>9. x + y = d * t + s
  BY <1>3, <1>4, <1>7, <1>8
<1>10. (x + y) % d = s
  BY <1>9, Unique
<1> QED
  BY <1>2, <1>4, <1>6, <1>10

\* Equal remainders stay equal.
LEMMA SameAfter ==
  ASSUME NEW d \in Nat \ {0}, NEW x \in Int, NEW y \in Int, NEW z \in Int, x % d = y % d
  PROVE  (x + z) % d = (y + z) % d
<1>1. ((x % d) + z) % d = (x + z) % d /\ ((y % d) + z) % d = (y + z) % d
  BY TakenBefore
<1> QED
  BY <1>1, Zenon

LEMMA Constants ==
  /\ ByteMod \in Nat \ {0} /\ Half \in Nat \ {0} /\ Dwords \in Nat \ {0}
  /\ 4 <= ByteMod /\ 16 <= Half /\ 2 * Half <= Dwords
  /\ Half = ByteMod * ByteMod /\ Dwords = Half * Half
<1>1. ByteMod \in Nat /\ 4 <= ByteMod
  BY FlowAssumption
<1>2. PICK e \in Nat : e = ByteMod - 4
  BY <1>1
<1>3. Half \in Nat /\ 16 <= Half
  <2>1. ByteMod = 4 + e
    BY <1>1, <1>2
  <2>2. (4 + e) * (4 + e) = 16 + 8 * e + e * e /\ e * e >= 0
    OBVIOUS
  <2> QED
    BY <2>1, <2>2 DEF Half
<1>4. PICK h \in Nat : h = Half
  BY <1>3
<1>5. (h - 2) * h >= 0
  BY <1>3, <1>4
<1>6. h * h >= 2 * h /\ h * h \in Nat
  BY <1>5
<1> QED
  BY <1>1, <1>3, <1>4, <1>6 DEF Half, Dwords

\* The remainder modulo Half does not depend on multiples of Dwords.
LEMMA LowOfDword ==
  ASSUME NEW x \in Int
  PROVE  (x % Dwords) % Half = x % Half
<1> USE Constants
<1>1. PICK h \in Nat \ {0} : h = Half
  OBVIOUS
<1>2. PICK q \in Int : q = x \div Dwords
  OBVIOUS
<1>3. PICK r \in Int : r = x % Dwords
  OBVIOUS
<1>4. x = (h * h) * q + r
  BY <1>1, <1>2, <1>3, Remainder
<1>5. PICK s \in 0 .. h - 1 : s = r % h
  BY Remainder
<1>6. PICK p \in Int : p = r \div h
  OBVIOUS
<1>7. r = h * p + s
  BY <1>5, <1>6, Remainder
<1>8. PICK t \in Int : t = h * q + p
  OBVIOUS
<1>9. x = h * t + s
  <2>1. (h * h) * q = h * (h * q)
    OBVIOUS
  <2> QED
    BY <1>4, <1>7, <1>8, <2>1
<1>10. x % h = s
  BY <1>9, Unique
<1> QED
  BY <1>1, <1>3, <1>5, <1>10

-----------------------------------------------------------------------------
(* The stack pointer                                                       *)

\* The register sp moved by n: SP in its lower half, or all of ESP.
Move(sp, size, n) ==
  IF size = 2 THEN sp - (sp % Half) + ((sp + n) % Half) ELSE (sp + n) % Dwords

LEMMA Operand ==
  ASSUME NEW size \in Sizes, NEW x \in Int
  PROVE  /\ W(size, x) \in Dword /\ W(size, x) \in 0 .. Dwords - 1
         /\ size = 2 => W(size, x) \in 0 .. Half - 1
         /\ W(size, x) % Half = x % Half
         /\ W(size, W(size, x)) = W(size, x)
         /\ W(size, x % Dwords) = W(size, x)
         /\ W(size, x) % Dwords = W(size, x)
<1> USE Constants
<1>1. x % Half \in 0 .. Half - 1 /\ x % Dwords \in 0 .. Dwords - 1
  BY Remainder
<1>2. (x % Half) % Half = x % Half /\ (x % Dwords) % Dwords = x % Dwords
  BY <1>1, SmallStays
<1>3. (x % Dwords) % Half = x % Half
  BY LowOfDword
<1>4. (x % Half) % Dwords = x % Half
  <2>1. PICK r \in 0 .. Dwords - 1 : r = x % Half
    BY <1>1
  <2> QED
    BY <2>1, SmallStays
<1> QED
  BY <1>1, <1>2, <1>3, <1>4 DEF W, Dword, Sizes

\* A register whose lower half is replaced.
LEMMA LowerHalf ==
  ASSUME NEW x \in Dword, NEW t \in 0 .. Half - 1
  PROVE  /\ x - (x % Half) + t \in Dword
         /\ (x - (x % Half) + t) % Half = t
         /\ (x - (x % Half) + t) - t = x - (x % Half)
<1> USE Constants
<1>0. PICK h \in Nat \ {0} : h = Half
  OBVIOUS
<1>1. x \in Int /\ x >= 0 /\ x < h * h /\ t \in 0 .. h - 1
  BY <1>0 DEF Dword
<1>2. PICK q \in Int : q = x \div h
  BY <1>1
<1>3. PICK r \in 0 .. h - 1 : r = x % h
  BY <1>1, Remainder
<1>4. x = h * q + r
  BY <1>1, <1>2, <1>3, Remainder
<1>5. q < h
  <2>1. q >= h => h * q >= h * h
    OBVIOUS
  <2> QED
    BY <1>1, <1>4, <2>1
<1>6. h * q <= h * h - h
  <2>1. (h - 1 - q) * h >= 0
    BY <1>5
  <2> QED
    BY <2>1
<1>7. q >= 0
  <2>1. q <= -1 => h * q <= - h
    OBVIOUS
  <2> QED
    BY <1>1, <1>4, <2>1
<1>8. h * q >= 0
  BY <1>7
<1>9. h * q + t \in 0 .. h * h - 1
  BY <1>1, <1>6, <1>8
<1>10. x - (x % h) + t = h * q + t
  BY <1>3, <1>4
<1>11. (h * q + t) % h = t
  BY <1>1, Unique
<1>12. (x - (x % h) + t) - t = x - (x % h)
  BY <1>1, <1>3
<1> QED
  BY <1>0, <1>9, <1>10, <1>11, <1>12 DEF Dword

MoveFacts(sp, size, n) ==
  /\ Move(sp, size, n) \in Dword
  /\ W(size, Move(sp, size, n)) = W(size, sp + n)
  /\ Move(sp, size, n) % Half = (sp + n) % Half

LEMMA MoveIs ==
  ASSUME NEW sp \in Dword, NEW size \in Sizes, NEW n \in Int
  PROVE  MoveFacts(sp, size, n)
<1> USE Constants
<1>1. PICK x \in Int : x = sp + n
  BY DEF Dword
<1>2. CASE size = 2
  <2>1. PICK t \in 0 .. Half - 1 : t = x % Half
    BY Remainder
  <2>2. Move(sp, size, n) = sp - (sp % Half) + t
    BY <1>1, <1>2, <2>1 DEF Move
  <2>3. Move(sp, size, n) \in Dword /\ Move(sp, size, n) % Half = t
    BY <2>2, LowerHalf
  <2> QED
    BY <1>1, <1>2, <2>1, <2>3 DEF MoveFacts, W
<1>3. CASE size = 4
  <2>1. Move(sp, size, n) = x % Dwords
    BY <1>1, <1>3 DEF Move
  <2>2. x % Dwords \in Dword
    BY Remainder DEF Dword
  <2>3. (x % Dwords) % Half = x % Half /\ (x % Dwords) % Dwords = x % Dwords
    BY <2>2, LowOfDword, SmallStays DEF Dword
  <2> QED
    BY <1>1, <1>3, <2>1, <2>2, <2>3 DEF MoveFacts, W
<1> QED
  BY <1>2, <1>3 DEF Sizes

LEMMA MoveMove ==
  ASSUME NEW sp \in Dword, NEW size \in Sizes, NEW n \in Int, NEW k \in Int
  PROVE  Move(Move(sp, size, n), size, k) = Move(sp, size, n + k)
<1> USE Constants
<1>1. PICK x \in Int : x = sp + n
  BY DEF Dword
<1>2. x + k = sp + (n + k)
  BY <1>1 DEF Dword
<1>3. CASE size = 2
  <2>1. PICK t \in 0 .. Half - 1 : t = x % Half
    BY Remainder
  <2>2. PICK y \in Dword : y = sp - (sp % Half) + t
    BY LowerHalf
  <2>3. y % Half = t /\ y - t = sp - (sp % Half)
    BY <2>2, LowerHalf
  <2>4. (y + k) % Half = (x + k) % Half
    <3>1. Half \in Nat \ {0} /\ y \in Int
      BY DEF Dword
    <3>2. y % Half = x % Half
      BY <2>1, <2>3
    <3>3. ((y % Half) + k) % Half = (y + k) % Half
      BY <3>1, TakenBefore
    <3>4. ((x % Half) + k) % Half = (x + k) % Half
      BY <3>1, TakenBefore
    <3> QED
      BY <3>2, <3>3, <3>4, Zenon
  <2>5. Move(sp, size, n) = y
    BY <1>1, <1>3, <2>1, <2>2 DEF Move
  <2>6. Move(y, size, k) = y - t + ((x + k) % Half)
    BY <1>3, <2>3, <2>4 DEF Move
  <2>7. Move(sp, size, n + k) = sp - (sp % Half) + ((x + k) % Half)
    BY <1>2, <1>3 DEF Move
  <2> QED
    BY <2>3, <2>5, <2>6, <2>7
<1>4. CASE size = 4
  BY <1>1, <1>2, <1>4, TakenBefore DEF Move
<1> QED
  BY <1>3, <1>4 DEF Sizes

LEMMA MoveNowhere ==
  ASSUME NEW sp \in Dword, NEW size \in Sizes
  PROVE  Move(sp, size, 0) = sp
<1> USE Constants
<1>1. sp \in Int /\ sp + 0 = sp /\ sp % Half \in Int
  BY Remainder DEF Dword
<1>2. sp - (sp % Half) + (sp % Half) = sp
  BY <1>1
<1>3. sp % Dwords = sp
  BY SmallStays DEF Dword
<1> QED
  BY <1>1, <1>2, <1>3 DEF Move, Sizes

-----------------------------------------------------------------------------
(* Memory                                                                  *)

ByteVal == 0 .. ByteMod - 1

MemOK(m) == DOMAIN m \subseteq Mapped /\ \A a \in DOMAIN m : m[a] \in ByteVal

\* a and b stand for the same byte of a segment of 64 KiB.
Alike(a, b) == a % Half = b % Half

\* How far below base the byte at a is.
Deep(base, a) == ((base - 1) - a) % Half

\* Two memories agree on the d bytes below base.
Keeps(base, d, m, n) == \A a \in Dword : Deep(base, a) < d => At(m, a) = At(n, a)

LEMMA AtIs ==
  ASSUME NEW m, MemOK(m), NEW a
  PROVE  At(m, a) \in ByteVal
BY Constants DEF MemOK, At, ByteVal

\* Digits a and b of a number whose digits have B values.
LEMMA TwoDigits ==
  ASSUME NEW B \in Nat \ {0}, NEW C \in Nat \ {0}, NEW a \in 0 .. B - 1, NEW b \in 0 .. C - 1
  PROVE  /\ a + B * b \in 0 .. B * C - 1
         /\ (a + B * b) % B = a /\ (a + B * b) \div B = b
<1>1. B * b \in Nat /\ B * (C - 1) = B * C - B
  OBVIOUS
<1>2. B * b <= B * (C - 1)
  <2>1. PICK e \in Nat : e = (C - 1) - b
    OBVIOUS
  <2>2. B * e >= 0
    OBVIOUS
  <2>3. B * (C - 1) = B * (b + e)
    BY <2>1
  <2> QED
    BY <2>2, <2>3
<1>3. (B * b + a) % B = a /\ (B * b + a) \div B = b
  BY Unique
<1>4. a + B * b = B * b + a
  BY <1>1
<1>5. B * C \in Nat
  OBVIOUS
<1> QED
  BY <1>1, <1>2, <1>3, <1>4, <1>5

LEMMA LoadIs ==
  ASSUME NEW m, MemOK(m), NEW a, NEW size \in Sizes
  PROVE  /\ Load(m, a, size) \in Dword
         /\ size = 2 => Load(m, a, size) \in 0 .. Half - 1
         /\ W(size, Load(m, a, size)) = Load(m, a, size)
<1> USE Constants
<1>1. PICK b0 \in ByteVal, b1 \in ByteVal, b2 \in ByteVal, b3 \in ByteVal :
        b0 = At(m, a) /\ b1 = At(m, a + 1) /\ b2 = At(m, a + 2) /\ b3 = At(m, a + 3)
  BY AtIs
<1>2. PICK low \in 0 .. Half - 1 : low = b0 + ByteMod * b1
  BY TwoDigits DEF ByteVal
<1>3. PICK high \in 0 .. Half - 1 : high = b2 + ByteMod * b3
  BY TwoDigits DEF ByteVal
<1>4. PICK all \in 0 .. Dwords - 1 : all = low + Half * high
  BY TwoDigits
<1>5. Load(m, a, size) = IF size = 2 THEN low ELSE all
  BY <1>1, <1>2, <1>3, <1>4 DEF Load
<1>6. low % Half = low /\ all % Dwords = all
  BY SmallStays
<1> QED
  BY <1>5, <1>6 DEF W, Dword, Sizes

\* The bytes of an access are told apart by their distance from its address.
LEMMA InAccess ==
  ASSUME NEW a \in Int, NEW k \in 0 .. 3
  PROVE  (((a + k) % Dwords) - a) % Dwords = k
<1> USE Constants
<1>1. (((a + k) % Dwords) + (- a)) % Dwords = ((a + k) + (- a)) % Dwords
  <2>1. a + k \in Int /\ - a \in Int
    OBVIOUS
  <2> QED
    BY <2>1, TakenBefore
<1>2. (a + k) + (- a) = k
  OBVIOUS
<1>3. k % Dwords = k
  <2>1. k \in 0 .. Dwords - 1
    OBVIOUS
  <2> QED
    BY <2>1, SmallStays
<1>4. PICK x \in Int : x = (a + k) % Dwords
  BY Remainder
<1>5. x - a = x + (- a)
  OBVIOUS
<1> QED
  BY <1>1, <1>2, <1>3, <1>4, <1>5

LEMMA ByteIs ==
  ASSUME NEW v \in Int, NEW k \in 0 .. 3
  PROVE  ByteOf(v, k) \in ByteVal
<1> USE Constants
<1>1. ByteMod * Half \in Nat \ {0}
  <2>1. PICK b \in Nat \ {0}, h \in Nat \ {0} : b = ByteMod /\ h = Half
    OBVIOUS
  <2>2. b * h >= h
    <3>1. (b - 1) * h >= 0
      OBVIOUS
    <3> QED
      BY <3>1
  <2> QED
    BY <2>1, <2>2
<1>2. PICK d \in Nat \ {0} : d = <<1, ByteMod, Half, ByteMod * Half>>[k + 1]
  BY <1>1
<1>3. PICK q \in Int : q = v \div d
  BY Remainder
<1> QED
  BY <1>2, <1>3, Remainder DEF ByteOf, ByteVal

LEMMA StoreIs ==
  ASSUME NEW m, MemOK(m), NEW a \in Int, NEW size \in Sizes, NEW v \in Int,
         Bytes(a, size) \subseteq Mapped
  PROVE  MemOK(Store(m, a, size, v))
<1>1. ASSUME NEW x \in Bytes(a, size) PROVE ByteOf(v, (x - a) % Dwords) \in ByteVal
  <2>1. PICK k \in 0 .. size - 1 : x = (a + k) % Dwords
    BY DEF Bytes
  <2>2. k \in 0 .. 3
    BY DEF Sizes
  <2>3. (x - a) % Dwords = k
    BY <2>1, <2>2, InAccess
  <2> QED
    BY <2>2, <2>3, ByteIs
<1> QED
  BY <1>1 DEF MemOK, Store

\* What an address holds behind a store.
LEMMA StoredAt ==
  ASSUME NEW m, NEW a \in Int, NEW size \in Sizes, NEW v, NEW b \in Int
  PROVE  At(Store(m, a, size, v), b) =
           IF b % Dwords \in Bytes(a, size) THEN ByteOf(v, ((b % Dwords) - a) % Dwords)
           ELSE At(m, b)
BY DEF At, Store

\* The digits of a number, by their places.
LEMMA Distribute ==
  ASSUME NEW B \in Int, NEW C \in Int, NEW x \in Int, NEW y \in Int
  PROVE  B * (C * x + y) = (B * C) * x + B * y
OBVIOUS

\* Division by a product is division by its factors in turn.
LEMMA InTurn ==
  ASSUME NEW B \in Nat \ {0}, NEW C \in Nat \ {0}, NEW v \in Int
  PROVE  /\ v \div (B * C) = (v \div B) \div C
         /\ v % (B * C) = (v % B) + B * ((v \div B) % C)
<1>1. PICK q \in Int, r \in 0 .. B - 1 : q = v \div B /\ r = v % B /\ v = B * q + r
  BY Remainder
<1>2. PICK p \in Int, s \in 0 .. C - 1 : p = q \div C /\ s = q % C /\ q = C * p + s
  BY Remainder
<1>3. PICK D \in Int : D = B * C
  OBVIOUS
<1>4. PICK t \in 0 .. D - 1 : t = r + B * s
  BY <1>3, TwoDigits
<1>5. D \in Nat \ {0}
  BY <1>4
<1>6. v = D * p + t
  <2>1. B * (C * p + s) = (B * C) * p + B * s
    BY Distribute
  <2>2. PICK x \in Int, y \in Int, z \in Int : x = B * q /\ y = D * p /\ z = B * s
    BY <1>5
  <2>3. x = y + z
    BY <1>2, <1>3, <2>1, <2>2, Zenon
  <2>4. v = x + r /\ t = r + z
    BY <1>1, <1>4, <2>2, Zenon
  <2>5. v = y + t
    BY ONLY <2>3, <2>4, x \in Int, y \in Int, z \in Int, r \in Int
  <2> QED
    BY <2>2, <2>5, Zenon
<1>7. (D * p + t) \div D = p /\ (D * p + t) % D = t
  BY <1>5, Unique
<1> QED
  BY <1>1, <1>2, <1>3, <1>4, <1>6, <1>7

LEMMA SmallQuotient ==
  ASSUME NEW B \in Nat \ {0}, NEW C \in Nat \ {0}, NEW v \in 0 .. B * C - 1
  PROVE  v \div B \in 0 .. C - 1
<1>0. v \in Int
  OBVIOUS
<1>1. PICK q \in Int, r \in 0 .. B - 1 : q = v \div B /\ v = B * q + r
  BY <1>0, Remainder
<1>2. q >= C => B * q >= B * C
  <2>1. PICK e \in Int : e = q - C
    OBVIOUS
  <2>2. e >= 0 => B * e >= 0
    OBVIOUS
  <2>3. B * (C + e) = B * C + B * e
    OBVIOUS
  <2>4. q = C + e
    BY <2>1
  <2> QED
    BY <2>1, <2>2, <2>3, <2>4
<1>3. q <= -1 => B * q <= - B
  OBVIOUS
<1>4. PICK x \in Int, y \in Int : x = B * q /\ y = B * C
  OBVIOUS
<1> QED
  BY <1>1, <1>2, <1>3, <1>4

LEMMA DigitsOf ==
  ASSUME NEW v \in Dword
  PROVE  /\ v \in 0 .. Half - 1 => v = ByteOf(v, 0) + ByteMod * ByteOf(v, 1)
         /\ v = (ByteOf(v, 0) + ByteMod * ByteOf(v, 1))
                  + Half * (ByteOf(v, 2) + ByteMod * ByteOf(v, 3))
<1> USE Constants
<1>0. PICK B \in Nat \ {0}, H \in Nat \ {0} : B = ByteMod /\ H = Half /\ H = B * B /\ B * H = H * B
  OBVIOUS
<1>1. v \in Int /\ v \in 0 .. H * H - 1
  BY <1>0 DEF Dword
<1>2. PICK q0 \in Int, b0 \in 0 .. B - 1 : q0 = v \div B /\ b0 = v % B
  BY <1>1, Remainder
<1>3. PICK q1 \in 0 .. H - 1, low \in 0 .. H - 1 :
        q1 = v \div H /\ low = v % H /\ v = H * q1 + low
  <2>1. v \div H \in 0 .. H - 1
    BY <1>1, SmallQuotient
  <2> QED
    BY <1>1, <2>1, Remainder
<1>4. PICK b1 \in 0 .. B - 1 : b1 = q0 % B
  BY Remainder
<1>5. q1 = q0 \div B /\ low = b0 + B * b1
  <2>1. v \div (B * B) = (v \div B) \div B /\ v % (B * B) = (v % B) + B * ((v \div B) % B)
    BY <1>1, InTurn
  <2> QED
    BY <1>0, <1>2, <1>3, <1>4, <2>1, Zenon
<1>6. PICK q2 \in 0 .. B - 1, b2 \in 0 .. B - 1 :
        q2 = q1 \div B /\ b2 = q1 % B /\ q1 = B * q2 + b2
  <2>1. q1 \in 0 .. B * B - 1 /\ q1 \in Int
    BY <1>0
  <2>2. q1 \div B \in 0 .. B - 1
    BY <2>1, SmallQuotient
  <2> QED
    BY <2>1, <2>2, Remainder
<1>7. v \div (H * B) = q2
  BY <1>1, <1>3, <1>6, InTurn
<1>8. q2 % B = q2
  BY SmallStays
<1>9. v \div 1 = v
  BY <1>1
<1>10. ByteOf(v, 0) = b0 /\ ByteOf(v, 1) = b1 /\ ByteOf(v, 2) = b2 /\ ByteOf(v, 3) = q2
  <2>1. \A k \in 0 .. 3 : ByteOf(v, k) = (v \div <<1, B, H, H * B>>[k + 1]) % B
    BY <1>0, Zenon DEF ByteOf
  <2>2. /\ ByteOf(v, 0) = (v \div 1) % B /\ ByteOf(v, 1) = (v \div B) % B
        /\ ByteOf(v, 2) = (v \div H) % B /\ ByteOf(v, 3) = (v \div (H * B)) % B
    BY <2>1
  <2> QED
    BY <1>2, <1>3, <1>4, <1>5, <1>6, <1>7, <1>8, <1>9, <2>2, Zenon
<1>11. v = low + H * (b2 + B * q2)
  <2>1. b2 + B * q2 = q1
    BY <1>6
  <2> QED
    BY <1>3, <2>1
<1>12. v \in 0 .. H - 1 => v = low
  BY <1>3, SmallStays
<1> QED
  BY <1>0, <1>5, <1>10, <1>11, <1>12, Zenon

\* A value is read back.
LEMMA LoadStored ==
  ASSUME NEW m, NEW a \in Int, NEW size \in Sizes, NEW v \in Dword, v = W(size, v)
  PROVE  Load(Store(m, a, size, v), a, size) = v
<1> USE Constants
<1> DEFINE n == Store(m, a, size, v)
<1>1. ASSUME NEW k \in 0 .. size - 1 PROVE At(n, a + k) = ByteOf(v, k)
  <2>1. (a + k) % Dwords \in Bytes(a, size)
    BY DEF Bytes
  <2>2. k \in 0 .. 3 /\ a + k \in Int
    BY DEF Sizes
  <2>3. (((a + k) % Dwords) - a) % Dwords = k
    BY <2>2, InAccess
  <2> QED
    BY <2>1, <2>2, <2>3, StoredAt
<1> HIDE DEF n
<1>2. a + 0 = a /\ 0 \in 0 .. size - 1 /\ 1 \in 0 .. size - 1
  BY DEF Sizes
<1>3. At(n, a) = ByteOf(v, 0) /\ At(n, a + 1) = ByteOf(v, 1)
  BY <1>1, <1>2
<1>4. CASE size = 2
  <2>1. v \in 0 .. Half - 1
    BY <1>4, Operand DEF Dword
  <2> QED
    BY <1>3, <1>4, <2>1, DigitsOf DEF Load, n
<1>5. CASE size = 4
  <2>1. At(n, a + 2) = ByteOf(v, 2) /\ At(n, a + 3) = ByteOf(v, 3)
    BY <1>1, <1>5
  <2>2. Load(n, a, size) = (At(n, a) + ByteMod * At(n, a + 1))
                              + Half * (At(n, a + 2) + ByteMod * At(n, a + 3))
    BY <1>5 DEF Load
  <2> QED
    BY <1>3, <2>1, <2>2, DigitsOf, Zenon DEF n
<1> QED
  BY <1>4, <1>5 DEF Sizes

LEMMA AlikePlus ==
  ASSUME NEW a \in Int, NEW b \in Int, NEW k \in Int, Alike(a, b)
  PROVE  Alike(a + k, b + k)
<1>1. ((a % Half) + k) % Half = (a + k) % Half /\ ((b % Half) + k) % Half = (b + k) % Half
  BY Constants, TakenBefore
<1> QED
  BY <1>1, Zenon DEF Alike

\* The depth of the bytes of an access that begins e bytes below base.
LEMMA DeepIs ==
  ASSUME NEW base \in Int, NEW a \in Int, NEW e \in 1 .. Half, Alike(a, base - e),
         NEW k \in 0 .. e - 1
  PROVE  Deep(base, (a + k) % Dwords) = (e - 1) - k
<1> USE Constants
<1>1. PICK x \in Int : x = (a + k) % Dwords
  BY Remainder
<1>2. x % Half = (a + k) % Half
  BY <1>1, LowOfDword
<1>3. (a + k) % Half = ((base - e) + k) % Half
  <2>1. PICK b \in Int : b = base - e
    OBVIOUS
  <2>2. Alike(a, b) /\ k \in Int
    BY <2>1
  <2>3. (a + k) % Half = (b + k) % Half
    BY <2>2, AlikePlus DEF Alike
  <2> QED
    BY <2>1, <2>3
<1>4. PICK y \in Int : y = (base - e) + k
  OBVIOUS
<1>5. PICK q \in Int, p \in Int, r \in 0 .. Half - 1 : x = Half * q + r /\ y = Half * p + r
  <2>1. x % Half = y % Half
    BY <1>2, <1>3, <1>4
  <2>2. x = Half * (x \div Half) + (x % Half) /\ y = Half * (y \div Half) + (y % Half)
    BY Remainder
  <2>3. x \div Half \in Int /\ y \div Half \in Int /\ x % Half \in 0 .. Half - 1
    BY Remainder
  <2> QED
    BY <2>1, <2>2, <2>3
<1>6. (base - 1) - x = Half * (p - q) + ((e - 1) - k)
  <2>1. PICK s \in Int, t \in Int : s = Half * q /\ t = Half * p
    OBVIOUS
  <2>2. Half * (p - q) = t - s
    BY <2>1
  <2>3. x = s + r /\ y = t + r
    BY <1>5, <2>1
  <2> QED
    BY <1>4, <2>2, <2>3
<1>7. (e - 1) - k \in 0 .. Half - 1 /\ p - q \in Int
  OBVIOUS
<1>8. (Half * (p - q) + ((e - 1) - k)) % Half = (e - 1) - k
  BY <1>7, Unique
<1> QED
  BY <1>1, <1>6, <1>8 DEF Deep

\* A store below a depth keeps everything above it,
LEMMA StoreKeeps ==
  ASSUME NEW base \in Int, NEW a \in Int, NEW size \in Sizes, NEW v, NEW m,
         NEW d \in Nat, d + size <= Half, Alike(a, base - (d + size))
  PROVE  Keeps(base, d, m, Store(m, a, size, v))
<1> USE Constants
<1> SUFFICES ASSUME NEW x \in Dword, Deep(base, x) < d
             PROVE  At(m, x) = At(Store(m, a, size, v), x)
  BY DEF Keeps
<1>1. x \in Int /\ x % Dwords = x
  BY SmallStays DEF Dword
<1>2. x \notin Bytes(a, size)
  <2> SUFFICES ASSUME NEW k \in 0 .. size - 1, x = (a + k) % Dwords PROVE FALSE
    BY DEF Bytes
  <2>1. PICK e \in 1 .. Half : e = d + size
    BY DEF Sizes
  <2>2. k \in 0 .. e - 1 /\ (e - 1) - k >= d
    BY <2>1 DEF Sizes
  <2>3. Deep(base, x) = (e - 1) - k
    BY <2>1, <2>2, DeepIs
  <2> QED
    BY <2>2, <2>3
<1> QED
  BY <1>1, <1>2, StoredAt

\* and what is above it is read as before.
LEMMA LoadKept ==
  ASSUME NEW base \in Int, NEW a \in Int, NEW size \in Sizes, NEW m, NEW n,
         NEW d \in Nat, Keeps(base, d, m, n),
         NEW e \in Nat, size <= e, e <= d, d <= Half, Alike(a, base - e)
  PROVE  Load(m, a, size) = Load(n, a, size)
<1> USE Constants
<1>1. ASSUME NEW k \in 0 .. size - 1 PROVE At(m, a + k) = At(n, a + k)
  <2>1. PICK x \in Dword : x = (a + k) % Dwords
    <3>1. a + k \in Int
      BY DEF Sizes
    <3> QED
      BY <3>1, Remainder DEF Dword
  <2>2. Deep(base, x) = (e - 1) - k
    <3>1. e \in 1 .. Half /\ k \in 0 .. e - 1
      BY DEF Sizes
    <3> QED
      BY <2>1, <3>1, DeepIs
  <2>3. At(m, x) = At(n, x)
    <3>1. (e - 1) - k < d
      OBVIOUS
    <3> QED
      BY <2>2, <3>1 DEF Keeps
  <2>4. x % Dwords = x
    BY SmallStays DEF Dword
  <2> QED
    BY <2>1, <2>3, <2>4 DEF At
<1>2. a + 0 = a /\ 0 \in 0 .. size - 1 /\ 1 \in 0 .. size - 1
  BY DEF Sizes
<1>3. At(m, a) = At(n, a) /\ At(m, a + 1) = At(n, a + 1)
  BY <1>1, <1>2
<1>4. CASE size = 2
  BY <1>3, <1>4 DEF Load
<1>5. CASE size = 4
  <2>1. At(m, a + 2) = At(n, a + 2) /\ At(m, a + 3) = At(n, a + 3)
    BY <1>1, <1>5
  <2> QED
    BY <1>3, <2>1, Zenon DEF Load
<1> QED
  BY <1>4, <1>5 DEF Sizes

LEMMA KeepsTwice ==
  ASSUME NEW base \in Int, NEW m, NEW n, NEW o, NEW d \in Nat, NEW e \in Nat, d <= e,
         Keeps(base, d, m, n), Keeps(base, e, n, o)
  PROVE  Keeps(base, d, m, o)
<1> SUFFICES ASSUME NEW a \in Dword, Deep(base, a) < d PROVE At(m, a) = At(o, a)
  BY DEF Keeps
<1>1. Deep(base, a) \in Int
  BY Constants, Remainder DEF Deep, Dword
<1>2. Deep(base, a) < e
  BY <1>1
<1> QED
  BY <1>2 DEF Keeps

-----------------------------------------------------------------------------
(* Machines                                                                *)

RegsOK(rs) == rs \in [0 .. 7 -> Dword]

MachineOK(m) ==
  /\ RegsOK(m.reg) /\ MemOK(m.mem) /\ m.ok \in BOOLEAN
  /\ m = [reg |-> m.reg, mem |-> m.mem, ok |-> m.ok]

LEMMA MachineChanged ==
  ASSUME NEW m, m = [reg |-> m.reg, mem |-> m.mem, ok |-> m.ok], NEW rs, NEW b
  PROVE  /\ [m EXCEPT !.reg = rs] = [reg |-> rs, mem |-> m.mem, ok |-> m.ok]
         /\ [m EXCEPT !.ok = b] = [reg |-> m.reg, mem |-> m.mem, ok |-> b]
<1>1. PICK qs, mm, o : qs = m.reg /\ mm = m.mem /\ o = m.ok
  OBVIOUS
<1>2. m = [reg |-> qs, mem |-> mm, ok |-> o]
  BY <1>1
<1>3. [m EXCEPT !.reg = rs] = [reg |-> rs, mem |-> mm, ok |-> o]
  BY <1>2
<1>4. [m EXCEPT !.ok = b] = [reg |-> qs, mem |-> mm, ok |-> b]
  BY <1>2
<1> QED
  BY <1>1, <1>3, <1>4

RegSet(rs, size, r, v, ts) ==
  /\ RegsOK(ts)
  /\ W(size, ts[r]) = W(size, v)
  /\ \A q \in 0 .. 7 : q # r => ts[q] = rs[q]

LEMMA RegIsSet ==
  ASSUME NEW rs, RegsOK(rs), NEW size \in Sizes, NEW r \in 0 .. 7, NEW v \in Int
  PROVE  RegSet(rs, size, r, v, SetReg(rs, size, r, v))
<1> USE Constants
<1>1. PICK x \in Dword : x = rs[r]
  BY DEF RegsOK
<1>2. PICK y : y = IF size = 2 THEN x - (x % Half) + (v % Half) ELSE v % Dwords
  OBVIOUS
<1>3. SetReg(rs, size, r, v) = [rs EXCEPT ![r] = y]
  BY <1>1, <1>2 DEF SetReg, RegsOK
<1>4. y \in Dword /\ W(size, y) = W(size, v)
  <2>1. PICK t \in 0 .. Half - 1 : t = v % Half
    BY Remainder
  <2>2. v % Dwords \in Dword /\ (v % Dwords) % Dwords = v % Dwords
    BY Remainder, SmallStays DEF Dword
  <2>3. x - (x % Half) + t \in Dword /\ (x - (x % Half) + t) % Half = t
    BY LowerHalf
  <2> QED
    BY <1>2, <2>1, <2>2, <2>3 DEF W, Sizes
<1> QED
  BY <1>3, <1>4 DEF RegSet, RegsOK

LEMMA RegIsMoved ==
  ASSUME NEW rs, RegsOK(rs), NEW size \in Sizes, NEW r \in 0 .. 7, NEW n \in Int
  PROVE  /\ SetReg(rs, size, r, rs[r] + n)[r] = Move(rs[r], size, n)
         /\ RegSet(rs, size, r, rs[r] + n, SetReg(rs, size, r, rs[r] + n))
<1>1. rs[r] \in Dword /\ rs[r] + n \in Int
  BY Constants DEF RegsOK, Dword
<1>2. SetReg(rs, size, r, rs[r] + n)[r] = Move(rs[r], size, n)
  BY DEF SetReg, Move, RegsOK
<1> QED
  BY <1>1, <1>2, RegIsSet

PushFacts(m, size, v, n) ==
  /\ MachineOK(n)
  /\ n.ok =>
       /\ m.ok
       /\ n.reg[SP] = Move(m.reg[SP], size, - size)
       /\ \A q \in 0 .. 7 : q # SP => n.reg[q] = m.reg[q]
       /\ n.mem = Store(m.mem, W(size, m.reg[SP] - size), size, v)

LEMMA Pushes ==
  ASSUME NEW m, MachineOK(m), NEW size \in Sizes, NEW v \in Int
  PROVE  PushFacts(m, size, v, Push(m, size, v))
<1>1. PICK sp \in Dword : sp = m.reg[SP]
  BY DEF MachineOK, RegsOK, SP
<1>2. PICK down : down = SetReg(m.reg, size, SP, m.reg[SP] - size)
  OBVIOUS
<1>3. - size \in Int /\ sp - size = sp + (- size) /\ sp - size \in Int
  BY Constants DEF Sizes, Dword
<1>4. down[SP] = Move(sp, size, - size) /\ RegSet(m.reg, size, SP, sp - size, down)
  BY <1>1, <1>2, <1>3, RegIsMoved DEF MachineOK, SP
<1>5. PICK a \in Int : a = W(size, sp - size) /\ a = Top(down, size)
  <2>1. W(size, sp - size) \in Int
    BY <1>3, Operand, Constants DEF Dword
  <2> QED
    BY <1>4, <2>1 DEF RegSet, Top, Reg
<1>6. Push(m, size, v) = IF ~ m.ok THEN m
                         ELSE IF Bytes(a, size) \subseteq Mapped
                         THEN [reg |-> down, mem |-> Store(m.mem, a, size, v), ok |-> TRUE]
                         ELSE [reg |-> down, mem |-> m.mem, ok |-> FALSE]
  BY <1>2, <1>5, Zenon DEF Push
<1>7. CASE ~ m.ok
  BY <1>6, <1>7 DEF PushFacts
<1>8. CASE m.ok /\ Bytes(a, size) \subseteq Mapped
  <2>1. MemOK(Store(m.mem, a, size, v))
    BY <1>8, StoreIs DEF MachineOK
  <2> QED
    <3>1. PICK n : n = Push(m, size, v)
      OBVIOUS
    <3>2. n = [reg |-> down, mem |-> Store(m.mem, a, size, v), ok |-> TRUE]
      BY <1>6, <1>8, <3>1
    <3>3. n.reg = down /\ n.mem = Store(m.mem, a, size, v) /\ n.ok = TRUE
      BY <3>2
    <3>4. MachineOK(n)
      BY <1>4, <2>1, <3>2, <3>3 DEF MachineOK, RegSet
    <3> QED
      BY <1>1, <1>4, <1>5, <1>8, <3>1, <3>3, <3>4 DEF PushFacts, RegSet
<1>9. CASE m.ok /\ ~ Bytes(a, size) \subseteq Mapped
  BY <1>4, <1>6, <1>9 DEF PushFacts, MachineOK, RegSet
<1> QED
  BY <1>7, <1>8, <1>9 DEF MachineOK

\* A push at depth d leaves what is above it, and its value at the new depth.
PushLeaves(base, d, m, size, v, n) ==
  /\ Keeps(base, d, m.mem, n.mem)
  /\ Alike(n.reg[SP], base - (d + size))
  /\ Load(n.mem, W(size, m.reg[SP] - size), size) = v

LEMMA AlikeMoved ==
  ASSUME NEW sp \in Dword, NEW size \in Sizes, NEW base \in Int, NEW d \in Int,
         Alike(sp, base - d), NEW n \in Int
  PROVE  /\ Alike(Move(sp, size, - n), base - (d + n))
         /\ Alike(W(size, sp - n), base - (d + n))
<1> USE Constants
<1>1. PICK b \in Int, k \in Int : b = base - d /\ k = - n
  OBVIOUS
<1>2. sp \in Int /\ sp - n = sp + k /\ sp + k \in Int /\ base - (d + n) = b + k
  BY <1>1 DEF Dword
<1>3. (sp + k) % Half = (b + k) % Half
  <2>1. Alike(sp, b)
    BY <1>1, Zenon
  <2>2. Alike(sp + k, b + k)
    BY <1>2, <2>1, AlikePlus, Zenon
  <2> QED
    BY <2>2, Zenon DEF Alike
<1>4. Move(sp, size, k) % Half = (sp + k) % Half
  BY MoveIs DEF MoveFacts
<1>5. W(size, sp + k) % Half = (sp + k) % Half
  BY <1>2, Operand
<1> QED
  BY <1>1, <1>2, <1>3, <1>4, <1>5 DEF Alike

LEMMA PushLeft ==
  ASSUME NEW m, MachineOK(m), NEW size \in Sizes, NEW v \in Dword, v = W(size, v),
         NEW n, n = Push(m, size, v), n.ok,
         NEW base \in Int, NEW d \in Nat, d + size <= Half, Alike(m.reg[SP], base - d)
  PROVE  PushLeaves(base, d, m, size, v, n)
<1>1. PICK sp \in Dword : sp = m.reg[SP]
  BY DEF MachineOK, RegsOK, SP
<1>2. v \in Int /\ d \in Int /\ size \in Int /\ sp - size \in Int
  BY Constants DEF Dword, Sizes
<1>3. PICK a \in Int : a = W(size, sp - size)
  BY <1>2, Operand, Constants DEF Dword
<1>4. n.reg[SP] = Move(sp, size, - size) /\ n.mem = Store(m.mem, a, size, v)
  BY <1>1, <1>2, <1>3, Pushes DEF PushFacts
<1>5. Alike(n.reg[SP], base - (d + size)) /\ Alike(a, base - (d + size))
  BY <1>1, <1>2, <1>3, <1>4, AlikeMoved
<1>6. Keeps(base, d, m.mem, n.mem)
  BY <1>4, <1>5, StoreKeeps
<1>7. Load(n.mem, a, size) = v
  BY <1>4, LoadStored
<1> QED
  BY <1>1, <1>3, <1>5, <1>6, <1>7 DEF PushLeaves

PopFacts(m, size, n) ==
  /\ MachineOK(n) /\ n.mem = m.mem
  /\ n.ok =>
       /\ m.ok
       /\ n.reg[SP] = Move(m.reg[SP], size, size)
       /\ \A q \in 0 .. 7 : q # SP => n.reg[q] = m.reg[q]

LEMMA Pops ==
  ASSUME NEW m, MachineOK(m), NEW size \in Sizes
  PROVE  /\ PopFacts(m, size, Pop(m, size))
         /\ Popped(m, size) = Load(m.mem, W(size, m.reg[SP]), size)
         /\ Popped(m, size) \in Dword /\ W(size, Popped(m, size)) = Popped(m, size)
<1>1. PICK up : up = SetReg(m.reg, size, SP, m.reg[SP] + size)
  OBVIOUS
<1>2. up[SP] = Move(m.reg[SP], size, size) /\ RegSet(m.reg, size, SP, m.reg[SP] + size, up)
  BY <1>1, RegIsMoved DEF MachineOK, SP, Sizes
<1>3. Pop(m, size) = IF ~ m.ok THEN m
                     ELSE IF Bytes(Top(m.reg, size), size) \subseteq Mapped
                     THEN [reg |-> up, mem |-> m.mem, ok |-> m.ok]
                     ELSE [reg |-> m.reg, mem |-> m.mem, ok |-> FALSE]
  <2>1. [m EXCEPT !.ok = FALSE] = [reg |-> m.reg, mem |-> m.mem, ok |-> FALSE]
    BY MachineChanged DEF MachineOK
  <2>2. [m EXCEPT !.reg = up] = [reg |-> up, mem |-> m.mem, ok |-> m.ok]
    BY MachineChanged DEF MachineOK
  <2>3. [m EXCEPT !.reg = SetReg(@, size, SP, @[SP] + size)] = [m EXCEPT !.reg = up]
    BY <1>1 DEF MachineOK
  <2> QED
    BY <2>1, <2>2, <2>3, Zenon DEF Pop
<1>4. PopFacts(m, size, Pop(m, size))
  <2>1. CASE Pop(m, size) = m /\ ~ m.ok
    BY <2>1 DEF PopFacts
  <2>2. CASE Pop(m, size) = [reg |-> up, mem |-> m.mem, ok |-> m.ok]
    BY <1>2, <2>2 DEF PopFacts, MachineOK, RegSet
  <2>3. CASE Pop(m, size) = [reg |-> m.reg, mem |-> m.mem, ok |-> FALSE]
    BY <2>3 DEF PopFacts, MachineOK
  <2> QED
    BY <1>3, <2>1, <2>2, <2>3
<1>5. Popped(m, size) = Load(m.mem, W(size, m.reg[SP]), size)
  BY DEF Popped, Top, Reg
<1>6. Popped(m, size) \in Dword /\ W(size, Popped(m, size)) = Popped(m, size)
  BY <1>5, LoadIs DEF MachineOK
<1> QED
  BY <1>4, <1>5, <1>6

SetFacts(m, size, r, v, n) ==
  /\ MachineOK(n) /\ n.mem = m.mem /\ n.ok = m.ok
  /\ m.ok => RegSet(m.reg, size, r, v, n.reg) /\ n.reg = SetReg(m.reg, size, r, v)

LEMMA Sets ==
  ASSUME NEW m, MachineOK(m), NEW size \in Sizes, NEW r \in 0 .. 7, NEW v \in Int
  PROVE  SetFacts(m, size, r, v, Set(m, size, r, v))
<1>1. PICK rs : rs = SetReg(m.reg, size, r, v)
  OBVIOUS
<1>2. RegSet(m.reg, size, r, v, rs)
  BY <1>1, RegIsSet DEF MachineOK
<1>3. Set(m, size, r, v) = IF m.ok THEN [reg |-> rs, mem |-> m.mem, ok |-> m.ok] ELSE m
  BY <1>1 DEF Set, MachineOK
<1> QED
  BY <1>1, <1>2, <1>3 DEF SetFacts, MachineOK, RegSet

PopIntoFacts(m, size, r, n) ==
  /\ MachineOK(n) /\ n.mem = m.mem
  /\ n.ok =>
       /\ m.ok
       /\ W(size, n.reg[r]) = Load(m.mem, W(size, m.reg[SP]), size)
       /\ \A q \in 0 .. 7 : q \notin {r, SP} => n.reg[q] = m.reg[q]
       /\ r # SP => n.reg[SP] = Move(m.reg[SP], size, size)

LEMMA PopsInto ==
  ASSUME NEW m, MachineOK(m), NEW size \in Sizes, NEW r \in 0 .. 7
  PROVE  PopIntoFacts(m, size, r, PopInto(m, size, r))
<1>1. PICK p, v : p = Pop(m, size) /\ v = Popped(m, size) /\ v \in Dword
  BY Pops
<1>2. PopFacts(m, size, p)
  BY <1>1, Pops
<1>3. v \in Int
  BY <1>1, Constants DEF Dword
<1>4. SetFacts(p, size, r, v, PopInto(m, size, r))
  BY <1>1, <1>2, <1>3, Sets DEF PopFacts, PopInto
<1>5. v = Load(m.mem, W(size, m.reg[SP]), size) /\ W(size, v) = v
  BY <1>1, Pops
<1> QED
  BY <1>2, <1>4, <1>5 DEF PopIntoFacts, PopFacts, SetFacts, RegSet, SP

-----------------------------------------------------------------------------
(* Frames                                                                  *)

Kinds == {"data", "all", "enter", "near", "far"}

FrameType ==
  [kind : Kinds, size : Sizes, vals : Seq(Dword), esp : Dword, after : Dword,
   from : Nat, to : Nat, next : Dword]

Count(kind) == IF kind = "all" THEN 8 ELSE IF kind = "far" THEN 2 ELSE 1

\* What is known of a frame alone.
FrameOK(f) ==
  /\ Len(f.vals) = Count(f.kind)
  /\ f.from + f.size * Count(f.kind) <= f.to /\ f.to <= Half
  /\ f.kind # "enter" => f.after = Move(f.esp, f.size, - (f.size * Count(f.kind)))
  /\ f.kind = "near" => f.vals[1] = W(f.size, f.next)

\* Depths are distances from the place where the first frame begins.
BaseOf(fs, sp) == IF fs = << >> THEN sp ELSE fs[1].esp
DepthOf(fs) == IF fs = << >> THEN 0 ELSE fs[Len(fs)].to

Placed(base, f) == Alike(f.esp, base - f.from) /\ Alike(f.after, base - f.to)

Intact(m, f) == \A k \in 1 .. Count(f.kind) : Load(m, Slot(f, k), f.size) = f.vals[k]

\* Frames i to j - 1 are dwords, as arguments of a call are.
AreArguments(fs, i, j) == \A l \in i .. j - 1 : fs[l].kind = "data" /\ fs[l].size = 4

Framed(fs, m, sp) ==
  \A i \in 1 .. Len(fs) : FrameOK(fs[i]) /\ Placed(BaseOf(fs, sp), fs[i]) /\ Intact(m, fs[i])

Linked(fs, sp) ==
  \A i \in 1 .. Len(fs) : fs[i].after = IF i = Len(fs) THEN sp ELSE fs[i + 1].esp

Below(fs) == \A i, j \in 1 .. Len(fs) : i <= j => fs[i].to <= fs[j].to

Spaced(fs) ==
  \A i, j \in 1 .. Len(fs) :
    i <= j /\ AreArguments(fs, i, j) => fs[j].esp = Move(fs[i].esp, 4, - (4 * (j - i)))

\* The frames fs are on the stack of a memory m whose top is at sp.
Held(fs, m, sp) ==
  fs \in Seq(FrameType) /\ Framed(fs, m, sp) /\ Linked(fs, sp) /\ Below(fs) /\ Spaced(fs)

LEMMA FieldsOf ==
  ASSUME NEW f \in FrameType
  PROVE  /\ f.kind \in Kinds /\ f.size \in Sizes /\ f.vals \in Seq(Dword)
         /\ f.esp \in Dword /\ f.after \in Dword /\ f.next \in Dword
         /\ f.from \in Nat /\ f.to \in Nat
BY DEF FrameType

LEMMA CountIs ==
  ASSUME NEW f \in FrameType
  PROVE  /\ Count(f.kind) \in 1 .. 8
         /\ \A k \in 1 .. Count(f.kind) :
              f.size * k \in Nat /\ f.size <= f.size * k /\ f.size * k <= f.size * Count(f.kind)
<1>1. Count(f.kind) \in {1, 2, 8}
  BY DEF Count
<1>2. f.size = 2 \/ f.size = 4
  BY FieldsOf DEF Sizes
<1> QED
  BY <1>1, <1>2

LEMMA HeldEmpty ==
  ASSUME NEW m, NEW sp
  PROVE  Held(<< >>, m, sp)
<1>1. << >> \in Seq(FrameType) /\ Len(<< >>) = 0
  OBVIOUS
<1> QED
  BY <1>1 DEF Held, Framed, Linked, Below, Spaced

LEMMA BaseIs ==
  ASSUME NEW fs, NEW m, NEW sp \in Dword, Held(fs, m, sp)
  PROVE  /\ BaseOf(fs, sp) \in Dword /\ BaseOf(fs, sp) \in Int
         /\ DepthOf(fs) \in Nat /\ DepthOf(fs) <= Half
         /\ Alike(sp, BaseOf(fs, sp) - DepthOf(fs))
         /\ \A i \in 1 .. Len(fs) : fs[i].to <= DepthOf(fs)
<1> USE Constants
<1>1. CASE fs = << >>
  <2>1. sp - 0 = sp /\ Len(fs) = 0
    BY <1>1 DEF Dword
  <2> QED
    BY <1>1, <2>1 DEF BaseOf, DepthOf, Alike, Dword
<1>2. CASE fs # << >>
  <2>1. fs \in Seq(FrameType) /\ Len(fs) \in 1 .. Len(fs) /\ 1 \in 1 .. Len(fs) /\ Len(fs) \in Nat
    BY <1>2 DEF Held
  <2>2. fs[1] \in FrameType /\ fs[Len(fs)] \in FrameType
    BY <2>1
  <2>3. fs[Len(fs)].after = sp /\ fs[Len(fs)].to <= Half
        /\ Alike(fs[Len(fs)].after, BaseOf(fs, sp) - fs[Len(fs)].to)
    BY <2>1 DEF Held, Framed, Linked, FrameOK, Placed
  <2>4. \A i \in 1 .. Len(fs) : fs[i].to <= fs[Len(fs)].to
    BY <2>1 DEF Held, Below
  <2> QED
    BY <1>2, <2>2, <2>3, <2>4, FieldsOf DEF BaseOf, DepthOf, Dword
<1> QED
  BY <1>1, <1>2

LEMMA HeldPrefix ==
  ASSUME NEW fs, NEW m, NEW sp, Held(fs, m, sp), NEW k \in 1 .. Len(fs)
  PROVE  Held(SubSeq(fs, 1, k - 1), m, fs[k].esp)
<1> DEFINE gs == SubSeq(fs, 1, k - 1)
<1>1. fs \in Seq(FrameType) /\ Len(fs) \in Nat
  BY DEF Held
<1>2. /\ gs \in Seq(FrameType) /\ Len(gs) = k - 1
      /\ \A i \in 1 .. k - 1 : gs[i] = fs[i]
  BY <1>1
<1> HIDE DEF gs
<1>3. \A i \in 1 .. Len(gs) : i \in 1 .. Len(fs) /\ gs[i] = fs[i]
  BY <1>1, <1>2
<1>4. Framed(gs, m, fs[k].esp)
  <2> SUFFICES ASSUME NEW i \in 1 .. Len(gs)
               PROVE  FrameOK(gs[i]) /\ Placed(BaseOf(gs, fs[k].esp), gs[i]) /\ Intact(m, gs[i])
    BY DEF Framed
  <2>1. BaseOf(gs, fs[k].esp) = BaseOf(fs, sp)
    <3>1. gs # << >> /\ fs # << >> /\ 1 \in 1 .. Len(gs)
      BY <1>1, <1>2
    <3> QED
      BY <1>3, <3>1 DEF BaseOf
  <2> QED
    BY <1>3, <2>1 DEF Held, Framed
<1>5. Linked(gs, fs[k].esp)
  <2> SUFFICES ASSUME NEW i \in 1 .. Len(gs)
               PROVE  gs[i].after = IF i = Len(gs) THEN fs[k].esp ELSE gs[i + 1].esp
    BY DEF Linked
  <2>1. i \in 1 .. Len(fs) /\ i # Len(fs) /\ fs[i].after = fs[i + 1].esp
    BY <1>1, <1>2, <1>3 DEF Held, Linked
  <2>2. i = Len(gs) => i + 1 = k
    BY <1>2
  <2>3. i # Len(gs) => i + 1 \in 1 .. Len(gs)
    BY <1>2
  <2> QED
    BY <1>3, <2>1, <2>2, <2>3
<1>6. Below(gs)
  BY <1>3 DEF Held, Below
<1>7. Spaced(gs)
  <2> SUFFICES ASSUME NEW i \in 1 .. Len(gs), NEW j \in 1 .. Len(gs), i <= j,
                      AreArguments(gs, i, j)
               PROVE  gs[j].esp = Move(gs[i].esp, 4, - (4 * (j - i)))
    BY DEF Spaced
  <2>1. AreArguments(fs, i, j)
    <3>1. \A l \in i .. j - 1 : l \in 1 .. Len(gs)
      BY <1>2
    <3> QED
      BY <1>3, <3>1 DEF AreArguments
  <2> QED
    BY <1>3, <2>1 DEF Held, Spaced
<1> QED
  BY <1>2, <1>4, <1>5, <1>6, <1>7 DEF Held, gs

\* Where the values of a frame lie.
LEMMA SlotIs ==
  ASSUME NEW f \in FrameType, FrameOK(f), NEW base \in Int, Placed(base, f),
         NEW k \in 1 .. Count(f.kind)
  PROVE  /\ Slot(f, k) \in Int /\ f.from + f.size * k \in Nat
         /\ Alike(Slot(f, k), base - (f.from + f.size * k))
         /\ f.size <= f.from + f.size * k /\ f.from + f.size * k <= f.to
<1>1. PICK n \in Nat : n = f.size * k
  BY CountIs
<1>2. f.size <= n /\ f.from + n <= f.to /\ f.from \in Nat /\ f.to \in Nat /\ f.size \in Sizes
      /\ f.esp \in Dword
  <2>1. f.size * k <= f.size * Count(f.kind) /\ f.size <= f.size * k
    BY CountIs
  <2>2. PICK c \in Nat : c = f.size * Count(f.kind)
    <3>1. Count(f.kind) \in 1 .. Count(f.kind)
      BY CountIs
    <3> QED
      BY <3>1, CountIs
  <2>3. f.from + c <= f.to
    BY <2>2 DEF FrameOK
  <2> QED
    BY <1>1, <2>1, <2>2, <2>3, FieldsOf DEF Sizes
<1>3. PICK esp, size, d \in Int : esp = f.esp /\ size = f.size /\ d = f.from
  BY <1>2, Constants DEF Dword, Sizes
<1>4. esp \in Dword /\ size \in Sizes /\ n \in Int /\ Alike(esp, base - d)
  BY <1>1, <1>2, <1>3 DEF Placed
<1>5. Alike(W(size, esp - n), base - (d + n))
  BY <1>4, AlikeMoved
<1>6. W(size, esp - n) \in Int
  <2>1. esp - n \in Int
    BY <1>3
  <2> QED
    BY <1>4, <2>1, Constants, Operand DEF Dword
<1>7. Slot(f, k) = W(size, esp - n)
  BY <1>1, <1>3 DEF Slot
<1> QED
  BY <1>1, <1>2, <1>3, <1>5, <1>6, <1>7 DEF Sizes

\* A frame that is pushed at the depth the others have come to.
LEMMA HeldAppend ==
  ASSUME NEW fs, NEW m, NEW sp \in Dword, Held(fs, m, sp),
         NEW f \in FrameType, FrameOK(f), f.esp = sp, f.from = DepthOf(fs),
         Placed(BaseOf(fs, sp), f),
         NEW n, Keeps(BaseOf(fs, sp), DepthOf(fs), m, n), Intact(n, f)
  PROVE  Held(Append(fs, f), n, f.after)
<1> DEFINE gs == Append(fs, f)
<1>1. fs \in Seq(FrameType) /\ Len(fs) \in Nat
  BY DEF Held
<1>2. /\ gs \in Seq(FrameType) /\ Len(gs) = Len(fs) + 1 /\ gs[Len(gs)] = f
      /\ \A i \in 1 .. Len(fs) : gs[i] = fs[i] /\ fs[i] \in FrameType
  BY <1>1
<1> HIDE DEF gs
<1>3. BaseOf(gs, f.after) = BaseOf(fs, sp)
  <2>1. gs # << >>
    BY <1>1, <1>2
  <2>2. CASE fs = << >>
    <3>1. gs[1] = f
      BY <1>2, <2>2
    <3> QED
      BY <2>1, <2>2, <3>1 DEF BaseOf
  <2>3. CASE fs # << >>
    <3>1. 1 \in 1 .. Len(fs)
      BY <1>1, <2>3
    <3> QED
      BY <1>2, <2>1, <2>3, <3>1 DEF BaseOf
  <2> QED
    BY <2>2, <2>3
<1>4. PICK base \in Int, d \in Nat : base = BaseOf(fs, sp) /\ d = DepthOf(fs) /\ d <= Half
                                     /\ \A i \in 1 .. Len(fs) : fs[i].to <= d
  BY BaseIs
<1>5. \A i \in 1 .. Len(gs) : i = Len(gs) \/ i \in 1 .. Len(fs)
  BY <1>1, <1>2
<1>6. ASSUME NEW i \in 1 .. Len(fs)
      PROVE  FrameOK(fs[i]) /\ Placed(base, fs[i]) /\ Intact(n, fs[i])
  <2>1. FrameOK(fs[i]) /\ Placed(base, fs[i]) /\ Intact(m, fs[i]) /\ fs[i].to <= d
    BY <1>4 DEF Held, Framed
  <2>2. ASSUME NEW k \in 1 .. Count(fs[i].kind)
        PROVE  Load(n, Slot(fs[i], k), fs[i].size) = fs[i].vals[k]
    <3>1. PICK g \in FrameType : g = fs[i]
      BY <1>2
    <3>2. PICK e \in Nat : e = g.from + g.size * k
      BY <2>1, <2>2, <3>1, SlotIs
    <3>3. /\ Slot(g, k) \in Int /\ Alike(Slot(g, k), base - e)
          /\ g.size <= e /\ e <= g.to
      BY <2>1, <2>2, <3>1, <3>2, SlotIs
    <3>4. e <= d /\ g.size \in Sizes
      BY <2>1, <3>1, <3>3, FieldsOf
    <3>5. Load(m, Slot(g, k), g.size) = Load(n, Slot(g, k), g.size)
      BY <1>4, <3>3, <3>4, LoadKept
    <3> QED
      BY <2>1, <2>2, <3>1, <3>5 DEF Intact
  <2> QED
    BY <2>1, <2>2 DEF Intact
<1>7. Framed(gs, n, f.after)
  BY <1>2, <1>3, <1>4, <1>5, <1>6 DEF Framed
<1>8. Linked(gs, f.after)
  <2> SUFFICES ASSUME NEW i \in 1 .. Len(fs)
               PROVE  gs[i].after = IF i = Len(gs) THEN f.after ELSE gs[i + 1].esp
    BY <1>2, <1>5 DEF Linked
  <2>1. CASE i = Len(fs)
    BY <1>1, <1>2, <2>1 DEF Held, Linked
  <2>2. CASE i # Len(fs)
    <3>1. i + 1 \in 1 .. Len(fs)
      BY <1>1, <2>2
    <3> QED
      BY <1>1, <1>2, <2>2, <3>1 DEF Held, Linked
  <2> QED
    BY <2>1, <2>2
<1>9. Below(gs)
  <2> SUFFICES ASSUME NEW i \in 1 .. Len(gs), NEW j \in 1 .. Len(gs), i <= j
               PROVE  gs[i].to <= gs[j].to
    BY DEF Below
  <2>1. d <= f.to
    <3>1. f.from \in Nat /\ f.to \in Nat /\ f.size * Count(f.kind) \in Nat
      <4>1. Count(f.kind) \in 1 .. Count(f.kind)
        BY CountIs
      <4> QED
        BY <4>1, CountIs, FieldsOf
    <3>2. PICK c \in Nat : c = f.size * Count(f.kind)
      BY <3>1
    <3>3. f.from + c <= f.to
      BY <3>2 DEF FrameOK
    <3> QED
      BY <1>4, <3>1, <3>2, <3>3
  <2>2. CASE j = Len(gs) /\ i = Len(gs)
    BY <1>2, <2>2, FieldsOf
  <2>3. CASE j = Len(gs) /\ i \in 1 .. Len(fs)
    <3>1. gs[i].to \in Nat /\ gs[j].to \in Nat /\ gs[i].to <= d /\ gs[j] = f
      BY <1>2, <1>4, <2>3, FieldsOf
    <3> QED
      BY <2>1, <3>1
  <2>4. CASE j \in 1 .. Len(fs)
    <3>1. i \in 1 .. Len(fs)
      BY <1>1, <1>2, <2>4
    <3> QED
      BY <1>2, <2>4, <3>1 DEF Held, Below
  <2> QED
    BY <1>5, <2>2, <2>3, <2>4
<1>10. Spaced(gs)
  <2> SUFFICES ASSUME NEW i \in 1 .. Len(gs), NEW j \in 1 .. Len(gs), i <= j,
                      AreArguments(gs, i, j)
               PROVE  gs[j].esp = Move(gs[i].esp, 4, - (4 * (j - i)))
    BY DEF Spaced
  <2>1. CASE i = Len(gs)
    <3>1. j = i /\ - (4 * (j - i)) = 0
      BY <1>1, <1>2, <2>1
    <3>2. Move(f.esp, 4, 0) = f.esp
      BY MoveNowhere, FieldsOf DEF Sizes
    <3> QED
      BY <1>2, <2>1, <3>1, <3>2
  <2>2. CASE j \in 1 .. Len(fs)
    <3>1. i \in 1 .. Len(fs)
      BY <1>1, <1>2, <2>2
    <3>2. AreArguments(fs, i, j)
      <4>1. \A l \in i .. j - 1 : l \in 1 .. Len(fs)
        BY <1>1, <2>2, <3>1
      <4> QED
        BY <1>2, <4>1 DEF AreArguments
    <3> QED
      BY <1>2, <2>2, <3>1, <3>2 DEF Held, Spaced
  <2>3. CASE i # Len(gs) /\ j = Len(gs)
    <3>1. PICK p \in 1 .. Len(fs) : p = Len(fs) /\ p = j - 1 /\ i \in 1 .. Len(fs) /\ i <= p
      BY <1>1, <1>2, <2>3
    <3>2. AreArguments(fs, i, p)
      <4>1. \A l \in i .. p - 1 : l \in 1 .. Len(fs) /\ l \in i .. j - 1
        BY <1>1, <3>1
      <4> QED
        BY <1>2, <4>1 DEF AreArguments
    <3>3. fs[p].esp = Move(fs[i].esp, 4, - (4 * (p - i)))
      BY <3>1, <3>2 DEF Held, Spaced
    <3>4. fs[p].kind = "data" /\ fs[p].size = 4
      <4>1. p \in i .. j - 1
        BY <3>1
      <4> QED
        BY <1>2, <4>1 DEF AreArguments
    <3>5. sp = Move(fs[p].esp, 4, - 4)
      <4>1. fs[p].after = sp
        BY <3>1 DEF Held, Linked
      <4>2. Count("data") = 1 /\ - (4 * 1) = - 4
        BY DEF Count
      <4>3. fs[p].after = Move(fs[p].esp, 4, - (4 * Count("data")))
        BY <3>1, <3>4 DEF Held, Framed, FrameOK
      <4> QED
        BY <4>1, <4>2, <4>3
    <3>6. PICK a \in Dword, k \in Int, l \in Int :
            a = fs[i].esp /\ k = - (4 * (p - i)) /\ l = - 4 /\ k + l = - (4 * (j - i))
      BY <1>2, <3>1, FieldsOf
    <3>7. Move(Move(a, 4, k), 4, l) = Move(a, 4, k + l)
      BY MoveMove DEF Sizes
    <3> QED
      BY <1>2, <2>3, <3>1, <3>3, <3>5, <3>6, <3>7
  <2> QED
    BY <1>5, <2>1, <2>2, <2>3
<1> QED
  BY <1>2, <1>7, <1>8, <1>9, <1>10 DEF Held, gs


-----------------------------------------------------------------------------
(* Several pushes and pops                                                 *)

\* Behind k pushes of a handler that began with m at depth d.
Lowered(base, d, m, size, k, n) ==
  /\ MachineOK(n)
  /\ n.ok => m.ok /\ n.reg[SP] = Move(m.reg[SP], size, - (size * k))
  /\ n.ok /\ d + size * k <= Half => Keeps(base, d, m.mem, n.mem)

LEMMA LoweredNone ==
  ASSUME NEW base, NEW d, NEW m, MachineOK(m), NEW size \in Sizes
  PROVE  Lowered(base, d, m, size, 0, m)
<1>1. - (size * 0) = 0
  BY DEF Sizes
<1>2. m.reg[SP] \in Dword
  BY DEF MachineOK, RegsOK, SP
<1> QED
  BY <1>1, <1>2, MoveNowhere DEF Lowered, Keeps

LEMMA LoweredSet ==
  ASSUME NEW base, NEW d, NEW m, NEW size \in Sizes, NEW k, NEW n, Lowered(base, d, m, size, k, n),
         NEW r \in 0 .. 7, r # SP, NEW v \in Int
  PROVE  Lowered(base, d, m, size, k, Set(n, size, r, v))
<1>1. PICK o : o = Set(n, size, r, v)
  OBVIOUS
<1>2. SetFacts(n, size, r, v, o)
  BY <1>1, Sets DEF Lowered
<1>3. MachineOK(o) /\ o.mem = n.mem /\ o.ok = n.ok
  BY <1>2 DEF SetFacts
<1>4. o.ok => o.reg[SP] = n.reg[SP]
  BY <1>2, <1>3 DEF SetFacts, RegSet, SP
<1> QED
  BY <1>1, <1>3, <1>4 DEF Lowered

\* The value of the push that follows, and what becomes of SP and memory.
LEMMA LoweredMore ==
  ASSUME NEW base \in Int, NEW d \in Nat, NEW m, MachineOK(m), Alike(m.reg[SP], base - d),
         NEW size \in Sizes, NEW k \in Nat, NEW n, Lowered(base, d, m, size, k, n),
         NEW v \in Dword, v = W(size, v), NEW o, o = Push(n, size, v)
  PROVE  /\ Lowered(base, d, m, size, k + 1, o)
         /\ o.ok => n.ok
         /\ o.ok /\ d + size * (k + 1) <= Half =>
              /\ Keeps(base, d + size * k, n.mem, o.mem)
              /\ Load(o.mem, W(size, m.reg[SP] - size * (k + 1)), size) = v
<1>1. PICK x \in Nat : x = size * k
  BY DEF Sizes
<1>2. size * (k + 1) = x + size /\ size \in Nat
  BY <1>1 DEF Sizes
<1>3. v \in Int
  BY Constants DEF Dword
<1>4. PushFacts(n, size, v, o)
  BY <1>3, Pushes DEF Lowered
<1>5. PICK sp \in Dword : sp = m.reg[SP]
  BY DEF MachineOK, RegsOK, SP
<1>6. CASE ~ o.ok
  BY <1>4, <1>6 DEF Lowered, PushFacts
<1>7. CASE o.ok
  <2>1. n.ok /\ m.ok /\ n.reg[SP] = Move(sp, size, - x)
    BY <1>1, <1>4, <1>5, <1>7 DEF Lowered, PushFacts
  <2>2. o.reg[SP] = Move(sp, size, - (x + size))
    <3>1. PICK a \in Int, b \in Int : a = - x /\ b = - size
      BY <1>2
    <3>2. a + b = - (x + size)
      BY <1>2, <3>1
    <3>3. Move(Move(sp, size, a), size, b) = Move(sp, size, a + b)
      BY MoveMove
    <3>4. o.reg[SP] = Move(n.reg[SP], size, b)
      BY <1>4, <1>7, <3>1 DEF PushFacts
    <3> QED
      BY <2>1, <3>1, <3>2, <3>3, <3>4
  <2>3. CASE d + (x + size) <= Half
    <3>1. PICK e \in Nat : e = d + x /\ d <= e /\ e + size <= Half
      BY <1>2, <2>3
    <3>2. Alike(n.reg[SP], base - e)
      <4>1. x \in Int /\ d \in Int /\ Alike(sp, base - d)
        BY <1>5
      <4>2. Alike(Move(sp, size, - x), base - (d + x))
        BY <4>1, AlikeMoved
      <4> QED
        BY <2>1, <3>1, <4>2
    <3>3. PushLeaves(base, e, n, size, v, o)
      BY <1>7, <3>1, <3>2, PushLeft DEF Lowered
    <3>4. Keeps(base, d, m.mem, n.mem)
      <4>1. d + size * k <= Half
        BY <1>1, <1>2, <3>1, Constants
      <4> QED
        BY <2>1, <4>1 DEF Lowered
    <3>5. Keeps(base, d, m.mem, o.mem)
      BY <3>1, <3>3, <3>4, KeepsTwice DEF PushLeaves
    <3>6. W(size, n.reg[SP] - size) = W(size, sp - (x + size))
      <4>1. PICK t \in Dword : t = n.reg[SP]
        BY <2>1, <1>2, MoveIs DEF MoveFacts
      <4>2. PICK b \in Int, c \in Int : b = - size /\ c = - (x + size)
        BY <1>2
      <4>3. t + b = t - size /\ sp + c = sp - (x + size)
        BY <1>2, <4>2, Constants DEF Dword
      <4>4. o.reg[SP] = Move(t, size, b) /\ o.reg[SP] = Move(sp, size, c)
        BY <1>4, <1>7, <2>2, <4>1, <4>2 DEF PushFacts
      <4>5. W(size, Move(t, size, b)) = W(size, t + b) /\ W(size, Move(sp, size, c)) = W(size, sp + c)
        BY MoveIs DEF MoveFacts
      <4> QED
        BY <4>1, <4>3, <4>4, <4>5
    <3>7. Load(o.mem, W(size, sp - (x + size)), size) = v
      BY <3>3, <3>6 DEF PushLeaves
    <3> QED
      BY <1>1, <1>2, <1>4, <1>5, <1>7, <2>1, <2>2, <3>1, <3>3, <3>5, <3>7
         DEF Lowered, PushFacts, PushLeaves
  <2>4. CASE ~ d + (x + size) <= Half
    BY <1>1, <1>2, <1>4, <1>5, <1>7, <2>1, <2>2, <2>4 DEF Lowered, PushFacts
  <2> QED
    BY <2>3, <2>4
<1> QED
  BY <1>6, <1>7

\* Behind k pushes of the first k of vals.
Pushed(base, d, m, size, vals, k, n) ==
  /\ Lowered(base, d, m, size, k, n)
  /\ n.ok /\ d + size * k <= Half =>
       \A j \in 1 .. k : Load(n.mem, W(size, m.reg[SP] - size * j), size) = vals[j]

LEMMA PushedNone ==
  ASSUME NEW base, NEW d, NEW m, MachineOK(m), NEW size \in Sizes, NEW vals
  PROVE  Pushed(base, d, m, size, vals, 0, m)
BY LoweredNone DEF Pushed

LEMMA PushedMore ==
  ASSUME NEW base \in Int, NEW d \in Nat, NEW m, MachineOK(m), Alike(m.reg[SP], base - d),
         NEW size \in Sizes, NEW vals, NEW k \in Nat, NEW n, Pushed(base, d, m, size, vals, k, n),
         NEW l, l = k + 1, vals[l] \in Dword, vals[l] = W(size, vals[l])
  PROVE  Pushed(base, d, m, size, vals, l, Push(n, size, vals[l]))
<1>1. PICK v \in Dword : v = vals[l] /\ v = W(size, v)
  OBVIOUS
<1>0. PICK o : o = Push(n, size, v)
  OBVIOUS
<1>2. Lowered(base, d, m, size, k, n)
  BY DEF Pushed
<1>3. /\ Lowered(base, d, m, size, l, o)
      /\ o.ok => n.ok
      /\ o.ok /\ d + size * l <= Half =>
           /\ Keeps(base, d + size * k, n.mem, o.mem)
           /\ Load(o.mem, W(size, m.reg[SP] - size * l), size) = v
  BY <1>0, <1>1, <1>2, LoweredMore
<1>4. PICK x \in Nat : x = size * k
  BY DEF Sizes
<1>5. size * l = x + size /\ size \in Nat
  BY <1>4 DEF Sizes
<1>6. ASSUME o.ok, d + size * l <= Half, NEW j \in 1 .. k
      PROVE  Load(o.mem, W(size, m.reg[SP] - size * j), size) = vals[j]
  <2>1. d + size * k <= Half /\ n.ok
    <3>1. d + (x + size) <= Half
      BY <1>5, <1>6
    <3>2. d + x <= Half
      BY <1>5, <3>1, Constants
    <3> QED
      BY <1>3, <1>4, <1>6, <3>2
  <2>2. Load(n.mem, W(size, m.reg[SP] - size * j), size) = vals[j]
    BY <2>1 DEF Pushed
  <2>3. PICK e \in Nat, y \in Nat, f \in Nat :
          y = size * j /\ e = d + y /\ f = d + x /\ size <= e /\ e <= f /\ f <= Half
    <3>1. size * j \in Nat /\ size <= size * j /\ size * j <= size * k
      BY DEF Sizes
    <3>2. PICK y \in Nat : y = size * j /\ size <= y /\ y <= x
      BY <1>4, <3>1
    <3>3. d + x <= Half /\ size \in Nat
      BY <1>4, <2>1 DEF Sizes
    <3> QED
      BY <3>2, <3>3, Constants
  <2>4. PICK sp \in Dword : sp = m.reg[SP]
    BY DEF MachineOK, RegsOK, SP
  <2>5. PICK a \in Int : a = W(size, sp - y)
    <3>1. sp - y \in Int
      BY Constants DEF Dword
    <3> QED
      BY <3>1, Operand, Constants DEF Dword
  <2>6. Alike(a, base - e)
    <3>1. y \in Int /\ d \in Int /\ Alike(sp, base - d)
      BY <2>4
    <3> QED
      BY <2>3, <2>5, <3>1, AlikeMoved
  <2>7. Keeps(base, f, n.mem, o.mem)
    BY <1>3, <1>4, <1>6, <2>3
  <2>8. Load(n.mem, a, size) = Load(o.mem, a, size)
    BY <2>3, <2>6, <2>7, LoadKept
  <2> QED
    BY <2>2, <2>3, <2>4, <2>5, <2>8
<1>7. \A j \in 1 .. l : j \in 1 .. k \/ j = l
  OBVIOUS
<1> QED
  BY <1>0, <1>1, <1>3, <1>6, <1>7 DEF Pushed

\* Behind k pops of a handler that began with m.
Raised(m, size, k, n) ==
  /\ MachineOK(n) /\ n.mem = m.mem
  /\ n.ok => m.ok /\ n.reg[SP] = Move(m.reg[SP], size, size * k)

LEMMA RaisedNone ==
  ASSUME NEW m, MachineOK(m), NEW size \in Sizes
  PROVE  Raised(m, size, 0, m)
<1>1. size * 0 = 0
  BY DEF Sizes
<1>2. m.reg[SP] \in Dword
  BY DEF MachineOK, RegsOK, SP
<1> QED
  BY <1>1, <1>2, MoveNowhere DEF Raised

LEMMA RaisedOnce ==
  ASSUME NEW m, MachineOK(m), NEW size \in Sizes, NEW k \in Nat, NEW n, Raised(m, size, k, n), n.ok
  PROVE  /\ Move(n.reg[SP], size, size) = Move(m.reg[SP], size, size * (k + 1))
         /\ W(size, n.reg[SP]) = W(size, m.reg[SP] + size * k)
<1>1. PICK x \in Int : x = size * k
  BY DEF Sizes
<1>2. size * (k + 1) = x + size /\ size \in Int
  BY <1>1 DEF Sizes
<1>3. PICK sp \in Dword : sp = m.reg[SP]
  BY DEF MachineOK, RegsOK, SP
<1>4. n.reg[SP] = Move(sp, size, x)
  BY <1>1, <1>3 DEF Raised
<1>5. Move(Move(sp, size, x), size, size) = Move(sp, size, x + size)
  BY <1>2, MoveMove
<1>6. W(size, Move(sp, size, x)) = W(size, sp + x)
  BY MoveIs DEF MoveFacts
<1> QED
  BY <1>1, <1>2, <1>3, <1>4, <1>5, <1>6

LEMMA RaisedPop ==
  ASSUME NEW m, MachineOK(m), NEW size \in Sizes, NEW k \in Nat, NEW n, Raised(m, size, k, n),
         NEW l, l = k + 1
  PROVE  /\ Raised(m, size, l, Pop(n, size))
         /\ n.ok => Popped(n, size) = Load(m.mem, W(size, m.reg[SP] + size * k), size)
         /\ Popped(n, size) \in Dword /\ W(size, Popped(n, size)) = Popped(n, size)
<1>1. PICK o : o = Pop(n, size)
  OBVIOUS
<1>2. PopFacts(n, size, o) /\ Popped(n, size) = Load(n.mem, W(size, n.reg[SP]), size)
      /\ Popped(n, size) \in Dword /\ W(size, Popped(n, size)) = Popped(n, size)
  BY <1>1, Pops DEF Raised
<1>3. Raised(m, size, l, o)
  BY <1>2, RaisedOnce DEF Raised, PopFacts
<1>4. n.ok => Popped(n, size) = Load(m.mem, W(size, m.reg[SP] + size * k), size)
  BY <1>2, RaisedOnce DEF Raised
<1> QED
  BY <1>1, <1>2, <1>3, <1>4

\* What a pop to a register other than SP leaves in the registers.
Restored(m, size, k, r, n, o) ==
  /\ W(size, o.reg[r]) = Load(m.mem, W(size, m.reg[SP] + size * k), size)
  /\ \A q \in 0 .. 7 : q \notin {r, SP} => o.reg[q] = n.reg[q]

LEMMA RaisedMore ==
  ASSUME NEW m, MachineOK(m), NEW size \in Sizes, NEW k \in Nat, NEW n, Raised(m, size, k, n),
         NEW r \in 0 .. 7, r # SP, NEW l, l = k + 1, NEW o, o = PopInto(n, size, r)
  PROVE  /\ Raised(m, size, l, o)
         /\ o.ok => n.ok /\ Restored(m, size, k, r, n, o)
<1>1. PopIntoFacts(n, size, r, o)
  BY PopsInto DEF Raised
<1>2. Raised(m, size, l, o)
  BY <1>1, RaisedOnce DEF Raised, PopIntoFacts
<1>3. o.ok => n.ok /\ Restored(m, size, k, r, n, o)
  BY <1>1, RaisedOnce DEF Raised, PopIntoFacts, Restored
<1> QED
  BY <1>2, <1>3

LEMMA RaisedSkip ==
  ASSUME NEW m, MachineOK(m), NEW size \in Sizes, NEW k \in Nat, NEW n, Raised(m, size, k, n),
         NEW l, l = k + 1, NEW o, o = SkipSP(n, size)
  PROVE  /\ Raised(m, size, l, o)
         /\ o.ok => n.ok /\ \A q \in 0 .. 7 : q # SP => o.reg[q] = n.reg[q]
<1> USE Constants
<1>1. PICK sp \in Dword : sp = n.reg[SP]
  BY DEF Raised, MachineOK, RegsOK, SP
<1>2. PICK v \in Int : v = W(size, sp) + size
  <2>1. W(size, sp) \in Dword /\ size \in Int
    <3>1. sp \in Int /\ size \in Int
      BY DEF Dword, Sizes
    <3> QED
      BY <3>1, Operand
  <2> QED
    BY <2>1 DEF Dword
<1>3. o = Set(n, size, SP, v)
  BY <1>1, <1>2 DEF SkipSP, Top, Reg
<1>4. SetFacts(n, size, SP, v, o)
  BY <1>3, Sets DEF Raised, SP
<1>5. n.ok => o.reg[SP] = Move(sp, size, size)
  <2>1. n.ok => o.reg = SetReg(n.reg, size, SP, v) /\ n.reg \in [0 .. 7 -> Dword] /\ SP \in 0 .. 7
    BY <1>4 DEF SetFacts, Raised, MachineOK, RegsOK, SP
  <2>2. n.ok => o.reg[SP] = IF size = 2 THEN sp - (sp % Half) + (v % Half) ELSE v % Dwords
    BY <1>1, <2>1 DEF SetReg
  <2>3. PICK x \in Int, s \in Int : x = sp /\ s = size
    BY DEF Dword, Sizes
  <2>4. ((x % Half) + s) % Half = (x + s) % Half /\ ((x % Dwords) + s) % Dwords = (x + s) % Dwords
    BY TakenBefore
  <2> QED
    BY <1>2, <2>2, <2>3, <2>4 DEF Move, W
<1>6. Raised(m, size, l, o)
  BY <1>1, <1>4, <1>5, RaisedOnce DEF Raised, SetFacts
<1>7. o.ok => n.ok /\ \A q \in 0 .. 7 : q # SP => o.reg[q] = n.reg[q]
  BY <1>4 DEF SetFacts, RegSet
<1> QED
  BY <1>6, <1>7

-----------------------------------------------------------------------------
(* The invariant                                                           *)

FlowInv ==
  eip \in Dword /\ RegsOK(reg) /\ MemOK(mem) /\ Held(frames, mem, reg[SP])

\* What every step brings about.
Good == FlowInv /\ Unwinds

Base == BaseOf(frames, reg[SP])

LEMMA NowIs ==
  ASSUME FlowInv
  PROVE  /\ MachineOK(Now) /\ Now.ok /\ Now.reg = reg /\ Now.mem = mem
         /\ eip \in Dword /\ eip \in Int
         /\ reg[SP] \in Dword /\ Base \in Int /\ Depth \in Nat /\ Depth <= Half
         /\ Depth = DepthOf(frames) /\ Alike(Now.reg[SP], Base - Depth)
<1>1. Now.reg = reg /\ Now.mem = mem /\ Now.ok = TRUE
  BY DEF Now
<1>2. MachineOK(Now)
  BY <1>1 DEF Now, MachineOK, FlowInv
<1>3. reg[SP] \in Dword /\ eip \in Int
  BY Constants DEF FlowInv, RegsOK, SP, Dword
<1>4. Depth = DepthOf(frames)
  BY DEF Depth, DepthOf
<1> QED
  BY <1>1, <1>2, <1>3, <1>4, BaseIs DEF FlowInv, Base

LEMMA Ended ==
  ASSUME NEW m, MachineOK(m), NEW a \in Int, NEW b \in Int, Ends(m, a, b)
  PROVE  /\ eip' \in Dword /\ RegsOK(reg') /\ MemOK(mem')
         /\ reg' = m.reg /\ mem' = m.mem /\ eip' = (IF m.ok THEN a ELSE b) % Dwords
<1>1. reg' = m.reg /\ mem' = m.mem /\ eip' = (IF m.ok THEN a ELSE b) % Dwords
  BY DEF Ends
<1>2. eip' \in Dword
  BY <1>1, Constants, Remainder DEF Dword
<1> QED
  BY <1>1, <1>2 DEF MachineOK

LEMMA NothingToShow == unwound' = NoPop => Unwinds'
<1> SUFFICES ASSUME unwound' = NoPop PROVE Unwinds'
  OBVIOUS
<1>1. unwound'.kind = "none"
  BY DEF NoPop
<1> QED
  BY <1>1 DEF Unwinds

LEMMA Forgotten ==
  ASSUME NEW m, MachineOK(m), NEW a \in Int, NEW b \in Int, Ends(m, a, b), Forget
  PROVE  Good'
<1>1. frames' = << >> /\ Unwinds'
  BY NothingToShow DEF Forget
<1>2. Held(frames, mem, reg[SP])'
  BY <1>1, HeldEmpty
<1> QED
  BY <1>1, <1>2, Ended DEF Good, FlowInv

\* The frame a push leaves.
LEMMA Grown ==
  ASSUME FlowInv, NEW m, MachineOK(m), NEW a \in Int, NEW b \in Int, Ends(m, a, b),
         NEW f \in FrameType, NEW n \in Nat, GrowOr(m, f, n),
         f.esp = reg[SP], f.after = m.reg[SP], f.from = Depth,
         m.ok /\ f.to <= Half /\ f.from + n <= Half =>
           FrameOK(f) /\ Alike(f.after, Base - f.to)
           /\ Keeps(Base, Depth, mem, m.mem) /\ Intact(m.mem, f)
  PROVE  Good'
<1>1. CASE ~ m.ok
  BY <1>1, Forgotten DEF GrowOr
<1>2. CASE m.ok
  <2>1. frames' = (IF f.to <= Half /\ f.from + n <= Half THEN Append(frames, f) ELSE << >>)
        /\ Unwinds'
    BY <1>2, NothingToShow DEF GrowOr, Grow
  <2>2. CASE f.to <= Half /\ f.from + n <= Half
    <3>1. Placed(Base, f)
      BY <1>2, <2>2, NowIs DEF Placed, Now
    <3>2. Held(Append(frames, f), m.mem, f.after)
      BY <1>2, <2>2, <3>1, NowIs, HeldAppend DEF Base, FlowInv
    <3>3. Held(frames, mem, reg[SP])'
      BY <2>1, <2>2, <3>2, Ended
    <3> QED
      BY <2>1, <3>3, Ended DEF Good, FlowInv
  <2>3. CASE ~ (f.to <= Half /\ f.from + n <= Half)
    <3>1. Held(frames, mem, reg[SP])'
      BY <2>1, <2>3, HeldEmpty
    <3> QED
      BY <2>1, <3>1, Ended DEF Good, FlowInv
  <2> QED
    BY <2>2, <2>3
<1> QED
  BY <1>1, <1>2

-----------------------------------------------------------------------------
(* Pushes and calls                                                        *)

FrameFacts(f, kind, size, vals, n, m, next) ==
  /\ f \in FrameType
  /\ f.kind = kind /\ f.size = size /\ f.vals = vals /\ f.esp = reg[SP] /\ f.after = m.reg[SP]
  /\ f.from = Depth /\ f.to = Depth + n /\ f.next = next

LEMMA FrameIs ==
  ASSUME FlowInv, NEW kind \in Kinds, NEW size \in Sizes, NEW vals \in Seq(Dword),
         NEW n \in Nat, NEW m, MachineOK(m), NEW next \in Dword
  PROVE  FrameFacts(Frame(kind, size, vals, n, m, next), kind, size, vals, n, m, next)
<1>1. PICK esp \in Dword, after \in Dword, d \in Nat, e \in Nat :
        esp = reg[SP] /\ after = m.reg[SP] /\ d = Depth /\ e = d + n
  BY NowIs DEF MachineOK, RegsOK, SP
<1>2. PICK f : f = [kind |-> kind, size |-> size, vals |-> vals, esp |-> esp, after |-> after,
                    from |-> d, to |-> e, next |-> next]
  OBVIOUS
<1>3. f \in FrameType
  BY <1>2 DEF FrameType
<1>4. Frame(kind, size, vals, n, m, next) = f
  BY <1>1, <1>2, Zenon DEF Frame
<1> QED
  BY <1>1, <1>2, <1>3, <1>4 DEF FrameFacts

\* A handler that pushes vals, and nothing else.
LEMMA ValuesPushed ==
  ASSUME FlowInv, NEW kind \in Kinds, kind # "enter", NEW size \in Sizes,
         NEW vals \in Seq(Dword), Len(vals) = Count(kind),
         NEW m, Pushed(Base, Depth, Now, size, vals, Count(kind), m),
         NEW next \in Dword, kind = "near" => vals[1] = W(size, next),
         NEW n, n = size * Count(kind), NEW a \in Int, NEW b \in Int, Ends(m, a, b),
         GrowOr(m, Frame(kind, size, vals, n, m, next), n)
  PROVE  Good'
<1>1. n \in Nat /\ MachineOK(m)
  <2>1. Count(kind) \in Nat
    BY DEF Count
  <2> QED
    BY <2>1 DEF Pushed, Lowered, Sizes
<1>2. PICK f : f = Frame(kind, size, vals, n, m, next)
  OBVIOUS
<1>3. FrameFacts(f, kind, size, vals, n, m, next)
  BY <1>1, <1>2, FrameIs
<1>4. ASSUME m.ok, f.to <= Half
      PROVE  /\ FrameOK(f) /\ Alike(f.after, Base - f.to)
             /\ Keeps(Base, Depth, mem, m.mem) /\ Intact(m.mem, f)
  <2>1. Depth + n <= Half
    BY <1>3, <1>4 DEF FrameFacts
  <2>2. /\ m.reg[SP] = Move(reg[SP], size, - n) /\ Keeps(Base, Depth, mem, m.mem)
        /\ \A k \in 1 .. Count(kind) : Load(m.mem, W(size, reg[SP] - size * k), size) = vals[k]
    BY <1>4, <2>1, NowIs DEF Pushed, Lowered
  <2>3. FrameOK(f)
    <3>1. f.from + f.size * Count(f.kind) <= f.to /\ f.to <= Half
      BY <1>1, <1>3, <1>4, NowIs DEF FrameFacts
    <3> QED
      BY <1>3, <2>2, <3>1 DEF FrameFacts, FrameOK
  <2>4. Alike(f.after, Base - f.to)
    <3>1. PICK sp \in Dword, d \in Int : sp = reg[SP] /\ d = Depth
      BY NowIs
    <3>2. n \in Int /\ Base \in Int /\ Alike(sp, Base - d)
      BY <1>1, <3>1, NowIs
    <3>3. Alike(Move(sp, size, - n), Base - (d + n))
      BY <3>2, AlikeMoved
    <3> QED
      BY <1>3, <2>2, <3>1, <3>3 DEF FrameFacts
  <2>5. Intact(m.mem, f)
    BY <1>3, <2>2 DEF FrameFacts, Intact, Slot
  <2> QED
    BY <2>2, <2>3, <2>4, <2>5
<1>5. f \in FrameType /\ f.esp = reg[SP] /\ f.after = m.reg[SP] /\ f.from = Depth
  BY <1>3 DEF FrameFacts
<1>6. GrowOr(m, f, n)
  BY <1>2
<1> QED
  BY <1>1, <1>4, <1>5, <1>6, Grown

\* One value.
LEMMA ValuePushed ==
  ASSUME FlowInv, NEW kind \in {"data", "near"}, NEW size \in Sizes,
         NEW v \in Dword, v = W(size, v), NEW m, m = Push(Now, size, v),
         NEW next \in Dword, kind = "near" => v = W(size, next),
         NEW a \in Int, NEW b \in Int, Ends(m, a, b),
         GrowOr(m, Frame(kind, size, <<v>>, size, m, next), size)
  PROVE  Good'
<1>1. PICK vals \in Seq(Dword) : vals = <<v>> /\ Len(vals) = 1 /\ vals[1] = v
  <2>1. <<v>> \in Seq(Dword) /\ Len(<<v>>) = 1 /\ <<v>>[1] = v
    OBVIOUS
  <2> QED
    BY <2>1, Zenon
<1>2. Count(kind) = 1 /\ kind \in Kinds /\ kind # "enter" /\ size = size * 1 /\ 1 = 0 + 1
  BY DEF Count, Kinds, Sizes
<1>3. Pushed(Base, Depth, Now, size, vals, 0, Now)
  BY NowIs, PushedNone
<1>4. Pushed(Base, Depth, Now, size, vals, 1, m)
  BY <1>1, <1>2, <1>3, NowIs, PushedMore
<1>5. GrowOr(m, Frame(kind, size, vals, size, m, next), size)
  BY <1>1
<1> QED
  BY <1>1, <1>2, <1>4, <1>5, ValuesPushed

LEMMA OperandOfReg ==
  ASSUME NEW rs, RegsOK(rs), NEW size \in Sizes, NEW r \in 0 .. 7
  PROVE  Reg(rs, size, r) \in Dword /\ W(size, Reg(rs, size, r)) = Reg(rs, size, r)
<1>1. PICK x \in Dword : x = rs[r]
  BY DEF RegsOK
<1>2. x \in Int
  BY Constants DEF Dword
<1> QED
  BY <1>1, <1>2, Operand DEF Reg

LEMMA PushRegGood ==
  ASSUME FlowInv, NEW size \in Sizes, NEW r \in Operands, PushReg(size, r)
  PROVE  Good'
<1>1. r \in 0 .. 7
  BY FlowAssumption
<1>2. PICK v \in Dword : v = Reg(reg, size, r) /\ v = W(size, v)
  BY <1>1, OperandOfReg DEF FlowInv
<1>3. PICK m : m = Push(Now, size, v)
  OBVIOUS
<1>4. Ends(m, eip + 1, eip) /\ GrowOr(m, Frame("data", size, <<v>>, size, m, 0), size)
  BY <1>2, <1>3 DEF PushReg
<1>5. eip \in Int /\ eip + 1 \in Int /\ 0 \in Dword
  BY NowIs, Constants DEF Dword
<1> QED
  BY <1>2, <1>3, <1>4, <1>5, ValuePushed

LEMMA NextIs ==
  ASSUME FlowInv, NEW k \in Int, NEW size \in Sizes
  PROVE  /\ (eip + k) % Dwords \in Dword /\ (eip + k) % Dwords \in Int
         /\ W(size, (eip + k) % Dwords) \in Dword
         /\ W(size, W(size, (eip + k) % Dwords)) = W(size, (eip + k) % Dwords)
<1>1. PICK x \in Int : x = eip + k
  BY NowIs
<1>2. x % Dwords \in Dword /\ x % Dwords \in Int
  <2>1. x % Dwords \in 0 .. Dwords - 1
    BY Constants, Remainder
  <2> QED
    BY <2>1, Constants DEF Dword
<1> QED
  BY <1>1, <1>2, Operand

LEMMA CallRelGood ==
  ASSUME FlowInv, NEW size \in Sizes, NEW rel \in Rels, CallRel(size, rel)
  PROVE  Good'
<1>1. PICK k \in Int : k = size + 1
  BY DEF Sizes
<1>2. PICK next \in Dword : next = (eip + size + 1) % Dwords /\ next \in Int
  <2>1. eip + size + 1 = eip + k
    BY <1>1, NowIs DEF Sizes
  <2> QED
    BY <2>1, NextIs
<1>3. PICK v \in Dword : v = W(size, next) /\ W(size, v) = v
  BY <1>2, Operand
<1>4. PICK m, a : m = Push(Now, size, v) /\ a = Near(next, rel, size)
  OBVIOUS
<1>5. Ends(m, a, next) /\ GrowOr(m, Frame("near", size, <<v>>, size, m, next), size)
  BY <1>2, <1>3, <1>4 DEF CallRel, PushNext, CallFrame
<1>6. a \in Int
  <2>1. (next + rel) % Dwords \in Int
    BY <1>2, FlowAssumption, Constants, Remainder
  <2> QED
    BY <1>4, <2>1, Operand, Constants DEF Near, Dword
<1> QED
  BY <1>2, <1>3, <1>4, <1>5, <1>6, ValuePushed

LEMMA CallRmGood ==
  ASSUME FlowInv, NEW size \in Sizes, NEW r \in Operands, CallRm(size, r)
  PROVE  Good'
<1>1. PICK next \in Dword : next = (eip + 2) % Dwords /\ next \in Int
  BY NextIs
<1>2. PICK v \in Dword : v = W(size, next) /\ W(size, v) = v /\ v \in Int
  <2>1. W(size, next) \in Dword /\ W(size, W(size, next)) = W(size, next)
    BY <1>1, Operand
  <2> QED
    BY <2>1, Constants DEF Dword
<1>3. PICK m, a : m = Push(Now, size, v) /\ a = Reg(m.reg, size, r)
  OBVIOUS
<1>4. Ends(m, a, eip + 1) /\ GrowOr(m, Frame("near", size, <<v>>, size, m, next), size)
  BY <1>1, <1>2, <1>3 DEF CallRm, PushNext, CallFrame
<1>5. a \in Int /\ eip + 1 \in Int
  <2>1. MachineOK(m) /\ r \in 0 .. 7
    BY <1>2, <1>3, NowIs, Pushes, FlowAssumption DEF PushFacts
  <2> QED
    BY <1>3, <2>1, NowIs, OperandOfReg, Constants DEF MachineOK, Dword
<1> QED
  BY <1>1, <1>2, <1>3, <1>4, <1>5, ValuePushed

LEMMA CallFarGood ==
  ASSUME FlowInv, NEW size \in Sizes, NEW place \in Places, CallFar(size, place)
  PROVE  Good'
<1>1. PICK k \in Int : k = size + 3
  BY DEF Sizes
<1>2. PICK next \in Dword : next = (eip + size + 3) % Dwords /\ next \in Int
  <2>1. eip + size + 3 = eip + k
    BY <1>1, NowIs DEF Sizes
  <2> QED
    BY <2>1, NextIs
<1>3. PICK v \in Dword : v = W(size, next) /\ W(size, v) = v
  BY <1>2, Operand
<1>4. 0 \in Dword /\ W(size, 0) = 0
  BY Constants, SmallStays DEF Dword, W
<1>5. PICK vals \in Seq(Dword) : vals = <<0, v>> /\ Len(vals) = 2 /\ vals[1] = 0 /\ vals[2] = v
  <2>1. <<0, v>> \in Seq(Dword) /\ Len(<<0, v>>) = 2 /\ <<0, v>>[1] = 0 /\ <<0, v>>[2] = v
    BY <1>4
  <2> QED
    BY <2>1, Zenon
<1>6. PICK m1 : m1 = Push(Now, size, vals[1])
  OBVIOUS
<1>7. PICK m : m = Push(m1, size, vals[2])
  OBVIOUS
<1>8. Ends(m, W(size, place), eip) /\ GrowOr(m, Frame("far", size, vals, 2 * size, m, next), 2 * size)
  BY <1>2, <1>3, <1>5, <1>6, <1>7 DEF CallFar, PushNext
<1>9. Pushed(Base, Depth, Now, size, vals, 0, Now)
  BY NowIs, PushedNone
<1>10. Pushed(Base, Depth, Now, size, vals, 1, m1)
  <2>1. 1 = 0 + 1 /\ vals[1] \in Dword /\ vals[1] = W(size, vals[1])
    BY <1>4, <1>5
  <2> QED
    BY <1>6, <1>9, <2>1, NowIs, PushedMore
<1>11. Pushed(Base, Depth, Now, size, vals, 2, m)
  <2>1. 2 = 1 + 1 /\ vals[2] \in Dword /\ vals[2] = W(size, vals[2])
    BY <1>3, <1>5
  <2> QED
    BY <1>7, <1>10, <2>1, NowIs, PushedMore
<1>12. Count("far") = 2 /\ "far" \in Kinds /\ 2 * size = size * 2
  BY DEF Count, Kinds, Sizes
<1>13. W(size, place) \in Int /\ eip \in Int
  <2>1. place \in Int
    BY FlowAssumption, Constants DEF Dword
  <2> QED
    BY <2>1, Operand, NowIs, Constants DEF Dword
<1> QED
  BY <1>2, <1>5, <1>8, <1>11, <1>12, <1>13, ValuesPushed

LEMMA PushaGood ==
  ASSUME FlowInv, NEW size \in Sizes, Pusha(size)
  PROVE  Good'
<1>0. PICK vals : vals = [k \in 1 .. 8 |-> Reg(reg, size, k - 1)]
  OBVIOUS
<1>1. /\ vals \in Seq(Dword) /\ Len(vals) = 8
      /\ \A k \in 1 .. 8 : vals[k] \in Dword /\ vals[k] = W(size, vals[k])
  <2>1. \A k \in 1 .. 8 : Reg(reg, size, k - 1) \in Dword
                          /\ Reg(reg, size, k - 1) = W(size, Reg(reg, size, k - 1))
    <3> TAKE k \in 1 .. 8
    <3>1. PICK r \in 0 .. 7 : r = k - 1
      OBVIOUS
    <3> QED
      BY <3>1, OperandOfReg DEF FlowInv
  <2>2. vals \in [1 .. 8 -> Dword] /\ \A k \in 1 .. 8 : vals[k] = Reg(reg, size, k - 1)
    BY <1>0, <2>1
  <2>3. vals \in Seq(Dword) /\ Len(vals) = 8
    <3>1. vals \in [1 .. 8 -> Dword]
      BY <2>2
    <3>2. vals \in Seq(Dword)
      BY <3>1, SeqDef
    <3>3. DOMAIN vals = 1 .. 8
      BY <3>1
    <3> QED
      BY <3>2, <3>3, LenProperties
  <2>4. \A k \in 1 .. 8 : vals[k] \in Dword /\ vals[k] = W(size, vals[k])
    BY <2>1, <2>2
  <2> QED
    BY <2>3, <2>4
<1>2. PICK m1 : m1 = Push(Now, size, vals[1])
  OBVIOUS
<1>3. PICK m2 : m2 = Push(m1, size, vals[2])
  OBVIOUS
<1>4. PICK m3 : m3 = Push(m2, size, vals[3])
  OBVIOUS
<1>5. PICK m4 : m4 = Push(m3, size, vals[4])
  OBVIOUS
<1>6. PICK m5 : m5 = Push(m4, size, vals[5])
  OBVIOUS
<1>7. PICK m6 : m6 = Push(m5, size, vals[6])
  OBVIOUS
<1>8. PICK m7 : m7 = Push(m6, size, vals[7])
  OBVIOUS
<1>9. PICK m8 : m8 = Push(m7, size, vals[8])
  OBVIOUS
<1>10. PushFour(PushFour(Now, size, vals, 1), size, vals, 5) = m8
  <2>1. 1 + 1 = 2 /\ 1 + 2 = 3 /\ 1 + 3 = 4 /\ 5 + 1 = 6 /\ 5 + 2 = 7 /\ 5 + 3 = 8
    OBVIOUS
  <2>2. PushFour(Now, size, vals, 1) = m4
    BY <1>2, <1>3, <1>4, <1>5, <2>1, Zenon DEF PushFour
  <2>3. PushFour(m4, size, vals, 5) = m8
    BY <1>6, <1>7, <1>8, <1>9, <2>1, Zenon DEF PushFour
  <2> QED
    BY <2>2, <2>3
<1>11. Ends(m8, eip + 1, eip) /\ GrowOr(m8, Frame("all", size, vals, 8 * size, m8, 0), 8 * size)
  BY <1>0, <1>10, Zenon DEF Pusha
<1>12. ASSUME NEW k \in 0 .. 7, NEW n, Pushed(Base, Depth, Now, size, vals, k, n)
       PROVE  Pushed(Base, Depth, Now, size, vals, k + 1, Push(n, size, vals[k + 1]))
  <2>1. PICK l \in 1 .. 8 : l = k + 1
    OBVIOUS
  <2>2. vals[l] \in Dword /\ vals[l] = W(size, vals[l])
    BY <1>1
  <2>3. k \in Nat /\ Base \in Int /\ Depth \in Nat /\ MachineOK(Now) /\ Alike(Now.reg[SP], Base - Depth)
    BY NowIs
  <2>4. Pushed(Base, Depth, Now, size, vals, l, Push(n, size, vals[l]))
    BY <1>12, <2>1, <2>2, <2>3, PushedMore
  <2> QED
    BY <2>1, <2>4
<1>13. Pushed(Base, Depth, Now, size, vals, 0, Now)
  BY NowIs, PushedNone
<1>14. Pushed(Base, Depth, Now, size, vals, 1, m1)
  BY <1>2, <1>12, <1>13
<1>15. Pushed(Base, Depth, Now, size, vals, 2, m2)
  BY <1>3, <1>12, <1>14
<1>16. Pushed(Base, Depth, Now, size, vals, 3, m3)
  BY <1>4, <1>12, <1>15
<1>17. Pushed(Base, Depth, Now, size, vals, 4, m4)
  BY <1>5, <1>12, <1>16
<1>18. Pushed(Base, Depth, Now, size, vals, 5, m5)
  BY <1>6, <1>12, <1>17
<1>19. Pushed(Base, Depth, Now, size, vals, 6, m6)
  BY <1>7, <1>12, <1>18
<1>20. Pushed(Base, Depth, Now, size, vals, 7, m7)
  BY <1>8, <1>12, <1>19
<1>21. Pushed(Base, Depth, Now, size, vals, 8, m8)
  BY <1>9, <1>12, <1>20
<1>22. Count("all") = 8 /\ "all" \in Kinds /\ 8 * size = size * 8
  BY DEF Count, Kinds, Sizes
<1>23. eip + 1 \in Int /\ eip \in Int /\ 0 \in Dword
  <2>1. eip \in Int
    BY NowIs, Zenon
  <2>2. 0 \in Dword
    BY Constants DEF Dword
  <2> QED
    BY <2>1, <2>2
<1>24. PICK n : n = 8 * size /\ n = size * Count("all")
  BY <1>22
<1>25. GrowOr(m8, Frame("all", size, vals, n, m8, 0), n)
  BY <1>11, <1>24, Zenon
<1>26. Len(vals) = Count("all") /\ Pushed(Base, Depth, Now, size, vals, Count("all"), m8)
  BY <1>1, <1>21, <1>22, Zenon
<1>27. "all" # "enter" /\ ("all" = "near" => vals[1] = W(size, 0))
  OBVIOUS
<1> QED
  BY <1>1, <1>11, <1>22, <1>23, <1>24, <1>25, <1>26, <1>27, ValuesPushed

-----------------------------------------------------------------------------
(* Pops and returns                                                        *)

TopFacts(f, kind, size, c) ==
  /\ f \in FrameType /\ f.kind = kind /\ f.size = size /\ FrameOK(f)
  /\ DOMAIN f.vals = 1 .. c
  /\ Move(reg[SP], size, size * c) = f.esp
  /\ \A k \in 1 .. c : Load(mem, W(size, reg[SP] + size * (c - k)), size) = f.vals[k]

LEMMA TopIs ==
  ASSUME FlowInv, NEW kind, kind # "enter", NEW size \in Sizes, OnTop(kind, size),
         NEW c, c = Count(kind)
  PROVE  /\ Len(frames) \in 1 .. Len(frames) /\ Len(frames) \in Nat
         /\ TopFacts(frames[Len(frames)], kind, size, c)
<1> USE Constants
<1>1. frames \in Seq(FrameType) /\ frames # << >> /\ Len(frames) \in 1 .. Len(frames)
      /\ Len(frames) \in Nat
  BY DEF FlowInv, Held, OnTop
<1>2. PICK f \in FrameType : f = frames[Len(frames)]
  BY <1>1
<1>3. f.kind = kind /\ f.size = size /\ FrameOK(f) /\ Intact(mem, f) /\ f.after = reg[SP]
  BY <1>1, <1>2 DEF FlowInv, Held, Framed, Linked, OnTop
<1>4. c \in Nat /\ f.esp \in Dword /\ f.vals \in Seq(Dword)
  BY FieldsOf DEF Count
<1>5. DOMAIN f.vals = 1 .. c
  BY <1>3, <1>4 DEF FrameOK
<1>6. PICK esp \in Dword, x \in Nat : esp = f.esp /\ x = size * c
  BY <1>4 DEF Sizes
<1>7. PICK sp \in Dword, y \in Int : y = - x /\ sp = Move(esp, size, y) /\ sp = reg[SP]
  <2>1. reg[SP] \in Dword /\ - x \in Int
    BY NowIs
  <2>2. f.after = Move(f.esp, size, - (size * c))
    BY <1>3, Zenon DEF FrameOK
  <2> QED
    BY <1>3, <1>6, <2>1, <2>2
<1>8. Move(sp, size, x) = esp
  <2>1. Move(Move(esp, size, y), size, x) = Move(esp, size, y + x)
    BY MoveMove
  <2>2. y + x = 0
    BY <1>7
  <2> QED
    BY <1>7, <2>1, <2>2, MoveNowhere
<1>9. ASSUME NEW k \in 1 .. c
      PROVE  Load(mem, W(size, sp + size * (c - k)), size) = f.vals[k]
  <2>1. PICK z \in Int, w \in Int : z = size * (c - k) /\ w = size * k /\ y + z = - w
    <3>1. size * (c - k) \in Int /\ size * k \in Int /\ (- (size * c)) + size * (c - k) = - (size * k)
      <4>1. c \in Int /\ k \in Int /\ (size = 2 \/ size = 4)
        BY <1>4 DEF Sizes
      <4> QED
        BY <4>1
    <3> QED
      BY <1>6, <1>7, <3>1
  <2>2. W(size, Move(sp, size, z)) = W(size, sp + z)
    BY MoveIs DEF MoveFacts
  <2>3. Move(Move(esp, size, y), size, z) = Move(esp, size, y + z)
    BY MoveMove
  <2>4. W(size, Move(esp, size, y + z)) = W(size, esp + (y + z))
    BY MoveIs DEF MoveFacts
  <2>5. esp + (y + z) = esp - w
    BY <2>1 DEF Dword
  <2>6. Slot(f, k) = W(size, esp - w)
    BY <1>3, <1>6, <2>1 DEF Slot
  <2>7. Load(mem, Slot(f, k), size) = f.vals[k]
    BY <1>3 DEF Intact
  <2> QED
    BY <1>7, <2>1, <2>2, <2>3, <2>4, <2>5, <2>6, <2>7
<1> QED
  BY <1>1, <1>2, <1>3, <1>5, <1>6, <1>7, <1>8, <1>9 DEF TopFacts

\* What a handler that takes off all frames from the k-th on leaves.
LEMMA Unwound ==
  ASSUME FlowInv, NEW k \in 1 .. Len(frames), NEW m, MachineOK(m), m.mem = mem,
         m.reg[SP] = frames[k].esp, NEW a \in Int, NEW b \in Int, Ends(m, a, b),
         frames' = SubSeq(frames, 1, k - 1)
  PROVE  FlowInv'
<1>1. Held(SubSeq(frames, 1, k - 1), mem, frames[k].esp)
  BY HeldPrefix DEF FlowInv
<1>2. Held(frames, mem, reg[SP])'
  BY <1>1, Ended
<1> QED
  BY <1>2, Ended DEF FlowInv

\* A handler that pops what the topmost frame holds.
LEMMA TopUnwound ==
  ASSUME FlowInv, NEW kind \in Kinds, kind # "enter", NEW size \in Sizes, NEW c, c = Count(kind),
         NEW m, Raised(Now, size, c, m),
         NEW a \in Int, NEW b \in Int, Ends(m, a, b),
         NEW got, UnwindOr(m, kind, size, got),
         m.ok => \A k \in 1 .. c : \/ got[k] = Load(mem, W(size, reg[SP] + size * (c - k)), size)
                                   \/ kind = "all" /\ k - 1 = SP,
         kind = "near" => a = got[1] /\ a \in Dword
  PROVE  Good'
<1> USE Constants
<1>1. CASE ~ (m.ok /\ OnTop(kind, size))
  BY <1>1, Forgotten DEF UnwindOr, Raised
<1>2. CASE m.ok /\ OnTop(kind, size)
  <2>1. PICK top \in 1 .. Len(frames) : top = Len(frames)
    BY <1>2, TopIs
  <2>2. PICK f : f = frames[top]
    OBVIOUS
  <2>3. TopFacts(f, kind, size, c)
    BY <1>2, <2>1, <2>2, TopIs
  <2>4. /\ frames' = SubSeq(frames, 1, top - 1)
        /\ unwound' = [kind |-> f.kind, size |-> f.size, want |-> f.vals, got |-> got,
                       esp |-> f.esp, next |-> f.next]
    BY <1>2, <2>1, <2>2 DEF UnwindOr, Unwind
  <2>5. m.reg[SP] = f.esp /\ m.mem = mem /\ MachineOK(m)
    BY <1>2, <2>3, NowIs DEF Raised, TopFacts
  <2>6. FlowInv'
    BY <2>1, <2>2, <2>4, <2>5, Unwound
  <2>7. \A k \in DOMAIN f.vals : got[k] = f.vals[k] \/ (f.kind = "all" /\ k - 1 = SP)
    BY <1>2, <2>3 DEF TopFacts
  <2>8. kind = "near" => eip' = W(size, f.next)
    <3> HAVE kind = "near"
    <3>1. c = 1 /\ f.vals[1] = W(size, f.next)
      BY <2>3 DEF Count, TopFacts, FrameOK
    <3>2. got[1] = f.vals[1]
      BY <2>3, <2>7, <3>1 DEF TopFacts
    <3>3. eip' = a % Dwords
      BY <1>2, <2>5, Ended
    <3>4. a % Dwords = a
      BY SmallStays DEF Dword
    <3> QED
      BY <3>1, <3>2, <3>3, <3>4
  <2>9. Unwinds'
    <3>1. reg'[SP] = f.esp
      BY <2>5, Ended
    <3>2. unwound'.kind = kind /\ unwound'.size = size /\ unwound'.want = f.vals
          /\ unwound'.got = got /\ unwound'.esp = f.esp /\ unwound'.next = f.next
      BY <2>3, <2>4 DEF TopFacts
    <3>3. kind = f.kind
      BY <2>3 DEF TopFacts
    <3> QED
      BY <2>7, <2>8, <3>1, <3>2, <3>3 DEF Unwinds
  <2> QED
    BY <2>4, <2>6, <2>9, NothingToShow DEF Good
<1> QED
  BY <1>1, <1>2

LEMMA OnePop ==
  ASSUME FlowInv, NEW size \in Sizes
  PROVE  /\ Raised(Now, size, 1, Pop(Now, size))
         /\ Popped(Now, size) = Load(mem, W(size, reg[SP] + size * 0), size)
         /\ Popped(Now, size) \in Dword /\ Popped(Now, size) \in Int
<1>1. Raised(Now, size, 0, Now) /\ 0 \in Nat /\ 1 = 0 + 1 /\ MachineOK(Now)
  BY NowIs, RaisedNone
<1>2. Raised(Now, size, 1, Pop(Now, size))
      /\ Popped(Now, size) = Load(mem, W(size, reg[SP] + size * 0), size)
      /\ Popped(Now, size) \in Dword
  BY <1>1, NowIs, RaisedPop
<1> QED
  BY <1>2, Constants DEF Dword

LEMMA OneValue ==
  ASSUME NEW v
  PROVE  \E got : got = <<v>> /\ got[1] = v
<1>1. <<v>>[1] = v
  OBVIOUS
<1> QED
  BY <1>1, Zenon

LEMMA PopRegGood ==
  ASSUME FlowInv, NEW size \in Sizes, NEW r \in Operands, PopReg(size, r)
  PROVE  Good'
<1>1. PICK m : m = PopInto(Now, size, r)
  OBVIOUS
<1>2. r \in 0 .. 7 /\ eip + 1 \in Int /\ eip \in Int
  BY FlowAssumption, NowIs
<1>3. Ends(m, eip + 1, eip)
  BY <1>1 DEF PopReg
<1>4. MachineOK(m)
  BY <1>1, <1>2, NowIs, PopsInto DEF PopIntoFacts
<1>5. CASE r = SP
  BY <1>1, <1>2, <1>3, <1>4, <1>5, Forgotten DEF PopReg
<1>6. CASE r # SP
  <2>1. Raised(Now, size, 0, Now) /\ 0 \in Nat /\ 1 = 0 + 1 /\ MachineOK(Now)
    BY NowIs, RaisedNone
  <2>2. Raised(Now, size, 1, m) /\ (m.ok => Restored(Now, size, 0, r, Now, m))
    BY <1>1, <1>2, <1>6, <2>1, RaisedMore
  <2>3. PICK got : got = <<Reg(m.reg, size, r)>> /\ got[1] = Reg(m.reg, size, r)
    BY OneValue
  <2>4. UnwindOr(m, "data", size, got)
    BY <1>1, <1>6, <2>3 DEF PopReg
  <2>5. m.ok => got[1] = Load(mem, W(size, reg[SP] + size * 0), size)
    BY <2>2, <2>3, NowIs DEF Restored, Reg
  <2>6. "data" \in Kinds /\ Count("data") = 1 /\ \A k \in 1 .. 1 : k = 1 /\ 1 - k = 0
    BY DEF Kinds, Count
  <2> QED
    BY <1>2, <1>3, <2>2, <2>4, <2>5, <2>6, TopUnwound
<1> QED
  BY <1>5, <1>6

LEMMA PopSegmentGood ==
  ASSUME FlowInv, NEW size \in Sizes, PopSegment(size)
  PROVE  Good'
<1>1. PICK m : m = Pop(Now, size)
  OBVIOUS
<1>2. PICK got : got = <<Popped(Now, size)>> /\ got[1] = Popped(Now, size)
  BY OneValue
<1>3. Ends(m, eip + 1, eip) /\ UnwindOr(m, "data", size, got)
  BY <1>1, <1>2 DEF PopSegment
<1>4. Raised(Now, size, 1, m) /\ got[1] = Load(mem, W(size, reg[SP] + size * 0), size)
  BY <1>1, <1>2, OnePop
<1>5. "data" \in Kinds /\ Count("data") = 1 /\ \A k \in 1 .. 1 : k = 1 /\ 1 - k = 0
  BY DEF Kinds, Count
<1>6. eip + 1 \in Int /\ eip \in Int
  BY NowIs
<1> QED
  BY <1>3, <1>4, <1>5, <1>6, TopUnwound

LEMMA RetnGood ==
  ASSUME FlowInv, NEW size \in Sizes, Retn(size)
  PROVE  Good'
<1>1. PICK m : m = Pop(Now, size)
  OBVIOUS
<1>2. PICK got : got = <<Popped(Now, size)>> /\ got[1] = Popped(Now, size)
  BY OneValue
<1>3. Ends(m, got[1], eip) /\ UnwindOr(m, "near", size, got)
  BY <1>1, <1>2 DEF Retn
<1>4. Raised(Now, size, 1, m) /\ got[1] = Load(mem, W(size, reg[SP] + size * 0), size)
      /\ got[1] \in Dword /\ got[1] \in Int
  BY <1>1, <1>2, OnePop
<1>5. "near" \in Kinds /\ Count("near") = 1 /\ \A k \in 1 .. 1 : k = 1 /\ 1 - k = 0
  BY DEF Kinds, Count
<1>6. eip \in Int
  BY NowIs
<1> QED
  BY <1>3, <1>4, <1>5, <1>6, TopUnwound

LEMMA PopaGood ==
  ASSUME FlowInv, NEW size \in Sizes, Popa(size)
  PROVE  Good'
<1>1. PICK m1 : m1 = PopInto(Now, size, 7)
  OBVIOUS
<1>2. PICK m2 : m2 = PopInto(m1, size, 6)
  OBVIOUS
<1>3. PICK m3 : m3 = PopInto(m2, size, 5)
  OBVIOUS
<1>4. PICK m4 : m4 = SkipSP(m3, size)
  OBVIOUS
<1>5. PICK m5 : m5 = PopInto(m4, size, 3)
  OBVIOUS
<1>6. PICK m6 : m6 = PopInto(m5, size, 2)
  OBVIOUS
<1>7. PICK m7 : m7 = PopInto(m6, size, 1)
  OBVIOUS
<1>8. PICK m8 : m8 = PopInto(m7, size, 0)
  OBVIOUS
<1>9. PICK got : got = [k \in 1 .. 8 |-> Reg(m8.reg, size, k - 1)]
  OBVIOUS
<1>10. Ends(m8, eip + 1, eip) /\ UnwindOr(m8, "all", size, got)
  BY <1>1, <1>2, <1>3, <1>4, <1>5, <1>6, <1>7, <1>8, <1>9, Zenon DEF Popa
<1>11. Raised(Now, size, 0, Now) /\ MachineOK(Now)
  BY NowIs, RaisedNone
<1>12. ASSUME NEW k \in Nat, NEW n, Raised(Now, size, k, n), NEW r \in 0 .. 7, r # SP,
              NEW o, o = PopInto(n, size, r)
       PROVE  Raised(Now, size, k + 1, o) /\ (o.ok => n.ok /\ Restored(Now, size, k, r, n, o))
  BY <1>11, <1>12, RaisedMore
<1>13. /\ Raised(Now, size, 1, m1)
       /\ m1.ok => Now.ok /\ Restored(Now, size, 0, 7, Now, m1)
  <2>1. 0 \in Nat /\ 1 = 0 + 1 /\ 7 \in 0 .. 7 /\ 7 # SP
    BY DEF SP
  <2>2. Raised(Now, size, 0, Now)
    BY <1>11
  <2> QED
    BY <1>1, <1>12, <2>1, <2>2
<1>14. /\ Raised(Now, size, 2, m2)
       /\ m2.ok => m1.ok /\ Restored(Now, size, 1, 6, m1, m2)
  <2>1. 1 \in Nat /\ 2 = 1 + 1 /\ 6 \in 0 .. 7 /\ 6 # SP
    BY DEF SP
  <2>2. Raised(Now, size, 1, m1)
    BY <1>13
  <2> QED
    BY <1>2, <1>12, <2>1, <2>2
<1>15. /\ Raised(Now, size, 3, m3)
       /\ m3.ok => m2.ok /\ Restored(Now, size, 2, 5, m2, m3)
  <2>1. 2 \in Nat /\ 3 = 2 + 1 /\ 5 \in 0 .. 7 /\ 5 # SP
    BY DEF SP
  <2>2. Raised(Now, size, 2, m2)
    BY <1>14
  <2> QED
    BY <1>3, <1>12, <2>1, <2>2
<1>16. /\ Raised(Now, size, 4, m4)
       /\ m4.ok => m3.ok /\ \A q \in 0 .. 7 : q # SP => m4.reg[q] = m3.reg[q]
  <2>1. 3 \in Nat /\ 4 = 3 + 1
    OBVIOUS
  <2> QED
    BY <1>4, <1>11, <1>15, <2>1, RaisedSkip
<1>17. /\ Raised(Now, size, 5, m5)
       /\ m5.ok => m4.ok /\ Restored(Now, size, 4, 3, m4, m5)
  <2>1. 4 \in Nat /\ 5 = 4 + 1 /\ 3 \in 0 .. 7 /\ 3 # SP
    BY DEF SP
  <2>2. Raised(Now, size, 4, m4)
    BY <1>16
  <2> QED
    BY <1>5, <1>12, <2>1, <2>2
<1>18. /\ Raised(Now, size, 6, m6)
       /\ m6.ok => m5.ok /\ Restored(Now, size, 5, 2, m5, m6)
  <2>1. 5 \in Nat /\ 6 = 5 + 1 /\ 2 \in 0 .. 7 /\ 2 # SP
    BY DEF SP
  <2>2. Raised(Now, size, 5, m5)
    BY <1>17
  <2> QED
    BY <1>6, <1>12, <2>1, <2>2
<1>19. /\ Raised(Now, size, 7, m7)
       /\ m7.ok => m6.ok /\ Restored(Now, size, 6, 1, m6, m7)
  <2>1. 6 \in Nat /\ 7 = 6 + 1 /\ 1 \in 0 .. 7 /\ 1 # SP
    BY DEF SP
  <2>2. Raised(Now, size, 6, m6)
    BY <1>18
  <2> QED
    BY <1>7, <1>12, <2>1, <2>2
<1>20. /\ Raised(Now, size, 8, m8)
       /\ m8.ok => m7.ok /\ Restored(Now, size, 7, 0, m7, m8)
  <2>1. 7 \in Nat /\ 8 = 7 + 1 /\ 0 \in 0 .. 7 /\ 0 # SP
    BY DEF SP
  <2>2. Raised(Now, size, 7, m7)
    BY <1>19
  <2> QED
    BY <1>8, <1>12, <2>1, <2>2
<1>21. m8.ok => \A q \in {0, 1, 2, 3, 5, 6, 7} :
         W(size, m8.reg[q]) = Load(mem, W(size, reg[SP] + size * (7 - q)), size)
  <2> HAVE m8.ok
  <2>1. m7.ok /\ m6.ok /\ m5.ok /\ m4.ok /\ m3.ok /\ m2.ok /\ m1.ok
    BY <1>13, <1>14, <1>15, <1>16, <1>17, <1>18, <1>19, <1>20
  <2>2. W(size, m8.reg[7]) = Load(mem, W(size, reg[SP] + size * 0), size)
    BY <2>1, <1>13, <1>14, <1>15, <1>16, <1>17, <1>18, <1>19, <1>20, NowIs DEF Restored, SP
  <2>3. W(size, m8.reg[6]) = Load(mem, W(size, reg[SP] + size * 1), size)
    BY <2>1, <1>14, <1>15, <1>16, <1>17, <1>18, <1>19, <1>20, NowIs DEF Restored, SP
  <2>4. W(size, m8.reg[5]) = Load(mem, W(size, reg[SP] + size * 2), size)
    BY <2>1, <1>15, <1>16, <1>17, <1>18, <1>19, <1>20, NowIs DEF Restored, SP
  <2>5. W(size, m8.reg[3]) = Load(mem, W(size, reg[SP] + size * 4), size)
    BY <2>1, <1>17, <1>18, <1>19, <1>20, NowIs DEF Restored, SP
  <2>6. W(size, m8.reg[2]) = Load(mem, W(size, reg[SP] + size * 5), size)
    BY <2>1, <1>18, <1>19, <1>20, NowIs DEF Restored, SP
  <2>7. W(size, m8.reg[1]) = Load(mem, W(size, reg[SP] + size * 6), size)
    BY <2>1, <1>19, <1>20, NowIs DEF Restored, SP
  <2>8. W(size, m8.reg[0]) = Load(mem, W(size, reg[SP] + size * 7), size)
    BY <2>1, <1>20, NowIs DEF Restored, SP
  <2>9. 7 - 7 = 0 /\ 7 - 6 = 1 /\ 7 - 5 = 2 /\ 7 - 3 = 4 /\ 7 - 2 = 5 /\ 7 - 1 = 6 /\ 7 - 0 = 7
    OBVIOUS
  <2> DEFINE ok(q) == W(size, m8.reg[q]) = Load(mem, W(size, reg[SP] + size * (7 - q)), size)
  <2>10. ok(0) /\ ok(1) /\ ok(2) /\ ok(3)
    BY <2>5, <2>6, <2>7, <2>8, <2>9, Zenon
  <2>11. ok(5) /\ ok(6) /\ ok(7)
    BY <2>2, <2>3, <2>4, <2>9, Zenon
  <2> HIDE DEF ok
  <2>12. \A q \in {0, 1, 2, 3, 5, 6, 7} : ok(q)
    BY <2>10, <2>11
  <2> QED
    BY <2>12, Zenon DEF ok
<1>22. m8.ok => \A k \in 1 .. 8 : \/ got[k] = Load(mem, W(size, reg[SP] + size * (8 - k)), size)
                                  \/ "all" = "all" /\ k - 1 = SP
  <2> HAVE m8.ok
  <2> TAKE k \in 1 .. 8
  <2>1. CASE k - 1 = SP
    BY <2>1
  <2>2. CASE k - 1 # SP
    <3>1. PICK q \in {0, 1, 2, 3, 5, 6, 7} : q = k - 1 /\ 7 - q = 8 - k
      BY <2>2 DEF SP
    <3>2. got[k] = W(size, m8.reg[q])
      BY <1>9, <3>1 DEF Reg
    <3>3. got[k] = Load(mem, W(size, reg[SP] + size * (7 - q)), size)
      BY <1>21, <3>2, Zenon
    <3>4. got[k] = Load(mem, W(size, reg[SP] + size * (8 - k)), size)
      BY <3>1, <3>3
    <3> QED
      BY <3>4
  <2> QED
    BY <2>1, <2>2
<1>23. "all" \in Kinds /\ "all" # "enter" /\ "all" # "near" /\ Count("all") = 8
  BY DEF Kinds, Count
<1>24. eip + 1 \in Int /\ eip \in Int
  BY NowIs
<1> QED
  BY <1>10, <1>20, <1>22, <1>23, <1>24, TopUnwound

LEMMA FreedIs ==
  ASSUME FlowInv, NEW size \in Sizes, NEW n \in Nat, NEW m, m = Freed(size, n)
  PROVE  /\ MachineOK(m) /\ m.mem = mem
         /\ m.ok => m.reg[SP] = Move(Move(reg[SP], size, size), 4, n)
<1>1. PICK o : o = Pop(Now, size)
  OBVIOUS
<1>2. PopFacts(Now, size, o)
  BY <1>1, NowIs, Pops
<1>3. PICK sp \in Dword, v \in Int : sp = o.reg[SP] /\ v = sp + n
  <2>1. o.reg[SP] \in Dword
    BY <1>2 DEF PopFacts, MachineOK, RegsOK, SP
  <2> QED
    BY <2>1, Constants DEF Dword
<1>4. m = Set(o, 4, SP, v)
  BY <1>1, <1>3 DEF Freed
<1>5. 4 \in Sizes /\ SP \in 0 .. 7 /\ n \in Int
  BY DEF Sizes, SP
<1>6. SetFacts(o, 4, SP, v, m)
  BY <1>2, <1>4, <1>5, Sets DEF PopFacts
<1>7. m.ok => m.reg[SP] = Move(sp, 4, n)
  <2>1. RegsOK(o.reg)
    BY <1>2 DEF PopFacts, MachineOK
  <2>2. SetReg(o.reg, 4, SP, o.reg[SP] + n)[SP] = Move(o.reg[SP], 4, n)
    BY <1>5, <2>1, RegIsMoved
  <2> QED
    BY <1>3, <1>6, <2>2 DEF SetFacts
<1> QED
  BY <1>2, <1>3, <1>6, <1>7, NowIs DEF PopFacts, SetFacts

\* RET with an operand takes off the frames of its arguments as well.
LEMMA RetnImmGood ==
  ASSUME FlowInv, NEW size \in Sizes, NEW n \in Frees, RetnImm(size, n)
  PROVE  Good'
<1> USE Constants
<1>0. n \in Nat /\ n \in Int
  BY FlowAssumption
<1>1. PICK m, k : m = Freed(size, n) /\ k = Len(frames) - (n \div 4)
  OBVIOUS
<1>2. /\ MachineOK(m) /\ m.mem = mem
      /\ m.ok => m.reg[SP] = Move(Move(reg[SP], size, size), 4, n)
  BY <1>0, <1>1, FreedIs
<1>3. PICK a \in Dword : a = Popped(Now, size) /\ a \in Int /\ a % Dwords = a
                         /\ a = Load(mem, W(size, reg[SP] + size * 0), size)
  BY OnePop, SmallStays DEF Dword
<1>4. Ends(m, a, eip) /\ eip \in Int
  BY <1>1, <1>3, NowIs DEF RetnImm
<1>5. CASE ~ (m.ok /\ OnTop("near", size) /\ k \in 1 .. Len(frames) /\ Arguments(k, n))
  <2>1. Forget
    BY <1>1, <1>5, Zenon DEF RetnImm
  <2> QED
    BY <1>2, <1>3, <1>4, <2>1, Forgotten
<1>6. CASE m.ok /\ OnTop("near", size) /\ k \in 1 .. Len(frames) /\ Arguments(k, n)
  <2>1. PICK top \in 1 .. Len(frames) : top = Len(frames) /\ Len(frames) \in Nat
    BY <1>6, TopIs
  <2>2. PICK f : f = frames[top]
    OBVIOUS
  <2>3. 1 = Count("near") /\ "near" # "enter"
    BY DEF Count
  <2>4. TopFacts(f, "near", size, 1)
    BY <1>6, <2>1, <2>2, <2>3, TopIs
  <2>5. /\ frames' = SubSeq(frames, 1, k - 1)
        /\ unwound' = [kind |-> "near", size |-> size, want |-> f.vals, got |-> <<a>>,
                       esp |-> frames[k].esp, next |-> f.next]
    BY <1>1, <1>3, <1>6, <2>1, <2>2, Zenon DEF RetnImm
  <2>6. m.reg[SP] = frames[k].esp
    <3>1. PICK e \in Dword, x \in Int : e = frames[k].esp /\ x = - n
      <4>1. frames[k] \in FrameType
        BY <1>6 DEF FlowInv, Held
      <4> QED
        BY <1>0, <4>1, FieldsOf
    <3>2. 4 * (top - k) = n /\ k <= top
      BY <1>6, <2>1 DEF Arguments
    <3>3. AreArguments(frames, k, top)
      BY <1>6, <2>1 DEF Arguments, AreArguments
    <3>4. f.esp = Move(e, 4, x)
      BY <1>6, <2>1, <2>2, <3>1, <3>2, <3>3 DEF FlowInv, Held, Spaced
    <3>5. size * 1 = size
      BY DEF Sizes
    <3>6. m.reg[SP] = Move(f.esp, 4, n)
      BY <1>2, <1>6, <2>4, <3>5 DEF TopFacts
    <3>7. Move(Move(e, 4, x), 4, n) = Move(e, 4, x + n)
      BY <1>0, <3>1, MoveMove DEF Sizes
    <3>8. x + n = 0
      BY <1>0, <3>1
    <3>9. Move(e, 4, 0) = e
      BY MoveNowhere DEF Sizes
    <3> QED
      BY <3>1, <3>4, <3>6, <3>7, <3>8, <3>9
  <2>7. FlowInv'
    BY <1>2, <1>3, <1>4, <1>6, <2>5, <2>6, Unwound
  <2>8. a = f.vals[1] /\ DOMAIN f.vals = 1 .. 1 /\ f.vals[1] = W(size, f.next)
    <3>1. 1 - 1 = 0
      OBVIOUS
    <3> QED
      BY <1>3, <2>4, <3>1 DEF TopFacts, FrameOK
  <2>9. eip' = a /\ reg'[SP] = frames[k].esp
    BY <1>2, <1>3, <1>4, <1>6, <2>6, Ended
  <2>10. Unwinds'
    <3>1. PICK got : got = <<a>> /\ got[1] = a
      BY OneValue
    <3>2. unwound'.kind = "near" /\ unwound'.size = size /\ unwound'.want = f.vals
          /\ unwound'.got = got /\ unwound'.esp = frames[k].esp /\ unwound'.next = f.next
      BY <2>5, <3>1
    <3>3. \A j \in DOMAIN f.vals : got[j] = f.vals[j]
      BY <2>8, <3>1
    <3> QED
      BY <2>8, <2>9, <3>2, <3>3 DEF Unwinds
  <2> QED
    BY <2>5, <2>7, <2>10, NothingToShow DEF Good
<1> QED
  BY <1>5, <1>6

LEMMA RetfGood ==
  ASSUME FlowInv, NEW size \in Sizes, NEW n \in Frees, Retf(size, n)
  PROVE  Good'
<1>1. n \in Nat
  BY FlowAssumption
<1>2. PICK m : m = Freed(size, n) /\ MachineOK(m)
  BY <1>1, FreedIs
<1>3. PICK a \in Int : a = Popped(Now, size) + 1
  BY OnePop
<1>4. Ends(m, a, eip) /\ Forget /\ eip \in Int
  BY <1>2, <1>3, NowIs DEF Retf
<1> QED
  BY <1>2, <1>3, <1>4, Forgotten

LEMMA IretGood ==
  ASSUME FlowInv, NEW size \in Sizes, Iret(size)
  PROVE  Good'
<1>1. PICK m : m = Pop(Pop(Pop(Now, size), size), size) /\ MachineOK(m)
  BY NowIs, Pops DEF PopFacts
<1>2. PICK a \in Int : a = Popped(Now, size) /\ a + 1 \in Int
  BY OnePop
<1>3. PICK b \in Int : b = IF Pop(Now, size).ok THEN a ELSE eip
  BY <1>2, NowIs
<1>4. Ends(m, a + 1, b) /\ Forget
  BY <1>1, <1>2, <1>3, Zenon DEF Iret
<1> QED
  BY <1>1, <1>2, <1>3, <1>4, Forgotten

-----------------------------------------------------------------------------
(* Jumps                                                                   *)

LEMMA NearIs ==
  ASSUME NEW size \in Sizes, NEW from \in Int, NEW off \in Int
  PROVE  Near(from, off, size) \in Int
<1>1. (from + off) % Dwords \in Int
  BY Constants, Remainder
<1> QED
  BY <1>1, Operand, Constants DEF Near, Dword

\* A jump leaves the stack alone, wherever it goes.
LEMMA Jumped ==
  ASSUME FlowInv, NEW m, MachineOK(m), m.mem = mem, m.reg[SP] = reg[SP], NEW to \in Int,
         Jumps(m, to)
  PROVE  Good'
<1>1. Ends(m, to, eip) /\ frames' = frames /\ unwound' = NoPop
  BY DEF Jumps
<1>2. eip \in Int
  BY NowIs
<1>3. eip' \in Dword /\ RegsOK(reg') /\ MemOK(mem') /\ reg' = m.reg /\ mem' = m.mem
  BY <1>1, <1>2, Ended
<1>4. Held(frames, mem, reg[SP])'
  BY <1>1, <1>3 DEF FlowInv
<1> QED
  BY <1>1, <1>3, <1>4, NothingToShow DEF Good, FlowInv

LEMMA JmpToGood ==
  ASSUME FlowInv, NEW size \in Sizes, NEW place \in Places, JmpTo(size, place)
  PROVE  Good'
<1>1. PICK to \in Int : to = W(size, place)
  <2>1. place \in Int
    BY FlowAssumption, Constants DEF Dword
  <2> QED
    BY <2>1, Operand, Constants DEF Dword
<1>2. Jumps(Now, to)
  BY <1>1 DEF JmpTo
<1> QED
  BY <1>2, NowIs, Jumped

\* Jumps that change nothing but eip.
LEMMA JumpGood ==
  ASSUME FlowInv, NEW size \in Sizes, NEW off \in Rels,
         \/ JmpRel8(size, off) \/ JmpRelW(size, off) \/ Jcxz(size, off)
         \/ \E taken \in BOOLEAN : Jcc8(size, off, taken) \/ JccW(size, off, taken)
  PROVE  Good'
<1>1. off \in Int
  BY FlowAssumption
<1>2. eip + 1 \in Int /\ eip + 2 \in Int /\ eip + size + 1 \in Int
  BY NowIs DEF Sizes
<1>3. /\ Near(eip + 1, off, size) \in Int /\ Near(eip + 2, off, size) \in Int
      /\ Near(eip + size + 1, off, size) \in Int
  BY <1>1, <1>2, NearIs
<1>4. \E to \in Int : Jumps(Now, to)
  <2>1. CASE JmpRel8(size, off)
    BY <1>3, <2>1 DEF JmpRel8
  <2>2. CASE JmpRelW(size, off)
    BY <1>3, <2>2 DEF JmpRelW
  <2>3. CASE Jcxz(size, off)
    BY <1>2, <1>3, <2>3 DEF Jcxz
  <2>4. CASE \E taken \in BOOLEAN : Jcc8(size, off, taken)
    BY <1>2, <1>3, <2>4 DEF Jcc8
  <2>5. CASE \E taken \in BOOLEAN : JccW(size, off, taken)
    BY <1>2, <1>3, <2>5 DEF JccW
  <2> QED
    BY <2>1, <2>2, <2>3, <2>4, <2>5
<1> QED
  BY <1>4, NowIs, Jumped

LEMMA LoopccGood ==
  ASSUME FlowInv, NEW size \in Sizes, NEW off \in Rels, NEW condition \in BOOLEAN,
         Loopcc(size, off, condition)
  PROVE  Good'
<1>1. off \in Int /\ eip + 2 \in Int /\ eip + 3 \in Int
  BY NowIs, FlowAssumption
<1>2. PICK c \in Int : c = reg[CX] - 1
  <2>1. reg[CX] \in Dword
    BY DEF FlowInv, RegsOK, CX
  <2> QED
    BY <2>1, Constants DEF Dword
<1>3. PICK m : m = Set(Now, size, CX, c)
  OBVIOUS
<1>4. MachineOK(m) /\ m.mem = mem /\ m.reg[SP] = reg[SP]
  <2>1. SetFacts(Now, size, CX, c, m)
    BY <1>3, NowIs, Sets DEF CX
  <2> QED
    BY <2>1, NowIs DEF SetFacts, RegSet, CX, SP
<1>5. PICK to \in Int :
        to = IF Reg(m.reg, size, CX) # 0 /\ condition THEN Near(eip + 2, off, size) ELSE eip + 3
  BY <1>1, NearIs
<1>6. Jumps(m, to)
  BY <1>2, <1>3, <1>5 DEF Loopcc
<1> QED
  BY <1>4, <1>6, Jumped

-----------------------------------------------------------------------------
(* ENTER and LEAVE                                                         *)

\* The recursion of Nested, as far as level n.
Levelled(f, first, size, n) ==
  f = [i \in 0 .. n |-> IF i = 0 THEN first ELSE Deeper(f[i - 1], size)]

LEMMA OneLevelMore ==
  ASSUME NEW first, NEW size, NEW n \in Nat, NEW f, Levelled(f, first, size, n)
  PROVE  \E g : Levelled(g, first, size, n + 1)
<1>1. PICK top : top = Deeper(f[n], size)
  OBVIOUS
<1>2. PICK g : g = [i \in 0 .. n + 1 |-> IF i = n + 1 THEN top ELSE f[i]]
  OBVIOUS
<1>3. \A i \in 0 .. n + 1 : g[i] = IF i = 0 THEN first ELSE Deeper(g[i - 1], size)
  <2> TAKE i \in 0 .. n + 1
  <2>1. CASE i = n + 1
    <3>1. i # 0 /\ i - 1 = n /\ n \in 0 .. n + 1 /\ n # n + 1
      BY <2>1
    <3>2. g[i] = top /\ g[n] = f[n]
      BY <1>2, <2>1, <3>1
    <3> QED
      BY <1>1, <3>1, <3>2, Zenon
  <2>2. CASE i \in 0 .. n
    <3>1. f[i] = IF i = 0 THEN first ELSE Deeper(f[i - 1], size)
      BY <2>2 DEF Levelled
    <3>2. g[i] = f[i] /\ (i # 0 => i - 1 \in 0 .. n /\ g[i - 1] = f[i - 1])
      BY <1>2, <2>2
    <3> QED
      BY <3>1, <3>2, Zenon
  <2> QED
    BY <2>1, <2>2
<1>4. PICK h : h = [i \in 0 .. n + 1 |-> IF i = 0 THEN first ELSE Deeper(g[i - 1], size)]
  OBVIOUS
<1>5. \A i \in 0 .. n + 1 : h[i] = g[i]
  BY <1>3, <1>4, Zenon
<1>6. g = h
  BY <1>2, <1>4, <1>5
<1> QED
  BY <1>4, <1>6, Zenon DEF Levelled

LEMMA LevelsExist ==
  ASSUME NEW first, NEW size, NEW n \in Nat
  PROVE  \E f : Levelled(f, first, size, n)
<1> DEFINE T == {k \in Nat : ~ \E f : Levelled(f, first, size, k)}
<1> SUFFICES ASSUME T # {} PROVE FALSE
  OBVIOUS
<1>1. T \subseteq Nat
  OBVIOUS
<1>2. PICK j \in T : \A k \in T : ~ (<<k, j>> \in OpToRel(<, Nat))
  <2> HIDE DEF T
  <2> QED
    BY <1>1, NatLessThanWellFounded, WFMin
<1>3. j \in Nat /\ \A k \in T : ~ (k < j)
  BY <1>1, <1>2 DEF OpToRel
<1>4. CASE j = 0
  <2>1. PICK f : f = [i \in 0 .. 0 |-> first]
    OBVIOUS
  <2>2. Levelled(f, first, size, 0)
    <3>1. \A i \in 0 .. 0 : first = IF i = 0 THEN first ELSE Deeper(f[i - 1], size)
      OBVIOUS
    <3> QED
      BY <2>1, <3>1, Zenon DEF Levelled
  <2> QED
    BY <1>2, <1>4, <2>2
<1>5. CASE j # 0
  <2>1. PICK k \in Nat : j = k + 1 /\ k < j
    BY <1>3, <1>5
  <2>2. k \notin T
    BY <1>3, <2>1
  <2>3. \E f : Levelled(f, first, size, k + 1)
    BY <2>2, OneLevelMore
  <2> QED
    BY <1>2, <2>1, <2>3
<1> QED
  BY <1>4, <1>5

LEMMA NestedIs ==
  ASSUME NEW first, NEW size
  PROVE  /\ Nested(first, size)[0] = first
         /\ \A i \in 1 .. 31 : Nested(first, size)[i] = Deeper(Nested(first, size)[i - 1], size)
<1>1. Nested(first, size) = CHOOSE f : Levelled(f, first, size, 31)
  BY DEF Nested, Levelled
<1>2. PICK f : f = Nested(first, size)
  OBVIOUS
<1>3. Levelled(f, first, size, 31)
  <2>1. \E g : Levelled(g, first, size, 31)
    BY LevelsExist
  <2> QED
    BY <1>1, <1>2, <2>1, Zenon
<1>4. \A i \in 0 .. 31 : f[i] = IF i = 0 THEN first ELSE Deeper(f[i - 1], size)
  BY <1>3, Zenon DEF Levelled
<1>5. 0 \in 0 .. 31 /\ \A i \in 1 .. 31 : i \in 0 .. 31 /\ i # 0
  OBVIOUS
<1> QED
  BY <1>2, <1>4, <1>5, Zenon

\* Behind k pushes at depth d, if the handler has got there.
Reached(base, d, m, size, k, n) ==
  /\ MachineOK(n)
  /\ n.ok => m.ok
  /\ Alike(m.reg[SP], base - d) => Lowered(base, d, m, size, k, n)

LEMMA ReachedMore ==
  ASSUME NEW base \in Int, NEW d \in Nat, NEW m, MachineOK(m), NEW size \in Sizes, NEW k \in Nat,
         NEW n, Reached(base, d, m, size, k, n), NEW v \in Dword, v = W(size, v),
         NEW o, o = Push(n, size, v)
  PROVE  Reached(base, d, m, size, k + 1, o)
<1>1. v \in Int
  BY Constants DEF Dword
<1>2. PushFacts(n, size, v, o)
  BY <1>1, Pushes DEF Reached
<1>3. ASSUME Alike(m.reg[SP], base - d) PROVE Lowered(base, d, m, size, k + 1, o)
  <2>1. Lowered(base, d, m, size, k, n)
    BY <1>3 DEF Reached
  <2> QED
    BY <1>3, <2>1, LoweredMore
<1> QED
  BY <1>2, <1>3 DEF Reached, PushFacts

LEMMA ReachedSet ==
  ASSUME NEW base, NEW d, NEW m, NEW size \in Sizes, NEW k, NEW n, Reached(base, d, m, size, k, n),
         NEW r \in 0 .. 7, r # SP, NEW v \in Int, NEW o, o = Set(n, size, r, v)
  PROVE  Reached(base, d, m, size, k, o)
<1>1. SetFacts(n, size, r, v, o)
  BY Sets DEF Reached
<1>2. ASSUME Alike(m.reg[SP], base - d) PROVE Lowered(base, d, m, size, k, o)
  <2>1. Lowered(base, d, m, size, k, n)
    BY <1>2 DEF Reached
  <2> QED
    BY <2>1, LoweredSet
<1> QED
  BY <1>1, <1>2 DEF Reached, SetFacts

LEMMA ReachedDeeper ==
  ASSUME NEW base \in Int, NEW d \in Nat, NEW m, MachineOK(m), NEW size \in Sizes, NEW k \in Nat,
         NEW n, Reached(base, d, m, size, k, n)
  PROVE  Reached(base, d, m, size, k + 1, Deeper(n, size))
<1>1. BP \in 0 .. 7 /\ BP # SP
  BY DEF BP, SP
<1>2. PICK x \in Int : x = n.reg[BP] - size
  <2>1. n.reg[BP] \in Dword
    BY <1>1 DEF Reached, MachineOK, RegsOK
  <2> QED
    BY <2>1, Constants DEF Dword, Sizes
<1>3. PICK e : e = Set(n, size, BP, x)
  OBVIOUS
<1>4. Reached(base, d, m, size, k, e)
  BY <1>1, <1>3, ReachedSet
<1>5. PICK v \in Dword : v = Reg(e.reg, size, BP) /\ v = W(size, v)
  BY <1>1, <1>4, OperandOfReg DEF Reached, MachineOK
<1>6. Deeper(n, size) = Push(e, size, v)
  BY <1>2, <1>3, <1>5 DEF Deeper
<1> QED
  BY <1>4, <1>5, <1>6, ReachedMore

LEMMA ReachedNested ==
  ASSUME NEW base \in Int, NEW d \in Nat, NEW m, MachineOK(m), NEW size \in Sizes
  PROVE  \A i \in 0 .. 31 : Reached(base, d, m, size, i, Nested(m, size)[i])
<1> DEFINE T == {i \in 0 .. 31 : ~ Reached(base, d, m, size, i, Nested(m, size)[i])}
<1> SUFFICES ASSUME T # {} PROVE FALSE
  OBVIOUS
<1>1. T \subseteq Nat
  OBVIOUS
<1>2. PICK j \in T : \A k \in T : ~ (<<k, j>> \in OpToRel(<, Nat))
  <2> HIDE DEF T
  <2> QED
    BY <1>1, NatLessThanWellFounded, WFMin
<1>3. j \in 0 .. 31 /\ \A k \in T : ~ (k < j)
  BY <1>1, <1>2 DEF OpToRel
<1>4. CASE j = 0
  <2>1. Reached(base, d, m, size, 0, m)
    BY LoweredNone DEF Reached
  <2> QED
    BY <1>2, <1>4, <2>1, NestedIs
<1>5. CASE j # 0
  <2>1. PICK k \in 0 .. 31 : j = k + 1 /\ k < j /\ k = j - 1 /\ j \in 1 .. 31 /\ k \in Nat
    BY <1>3, <1>5
  <2>2. Reached(base, d, m, size, k, Nested(m, size)[k])
    BY <1>3, <2>1
  <2>3. PICK n : n = Nested(m, size)[k]
    OBVIOUS
  <2>4. Reached(base, d, m, size, k + 1, Deeper(n, size))
    BY <2>1, <2>2, <2>3, ReachedDeeper
  <2>5. Nested(m, size)[j] = Deeper(n, size)
    BY <2>1, <2>3, NestedIs
  <2> QED
    BY <1>2, <2>1, <2>4, <2>5
<1> QED
  BY <1>4, <1>5

\* What ENTER has pushed in front of its locals.
LEMMA ReachedLinked ==
  ASSUME NEW base \in Int, NEW d \in Nat, NEW m, MachineOK(m), NEW size \in Sizes,
         NEW level \in 0 .. 31, NEW v \in Dword, v = W(size, v), NEW n,
         n = IF level = 0 THEN m ELSE Push(Nested(m, size)[level - 1], size, v)
  PROVE  Reached(base, d, m, size, level, n)
<1>1. CASE level = 0
  BY <1>1, LoweredNone DEF Reached
<1>2. CASE level # 0
  <2>1. PICK k \in 0 .. 31 : k = level - 1 /\ level = k + 1 /\ k \in Nat
    BY <1>2
  <2>2. PICK o : o = Nested(m, size)[k]
    OBVIOUS
  <2>3. Reached(base, d, m, size, k, o)
    BY <2>2, ReachedNested
  <2>4. n = Push(o, size, v)
    BY <1>2, <2>1, <2>2
  <2> QED
    BY <2>1, <2>3, <2>4, ReachedMore
<1> QED
  BY <1>1, <1>2

LEMMA EnterGood ==
  ASSUME FlowInv, NEW size \in Sizes, NEW alloc \in Allocs, NEW level \in Levels,
         Enter(size, alloc, level)
  PROVE  Good'
<1> USE Constants
<1>0. alloc \in Nat /\ level \in 0 .. 31 /\ size \in Nat /\ BP \in 0 .. 7 /\ SP \in 0 .. 7 /\ BP # SP
  BY FlowAssumption DEF Sizes, BP, SP
<1>1. PICK bp \in Dword : bp = Reg(reg, size, BP) /\ bp = W(size, bp)
  BY <1>0, OperandOfReg DEF FlowInv
<1>2. PICK first : first = Push(Now, size, bp)
  OBVIOUS
<1>3. PICK vals \in Seq(Dword) : vals = <<bp>> /\ Len(vals) = 1 /\ vals[1] = bp
  <2>1. <<bp>> \in Seq(Dword) /\ Len(<<bp>>) = 1 /\ <<bp>>[1] = bp
    OBVIOUS
  <2> QED
    BY <2>1, Zenon
<1>4. Pushed(Base, Depth, Now, size, vals, 1, first)
  <2>1. Pushed(Base, Depth, Now, size, vals, 0, Now) /\ 1 = 0 + 1
    BY NowIs, PushedNone
  <2> QED
    BY <1>1, <1>2, <1>3, <2>1, NowIs, PushedMore
<1>5. MachineOK(first) /\ Lowered(Base, Depth, Now, size, 1, first)
  BY <1>4 DEF Pushed, Lowered
<1>6. PICK temp \in Dword : temp = Top(first.reg, size) /\ temp = W(size, temp) /\ temp \in Int
                            /\ temp = W(size, first.reg[SP])
  <2>1. Reg(first.reg, size, SP) \in Dword
        /\ Reg(first.reg, size, SP) = W(size, Reg(first.reg, size, SP))
    BY <1>0, <1>5, OperandOfReg DEF MachineOK
  <2> QED
    BY <2>1 DEF Top, Reg, Dword
<1>7. PICK linked : linked = IF level = 0 THEN first
                             ELSE Push(Nested(first, size)[level - 1], size, temp)
  OBVIOUS
<1>8. PICK d \in Nat : d = Depth + size
  BY <1>0, NowIs
<1>9. Reached(Base, d, first, size, level, linked)
  BY <1>0, <1>5, <1>6, <1>7, NowIs, ReachedLinked
<1>10. PICK based : based = Set(linked, size, BP, temp)
  OBVIOUS
<1>11. SetFacts(linked, size, BP, temp, based)
  BY <1>0, <1>6, <1>9, <1>10, Sets DEF Reached
<1>12. PICK v \in Int : v = Reg(based.reg, size, BP) - alloc /\ (based.ok => v = temp - alloc)
  <2>1. Reg(based.reg, size, BP) \in Dword
    BY <1>0, <1>11, OperandOfReg DEF SetFacts, MachineOK
  <2>2. based.ok => Reg(based.reg, size, BP) = temp
    BY <1>6, <1>11 DEF SetFacts, RegSet, Reg
  <2> QED
    BY <1>0, <2>1, <2>2 DEF Dword
<1>13. PICK m : m = Set(based, size, SP, v)
  OBVIOUS
<1>14. SetFacts(based, size, SP, v, m)
  BY <1>0, <1>11, <1>13, Sets DEF SetFacts
<1>15. PICK bytes \in Nat, n \in Nat : bytes = size + alloc /\ n = size * (level + 1)
  BY <1>0
<1>16. Ends(m, eip + 4, eip + 3) /\ GrowOr(m, Frame("enter", size, vals, bytes, m, 0), n)
  BY <1>1, <1>2, <1>3, <1>6, <1>7, <1>10, <1>12, <1>13, <1>15, Zenon DEF Enter
<1>17. PICK f : f = Frame("enter", size, vals, bytes, m, 0)
  OBVIOUS
<1>18. MachineOK(m)
  BY <1>14 DEF SetFacts
<1>19. FrameFacts(f, "enter", size, vals, bytes, m, 0)
  <2>1. "enter" \in Kinds /\ 0 \in Dword
    BY DEF Kinds, Dword
  <2> QED
    BY <1>17, <1>18, <2>1, FrameIs
<1>20. ASSUME m.ok, f.to <= Half, f.from + n <= Half
       PROVE  /\ FrameOK(f) /\ Alike(f.after, Base - f.to)
              /\ Keeps(Base, Depth, mem, m.mem) /\ Intact(m.mem, f)
  <2>1. PICK x \in Nat : x = size * level /\ n = x + size
    BY <1>0, <1>15 DEF Sizes
  <2>2. d <= Half /\ d + x <= Half /\ Depth + size * 1 <= Half /\ Depth + (size + alloc) <= Half
    BY <1>0, <1>8, <1>15, <1>19, <1>20, <2>1, NowIs DEF FrameFacts, Sizes
  <2>3. m.mem = linked.mem /\ linked.ok /\ first.ok /\ based.ok
    BY <1>9, <1>11, <1>14, <1>20 DEF SetFacts, Reached
  <2>4. PICK sp \in Dword, e \in Int : sp = reg[SP] /\ e = Depth /\ Alike(sp, Base - e)
    BY NowIs
  <2>5. PICK top \in Dword : top = first.reg[SP] /\ top = Move(sp, size, - size)
    <3>1. size * 1 = size
      BY <1>0
    <3>2. first.reg[SP] = Move(sp, size, - size)
      BY <1>5, <2>3, <2>4, <3>1, NowIs DEF Lowered
    <3>3. first.reg[SP] \in Dword
      BY <1>0, <1>5 DEF MachineOK, RegsOK
    <3> QED
      BY <3>2, <3>3
  <2>6. Alike(top, Base - d) /\ Alike(W(size, sp - size), Base - d)
    <3>1. size \in Int /\ Base \in Int /\ e + size = d
      BY <1>8, <2>4, NowIs DEF Sizes
    <3> QED
      BY <2>4, <2>5, <3>1, AlikeMoved
  <2>7. Keeps(Base, d, first.mem, m.mem)
    <3>1. Lowered(Base, d, first, size, level, linked)
      BY <1>9, <2>5, <2>6 DEF Reached
    <3> QED
      BY <2>1, <2>2, <2>3, <3>1 DEF Lowered
  <2>8. Keeps(Base, Depth, mem, first.mem)
        /\ Load(first.mem, W(size, reg[SP] - size * 1), size) = bp
    <3>1. 1 \in 1 .. 1
      OBVIOUS
    <3> QED
      BY <1>3, <1>4, <2>2, <2>3, <3>1, NowIs DEF Pushed, Lowered
  <2>9. Keeps(Base, Depth, mem, m.mem)
    <3>1. Depth <= d
      BY <1>0, <1>8, NowIs
    <3> QED
      BY <2>7, <2>8, <3>1, NowIs, KeepsTwice
  <2>10. Intact(m.mem, f)
    <3>1. PICK a \in Int : a = W(size, sp - size)
      <4>1. sp - size \in Int
        BY <1>0 DEF Dword
      <4> QED
        <5>1. W(size, sp - size) \in Dword
          BY <4>1, Operand
        <5> QED
          BY <5>1 DEF Dword
    <3>2. size <= d
      BY <1>0, <1>8, NowIs
    <3>3. Load(first.mem, a, size) = Load(m.mem, a, size)
      BY <2>2, <2>6, <2>7, <3>1, <3>2, NowIs, LoadKept
    <3>4. size * 1 = size /\ Count("enter") = 1 /\ \A k \in 1 .. 1 : k = 1
      BY <1>0 DEF Count
    <3>5. Slot(f, 1) = a
      BY <1>19, <2>4, <3>1, <3>4 DEF FrameFacts, Slot
    <3>6. Load(m.mem, Slot(f, 1), size) = bp
      BY <2>4, <2>8, <3>1, <3>3, <3>4, <3>5
    <3> QED
      BY <1>3, <1>19, <3>4, <3>6 DEF FrameFacts, Intact
  <2>11. FrameOK(f)
    <3>1. Count("enter") = 1 /\ size * 1 = size /\ Depth + size <= Depth + bytes
      BY <1>0, <1>15, NowIs DEF Count
    <3> QED
      BY <1>3, <1>19, <1>20, <3>1 DEF FrameFacts, FrameOK
  <2>12. Alike(f.after, Base - f.to)
    <3>1. PICK s \in Dword : s = m.reg[SP] /\ W(size, s) = W(size, temp - alloc) /\ s \in Int
      <4>1. W(size, m.reg[SP]) = W(size, temp - alloc)
        BY <1>12, <1>14, <2>3 DEF SetFacts, RegSet
      <4>2. m.reg[SP] \in Dword
        BY <1>0, <1>18 DEF MachineOK, RegsOK
      <4> QED
        BY <4>1, <4>2 DEF Dword
    <3>2. PICK y \in Int, k \in Int : y = temp - alloc /\ k = - alloc /\ y = temp + k
      BY <1>0, <1>6
    <3>3. s % Half = y % Half
      <4>1. W(size, s) % Half = s % Half /\ W(size, y) % Half = y % Half
        BY <3>1, Operand
      <4> QED
        BY <3>1, <3>2, <4>1
    <3>4. Alike(temp, Base - d)
      <4>1. top \in Int
        BY DEF Dword
      <4>2. W(size, top) % Half = top % Half
        BY <4>1, Operand
      <4> QED
        BY <1>6, <2>5, <2>6, <4>2 DEF Alike
    <3>5. PICK b \in Int : b = Base - d
      BY NowIs
    <3>6. Alike(temp + k, b + k)
      BY <1>6, <3>4, <3>5, AlikePlus
    <3>7. b + k = Base - (Depth + bytes)
      <4>1. PICK p \in Int, q \in Int : p = Base /\ q = Depth
        BY NowIs
      <4>2. d = q + size /\ b = p - d /\ bytes = size + alloc /\ k = - alloc /\ size \in Int /\ alloc \in Int
        BY <1>0, <1>8, <1>15, <3>2, <3>5, <4>1
      <4>3. b + k = p - (q + bytes)
        BY <4>2
      <4> QED
        BY <4>1, <4>3
    <3> QED
      BY <1>19, <3>1, <3>2, <3>3, <3>6, <3>7 DEF FrameFacts, Alike
  <2> QED
    BY <2>9, <2>10, <2>11, <2>12
<1>21. f \in FrameType /\ f.esp = reg[SP] /\ f.after = m.reg[SP] /\ f.from = Depth
  BY <1>19 DEF FrameFacts
<1>22. Ends(m, eip + 4, eip + 3) /\ GrowOr(m, f, n)
  BY <1>16, <1>17
<1>23. eip + 4 \in Int /\ eip + 3 \in Int
  BY NowIs
<1> QED
  BY <1>18, <1>20, <1>21, <1>22, <1>23, Grown

\* The stack pointer that LEAVE takes from EBP.
LEMMA BackAtFrame ==
  ASSUME NEW sp \in Dword, NEW esp \in Dword, NEW size \in Sizes,
         size = 4 \/ sp \div Half = esp \div Half, NEW v, v = W(size, esp - size)
  PROVE  (IF size = 2 THEN sp - (sp % Half) + (v % Half) ELSE v % Dwords) = Move(esp, size, - size)
<1> USE Constants
<1>1. PICK n \in Int, x \in Int : n = - size /\ x = esp + n /\ x = esp - size
  BY DEF Dword, Sizes
<1>2. v % Half = x % Half /\ v % Dwords = v
  BY <1>1, Operand
<1>3. sp \in Int /\ esp \in Int
  BY DEF Dword
<1>4. CASE size = 2
  <2>1. sp = Half * (sp \div Half) + (sp % Half) /\ esp = Half * (esp \div Half) + (esp % Half)
    BY <1>3, Remainder
  <2>2. PICK a \in Int, b \in Int, t \in Int, h \in Int :
          a = sp % Half /\ b = esp % Half /\ t = x % Half /\ h = Half * (esp \div Half)
    BY <1>3, Remainder
  <2>3. sp = h + a /\ esp = h + b
    BY <1>4, <2>1, <2>2
  <2>4. sp - a + t = esp - b + t
    BY <1>3, <2>2, <2>3
  <2> QED
    BY <1>1, <1>2, <1>4, <2>2, <2>4 DEF Move
<1>5. CASE size = 4
  BY <1>1, <1>2, <1>5 DEF Move, W
<1> QED
  BY <1>4, <1>5 DEF Sizes

LEMMA LeaveGood ==
  ASSUME FlowInv, NEW size \in Sizes, Leave(size)
  PROVE  Good'
<1> USE Constants
<1>1. PICK v \in Dword : v = Reg(reg, size, BP) /\ v \in Int
  <2>1. BP \in 0 .. 7
    BY DEF BP
  <2> QED
    BY <2>1, OperandOfReg DEF FlowInv, Dword
<1>2. PICK d : d = Set(Now, size, SP, v)
  OBVIOUS
<1>3. SetFacts(Now, size, SP, v, d)
  BY <1>1, <1>2, NowIs, Sets DEF SP
<1>4. PICK m : m = PopInto(d, size, BP)
  OBVIOUS
<1>5. PopIntoFacts(d, size, BP, m)
  BY <1>3, <1>4, PopsInto DEF SetFacts, BP
<1>6. m = Left(size)
  BY <1>1, <1>2, <1>4 DEF Left
<1>7. MachineOK(m) /\ m.mem = mem
  BY <1>3, <1>5, NowIs DEF SetFacts, PopIntoFacts
<1>8. Ends(m, eip + 1, eip) /\ eip + 1 \in Int /\ eip \in Int
  BY <1>6, NowIs DEF Leave
<1>9. CASE ~ (m.ok /\ \E k \in DOMAIN frames : Based(k, size))
  <2>1. Forget
    BY <1>6, <1>9, Zenon DEF Leave
  <2> QED
    BY <1>7, <1>8, <2>1, Forgotten
<1>10. CASE m.ok /\ \E k \in DOMAIN frames : Based(k, size)
  <2>1. PICK k \in DOMAIN frames :
          Based(k, size) /\ k = (CHOOSE i \in DOMAIN frames : Based(i, size))
    BY <1>10
  <2>2. k \in 1 .. Len(frames) /\ frames[k] \in FrameType
    BY <2>1 DEF FlowInv, Held
  <2>3. PICK f \in FrameType : f = frames[k]
    BY <2>2
  <2>4. PICK got : got = <<Reg(m.reg, size, BP)>> /\ got[1] = Reg(m.reg, size, BP)
    BY OneValue
  <2>5. /\ frames' = SubSeq(frames, 1, k - 1)
        /\ unwound' = [kind |-> f.kind, size |-> f.size, want |-> f.vals, got |-> got,
                       esp |-> f.esp, next |-> f.next]
    <3>1. Unwind(k, got)
      BY <1>6, <1>10, <2>1, <2>4, Zenon DEF Leave
    <3> QED
      BY <2>3, <3>1 DEF Unwind
  <2>6. PICK esp \in Dword, sp \in Dword : esp = f.esp /\ sp = reg[SP]
    BY <2>3, FieldsOf, NowIs
  <2>7. /\ f.kind = "enter" /\ f.size = size /\ v = W(size, esp - size)
        /\ size = 4 \/ sp \div Half = esp \div Half
    BY <1>1, <2>1, <2>3, <2>6 DEF Based
  <2>8. d.reg[SP] = Move(esp, size, - size)
    <3>1. d.reg = SetReg(reg, size, SP, v) /\ reg \in [0 .. 7 -> Dword] /\ SP \in 0 .. 7
      BY <1>3, NowIs DEF SetFacts, FlowInv, RegsOK, SP
    <3>2. d.reg[SP] = IF size = 2 THEN sp - (sp % Half) + (v % Half) ELSE v % Dwords
      BY <2>6, <3>1 DEF SetReg
    <3> QED
      BY <2>7, <3>2, BackAtFrame
  <2>9. PICK n \in Int, s \in Int : n = - size /\ s = size /\ n + s = 0
    BY DEF Sizes
  <2>10. m.reg[SP] = esp
    <3>1. m.reg[SP] = Move(d.reg[SP], size, size)
      BY <1>5, <1>10 DEF PopIntoFacts, BP, SP
    <3>2. Move(Move(esp, size, n), size, s) = Move(esp, size, n + s)
      BY <2>9, MoveMove
    <3> QED
      BY <2>8, <2>9, <3>1, <3>2, MoveNowhere
  <2>11. FlowInv'
    BY <1>7, <1>8, <2>2, <2>3, <2>5, <2>6, <2>10, Unwound
  <2>12. got[1] = f.vals[1] /\ DOMAIN f.vals = 1 .. 1
    <3>1. W(size, m.reg[BP]) = Load(mem, W(size, d.reg[SP]), size)
      BY <1>3, <1>5, <1>10, NowIs DEF PopIntoFacts, SetFacts
    <3>2. W(size, d.reg[SP]) = W(size, esp + n)
      BY <2>8, <2>9, MoveIs DEF MoveFacts
    <3>3. esp + n = esp - size * 1
      BY <2>9 DEF Dword, Sizes
    <3>4. FrameOK(f) /\ Intact(mem, f) /\ Count("enter") = 1 /\ 1 \in 1 .. 1
      BY <2>2, <2>3 DEF FlowInv, Held, Framed, Count
    <3>5. Load(mem, Slot(f, 1), size) = f.vals[1]
      BY <2>7, <3>4 DEF Intact
    <3>6. Slot(f, 1) = W(size, esp - size * 1)
      BY <2>6, <2>7 DEF Slot
    <3>7. Len(f.vals) = 1 /\ f.vals \in Seq(Dword)
      BY <2>7, <3>4, FieldsOf DEF FrameOK
    <3> QED
      BY <2>4, <3>1, <3>2, <3>3, <3>5, <3>6, <3>7 DEF Reg
  <2>13. Unwinds'
    <3>1. reg'[SP] = f.esp
      BY <1>7, <1>8, <2>6, <2>10, Ended
    <3>2. unwound'.kind = "enter" /\ unwound'.want = f.vals /\ unwound'.got = got
          /\ unwound'.esp = f.esp
      BY <2>5, <2>7
    <3>3. \A j \in DOMAIN f.vals : got[j] = f.vals[j]
      BY <2>12
    <3> QED
      BY <3>1, <3>2, <3>3 DEF Unwinds
  <2> QED
    BY <2>5, <2>11, <2>13, NothingToShow DEF Good
<1> QED
  BY <1>9, <1>10

-----------------------------------------------------------------------------
(* The theorems                                                            *)

LEMMA FlowInitInv ==
  ASSUME Init
  PROVE  Good
<1>1. eip \in Dword /\ RegsOK(reg) /\ MemOK(mem) /\ frames = << >>
      /\ unwound = NoPop
  BY FlowAssumption DEF Init, RegsOK, MemOK
<1>2. Held(frames, mem, reg[SP])
  BY <1>1, HeldEmpty
<1>3. Unwinds
  <2>1. unwound.kind = "none"
    BY <1>1 DEF NoPop
  <2> QED
    BY <2>1 DEF Unwinds
<1> QED
  BY <1>1, <1>2, <1>3 DEF Good, FlowInv

LEMMA FlowNextInv ==
  ASSUME FlowInv, Next
  PROVE  Good'
<1>1. PICK size \in Sizes : Stack(size) \/ CallOrReturn(size) \/ Jump(size)
  BY DEF Next
<1>2. CASE Stack(size)
  <2>1. CASE \E r \in Operands : PushReg(size, r)
    BY <2>1, PushRegGood
  <2>2. CASE \E r \in Operands : PopReg(size, r)
    BY <2>2, PopRegGood
  <2>3. CASE PopSegment(size)
    BY <2>3, PopSegmentGood
  <2>4. CASE Pusha(size)
    BY <2>4, PushaGood
  <2>5. CASE Popa(size)
    BY <2>5, PopaGood
  <2>6. CASE \E alloc \in Allocs, level \in Levels : Enter(size, alloc, level)
    BY <2>6, EnterGood
  <2>7. CASE Leave(size)
    BY <2>7, LeaveGood
  <2> QED
    BY <1>2, <2>1, <2>2, <2>3, <2>4, <2>5, <2>6, <2>7 DEF Stack
<1>3. CASE CallOrReturn(size)
  <2>1. CASE \E rel \in Rels : CallRel(size, rel)
    BY <2>1, CallRelGood
  <2>2. CASE \E r \in Operands : CallRm(size, r)
    BY <2>2, CallRmGood
  <2>3. CASE \E place \in Places : CallFar(size, place)
    BY <2>3, CallFarGood
  <2>4. CASE Retn(size)
    BY <2>4, RetnGood
  <2>5. CASE Iret(size)
    BY <2>5, IretGood
  <2>6. CASE \E n \in Frees : RetnImm(size, n)
    BY <2>6, RetnImmGood
  <2>7. CASE \E n \in Frees : Retf(size, n)
    BY <2>7, RetfGood
  <2> QED
    BY <1>3, <2>1, <2>2, <2>3, <2>4, <2>5, <2>6, <2>7 DEF CallOrReturn
<1>4. CASE Jump(size)
  <2>1. CASE \E place \in Places : JmpTo(size, place)
    BY <2>1, JmpToGood
  <2>2. CASE \E off \in Rels :
               \/ JmpRel8(size, off) \/ JmpRelW(size, off) \/ Jcxz(size, off)
               \/ \E taken \in BOOLEAN : Jcc8(size, off, taken) \/ JccW(size, off, taken)
    BY <2>2, JumpGood
  <2>3. CASE \E off \in Rels, taken \in BOOLEAN : Loopcc(size, off, taken)
    BY <2>3, LoopccGood
  <2> QED
    BY <1>4, <2>1, <2>2, <2>3 DEF Jump
<1> QED
  BY <1>1, <1>2, <1>3, <1>4

LEMMA FlowStutters ==
  ASSUME Good, UNCHANGED vars
  PROVE  Good'
<1>1. /\ eip' = eip /\ reg' = reg /\ mem' = mem /\ frames' = frames
      /\ unwound' = unwound
  BY DEF vars, machine
<1>2. FlowInv'
  BY <1>1 DEF Good, FlowInv
<1>3. Unwinds'
  BY <1>1 DEF Good, Unwinds
<1> QED
  BY <1>2, <1>3 DEF Good

\* The frames are on the stack, one under the other, in every state of every program: the
\* inductive invariant behind what follows.
THEOREM FlowInductive == Spec => []Good
<1>1. Init => Good
  BY FlowInitInv
<1>2. Good /\ [Next]_vars => Good'
  BY FlowNextInv, FlowStutters DEF Good
<1> QED
  BY <1>1, <1>2, PTL DEF Spec

\* Registers, addresses and bytes stay in range, and only mapped memory is written, whatever
\* wraps around, is truncated or fails.
THEOREM FlowTypeCorrect == Spec => []TypeOK
<1>1. Good => TypeOK
  BY DEF Good, FlowInv, RegsOK, MemOK, ByteVal, TypeOK
<1> QED
  BY <1>1, FlowInductive, PTL

\* What is on the stack stays there until it is popped, for every mixture of operand sizes,
\* with SP and ESP wrapping around where they do.
THEOREM FramesStay == Spec => []FramesIntact
<1>1. ASSUME FlowInv PROVE FramesIntact
  <2> SUFFICES ASSUME NEW i \in DOMAIN frames
               PROVE  /\ \A k \in DOMAIN frames[i].vals :
                           Load(mem, Slot(frames[i], k), frames[i].size) = frames[i].vals[k]
                      /\ frames[i].after = IF i = Len(frames) THEN reg[SP] ELSE frames[i + 1].esp
    BY DEF FramesIntact
  <2>1. i \in 1 .. Len(frames) /\ frames[i] \in FrameType
    BY <1>1 DEF FlowInv, Held
  <2>2. PICK f \in FrameType : f = frames[i]
    BY <2>1
  <2>3. FrameOK(f) /\ Intact(mem, f)
        /\ f.after = IF i = Len(frames) THEN reg[SP] ELSE frames[i + 1].esp
    BY <1>1, <2>1, <2>2 DEF FlowInv, Held, Framed, Linked
  <2>4. DOMAIN f.vals = 1 .. Count(f.kind)
    BY <2>3, FieldsOf DEF FrameOK
  <2> QED
    BY <2>2, <2>3, <2>4 DEF Intact
<1>2. Good => FramesIntact
  BY <1>1 DEF Good
<1> QED
  BY <1>2, FlowInductive, PTL

\* A pop takes off what the matching push has put there, and ESP is where it was before:
\* RET, with and without an operand, POPA and LEAVE undo CALL, PUSHA and ENTER.
THEOREM PopsMatchPushes == Spec => []Unwinds
<1>1. Good => Unwinds
  BY DEF Good
<1> QED
  BY <1>1, FlowInductive, PTL

=============================================================================
