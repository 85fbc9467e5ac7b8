---------------------------- MODULE PayloadProofs ----------------------------
(***************************************************************************)
(* Decompressing what was compressed gives the payload back: proved for    *)
(* every payload and every size of the length byte.                        *)
(*                                                                         *)
(* trace says which part of the payload each compressed byte stands for.   *)
(* The pieces follow one another without a gap (TraceOK): the encoder      *)
(* keeps that up to the byte it has reached (EncoderAt), so when it ends   *)
(* the pieces cover the payload (Complete), and the decoder's output is    *)
(* the payload up to the piece it has reached (DecoderAt).                 *)
(***************************************************************************)
EXTENDS Payload, SequenceTheorems, WellFoundedInduction, TLAPS

\* The index of the payload behind piece k of t, for bytes r.
After(r, t, k) ==
  CASE t[k].kind = "byte" -> t[k].from + 1
    [] t[k].kind = "zero" -> t[k].from
    [] t[k].kind = "length" -> t[k].from + r[k]

\* Piece k stands for the bytes of p it claims to stand for.
PieceOK(p, r, t, k) ==
  /\ t[k].kind = "byte" =>
       r[k] # 0 /\ t[k].from \in 1 .. Len(p) /\ r[k] = p[t[k].from]
  /\ t[k].kind = "zero" => r[k] = 0
  /\ t[k].kind = "length" =>
       /\ r[k] # 0 /\ t[k].from \in 1 .. Len(p) /\ t[k].from + r[k] <= Len(p) + 1
       /\ \A j \in t[k].from .. t[k].from + r[k] - 1 : p[j] = 0

\* Piece k begins where the one before it ended; a length follows a zero.
LinkOK(r, t, k) ==
  /\ t[k].from = After(r, t, k - 1)
  /\ t[k].kind = "length" <=> t[k - 1].kind = "zero"

FirstOK(t) == t[1].from = 1 /\ t[1].kind # "length"

TraceOK(p, r, t) ==
  /\ Len(t) = Len(r)
  /\ \A k \in 1 .. Len(r) : PieceOK(p, r, t, k)
  /\ \A k \in 2 .. Len(r) : LinkOK(r, t, k)
  /\ Len(r) > 0 => FirstOK(t)

\* The encoder has reached byte i.
EncoderAt ==
  /\ i <= Len(payload) + 1
  /\ inZero =>
       /\ Len(result) > 0 /\ trace[Len(result)].kind = "zero"
       /\ zeros # 0 /\ zeros < i
       /\ trace[Len(result)].from = i - zeros
       /\ \A j \in i - zeros .. i - 1 : payload[j] = 0
  /\ ~ inZero =>
       /\ Len(result) = 0 => i = 1
       /\ Len(result) > 0 => /\ trace[Len(result)].kind = "byte"
                             /\ trace[Len(result)].from + 1 = i

Complete ==
  /\ size = Len(payload)
  /\ Len(result) = 0 => Len(payload) = 0
  /\ Len(result) > 0 => /\ trace[Len(result)].kind # "zero"
                        /\ After(result, trace, Len(result)) = Len(payload) + 1

\* The decoder has reached byte i of result.
DecoderAt ==
  /\ i <= Len(result) + 1
  /\ inZero <=> i > 1 /\ trace[i - 1].kind = "zero"
  /\ i = 1 => Len(out) = 0
  /\ i > 1 => Len(out) + 1 = After(result, trace, i - 1)
  /\ Len(out) <= Len(payload)
  /\ \A j \in 1 .. Len(out) : out[j] = payload[j]

CodecInv ==
  /\ TypeOK
  /\ made => TraceOK(payload, result, trace)
  /\ phase = "compress" => made /\ EncoderAt
  /\ made /\ phase # "compress" => Complete
  /\ made /\ phase = "decompress" => DecoderAt
  /\ RoundTrip

-----------------------------------------------------------------------------
(* A piece is appended.                                                    *)

NextPiece(p, r, t, x, q) ==
  /\ q.kind = "byte" => x # 0 /\ q.from \in 1 .. Len(p) /\ x = p[q.from]
  /\ q.kind = "zero" => x = 0
  /\ q.kind = "length" =>
       /\ x # 0 /\ q.from \in 1 .. Len(p) /\ q.from + x <= Len(p) + 1
       /\ \A j \in q.from .. q.from + x - 1 : p[j] = 0
  /\ Len(r) = 0 => q.from = 1 /\ q.kind # "length"
  /\ Len(r) > 0 => /\ q.from = After(r, t, Len(r))
                   /\ q.kind = "length" <=> t[Len(r)].kind = "zero"

Appended(p, r, t, x, q) ==
  /\ Append(r, x) \in Seq(Byte) /\ Append(t, q) \in Seq(Piece)
  /\ Len(Append(r, x)) = Len(r) + 1
  /\ Append(r, x)[Len(r) + 1] = x /\ Append(t, q)[Len(r) + 1] = q
  /\ TraceOK(p, Append(r, x), Append(t, q))

LEMMA AppendPiece ==
  ASSUME NEW p \in Seq(Byte), NEW r \in Seq(Byte), NEW t \in Seq(Piece), TraceOK(p, r, t),
         NEW x \in Byte, NEW q \in Piece, NextPiece(p, r, t, x, q)
  PROVE  Appended(p, r, t, x, q)
<1> DEFINE n == Len(r)
           rr == Append(r, x)
           tt == Append(t, q)
<1>1. n \in Nat /\ Len(t) = n
  BY DEF TraceOK
<1>2. /\ rr \in Seq(Byte) /\ Len(rr) = n + 1 /\ rr[n + 1] = x
      /\ \A k \in 1 .. n : rr[k] = r[k]
  BY AppendProperties
<1>3. /\ tt \in Seq(Piece) /\ Len(tt) = n + 1 /\ tt[n + 1] = q
      /\ \A k \in 1 .. n : tt[k] = t[k]
  BY <1>1, AppendProperties
<1> HIDE DEF rr, tt
<1>4. \A k \in 1 .. n : After(rr, tt, k) = After(r, t, k)
  BY <1>2, <1>3 DEF After
<1>5. ASSUME NEW k \in 1 .. n + 1 PROVE PieceOK(p, rr, tt, k)
  <2>1. CASE k = n + 1
    BY <1>2, <1>3, <2>1 DEF PieceOK, NextPiece
  <2>2. CASE k \in 1 .. n
    BY <1>2, <1>3, <2>2 DEF PieceOK, TraceOK
  <2> QED
    BY <1>1, <2>1, <2>2
<1>6. ASSUME NEW k \in 2 .. n + 1 PROVE LinkOK(rr, tt, k)
  <2>1. CASE k = n + 1
    BY <1>1, <1>2, <1>3, <1>4, <2>1 DEF LinkOK, NextPiece
  <2>2. CASE k \in 2 .. n
    <3>1. k - 1 \in 1 .. n /\ k \in 1 .. n
      BY <1>1, <2>2
    <3> QED
      BY <1>3, <1>4, <2>2, <3>1 DEF LinkOK, TraceOK
  <2> QED
    BY <1>1, <2>1, <2>2
<1>7. FirstOK(tt)
  <2>1. CASE n = 0
    BY <1>3, <2>1 DEF FirstOK, NextPiece
  <2>2. CASE n > 0
    BY <1>1, <1>3, <2>2 DEF FirstOK, TraceOK
  <2> QED
    BY <1>1, <2>1, <2>2
<1>8. TraceOK(p, rr, tt)
  BY <1>2, <1>3, <1>5, <1>6, <1>7 DEF TraceOK
<1> QED
  BY <1>2, <1>3, <1>8 DEF rr, tt, Appended

\* The run that ends in front of i is a piece.
LEMMA RunPiece ==
  ASSUME CodecInv, phase = "compress", inZero
  PROVE  /\ RunLength \in Piece /\ RunLength.kind = "length" /\ RunLength.from = i - zeros
         /\ zeros \in Byte
         /\ Append(result, zeros) \in Seq(Byte) /\ Append(trace, RunLength) \in Seq(Piece)
         /\ Len(Append(result, zeros)) = Len(result) + 1
         /\ Append(result, zeros)[Len(result) + 1] = zeros
         /\ Append(trace, RunLength)[Len(result) + 1] = RunLength
         /\ TraceOK(payload, Append(result, zeros), Append(trace, RunLength))
         /\ After(Append(result, zeros), Append(trace, RunLength), Len(result) + 1) = i
<1>1. TypeOK /\ made /\ EncoderAt /\ TraceOK(payload, result, trace)
  BY DEF CodecInv
<1>2. /\ zeros \in Byte /\ zeros \in Nat /\ i \in Nat /\ zeros < i /\ zeros # 0
      /\ i <= Len(payload) + 1 /\ Len(payload) \in Nat /\ Len(result) \in Nat
      /\ Len(result) > 0 /\ trace[Len(result)].kind = "zero"
      /\ trace[Len(result)].from = i - zeros
      /\ payload \in Seq(Byte) /\ result \in Seq(Byte) /\ trace \in Seq(Piece)
  BY <1>1, PayloadAssumption DEF TypeOK, EncoderAt, Byte, PayloadAssumption
<1>3. RunLength \in Piece /\ RunLength.kind = "length" /\ RunLength.from = i - zeros
  BY <1>2 DEF RunLength, PieceOf, Piece
<1> DEFINE q == RunLength
<1> HIDE DEF q
<1>4. q \in Piece /\ q.kind = "length" /\ q.from = i - zeros
  BY <1>3 DEF q
<1>5. PICK m \in Nat : m = i - zeros
  BY <1>2
<1>6. /\ m \in 1 .. Len(payload) /\ m + zeros <= Len(payload) + 1
      /\ m + zeros = i /\ m + zeros - 1 = i - 1
  BY <1>2, <1>5
<1>7. \A j \in m .. m + zeros - 1 : payload[j] = 0
  BY <1>1, <1>5, <1>6 DEF EncoderAt
<1>8. /\ q.from = m /\ q.from = After(result, trace, Len(result))
      /\ q.kind = "length" <=> trace[Len(result)].kind = "zero"
  BY <1>2, <1>4, <1>5 DEF After
<1>9. /\ Append(result, zeros) \in Seq(Byte) /\ Append(trace, q) \in Seq(Piece)
      /\ Len(Append(result, zeros)) = Len(result) + 1
      /\ Append(result, zeros)[Len(result) + 1] = zeros
      /\ Append(trace, q)[Len(result) + 1] = q
      /\ TraceOK(payload, Append(result, zeros), Append(trace, q))
  <2>1. ~ (q.kind = "byte") /\ ~ (q.kind = "zero")
    BY <1>4
  <2>2. /\ zeros # 0 /\ q.from \in 1 .. Len(payload) /\ q.from + zeros <= Len(payload) + 1
        /\ \A j \in q.from .. q.from + zeros - 1 : payload[j] = 0
    BY <1>2, <1>6, <1>7, <1>8
  <2>3. ~ (Len(result) = 0)
    BY <1>2
  <2>4. NextPiece(payload, result, trace, zeros, q)
    BY <1>8, <2>1, <2>2, <2>3 DEF NextPiece
  <2>5. /\ payload \in Seq(Byte) /\ result \in Seq(Byte) /\ trace \in Seq(Piece)
        /\ zeros \in Byte /\ q \in Piece /\ TraceOK(payload, result, trace)
    BY <1>1, <1>2, <1>4
  <2>6. Appended(payload, result, trace, zeros, q)
    BY <2>4, <2>5, AppendPiece, Zenon
  <2> QED
    BY <2>6 DEF Appended
<1> DEFINE rr == Append(result, zeros)
           tt == Append(trace, q)
<1>10. After(rr, tt, Len(result) + 1) = i
  <2>1. rr[Len(result) + 1] = zeros /\ tt[Len(result) + 1] = q
    BY <1>9
  <2> HIDE DEF rr, tt
  <2>2. After(rr, tt, Len(result) + 1) = q.from + zeros
    BY <1>4, <2>1 DEF After
  <2> QED
    BY <1>6, <1>8, <2>2
<1> QED
  BY <1>2, <1>3, <1>9, <1>10 DEF q

\* The byte at i is a piece of its own, behind pieces that end there.
LEMMA BytePiece ==
  ASSUME NEW p \in Seq(Byte), NEW r \in Seq(Byte), NEW t \in Seq(Piece), TraceOK(p, r, t),
         NEW k \in 1 .. Len(p),
         Len(r) = 0 => k = 1,
         Len(r) > 0 => After(r, t, Len(r)) = k /\ t[Len(r)].kind # "zero"
  PROVE  /\ p[k] \in Byte
         /\ PieceOf(Kind(p[k]), k) \in Piece
         /\ PieceOf(Kind(p[k]), k).kind = Kind(p[k])
         /\ PieceOf(Kind(p[k]), k).from = k
         /\ Appended(p, r, t, p[k], PieceOf(Kind(p[k]), k))
<1>1. p[k] \in Byte /\ Len(r) \in Nat
  BY ElementOfSeq
<1> DEFINE q == PieceOf(Kind(p[k]), k)
<1>2. q \in Piece /\ q.kind = Kind(p[k]) /\ q.from = k
  BY DEF PieceOf, Kind, Piece
<1>3. Kind(p[k]) # "length" /\ (Kind(p[k]) = "zero" <=> p[k] = 0)
  BY DEF Kind
<1> HIDE DEF q
<1>4. NextPiece(p, r, t, p[k], q)
  BY <1>1, <1>2, <1>3 DEF NextPiece, Kind
<1>5. Appended(p, r, t, p[k], q)
  BY <1>1, <1>2, <1>4, AppendPiece, Zenon
<1> QED
  BY <1>1, <1>2, <1>5 DEF q

-----------------------------------------------------------------------------
(* The encoder                                                             *)

LEMMA StartEncodes ==
  ASSUME CodecInv, NEW p \in Payloads, Compress(p)
  PROVE  CodecInv'
<1>1. p \in Seq(Byte) /\ 0 \in Byte /\ Len(p) \in Nat
  BY PayloadAssumption DEF PayloadAssumption, Byte
<1>2. << >> \in Seq(Byte) /\ << >> \in Seq(Piece) /\ Len(<< >>) = 0
  BY EmptySeq
<1>3. TypeOK'
  <2>1. made' \in BOOLEAN /\ inZero' \in BOOLEAN /\ force' \in BOOLEAN
    BY Zenon DEF Compress
  <2>2. /\ phase' = "compress" /\ payload' = p /\ i' = 1 /\ zeros' = 0 /\ size' = 0
        /\ result' = << >> /\ trace' = << >> /\ out' = << >>
    BY DEF Compress
  <2> QED
    BY <1>1, <1>2, <2>1, <2>2 DEF TypeOK
<1>4. TraceOK(payload, result, trace)'
  BY <1>1, <1>2 DEF Compress, TraceOK
<1>5. EncoderAt'
  BY <1>1, <1>2 DEF Compress, EncoderAt
<1> QED
  BY <1>3, <1>4, <1>5 DEF CodecInv, Compress, RoundTrip

\* What the encoder's steps leave alone.
LEMMA EncoderFrame ==
  ASSUME CodecInv, phase = "compress", payload' = payload, made' = made,
         force' = force, out' = out
  PROVE  payload' \in Seq(Byte) /\ made' \in BOOLEAN /\ force' \in BOOLEAN
         /\ out' \in Seq(Byte) /\ made'
BY DEF CodecInv, TypeOK

LEMMA ExtendRunEncodes ==
  ASSUME CodecInv, ExtendRun
  PROVE  CodecInv'
<1>1. /\ TypeOK /\ made /\ EncoderAt /\ TraceOK(payload, result, trace)
      /\ phase = "compress" /\ inZero /\ payload[i] = 0 /\ i <= Len(payload)
  BY DEF CodecInv, ExtendRun, Compressing, b
<1>2. /\ zeros \in Byte /\ zeros \in Nat /\ i \in Nat \ {0} /\ zeros < i /\ zeros # 0
      /\ i \in 1 .. Len(payload) /\ Len(payload) \in Nat /\ Len(result) \in Nat
      /\ payload \in Seq(Byte) /\ result \in Seq(Byte) /\ trace \in Seq(Piece)
      /\ 1 \in Byte /\ (zeros # MaxByte => zeros + 1 \in Byte) /\ size \in Nat
  BY <1>1, PayloadAssumption DEF TypeOK, EncoderAt, Byte, PayloadAssumption
<1>3. /\ phase' = "compress" /\ i' = i + 1 /\ inZero' = inZero /\ payload' = payload
      /\ size' = size /\ made' = made /\ force' = force /\ out' = out
  BY <1>1 DEF ExtendRun
<1>4. payload' \in Seq(Byte) /\ made' \in BOOLEAN /\ force' \in BOOLEAN
         /\ out' \in Seq(Byte) /\ made'
  BY <1>1, <1>3, EncoderFrame
<1>5. CASE zeros # MaxByte
  <2>1. zeros' = zeros + 1 /\ result' = result /\ trace' = trace
    BY <1>5 DEF ExtendRun
  <2>2. TypeOK'
    BY <1>1, <1>2, <1>3, <1>4, <1>5, <2>1 DEF TypeOK
  <2>3. EncoderAt'
    <3>1. i' - zeros' = i - zeros /\ i' - 1 = i
      BY <1>2, <1>3, <2>1
    <3>2. \A j \in i - zeros .. i : payload[j] = 0
      BY <1>1, <1>2 DEF EncoderAt
    <3> QED
      BY <1>1, <1>2, <1>3, <2>1, <3>1, <3>2 DEF EncoderAt
  <2> QED
    BY <1>1, <1>3, <1>4, <2>1, <2>2, <2>3 DEF CodecInv, RoundTrip
<1>6. CASE zeros = MaxByte
  <2> DEFINE r1 == Append(result, zeros)
             t1 == Append(trace, RunLength)
             q  == PieceOf(Kind(payload[i]), i)
  <2>1. /\ r1 \in Seq(Byte) /\ t1 \in Seq(Piece) /\ Len(r1) = Len(result) + 1
        /\ TraceOK(payload, r1, t1) /\ After(r1, t1, Len(result) + 1) = i
        /\ t1[Len(result) + 1].kind = "length"
    BY <1>1, RunPiece
  <2>2. Kind(payload[i]) = "zero" /\ q = PieceOf("zero", i)
    BY <1>1 DEF Kind
  <2>3. zeros' = 1 /\ result' = Append(r1, payload[i]) /\ trace' = Append(t1, q)
    BY <1>1, <1>6, <2>2 DEF ExtendRun, EmitTwo
  <2> HIDE DEF r1, t1
  <2>4. /\ payload[i] \in Byte /\ q \in Piece /\ q.kind = Kind(payload[i]) /\ q.from = i
        /\ Appended(payload, r1, t1, payload[i], q)
    BY <1>2, <2>1, BytePiece
  <2> HIDE DEF q
  <2>5. /\ result' \in Seq(Byte) /\ trace' \in Seq(Piece)
        /\ Len(result') = Len(r1) + 1 /\ Len(result') > 0
        /\ trace'[Len(result')] = q
        /\ TraceOK(payload, result', trace')
    BY <1>2, <2>1, <2>3, <2>4 DEF Appended
  <2>6. TypeOK'
    BY <1>1, <1>2, <1>3, <1>4, <2>3, <2>5 DEF TypeOK
  <2>7. EncoderAt'
    <3>1. i' - zeros' = i /\ i' - 1 = i /\ zeros' < i' /\ zeros' # 0 /\ i' <= Len(payload) + 1
      BY <1>2, <1>3, <2>3
    <3>2. trace'[Len(result')].kind = "zero" /\ trace'[Len(result')].from = i
      BY <2>2, <2>4, <2>5
    <3>3. \A j \in i .. i : payload[j] = 0
      BY <1>1, <1>2
    <3> QED
      BY <1>1, <1>3, <2>5, <3>1, <3>2, <3>3 DEF EncoderAt
  <2> QED
    BY <1>3, <1>4, <2>5, <2>6, <2>7 DEF CodecInv, RoundTrip
<1> QED
  BY <1>5, <1>6

LEMMA NextByteEncodes ==
  ASSUME CodecInv, NextByte
  PROVE  CodecInv'
<1>1. /\ TypeOK /\ made /\ EncoderAt /\ TraceOK(payload, result, trace)
      /\ phase = "compress" /\ i <= Len(payload) /\ ~ (inZero /\ payload[i] = 0)
  BY DEF CodecInv, NextByte, Compressing, b
<1>2. /\ zeros \in Byte /\ zeros \in Nat /\ i \in Nat \ {0}
      /\ i \in 1 .. Len(payload) /\ Len(payload) \in Nat /\ Len(result) \in Nat
      /\ payload \in Seq(Byte) /\ result \in Seq(Byte) /\ trace \in Seq(Piece)
      /\ 1 \in Byte /\ 0 \in Byte /\ size \in Nat
  BY <1>1, PayloadAssumption DEF TypeOK, EncoderAt, Byte, PayloadAssumption
<1>3. /\ phase' = "compress" /\ i' = i + 1 /\ payload' = payload
      /\ size' = size /\ made' = made /\ force' = force /\ out' = out
      /\ inZero' = (payload[i] = 0)
      /\ zeros' = IF payload[i] = 0 THEN 1 ELSE IF inZero THEN 0 ELSE zeros
  BY <1>1 DEF NextByte, b
<1>4. payload' \in Seq(Byte) /\ made' \in BOOLEAN /\ force' \in BOOLEAN
         /\ out' \in Seq(Byte) /\ made'
  BY <1>1, <1>3, EncoderFrame
<1> DEFINE q == PieceOf(Kind(payload[i]), i)
<1>5. PICK r \in Seq(Byte), t \in Seq(Piece) :
        /\ TraceOK(payload, r, t)
        /\ Len(r) = 0 => i = 1
        /\ Len(r) > 0 => After(r, t, Len(r)) = i /\ t[Len(r)].kind # "zero"
        /\ result' = Append(r, payload[i]) /\ trace' = Append(t, q)
  <2>1. CASE inZero
    <3> DEFINE r1 == Append(result, zeros)
               t1 == Append(trace, RunLength)
    <3>1. /\ r1 \in Seq(Byte) /\ t1 \in Seq(Piece) /\ Len(r1) = Len(result) + 1
          /\ TraceOK(payload, r1, t1) /\ After(r1, t1, Len(result) + 1) = i
          /\ t1[Len(result) + 1].kind = "length"
      BY <1>1, <2>1, RunPiece
    <3>2. result' = Append(r1, payload[i]) /\ trace' = Append(t1, q)
      BY <2>1 DEF NextByte, EmitTwo, b
    <3> HIDE DEF r1, t1, q
    <3>3. Len(r1) > 0 /\ Len(r1) # 0
      BY <1>2, <3>1
    <3> QED
      BY <3>1, <3>2, <3>3
  <2>2. CASE ~ inZero
    <3>1. result' = Append(result, payload[i]) /\ trace' = Append(trace, q)
      BY <2>2 DEF NextByte, Emit, b
    <3>2. /\ Len(result) = 0 => i = 1
          /\ Len(result) > 0 => /\ trace[Len(result)].kind = "byte"
                                /\ After(result, trace, Len(result)) = i
      BY <1>1, <1>2, <2>2 DEF EncoderAt, After
    <3> HIDE DEF q
    <3> QED
      BY <1>1, <1>2, <3>1, <3>2
  <2> QED
    BY <2>1, <2>2
<1>6. /\ payload[i] \in Byte /\ q \in Piece /\ q.kind = Kind(payload[i]) /\ q.from = i
      /\ Appended(payload, r, t, payload[i], q)
  BY <1>2, <1>5, BytePiece
<1> HIDE DEF q
<1>7. /\ result' \in Seq(Byte) /\ trace' \in Seq(Piece)
      /\ Len(result') = Len(r) + 1 /\ Len(result') > 0
      /\ trace'[Len(result')] = q
      /\ TraceOK(payload, result', trace')
  BY <1>2, <1>5, <1>6 DEF Appended
<1>8. TypeOK'
  <2>1. zeros' \in Byte
    BY <1>2, <1>3
  <2>2. inZero' \in BOOLEAN
    BY <1>3, Zenon
  <2> QED
    BY <1>1, <1>2, <1>3, <1>4, <1>7, <2>1, <2>2 DEF TypeOK
<1>9. EncoderAt'
  <2>1. i' <= Len(payload) + 1 /\ i' - 1 = i
    BY <1>2, <1>3
  <2>2. CASE payload[i] = 0
    <3>1. inZero'
      BY <1>3, <2>2, Zenon
    <3>2. zeros' = 1 /\ i' - zeros' = i /\ zeros' < i' /\ zeros' # 0 /\ q.kind = "zero"
      BY <1>2, <1>3, <1>6, <2>2 DEF Kind
    <3>3. \A j \in i .. i : payload[j] = 0
      BY <1>2, <2>2
    <3> QED
      BY <1>3, <1>6, <1>7, <2>1, <3>1, <3>2, <3>3 DEF EncoderAt
  <2>3. CASE payload[i] # 0
    <3>1. ~ inZero' /\ q.kind = "byte"
      BY <1>3, <1>6, <2>3 DEF Kind
    <3>2. q.from + 1 = i'
      BY <1>3, <1>6
    <3>3. ~ (Len(result') = 0)
      BY <1>7
    <3> QED
      BY <1>3, <1>6, <1>7, <2>1, <3>1, <3>2, <3>3 DEF EncoderAt
  <2> QED
    BY <2>2, <2>3
<1> QED
  BY <1>3, <1>4, <1>7, <1>8, <1>9 DEF CodecInv, RoundTrip

LEMMA FinishEncodes ==
  ASSUME CodecInv, Finish
  PROVE  CodecInv'
<1>1. /\ TypeOK /\ made /\ EncoderAt /\ TraceOK(payload, result, trace)
      /\ phase = "compress" /\ ~ (i <= Len(payload)) /\ i <= Len(payload) + 1
  BY DEF CodecInv, Finish, EncoderAt, TypeOK
<1>2. /\ zeros \in Byte /\ i \in Nat \ {0} /\ 0 \in Byte
      /\ Len(payload) \in Nat /\ Len(result) \in Nat /\ i = Len(payload) + 1
      /\ payload \in Seq(Byte) /\ result \in Seq(Byte) /\ trace \in Seq(Piece)
  BY <1>1, PayloadAssumption DEF TypeOK, EncoderAt, Byte, PayloadAssumption
<1>3. /\ phase' = "host" /\ i' = 1 /\ zeros' = 0 /\ payload' = payload
      /\ size' = Len(payload) /\ made' = made /\ force' = force /\ out' = out
  BY <1>1 DEF Finish
<1>4. payload' \in Seq(Byte) /\ made' \in BOOLEAN /\ force' \in BOOLEAN
         /\ out' \in Seq(Byte) /\ made'
  BY <1>1, <1>3, EncoderFrame
<1>5. inZero' \in BOOLEAN
  BY Zenon DEF Finish
<1>6. /\ result' \in Seq(Byte) /\ trace' \in Seq(Piece)
      /\ TraceOK(payload, result', trace')
      /\ Len(result') = 0 => Len(payload) = 0
      /\ Len(result') > 0 => /\ trace'[Len(result')].kind # "zero"
                             /\ After(result', trace', Len(result')) = Len(payload) + 1
  <2>1. CASE inZero
    <3> DEFINE r1 == Append(result, zeros)
               t1 == Append(trace, RunLength)
    <3>1. /\ r1 \in Seq(Byte) /\ t1 \in Seq(Piece) /\ Len(r1) = Len(result) + 1
          /\ TraceOK(payload, r1, t1) /\ After(r1, t1, Len(result) + 1) = i
          /\ t1[Len(result) + 1].kind = "length"
      BY <1>1, <2>1, RunPiece
    <3>2. result' = r1 /\ trace' = t1
      BY <2>1 DEF Finish, Emit
    <3> HIDE DEF r1, t1
    <3> QED
      BY <1>2, <3>1, <3>2
  <2>2. CASE ~ inZero
    <3>1. result' = result /\ trace' = trace
      BY <2>2 DEF Finish
    <3>2. /\ Len(result) = 0 => i = 1
          /\ Len(result) > 0 => /\ trace[Len(result)].kind = "byte"
                                /\ After(result, trace, Len(result)) = i
      BY <1>1, <1>2, <2>2 DEF EncoderAt, After
    <3> QED
      BY <1>1, <1>2, <3>1, <3>2
  <2> QED
    BY <2>1, <2>2
<1>7. TypeOK'
  BY <1>1, <1>2, <1>3, <1>4, <1>5, <1>6 DEF TypeOK
<1>8. Complete'
  <2>1. After(result, trace, Len(result))' = After(result', trace', Len(result'))
    BY DEF After
  <2> QED
    BY <1>3, <1>6, <2>1 DEF Complete
<1> QED
  BY <1>3, <1>4, <1>6, <1>7, <1>8 DEF CodecInv, RoundTrip

-----------------------------------------------------------------------------
(* The decoder                                                             *)

LEMMA StartDecodes ==
  ASSUME CodecInv, NEW f \in BOOLEAN,
         DecompressMade(f) \/ \E x \in Foreign : DecompressForeign(x, f)
  PROVE  CodecInv'
<1>1. TypeOK /\ phase = "host" /\ << >> \in Seq(Byte) /\ << >> \in Seq(Piece) /\ 0 \in Byte
  BY EmptySeq, PayloadAssumption
     DEF CodecInv, DecompressMade, DecompressForeign, Byte, PayloadAssumption
<1>2. /\ phase' = "decompress" /\ i' = 1 /\ zeros' = 0 /\ out' = << >> /\ force' = f
      /\ ~ inZero'
  BY DEF DecompressMade, DecompressForeign, BeginDecompress
<1>3. inZero' \in BOOLEAN
  BY Zenon DEF DecompressMade, DecompressForeign, BeginDecompress
<1>4. CASE DecompressMade(f)
  <2>1. /\ made /\ payload' = payload /\ made' = made /\ size' = size
        /\ result' = result /\ trace' = trace
    BY <1>4 DEF DecompressMade
  <2>2. TypeOK'
    BY <1>1, <1>2, <1>3, <2>1 DEF TypeOK
  <2>3. TraceOK(payload, result, trace) /\ Complete
    BY <1>1, <2>1 DEF CodecInv
  <2>4. Complete'
    BY <2>1, <2>3 DEF Complete, After
  <2>5. DecoderAt'
    <3>1. Len(payload) \in Nat /\ Len(result) \in Nat /\ Len(<< >>) = 0
      BY <1>1 DEF TypeOK
    <3> QED
      BY <1>2, <2>1, <3>1 DEF DecoderAt
  <2> QED
    BY <1>2, <2>1, <2>2, <2>3, <2>4, <2>5 DEF CodecInv, RoundTrip
<1>5. ASSUME NEW x \in Foreign, DecompressForeign(x, f) PROVE CodecInv'
  <2>1. /\ payload' = << >> /\ ~ made' /\ size' = x.size
        /\ result' = x.bytes /\ trace' = << >>
    BY <1>5 DEF DecompressForeign
  <2>2. made' \in BOOLEAN
    BY <1>5, Zenon DEF DecompressForeign
  <2>3. x.size \in Nat /\ x.bytes \in Seq(Byte)
    BY PayloadAssumption DEF PayloadAssumption
  <2>4. TypeOK'
    BY <1>1, <1>2, <1>3, <2>1, <2>2, <2>3 DEF TypeOK
  <2> QED
    BY <1>2, <2>1, <2>4 DEF CodecInv, RoundTrip
<1> QED
  BY <1>4, <1>5

\* The piece the decoder has reached begins behind what it has written.
LEMMA DecoderReads ==
  ASSUME CodecInv, made, phase = "decompress", i <= Len(result)
  PROVE  /\ i \in 1 .. Len(result) /\ trace[i] \in Piece
         /\ trace[i].from = Len(out) + 1
         /\ PieceOK(payload, result, trace, i)
         /\ trace[i].kind = "length" <=> inZero
<1>1. TypeOK /\ DecoderAt /\ TraceOK(payload, result, trace)
  BY DEF CodecInv
<1>2. /\ i \in 1 .. Len(result) /\ Len(trace) = Len(result) /\ trace \in Seq(Piece)
      /\ Len(out) \in Nat
  BY <1>1 DEF TypeOK, TraceOK
<1>3. trace[i] \in Piece /\ PieceOK(payload, result, trace, i)
  BY <1>1, <1>2, ElementOfSeq DEF TraceOK
<1>4. CASE i = 1
  BY <1>1, <1>2, <1>3, <1>4 DEF DecoderAt, TraceOK, FirstOK
<1>5. CASE i > 1
  <2>1. LinkOK(result, trace, i)
    BY <1>1, <1>2, <1>5 DEF TraceOK
  <2> QED
    BY <1>1, <1>2, <1>3, <1>5, <2>1 DEF DecoderAt, LinkOK
<1> QED
  BY <1>2, <1>3, <1>4, <1>5

\* The steps that end the call.
LEMMA AnswerKeeps ==
  ASSUME CodecInv, phase = "decompress", NEW bytes \in Seq(Byte), Answer(bytes),
         made => bytes = payload \/ Len(payload) >= SizeMod
  PROVE  CodecInv'
<1>1. TypeOK
  BY DEF CodecInv
<1>2. /\ phase' = "answered" /\ out' = bytes /\ payload' = payload /\ made' = made
      /\ i' = i /\ zeros' = zeros /\ inZero' = inZero /\ size' = size
      /\ result' = result /\ force' = force /\ trace' = trace
  BY DEF Answer, codec
<1>3. TypeOK'
  BY <1>1, <1>2 DEF TypeOK
<1>4. made => TraceOK(payload, result, trace) /\ Complete
  BY DEF CodecInv
<1>5. made' => Complete'
  BY <1>2, <1>4 DEF Complete, After
<1>6. RoundTrip'
  <2>1. Len(payload) \in Nat /\ SizeMod \in Nat
    BY <1>1, PayloadAssumption DEF TypeOK, PayloadAssumption
  <2> QED
    BY <1>2, <2>1 DEF RoundTrip
<1> QED
  BY <1>2, <1>3, <1>4, <1>5, <1>6 DEF CodecInv

\* The decoder is not inside a run when the bytes the encoder made end.
LEMMA DecoderEnds ==
  ASSUME CodecInv, made, phase = "decompress", ~ (i <= Len(result))
  PROVE  ~ inZero /\ Len(out) = Len(payload)
<1>1. TypeOK /\ DecoderAt /\ TraceOK(payload, result, trace) /\ Complete
  BY DEF CodecInv
<1>2. /\ i = Len(result) + 1 /\ Len(result) \in Nat /\ Len(out) \in Nat
      /\ Len(payload) \in Nat
  BY <1>1 DEF TypeOK, DecoderAt
<1>3. CASE Len(result) = 0
  BY <1>1, <1>2, <1>3 DEF DecoderAt, Complete
<1>4. CASE Len(result) > 0
  <2>1. i > 1 /\ i - 1 = Len(result)
    BY <1>2, <1>4
  <2> QED
    BY <1>1, <1>2, <1>4, <2>1 DEF DecoderAt, Complete
<1> QED
  BY <1>2, <1>3, <1>4

LEMMA EmptyRunDecodes ==
  ASSUME CodecInv, EmptyRun
  PROVE  CodecInv'
<1>1. /\ phase = "decompress" /\ i <= Len(result) /\ inZero /\ result[i] = 0
      /\ Answer(<< >>)
  BY DEF EmptyRun, Decompressing, c
<1>2. ~ made
  <2> SUFFICES ASSUME made PROVE FALSE
    OBVIOUS
  <2>1. PieceOK(payload, result, trace, i) /\ trace[i].kind = "length"
    BY <1>1, DecoderReads
  <2> QED
    BY <1>1, <2>1 DEF PieceOK
<1>3. << >> \in Seq(Byte)
  BY EmptySeq
<1> QED
  BY <1>1, <1>2, <1>3, AnswerKeeps

LEMMA TooShortDecodes ==
  ASSUME CodecInv, TooShort
  PROVE  CodecInv'
<1>1. phase = "decompress" /\ result = << >> /\ Answer(<< >>)
  BY DEF TooShort
<1>2. << >> \in Seq(Byte) /\ Len(<< >>) = 0
  BY EmptySeq
<1>3. ASSUME made PROVE << >> = payload
  <2>1. Len(payload) = 0 /\ payload \in Seq(Byte)
    BY <1>1, <1>2, <1>3 DEF CodecInv, Complete, TypeOK
  <2> QED
    BY <2>1, EmptySeq
<1> QED
  BY <1>1, <1>2, <1>3, AnswerKeeps

LEMMA DecodeEndDecodes ==
  ASSUME CodecInv, DecodeEnd
  PROVE  CodecInv'
<1>1. TypeOK /\ phase = "decompress" /\ i > Len(result)
  BY DEF CodecInv, DecodeEnd
<1>2. /\ Len(result) \in Nat /\ i \in Nat /\ Len(payload) \in Nat /\ out \in Seq(Byte)
      /\ payload \in Seq(Byte) /\ ~ (i <= Len(result)) /\ SizeMod \in Nat /\ SizeMod > 0
  BY <1>1, PayloadAssumption DEF TypeOK, PayloadAssumption
<1> DEFINE bytes == IF Truncated THEN << >> ELSE out
<1>3. bytes \in Seq(Byte) /\ Answer(bytes)
  BY <1>2, EmptySeq DEF DecodeEnd
<1>4. ASSUME made, Len(payload) < SizeMod PROVE bytes = payload
  <2>1. ~ inZero /\ Len(out) = Len(payload) /\ DecoderAt /\ size = Len(payload)
    BY <1>1, <1>2, <1>4, DecoderEnds DEF CodecInv, Complete
  <2>2. out = payload
    BY <1>2, <2>1, SeqEqual DEF DecoderAt
  <2>3. size % SizeMod = size
    <3> DEFINE n == Len(payload)
    <3>1. n \in Nat /\ SizeMod \in Nat /\ n < SizeMod
      BY <1>2, <1>4
    <3> HIDE DEF n
    <3>2. n % SizeMod = n
      BY <3>1, SMT
    <3> QED
      BY <2>1, <3>2 DEF n
  <2> QED
    BY <2>1, <2>2, <2>3 DEF Truncated
<1> HIDE DEF bytes
<1>5. made => bytes = payload \/ Len(payload) >= SizeMod
  BY <1>2, <1>4
<1> QED
  BY <1>1, <1>3, <1>5, AnswerKeeps

LEMMA ReturnKeeps ==
  ASSUME CodecInv, Return
  PROVE  CodecInv'
<1>1. TypeOK /\ phase = "answered"
  BY DEF CodecInv, Return
<1>2. /\ phase' = "host" /\ i' = 1 /\ zeros' = 0 /\ out' = << >>
      /\ payload' = payload /\ made' = made /\ size' = size /\ result' = result
      /\ trace' = trace
  BY DEF Return
<1>3. inZero' \in BOOLEAN /\ force' \in BOOLEAN
  BY Zenon DEF Return
<1>4. << >> \in Seq(Byte) /\ 0 \in Byte
  BY EmptySeq, PayloadAssumption DEF Byte, PayloadAssumption
<1>5. TypeOK'
  BY <1>1, <1>2, <1>3, <1>4 DEF TypeOK
<1>6. made => TraceOK(payload, result, trace) /\ Complete
  BY <1>1 DEF CodecInv
<1>7. made' => Complete'
  BY <1>2, <1>6 DEF Complete, After
<1> QED
  BY <1>2, <1>5, <1>6, <1>7 DEF CodecInv, RoundTrip

LEMMA ZerosSeq ==
  ASSUME NEW n \in Nat
  PROVE  /\ Zeros(n) \in Seq(Byte) /\ Len(Zeros(n)) = n
         /\ \A k \in 1 .. n : Zeros(n)[k] = 0
<1>1. 0 \in Byte
  BY PayloadAssumption DEF Byte, PayloadAssumption
<1> QED
  BY <1>1 DEF Zeros

LEMMA DecodeByteDecodes ==
  ASSUME CodecInv, DecodeByte
  PROVE  CodecInv'
<1>1. /\ TypeOK /\ phase = "decompress" /\ i <= Len(result) /\ ~ (inZero /\ result[i] = 0)
  BY DEF CodecInv, DecodeByte, Decompressing, c
<1>2. /\ i \in Nat /\ Len(result) \in Nat /\ i \in 1 .. Len(result) /\ result \in Seq(Byte)
      /\ out \in Seq(Byte) /\ Len(out) \in Nat /\ payload \in Seq(Byte)
      /\ Len(payload) \in Nat
  BY <1>1 DEF TypeOK
<1>3. result[i] \in Byte /\ result[i] \in Nat
  BY <1>2, ElementOfSeq, PayloadAssumption DEF Byte, PayloadAssumption
<1>4. /\ phase' = phase /\ payload' = payload /\ made' = made /\ zeros' = zeros
      /\ size' = size /\ result' = result /\ force' = force /\ trace' = trace
      /\ i' = i + 1
  BY DEF DecodeByte
<1>5. inZero' = (~ inZero /\ result[i] = 0)
  BY DEF DecodeByte, c
<1>6. inZero' \in BOOLEAN
  BY <1>5, Zenon
<1> DEFINE zs == Zeros(result[i])
<1>7. zs \in Seq(Byte) /\ Len(zs) = result[i] /\ \A k \in 1 .. result[i] : zs[k] = 0
  BY <1>3, ZerosSeq
<1> HIDE DEF zs
<1>8. /\ out \o zs \in Seq(Byte) /\ Len(out \o zs) = Len(out) + result[i]
      /\ \A k \in 1 .. Len(out) : (out \o zs)[k] = out[k]
      /\ \A k \in Len(out) + 1 .. Len(out) + result[i] : (out \o zs)[k] = 0
  BY <1>2, <1>3, <1>7, ConcatProperties
<1>9. /\ Append(out, result[i]) \in Seq(Byte) /\ Len(Append(out, result[i])) = Len(out) + 1
      /\ Append(out, result[i])[Len(out) + 1] = result[i]
      /\ \A k \in 1 .. Len(out) : Append(out, result[i])[k] = out[k]
  BY <1>2, <1>3, AppendProperties
<1>10. /\ inZero => out' = out \o zs
       /\ ~ inZero /\ result[i] = 0 => out' = out
       /\ ~ inZero /\ result[i] # 0 => out' = Append(out, result[i])
  BY DEF DecodeByte, c, zs
<1>11. out' \in Seq(Byte)
  BY <1>2, <1>8, <1>9, <1>10
<1>12. TypeOK'
  BY <1>1, <1>2, <1>4, <1>6, <1>11 DEF TypeOK
<1>13. ASSUME made PROVE DecoderAt'
  <2>1. /\ trace[i] \in Piece /\ trace[i].from = Len(out) + 1
        /\ PieceOK(payload, result, trace, i)
        /\ trace[i].kind = "length" <=> inZero
    BY <1>1, <1>13, DecoderReads
  <2>2. trace[i].kind \in {"byte", "zero", "length"}
    BY <2>1 DEF Piece
  <2>3. DecoderAt
    BY <1>1, <1>13 DEF CodecInv
  <2>4. i' > 1 /\ i' # 1 /\ i' - 1 = i /\ i' <= Len(result) + 1
    BY <1>2, <1>4
  <2>5. inZero' <=> trace[i].kind = "zero"
    BY <1>1, <1>5, <2>1, <2>2 DEF PieceOK
  <2>6. /\ Len(out') + 1 = After(result, trace, i)
        /\ Len(out') <= Len(payload)
        /\ \A j \in 1 .. Len(out') : out'[j] = payload[j]
    <3> DEFINE m == Len(out)
    <3>1. m \in Nat /\ m <= Len(payload) /\ \A j \in 1 .. m : out[j] = payload[j]
      BY <1>2, <2>3 DEF DecoderAt
    <3>2. CASE inZero
      <4>1. /\ After(result, trace, i) = m + 1 + result[i]
            /\ m + 1 + result[i] <= Len(payload) + 1
            /\ \A j \in m + 1 .. m + 1 + result[i] - 1 : payload[j] = 0
        BY <2>1, <3>2 DEF After, PieceOK
      <4>2. out' = out \o zs /\ Len(out') = m + result[i]
        BY <1>8, <1>10, <3>2
      <4>3. ASSUME NEW j \in 1 .. m + result[i] PROVE out'[j] = payload[j]
        <5>1. CASE j <= m
          BY <1>3, <1>8, <3>1, <4>2, <5>1
        <5>2. CASE j > m
          BY <1>3, <1>8, <3>1, <4>1, <4>2, <5>2
        <5> QED
          BY <3>1, <5>1, <5>2
      <4> HIDE DEF m
      <4>4. m + result[i] <= Len(payload)
        BY <1>2, <1>3, <3>1, <4>1
      <4> QED
        BY <1>3, <3>1, <4>1, <4>2, <4>3, <4>4
    <3>3. CASE ~ inZero /\ result[i] = 0
      <4>1. trace[i].kind = "zero"
        BY <2>1, <2>2, <3>3 DEF PieceOK
      <4> QED
        BY <1>10, <2>1, <3>1, <3>3, <4>1 DEF After
    <3>4. CASE ~ inZero /\ result[i] # 0
      <4>1. trace[i].kind = "byte"
        BY <2>1, <2>2, <3>4 DEF PieceOK
      <4>2. /\ After(result, trace, i) = m + 2
            /\ m + 1 \in 1 .. Len(payload) /\ result[i] = payload[m + 1]
        BY <2>1, <3>1, <4>1 DEF After, PieceOK
      <4> HIDE DEF m
      <4>3. /\ Len(out') = m + 1 /\ out'[m + 1] = result[i]
            /\ \A j \in 1 .. m : out'[j] = out[j]
        BY <1>9, <1>10, <3>4 DEF m
      <4> QED
        BY <1>2, <3>1, <4>2, <4>3
    <3> QED
      BY <3>2, <3>3, <3>4
  <2>7. After(result', trace', i' - 1) = After(result, trace, i)
    BY <1>4, <2>4
  <2> QED
    BY <1>4, <2>4, <2>5, <2>6, <2>7 DEF DecoderAt, After
<1>14. made => TraceOK(payload, result, trace) /\ Complete
  BY <1>1 DEF CodecInv
<1>15. made' => Complete'
  BY <1>4, <1>14 DEF Complete, After
<1>16. phase' = "decompress"
  BY <1>1, <1>4
<1> QED
  BY <1>4, <1>12, <1>13, <1>14, <1>15, <1>16 DEF CodecInv, RoundTrip

-----------------------------------------------------------------------------

LEMMA CodecInit == Init => CodecInv
<1> SUFFICES ASSUME Init PROVE CodecInv
  OBVIOUS
<1>1. << >> \in Seq(Byte) /\ << >> \in Seq(Piece) /\ 0 \in Byte
  BY EmptySeq, PayloadAssumption DEF Byte, PayloadAssumption
<1>2. made \in BOOLEAN /\ inZero \in BOOLEAN /\ force \in BOOLEAN /\ ~ made
  BY Zenon DEF Init
<1>3. TypeOK
  BY <1>1, <1>2 DEF Init, TypeOK
<1> QED
  BY <1>2, <1>3 DEF Init, CodecInv, RoundTrip

LEMMA CodecStep == CodecInv /\ [Next]_vars => CodecInv'
<1> SUFFICES ASSUME CodecInv, [Next]_vars PROVE CodecInv'
  OBVIOUS
<1>1. ASSUME NEW p \in Payloads, Compress(p) PROVE CodecInv'
  BY <1>1, StartEncodes
<1>2. ASSUME NEW f \in BOOLEAN,
             DecompressMade(f) \/ \E x \in Foreign : DecompressForeign(x, f)
      PROVE  CodecInv'
  BY <1>2, StartDecodes
<1>3. CASE Loop
  BY <1>3, ExtendRunEncodes, NextByteEncodes, FinishEncodes, TooShortDecodes, EmptyRunDecodes,
     DecodeByteDecodes, DecodeEndDecodes, ReturnKeeps DEF Loop
<1>4. CASE UNCHANGED vars
  <2>1. /\ phase' = phase /\ payload' = payload /\ made' = made /\ zeros' = zeros
        /\ size' = size /\ result' = result /\ force' = force /\ trace' = trace
        /\ i' = i /\ inZero' = inZero /\ out' = out
    BY <1>4 DEF vars, codec
  <2>2. TypeOK'
    BY <2>1 DEF CodecInv, TypeOK
  <2>3. made' => TraceOK(payload', result', trace')
    BY <2>1 DEF CodecInv
  <2>4. phase' = "compress" => made' /\ EncoderAt'
    BY <2>1 DEF CodecInv, EncoderAt
  <2>5. made' /\ phase' # "compress" => Complete'
    BY <2>1 DEF CodecInv, Complete, After
  <2>6. made' /\ phase' = "decompress" => DecoderAt'
    BY <2>1 DEF CodecInv, DecoderAt, After
  <2>7. RoundTrip'
    BY <2>1 DEF CodecInv, RoundTrip
  <2> QED
    BY <2>2, <2>3, <2>4, <2>5, <2>6, <2>7 DEF CodecInv
<1> QED
  BY <1>1, <1>2, <1>3, <1>4 DEF Next, Host

LEMMA CodecInductive == Spec => []CodecInv
BY CodecInit, CodecStep, PTL DEF Spec

\* The codec's state keeps its types (TypeOK): no length leaves its byte.
THEOREM CodecTypeCorrect == Spec => []TypeOK
<1>1. CodecInv => TypeOK
  BY DEF CodecInv
<1> QED
  BY <1>1, CodecInductive, PTL

\* qtumDecompressPayload gives back what qtumCompressPayload was given (RoundTrip):
\* whatever the payload, if the prefix can hold its size.
THEOREM RoundTrips == Spec => []RoundTrip
<1>1. CodecInv => RoundTrip
  BY DEF CodecInv
<1> QED
  BY <1>1, CodecInductive, PTL

\* In bytes from qtumCompressPayload, qtumDecompressPayload meets no empty run and no
\* open one (WellFormed).
THEOREM EncoderWellFormed == Spec => []WellFormed
<1>1. CodecInv => WellFormed
  <2> SUFFICES ASSUME CodecInv, made, phase = "decompress"
               PROVE  (inZero => i <= Len(result) /\ c # 0) /\ (i > Len(result) => ~ inZero)
    BY DEF WellFormed
  <2>1. i \in Nat /\ Len(result) \in Nat
    BY DEF CodecInv, TypeOK
  <2>2. CASE i <= Len(result)
    BY <2>1, <2>2, DecoderReads DEF PieceOK, c
  <2>3. CASE ~ (i <= Len(result))
    BY <2>3, DecoderEnds
  <2> QED
    BY <2>1, <2>2, <2>3
<1> QED
  BY <1>1, CodecInductive, PTL

-----------------------------------------------------------------------------
(* The decoder and the recursive reading of the bytes                      *)

\* The recursion of Reading, as far as byte n; none is what it has of the first byte.
ReadTo(f, none, r, n) ==
  f = [k \in 1 .. n |-> IF k = 1 THEN none ELSE Counts(r, k, f[k - 1])]

LEMMA OneByteMore ==
  ASSUME NEW none, NEW r, NEW n \in Nat \ {0}, NEW f, ReadTo(f, none, r, n)
  PROVE  \E g : ReadTo(g, none, r, n + 1)
<1>1. PICK top : top = Counts(r, n + 1, f[n])
  OBVIOUS
<1>2. PICK g : g = [k \in 1 .. n + 1 |-> IF k = n + 1 THEN top ELSE f[k]]
  OBVIOUS
<1>3. \A k \in 1 .. n + 1 : g[k] = IF k = 1 THEN none ELSE Counts(r, k, g[k - 1])
  <2> TAKE k \in 1 .. n + 1
  <2>1. CASE k = n + 1
    <3>1. k # 1 /\ k - 1 = n /\ n \in 1 .. n + 1 /\ n # n + 1
      BY <2>1
    <3>2. g[k] = top /\ g[n] = f[n]
      BY <1>2, <2>1, <3>1
    <3> QED
      BY <1>1, <2>1, <3>1, <3>2, Zenon
  <2>2. CASE k \in 1 .. n
    <3>1. f[k] = IF k = 1 THEN none ELSE Counts(r, k, f[k - 1])
      BY <2>2, Zenon DEF ReadTo
    <3>2. g[k] = f[k] /\ (k # 1 => g[k - 1] = f[k - 1])
      BY <1>2, <2>2
    <3> QED
      BY <3>1, <3>2, Zenon
  <2> QED
    BY <2>1, <2>2
<1>4. PICK h : h = [k \in 1 .. n + 1 |-> IF k = 1 THEN none ELSE Counts(r, k, g[k - 1])]
  OBVIOUS
<1>5. \A k \in 1 .. n + 1 : h[k] = g[k]
  BY <1>3, <1>4, Zenon
<1>6. g = h
  BY <1>2, <1>4, <1>5
<1> QED
  BY <1>4, <1>6, Zenon DEF ReadTo

LEMMA ReadingsExist ==
  ASSUME NEW none, NEW r, NEW n \in Nat \ {0}
  PROVE  \E f : ReadTo(f, none, r, n)
<1> DEFINE T == {k \in Nat : k # 0 /\ ~ \E f : ReadTo(f, none, r, k)}
<1> SUFFICES ASSUME T # {} PROVE FALSE
  OBVIOUS
<1>1. T \subseteq Nat
  OBVIOUS
<1>2. PICK j \in T : \A k \in T : ~ (<<k, j>> \in OpToRel(<, Nat))
  <2> HIDE DEF T
  <2> QED
    BY <1>1, NatLessThanWellFounded, WFMin
<1>3. j \in Nat \ {0} /\ \A k \in T : ~ (k < j)
  BY <1>1, <1>2 DEF OpToRel
<1>4. CASE j = 1
  <2>1. PICK f : f = [k \in 1 .. 1 |-> none]
    OBVIOUS
  <2>2. ReadTo(f, none, r, 1)
    <3>1. \A k \in 1 .. 1 : none = IF k = 1 THEN none ELSE Counts(r, k, f[k - 1])
      OBVIOUS
    <3> QED
      BY <2>1, <3>1, Zenon DEF ReadTo
  <2> QED
    BY <1>2, <1>4, <2>2
<1>5. CASE j # 1
  <2>1. PICK k \in Nat \ {0} : j = k + 1 /\ k < j
    BY <1>3, <1>5
  <2>2. k \notin T
    BY <1>3, <2>1
  <2>3. \E f : ReadTo(f, none, r, k + 1)
    BY <2>1, <2>2, OneByteMore
  <2> QED
    BY <1>2, <2>1, <2>3
<1> QED
  BY <1>4, <1>5

LEMMA ReadingIs ==
  ASSUME NEW r \in Seq(Byte)
  PROVE  /\ Reading(r)[1] = FALSE
         /\ \A k \in 1 .. Len(r) : Reading(r)[k + 1] = Counts(r, k + 1, Reading(r)[k])
<1>1. PICK n \in Nat \ {0} : n = Len(r) + 1
  OBVIOUS
<1>2. Reading(r) = CHOOSE f : ReadTo(f, FALSE, r, n)
  BY <1>1, Zenon DEF Reading, ReadTo
<1>3. PICK f : f = Reading(r)
  OBVIOUS
<1>4. ReadTo(f, FALSE, r, n)
  <2>1. \E g : ReadTo(g, FALSE, r, n)
    BY ReadingsExist
  <2> QED
    BY <1>2, <1>3, <2>1, Zenon
<1>5. \A k \in 1 .. n : f[k] = IF k = 1 THEN FALSE ELSE Counts(r, k, f[k - 1])
  BY <1>4, Zenon DEF ReadTo
<1>6. 1 \in 1 .. n /\ \A k \in 1 .. Len(r) : k + 1 \in 1 .. n /\ k + 1 # 1 /\ (k + 1) - 1 = k
  BY <1>1
<1>7. f[1] = FALSE
  BY <1>5, <1>6, Zenon
<1>8. ASSUME NEW k \in 1 .. Len(r) PROVE f[k + 1] = Counts(r, k + 1, f[k])
  <2>1. f[k + 1] = Counts(r, k + 1, f[(k + 1) - 1])
    BY <1>5, <1>6, Zenon
  <2> QED
    BY <1>6, <2>1, Zenon
<1> QED
  BY <1>3, <1>7, <1>8, Zenon

\* What the decoder has read agrees with the reading.
ReadsAlike ==
  /\ i <= Len(result) + 1
  /\ inZero <=> CountAt(i)
  /\ \A k \in 1 .. Len(result) : k < i => ~ (CountAt(k) /\ result[k] = 0)

StrictInv ==
  /\ CodecInv
  /\ phase = "decompress" => ReadsAlike
  /\ Strict

LEMMA ReadOneMore ==
  ASSUME StrictInv, DecodeByte
  PROVE  ReadsAlike'
<1>1. /\ TypeOK /\ ReadsAlike /\ i <= Len(result) /\ ~ (inZero /\ result[i] = 0)
  BY DEF StrictInv, CodecInv, DecodeByte, Decompressing, c
<1>2. i \in 1 .. Len(result) /\ result \in Seq(Byte) /\ Len(result) \in Nat
  BY <1>1 DEF TypeOK
<1>3. result' = result /\ i' = i + 1 /\ (inZero' <=> ~ inZero /\ result[i] = 0)
  BY DEF DecodeByte, c
<1>4. CountAt(i + 1) = Counts(result, i + 1, CountAt(i))
  BY <1>2, ReadingIs, Zenon DEF CountAt
<1>5. (i + 1) - 1 = i
  BY <1>2
<1>6. CountAt(i + 1) <=> result[i] = 0 /\ ~ CountAt(i)
  BY <1>4, <1>5, Zenon DEF Counts
<1>7. inZero <=> CountAt(i)
  BY <1>1, Zenon DEF ReadsAlike
<1>8. inZero' <=> CountAt(i + 1)
  BY <1>3, <1>6, <1>7, Zenon
<1>9. ASSUME NEW k \in 1 .. Len(result), k < i + 1
      PROVE  ~ (CountAt(k) /\ result[k] = 0)
  <2>1. k < i \/ k = i
    BY <1>2, <1>9
  <2>2. CASE k < i
    BY <1>1, <2>2, Zenon DEF ReadsAlike
  <2>3. CASE k = i
    BY <1>1, <1>7, <2>3, Zenon
  <2> QED
    BY <2>1, <2>2, <2>3
<1>10. i' <= Len(result') + 1
  BY <1>2, <1>3
<1>11. \A k : CountAt(k)' <=> CountAt(k)
  BY <1>3, Zenon DEF CountAt
<1>12. (inZero <=> CountAt(i))'
  BY <1>3, <1>8, Zenon DEF CountAt
<1>13. (\A k \in 1 .. Len(result) : k < i => ~ (CountAt(k) /\ result[k] = 0))'
  BY <1>3, <1>9, Zenon DEF CountAt
<1> QED
  BY <1>10, <1>12, <1>13, Zenon DEF ReadsAlike

\* At the end of the bytes the decoder knows whether they are malformed.
LEMMA EndIsStrict ==
  ASSUME StrictInv, DecodeEnd
  PROVE  Strict'
<1>1. TypeOK /\ ReadsAlike /\ result # << >> /\ i > Len(result)
  BY DEF StrictInv, CodecInv, DecodeEnd
<1>2. i = Len(result) + 1 /\ Len(result) \in Nat
  BY <1>1 DEF TypeOK, ReadsAlike
<1>3. /\ out' = IF Truncated THEN << >> ELSE out
      /\ result' = result /\ force' = force /\ size' = size
  BY DEF DecodeEnd, Answer
<1>4. Malformed => Truncated
  <2>1. ASSUME NEW k \in 1 .. Len(result) PROVE ~ (CountAt(k) /\ result[k] = 0)
    <3>1. k < i
      BY <1>2
    <3> QED
      BY <1>1, <3>1, Zenon DEF ReadsAlike
  <2>2. CountAt(Len(result) + 1) => inZero
    BY <1>1, <1>2, Zenon DEF ReadsAlike
  <2> QED
    BY <1>1, <2>1, <2>2, Zenon DEF Malformed, Truncated
<1>5. Malformed' <=> Malformed
  BY <1>3, Zenon DEF Malformed, CountAt
<1>6. Malformed' => out' = << >>
  BY <1>3, <1>4, <1>5, Zenon
<1>7. ~ force' /\ out' # << >> => Len(out') = size' % SizeMod
  BY <1>3, Zenon DEF Truncated
<1> QED
  BY <1>6, <1>7, Zenon DEF Strict

LEMMA StrictInit == Init => StrictInv
<1> SUFFICES ASSUME Init PROVE StrictInv
  OBVIOUS
<1>1. CodecInv
  BY CodecInit
<1>2. phase = "host"
  BY DEF Init
<1> QED
  BY <1>1, <1>2 DEF StrictInv, Strict

LEMMA StrictStep == StrictInv /\ [Next]_vars => StrictInv'
<1> SUFFICES ASSUME StrictInv, [Next]_vars PROVE StrictInv'
  OBVIOUS
<1>1. CodecInv' /\ TypeOK
  BY CodecStep DEF StrictInv, CodecInv
<1>2. CASE phase' \in {"host", "compress"}
  BY <1>1, <1>2 DEF StrictInv, Strict
<1>3. ASSUME phase' = "decompress", i' = 1, inZero' = FALSE
      PROVE  StrictInv'
  <2>1. result' \in Seq(Byte)
    BY <1>1 DEF CodecInv, TypeOK
  <2>2. Reading(result')[1] = FALSE
    BY <2>1, ReadingIs
  <2>3. (inZero <=> CountAt(i))'
    BY <1>3, <2>2, Zenon DEF CountAt
  <2>4. (\A k \in 1 .. Len(result) : k < i => ~ (CountAt(k) /\ result[k] = 0))'
    <3>1. \A k \in 1 .. Len(result') : ~ (k < i')
      BY <1>3, <2>1
    <3> QED
      BY <3>1, Zenon
  <2>5. i' <= Len(result') + 1
    BY <1>3, <2>1
  <2>6. ReadsAlike'
    BY <2>3, <2>4, <2>5, Zenon DEF ReadsAlike
  <2> QED
    BY <1>1, <1>3, <2>6 DEF StrictInv, Strict
<1>4. ASSUME phase' = "answered", out' = << >> PROVE StrictInv'
  BY <1>1, <1>4 DEF StrictInv, Strict
<1>5. CASE Host
  <2>1. ASSUME NEW p \in Payloads, Compress(p) PROVE StrictInv'
    BY <1>2, <2>1 DEF Compress
  <2>2. ASSUME NEW f \in BOOLEAN,
               DecompressMade(f) \/ \E x \in Foreign : DecompressForeign(x, f)
        PROVE  StrictInv'
    BY <1>3, <2>2 DEF DecompressMade, DecompressForeign, BeginDecompress
  <2> QED
    BY <1>5, <2>1, <2>2 DEF Host
<1>6. CASE ExtendRun \/ NextByte \/ Finish
  <2>1. phase' \in {"host", "compress"}
    BY <1>6 DEF ExtendRun, NextByte, Finish, Compressing
  <2> QED
    BY <1>2, <2>1
<1>7. CASE TooShort \/ EmptyRun
  BY <1>4, <1>7 DEF TooShort, EmptyRun, Answer
<1>8. CASE DecodeByte
  <2>1. phase' = "decompress"
    BY <1>8 DEF DecodeByte, Decompressing
  <2> QED
    BY <1>1, <1>8, <2>1, ReadOneMore DEF StrictInv, Strict
<1>9. CASE DecodeEnd
  <2>1. phase' = "answered"
    BY <1>9 DEF DecodeEnd, Answer
  <2> QED
    BY <1>1, <1>9, <2>1, EndIsStrict DEF StrictInv
<1>10. CASE Return
  BY <1>2, <1>10 DEF Return
<1>11. CASE UNCHANGED vars
  <2>1. /\ phase' = phase /\ size' = size /\ result' = result /\ force' = force
        /\ i' = i /\ inZero' = inZero /\ out' = out
    BY <1>11 DEF vars, codec
  <2>2. ReadsAlike' <=> ReadsAlike
    BY <2>1, Zenon DEF ReadsAlike, CountAt
  <2>3. Strict' <=> Strict
    BY <2>1, Zenon DEF Strict, Malformed, CountAt
  <2> QED
    BY <1>1, <2>1, <2>2, <2>3, Zenon DEF StrictInv
<1> QED
  BY <1>5, <1>6, <1>7, <1>8, <1>9, <1>10, <1>11 DEF Next, Loop

\* qtumDecompressPayload answers malformed bytes with the empty vector, whatever force says,
\* and without force a prefix that does not tell the number of bytes too (Strict): for bytes
\* of every length and origin.
THEOREM DecoderStrict == Spec => []Strict
<1>1. StrictInv => Strict
  BY DEF StrictInv
<1> QED
  BY <1>1, StrictInit, StrictStep, PTL DEF Spec

=============================================================================
