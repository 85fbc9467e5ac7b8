------------------------------- MODULE Payload -------------------------------
(***************************************************************************)
(* The codec for contract payloads (qtumCompressPayload and                *)
(* qtumDecompressPayload at the end of vm/x86lib.cpp): runs of zero bytes  *)
(* become a zero and their length, in one byte, and the number of bytes of *)
(* the payload is written in front.                                        *)
(*                                                                         *)
(* One pass over the bytes in each direction, one step for each byte.  The *)
(* decoder is given what the encoder made, or bytes from anywhere.         *)
(*                                                                         *)
(* A definition marked "Slip" is a mistake one could make here; the        *)
(* specification does not use it.                                          *)
(***************************************************************************)
EXTENDS Integers, Sequences

CONSTANTS
  MaxByte,    \* UINT8_MAX
  SizeMod,    \* the size in the prefix is read modulo this (2^24)
  Payloads,   \* the payloads the host compresses
  Foreign     \* [size, bytes] the host decompresses without having made them

Byte == 0 .. MaxByte

ASSUME PayloadAssumption ==
  /\ MaxByte \in Nat \ {0}
  /\ SizeMod \in Nat \ {0}
  /\ Payloads \subseteq Seq(Byte)
  /\ Foreign \subseteq [size : Nat, bytes : Seq(Byte)]

VARIABLES
  phase,   \* "host", or the function that is running
  payload, \* the argument of the last compression
  made,    \* the bytes come from the encoder
  i,       \* index of the byte the loop has reached
  zeros, inZero,
  size,    \* the prefix
  result,  \* the compressed bytes behind the prefix
  force,   \* argument of the decoder: do not check the size
  out,     \* the decompressed bytes
  trace    \* where each byte of result comes from: [kind, from]

codec == <<i, zeros, inZero>>
vars == <<phase, payload, made, codec, size, result, force, out, trace>>

\* trace is history, for the proof: the encoder does not read it.  A byte of result
\* stands for the byte at from, starts the run of zeros at from, or is its length.
Piece == [kind : {"byte", "zero", "length"}, from : Nat]

PieceOf(kind, from) == [kind |-> kind, from |-> from]

\* push_back of a byte, and of two.
Emit(byte, piece) ==
  /\ result' = Append(result, byte)
  /\ trace' = Append(trace, piece)

EmitTwo(byte1, piece1, byte2, piece2) ==
  /\ result' = Append(Append(result, byte1), byte2)
  /\ trace' = Append(Append(trace, piece1), piece2)

\* The run that ends in front of index i: its length.
RunLength == PieceOf("length", i - zeros)

Init ==
  /\ phase = "host"
  /\ payload = << >> /\ made = FALSE
  /\ i = 1 /\ zeros = 0 /\ inZero = FALSE
  /\ size = 0 /\ result = << >> /\ trace = << >>
  /\ force = FALSE /\ out = << >>

-----------------------------------------------------------------------------
(* qtumCompressPayload                                                     *)

Compress(p) ==
  /\ phase = "host"
  /\ phase' = "compress"
  /\ payload' = p /\ made' = TRUE
  /\ i' = 1 /\ zeros' = 0 /\ inZero' = FALSE
  /\ size' = 0 /\ result' = << >> /\ trace' = << >>
  /\ out' = << >> /\ force' = FALSE

Compressing == phase = "compress" /\ i <= Len(payload)

b == payload[i]

\* Slip: the length wraps.
ExtendRunWrapping ==
  /\ Compressing /\ inZero /\ b = 0
  /\ zeros' = (zeros + 1) % (MaxByte + 1)
  /\ i' = i + 1
  /\ UNCHANGED <<phase, payload, made, inZero, size, result, force, out, trace>>

\* Another zero of a run; a run is as long as its length fits in a byte.
ExtendRun ==
  /\ Compressing /\ inZero /\ b = 0
  /\ IF zeros = MaxByte
     THEN /\ EmitTwo(zeros, RunLength, 0, PieceOf("zero", i))
          /\ zeros' = 1
     ELSE /\ zeros' = zeros + 1
          /\ UNCHANGED <<result, trace>>
  /\ i' = i + 1
  /\ UNCHANGED <<phase, payload, made, inZero, size, force, out>>

Kind(byte) == IF byte = 0 THEN "zero" ELSE "byte"

\* Any other byte ends a run and is written itself; a zero starts the next run.
NextByte ==
  /\ Compressing /\ ~ (inZero /\ b = 0)
  /\ IF inZero
     THEN EmitTwo(zeros, RunLength, b, PieceOf(Kind(b), i))
     ELSE Emit(b, PieceOf(Kind(b), i))
  /\ inZero' = (b = 0)
  /\ zeros' = IF b = 0 THEN 1 ELSE IF inZero THEN 0 ELSE zeros
  /\ i' = i + 1
  /\ UNCHANGED <<phase, payload, made, size, force, out>>

\* Slip: the run at the end of the payload is left open.
FinishOpen ==
  /\ phase = "compress" /\ i > Len(payload)
  /\ size' = Len(payload)
  /\ phase' = "host"
  /\ i' = 1 /\ zeros' = 0 /\ inZero' = FALSE
  /\ UNCHANGED <<payload, made, result, force, out, trace>>

Finish ==
  /\ phase = "compress" /\ i > Len(payload)
  /\ IF inZero
     THEN Emit(zeros, RunLength)
     ELSE UNCHANGED <<result, trace>>
  /\ size' = Len(payload)
  /\ phase' = "host"
  /\ i' = 1 /\ zeros' = 0 /\ inZero' = FALSE
  /\ UNCHANGED <<payload, made, force, out>>

-----------------------------------------------------------------------------
(* qtumDecompressPayload                                                   *)

BeginDecompress(f) ==
  /\ phase' = "decompress"
  /\ force' = f
  /\ i' = 1 /\ inZero' = FALSE /\ zeros' = 0 /\ out' = << >>

\* What the encoder made last, or bytes of other origin.
DecompressMade(f) ==
  /\ phase = "host" /\ made
  /\ BeginDecompress(f)
  /\ UNCHANGED <<payload, made, size, result, trace>>

DecompressForeign(x, f) ==
  /\ phase = "host"
  /\ BeginDecompress(f)
  /\ payload' = << >> /\ made' = FALSE
  /\ size' = x.size /\ result' = x.bytes /\ trace' = << >>

\* The decoder answers every error with an empty vector.
Answer(bytes) ==
  /\ out' = bytes
  /\ phase' = "answered"
  /\ UNCHANGED <<payload, made, codec, size, result, force, trace>>

\* A prefix alone is an error, also when it is 0.
TooShort ==
  /\ phase = "decompress" /\ result = << >>
  /\ Answer(<< >>)

Decompressing == phase = "decompress" /\ i <= Len(result)

c == result[i]

\* A run of no zeros is an error.
EmptyRun ==
  /\ Decompressing /\ inZero /\ c = 0
  /\ Answer(<< >>)

Zeros(n) == [k \in 1 .. n |-> 0]

DecodeByte ==
  /\ Decompressing /\ ~ (inZero /\ c = 0)
  /\ out' = CASE inZero -> out \o Zeros(c)
              [] ~ inZero /\ c = 0 -> out
              [] OTHER -> Append(out, c)
  /\ inZero' = (~ inZero /\ c = 0)
  /\ i' = i + 1
  /\ UNCHANGED <<phase, payload, made, zeros, size, result, force, trace>>

\* Slip: a zero at the end is no error.
TruncatedLoosely == size % SizeMod # Len(out) /\ ~ force

Truncated == inZero \/ (size % SizeMod # Len(out) /\ ~ force)

DecodeEnd ==
  /\ phase = "decompress" /\ result # << >> /\ i > Len(result)
  /\ Answer(IF Truncated THEN << >> ELSE out)

\* The locals of the function are gone.
Return ==
  /\ phase = "answered"
  /\ phase' = "host"
  /\ i' = 1 /\ zeros' = 0 /\ inZero' = FALSE /\ out' = << >> /\ force' = FALSE
  /\ UNCHANGED <<payload, made, size, result, trace>>

-----------------------------------------------------------------------------

Host ==
  \/ \E p \in Payloads : Compress(p)
  \/ \E f \in BOOLEAN : DecompressMade(f) \/ \E x \in Foreign : DecompressForeign(x, f)

Loop == ExtendRun \/ NextByte \/ Finish \/ TooShort \/ EmptyRun \/ DecodeByte
          \/ DecodeEnd \/ Return

Next == Host \/ Loop

Spec == Init /\ [][Next]_vars

-----------------------------------------------------------------------------

TypeOK ==
  /\ phase \in {"host", "compress", "decompress", "answered"}
  /\ payload \in Seq(Byte) /\ made \in BOOLEAN
  /\ i \in Nat \ {0}
  /\ zeros \in Byte /\ inZero \in BOOLEAN
  /\ size \in Nat /\ result \in Seq(Byte)
  /\ force \in BOOLEAN /\ out \in Seq(Byte)
  /\ trace \in Seq(Piece)

\* Decompressing what was compressed gives the payload back, for every payload whose
\* size the prefix can hold.
RoundTrip ==
  phase = "answered" /\ made /\ Len(payload) < SizeMod => out = payload

\* Every length the encoder writes is that of a run: the decoder never meets an empty
\* run, and never ends inside one, in bytes the encoder made.
WellFormed ==
  made /\ phase = "decompress" => /\ inZero => i <= Len(result) /\ c # 0
                                  /\ i > Len(result) => ~ inZero

\* Byte k of r holds a count if the one before it is a zero that is none.
Counts(r, k, before) == r[k - 1] = 0 /\ ~ before

\* Which bytes of r hold a count, and whether one is missing behind the last.
Reading(r) ==
  LET reading[k \in 1 .. Len(r) + 1] == IF k = 1 THEN FALSE ELSE Counts(r, k, reading[k - 1])
  IN  reading

CountAt(k) == Reading(result)[k]

Malformed ==
  \/ result = << >>
  \/ \E k \in 1 .. Len(result) : CountAt(k) /\ result[k] = 0
  \/ CountAt(Len(result) + 1)

\* Malformed bytes give the empty vector, whatever force says; without force so does
\* a prefix that does not tell the number of bytes.
Strict ==
  phase = "answered" =>
    /\ Malformed => out = << >>
    /\ ~ force /\ out # << >> => Len(out) = size % SizeMod

=============================================================================
