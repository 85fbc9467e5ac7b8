----------------------------- MODULE MCPayload -----------------------------
(* All payloads and all foreign bytes up to a small length. *)
EXTENDS Payload, SequencesExt

CONSTANTS MaxLen, MaxForeign, MaxSize

MCPayloads == BoundedSeq(Byte, MaxLen)

\* The prefix may say anything, version bits included.
MCForeign == [size : 0 .. MaxSize, bytes : BoundedSeq(Byte, MaxForeign)]

=============================================================================
