------------------------------ MODULE MCMaths ------------------------------
(***************************************************************************)
(* Programs of arithmetic and programs of shifts, which share the flags:   *)
(* each kind runs from the same flags and leaves the other's operand and   *)
(* histories alone.                                                        *)
(*                                                                         *)
(* Digits of two bits and bytes of four, so that a byte has two digits;    *)
(* for shifts small widths that divide the widest, as 8 and 16 bits do 32, *)
(* every operand and a few second ones.                                    *)
(***************************************************************************)
EXTENDS Arith, Shifter

CONSTANTS OtherHalf, MaxCount

MCHalves == {ByteHalf, OtherHalf}

MCCounts == 0 .. MaxCount

\* Nothing, everything, and one bit at either end.
MCSources ==
  [width \in Widths |->
     {x \in Bits(width) : \/ \A i \in DOMAIN x : x[i] = x[0]
                          \/ \A i \in DOMAIN x : x[i] = 1 <=> i = 0
                          \/ \A i \in DOMAIN x : x[i] = 1 <=> i = width - 1}]

arithOnly == <<regs, af, last, chain>>
shiftOnly == <<size, bits, shift, ring, long>>

VARIABLE kind \* of program: "arith" or "shift"

MathsInit == Init /\ ShiftInit /\ kind \in {"arith", "shift"}

MathsNext ==
  \/ kind = "arith" /\ Next /\ UNCHANGED <<shiftOnly, kind>>
  \/ kind = "shift" /\ ShiftNext /\ UNCHANGED <<arithOnly, kind>>

MathsSpec == MathsInit /\ [][MathsNext]_<<arithOnly, shiftOnly, cf, of, zf, sf, kind>>

=============================================================================
