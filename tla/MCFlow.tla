------------------------------- MODULE MCFlow -------------------------------
(* Bytes of six values: a segment has 36 bytes.  Two segments are mapped but for a hole,
   and the stack begins a dword above the lower one. *)
EXTENDS Flow

MCMapped == (0 .. 2 * Half - 1) \ 4 .. 7
MCRegisters ==
  [r \in 0 .. 7 |-> CASE r = SP -> Half + 4 [] r = CX -> Half + 1 [] OTHER -> 41 * r + 11]
MCRels == {-3, 2}

=============================================================================
