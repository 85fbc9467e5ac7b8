------------------------------ MODULE MCStrings ------------------------------
(* SI has eight values; the memory is 22 bytes with a hole near its end. *)
EXTENDS Strings

MCMapped == (0 .. 23) \ {20, 21}

\* Runs of equal bytes among others.
MCMemories == {[x \in MCMapped |-> IF x % 6 = 3 THEN 1 ELSE IF x < 12 THEN 0 ELSE x % 5]}

MCAccumulators == {[r \in 0 .. 3 |-> 0]}

At3(s, d, down) == [esi |-> s, edi |-> d, ecx |-> 3, df |-> down]

\* Blocks apart and blocks that overlap, upwards and downwards, with the memory's ends and
\* its hole in the way of the longer elements; a block that wraps, counted by CX alone.
MCSetups ==
  {At3(9, 10, FALSE), At3(12, 4, TRUE), At3(0, 12, FALSE), At3(16, 18, TRUE),
   [esi |-> 2, edi |-> 7, ecx |-> 2 * Half + 2, df |-> FALSE]}

MCReloads == {At3(5, 8, FALSE)}

MCCode ==
  {i \in Instruction : /\ i.addr16 => i.rep \in {"F2", "F3"} /\ ~ i.wide
                       /\ i.rep = "data" => i.op = "cmps"
                       /\ ~ i.wide /\ i.op16 => i.op = "movs"
                       /\ i.rep = "F2" => i.op \in Compare}

MCInput == [n \in 1 .. 9 |-> n % 4]

=============================================================================
