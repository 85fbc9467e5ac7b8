------------------------------ MODULE MCMulDiv ------------------------------
(* Every operand of eight values, half of them negative. *)
EXTENDS MulDiv

MCValues == Operands

=============================================================================
