------------------------------ MODULE MCDecoder -----------------------------
(* Bytes of four values: a word has 16 and a dword 256.  Instructions of every row of the
   tables with the operands where their handlers differ; the stack pointer is 254. *)
EXTENDS Decoder

Form(op, mod, extra, rm) ==
  [op |-> op, mod |-> mod, extra |-> extra, rm |-> rm, ss |-> 0, index |-> 0, base |-> 0,
   disp |-> 110, op16 |-> FALSE, addr16 |-> FALSE]

\* Every opcode, with the operands at a displacement and in a register.
Opcodes ==
  {i \in {Form(op, mod, extra, 3) : op \in 0 .. 511, mod \in {1, 3}, extra \in {0, 3}} : Handled(i)}

\* The groups.
Groups ==
  {Form(op, mod, extra, 4) : op \in {\h80, \h82, \h8F, \hC1, \hD1, \hF6, \hF7, \hFE, \hFF},
                             mod \in {0, 3}, extra \in 0 .. 7}

\* Every way of addressing an operand.
Ways ==
  {[Form(op, mod, 4, rm) EXCEPT !.ss = ss, !.index = x, !.base = b, !.disp = d] :
     op \in {\h01, \h87}, mod \in 0 .. 2, rm \in 0 .. 7, ss \in 0 .. 3, x \in {1, 4, 5},
     b \in {0, 4, 5}, d \in {109, 110}}

MCCode ==
  {[i EXCEPT !.op16 = o, !.addr16 = a] : i \in Opcodes \cup Groups \cup Ways,
     o \in BOOLEAN, a \in BOOLEAN}

MCFiles == {[r \in 0 .. 7 |-> (37 * r + 106) % Dwords]}

=============================================================================
