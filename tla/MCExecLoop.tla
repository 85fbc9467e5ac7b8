----------------------------- MODULE MCExecLoop -----------------------------
(* Programs and small bounds for ExecLoop. *)
EXTENDS ExecLoop, SequencesExt

\* A program from its instructions, each a sequence of bytes.
Assemble(insns) ==
  [code   |-> FlattenSeq(insns),
   starts |-> {1 + Len(FlattenSeq(SubSeq(insns, 1, k))) : k \in 0 .. Len(insns)}]

\* Repetitions of both widths and kinds, under prefixes and under LOCK.
RepPrograms ==
  {Assemble(<<<<"setcx">>, <<"F3", "string">>, <<"nop">>>>),
   Assemble(<<<<"setcx">>, <<"67", "66", "F3", "cmps">>, <<"F2", "cmps">>>>),
   Assemble(<<<<"setcx">>, <<"F0", "F2", "cmps">>, <<"F3">>, <<"ret">>>>),
   Assemble(<<<<"setcx">>, <<"67", "F0", "F3", "string">>, <<"cmps">>>>)}

\* A comparison behind data that looks like a REP, and repetitions it may cut short.
Lookalike ==
  Assemble(<<<<"setcx">>, <<"movi", "F3">>, <<"cmps">>, <<"F3", "string">>, <<"F2", "cmps">>>>)

\* LOCK in front of what locks by itself finds the memory locked, and the second part
\* runs in a cycle of its own: for the engine these are two instructions.
LockedExchange == Assemble(<<<<"F0">>, <<"xchg">>, <<"F0">>, <<"F0", "mem">>>>)

\* Prefix chains, exchanges, faults, interrupts and calls of the host.
MixedPrograms ==
  {Assemble(<<<<"66", "67", "66", "mem">>, <<"xchg">>, <<"ret">>>>),
   Assemble(<<<<"F0", "66", "mem">>, <<"66", "xchg">>, <<"67", "movi", "F3">>, <<"out">>>>),
   Assemble(<<<<"sti">>, <<"66", "hlt">>, <<"cli">>, <<"F0", "unk">>>>),
   Assemble(<<<<"movi", "66">>, <<"mem">>, <<"66", "undev">>>>),
   Assemble(<<<<"67", "mem">>, <<"F3", "nop">>, <<"opna">>>>),
   LockedExchange}

AllPrograms == RepPrograms \cup MixedPrograms \cup {Lookalike}

=============================================================================
