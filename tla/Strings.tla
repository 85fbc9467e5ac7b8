------------------------------- MODULE Strings -------------------------------
(***************************************************************************)
(* String instructions and their repetition: vm/ops/strings.cpp, SetIndex  *)
(* of vm/cpu_helpers.cpp, op_rep of vm/ops/etc.cpp.                        *)
(*                                                                         *)
(* A cycle moves or compares one element, and a repetition is one cycle    *)
(* after another of the same instruction; between two of them the host may *)
(* save the state of the CPU, or load one it has saved, which leaves       *)
(* memory and devices as they are.  An access that is not served is an     *)
(* exception: the host then loads a state.                                 *)
(*                                                                         *)
(* Prefixes are part of the instruction, whose handlers ExecLoop has; so   *)
(* is the byte in front of it, which CMPS and SCAS look at.                *)
(***************************************************************************)
EXTENDS Integers, Sequences

CONSTANTS
  Byte,          \* values of a byte
  Half,          \* SI, DI and CX are ESI, EDI and ECX modulo Half
  Mapped,        \* addresses that memory is mapped to
  Memories,      \* what it holds at first
  Accumulators,  \* bytes of EAX
  Setups,        \* ESI, EDI, ECX and direction at first
  Reloads,       \* what other instructions may make of them
  Code,          \* the instructions there may be
  Input,         \* what the port device has to give
  MaxSteps,      \* bound: instructions
  MaxSaves,      \* bound: states saved
  MaxLoads       \* bound: states loaded

Dwords == Half * Half
Dword == 0 .. Dwords - 1

Compare == {"cmps", "scas"}
Ops == {"movs", "lods", "stos", "ins", "outs"} \cup Compare

\* rep is the byte in front: a repetition, or "data" if it belongs to what stands before.
Instruction ==
  [op : Ops, wide : BOOLEAN, op16 : BOOLEAN, addr16 : BOOLEAN,
   rep : {"F2", "F3", "data", "none"}]

Setup == [esi : Dword, edi : Dword, ecx : Dword, df : BOOLEAN]

ASSUME StringsAssumption ==
  /\ Half \in Nat /\ 3 < Half /\ Half % 2 = 0
  /\ Mapped \subseteq Dword /\ Memories \subseteq [Mapped -> Byte]
  /\ Accumulators \subseteq [0 .. 3 -> Byte]
  /\ Setups \subseteq Setup /\ Reloads \subseteq Setup /\ Code \subseteq Instruction
  /\ Input \in Seq(Byte)
  /\ MaxSteps \in Nat /\ MaxSaves \in Nat /\ MaxLoads \in Nat

VARIABLES
  esi, edi, ecx, acc, df, zf,  \* registers: acc are the bytes of EAX
  string_compares,
  mem,
  inp, out,      \* bytes the port device has given and got
  ins,           \* the instruction
  pc,            \* "next": it is done; "repeat": it goes on; "faulted": it has thrown
  saved,         \* the host's snapshot
  saves, loads,  \* how many there have been
  steps,         \* instructions so far
  job,           \* history: what there was when the instruction began
  done,          \* history: the elements it has worked on
  reach, again   \* history: the most they have been, if it was taken back to fewer

registers == <<esi, edi, ecx, acc, df, zf>>
host == <<saved, saves, loads>>
vars == <<registers, string_compares, mem, inp, out, ins, pc, host, steps, job, done, reach, again>>

Repeats(i) == i.rep \in {"F2", "F3"}
Size(i) == IF ~ i.wide THEN 1 ELSE IF i.op16 THEN 2 ELSE 4

NoJob == [count |-> -1]
NotSaved == [pc |-> "none"]

\* Any will do: it is not looked at before the first one.
NoInstruction ==
  [op |-> "movs", wide |-> FALSE, op16 |-> FALSE, addr16 |-> FALSE, rep |-> "none"]

Init ==
  /\ \E s \in Setups : esi = s.esi /\ edi = s.edi /\ ecx = s.ecx /\ df = s.df
  /\ acc \in Accumulators /\ mem \in Memories
  /\ zf = FALSE /\ string_compares = FALSE
  /\ inp = 0 /\ out = << >>
  /\ ins = NoInstruction /\ pc = "next" /\ saved = NotSaved /\ saves = 0 /\ loads = 0 /\ steps = 0
  /\ job = NoJob /\ done = 0 /\ reach = 0 /\ again = FALSE

-----------------------------------------------------------------------------
(* Registers and accesses                                                  *)

\* The address in a register depends on the operand size; the address size has no say.
Reg(i, r) == IF i.op16 THEN r % Half ELSE r

Counts(i, c) == IF i.addr16 THEN c % Half ELSE c
Counter(i) == Counts(i, ecx)

Stride(i) == IF df THEN - Size(i) ELSE Size(i)

\* Slip: a carry out of SI or DI.
SteppedAcross(i, r) == (r + Stride(i)) % Dwords

\* SetIndex8, SetIndex16 and SetIndex32: bytes and words stay in their 64 KiB.
Stepped(i, r) ==
  IF i.wide /\ ~ i.op16 THEN (r + Stride(i)) % Dwords
  ELSE r - (r % Half) + ((r + Stride(i)) % Half)

\* The bytes of an element at a.
At(a, n) == {(a + r) % Dwords : r \in 0 .. n - 1}
Served(a, n) == At(a, n) \subseteq Mapped
Element(a, n) == [r \in 0 .. n - 1 |-> mem[(a + r) % Dwords]]

\* Slip: only a byte of the element.
WrittenByte(a, n, e) == [mem EXCEPT ![a % Dwords] = e[0]]

Written(a, n, e) ==
  [x \in Mapped |-> IF x \in At(a, n) THEN e[(x - a) % Dwords] ELSE mem[x]]

-----------------------------------------------------------------------------
(* One element                                                             *)

From(i) == Reg(i, esi)
To(i) == Reg(i, edi)

\* All move both registers, LODS and OUTS DI and STOS and SCAS SI too; INS alone does not.
Moves(i) ==
  /\ esi' = IF i.op = "ins" THEN esi ELSE Stepped(i, esi)
  /\ edi' = Stepped(i, edi)
  /\ UNCHANGED df

Movs(i, n) ==
  /\ i.op = "movs" /\ Served(From(i), n) /\ Served(To(i), n)
  /\ mem' = Written(To(i), n, Element(From(i), n))
  /\ UNCHANGED <<acc, zf, inp, out>>

Cmps(i, n) ==
  /\ i.op = "cmps" /\ Served(From(i), n) /\ Served(To(i), n)
  /\ zf' = (Element(From(i), n) = Element(To(i), n))
  /\ UNCHANGED <<acc, mem, inp, out>>

Lods(i, n) ==
  /\ i.op = "lods" /\ Served(From(i), n)
  /\ acc' = [r \in 0 .. 3 |-> IF r < n THEN Element(From(i), n)[r] ELSE acc[r]]
  /\ UNCHANGED <<zf, mem, inp, out>>

Scas(i, n) ==
  /\ i.op = "scas" /\ Served(To(i), n)
  /\ zf' = (Element(To(i), n) = [r \in 0 .. n - 1 |-> acc[r]])
  /\ UNCHANGED <<acc, mem, inp, out>>

Stos(i, n) ==
  /\ i.op = "stos" /\ Served(To(i), n)
  /\ mem' = Written(To(i), n, acc)
  /\ UNCHANGED <<acc, zf, inp, out>>

Gives(n) == inp + n <= Len(Input)

Ins(i, n) ==
  /\ i.op = "ins" /\ Gives(n) /\ Served(To(i), n)
  /\ mem' = Written(To(i), n, [r \in 0 .. n - 1 |-> Input[inp + r + 1]])
  /\ inp' = inp + n
  /\ UNCHANGED <<acc, zf, out>>

Sent(a, n) == [j \in 1 .. n |-> mem[(a + j - 1) % Dwords]]

\* Slip: what DI points to.
OutsAtDI(i, n) ==
  /\ i.op = "outs" /\ Served(From(i), n) /\ Served(To(i), n)
  /\ out' = out \o Sent(To(i), n)
  /\ UNCHANGED <<acc, zf, mem, inp>>

Outs(i, n) ==
  /\ i.op = "outs" /\ Served(From(i), n)
  /\ out' = out \o Sent(From(i), n)
  /\ UNCHANGED <<acc, zf, mem, inp>>

Works(i, n) ==
  Movs(i, n) \/ Cmps(i, n) \/ Lods(i, n) \/ Scas(i, n) \/ Stos(i, n) \/ Ins(i, n) \/ Outs(i, n)

\* An access that is not served, or a device that refuses.  INS has taken what the device gave
\* when memory does not.
Fails(i, n) ==
  /\ \/ i.op \in {"movs", "cmps", "lods", "outs"} /\ ~ Served(From(i), n) /\ UNCHANGED inp
     \/ i.op \in {"movs", "cmps", "scas", "stos"} /\ ~ Served(To(i), n) /\ UNCHANGED inp
     \/ i.op = "ins" /\ ~ Gives(n) /\ UNCHANGED inp
     \/ i.op = "ins" /\ Gives(n) /\ ~ Served(To(i), n) /\ inp' = inp + n
     \/ i.op = "outs" /\ UNCHANGED inp
  /\ UNCHANGED <<registers, mem, out>>

-----------------------------------------------------------------------------
(* The repetition                                                          *)

Compares(i) == i.op \in Compare /\ i.rep # "none"

\* Slip: the end conditions of REPZ and REPNZ swapped.
RepEndsSwapped(i) == (string_compares \/ Compares(i)) /\ (i.rep = "F2" <=> ~ zf')

\* op_rep asks string_compares, which a comparison sets; and one of an earlier instruction
\* may have.
RepEnds(i) == (string_compares \/ Compares(i)) /\ (i.rep = "F2" <=> zf')

\* Behind the element, when d were done: eip is on the next instruction or again on this one.
Leaves(i, d) ==
  /\ done' = d + 1
  /\ IF Repeats(i)
     THEN /\ ecx' = IF i.addr16 THEN ecx - (ecx % Half) + ((ecx % Half) - 1) ELSE ecx - 1
          /\ pc' = (IF RepEnds(i) THEN "next" ELSE "repeat")
          /\ string_compares' = FALSE
     ELSE /\ pc' = "next"
          /\ string_compares' = (string_compares \/ Compares(i))
          /\ UNCHANGED ecx

\* One cycle of i.
Cycle(i, d, r) ==
  /\ \/ /\ Repeats(i) /\ Counter(i) = 0
        /\ pc' = "next" /\ done' = d
        /\ UNCHANGED <<registers, string_compares, mem, inp, out>>
     \/ /\ ~ (Repeats(i) /\ Counter(i) = 0)
        /\ Works(i, Size(i)) /\ Moves(i) /\ Leaves(i, d)
     \/ /\ ~ (Repeats(i) /\ Counter(i) = 0)
        /\ Fails(i, Size(i))
        /\ pc' = "faulted" /\ done' = d
        /\ string_compares' = (string_compares \/ Compares(i))
  /\ reach' = IF done' > r THEN done' ELSE r
  /\ UNCHANGED host

Begin(i) ==
  /\ pc = "next" /\ steps < MaxSteps /\ steps' = steps + 1
  /\ ins' = i
  /\ job' = [ins |-> i, esi |-> esi, edi |-> edi, ecx |-> ecx, df |-> df, zf |-> zf,
             count |-> Counter(i), mem |-> mem, inp |-> inp, out |-> out,
             clean |-> ~ string_compares]
  /\ again' = FALSE
  /\ Cycle(i, 0, 0)

Continue ==
  /\ pc = "repeat"
  /\ Cycle(ins, done, reach)
  /\ UNCHANGED <<ins, steps, job, again>>

-----------------------------------------------------------------------------
(* What comes in between                                                   *)

\* Instructions in front of the next one load its registers.
Prepare(s) ==
  /\ pc = "next" /\ job # NoJob /\ steps < MaxSteps
  /\ esi' = s.esi /\ edi' = s.edi /\ ecx' = s.ecx /\ df' = s.df
  /\ job' = NoJob
  /\ UNCHANGED <<acc, zf, string_compares, mem, inp, out, ins, pc, host, steps, done, reach, again>>

\* The host can between two calls of Exec; a state that throws is not worth saving.
SaveState ==
  /\ pc \in {"next", "repeat"} /\ saves < MaxSaves /\ saves' = saves + 1
  /\ saved' = [esi |-> esi, edi |-> edi, ecx |-> ecx, acc |-> acc, df |-> df, zf |-> zf,
               ins |-> ins, pc |-> pc, steps |-> steps, done |-> done]
  /\ UNCHANGED <<registers, string_compares, mem, inp, out, ins, pc, loads, steps, job, done,
                 reach, again>>

\* eip goes back with the registers, perhaps into another instruction.
LoadState ==
  /\ saved # NotSaved /\ loads < MaxLoads /\ loads' = loads + 1
  /\ esi' = saved.esi /\ edi' = saved.edi /\ ecx' = saved.ecx
  /\ acc' = saved.acc /\ df' = saved.df /\ zf' = saved.zf
  /\ ins' = saved.ins /\ pc' = saved.pc
  /\ string_compares' = FALSE
  /\ IF saved.steps = steps THEN UNCHANGED job ELSE job' = NoJob
  /\ done' = saved.done /\ again' = TRUE
  /\ UNCHANGED <<mem, inp, out, saved, saves, steps, reach>>

Next ==
  \/ \E i \in Code : Begin(i)
  \/ Continue
  \/ \E s \in Reloads : Prepare(s)
  \/ SaveState \/ LoadState

\* A repetition goes on when the host calls Exec again.
Spec == Init /\ [][Next]_vars

-----------------------------------------------------------------------------
(* Properties                                                              *)

Job ==
  [ins : Instruction, esi : Dword, edi : Dword, ecx : Dword, df : BOOLEAN, zf : BOOLEAN,
   count : Dword, mem : [Mapped -> Byte], inp : 0 .. Len(Input), out : Seq(Byte),
   clean : BOOLEAN]

\* What a job says of the elements: how far one is from the next, and where the k-th is.
Step(j) == IF j.df THEN - Size(j.ins) ELSE Size(j.ins)
Src(j, k) == j.esi + k * Step(j)
Dst(j, k) == j.edi + k * Step(j)

\* n elements from start follow each other: no wrap, and no upper half that is not there.
Straight(j, start, n) ==
  LET last == start + (n - 1) * Step(j)
  IN  n > 0 =>
        IF j.ins.wide /\ ~ j.ins.op16 THEN last \in Dword
        ELSE /\ last \in Dword /\ last \div Half = start \div Half
             /\ j.ins.op16 => start < Half

Place(j, a) == {(a + r) % Dwords : r \in 0 .. Size(j.ins) - 1}
Targets(j, n) == UNION {Place(j, Dst(j, k)) : k \in 0 .. n - 1}
Sources(j, n) == UNION {Place(j, Src(j, k)) : k \in 0 .. n - 1}

\* Where a register is that was at start, after k elements.
Reached(j, start, k) ==
  IF j.ins.wide /\ ~ j.ins.op16 THEN (start + k * Step(j)) % Dwords
  ELSE start - (start % Half) + ((start + k * Step(j)) % Half)

Agree(j, si, di, c, k) ==
  /\ si = IF j.ins.op = "ins" THEN j.esi ELSE Reached(j, j.esi, k)
  /\ di = Reached(j, j.edi, k)
  /\ Repeats(j.ins) =>
       /\ k <= j.count /\ Counts(j.ins, c) = j.count - k
       /\ c - Counts(j.ins, c) = j.ecx - j.count

\* At the end of every cycle, be it the last, one with an exception or the one a loaded
\* state goes on from, the registers say how far the instruction has come: ESI and EDI are
\* as many elements from where they began as the counter has gone down by.
Progress == job # NoJob => Agree(job, esi, edi, ecx, done)

Repeated(j, start) == Straight(j, start, reach)

\* MOVS and STOS change the bytes they have come to and no other.  Every element that is
\* moved is what stood at its source in the beginning, or what the same instruction has put
\* there before, if the target overlaps the source.  An exception changes nothing of that;
\* nor does a loaded state, although its instruction moves elements a second time, if the
\* target does not overlap the source.
MovesBlock ==
  job # NoJob /\ Repeated(job, job.edi) =>
    /\ \A x \in Mapped :
         mem[x] # job.mem[x] => job.ins.op \in {"movs", "stos", "ins"} /\ x \in Targets(job, reach)
    /\ job.ins.op = "stos" =>
         \A k \in 0 .. reach - 1 : \A r \in 0 .. Size(job.ins) - 1 :
           mem[(Dst(job, k) + r) % Dwords] = acc[r]
    /\ job.ins.op = "movs" /\ Repeated(job, job.esi)
       /\ (again => Sources(job, reach) \cap Targets(job, reach) = {}) =>
         \A k \in 0 .. reach - 1 : \A r \in 0 .. Size(job.ins) - 1 :
           LET s == (Src(job, k) + r) % Dwords
           IN  mem[(Dst(job, k) + r) % Dwords] =
                 IF s \in Targets(job, k) THEN mem[s] ELSE job.mem[s]

\* Whether a comparison of job j finds its k-th elements equal.
Equal(j, k) ==
  \A r \in 0 .. Size(j.ins) - 1 :
    mem[(Dst(j, k) + r) % Dwords] =
      IF j.ins.op = "cmps" THEN mem[(Src(j, k) + r) % Dwords] ELSE acc[r]

\* A repetition is over when it has done all its elements; one of CMPS or SCAS also at the
\* first that REPZ finds different, or REPNZ equal, and ZF tells how the last compared.
\* Other repetitions end before only if an earlier comparison has left string_compares.
Ends ==
  job # NoJob /\ Repeats(job.ins) /\ pc \in {"next", "repeat"} =>
    LET stops == pc = "next" /\ done # job.count
    IN  IF job.ins.op \in Compare
        THEN Straight(job, job.edi, done) /\ (job.ins.op = "cmps" => Straight(job, job.esi, done)) =>
               /\ done = 0 => zf = job.zf /\ ~ stops
               /\ done > 0 => zf = Equal(job, done - 1) /\ (stops => (job.ins.rep = "F2" <=> zf))
               /\ \A k \in 0 .. done - (IF pc = "next" THEN 2 ELSE 1) :
                    Equal(job, k) <=> job.ins.rep = "F3"
        ELSE stops => ~ job.clean /\ done = 1

\* What OUTS has sent are its elements in their order, each once; what INS has put into memory
\* is what the device has given, in its order, and nothing is lost, but for the element
\* whose memory is not there.  A loaded state breaks this: devices do not go back.
Streams ==
  job # NoJob /\ ~ again =>
    LET n == Size(job.ins)
        op == job.ins.op
    IN  /\ op # "outs" => out = job.out
        /\ op # "ins" => inp = job.inp
        /\ op = "outs" /\ Straight(job, job.esi, done) =>
             out = job.out \o [j \in 1 .. n * done |->
                                 job.mem[(Src(job, (j - 1) \div n) + ((j - 1) % n)) % Dwords]]
        /\ op = "ins" =>
             /\ inp = job.inp + n * (IF pc = "faulted" /\ inp # job.inp + n * done
                                     THEN done + 1 ELSE done)
             /\ Straight(job, job.edi, done) =>
                  \A k \in 0 .. done - 1 : \A r \in 0 .. n - 1 :
                    mem[(Dst(job, k) + r) % Dwords] = Input[job.inp + k * n + r + 1]

Snapshot ==
  [esi : Dword, edi : Dword, ecx : Dword, acc : [0 .. 3 -> Byte], df : BOOLEAN, zf : BOOLEAN,
   ins : Instruction, pc : {"next", "repeat"}, steps : Nat, done : Nat]

\* Registers, memory, devices and what is remembered of them keep their types.
TypeOK ==
  /\ esi \in Dword /\ edi \in Dword /\ ecx \in Dword
  /\ acc \in [0 .. 3 -> Byte] /\ df \in BOOLEAN /\ zf \in BOOLEAN
  /\ string_compares \in BOOLEAN /\ mem \in [Mapped -> Byte]
  /\ inp \in 0 .. Len(Input) /\ out \in Seq(Byte)
  /\ ins \in Instruction /\ pc \in {"next", "repeat", "faulted"}
  /\ steps \in Nat /\ saves \in Nat /\ loads \in Nat
  /\ done \in Nat /\ reach \in Nat /\ again \in BOOLEAN
  /\ job = NoJob \/ job \in Job
  /\ saved = NotSaved \/ saved \in Snapshot

=============================================================================
