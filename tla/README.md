# TLA+ models of x86lib

x86lib is a virtual machine for 32-bit x86 code: a C++ library (`src/vm`,
`src/include`) in which a host maps memory and port devices, creates one or more
`x86CPU`s and lets them run for a number of cycles.  This directory holds TLA+
modules that model the parts of it whose correctness depends on sequences of calls,
on interleavings or on arithmetic at the edges, the TLC configurations that check
them on small instances, and TLAPS proofs that carry the most important properties
to every instance.

Run a check with `tlc -config <run>.cfg <module>`, a proof with
`tlapm <module>Proofs.tla`.

## The system

| Part | Source | State it keeps | Operations | Modelled in |
|---|---|---|---|---|
| Physical address space | `vm/device_manager.cpp`, `include/x86lib.h` | vector of (low, high, device), bytes of RAM and ROM devices | Add, Remove (by address, by device), RangeFree, Read, Write | `MemoryBus`, `FlatMemory` |
| Execution engine | `vm/x86lib.cpp`, `vm/cpu_helpers.cpp` | eip, registers, size overrides, pending interrupt, gas, DoStop | Exec, Cycle, Int, Stop, Reset, SaveState, LoadState, setGasLimit | `ExecLoop` |
| Prefixes, REP, LOCK | `vm/ops/etc.cpp`, `store.cpp` | OperandSize16, AddressSize16, string_compares, busmaster, the C++ call stack | nested handler calls | `ExecLoop` |
| String instructions | `vm/ops/strings.cpp`, `etc.cpp:88-154`, `vm/cpu_helpers.cpp:27-62` | ESI, EDI, ECX, DF, ZF, string_compares | MOVS, CMPS, LODS, SCAS, STOS, INS, OUTS, alone or behind REP | `Strings` |
| Bus lock between CPUs | `include/x86lib.h`, `vm/x86lib.cpp` | `locked`, one `busmaster` per CPU | Lock, Unlock, WaitLock | `BusLock` |
| Payload codec | `vm/x86lib.cpp:869-957` | locals of two functions | qtumCompressPayload, qtumDecompressPayload | `Payload` |
| Arithmetic, flags, conditions | `vm/ops/maths.cpp`, `vm/cpu_helpers.cpp`, `vm/ops/flags.cpp` | registers and the status flags | additions, subtractions, comparisons, logic, decimal adjustment, Jcc, SETcc | `Arith` |
| Shifts and rotates | `vm/ops/maths.cpp:235-762`, `1366-1545` | operand and flags | SHL, SHR, SAR, SHLD, SHRD, ROL, ROR, RCL, RCR | `Shifter` |
| Multiplication, division | `vm/ops/maths.cpp:1036-1208`, `1653-1736` | the accumulator (AH:AL, DX:AX, EDX:EAX), CF, OF | MUL, IMUL, DIV, IDIV, AAM, AAD, CBW, CWD, CDQ | `MulDiv` |
| Operand decoder | `vm/modrm.cpp`, `vm/ops/groups.cpp` | the ModRM object of one instruction | addressing forms, GetLength, group dispatch, the destructor that moves eip | `Decoder` |
| Control flow, stack | `vm/ops/flow.cpp`, `store.cpp`, `flags.cpp`, `vm/cpu_helpers.cpp` | eip, registers, stack memory | jumps, calls, returns, PUSH, POP, PUSHA, POPA, ENTER, LEAVE | `Flow`; INT n in `ExecLoop` |
| Port space | `vm/device_manager.cpp:218-275` | growing array of ranges | Add, Read, Write | not modelled |
| ELF loader | `utils/elfloader.cpp` | two flat images | loadElf | not modelled: one pass over file data |
| Testbench host | `testbench/testbench.cpp` | windows, devices, console | main loop around Exec | its calls are `ExecLoop`'s Host actions |
| Opcode tables | `vm/x86lib.cpp:292-835`, `include/opcode_def.h` | static tables | - | the opcodes of `Decoder`, the classes of opcodes in `ExecLoop` |

How they interact: the host calls Exec; Cycle fetches a byte through the address
space and calls its handler; a handler calls other handlers (prefixes, groups), the
address space, the port space or the host (`Hypervisor->HandleInt`, port devices);
the host may call Stop or Int from such a callback.  An error is a C++ exception
that leaves all handlers at once.  Several CPUs share one `MemorySystem` and its lock.

What is hard: accesses that cross the end of a window are continued by recursion
with hand-made arithmetic; a REP instruction takes many cycles and re-executes its
prefixes; prefix state is cleaned up by code behind the call that an exception
skips; the lock is a volatile integer without atomic operations; the same flag
arithmetic is written three times for three operand sizes; the address of an operand is
worked out anew for each access of it, and the length of its encoding by code apart from
that which reads it; a repetition of a string instruction has its registers as the only
record of how far it is.  `PROJECT.json` lists
each such hazard with its line and the properties aimed at it.

## Modules

`X` is a component, `MCX` its instances for TLC (`MCMaths` those of `Arith` and `Shifter`), `XProofs` its theorems.  `Flags` declares the
flags that `Arith` and `Shifter` share.
Definitions keep the names of the source where they can.  A definition marked "Slip"
is a plausible mistake in the code it stands next to; no specification uses one: it
serves to show that the property named after it in `PROJECT.json` can fail.

### MemoryBus and FlatMemory

`ranges` is `memorySystemVector`, `mem` the bytes of every device.  A call on the
address space runs from `op` = "idle" back to "idle".  Read and Write keep the
arguments of the recursive call they have reached (`addr`, `left`, `pos` for
address, size and buffer); a step is one call of a device, `ReadHead`/`WriteHead` for
the part in front of a window's end and `ReadLast`/`WriteLast` for an access that fits.
The expressions passed to the device are those of the source, including
`device.high - address` where a relative address is expected.  Address arithmetic wraps
modulo `AddrMod` (2^32).  The erasing loops of Remove and RangeFree take one step for
each entry.  The buffer has one index for each byte the recursion may run over, and
`Behind` are the windows whose end an access has crossed: what `OverrunBounded` counts.

`FlatMemory` is the promise to a CPU: a partial map from addresses to bytes on which
an access happens at one instant, completely or not at all.  `FlatSpec` is the
statement that the bus implements it (with the mapping at the end of `MemoryBus`)
when windows are disjoint and no access leaves its first window.  `BusIsFlat` proves its
safety part for every address space and every such set of windows.

### ExecLoop

One CPU in the single-threaded build.  `pc` is where Exec is: in the host, at the top
of its loop, at the dispatch of the byte at `eip`, or returning from a handler.
`frames` is the stack of prefix handlers that wait for the handler they called, so that
a prefix chain is really nested; an exception (`Throw`) drops the stack with
none of the clean-up behind the calls, and `outcome` tells what reached the host.
Opcodes are classes: all instructions with the same effect on this state are one
("mem" for every access to data, "movi" for an immediate byte, "out" for a call of
the host, and so on).  The program is a constant, chosen from the small assembler
programs of `MCExecLoop`; `starts` remembers where the assembler put an instruction.
`begun` and `stale` are history: the cycles that have begun, and whether the last one
began with `string_compares` set.

### BusLock

Several CPUs in the X86_MULTITHREADING build.  Every load and store of `locked`, of
`busmaster` and of the one memory cell is a step.  `nest` counts the calls of Lock an
instruction has made (LOCK XCHG makes two).  `held`, `seen`, `raced` and `faulted` are
history: who has stored 1, what the last test saw, whether someone acted on a
test that had become false, and whether an exception left a holder's handler.

### Payload

The two functions byte by byte.  `trace` is history for the proofs: which byte of the
payload each compressed byte comes from.  Strings of foreign origin exercise the
decoder's error paths.

### Arith

One instruction is one step.  `acc` is the accumulator, seen as a number of the current
operand size, which is given by the weight `h` of its sign bit; the other operand is an
input, and `ah` is AH where the size is a byte.  The flags are those of `freg` except for the parity flag.
The three copies of each flag computation (8, 16 and 32 bits) are one operator over
`h`, except where the copies agree and should not: `BitSeven` is the bit all of them
test for the overflow flag.  Sizes are scaled: `Nib` values of a hexadecimal digit and `Ten` of a
decimal one, two digits in a byte, and operand sizes that are multiples of a byte.
`last` and `chain` are history: the instruction that set the flags, with its operands, and the
addition or subtraction of several operands under way, with what it has not stored yet
(`owed`) and what single instructions have lost of it (`lost`): an ADC whose operand and
carry wrap loses its carry out, an SBB twice the borrow it takes in (`Lost`).  `LongResult` keeps
these books over the whole sequence, borrows and wraps included.
`Taken` is what SBB subtracts; its form with an extended byte takes the borrow off the byte
(`maths.cpp:847`).

### Shifter

An operand is a function from bit numbers to bits, so that a shift is a change of
index and its correctness is about indices, as in the source.  `At` is the zero that
comes in from outside.  What the bits stand for (`Num`, `SignedNum`) is only used to say what is correct:
`LowBits` adds up the powers of two.  `shift` is history: the last shift, with its operands.  `ring` is history: what the operand (and the carry for RCL and
RCR) was when a sequence of rotations began, and how far they have turned it.
`long` is the same for a number of several operands that is shifted by one place, one
operand after the other: how much is missing from twice, or half, of the number.  The width that counts are
masked with is `LongW`, as in the source; `ByteW` and `WordW` must divide it.

### Flow

One instruction is one step, and which one comes next is free, so that every program is
covered.  `reg` and `eip` are the registers and `mem` the bytes written to the stack; a
handler is a function from machine to machine that stops at the access that fails,
with what it has done until then (a push has moved ESP by then, a call eip).  An
operand size of 2 is the one behind the prefix 0x66: pushes and pops then use SP and
leave the upper half of ESP alone, and targets are cut to 16 bits.  Bytes are scaled to
`ByteMod` values, so that a 16-bit stack wraps after `ByteMod * ByteMod` bytes.
Handlers that differ in nothing these properties see are one action: the pushes of segment
registers, of memory and of immediate operands are `PushReg` with another value.
`frames` and `unwound` are history: what pushes have left on the stack, and what the last
pop took off and should have found.
A frame records the depths `from` and `to` it lies at, counted from the first; frames are followed as
long as all of them, and all that the instruction has pushed, fit in the memory SP can address, and until an instruction that belongs to none of them moves the stack pointer.

### Decoder

Every opcode whose handler has a ModRM byte, an immediate or a direct address, behind
the two size prefixes.  A handler is a sequence of phases (`Constructs`, `Immediate`, ...
`Destroys`, `Finishes`), of which `Needs` tells which the opcode has; `pc` is the phase
it has come to, and each of those that access memory or a port may throw (`Throws`), which
runs the destructor of ModRM.  `off` is eip from the opcode.  An instruction is a record of
its fields (`mod`, `extra`, `rm`, scale, index, base, displacement); what it computes is
any of `Values`.  `used`, `places` and `link` are history: the bytes of code that have been
read, the operands that have been looked for, and the address that a call has pushed.

### MulDiv

One instruction is one step.  The accumulator is the pair `hi`, `lo` of the operand's size, and
one modulus stands for the three sizes, so that an operand of 8, 16 or 32 bits is an instance
of it; the handlers of the sizes are apart where they are in the source.  The conversions to
magnitudes and back (`Unsign`, `Resign`, and those of twice the width) are those of
`x86lib_internal.h`.  DIV reads its operand twice; where the operand is the accumulator, or
memory that the accumulator leads to, the second is another one (`Again`).  `alive` turns
FALSE where the C++ division itself is one by zero.

### Strings

One cycle is one step: an element, the end of a repetition whose counter is 0, or an access
that fails.  `mem`, `inp` and `out` are memory and what a port device has still to give and
has got.  Addresses are ESI and EDI, or SI and DI with a 16-bit operand size, as in `Reg`; the
registers move as `SetIndex8`, `SetIndex16` and `SetIndex32` do.  Between two cycles the host
may take a snapshot (`SaveState`) and load one (`LoadState`): registers go back, memory and
devices stay.  `job`, `done`, `reach` and `again` are history: what there was when the
instruction began, the elements it has done, the most they have been, and whether a
snapshot has taken it back.

## Runs

| Run | Shows | Bounds, and why they are enough |
|---|---|---|
| `MemoryBus_bus` | `NoneSwallowed`, `NothingPassedOver`, `AccessLedger`, `OverrunBounded`, `CallsReturn` | 6 addresses, 5 windows that touch, overlap, nest, outgrow their device and reach both ends of the space, 3 of them a row of one byte each, 4 mapped at once; a RAM as large as the space; accesses of up to 3 bytes: a read crosses up to three ends, the last of them in front of a window at the top of the space, where address + size wraps |
| `MemoryBus_flat` | refinement `FlatSpec` | disjoint windows, one of RAM and one of ROM, accesses that stay in their first window |
| `MemoryBus_relative` | *violation*: a straddling write goes to the wrong offset | disjoint windows, accesses of up to 2 bytes over their ends |
| `ExecLoop_engine` | `FlagScope`, `LockScope`, `GasCoversCycles`, `PrefixesApply`, `StartsAtInstruction`, `RepCompletes`, `ExecReturns` | 11 programs that contain every class of opcode and every nesting of two prefixes with REP, ECX up to 3 with CX = ECX mod 2, 3 cycles for one Exec, gas limits up to 2, 4 cycles in all before a reset |
| `ExecLoop_waits` | *violation*: a single CPU waits for a lock for ever | as above |
| `Payload_codec` | `RoundTrip`, `WellFormed`, `Strict` | UINT8_MAX is 2 and the size modulus 6: every payload of up to 6 bytes (three full runs), foreign input of up to 4 bytes |
| `BusLock_bus` | `ExclusiveUnlessRaced`, `LockedIsAtomic`, `LockReleased` | 2 CPUs, all instructions, 3 cell values, faults; the safety part was also run once with 3 CPUs |
| `Maths_programs` | `LongResult`, `UnsignedConditions`, `SignedConditions`, `DecimalAdjust`; `Rotation`, `LongShift`, `ShiftValue` | programs of `Arith` or of `Shifter`, from the same flags: digits of 4 values of which 3 are decimal, bytes of 4 bits, wide operands of 5; every pair of operands; up to three operands in a long addition or subtraction.  Shifts of widths of 2, 3 and 6 bits, every operand, counts from 0 to 7 (past every width), three operands in a long shift |
| `Flow_calls` | types, `FramesIntact`, `Unwinds` | sequences of up to 5 instructions (argument, CALL, ENTER, LEAVE, RET with operand) with 3 frames, bytes of 6 values (a segment of 36 bytes, where PUSHA takes 32), a stack that starts a dword above a segment's end, a hole in memory, jumps by -3 and 2 among the first two instructions only, an empty stack only before the first |
| `Decoder_forms` | `Lands`, `OperandPlace`, `FaultsInside` | bytes of 4 values (words of 16, dwords of 256), one instruction: every opcode with its operand in memory and in a register, every entry of the groups, every addressing form with three index and base registers and all scales, in both operand and address sizes; a fault at every access; one register file in which all sums of registers wrap |
| `MulDiv_pairs` | `Products`, `Quotients`, `Undone` | operands of 8 values, immediates of 6: every operand, half of them negative, in every order |
| `Strings_rep` | `Progress`, `MovesBlock`, `Ends`, `Streams` | SI, DI and CX of 8 values in registers of 64, 22 bytes of memory with a hole, three elements in five setups: apart, overlapping, wrapping, upwards and downwards, into the hole and past the end; two instructions one after the other, a snapshot taken at any point and loaded at any later one |

`NoneSwallowed` is what the check in Add does guarantee: it does not keep windows from
overlapping in part.  `ExclusiveUnlessRaced`
and `LockedIsAtomic` say that the gap between a test of `locked` and what follows it
is the only way in which the lock fails.

Deadlock is checked except in the runs of `BusLock` (where LOCK XCHG makes a CPU wait
for itself, and a fault leaves the lock behind for everybody), of `Flow`, `Decoder` and
`Strings`, whose behaviours end at the bound on instructions or at an exception, and of
`MulDiv`, where a division by zero of the emulator's own ends it.

### What the code does otherwise

Two runs show statements of the repository that the code does not keep:

- `MemoryBus_relative`: a write that leaves its window hands the device the distance to the
  window's end for a relative address (`device_manager.cpp:176`), where
  `testbench.cpp:54` promises that the "memmap prefix is already subtracted out".
- `ExecLoop_waits`: a memory that is still locked after an exception behind LOCK lets a single
  CPU wait for ever once Reset has cleared `busmaster` (`x86lib.h:214`), in a loop that
  according to `config.h:64` "should never be got to in single-threaded implementations".

The models reproduce these behaviours as well, without a run of their own:

- A CMPS or SCAS right behind an immediate byte 0xF2 or 0xF3 sets `string_compares`, which the
  next REP takes for a comparison of its own, where `strings.cpp:48` says "only set
  string_compares if previous was REPZ/REPNZ".  `RepCompletes` admits it by name (`stale`).
- JCXZ that jumps lands one byte before its target (`flow.cpp:74`), where `flow.cpp:78` says
  "relative jump should happen at the beginning of the next opcode".
- Two CPUs may both leave the loop of Lock before either stores 1 (`x86lib.h:205`), where
  `config.h:50` speaks of the CPU that holds the lock.
- Add accepts windows that overlap partly, or lie inside another one
  (`device_manager.cpp:55`).
- XCHG behind LOCK finds the memory locked by its own prefix, steps back one byte and
  runs in the next cycle without its prefixes (`store.cpp:273`); with
  X86_MULTITHREADING it waits for itself forever.
- A cycle that throws is not charged any gas (`x86lib.cpp:208`).
- Devices throw `MemoryException` by pointer, which passes the handler in Exec
  (`x86lib.h:259`, `x86lib.cpp:243`).
- SaveState and LoadState lose a pending interrupt and the gas counters.
- An interrupt that is taken ends the program: Int16 always throws.
- A read that crosses the end of a window reads one byte too many for each window it
  leaves, a write advances its buffer one byte too few.
- Compressed payloads of 2^24 bytes or more cannot be decompressed
  (`x86lib.cpp:927`); `MAX_QTUM_PAYLOAD_SIZE` is never consulted.
- OF of 16- and 32-bit operands is computed from bit 7 (`cpu_helpers.cpp:100`, `107`); for all sizes it is
  wrong when the subtrahend is the most negative number, as its negation is not one.
- ADC and SBB add the carry to the operand first (`maths.cpp:957`): the carry out is lost where
  that wraps, and the half carry with it.  SBB takes the borrow off its operand, so that the
  difference is too large by two (`maths.cpp:813`; a comment at line 823 asks whether that is
  right).
- NEG of a byte sets OF alone and leaves the other flags (`maths.cpp:1017`).
- DAA counts AH up, as AAA does, leaves AF alone, and misses the carry where correcting the
  low digit wraps.
- `op_add_rm8_imm8` reads a word where its operand is a byte.
- SAR of a wide operand by an immediate shifts only its low byte (`maths.cpp:1431`), for SP
  to DI one of AH to BH.
- RCL and RCR of 8 and 16 bits take the count modulo 8 and 16, where the ring has 9 and
  17 bits, and 16-bit RCR always clears CF (`maths.cpp:727`).
- SAR by more than the width leaves CF clear for negative operands as well.
- LOOP that does not jump skips the first byte behind it (`flow.cpp:103`).
- RETF and IRET continue one byte behind the address they pop (`flow.cpp:121`, `147`), and
  RETF leaves on the stack the zero a far call has pushed for CS.
- ENTER pushes the values of EBP at its nesting levels instead of what they point to, and sets
  ESP below the frame pointer so that locals overlap these links (`store.cpp:353`, `360`).
- PUSH of an immediate byte does not extend its sign (`store.cpp:124`).
- CALL through an operand pushes first and reads its operand then (`flow.cpp:168`), so
  that CALL ESP goes to the new top of the stack; POP moves ESP before it looks for an operand
  that is addressed by it, XCHG and DIV their registers (`store.cpp:282`, `maths.cpp:1055`).
- The group of opcode 82 steps over a word or dword where its immediate is a byte
  (`groups.cpp:144`, `opcode_def.h:42`).
- MOV to a segment register never reads its operand, nor its displacement.
- A SIB byte with base 5 and mod 0 adds neither a base nor the displacement of x86.
- The constructor of ModRM reads one byte more than the SIB byte (`modrm.cpp:221`), so that
  the last instruction before unmapped memory fails.
- The `eip--` of the undefined entries of groups (`groups.cpp:65`) is undone by the
  destructor of ModRM.
- DIV of a byte stores the remainder in AL over the quotient; of words and dwords it computes
  the remainder from the accumulator it has just overwritten (`maths.cpp:1043`, `1055`,
  `1065`).  DIV of a word takes its dividend for an int, and its quotient is wrong where
  that is negative; with a divisor addressed by the accumulator it may divide by 0.
- IDIV compares magnitudes, so that quotients of more than half the range raise no fault; of a
  byte it changes AX before its fault; its remainder is a magnitude.
- CF and OF after IMUL are those of the product's magnitude.
- String elements are addressed by the operand size, not the address size, and bytes step SI
  and DI in 16 bits always; LODS and OUTS move EDI too, STOS and SCAS ESI (`strings.cpp`).
- INS has taken its element from the device when memory fails; a snapshot loaded in the middle of
  a repetition sends to a device and takes from it a second time.

### Fairness

`MemoryBus` and `ExecLoop` assume weak fairness of the steps inside a call: a function
call runs on.  The host is not assumed to do anything.  `BusLock` assumes weak
fairness of each CPU's thread, which the operating system's scheduler provides; a
spinning thread makes no progress by itself, so no strong fairness is assumed.

## Proofs

Every theorem holds for all values of the constants that satisfy the named assumption of
the module.

- `BusProofs`, about `MemoryBus` and `BusLock`.  Of the former `AccessInv` is `TypeOK` and `AccessLedger` together: the type
  invariant is not inductive alone, as the number of bytes left stays positive only by the
  ledger and the order of `low` and `high`.  `NoneSwallowed`, `NothingPassedOver` and the
  action properties follow with invariants of their own.  `BusIsFlat` shows that each step of
  the bus is a step of `FlatMemory` or a stutter, under the premise `Separate`: disjoint windows,
  one for each device and no shorter than it, and no access that leaves its first window.
  The invariant is `Uncrossed`: under this premise a call never recurses, so
  that what is left of a running access is all of it.  Without the premise the theorem is
  false: two windows of a device are two views of its bytes, and a straddling access stops half
  done when its second window is missing.
  `OverrunBounded` counts the ranges whose end lies between the first address and the present
  one (`Behind`): `BehindGrows` shows that each advance past an end adds the range it leaves,
  and only there does the code's count become one too large.  The end of the space is never
  crossed: `StraddlingHead` shows that the recursion goes on at an address below `AddrMod`.
  Of `BusLock`, `LockInv` relates `pc`, `nest`, `held` and `busmaster` of each CPU
  (`Nesting`), and says that a CPU that acts as holder is one unless someone raced.
- `ExecLoopProofs`: `EngineInv` adds `OneLock` (at most one LOCK on the stack), which
  the code ensures by refusing LOCK while the memory is locked; without it `LockScope`
  is not inductive, because an inner LOCK would end the scope of an outer one.
  `InstructionInv` follows an instruction from its first prefix to its last handler: in
  `Fetching` the handlers that wait are exactly the prefixes between `beginEIP` and eip, in
  `Leaving` eip is at the next instruction, or back at `beginEIP` for a repetition that goes on.
  `PrefixesApply`, `StartsAtInstruction` and `RepCompletes` come from it; the last admits a
  comparison remembered from before the cycle (`stale`).
  `GasCounted` relates the cycles begun to the gas used.  They are about
  programs that consist of instructions, which `ProgramsAssembled` says of `prog.starts` and
  `prog.code`; an assembler makes no others.  The proofs found what such a
  program must not contain in addition, because the engine does not keep it apart: a prefix
  before the LOCK of an exchange or the REP of a RET (it is forgotten with
  the step back).
- `PayloadProofs`: `CodecInv` describes the compressed bytes through `trace`: a byte,
  or a zero and its run length, for each piece of the payload, in order.  The decoder's
  position in the trace then determines what it has written, which gives
  `RoundTrips` for payloads of any length.  For `Strict`, which compares the decoder with a recursive reading
  of the bytes, `StrictInv` says that up to byte `i` the two agree on what is a count; that the recursion has
  an answer for bytes of every length is shown by a least index that has none.
- `ArithProofs`: `ArithInv` joins the types with `ChainOK` (`LongResult`, and the types of the
  chain) and `UnsignedConditions`.  The steps are linear in the operands once the weight of the
  current operand and the carry are named.  `SignedConditions` needs more than the unsigned
  ones: `SmallBits` gives the sign of an operand as a comparison with half the range, and
  `SignAndOverflow` shows that after a subtraction SF differs from OF exactly when the first
  operand is less than the second.  `DecimalAdjust` is about two instructions: `Adjustable` keeps
  what the addition or subtraction has left in AL, CF and AF until the adjustment comes, and
  `AaaNumbers` to `DasNumbers` are the arithmetic of two digits of any base.  They need digits
  of more values than are decimal (`Ten < Nib`, 10 and 16 in the code): otherwise a digit
  and the carry that ADC takes in would leave their half of the byte.
  The same module proves the properties of `Shifter`, which need the same residues of one wrap;
  the two components have only the flags in common, and an invariant each.  `ShiftInv` of `Shifter` has three parts.
  `RingOK` says that the operand (with the carry) is what the ring began with, turned by its
  places: `TurnedBit` shows that two copies shifted apart are a turn, and `TurnOfTurn` that
  turns add up.  `LongOK` adds to `LongShift` that a shift to the right owes a carry of weight 1.
  `ShiftValue` is a fact about the last step alone, and rests on what indices have to do with numbers:
  the recursions `Power` and `LowBits` are shown to exist by a least length that has no solution,
  `SharedValue` says that two operands that agree on bits in a row, wherever they lie, agree on the number
  these stand for, and `Cut` that a number is what is below a bit and what is from it on.
  `LeftNumber`, `RightNumber`, `SignNumber`, `DoubleLeft` and `DoubleRight` are then the shifts
  themselves, for every width and every count, those past the width included.
- `FlowProofs`: `Held` says what is on the stack, and is inductive with the types: the frames
  are linked by their stack pointers, lie one below the other, at depths `from` to
  `to` under the place where the first begins, hold their values in memory, and those of
  arguments are dwords in a row (`Spaced`).  Places are compared by depth modulo `Half`,
  as SP wraps in its 64 KiB and ESP does not (`Alike`, `Deep`): as long as everything fits in `Half` bytes, a push at
  depth d leaves all bytes above it alone (`Keeps`).  Handlers that push or pop several times
  go through machines that are related to the first one after each push (`FramesStay`,
  `PopsMatchPushes`); where one of them fails the frames are forgotten, and only the types remain to be
  shown.  The levels of ENTER are a recursive function over 0 to 31, which is shown to exist by a
  least level that has none.
- `DecoderProofs`: everything about an instruction is a function of the phase it has come to.
  `IInv` says for each phase where eip is (`EipFits`), which bytes are known (`BytesFit`), that
  only the registers of `Torn` have changed while the handler can still throw (`Whole`),
  and what a call has pushed (`LinkFits`).  `Lengths` is the lemma that `GetLength` and the
  accessors agree.  It holds for every set of instructions, width of a byte and content of memory.
  For `OperandPlace` the invariant is `PlaceInv`: while the handler runs, the registers of the address
  are what they were before the instruction, or the instruction is one that changes them (`Steady`),
  and what it has found is where `Address` says (`Found`).  `PlaceIs` shows that the
  accessors of ModRM, in their three tables, compute that address.
- `MulDivProofs`: `Inv` is the types, `Products` and `Quotients`, each of which is a fact
  about the last step alone; the work is in the arithmetic of magnitudes and halves for any
  modulus, whose products of symbols are stated as lemmas of their own.  `Undone` rests on `Kept`, what the
  accumulator still holds after an extension or AAM and before the step that undoes it.
- `StringsProofs`: `StringsInv` adds to the types that the registers agree with the number of
  elements done (`Going`), and that those of a snapshot of the same instruction do (`Back`): without
  the latter a load would not keep the former.  `Ends`, `MovesBlock` and `Streams` are about what these
  elements were, and have invariants of their own (`Quiet`, `Covered` and `Block`, `Stream`), which speak of
  the elements before `done` or `reach` one by one.  A step adds one element, and `Apart`
  and `OnElement` show that it touches none of the others as long as the block does not wrap;
  this needs a range of an even number of bytes (`Half % 2 = 0`), as an element
  of a word would otherwise wrap into the middle of another.

Proved without a run of their own are the types of all these modules, that Add leaves older
routes as they were and that only a RAM device which serves an address changes (`AddKeepsRoutes`,
`OnlyServingRamChanges` of `MemoryBus`), and that a locked memory has a holder
(`LockedHasHolder` of `BusLock`).

Only model-checked is liveness (`CallsReturn`, `ExecReturns`, `LockReleased`), which is beyond the
prover, and with it that `FlatSpec` answers each request.

## Not modelled

- The parity flag and segment registers: no property of the modules depends on them.
- The port space: no part of it interacts with others; `Remove` and `RangeFree` are declared
  and never defined, so what is left is a list that grows, by an allocation of
  `sizeof(DeviceRange_t)*count+1` bytes (`device_manager.cpp:234`), and a search in it.
- ELF loader, testbench, tests: file and console I/O, and code that only drives the rest.
  The loader is one pass over a file; the JMP it inserts does not account for its own five
  bytes (`elfloader.cpp:143`).
- PUSHF and POPF; the values of operands in memory of pushes, calls and jumps, which `Flow`
  takes from a register (where `Decoder` looks for them is modelled).
- Calls of `Int` or `Stop` from another thread while Exec runs.  `ExecLoop` lets the host
  act between calls and inside callbacks.
- The C++ stack: prefix handlers nest without limit, `PrefixCount` is never counted.

## Plan

1. Done: address space, engine with prefixes, bus lock, codec.
2. Done: arithmetic and conditions (`Arith`), shifts and rotates (`Shifter`), control
   flow and stack (`Flow`).
3. Done: multiplication and division (`MulDiv`), addressing forms and instruction length
   (`Decoder`), string instructions (`Strings`).
4. Done: proofs of the safety properties.
5. `Ports`: first match, containment check of Add, the growing array; an asynchronous host
   for `ExecLoop`: `Int` and `Stop` from another thread.
