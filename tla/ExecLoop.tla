------------------------------ MODULE ExecLoop ------------------------------
(***************************************************************************)
(* The execution engine of one x86CPU in the single-threaded build         *)
(* (vm/x86lib.cpp, vm/ops/etc.cpp, vm/ops/strings.cpp, the locked exchange *)
(* of vm/ops/store.cpp): Exec and Cycle, the gas meter, Stop, interrupts,  *)
(* the prefixes as nested calls of the handlers of the opcodes behind      *)
(* them, REP, the bus lock, and every way an exception leaves Exec.        *)
(*                                                                         *)
(* A prefix handler calls the handler of the next byte and cleans up when  *)
(* that returns; an exception skips the clean-up.  frames is the stack of  *)
(* the handlers that wait for such a return.  Every dispatch and every     *)
(* return is one step.  An opcode is a class of opcodes with the same      *)
(* effect on this state; operands and results of ordinary instructions     *)
(* are left out.                                                           *)
(*                                                                         *)
(* A definition marked "Slip" is a mistake one could make here; the        *)
(* specification does not use it.                                          *)
(***************************************************************************)
EXTENDS Integers, Sequences

CONSTANTS
  Programs,  \* programs, [code |-> sequence of bytes, starts |-> the addresses
             \*   at which an assembler put an instruction]; addresses from 1
  MaxECX,    \* largest value loaded into ECX (bound)
  CXMod,     \* ECX modulo this is CX (2^16)
  MaxCycles, \* largest cycle count the host passes to Exec (bound)
  MaxGas,    \* largest gas limit the host sets (bound)
  MaxUsed    \* the host stops calling Exec at this gas use (bound)

Ordinary  == {"nop", "movi", "setcx", "mem", "ret", "cli", "sti", "out"}
StringOps == {"string", "cmps"}
Faulting  == {"hlt", "unk", "undev", "opna"}
RepBytes  == {"F2", "F3"}
PrefixBytes == {"66", "67", "F0"} \cup RepBytes
Bytes     == Ordinary \cup StringOps \cup Faulting \cup PrefixBytes \cup {"xchg"}

ASSUME ExecAssumption ==
  /\ \A p \in Programs : /\ p.code \in Seq(Bytes)
                         /\ p.starts \subseteq 1 .. Len(p.code) + 1
                         /\ 1 \in p.starts
  /\ MaxECX \in Nat /\ CXMod \in Nat \ {0}
  /\ MaxCycles \in Nat \ {0} /\ MaxGas \in Nat /\ MaxUsed \in Nat

\* Nothing but prefixes stands in front of k in the instruction at b.
Ahead(p, b, k) ==
  \A i \in b .. k - 1 : p.code[i] \in PrefixBytes /\ (i > b => i \notin p.starts)

\* A LOCK does not apply to another LOCK nor to an exchange, which lock by themselves, and
\* a repetition not to RET.
Splits(p, b, k) ==
  \/ p.code[k] \in {"F0", "xchg"} /\ \E i \in b .. k - 1 : p.code[i] = "F0"
  \/ p.code[k] = "ret" /\ k > b /\ p.code[k - 1] \in RepBytes

Behind(p, k) == IF p.code[k] = "movi" THEN k + 2 ELSE k + 1

\* starts is what the assembler says: an instruction is its prefixes and its opcode with the
\* immediate byte; a prefix that does not apply is an instruction of its own, and no other
\* prefix stands in front of it, since the engine would forget it.
Assembled(p) ==
  \A b \in p.starts : \A k \in b .. Len(p.code) :
    Ahead(p, b, k) =>
      /\ k > b => (k \in p.starts <=> Splits(p, b, k))
      /\ Splits(p, b, k) => k = b + 1
      /\ p.code[k] \notin PrefixBytes /\ ~ Splits(p, b, k) =>
           \/ Behind(p, k) > Len(p.code) + 1
           \/ Behind(p, k) \in p.starts /\ (p.code[k] = "movi" => k + 1 \notin p.starts)

ASSUME ProgramsAssembled == \A p \in Programs : Assembled(p)

VARIABLES
  prog,            \* the program in the code ROM
  pc,              \* where Exec is: "host" when it is not running
  cyc,             \* cycles it has still to run
  frames,          \* prefix handlers waiting for the handler they called
  outcome,         \* how the last Exec ended
  eip, beginEIP,
  ecx, zf, iflag,  \* ECX and the zero and interrupt flags
  OperandSize16, AddressSize16, string_compares,
  int_pending, nmi, \* a pending interrupt; whether its number is 2
  gasUsed, gasLimit,
  DoStop,
  locked, busmaster, \* MemorySystem::locked; this CPU believes it holds it
  saved,             \* the host's x86SaveData, and what it does not hold
  begun,             \* history: cycles begun since Reset or LoadState
  stale              \* history: string_compares when the last cycle began

regs  == <<ecx, zf, iflag>>
flags16 == <<OperandSize16, AddressSize16>>
ints  == <<int_pending, nmi>>
gas   == <<gasUsed, gasLimit>>
lock  == <<locked, busmaster>>
history == <<begun, stale>>
vars  == <<prog, pc, cyc, frames, outcome, eip, beginEIP, regs, flags16,
           string_compares, ints, gas, DoStop, lock, saved, history>>

Nothing == [eip |-> 0]

Snapshot == [eip : Int, ecx : Int, zf : BOOLEAN, iflag : BOOLEAN]

Init ==
  /\ prog \in Programs
  /\ pc = "host" /\ cyc = 0 /\ frames = << >> /\ outcome = "ok"
  /\ eip = 1 /\ beginEIP = 1
  /\ ecx = 0 /\ zf = FALSE /\ iflag = FALSE
  /\ OperandSize16 = FALSE /\ AddressSize16 = FALSE /\ string_compares = FALSE
  /\ int_pending = FALSE /\ nmi = FALSE
  /\ gasUsed = 0 /\ gasLimit = 0
  /\ DoStop = FALSE
  /\ locked = FALSE /\ busmaster = FALSE
  /\ saved = Nothing
  /\ begun = 0 /\ stale = FALSE

-----------------------------------------------------------------------------
(* The host between two calls of Exec.                                     *)

\* A CPUFaultException is fatal, and the exceptions thrown as pointers are not
\* the CPU's: after any of them the host resets or reloads the CPU.
Faulted == outcome # "ok"

Exec(n) ==
  /\ pc = "host" /\ ~ Faulted /\ gasUsed < MaxUsed
  /\ pc' = "top" /\ cyc' = n
  /\ UNCHANGED <<prog, frames, outcome, eip, beginEIP, regs, flags16, string_compares,
                 ints, gas, DoStop, lock, saved, history>>

RaiseInt(isNMI) ==
  /\ pc = "host"
  /\ int_pending' = TRUE /\ nmi' = isNMI
  /\ UNCHANGED <<prog, pc, cyc, frames, outcome, eip, beginEIP, regs, flags16,
                 string_compares, gas, DoStop, lock, saved, history>>

setGasLimit(limit) ==
  /\ pc = "host"
  /\ gasLimit' = limit
  /\ UNCHANGED <<prog, pc, cyc, frames, outcome, eip, beginEIP, regs, flags16,
                 string_compares, ints, gasUsed, DoStop, lock, saved, history>>

\* A Stop between two calls ends the next one after one cycle.
Stop ==
  /\ pc = "host"
  /\ DoStop' = TRUE
  /\ UNCHANGED <<prog, pc, cyc, frames, outcome, eip, beginEIP, regs, flags16,
                 string_compares, ints, gas, lock, saved, history>>

\* Reset gives up the bus without unlocking the memory.
ResetParts ==
  /\ busmaster' = FALSE /\ UNCHANGED locked
  /\ OperandSize16' = FALSE /\ AddressSize16' = FALSE /\ string_compares' = FALSE
  /\ int_pending' = FALSE
  /\ gasUsed' = 0 /\ gasLimit' = 0
  /\ DoStop' = FALSE
  /\ outcome' = "ok"
  /\ begun' = 0 /\ stale' = FALSE
  /\ UNCHANGED <<prog, pc, cyc, frames, beginEIP, nmi>>

Reset ==
  /\ pc = "host"
  /\ ResetParts
  /\ eip' = 1 /\ ecx' = 0 /\ zf' = FALSE /\ iflag' = FALSE
  /\ UNCHANGED saved

\* A pending interrupt and the gas counters are not saved.
SaveState ==
  /\ pc = "host" /\ ~ Faulted
  /\ saved' = [eip |-> eip, ecx |-> ecx, zf |-> zf, iflag |-> iflag]
  /\ UNCHANGED <<prog, pc, cyc, frames, outcome, eip, beginEIP, regs, flags16,
                 string_compares, ints, gas, DoStop, lock, history>>

LoadState ==
  /\ pc = "host" /\ saved # Nothing
  /\ ResetParts
  /\ eip' = saved.eip /\ ecx' = saved.ecx /\ zf' = saved.zf /\ iflag' = saved.iflag
  /\ UNCHANGED saved

Host ==
  \/ \E n \in 1 .. MaxCycles : Exec(n)
  \/ \E isNMI \in BOOLEAN : RaiseInt(isNMI)
  \/ \E limit \in 0 .. MaxGas : setGasLimit(limit)
  \/ Stop \/ Reset \/ SaveState \/ LoadState

-----------------------------------------------------------------------------
(* Leaving Exec.                                                           *)

Return(how) ==
  /\ pc' = "host" /\ cyc' = 0 /\ frames' = << >> /\ outcome' = how

\* What an exception thrown in a handler becomes on its way out of Exec: those
\* thrown by value are caught there, those thrown as pointers are not.
Thrown == {"CPUFaultException", "MemoryException*", "CpuInt_excp*"}

\* No handler on the stack cleans up.
Throw(what) ==
  /\ Return(what)
  /\ UNCHANGED <<prog, beginEIP, ints, gas, DoStop, flags16, saved, history>>

\* An access of the guest that is not served: no range contains the address, or
\* the device behind it refuses.
AccessFailure == {"CPUFaultException", "MemoryException*"}

-----------------------------------------------------------------------------
(* One iteration of the loop in Exec up to the dispatch of the opcode.     *)

gasExceeded == gasUsed > gasLimit

OutOfGas == gasLimit # 0 /\ gasExceeded

LeaveExec ==
  /\ pc = "top"
  /\ cyc = 0 \/ OutOfGas
  /\ Return("ok")
  /\ UNCHANGED <<prog, eip, beginEIP, regs, flags16, string_compares, ints, gas,
                 DoStop, lock, saved, history>>

GoesOn == pc = "top" /\ cyc > 0 /\ ~ OutOfGas

\* CheckInterrupts steps eip back and calls Int16, which always throws.
InterruptDue == int_pending /\ (nmi \/ iflag)

TakeInterrupt ==
  /\ GoesOn /\ InterruptDue
  /\ eip' = eip - 1
  /\ Throw("CPUFaultException")
  /\ UNCHANGED <<regs, string_compares, lock>>

\* WaitLock: while(locked>0){} unless this CPU is the bus master.
Blocked == locked /\ ~ busmaster

Spins == GoesOn /\ ~ InterruptDue /\ Blocked

Spin == Spins /\ UNCHANGED vars

StartCycle ==
  /\ GoesOn /\ ~ InterruptDue /\ ~ Blocked
  /\ pc' = "dispatch" /\ beginEIP' = eip
  /\ begun' = begun + 1 /\ stale' = string_compares
  /\ UNCHANGED <<prog, cyc, frames, outcome, eip, regs, flags16, string_compares,
                 ints, gas, DoStop, lock, saved>>

-----------------------------------------------------------------------------
(* Dispatch: the handler of the byte at eip.                               *)

Code == prog.code
InCode(a) == a \in 1 .. Len(Code)

At(class) == pc = "dispatch" /\ InCode(eip) /\ Code[eip] \in class

FetchFails ==
  /\ pc = "dispatch" /\ ~ InCode(eip)
  /\ \E how \in AccessFailure : Throw(how)
  /\ UNCHANGED <<eip, regs, string_compares, lock>>

\* The handler returns to its caller.
HandlerReturns ==
  /\ pc' = "unwind"
  /\ UNCHANGED <<prog, cyc, frames, outcome, beginEIP, ints, gas, flags16, saved, history>>

Nop ==
  /\ At({"nop"})
  /\ HandlerReturns
  /\ UNCHANGED <<eip, regs, string_compares, DoStop, lock>>

\* An instruction with one immediate byte.
MovImm ==
  /\ At({"movi"})
  /\ IF InCode(eip + 1)
     THEN eip' = eip + 1 /\ HandlerReturns /\ UNCHANGED DoStop
     ELSE \E how \in AccessFailure : Throw(how) /\ UNCHANGED eip
  /\ UNCHANGED <<regs, string_compares, lock>>

SetECX ==
  /\ At({"setcx"})
  /\ ecx' \in 0 .. MaxECX
  /\ HandlerReturns
  /\ UNCHANGED <<eip, zf, iflag, string_compares, DoStop, lock>>

SetIF ==
  /\ At({"cli", "sti"})
  /\ iflag' = (Code[eip] = "sti")
  /\ HandlerReturns
  /\ UNCHANGED <<eip, ecx, zf, string_compares, DoStop, lock>>

\* An access to data, which may set the zero flag.
DataAccess ==
  /\ At({"mem"})
  /\ \/ HandlerReturns /\ zf' \in BOOLEAN /\ UNCHANGED DoStop
     \/ \E how \in AccessFailure : Throw(how) /\ UNCHANGED zf
  /\ UNCHANGED <<eip, ecx, iflag, string_compares, lock>>

\* RET pops the address of some instruction; Cycle steps over one byte behind it.
Ret ==
  /\ At({"ret"})
  /\ \/ HandlerReturns /\ (\E a \in prog.starts : eip' = a - 1) /\ UNCHANGED DoStop
     \/ \E how \in AccessFailure : Throw(how) /\ UNCHANGED eip
  /\ UNCHANGED <<regs, string_compares, lock>>

\* OUT, and INT but for its immediate byte: a call of the host, which may call Stop or Int.
CallHost ==
  /\ At({"out"})
  /\ pc' = "unwind"
  /\ \/ DoStop' \in {DoStop, TRUE} /\ UNCHANGED ints
     \/ int_pending' = TRUE /\ nmi' \in BOOLEAN /\ UNCHANGED DoStop
  /\ UNCHANGED <<prog, cyc, frames, outcome, eip, beginEIP, regs, flags16,
                 string_compares, gas, lock, saved, history>>

\* HLT, undefined opcodes, coprocessor opcodes (CpuInt_excp by value, for which
\* the handler in Exec calls Int16) and the holes of the group tables.
Fault ==
  /\ At(Faulting)
  /\ IF Code[eip] = "hlt" /\ iflag
     THEN HandlerReturns /\ UNCHANGED DoStop
     ELSE Throw(IF Code[eip] = "opna" THEN "CpuInt_excp*" ELSE "CPUFaultException")
  /\ UNCHANGED <<eip, regs, string_compares, lock>>

\* Slip: the address-size handler forgets its flag.
OverrideOperandOnly ==
  /\ At({"66", "67"})
  /\ eip' = eip + 1
  /\ OperandSize16' = (OperandSize16 \/ Code[eip] = "66")
  /\ UNCHANGED AddressSize16
  /\ frames' = Append(frames, Code[eip])
  /\ UNCHANGED <<prog, pc, cyc, outcome, beginEIP, regs, string_compares, ints, gas,
                 DoStop, lock, saved, history>>

\* op_operand_override and op_address_override.
Override ==
  /\ At({"66", "67"})
  /\ eip' = eip + 1
  /\ OperandSize16' = (OperandSize16 \/ Code[eip] = "66")
  /\ AddressSize16' = (AddressSize16 \/ Code[eip] = "67")
  /\ frames' = Append(frames, Code[eip])
  /\ UNCHANGED <<prog, pc, cyc, outcome, beginEIP, regs, string_compares, ints, gas,
                 DoStop, lock, saved, history>>

\* A handler that needs the lock steps eip back when somebody holds it.
Retry ==
  /\ At({"F0", "xchg"}) /\ locked
  /\ eip' = eip - 1
  /\ HandlerReturns
  /\ UNCHANGED <<regs, string_compares, DoStop, lock>>

Lock ==
  /\ At({"F0"}) /\ ~ locked
  /\ locked' = TRUE /\ busmaster' = TRUE
  /\ eip' = eip + 1
  /\ frames' = Append(frames, "F0")
  /\ UNCHANGED <<prog, pc, cyc, outcome, beginEIP, regs, flags16, string_compares,
                 ints, gas, DoStop, saved, history>>

\* XCHG locks by itself around its two accesses; one that fails leaves the lock.
Xchg ==
  /\ At({"xchg"}) /\ ~ locked
  /\ \/ HandlerReturns /\ UNCHANGED <<DoStop, lock>>
     \/ /\ \E how \in AccessFailure : Throw(how)
        /\ locked' = TRUE /\ busmaster' = TRUE
  /\ UNCHANGED <<eip, regs, string_compares>>

\* MOVS, LODS, STOS, INS, OUTS.
StringOp ==
  /\ At({"string"})
  /\ \/ HandlerReturns /\ UNCHANGED DoStop
     \/ \E how \in AccessFailure : Throw(how)
  /\ UNCHANGED <<eip, regs, string_compares, lock>>

\* CMPS and SCAS look at the byte in front of them.
CompareOp ==
  /\ At({"cmps"})
  /\ \/ /\ ~ InCode(eip - 1)
        /\ \E how \in AccessFailure : Throw(how)
        /\ UNCHANGED <<zf, string_compares>>
     \/ /\ InCode(eip - 1)
        /\ string_compares' = (string_compares \/ Code[eip - 1] \in RepBytes)
        /\ \/ HandlerReturns /\ zf' \in BOOLEAN /\ UNCHANGED DoStop
           \/ \E how \in AccessFailure : Throw(how) /\ UNCHANGED zf
  /\ UNCHANGED <<eip, ecx, iflag, lock>>

\* CX or ECX, by the address size at this moment.
counter == IF AddressSize16 THEN ecx % CXMod ELSE ecx

Rep ==
  /\ At(RepBytes)
  /\ \/ /\ ~ InCode(eip + 1)
        /\ \E how \in AccessFailure : Throw(how)
        /\ UNCHANGED eip
     \/ /\ InCode(eip + 1) /\ Code[eip + 1] = "ret"
        /\ HandlerReturns /\ UNCHANGED <<eip, DoStop>>
     \/ /\ InCode(eip + 1) /\ Code[eip + 1] \notin StringOps \cup {"ret"}
        /\ eip' = eip + 1 /\ Throw("CPUFaultException")
     \/ /\ InCode(eip + 1) /\ Code[eip + 1] \in StringOps
        /\ eip' = eip + 1
        /\ IF counter = 0
           THEN HandlerReturns
           ELSE /\ frames' = Append(frames, Code[eip])
                /\ UNCHANGED <<prog, pc, cyc, outcome, beginEIP, ints, gas, flags16, saved, history>>
        /\ UNCHANGED DoStop
  /\ UNCHANGED <<regs, string_compares, lock>>

Dispatch == FetchFails \/ Nop \/ MovImm \/ SetECX \/ SetIF \/ DataAccess \/ Ret
              \/ CallHost \/ Fault \/ Override \/ Retry \/ Lock \/ Xchg
              \/ StringOp \/ CompareOp \/ Rep

-----------------------------------------------------------------------------
(* The called handler has returned to the topmost frame.                   *)

Top == frames[Len(frames)]
Rest == SubSeq(frames, 1, Len(frames) - 1)

Returning(class) == pc = "unwind" /\ frames # << >> /\ Top \in class /\ frames' = Rest

\* Slip: the operand-size flag is not reset.
LeaveOverrideSticky ==
  /\ Returning({"66", "67"})
  /\ AddressSize16' = (AddressSize16 /\ Top # "67")
  /\ UNCHANGED <<prog, pc, cyc, outcome, eip, beginEIP, regs, OperandSize16,
                 string_compares, ints, gas, DoStop, lock, saved, history>>

LeaveOverride ==
  /\ Returning({"66", "67"})
  /\ OperandSize16' = (OperandSize16 /\ Top # "66")
  /\ AddressSize16' = (AddressSize16 /\ Top # "67")
  /\ UNCHANGED <<prog, pc, cyc, outcome, eip, beginEIP, regs, string_compares, ints,
                 gas, DoStop, lock, saved, history>>

\* Slip: the memory is unlocked but the CPU still believes it holds it.
LeaveLockHalf ==
  /\ Returning({"F0"})
  /\ locked' = FALSE
  /\ UNCHANGED <<prog, pc, cyc, outcome, eip, beginEIP, regs, flags16, string_compares,
                 ints, gas, DoStop, busmaster, saved, history>>

\* Slip: the CPU gives up the bus and leaves the memory locked.
LeaveLockKept ==
  /\ Returning({"F0"})
  /\ busmaster' = FALSE
  /\ UNCHANGED <<prog, pc, cyc, outcome, eip, beginEIP, regs, flags16, string_compares,
                 ints, gas, DoStop, locked, saved, history>>

LeaveLock ==
  /\ Returning({"F0"})
  /\ locked' = FALSE /\ busmaster' = FALSE
  /\ UNCHANGED <<prog, pc, cyc, outcome, eip, beginEIP, regs, flags16, string_compares,
                 ints, gas, DoStop, saved, history>>

\* Slip: the end conditions of REPZ and REPNZ swapped.
RepEndsSwapped == string_compares /\ (Top = "F3" <=> zf)

\* One repetition is over.  eip stands on the string opcode, one behind the REP;
\* unless a comparison ends the loop it goes back to the instruction's first byte.
RepEnds == string_compares /\ (Top = "F2" <=> zf)

\* Slip: eip goes back to the first byte, which Cycle then steps over.
LeaveRepShort ==
  /\ Returning(RepBytes)
  /\ ecx' = ecx - 1
  /\ eip' = IF RepEnds THEN eip ELSE beginEIP
  /\ string_compares' = FALSE
  /\ UNCHANGED <<prog, pc, cyc, outcome, beginEIP, zf, iflag, flags16, ints, gas,
                 DoStop, lock, saved, history>>

LeaveRep ==
  /\ Returning(RepBytes)
  /\ ecx' = ecx - 1
  /\ eip' = IF RepEnds THEN eip ELSE beginEIP - 1
  /\ string_compares' = FALSE
  /\ UNCHANGED <<prog, pc, cyc, outcome, beginEIP, zf, iflag, flags16, ints, gas,
                 DoStop, lock, saved, history>>

\* Slip: a cycle that a Stop ends is not charged.
EndCycleStopFree ==
  /\ pc = "unwind" /\ frames = << >>
  /\ eip' = eip + 1
  /\ DoStop' = FALSE
  /\ IF DoStop
     THEN Return("ok") /\ UNCHANGED gasUsed
     ELSE /\ pc' = "top" /\ cyc' = cyc - 1 /\ gasUsed' = gasUsed + 1
          /\ UNCHANGED <<frames, outcome>>
  /\ UNCHANGED <<prog, beginEIP, regs, flags16, string_compares, ints, gasLimit, lock,
                 saved, history>>

EndCycle ==
  /\ pc = "unwind" /\ frames = << >>
  /\ eip' = eip + 1
  /\ gasUsed' = gasUsed + 1
  /\ DoStop' = FALSE
  /\ IF DoStop
     THEN Return("ok")
     ELSE pc' = "top" /\ cyc' = cyc - 1 /\ UNCHANGED <<frames, outcome>>
  /\ UNCHANGED <<prog, beginEIP, regs, flags16, string_compares, ints, gasLimit, lock,
                 saved, history>>

Unwind == LeaveOverride \/ LeaveLock \/ LeaveRep \/ EndCycle

Running == LeaveExec \/ TakeInterrupt \/ Spin \/ StartCycle \/ Dispatch \/ Unwind

Next == Host \/ Running

\* Exec is called on the host's thread and runs until it returns or throws.
Spec == Init /\ [][Next]_vars /\ WF_vars(Running)

-----------------------------------------------------------------------------
(* What makes the engine correct.                                          *)

TypeOK ==
  /\ prog \in Programs
  /\ pc \in {"host", "top", "dispatch", "unwind"}
  /\ cyc \in 0 .. MaxCycles
  /\ pc \in {"dispatch", "unwind"} => cyc > 0
  /\ frames \in Seq(PrefixBytes)
  /\ pc \in {"host", "top"} => frames = << >>
  /\ outcome \in Thrown \cup {"ok"}
  /\ eip \in Int /\ beginEIP \in Int
  /\ ecx \in Int
  /\ zf \in BOOLEAN /\ iflag \in BOOLEAN /\ string_compares \in BOOLEAN
  /\ OperandSize16 \in BOOLEAN /\ AddressSize16 \in BOOLEAN
  /\ int_pending \in BOOLEAN /\ nmi \in BOOLEAN /\ DoStop \in BOOLEAN
  /\ locked \in BOOLEAN /\ busmaster \in BOOLEAN
  /\ gasUsed \in Nat /\ gasLimit \in Nat
  /\ saved \in Snapshot \cup {Nothing}
  /\ begun \in Nat /\ stale \in BOOLEAN

Waiting(p) == \E k \in 1 .. Len(frames) : frames[k] = p

\* The operand- and address-size flags belong to the prefix handler that set them:
\* set while the opcode behind the prefix runs, gone before the next instruction.
FlagScope ==
  /\ pc = "dispatch" => /\ OperandSize16 <=> Waiting("66")
                        /\ AddressSize16 <=> Waiting("67")
  /\ pc = "unwind" => /\ OperandSize16 => Waiting("66")
                      /\ AddressSize16 => Waiting("67")
  /\ pc = "top" => ~ OperandSize16 /\ ~ AddressSize16
  /\ pc = "host" /\ ~ Faulted => ~ OperandSize16 /\ ~ AddressSize16

\* While no exception is thrown the CPU is bus master exactly inside a LOCK prefix,
\* and then the memory is locked.
LockScope ==
  /\ pc \in {"dispatch", "unwind"} => (busmaster <=> Waiting("F0"))
  /\ pc = "top" \/ (pc = "host" /\ ~ Faulted) => ~ busmaster
  /\ busmaster => locked

\* Every cycle the CPU begins is charged once: one that completes, that repeats, that
\* only waits for the lock or that a Stop ends.  Only a cycle that throws goes free,
\* and the one that overdraws the limit is the last to begin.
GasCoversCycles ==
  /\ begun - gasUsed \in {0, 1}
  /\ pc = "top" \/ (pc = "host" /\ ~ Faulted) => begun = gasUsed
  /\ pc \in {"dispatch", "unwind"} /\ gasLimit # 0 => begun <= gasLimit + 1

\* The instruction at address b, as the assembler saw it, ends before End(b).
End(b) == CHOOSE e \in prog.starts : e > b /\ \A f \in prog.starts : f > b => e <= f

StartOf(a) == CHOOSE b \in prog.starts : b <= a /\ \A f \in prog.starts : f <= a => f <= b

PrefixesAt(a) == {Code[k] : k \in StartOf(a) .. a - 1}

\* An instruction takes effect under exactly the prefixes in front of it.
PrefixesApply ==
  pc = "dispatch" /\ InCode(eip) /\ Code[eip] \notin PrefixBytes =>
    /\ OperandSize16 <=> "66" \in PrefixesAt(eip)
    /\ AddressSize16 <=> "67" \in PrefixesAt(eip)
    /\ "F0" \in PrefixesAt(eip) => busmaster

\* Every cycle begins at an instruction of the program.
StartsAtInstruction ==
  pc = "top" => eip \in prog.starts

IsRep(b) == /\ b \in prog.starts /\ \E e \in prog.starts : e > b
            /\ End(b) - b >= 2
            /\ Code[End(b) - 1] \in StringOps /\ Code[End(b) - 2] \in RepBytes

CountOf(b) == IF "67" \in PrefixesAt(End(b) - 1) THEN ecx % CXMod ELSE ecx

\* A repeated string instruction is left only when its counter, as wide as its
\* address size, is used up or a comparison says so: one of its own, or one that was
\* still remembered when the cycle began: a CMPS or SCAS behind an immediate byte F2 or F3
\* is remembered as if it were repeated.
RepCompletes ==
  [][EndCycle /\ IsRep(beginEIP) =>
       LET e == End(beginEIP) IN
         /\ eip' \in {beginEIP, e}
         /\ eip' = e => \/ CountOf(beginEIP) = 0
                        \/ /\ Code[e - 1] = "cmps" \/ stale
                           /\ Code[e - 2] = "F2" <=> zf]_vars

\* Exec comes back to the host from wherever the memory is not locked against it,
\* since repetitions and retries count as cycles.
ExecReturns == (pc # "host" /\ ~ Blocked) ~> (pc = "host")

\* The waiting loop of WaitLock is never entered.
NeverWaits == ~ Spins

=============================================================================
