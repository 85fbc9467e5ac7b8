------------------------------- MODULE BusLock -------------------------------
(***************************************************************************)
(* The bus lock of a memory that several x86CPUs share, each run by a      *)
(* thread of its own (the X86_MULTITHREADING build): MemorySystem::Lock,   *)
(* Unlock and WaitLock (include/x86lib.h), x86CPU::Lock and Unlock         *)
(* (vm/x86lib.cpp), and the two ways an instruction comes to hold the lock,*)
(* the LOCK prefix (vm/ops/etc.cpp) and XCHG with memory                   *)
(* (vm/ops/store.cpp).                                                     *)
(*                                                                         *)
(* `locked` is a volatile integer with no atomic operation on it: a step   *)
(* is one load or one store of it, or one access of the memory.  The memory*)
(* is one cell; INC reads and writes it, XCHG swaps it with a register.    *)
(*                                                                         *)
(* A definition marked "Slip" is a mistake one could make here; the        *)
(* specification does not use it.                                          *)
(***************************************************************************)
EXTENDS Integers

CONSTANTS
  CPU,     \* the CPUs of the machine
  Insns,   \* the instructions the program has
  Modulus, \* number of values of the cell
  CanFault \* whether the device of the cell may throw

Locking == {"xchg", "lock inc", "lock xchg"}

ASSUME LockAssumption ==
  /\ Insns \subseteq {"inc"} \cup Locking
  /\ Modulus \in Nat \ {0}
  /\ CanFault \in BOOLEAN

Value == 0 .. Modulus - 1

VARIABLES
  locked,    \* MemorySystem::locked
  cell,      \* the memory
  busmaster, \* x86CPU::busmaster
  pc,        \* where the thread of a CPU is
  insn,      \* the instruction it executes
  nest,      \* calls of Lock the instruction has still to undo
  tmp,       \* the value it has read
  held,      \* history: the CPU has stored 1 to locked, and not yet 0
  seen,      \* history: the value of locked its last test let pass
  faulted,   \* history: an exception left a handler that held the lock
  raced      \* history: a CPU went on after a test that was no longer true

machine == <<locked, cell>>
history == <<held, seen, faulted, raced>>
lockVars == <<machine, busmaster, pc, insn, nest, tmp, history>>

LockInit ==
  /\ locked = FALSE /\ cell = 0
  /\ busmaster = [c \in CPU |-> FALSE]
  /\ pc = [c \in CPU |-> "fetch"]
  /\ insn \in [CPU -> Insns]
  /\ nest = [c \in CPU |-> 0]
  /\ tmp = [c \in CPU |-> 0]
  /\ held = [c \in CPU |-> FALSE]
  /\ seen = [c \in CPU |-> FALSE]
  /\ faulted = [c \in CPU |-> FALSE]
  /\ raced = FALSE

Goto(c, label) == pc' = [pc EXCEPT ![c] = label]

\* What the CPU is about to do was allowed by a test that would fail now.
Stale(c) == locked /\ ~ seen[c]

\* Slip: WaitLock waits for nobody.
WaitLockNever(c) == seen' = [seen EXCEPT ![c] = locked]

\* WaitLock(busmaster), in front of each access.
WaitLock(c) ==
  /\ busmaster[c] \/ ~ locked
  /\ seen' = [seen EXCEPT ![c] = locked]

-----------------------------------------------------------------------------
(* Fetching an instruction.  A handler that takes the lock first calls     *)
(* Lock; the others access the memory.                                     *)

Fetch(c) ==
  /\ pc[c] = "fetch"
  /\ WaitLock(c)
  /\ \E x \in Insns : /\ insn' = [insn EXCEPT ![c] = x]
                      /\ Goto(c, IF x \in Locking THEN "test" ELSE "wait read")
  /\ UNCHANGED <<machine, busmaster, nest, tmp, held, faulted, raced>>

-----------------------------------------------------------------------------
(* x86CPU::Lock: MemorySystem::Lock, then busmaster = 1.                   *)

\* Slip: the loop is left whatever locked is.
TestOnce(c) ==
  /\ pc[c] = "test"
  /\ seen' = [seen EXCEPT ![c] = locked]
  /\ Goto(c, "set")
  /\ UNCHANGED <<machine, busmaster, insn, nest, tmp, held, faulted, raced>>

\* The load that ends the loop.
Test(c) ==
  /\ pc[c] = "test"
  /\ ~ locked
  /\ seen' = [seen EXCEPT ![c] = locked]
  /\ Goto(c, "set")
  /\ UNCHANGED <<machine, busmaster, insn, nest, tmp, held, faulted, raced>>

Set(c) ==
  /\ pc[c] = "set"
  /\ raced' = (raced \/ Stale(c))
  /\ locked' = TRUE
  /\ held' = [held EXCEPT ![c] = TRUE]
  /\ Goto(c, "own")
  /\ UNCHANGED <<cell, busmaster, insn, nest, tmp, seen, faulted>>

\* XCHG behind a LOCK prefix calls Lock once more.
Own(c) ==
  /\ pc[c] = "own"
  /\ busmaster' = [busmaster EXCEPT ![c] = TRUE]
  /\ nest' = [nest EXCEPT ![c] = @ + 1]
  /\ Goto(c, IF insn[c] = "lock xchg" /\ nest[c] = 0 THEN "test" ELSE "wait read")
  /\ UNCHANGED <<machine, insn, tmp, history>>

-----------------------------------------------------------------------------
(* The accesses of the handler.                                            *)

Wait(c) ==
  /\ \/ pc[c] = "wait read" /\ Goto(c, "read")
     \/ pc[c] = "wait write" /\ Goto(c, "write")
  /\ WaitLock(c)
  /\ UNCHANGED <<machine, busmaster, insn, nest, tmp, held, faulted, raced>>

StaleAccess(c) == Stale(c) /\ ~ busmaster[c]

Read(c) ==
  /\ pc[c] = "read"
  /\ raced' = (raced \/ StaleAccess(c))
  /\ tmp' = [tmp EXCEPT ![c] = cell]
  /\ Goto(c, "wait write")
  /\ UNCHANGED <<machine, busmaster, insn, nest, held, seen, faulted>>

\* What the instruction writes: INC what it read and one, XCHG the register.
Results(c) == IF insn[c] \in {"xchg", "lock xchg"} THEN Value ELSE {(tmp[c] + 1) % Modulus}

\* Slip: the handler returns without Unlock.
WriteAndReturn(c) ==
  /\ pc[c] = "write"
  /\ raced' = (raced \/ StaleAccess(c))
  /\ cell' \in Results(c)
  /\ Goto(c, "fetch")
  /\ nest' = [nest EXCEPT ![c] = 0]
  /\ UNCHANGED <<locked, busmaster, insn, tmp, held, seen, faulted>>

Write(c) ==
  /\ pc[c] = "write"
  /\ raced' = (raced \/ StaleAccess(c))
  /\ cell' \in Results(c)
  /\ Goto(c, IF nest[c] > 0 THEN "clear" ELSE "fetch")
  /\ UNCHANGED <<locked, busmaster, insn, nest, tmp, held, seen, faulted>>

\* The device throws: no handler between here and Exec undoes a Lock.
Fault(c) ==
  /\ CanFault /\ pc[c] \in {"read", "write"}
  /\ faulted' = [faulted EXCEPT ![c] = @ \/ nest[c] > 0]
  /\ nest' = [nest EXCEPT ![c] = 0]
  /\ Goto(c, "fetch")
  /\ UNCHANGED <<machine, busmaster, insn, tmp, held, seen, raced>>

-----------------------------------------------------------------------------
(* x86CPU::Unlock: MemorySystem::Unlock, then busmaster = 0.               *)

Clear(c) ==
  /\ pc[c] = "clear"
  /\ locked' = FALSE
  /\ held' = [held EXCEPT ![c] = FALSE]
  /\ Goto(c, "disown")
  /\ UNCHANGED <<cell, busmaster, insn, nest, tmp, seen, faulted, raced>>

Disown(c) ==
  /\ pc[c] = "disown"
  /\ busmaster' = [busmaster EXCEPT ![c] = FALSE]
  /\ nest' = [nest EXCEPT ![c] = @ - 1]
  /\ Goto(c, IF nest[c] > 1 THEN "clear" ELSE "fetch")
  /\ UNCHANGED <<machine, insn, tmp, history>>

-----------------------------------------------------------------------------

LockStep(c) ==
  \/ Fetch(c) \/ Test(c) \/ Set(c) \/ Own(c)
  \/ Wait(c) \/ Read(c) \/ Write(c) \/ Fault(c)
  \/ Clear(c) \/ Disown(c)

LockNext == \E c \in CPU : LockStep(c)

\* The operating system runs every thread that has something to do.
LockFairness == \A c \in CPU : WF_lockVars(LockStep(c))

LockSpec == LockInit /\ [][LockNext]_lockVars
FairSpec == LockSpec /\ LockFairness

-----------------------------------------------------------------------------

Labels == {"fetch", "test", "set", "own", "wait read", "read", "wait write", "write",
           "clear", "disown"}

LockTypeOK ==
  /\ locked \in BOOLEAN /\ cell \in Value
  /\ busmaster \in [CPU -> BOOLEAN]
  /\ pc \in [CPU -> Labels]
  /\ insn \in [CPU -> Insns]
  /\ nest \in [CPU -> 0 .. 2]
  /\ tmp \in [CPU -> Value]
  /\ held \in [CPU -> BOOLEAN] /\ seen \in [CPU -> BOOLEAN]
  /\ faulted \in [CPU -> BOOLEAN] /\ raced \in BOOLEAN

\* A locked memory has been locked by a CPU that has not unlocked it: whatever races,
\* faults and nested locks there were, the lock never stays behind on its own.
LockedHasHolder == locked => \E c \in CPU : held[c]

\* No two CPUs hold the lock, unless one of them stored to locked after another had
\* done so behind its test: the gap between the two halves of Lock is the only hole.
ExclusiveUnlessRaced ==
  ~ raced => \A c, d \in CPU : held[c] /\ held[d] => c = d

\* What a holder has read is still in the memory when it writes, unless somebody went
\* on after a test that no longer held: the gap between WaitLock and the access is the
\* only other hole.
LockedIsAtomic ==
  ~ raced => \A c \in CPU :
               held[c] /\ pc[c] \in {"wait write", "write"} => tmp[c] = cell

\* The CPU that waits in Lock is the one that holds the lock.
WaitsForItself(c) == pc[c] = "test" /\ held[c]

\* The lock is released, unless an exception left its holder's handler or its holder
\* waits for itself.
LockReleased ==
  locked ~> (~ locked \/ \E c \in CPU : (held[c] /\ faulted[c]) \/ WaitsForItself(c))

=============================================================================
