--------------------------- MODULE ExecLoopProofs ---------------------------
(***************************************************************************)
(* Proofs about ExecLoop, for every program and every host.                *)
(***************************************************************************)
EXTENDS ExecLoop, SequenceTheorems, WellFoundedInduction, TLAPS

-----------------------------------------------------------------------------
(* The stack of waiting handlers.                                          *)

\* Calling the handler behind prefix p makes exactly p wait in addition.
LEMMA PushWaits ==
  ASSUME NEW p \in PrefixBytes, frames \in Seq(PrefixBytes), frames' = Append(frames, p)
  PROVE  /\ frames' \in Seq(PrefixBytes)
         /\ \A q : Waiting(q)' <=> Waiting(q) \/ q = p
<1>1. /\ frames' \in Seq(PrefixBytes)
      /\ Len(frames') = Len(frames) + 1
      /\ \A i \in 1 .. Len(frames) : frames'[i] = frames[i]
      /\ frames'[Len(frames) + 1] = p
  BY AppendProperties
<1>2. Len(frames) \in Nat
  OBVIOUS
<1>3. ASSUME NEW q, Waiting(q)' PROVE Waiting(q) \/ q = p
  BY <1>1, <1>2, <1>3 DEF Waiting
<1>4. ASSUME NEW q, Waiting(q) \/ q = p PROVE Waiting(q)'
  BY <1>1, <1>2, <1>4 DEF Waiting
<1> QED
  BY <1>1, <1>3, <1>4

\* The stack below its topmost handler.
LEMMA RestShape ==
  ASSUME frames \in Seq(PrefixBytes), frames # << >>
  PROVE  /\ Len(frames) \in Nat /\ Len(frames) >= 1
         /\ Rest \in Seq(PrefixBytes)
         /\ Len(Rest) = Len(frames) - 1
         /\ \A i \in 1 .. Len(frames) - 1 : Rest[i] = frames[i]
<1>1. Len(frames) \in Nat /\ Len(frames) >= 1
  BY EmptySeq
<1>2. \A i \in 1 .. Len(frames) - 1 : frames[i] \in PrefixBytes
  BY <1>1, ElementOfSeq
<1> DEFINE n == Len(frames) - 1
<1>3. n \in Nat /\ 1 \in Int
  BY <1>1
<1> HIDE DEF n
<1>4. \A i \in 1 .. n : frames[i] \in PrefixBytes
  BY <1>2 DEF n
<1>5. /\ SubSeq(frames, 1, n) \in Seq(PrefixBytes)
      /\ Len(SubSeq(frames, 1, n)) = IF 1 <= n THEN n - 1 + 1 ELSE 0
      /\ \A i \in 1 .. n - 1 + 1 : SubSeq(frames, 1, n)[i] = frames[1 + i - 1]
  BY <1>3, <1>4, SubSeqProperties
<1>6. Len(SubSeq(frames, 1, n)) = n /\ \A i \in 1 .. n : SubSeq(frames, 1, n)[i] = frames[i]
  BY <1>3, <1>5
<1> QED
  BY <1>1, <1>5, <1>6 DEF Rest, n

\* The return to the topmost handler leaves the others waiting, and only those.
LEMMA PopWaits ==
  ASSUME frames \in Seq(PrefixBytes), frames # << >>, frames' = Rest
  PROVE  /\ frames' \in Seq(PrefixBytes)
         /\ Top \in PrefixBytes
         /\ \A q : Waiting(q)' => Waiting(q)
         /\ \A q : Waiting(q) /\ q # Top => Waiting(q)'
<1>1. Len(frames) \in Nat /\ Len(frames) >= 1
  BY RestShape
<1>2. /\ frames' \in Seq(PrefixBytes)
      /\ Len(frames') = Len(frames) - 1
      /\ \A i \in 1 .. Len(frames) - 1 : frames'[i] = frames[i]
  BY RestShape
<1>3. Top \in PrefixBytes
  <2>1. Len(frames) \in 1 .. Len(frames)
    BY <1>1
  <2> QED
    BY <2>1, ElementOfSeq DEF Top
<1>4. ASSUME NEW q, Waiting(q)' PROVE Waiting(q)
  BY <1>1, <1>2, <1>4 DEF Waiting
<1>5. ASSUME NEW q, Waiting(q), q # Top PROVE Waiting(q)'
  BY <1>1, <1>2, <1>5 DEF Waiting, Top
<1> QED
  BY <1>2, <1>3, <1>4, <1>5

LEMMA EmptyWaits ==
  ASSUME frames = << >>
  PROVE  \A q : ~ Waiting(q)
BY EmptySeq DEF Waiting

\* At most one LOCK prefix waits: the second one finds the memory locked.
OneLock ==
  \A i, j \in 1 .. Len(frames) : frames[i] = "F0" /\ frames[j] = "F0" => i = j

\* A call keeps it unless it is a LOCK inside a LOCK.
LEMMA PushOneLock ==
  ASSUME NEW p \in PrefixBytes, frames \in Seq(PrefixBytes), frames' = Append(frames, p),
         OneLock, p = "F0" => ~ Waiting("F0")
  PROVE  OneLock'
<1>1. /\ Len(frames') = Len(frames) + 1
      /\ \A i \in 1 .. Len(frames) : frames'[i] = frames[i]
      /\ frames'[Len(frames) + 1] = p
  BY AppendProperties
<1>2. Len(frames) \in Nat
  OBVIOUS
<1> QED
  BY <1>1, <1>2 DEF OneLock, Waiting

\* A return keeps it, and after the return to the LOCK none is left.
LEMMA PopOneLock ==
  ASSUME frames \in Seq(PrefixBytes), frames # << >>, frames' = Rest, OneLock
  PROVE  OneLock' /\ (Top = "F0" => ~ Waiting("F0")')
<1>1. Len(frames) \in Nat /\ Len(frames) >= 1
  BY RestShape
<1>2. /\ Len(frames') = Len(frames) - 1
      /\ \A i \in 1 .. Len(frames) - 1 : frames'[i] = frames[i]
  BY RestShape
<1>3. OneLock'
  BY <1>1, <1>2 DEF OneLock
<1>4. ASSUME Top = "F0" PROVE ~ Waiting("F0")'
  BY <1>1, <1>2, <1>4 DEF OneLock, Waiting, Top
<1> QED
  BY <1>3, <1>4

-----------------------------------------------------------------------------
(* What a handler does to the state of the engine, whatever the opcode.    *)

\* The part of the state that handlers leave to the loop and to the host.
LoopState == <<prog, beginEIP, gasUsed, gasLimit, saved, begun, stale>>

RegsTyped ==
  /\ eip \in Int /\ ecx \in Int
  /\ zf \in BOOLEAN /\ iflag \in BOOLEAN /\ string_compares \in BOOLEAN
  /\ DoStop \in BOOLEAN /\ int_pending \in BOOLEAN /\ nmi \in BOOLEAN

\* The handler returns: neither the prefixes nor the lock have changed.
Returns ==
  /\ pc' = "unwind"
  /\ UNCHANGED <<cyc, frames, outcome, OperandSize16, AddressSize16, locked, busmaster>>

\* The handler throws: the lock stays as it is or stays taken.
Throws ==
  /\ pc' = "host" /\ cyc' = 0 /\ frames' = << >> /\ outcome' \in Thrown
  /\ UNCHANGED <<OperandSize16, AddressSize16>>
  /\ UNCHANGED <<locked, busmaster>> \/ (locked' = TRUE /\ busmaster' = TRUE)

\* The handler is a prefix and calls the next one.
Calls(p) ==
  /\ frames' = Append(frames, p)
  /\ UNCHANGED <<pc, cyc, outcome>>
  /\ OperandSize16' = (OperandSize16 \/ p = "66")
  /\ AddressSize16' = (AddressSize16 \/ p = "67")
  /\ IF p = "F0" THEN locked = FALSE /\ locked' = TRUE /\ busmaster' = TRUE
                 ELSE UNCHANGED <<locked, busmaster>>

\* Each handler is of one of these kinds.
LEMMA DispatchKinds ==
  ASSUME TypeOK, Dispatch
  PROVE  /\ pc = "dispatch"
         /\ UNCHANGED LoopState
         /\ RegsTyped'
         /\ Returns \/ Throws \/ \E p \in PrefixBytes : Calls(p)
<1> USE DEF TypeOK, LoopState, RegsTyped, flags16, regs, ints, gas, lock, history,
            HandlerReturns, Throw, Return, At, AccessFailure, Thrown
<1>1. CASE FetchFails
  BY <1>1 DEF FetchFails, Throws
<1>2. CASE Nop
  BY <1>2 DEF Nop, Returns
<1>3. CASE MovImm
  <2>1. CASE InCode(eip + 1)
    BY <1>3, <2>1 DEF MovImm, Returns
  <2>2. CASE ~ InCode(eip + 1)
    BY <1>3, <2>2 DEF MovImm, Throws
  <2> QED
    BY <2>1, <2>2
<1>4. CASE SetECX
  <2>1. 0 .. MaxECX \subseteq Int
    BY ExecAssumption DEF ExecAssumption
  <2> QED
    BY <1>4, <2>1 DEF SetECX, Returns
<1>5. CASE SetIF
  BY <1>5 DEF SetIF, Returns
<1>6. CASE DataAccess
  BY <1>6 DEF DataAccess, Returns, Throws
<1>7. CASE Ret
  <2>1. \A a \in prog.starts : a - 1 \in Int
    BY ExecAssumption DEF ExecAssumption
  <2> QED
    BY <1>7, <2>1 DEF Ret, Returns, Throws
<1>8. CASE CallHost
  BY <1>8 DEF CallHost, Returns
<1>9. CASE Fault
  BY <1>9 DEF Fault, Returns, Throws
<1>10. CASE Override
  <2>1. Code[eip] \in PrefixBytes /\ Calls(Code[eip])
    BY <1>10 DEF Override, Calls, PrefixBytes
  <2> QED
    BY <1>10, <2>1 DEF Override
<1>11. CASE Retry
  BY <1>11 DEF Retry, Returns
<1>12. CASE Lock
  <2>1. Calls("F0")
    BY <1>12 DEF Lock, Calls
  <2> QED
    BY <1>12, <2>1 DEF Lock, PrefixBytes
<1>13. CASE Xchg
  BY <1>13 DEF Xchg, Returns, Throws
<1>14. CASE StringOp
  BY <1>14 DEF StringOp, Returns, Throws
<1>15. CASE CompareOp
  BY <1>15 DEF CompareOp, Returns, Throws
<1>16. CASE Rep
  <2>1. CASE ~ InCode(eip + 1)
    BY <1>16, <2>1 DEF Rep, Throws
  <2>2. CASE InCode(eip + 1) /\ Code[eip + 1] = "ret"
    BY <1>16, <2>2 DEF Rep, Returns, StringOps
  <2>3. CASE InCode(eip + 1) /\ Code[eip + 1] \notin StringOps \cup {"ret"}
    BY <1>16, <2>3 DEF Rep, Throws
  <2>4. CASE InCode(eip + 1) /\ Code[eip + 1] \in StringOps /\ counter = 0
    BY <1>16, <2>4 DEF Rep, Returns, StringOps
  <2>5. CASE InCode(eip + 1) /\ Code[eip + 1] \in StringOps /\ counter # 0
    <3>1. Code[eip] \in PrefixBytes
      BY <1>16 DEF Rep, PrefixBytes
    <3>2. Calls(Code[eip])
      BY <1>16, <2>5 DEF Rep, Calls, RepBytes, StringOps
    <3> QED
      BY <1>16, <2>5, <3>1, <3>2 DEF Rep, StringOps
  <2> QED
    BY <2>1, <2>2, <2>3, <2>4, <2>5
<1> QED
  BY <1>1, <1>2, <1>3, <1>4, <1>5, <1>6, <1>7, <1>8, <1>9, <1>10, <1>11, <1>12,
     <1>13, <1>14, <1>15, <1>16 DEF Dispatch

-----------------------------------------------------------------------------
(* The inductive invariant.                                                *)

\* Inside a cycle one is begun that is not charged yet, and its gas was not used up.
GasCounted ==
  /\ begun - gasUsed \in {0, 1}
  /\ pc = "top" \/ (pc = "host" /\ ~ Faulted) => begun = gasUsed
  /\ pc \in {"dispatch", "unwind"} =>
       begun = gasUsed + 1 /\ (gasLimit = 0 \/ gasUsed <= gasLimit)

EngineInv == TypeOK /\ OneLock /\ FlagScope /\ LockScope /\ GasCounted

LEMMA EngineInit == Init => EngineInv
<1> SUFFICES ASSUME Init PROVE EngineInv
  OBVIOUS
<1>1. << >> \in Seq(PrefixBytes) /\ MaxCycles \in Nat
  BY ExecAssumption, EmptySeq DEF ExecAssumption
<1>2. /\ prog \in Programs /\ pc \in {"host", "top", "dispatch", "unwind"}
      /\ cyc \in 0 .. MaxCycles
      /\ (pc \in {"dispatch", "unwind"} => cyc > 0)
      /\ frames \in Seq(PrefixBytes) /\ (pc \in {"host", "top"} => frames = << >>)
      /\ outcome \in Thrown \cup {"ok"}
      /\ eip \in Int /\ beginEIP \in Int /\ ecx \in Int
      /\ gasUsed \in Nat /\ gasLimit \in Nat
      /\ saved \in Snapshot \cup {Nothing} /\ begun \in Nat
  BY <1>1 DEF Init
<1>3. /\ zf \in BOOLEAN /\ iflag \in BOOLEAN /\ string_compares \in BOOLEAN
      /\ OperandSize16 \in BOOLEAN /\ AddressSize16 \in BOOLEAN
      /\ int_pending \in BOOLEAN /\ nmi \in BOOLEAN /\ DoStop \in BOOLEAN
      /\ locked \in BOOLEAN /\ busmaster \in BOOLEAN /\ stale \in BOOLEAN
  BY Zenon DEF Init
<1>4. TypeOK
  BY <1>2, <1>3 DEF TypeOK
<1>5. OneLock /\ FlagScope /\ LockScope /\ GasCounted
  BY EmptySeq, EmptyWaits DEF Init, OneLock, FlagScope, LockScope, GasCounted
<1> QED
  BY <1>5, <1>4 DEF EngineInv

\* What the host does between two calls.
LEMMA HostKeepsEngine ==
  ASSUME EngineInv, Host
  PROVE  EngineInv'
<1> USE DEF flags16, regs, ints, gas, lock, history
<1>1. ASSUME NEW n \in 1 .. MaxCycles, Exec(n) PROVE EngineInv'
  <2>1. TypeOK'
    BY <1>1 DEF EngineInv, TypeOK, Exec
  <2>2. OneLock' /\ FlagScope' /\ LockScope' /\ GasCounted'
    BY <1>1 DEF EngineInv, Exec, OneLock, FlagScope, LockScope, GasCounted, Faulted
  <2> QED
    BY <2>1, <2>2 DEF EngineInv
<1>2. ASSUME NEW isNMI \in BOOLEAN, RaiseInt(isNMI) PROVE EngineInv'
  <2>1. TypeOK'
    BY <1>2 DEF EngineInv, TypeOK, RaiseInt
  <2>2. OneLock' /\ FlagScope' /\ LockScope' /\ GasCounted'
    BY <1>2 DEF EngineInv, RaiseInt, OneLock, FlagScope, LockScope, GasCounted, Faulted
  <2> QED
    BY <2>1, <2>2 DEF EngineInv
<1>3. ASSUME NEW limit \in 0 .. MaxGas, setGasLimit(limit) PROVE EngineInv'
  <2>1. TypeOK'
    BY <1>3, ExecAssumption DEF EngineInv, TypeOK, setGasLimit, ExecAssumption
  <2>2. OneLock' /\ FlagScope' /\ LockScope' /\ GasCounted'
    BY <1>3 DEF EngineInv, setGasLimit, OneLock, FlagScope, LockScope, GasCounted,
                Faulted
  <2> QED
    BY <2>1, <2>2 DEF EngineInv
<1>4. CASE Reset
  <2>1. TypeOK'
    <3>1. /\ prog' \in Programs /\ cyc' \in 0 .. MaxCycles
          /\ pc' \in {"host", "top", "dispatch", "unwind"}
          /\ frames' \in Seq(PrefixBytes) /\ (pc' \in {"host", "top"} => frames' = << >>)
          /\ beginEIP' \in Int /\ nmi' \in BOOLEAN /\ locked' \in BOOLEAN
          /\ (pc' \in {"dispatch", "unwind"} => cyc' > 0)
          /\ saved' \in Snapshot \cup {Nothing}
      BY <1>4 DEF EngineInv, TypeOK, Reset, ResetParts
    <3>2. /\ outcome' \in Thrown \cup {"ok"} /\ eip' \in Int /\ ecx' \in Int
          /\ gasUsed' \in Nat /\ gasLimit' \in Nat /\ begun' \in Nat
      BY <1>4 DEF Reset, ResetParts
    <3>3. /\ zf' \in BOOLEAN /\ iflag' \in BOOLEAN /\ string_compares' \in BOOLEAN
          /\ OperandSize16' \in BOOLEAN /\ AddressSize16' \in BOOLEAN
          /\ int_pending' \in BOOLEAN /\ DoStop' \in BOOLEAN /\ busmaster' \in BOOLEAN
          /\ stale' \in BOOLEAN
      BY <1>4, Zenon DEF Reset, ResetParts
    <3> QED
      BY <3>1, <3>2, <3>3 DEF TypeOK
  <2>2. OneLock' /\ FlagScope' /\ LockScope' /\ GasCounted'
    BY <1>4 DEF EngineInv, Reset, ResetParts, OneLock, FlagScope, LockScope,
                GasCounted
  <2> QED
    BY <2>1, <2>2 DEF EngineInv
<1>5. CASE SaveState
  <2>1. saved' \in Snapshot
    BY <1>5 DEF EngineInv, TypeOK, SaveState, Snapshot
  <2>2. TypeOK'
    BY <1>5, <2>1 DEF EngineInv, TypeOK, SaveState
  <2>3. OneLock' /\ FlagScope' /\ LockScope' /\ GasCounted'
    BY <1>5 DEF EngineInv, SaveState, OneLock, FlagScope, LockScope, GasCounted,
                Faulted
  <2> QED
    BY <2>2, <2>3 DEF EngineInv
<1>6. CASE LoadState
  <2>1. saved \in Snapshot
    BY <1>6 DEF EngineInv, TypeOK, LoadState
  <2>2. TypeOK'
    BY <1>6, <2>1 DEF EngineInv, TypeOK, LoadState, ResetParts, Snapshot
  <2>3. OneLock' /\ FlagScope' /\ LockScope' /\ GasCounted'
    BY <1>6 DEF EngineInv, LoadState, ResetParts, OneLock, FlagScope, LockScope,
                GasCounted
  <2> QED
    BY <2>2, <2>3 DEF EngineInv
<1>7. CASE Stop
  <2>1. TypeOK'
    <3>1. DoStop' \in BOOLEAN
      BY <1>7, Zenon DEF Stop
    <3> QED
      BY <1>7, <3>1 DEF EngineInv, TypeOK, Stop
  <2>2. OneLock' /\ FlagScope' /\ LockScope' /\ GasCounted'
    BY <1>7 DEF EngineInv, Stop, OneLock, FlagScope, LockScope, GasCounted, Faulted
  <2> QED
    BY <2>1, <2>2 DEF EngineInv
<1> QED
  BY <1>1, <1>2, <1>3, <1>4, <1>5, <1>6, <1>7 DEF Host

\* The loop of Exec up to the dispatch of the opcode.
LEMMA LoopKeepsEngine ==
  ASSUME EngineInv, LeaveExec \/ TakeInterrupt \/ StartCycle
  PROVE  EngineInv'
<1> USE DEF flags16, regs, ints, gas, lock, history, GoesOn
<1>1. CASE LeaveExec
  <2>1. TypeOK'
    <3>1. << >> \in Seq(PrefixBytes) /\ 0 \in 0 .. MaxCycles
      BY EmptySeq, ExecAssumption DEF ExecAssumption
    <3> QED
      BY <1>1, <3>1 DEF EngineInv, TypeOK, LeaveExec, Return
  <2>2. OneLock' /\ FlagScope' /\ LockScope' /\ GasCounted'
    BY <1>1, EmptySeq DEF EngineInv, LeaveExec, Return, OneLock, FlagScope, LockScope,
                          GasCounted
  <2> QED
    BY <2>1, <2>2 DEF EngineInv
<1>2. CASE TakeInterrupt
  <2>1. TypeOK'
    <3>1. << >> \in Seq(PrefixBytes) /\ 0 \in 0 .. MaxCycles
      BY EmptySeq, ExecAssumption DEF ExecAssumption
    <3> QED
      BY <1>2, <3>1 DEF EngineInv, TypeOK, TakeInterrupt, Throw, Return, Thrown
  <2>2. OneLock' /\ FlagScope' /\ LockScope' /\ GasCounted'
    BY <1>2, EmptySeq DEF EngineInv, TakeInterrupt, Throw, Return, OneLock, FlagScope,
                          LockScope, GasCounted
  <2> QED
    BY <2>1, <2>2 DEF EngineInv
<1>3. CASE StartCycle
  <2>1. frames = << >>
    BY <1>3 DEF EngineInv, TypeOK, StartCycle
  <2>2. \A q : ~ Waiting(q)
    BY <2>1, EmptyWaits
  <2>3. \A q : ~ Waiting(q)'
    BY <1>3, <2>2 DEF StartCycle, Waiting
  <2>4. TypeOK'
    BY <1>3 DEF EngineInv, TypeOK, StartCycle
  <2>5. FlagScope' /\ LockScope'
    BY <1>3, <2>3 DEF EngineInv, TypeOK, StartCycle, FlagScope, LockScope
  <2>6. OneLock' /\ GasCounted'
    BY <1>3 DEF EngineInv, TypeOK, StartCycle, OneLock, GasCounted, OutOfGas,
                gasExceeded
  <2> QED
    BY <2>4, <2>5, <2>6 DEF EngineInv
<1> QED
  BY <1>1, <1>2, <1>3

\* The handlers of the opcodes.
LEMMA DispatchKeepsEngine ==
  ASSUME EngineInv, Dispatch
  PROVE  EngineInv'
<1>1. /\ pc = "dispatch" /\ UNCHANGED LoopState /\ RegsTyped'
      /\ Returns \/ Throws \/ \E p \in PrefixBytes : Calls(p)
  BY DispatchKinds DEF EngineInv
<1> USE DEF LoopState, RegsTyped
<1>2. CASE Returns
  <2>1. \A q : Waiting(q)' <=> Waiting(q)
    BY <1>2 DEF Returns, Waiting
  <2>2. TypeOK'
    BY <1>1, <1>2 DEF EngineInv, TypeOK, Returns
  <2>3. OneLock' /\ GasCounted'
    BY <1>1, <1>2 DEF EngineInv, Returns, OneLock, GasCounted
  <2>4. FlagScope' /\ LockScope'
    BY <1>1, <1>2, <2>1 DEF EngineInv, Returns, FlagScope, LockScope
  <2> QED
    BY <2>2, <2>3, <2>4 DEF EngineInv
<1>3. CASE Throws
  <2>1. << >> \in Seq(PrefixBytes) /\ 0 \in 0 .. MaxCycles
    BY EmptySeq, ExecAssumption DEF ExecAssumption
  <2>2. TypeOK'
    BY <1>1, <1>3, <2>1 DEF EngineInv, TypeOK, Throws
  <2>3. Faulted'
    BY <1>3 DEF Throws, Faulted, Thrown
  <2>4. OneLock' /\ GasCounted'
    BY <1>1, <1>3, <2>3, EmptySeq DEF EngineInv, Throws, OneLock, GasCounted
  <2>5. FlagScope' /\ LockScope'
    BY <1>1, <1>3, <2>3 DEF EngineInv, Throws, FlagScope, LockScope
  <2> QED
    BY <2>2, <2>4, <2>5 DEF EngineInv
<1>4. ASSUME NEW p \in PrefixBytes, Calls(p) PROVE EngineInv'
  <2>1. /\ frames' \in Seq(PrefixBytes)
        /\ \A q : Waiting(q)' <=> Waiting(q) \/ q = p
    BY <1>4, PushWaits DEF EngineInv, TypeOK, Calls
  <2>2. p = "F0" => ~ Waiting("F0")
    BY <1>1, <1>4 DEF EngineInv, TypeOK, Calls, LockScope
  <2>3. OneLock'
    BY <1>4, <2>2, PushOneLock DEF EngineInv, TypeOK, Calls
  <2>4. TypeOK'
    BY <1>1, <1>4, <2>1 DEF EngineInv, TypeOK, Calls
  <2>5. GasCounted'
    BY <1>1, <1>4 DEF EngineInv, Calls, GasCounted
  <2>6. FlagScope'
    BY <1>1, <1>4, <2>1 DEF EngineInv, TypeOK, Calls, FlagScope
  <2>7. LockScope'
    BY <1>1, <1>4, <2>1 DEF EngineInv, TypeOK, Calls, LockScope
  <2> QED
    BY <2>3, <2>4, <2>5, <2>6, <2>7 DEF EngineInv
<1> QED
  BY <1>1, <1>2, <1>3, <1>4

\* The returns to waiting prefix handlers and the end of the cycle.
LEMMA UnwindKeepsEngine ==
  ASSUME EngineInv, Unwind
  PROVE  EngineInv'
<1> USE DEF flags16, regs, ints, gas, lock, history
<1>1. ASSUME frames # << >>, frames' = Rest
      PROVE  /\ frames' \in Seq(PrefixBytes) /\ OneLock'
             /\ \A q : Waiting(q)' => Waiting(q)
             /\ \A q : Waiting(q) /\ q # Top => Waiting(q)'
             /\ Top = "F0" => ~ Waiting("F0")'
  BY <1>1, PopWaits, PopOneLock DEF EngineInv, TypeOK
<1>2. CASE LeaveOverride
  <2>1. /\ frames' \in Seq(PrefixBytes) /\ OneLock' /\ Top \in {"66", "67"}
        /\ \A q : Waiting(q)' => Waiting(q)
        /\ \A q : Waiting(q) /\ q # Top => Waiting(q)'
    BY <1>1, <1>2 DEF LeaveOverride, Returning
  <2>2. TypeOK'
    BY <1>2, <2>1 DEF EngineInv, TypeOK, LeaveOverride, Returning
  <2>3. GasCounted'
    BY <1>2 DEF EngineInv, LeaveOverride, Returning, GasCounted
  <2>4. FlagScope'
    BY <1>2, <2>1 DEF EngineInv, TypeOK, LeaveOverride, Returning, FlagScope
  <2>5. LockScope'
    BY <1>2, <2>1 DEF EngineInv, TypeOK, LeaveOverride, Returning, LockScope
  <2> QED
    BY <2>1, <2>2, <2>3, <2>4, <2>5 DEF EngineInv
<1>3. CASE LeaveLock
  <2>1. /\ frames' \in Seq(PrefixBytes) /\ OneLock' /\ Top = "F0"
        /\ \A q : Waiting(q) /\ q # Top => Waiting(q)'
        /\ ~ Waiting("F0")'
    BY <1>1, <1>3 DEF LeaveLock, Returning
  <2>2. TypeOK'
    BY <1>3, <2>1 DEF EngineInv, TypeOK, LeaveLock, Returning
  <2>3. GasCounted'
    BY <1>3 DEF EngineInv, LeaveLock, Returning, GasCounted
  <2>4. FlagScope'
    BY <1>3, <2>1 DEF EngineInv, TypeOK, LeaveLock, Returning, FlagScope
  <2>5. LockScope'
    BY <1>3, <2>1 DEF EngineInv, TypeOK, LeaveLock, Returning, LockScope
  <2> QED
    BY <2>1, <2>2, <2>3, <2>4, <2>5 DEF EngineInv
<1>4. CASE LeaveRep
  <2>1. /\ frames' \in Seq(PrefixBytes) /\ OneLock' /\ Top \in {"F2", "F3"}
        /\ \A q : Waiting(q)' => Waiting(q)
        /\ \A q : Waiting(q) /\ q # Top => Waiting(q)'
    BY <1>1, <1>4 DEF LeaveRep, Returning, RepBytes
  <2>0. string_compares' \in BOOLEAN
    BY <1>4, Zenon DEF LeaveRep
  <2>2. TypeOK'
    BY <1>4, <2>0, <2>1 DEF EngineInv, TypeOK, LeaveRep, Returning
  <2>3. GasCounted'
    BY <1>4 DEF EngineInv, LeaveRep, Returning, GasCounted
  <2>4. FlagScope'
    BY <1>4, <2>1 DEF EngineInv, TypeOK, LeaveRep, Returning, FlagScope
  <2>5. LockScope'
    BY <1>4, <2>1 DEF EngineInv, TypeOK, LeaveRep, Returning, LockScope
  <2> QED
    BY <2>1, <2>2, <2>3, <2>4, <2>5 DEF EngineInv
<1>5. CASE EndCycle
  <2>1. \A q : ~ Waiting(q)
    BY <1>5, EmptyWaits DEF EndCycle
  <2>2. << >> \in Seq(PrefixBytes) /\ 0 \in 0 .. MaxCycles
    BY EmptySeq, ExecAssumption DEF ExecAssumption
  <2>3. ~ OperandSize16 /\ ~ AddressSize16 /\ ~ busmaster
    BY <1>5, <2>1 DEF EngineInv, EndCycle, FlagScope, LockScope
  <2>4. pc' \in {"host", "top"} /\ frames' = << >>
    BY <1>5 DEF EndCycle, Return
  <2>5. TypeOK'
    <3>0. DoStop' \in BOOLEAN
      BY <1>5, Zenon DEF EndCycle
    <3>1. CASE DoStop
      BY <1>5, <2>2, <3>0, <3>1 DEF EngineInv, TypeOK, EndCycle, Return
    <3>2. CASE ~ DoStop
      <4>1. cyc' = cyc - 1 /\ cyc \in 0 .. MaxCycles /\ cyc > 0 /\ MaxCycles \in Nat
        BY <1>5, <3>2, ExecAssumption DEF ExecAssumption, EngineInv, TypeOK, EndCycle
      <4>2. cyc' \in 0 .. MaxCycles
        BY <4>1
      <4> QED
        BY <1>5, <3>0, <3>2, <4>2 DEF EngineInv, TypeOK, EndCycle
    <3> QED
      BY <3>1, <3>2
  <2>6. OneLock' /\ GasCounted'
    <3>1. gasUsed \in Nat /\ begun = gasUsed + 1 /\ begun' = begun /\ gasUsed' = gasUsed + 1
      BY <1>5 DEF EngineInv, TypeOK, GasCounted, EndCycle
    <3>2. begun' - gasUsed' = 0 /\ begun' = gasUsed'
      BY <3>1
    <3> QED
      BY <2>4, <3>2, EmptySeq DEF OneLock, GasCounted
  <2>7. FlagScope' /\ LockScope'
    BY <1>5, <2>3, <2>4 DEF EndCycle, FlagScope, LockScope
  <2> QED
    BY <2>5, <2>6, <2>7 DEF EngineInv
<1> QED
  BY <1>2, <1>3, <1>4, <1>5 DEF Unwind

LEMMA EngineInductive == Spec => []EngineInv
<1>1. Init => EngineInv
  BY EngineInit
<1>2. EngineInv /\ [Next]_vars => EngineInv'
  <2> SUFFICES ASSUME EngineInv, [Next]_vars PROVE EngineInv'
    OBVIOUS
  <2>1. CASE UNCHANGED vars
    BY <2>1 DEF vars, flags16, regs, ints, gas, lock, history, EngineInv, TypeOK, OneLock, FlagScope,
                LockScope, GasCounted, Waiting, Faulted
  <2>2. CASE Next
    BY <2>1, <2>2, HostKeepsEngine, LoopKeepsEngine, DispatchKeepsEngine, UnwindKeepsEngine
       DEF Next, Running, Spin
  <2> QED
    BY <2>1, <2>2
<1> QED
  BY <1>1, <1>2, PTL DEF Spec

-----------------------------------------------------------------------------
(* Where the instructions of the program begin.                            *)

Topped(class) == frames # << >> /\ frames[Len(frames)] \in class

\* Between two cycles eip is where an instruction begins.
AtInstruction ==
  /\ saved # Nothing => saved.eip \in prog.starts
  /\ pc = "top" \/ (pc = "host" /\ ~ Faulted) => eip \in prog.starts

\* A handler is called: the bytes in front of eip are the prefixes whose handlers wait, and a
\* repetition is the last of them.
Fetching ==
  pc = "dispatch" =>
    /\ beginEIP \in prog.starts /\ eip \in beginEIP .. Len(Code) + 1
    /\ locked <=> busmaster
    /\ string_compares => stale
    /\ Ahead(prog, beginEIP, eip)
    /\ Len(frames) = eip - beginEIP
    /\ \A i \in beginEIP .. eip - 1 : frames[i - beginEIP + 1] = Code[i]
    /\ \A i \in beginEIP .. eip - 1 :
         Code[i] \in RepBytes => i = eip - 1 /\ InCode(eip) /\ Code[eip] \in StringOps

\* The handlers return: the cycle will end at an instruction.  A repetition whose handler still
\* waits has done its element; one whose handler has returned goes on or is over.
Leaving ==
  pc = "unwind" =>
    /\ beginEIP \in prog.starts /\ eip + 1 \in prog.starts
    /\ \A i \in 1 .. Len(frames) - 1 : frames[i] \notin RepBytes
    /\ IsRep(beginEIP) =>
         LET e == End(beginEIP)
         IN  IF Topped(RepBytes)
             THEN /\ eip = e - 1 /\ Top = Code[e - 2]
                  /\ string_compares => Code[e - 1] = "cmps" \/ stale
             ELSE \/ eip = beginEIP - 1
                  \/ /\ eip = e - 1
                     /\ \/ CountOf(beginEIP) = 0
                        \/ /\ Code[e - 1] = "cmps" \/ stale
                           /\ Code[e - 2] = "F2" <=> zf

InstructionInv == EngineInv /\ AtInstruction /\ Fetching /\ Leaving

LEMMA StartsTyped ==
  ASSUME prog \in Programs
  PROVE  /\ Len(Code) \in Nat /\ prog.starts \subseteq 1 .. Len(Code) + 1 /\ 1 \in prog.starts
         /\ Assembled(prog)
<1>1. prog.code \in Seq(Bytes)
  BY ExecAssumption DEF ExecAssumption
<1> QED
  BY <1>1, ExecAssumption, ProgramsAssembled DEF ExecAssumption, ProgramsAssembled, Code

\* The next address at which an instruction begins.
LEMMA EndIs ==
  ASSUME prog \in Programs, NEW b \in prog.starts, NEW e \in prog.starts, b < e,
         \A i \in b + 1 .. e - 1 : i \notin prog.starts
  PROVE  End(b) = e
<1>1. prog.starts \subseteq Int
  BY StartsTyped
<1>2. \A f \in prog.starts : f > b => e <= f
  BY <1>1
<1>3. \A x \in prog.starts : x > b /\ (\A f \in prog.starts : f > b => x <= f) => x = e
  BY <1>1, <1>2
<1>4. End(b) \in prog.starts /\ End(b) > b /\ \A f \in prog.starts : f > b => End(b) <= f
  BY <1>1, <1>2 DEF End
<1> QED
  BY <1>3, <1>4

LEMMA NextStart ==
  ASSUME prog \in Programs, NEW b \in Nat, NEW x \in prog.starts, x > b
  PROVE  End(b) \in prog.starts /\ End(b) > b
<1> DEFINE later == {e \in prog.starts : e > b}
<1>1. later \subseteq Nat /\ later # {}
  BY StartsTyped
<1>2. PICK e \in later : \A f \in later : ~ (<<f, e>> \in OpToRel(<, Nat))
  <2> HIDE DEF later
  <2> QED
    BY <1>1, NatLessThanWellFounded, WFMin
<1>3. \A f \in later : ~ (f < e)
  BY <1>1, <1>2 DEF OpToRel
<1>4. e \in prog.starts /\ e > b /\ \A f \in prog.starts : f > b => e <= f
  BY <1>1, <1>3
<1> QED
  BY <1>4 DEF End

LEMMA StartIs ==
  ASSUME prog \in Programs, NEW b \in prog.starts, NEW a \in Int, b <= a,
         \A i \in b + 1 .. a : i \notin prog.starts
  PROVE  StartOf(a) = b
<1>1. prog.starts \subseteq Int
  BY StartsTyped
<1>2. \A f \in prog.starts : f <= a => f <= b
  BY <1>1
<1>3. \A x \in prog.starts : x <= a /\ (\A f \in prog.starts : f <= a => f <= x) => x = b
  BY <1>1, <1>2
<1>4. /\ StartOf(a) \in prog.starts /\ StartOf(a) <= a
      /\ \A f \in prog.starts : f <= a => f <= StartOf(a)
  BY <1>1, <1>2 DEF StartOf
<1> QED
  BY <1>3, <1>4

\* An opcode behind its prefixes ends the instruction, and a repetition if it is one.
LEMMA OpcodeEnds ==
  ASSUME prog \in Programs, NEW b \in prog.starts, NEW k \in b .. Len(Code),
         Ahead(prog, b, k), Code[k] \notin PrefixBytes, ~ Splits(prog, b, k),
         Behind(prog, k) <= Len(Code) + 1
  PROVE  /\ Behind(prog, k) \in prog.starts
         /\ Code[k] # "movi" =>
              /\ \A i \in b + 1 .. k : i \notin prog.starts
              /\ End(b) = k + 1
         /\ IsRep(b) => Code[k] \in StringOps /\ k > b /\ Code[k - 1] \in RepBytes
<1>1. Len(Code) \in Nat /\ prog.starts \subseteq Int /\ b \in Int /\ k \in Int
  BY StartsTyped
<1>2. /\ k > b => k \notin prog.starts
      /\ \/ Behind(prog, k) > Len(Code) + 1
         \/ Behind(prog, k) \in prog.starts /\ (Code[k] = "movi" => k + 1 \notin prog.starts)
  BY StartsTyped DEF Assembled, Code
<1>3. Behind(prog, k) \in {k + 1, k + 2}
  BY DEF Behind
<1>4. Behind(prog, k) \in prog.starts /\ (Code[k] = "movi" => k + 1 \notin prog.starts)
  BY <1>1, <1>2, <1>3
<1>5. \A i \in b + 1 .. k : i \notin prog.starts
  BY <1>1, <1>2 DEF Ahead
<1>6. \A i \in b + 1 .. Behind(prog, k) - 1 : i \notin prog.starts
  BY <1>1, <1>4, <1>5 DEF Behind, Code
<1>7. b < Behind(prog, k)
  BY <1>1, <1>3
<1>8. End(b) = Behind(prog, k)
  BY <1>4, <1>6, <1>7, EndIs
<1>9. ASSUME IsRep(b)
      PROVE  Code[k] \in StringOps /\ k > b /\ Code[k - 1] \in RepBytes
  <2>1. End(b) - b >= 2 /\ Code[End(b) - 1] \in StringOps /\ Code[End(b) - 2] \in RepBytes
    BY <1>9 DEF IsRep
  <2>2. CASE Code[k] = "movi"
    <3>1. End(b) - 2 = k
      BY <1>1, <1>8, <2>2 DEF Behind, Code
    <3> QED
      BY <2>1, <2>2, <3>1 DEF RepBytes
  <2>3. CASE Code[k] # "movi"
    <3>1. End(b) = k + 1
      BY <1>1, <1>8, <2>3 DEF Behind, Code
    <3>2. End(b) - 1 = k /\ End(b) - 2 = k - 1 /\ k > b
      BY <1>1, <2>1, <3>1
    <3> QED
      BY <2>1, <3>2
  <2> QED
    BY <2>2, <2>3
<1> QED
  BY <1>4, <1>5, <1>8, <1>9 DEF Behind, Code

\* What does not apply is an instruction of its own.
LEMMA SplitEnds ==
  ASSUME prog \in Programs, NEW b \in prog.starts, NEW k \in b .. Len(Code),
         Ahead(prog, b, k), k > b, Splits(prog, b, k)
  PROVE  k \in prog.starts /\ k = b + 1 /\ ~ IsRep(b)
<1>1. Len(Code) \in Nat /\ prog.starts \subseteq Int /\ b \in Int
  BY StartsTyped
<1>2. k \in prog.starts /\ k = b + 1
  BY StartsTyped DEF Assembled, Code
<1>3. End(b) = b + 1
  BY <1>1, <1>2, EndIs
<1> QED
  BY <1>1, <1>2, <1>3 DEF IsRep

\* The program does not change.
LEMMA SameProgram ==
  ASSUME prog' = prog
  PROVE  /\ Code' = Code
         /\ \A b : End(b)' = End(b) /\ (IsRep(b)' <=> IsRep(b)) /\ StartOf(b)' = StartOf(b)
                   /\ PrefixesAt(b)' = PrefixesAt(b)
BY DEF Code, End, IsRep, StartOf, PrefixesAt

\* No prefix that waits has to do with the opcode but the LOCK in front of one that locks.
LEMMA NoSplit ==
  ASSUME EngineInv, Fetching, pc = "dispatch", InCode(eip)
  PROVE  /\ prog \in Programs /\ beginEIP \in prog.starts /\ eip \in beginEIP .. Len(Code)
         /\ Ahead(prog, beginEIP, eip)
         /\ \A q : Waiting(q) <=> \E i \in beginEIP .. eip - 1 : Code[i] = q
         /\ IF Code[eip] \in {"F0", "xchg"} /\ locked
            THEN Splits(prog, beginEIP, eip) /\ eip > beginEIP
            ELSE ~ Splits(prog, beginEIP, eip)
<1>1. prog \in Programs /\ eip \in Int /\ beginEIP \in prog.starts
  BY DEF EngineInv, TypeOK, Fetching
<1>2. Len(Code) \in Nat /\ prog.starts \subseteq Int
  BY <1>1, StartsTyped
<1>3. PICK b \in Int : b = beginEIP
  BY <1>1, <1>2
<1>4. /\ eip \in b .. Len(Code) /\ Len(frames) = eip - b
      /\ \A i \in b .. eip - 1 : frames[i - b + 1] = Code[i]
  BY <1>3 DEF Fetching, InCode
<1>5. ASSUME NEW q
      PROVE  Waiting(q) <=> \E i \in b .. eip - 1 : Code[i] = q
  <2>1. ASSUME Waiting(q)
        PROVE  \E i \in b .. eip - 1 : Code[i] = q
    <3>1. PICK k \in 1 .. Len(frames) : frames[k] = q
      BY <2>1 DEF Waiting
    <3>2. PICK i \in b .. eip - 1 : i = b + k - 1 /\ i - b + 1 = k
      BY <1>1, <1>4
    <3> QED
      BY <1>4, <3>1, <3>2
  <2>2. ASSUME NEW i \in b .. eip - 1, Code[i] = q
        PROVE  Waiting(q)
    <3>1. PICK k \in 1 .. Len(frames) : k = i - b + 1
      BY <1>1, <1>4
    <3> QED
      BY <1>4, <2>2, <3>1 DEF Waiting
  <2> QED
    BY <2>1, <2>2
<1>6. locked <=> Waiting("F0")
  BY DEF Fetching, EngineInv, LockScope
<1>7. ~ (Code[eip] = "ret" /\ eip > b /\ Code[eip - 1] \in RepBytes)
  <2>1. ASSUME eip > b, Code[eip - 1] \in RepBytes
        PROVE  Code[eip] \in StringOps
    BY <1>1, <1>3, <2>1 DEF Fetching
  <2> QED
    BY <2>1 DEF StringOps
<1>8. IF Code[eip] \in {"F0", "xchg"} /\ locked
      THEN Splits(prog, b, eip) /\ eip > b
      ELSE ~ Splits(prog, b, eip)
  <2>1. Splits(prog, b, eip) <=> Code[eip] \in {"F0", "xchg"} /\ locked
    BY <1>5, <1>6, <1>7 DEF Splits, Code
  <2>2. locked => eip > b
    BY <1>1, <1>5, <1>6
  <2> QED
    BY <2>1, <2>2
<1> QED
  BY <1>1, <1>3, <1>4, <1>5, <1>8 DEF Fetching

\* What waits when a handler returns without having changed the stack of handlers.
LEMMA TopmostPrefix ==
  ASSUME EngineInv, Fetching, pc = "dispatch"
  PROVE  /\ \A i \in 1 .. Len(frames) - 1 : frames[i] \notin RepBytes
         /\ Topped(RepBytes) <=> eip > beginEIP /\ Code[eip - 1] \in RepBytes
         /\ eip > beginEIP => frames # << >> /\ Top = Code[eip - 1]
<1>1. /\ prog \in Programs /\ eip \in Int /\ frames \in Seq(PrefixBytes)
      /\ beginEIP \in prog.starts
  BY DEF EngineInv, TypeOK, Fetching
<1>2. PICK b \in Int : b = beginEIP
  BY <1>1, StartsTyped
<1>3. PICK n \in Nat : n = Len(frames)
  BY <1>1
<1>4. /\ eip >= b /\ n = eip - b
      /\ \A i \in b .. eip - 1 : frames[i - b + 1] = Code[i]
      /\ \A i \in b .. eip - 1 : Code[i] \in RepBytes => i = eip - 1
  BY <1>2, <1>3 DEF Fetching
<1>5. ASSUME NEW i \in 1 .. n - 1
      PROVE  frames[i] \notin RepBytes
  <2>1. PICK k \in b .. eip - 1 : k = b + i - 1 /\ k - b + 1 = i /\ k # eip - 1
    BY <1>1, <1>4
  <2> QED
    BY <1>4, <2>1
<1>6. ASSUME eip > b
      PROVE  frames # << >> /\ frames[n] = Code[eip - 1]
  <2>1. eip - 1 \in b .. eip - 1 /\ (eip - 1) - b + 1 = n /\ n # 0
    BY <1>1, <1>4, <1>6
  <2>2. frames # << >>
    BY <1>3, <2>1, EmptySeq
  <2> QED
    BY <1>4, <2>1, <2>2
<1>7. ASSUME eip = b
      PROVE  frames = << >>
  <2>1. Len(frames) = 0
    BY <1>1, <1>3, <1>4, <1>7
  <2> QED
    BY <1>1, <2>1, EmptySeq
<1> QED
  BY <1>1, <1>2, <1>3, <1>4, <1>5, <1>6, <1>7 DEF Topped, Top

\* An opcode that is no string instruction has returned.
LEMMA PlainReturns ==
  ASSUME EngineInv, Fetching, pc = "dispatch", InCode(eip), Code[eip] \notin PrefixBytes,
         Code[eip] \notin StringOps, ~ (Code[eip] = "xchg" /\ locked),
         Behind(prog, eip) <= Len(Code) + 1,
         eip' + 1 = Behind(prog, eip) \/ eip' + 1 \in prog.starts,
         UNCHANGED <<prog, frames, beginEIP, string_compares, stale>>
  PROVE  Leaving'
<1>1. /\ beginEIP \in prog.starts /\ Behind(prog, eip) \in prog.starts
      /\ ~ IsRep(beginEIP)
  BY NoSplit, OpcodeEnds DEF PrefixBytes
<1>2. \A i \in 1 .. Len(frames) - 1 : frames[i] \notin RepBytes
  BY TopmostPrefix
<1>3. ~ IsRep(beginEIP)'
  BY <1>1, SameProgram
<1> QED
  BY <1>1, <1>2, <1>3 DEF Leaving

\* A prefix that applies: what is behind it belongs to the same instruction.
LEMMA PrefixGoesOn ==
  ASSUME EngineInv, Fetching, pc = "dispatch", InCode(eip), Code[eip] \in PrefixBytes,
         ~ (Code[eip] = "F0" /\ locked)
  PROVE  /\ Ahead(prog, beginEIP, eip + 1)
         /\ \A i \in beginEIP .. eip - 1 : Code[i] \notin RepBytes
<1>1. /\ prog \in Programs /\ beginEIP \in prog.starts /\ eip \in beginEIP .. Len(Code)
      /\ Ahead(prog, beginEIP, eip) /\ ~ Splits(prog, beginEIP, eip)
  BY NoSplit DEF PrefixBytes, RepBytes
<1>2. PICK b \in prog.starts : b = beginEIP
  BY <1>1
<1>3. Len(Code) \in Nat /\ b \in Int /\ eip \in b .. Len(Code)
  BY <1>1, <1>2, StartsTyped
<1>4. eip > b => eip \notin prog.starts
  BY <1>1, <1>2, <1>3, StartsTyped DEF Assembled, Code
<1>5. ASSUME NEW i \in b .. (eip + 1) - 1
      PROVE  Code[i] \in PrefixBytes /\ (i > b => i \notin prog.starts)
  <2>1. CASE i = eip
    BY <1>4, <2>1
  <2>2. CASE i # eip
    BY <1>1, <1>2, <1>3, <2>2 DEF Ahead, Code
  <2> QED
    BY <2>1, <2>2
<1>6. Code[eip] \notin StringOps
  BY DEF PrefixBytes, RepBytes, StringOps
<1> QED
  BY <1>2, <1>5, <1>6 DEF Ahead, Code, Fetching

\* A prefix handler has called the one behind it.
LEMMA PrefixCalls ==
  ASSUME EngineInv, Fetching, pc = "dispatch", InCode(eip), Code[eip] \in PrefixBytes,
         ~ (Code[eip] = "F0" /\ locked),
         Code[eip] \in RepBytes => InCode(eip + 1) /\ Code[eip + 1] \in StringOps,
         eip' = eip + 1, frames' = Append(frames, Code[eip]), locked' <=> busmaster',
         UNCHANGED <<prog, beginEIP, string_compares, stale>>
  PROVE  Fetching'
<1>1. /\ prog \in Programs /\ beginEIP \in prog.starts /\ eip \in beginEIP .. Len(Code)
  BY NoSplit
<1>2. PICK b \in prog.starts : b = beginEIP
  BY <1>1
<1>3. Len(Code) \in Nat /\ b \in Int /\ eip \in b .. Len(Code)
  BY <1>1, <1>2, StartsTyped
<1>4. Ahead(prog, b, eip + 1) /\ \A i \in b .. eip - 1 : Code[i] \notin RepBytes
  BY <1>2, PrefixGoesOn
<1>5. /\ Len(frames') = Len(frames) + 1 /\ frames'[Len(frames) + 1] = Code[eip]
      /\ \A i \in 1 .. Len(frames) : frames'[i] = frames[i]
  BY AppendProperties DEF EngineInv, TypeOK
<1>6. Len(frames) = eip - b /\ \A i \in b .. eip - 1 : frames[i - b + 1] = Code[i]
  BY <1>2 DEF Fetching
<1>7. ASSUME NEW i \in b .. (eip + 1) - 1
      PROVE  /\ frames'[i - b + 1] = Code[i]
             /\ Code[i] \in RepBytes => i = (eip + 1) - 1
  <2>1. CASE i = eip
    BY <1>3, <1>5, <1>6, <2>1
  <2>2. CASE i # eip
    <3>1. i \in b .. eip - 1 /\ i - b + 1 \in 1 .. eip - b
      BY <1>3, <2>2
    <3> QED
      BY <1>4, <1>5, <1>6, <3>1
  <2> QED
    BY <2>1, <2>2
<1>8. (string_compares' => stale') /\ Code' = Code
  BY SameProgram DEF Fetching
<1>9. eip' \in b .. Len(Code) + 1 /\ Len(frames') = eip' - b
  BY <1>3, <1>5, <1>6
<1>10. ASSUME NEW i \in b .. eip' - 1, Code[i] \in RepBytes
       PROVE  i = eip' - 1 /\ InCode(eip + 1) /\ Code[eip + 1] \in StringOps
  <2>1. i = eip
    BY <1>3, <1>7, <1>10
  <2> QED
    BY <1>3, <1>10, <2>1
<1>11. InCode(eip + 1) => InCode(eip)'
  BY <1>8 DEF InCode
<1>12. Ahead(prog, beginEIP, eip)'
  BY <1>2, <1>4 DEF Ahead
<1>13. ASSUME NEW i \in b .. eip' - 1
       PROVE  /\ frames'[i - b + 1] = Code'[i]
              /\ Code'[i] \in RepBytes =>
                   i = eip' - 1 /\ InCode(eip)' /\ Code'[eip'] \in StringOps
  <2>1. i \in b .. (eip + 1) - 1
    BY <1>3
  <2> QED
    BY <1>7, <1>8, <1>10, <1>11, <2>1
<1>14. eip' \in b .. Len(Code') + 1 /\ (string_compares' => stale') /\ beginEIP' = b
       /\ b \in prog'.starts
  BY <1>2, <1>8, <1>9
<1> QED
  BY <1>9, <1>12, <1>13, <1>14 DEF Fetching

\* An opcode that finds the memory locked by the prefix in front of it.
LEMMA SplitReturns ==
  ASSUME EngineInv, Fetching, pc = "dispatch", InCode(eip), Code[eip] \in {"F0", "xchg"}, locked,
         eip' = eip - 1,
         UNCHANGED <<prog, frames, beginEIP, string_compares, stale>>
  PROVE  Leaving'
<1>1. /\ prog \in Programs /\ beginEIP \in prog.starts /\ eip \in beginEIP .. Len(Code)
      /\ Ahead(prog, beginEIP, eip) /\ Splits(prog, beginEIP, eip) /\ eip > beginEIP
  BY NoSplit
<1>2. eip \in prog.starts /\ ~ IsRep(beginEIP)
  BY <1>1, SplitEnds
<1>3. eip' + 1 = eip
  BY <1>2 DEF EngineInv, TypeOK
<1>4. \A i \in 1 .. Len(frames) - 1 : frames[i] \notin RepBytes
  BY TopmostPrefix
<1>5. ~ IsRep(beginEIP)'
  BY <1>2, SameProgram
<1> QED
  BY <1>1, <1>2, <1>3, <1>4, <1>5 DEF Leaving

\* A string instruction has returned to the repetition in front of it, if there is one.
LEMMA StringReturns ==
  ASSUME EngineInv, Fetching, pc = "dispatch", InCode(eip), Code[eip] \in StringOps,
         string_compares' => Code[eip] = "cmps" \/ stale,
         UNCHANGED <<prog, eip, frames, beginEIP, stale>>
  PROVE  Leaving'
<1>1. /\ prog \in Programs /\ beginEIP \in prog.starts /\ eip \in beginEIP .. Len(Code)
      /\ Ahead(prog, beginEIP, eip) /\ ~ Splits(prog, beginEIP, eip)
  BY NoSplit DEF StringOps
<1>2. PICK b \in prog.starts : b = beginEIP
  BY <1>1
<1>3. Len(Code) \in Nat /\ b \in Int /\ eip \in b .. Len(Code)
  BY <1>1, <1>2, StartsTyped
<1>4. Code[eip] \notin PrefixBytes /\ Code[eip] # "movi" /\ Behind(prog, eip) = eip + 1
  BY DEF StringOps, PrefixBytes, RepBytes, Behind, Code
<1>5. /\ eip + 1 \in prog.starts /\ End(b) = eip + 1
      /\ IsRep(b) => eip > b /\ Code[eip - 1] \in RepBytes
  BY <1>1, <1>2, <1>3, <1>4, OpcodeEnds
<1>6. /\ \A i \in 1 .. Len(frames) - 1 : frames[i] \notin RepBytes
      /\ Topped(RepBytes) <=> eip > b /\ Code[eip - 1] \in RepBytes
      /\ eip > b => frames # << >> /\ Top = Code[eip - 1]
  BY <1>2, TopmostPrefix
<1>8. /\ IsRep(b)' <=> IsRep(b)
      /\ End(b)' = eip + 1 /\ Code' = Code /\ Top' = Top
      /\ Topped(RepBytes)' <=> Topped(RepBytes)
  BY <1>5, SameProgram DEF Top, Topped
<1>9. (eip + 1) - 1 = eip /\ (eip + 1) - 2 = eip - 1
  BY <1>3
<1> QED
  BY <1>2, <1>5, <1>6, <1>8, <1>9 DEF Leaving

\* A repetition in front of RET is an instruction that does nothing.
LEMMA RepBeforeRet ==
  ASSUME EngineInv, Fetching, pc = "dispatch", InCode(eip), Code[eip] \in RepBytes,
         InCode(eip + 1), Code[eip + 1] = "ret",
         UNCHANGED <<prog, eip, frames, beginEIP, string_compares, stale>>
  PROVE  Leaving'
<1>1. /\ prog \in Programs /\ beginEIP \in prog.starts /\ eip \in beginEIP .. Len(Code)
  BY NoSplit
<1>2. PICK b \in prog.starts : b = beginEIP
  BY <1>1
<1>3. Len(Code) \in Nat /\ b \in Int /\ eip \in b .. Len(Code)
  BY <1>1, <1>2, StartsTyped
<1>4. Ahead(prog, b, eip + 1)
  BY <1>2, PrefixGoesOn DEF PrefixBytes, RepBytes
<1>5. PICK k \in b .. Len(Code) : k = eip + 1 /\ k > b /\ k - 1 = eip
  BY <1>3 DEF InCode
<1>6. Splits(prog, b, k)
  BY <1>5 DEF Splits, Code
<1>7. k \in prog.starts /\ ~ IsRep(b)
  BY <1>1, <1>4, <1>5, <1>6, SplitEnds
<1>8. \A i \in 1 .. Len(frames) - 1 : frames[i] \notin RepBytes
  BY TopmostPrefix
<1>9. ~ IsRep(beginEIP)'
  BY <1>2, <1>7, SameProgram
<1> QED
  BY <1>2, <1>5, <1>7, <1>8, <1>9 DEF Leaving

\* A repetition whose counter is zero passes over its string instruction.
LEMMA RepIsOver ==
  ASSUME EngineInv, Fetching, pc = "dispatch", InCode(eip), Code[eip] \in RepBytes,
         InCode(eip + 1), Code[eip + 1] \in StringOps, counter = 0,
         eip' = eip + 1,
         UNCHANGED <<prog, ecx, frames, beginEIP, string_compares, stale>>
  PROVE  Leaving'
<1>1. /\ prog \in Programs /\ beginEIP \in prog.starts /\ eip \in beginEIP .. Len(Code)
      /\ \A q : Waiting(q) <=> \E i \in beginEIP .. eip - 1 : Code[i] = q
  BY NoSplit
<1>2. PICK b \in prog.starts : b = beginEIP
  BY <1>1
<1>3. Len(Code) \in Nat /\ b \in Int /\ eip \in b .. Len(Code)
  BY <1>1, <1>2, StartsTyped
<1>4. Ahead(prog, b, eip + 1)
  BY <1>2, PrefixGoesOn DEF PrefixBytes, RepBytes
<1>5. PICK k \in b .. Len(Code) : k = eip + 1 /\ k > b /\ k - 1 = eip
  BY <1>3 DEF InCode
<1>6. /\ Code[k] \notin PrefixBytes /\ Code[k] # "movi" /\ ~ Splits(prog, b, k)
      /\ Behind(prog, k) = k + 1
  BY <1>5 DEF StringOps, PrefixBytes, RepBytes, Splits, Behind, Code
<1>7. /\ k + 1 \in prog.starts /\ End(b) = k + 1
      /\ \A i \in b + 1 .. k : i \notin prog.starts
  BY <1>1, <1>4, <1>5, <1>6, OpcodeEnds
<1>8. StartOf(k) = b
  BY <1>1, <1>5, <1>7, StartIs
<1>9. "67" \in PrefixesAt(k) <=> Waiting("67")
  <2>1. "67" \in PrefixesAt(k) <=> \E i \in b .. k - 1 : Code[i] = "67"
    BY <1>8 DEF PrefixesAt
  <2>2. Code[eip] # "67"
    BY DEF RepBytes
  <2>3. \A i \in b .. k - 1 : i = eip \/ i \in b .. eip - 1
    BY <1>3, <1>5
  <2>4. \A i \in b .. eip - 1 : i \in b .. k - 1
    BY <1>3, <1>5
  <2> QED
    BY <1>1, <1>2, <2>1, <2>2, <2>3, <2>4
<1>10. CountOf(b) = 0
  <2>1. AddressSize16 <=> Waiting("67")
    BY DEF EngineInv, FlagScope
  <2>2. End(b) - 1 = k
    BY <1>3, <1>5, <1>7
  <2> QED
    BY <1>9, <2>1, <2>2 DEF CountOf, counter
<1>11. CountOf(b)' = 0
  BY <1>7, <1>10, SameProgram DEF CountOf
<1>12. \A i \in 1 .. Len(frames) - 1 : frames[i] \notin RepBytes
  BY TopmostPrefix
<1>13. ~ Topped(RepBytes)
  <2>1. Topped(RepBytes) => eip > b /\ Code[eip - 1] \in RepBytes
    BY <1>2, TopmostPrefix
  <2>2. \A i \in b .. eip - 1 : Code[i] \notin RepBytes
    BY <1>2, PrefixGoesOn DEF PrefixBytes, RepBytes
  <2>3. eip > b => eip - 1 \in b .. eip - 1
    BY <1>3
  <2> QED
    BY <2>1, <2>2, <2>3
<1>14. End(b)' = k + 1 /\ eip' = (k + 1) - 1 /\ ~ Topped(RepBytes)'
  BY <1>3, <1>5, <1>7, <1>13, SameProgram DEF Topped
<1> QED
  BY <1>2, <1>5, <1>7, <1>11, <1>12, <1>14 DEF Leaving

\* The handler of a prefix that is no repetition has returned.
LEMMA PrefixReturns ==
  ASSUME EngineInv, Leaving, Returning(PrefixBytes \ RepBytes),
         UNCHANGED <<prog, pc, eip, ecx, zf, beginEIP, string_compares, stale>>
  PROVE  Leaving'
<1>1. /\ pc = "unwind" /\ frames \in Seq(PrefixBytes) /\ frames # << >> /\ frames' = Rest
      /\ Top \notin RepBytes
  BY DEF EngineInv, TypeOK, Returning
<1>2. /\ Len(frames) \in Nat /\ Len(Rest) = Len(frames) - 1 /\ Rest \in Seq(PrefixBytes)
      /\ \A i \in 1 .. Len(frames) - 1 : Rest[i] = frames[i]
  BY <1>1, RestShape
<1>3. \A i \in 1 .. Len(frames) - 1 : frames[i] \notin RepBytes
  BY <1>1 DEF Leaving
<1>4. ~ Topped(RepBytes)
  BY <1>1 DEF Topped, Top
<1>5. /\ ~ Topped(RepBytes)'
      /\ \A i \in 1 .. Len(frames') - 1 : frames'[i] \notin RepBytes
  <2>1. PICK n \in Nat : n = Len(Rest)
    BY <1>2
  <2>2. \A i \in 1 .. n : Rest[i] \notin RepBytes
    BY <1>2, <1>3, <2>1
  <2>3. Rest # << >> => n \in 1 .. n
    BY <1>2, <2>1, EmptySeq
  <2> QED
    BY <1>1, <2>1, <2>2, <2>3 DEF Topped
<1>6. /\ IsRep(beginEIP)' <=> IsRep(beginEIP)
      /\ End(beginEIP)' = End(beginEIP) /\ Code' = Code
      /\ CountOf(beginEIP)' = CountOf(beginEIP)
  BY SameProgram DEF CountOf
<1> QED
  BY <1>1, <1>4, <1>5, <1>6 DEF Leaving

\* The handler of a repetition has returned.
LEMMA RepReturns ==
  ASSUME EngineInv, Leaving, LeaveRep
  PROVE  Leaving'
<1>1. /\ pc = "unwind" /\ frames \in Seq(PrefixBytes) /\ frames # << >> /\ frames' = Rest
      /\ Topped(RepBytes) /\ prog \in Programs /\ pc' = pc /\ prog' = prog
      /\ beginEIP' = beginEIP /\ zf' = zf /\ stale' = stale
  BY DEF EngineInv, TypeOK, LeaveRep, Returning, Topped, Top, regs, history
<1>2. /\ Len(frames) \in Nat /\ Len(Rest) = Len(frames) - 1 /\ Rest \in Seq(PrefixBytes)
      /\ \A i \in 1 .. Len(frames) - 1 : Rest[i] = frames[i]
  BY <1>1, RestShape
<1>3. \A i \in 1 .. Len(frames) - 1 : frames[i] \notin RepBytes
  BY <1>1 DEF Leaving
<1>4. /\ ~ Topped(RepBytes)'
      /\ \A i \in 1 .. Len(frames') - 1 : frames'[i] \notin RepBytes
  <2>1. PICK n \in Nat : n = Len(Rest)
    BY <1>2
  <2>2. \A i \in 1 .. n : Rest[i] \notin RepBytes
    BY <1>2, <1>3, <2>1
  <2>3. Rest # << >> => n \in 1 .. n
    BY <1>2, <2>1, EmptySeq
  <2> QED
    BY <1>1, <2>1, <2>2, <2>3 DEF Topped
<1>5. beginEIP \in prog.starts /\ beginEIP \in Int /\ eip + 1 \in prog.starts
  BY <1>1, StartsTyped DEF Leaving
<1>6. eip' + 1 \in prog.starts
  <2>1. (beginEIP - 1) + 1 = beginEIP
    BY <1>5
  <2> QED
    BY <1>5, <2>1 DEF LeaveRep
<1>8. ASSUME IsRep(beginEIP), eip' # beginEIP - 1
      PROVE  LET e == End(beginEIP)
             IN  /\ eip' = e - 1 /\ (Code[e - 1] = "cmps" \/ stale)
                 /\ Code[e - 2] = "F2" <=> zf
  <2>1. eip' = eip /\ string_compares /\ (Top = "F2" <=> zf)
    BY <1>8 DEF LeaveRep, RepEnds
  <2> QED
    BY <1>1, <1>8, <2>1 DEF Leaving
<1>9. /\ IsRep(beginEIP)' <=> IsRep(beginEIP)
      /\ End(beginEIP)' = End(beginEIP) /\ Code' = Code
  BY <1>1, SameProgram
<1> QED
  BY <1>1, <1>4, <1>5, <1>6, <1>8, <1>9 DEF Leaving

\* A handler that returns or throws leaves none called, and one that goes on or throws none
\* that returns.
LEMMA NotInside ==
  ASSUME prog' = prog, UNCHANGED saved, AtInstruction
  PROVE  /\ pc' \in {"dispatch", "unwind"} \/ (pc' = "host" /\ Faulted') => AtInstruction'
         /\ pc' # "dispatch" => Fetching'
         /\ pc' # "unwind" => Leaving'
BY DEF AtInstruction, Fetching, Leaving, Faulted

LEMMA ThrowLeaves ==
  ASSUME NEW how \in Thrown, Throw(how), AtInstruction
  PROVE  AtInstruction' /\ Fetching' /\ Leaving'
<1>1. prog' = prog /\ UNCHANGED saved /\ pc' = "host" /\ Faulted'
  BY DEF Throw, Return, Faulted, Thrown
<1> QED
  BY <1>1, NotInside

LEMMA DispatchKeepsPlace ==
  ASSUME InstructionInv, Dispatch
  PROVE  AtInstruction' /\ Fetching' /\ Leaving'
<1> USE DEF InstructionInv
<1>1. pc = "dispatch" /\ UNCHANGED LoopState
  BY DispatchKinds DEF EngineInv
<1>2. prog' = prog /\ saved' = saved /\ beginEIP' = beginEIP /\ stale' = stale
  BY <1>1 DEF LoopState
<1>3. ASSUME pc' = "unwind", Leaving'
      PROVE  AtInstruction' /\ Fetching' /\ Leaving'
  BY <1>2, <1>3, NotInside
<1>4. ASSUME NEW how \in Thrown, Throw(how)
      PROVE  AtInstruction' /\ Fetching' /\ Leaving'
  BY <1>4, ThrowLeaves
<1>5. AccessFailure \subseteq Thrown
  BY DEF AccessFailure, Thrown
<1>6. eip \in Int /\ prog \in Programs
  BY DEF EngineInv, TypeOK
<1>7. ASSUME At(Bytes \ (PrefixBytes \cup StringOps)), ~ (Code[eip] = "xchg" /\ locked),
             pc' = "unwind", UNCHANGED <<frames, string_compares>>,
             \/ eip' = eip /\ Code[eip] # "movi"
             \/ eip' = eip + 1 /\ Code[eip] = "movi" /\ InCode(eip + 1)
             \/ eip' + 1 \in prog.starts /\ Code[eip] # "movi"
      PROVE  AtInstruction' /\ Fetching' /\ Leaving'
  <2>1. InCode(eip) /\ Code[eip] \notin PrefixBytes /\ Code[eip] \notin StringOps
    BY <1>7 DEF At
  <2>2. Len(Code) \in Nat
    BY <1>6, StartsTyped
  <2>3. Behind(prog, eip) <= Len(Code) + 1
    BY <1>6, <1>7, <2>1, <2>2 DEF Behind, Code, InCode
  <2>4. eip' + 1 = Behind(prog, eip) \/ eip' + 1 \in prog.starts
    BY <1>6, <1>7 DEF Behind, Code
  <2>5. Leaving'
    BY <1>1, <1>2, <1>7, <2>1, <2>3, <2>4, PlainReturns
  <2> QED
    BY <1>3, <1>7, <2>5
<1> USE DEF HandlerReturns, regs, flags16, lock, ints, gas, history
<1>8. CASE FetchFails
  BY <1>4, <1>5, <1>8 DEF FetchFails
<1>9. CASE Nop
  <2>1. At(Bytes \ (PrefixBytes \cup StringOps)) /\ Code[eip] = "nop"
    BY <1>9 DEF Nop, At, Bytes, Ordinary, PrefixBytes, RepBytes, StringOps
  <2> QED
    BY <1>7, <1>9, <2>1 DEF Nop
<1>10. CASE MovImm
  <2>1. At(Bytes \ (PrefixBytes \cup StringOps)) /\ Code[eip] = "movi"
    BY <1>10 DEF MovImm, At, Bytes, Ordinary, PrefixBytes, RepBytes, StringOps
  <2>2. CASE InCode(eip + 1)
    BY <1>7, <1>10, <2>1, <2>2 DEF MovImm
  <2>3. CASE ~ InCode(eip + 1)
    BY <1>4, <1>5, <1>10, <2>3 DEF MovImm
  <2> QED
    BY <2>2, <2>3
<1>11. CASE SetECX
  <2>1. At(Bytes \ (PrefixBytes \cup StringOps)) /\ Code[eip] = "setcx"
    BY <1>11 DEF SetECX, At, Bytes, Ordinary, PrefixBytes, RepBytes, StringOps
  <2> QED
    BY <1>7, <1>11, <2>1 DEF SetECX
<1>12. CASE SetIF
  <2>1. At(Bytes \ (PrefixBytes \cup StringOps)) /\ Code[eip] \in {"cli", "sti"}
    BY <1>12 DEF SetIF, At, Bytes, Ordinary, PrefixBytes, RepBytes, StringOps
  <2> QED
    BY <1>7, <1>12, <2>1 DEF SetIF
<1>13. CASE DataAccess
  <2>1. At(Bytes \ (PrefixBytes \cup StringOps)) /\ Code[eip] = "mem"
    BY <1>13 DEF DataAccess, At, Bytes, Ordinary, PrefixBytes, RepBytes, StringOps
  <2>2. CASE \E how \in AccessFailure : Throw(how)
    BY <1>4, <1>5, <2>2
  <2>3. CASE pc' = "unwind" /\ UNCHANGED frames
    BY <1>7, <1>13, <2>1, <2>3 DEF DataAccess
  <2> QED
    BY <1>13, <2>2, <2>3 DEF DataAccess
<1>14. CASE Ret
  <2>1. At(Bytes \ (PrefixBytes \cup StringOps)) /\ Code[eip] = "ret"
    BY <1>14 DEF Ret, At, Bytes, Ordinary, PrefixBytes, RepBytes, StringOps
  <2>2. CASE \E how \in AccessFailure : Throw(how)
    BY <1>4, <1>5, <2>2
  <2>3. CASE pc' = "unwind" /\ UNCHANGED frames /\ \E a \in prog.starts : eip' = a - 1
    <3>1. eip' + 1 \in prog.starts
      BY <1>6, <2>3, StartsTyped
    <3> QED
      BY <1>7, <1>14, <2>1, <2>3, <3>1 DEF Ret
  <2> QED
    BY <1>14, <2>2, <2>3 DEF Ret
<1>15. CASE CallHost
  <2>1. At(Bytes \ (PrefixBytes \cup StringOps)) /\ Code[eip] = "out"
    BY <1>15 DEF CallHost, At, Bytes, Ordinary, PrefixBytes, RepBytes, StringOps
  <2> QED
    BY <1>7, <1>15, <2>1 DEF CallHost
<1>16. CASE Fault
  <2>1. At(Bytes \ (PrefixBytes \cup StringOps)) /\ Code[eip] \notin {"movi", "xchg"}
    BY <1>16 DEF Fault, At, Bytes, Faulting, PrefixBytes, RepBytes, StringOps
  <2>2. CASE Code[eip] = "hlt" /\ iflag
    BY <1>7, <1>16, <2>1, <2>2 DEF Fault
  <2>3. CASE ~ (Code[eip] = "hlt" /\ iflag)
    BY <1>4, <1>16, <2>3 DEF Fault, Thrown
  <2> QED
    BY <2>2, <2>3
<1>17. CASE Override
  <2>1. InCode(eip) /\ Code[eip] \in {"66", "67"}
    BY <1>17 DEF Override, At
  <2>2. Code[eip] \in PrefixBytes /\ Code[eip] # "F0" /\ Code[eip] \notin RepBytes
    BY <2>1 DEF PrefixBytes, RepBytes
  <2>3. locked' <=> busmaster'
    BY <1>1, <1>17 DEF Override, Fetching
  <2>4. Fetching'
    BY <1>1, <1>2, <1>17, <2>1, <2>2, <2>3, PrefixCalls DEF Override
  <2>5. pc' = "dispatch"
    BY <1>1, <1>17 DEF Override
  <2> QED
    BY <1>2, <2>4, <2>5, NotInside
<1>18. CASE Retry
  <2>1. Leaving'
    BY <1>1, <1>2, <1>18, SplitReturns DEF Retry, At
  <2> QED
    BY <1>3, <1>18, <2>1 DEF Retry
<1>19. CASE Lock
  <2>1. InCode(eip) /\ Code[eip] = "F0"
    BY <1>19 DEF Lock, At
  <2>2. Code[eip] \in PrefixBytes /\ Code[eip] \notin RepBytes
    BY <2>1 DEF PrefixBytes, RepBytes
  <2>3. locked' <=> busmaster'
    BY <1>19 DEF Lock
  <2>4. Fetching'
    BY <1>1, <1>2, <1>19, <2>1, <2>2, <2>3, PrefixCalls DEF Lock
  <2>5. pc' = "dispatch"
    BY <1>1, <1>19 DEF Lock
  <2> QED
    BY <1>2, <2>4, <2>5, NotInside
<1>20. CASE Xchg
  <2>1. At(Bytes \ (PrefixBytes \cup StringOps)) /\ Code[eip] = "xchg" /\ ~ locked
    BY <1>20 DEF Xchg, At, Bytes, PrefixBytes, RepBytes, StringOps
  <2>2. CASE \E how \in AccessFailure : Throw(how)
    BY <1>4, <1>5, <2>2
  <2>3. CASE pc' = "unwind" /\ UNCHANGED frames
    BY <1>7, <1>20, <2>1, <2>3 DEF Xchg
  <2> QED
    BY <1>20, <2>2, <2>3 DEF Xchg
<1>21. CASE StringOp
  <2>1. CASE \E how \in AccessFailure : Throw(how)
    BY <1>4, <1>5, <2>1
  <2>2. CASE pc' = "unwind" /\ UNCHANGED frames
    <3>1. InCode(eip) /\ Code[eip] \in StringOps /\ (string_compares' => stale)
      BY <1>1, <1>21 DEF StringOp, At, StringOps, Fetching
    <3>2. Leaving'
      BY <1>1, <1>2, <1>21, <2>2, <3>1, StringReturns DEF StringOp
    <3> QED
      BY <1>3, <2>2, <3>2
  <2> QED
    BY <1>21, <2>1, <2>2 DEF StringOp
<1>22. CASE CompareOp
  <2>1. CASE \E how \in AccessFailure : Throw(how)
    BY <1>4, <1>5, <2>1
  <2>2. CASE /\ pc' = "unwind" /\ UNCHANGED frames /\ InCode(eip - 1)
             /\ string_compares' = (string_compares \/ Code[eip - 1] \in RepBytes)
    <3>1. InCode(eip) /\ Code[eip] = "cmps" /\ Code[eip] \in StringOps
      BY <1>1, <1>22 DEF CompareOp, At, StringOps, Fetching
    <3>2. Leaving'
      BY <1>1, <1>2, <1>22, <2>2, <3>1, StringReturns DEF CompareOp
    <3> QED
      BY <1>3, <2>2, <3>2
  <2> QED
    BY <1>22, <2>1, <2>2 DEF CompareOp
<1>23. CASE Rep
  <2>1. InCode(eip) /\ Code[eip] \in RepBytes /\ Code[eip] \in PrefixBytes /\ Code[eip] # "F0"
    BY <1>23 DEF Rep, At, RepBytes, PrefixBytes
  <2>2. CASE ~ InCode(eip + 1)
    BY <1>4, <1>5, <1>23, <2>2 DEF Rep
  <2>3. CASE InCode(eip + 1) /\ Code[eip + 1] = "ret"
    <3>1. pc' = "unwind" /\ UNCHANGED <<eip, frames, string_compares>>
      BY <1>23, <2>3 DEF Rep, StringOps
    <3>2. Leaving'
      BY <1>1, <1>2, <2>1, <2>3, <3>1, RepBeforeRet
    <3> QED
      BY <1>3, <3>1, <3>2
  <2>4. CASE InCode(eip + 1) /\ Code[eip + 1] \notin StringOps \cup {"ret"}
    BY <1>4, <1>23, <2>4 DEF Rep, Thrown
  <2>5. CASE InCode(eip + 1) /\ Code[eip + 1] \in StringOps /\ counter = 0
    <3>1. pc' = "unwind" /\ eip' = eip + 1 /\ UNCHANGED <<ecx, frames, string_compares>>
      BY <1>23, <2>5 DEF Rep, StringOps
    <3>2. Leaving'
      BY <1>1, <1>2, <2>1, <2>5, <3>1, RepIsOver
    <3> QED
      BY <1>3, <3>1, <3>2
  <2>6. CASE InCode(eip + 1) /\ Code[eip + 1] \in StringOps /\ counter # 0
    <3>1. /\ pc' = "dispatch" /\ eip' = eip + 1 /\ frames' = Append(frames, Code[eip])
          /\ UNCHANGED <<string_compares, locked, busmaster>>
      BY <1>1, <1>23, <2>6 DEF Rep, StringOps
    <3>2. locked' <=> busmaster'
      BY <1>1, <3>1 DEF Fetching
    <3>3. Fetching'
      BY <1>1, <1>2, <2>1, <2>6, <3>1, <3>2, PrefixCalls
    <3> QED
      BY <1>2, <3>1, <3>3, NotInside
  <2> QED
    BY <2>2, <2>3, <2>4, <2>5, <2>6
<1> QED
  BY <1>8, <1>9, <1>10, <1>11, <1>12, <1>13, <1>14, <1>15, <1>16, <1>17, <1>18, <1>19,
     <1>20, <1>21, <1>22, <1>23 DEF Dispatch

LEMMA UnwindKeepsPlace ==
  ASSUME InstructionInv, Unwind
  PROVE  AtInstruction' /\ Fetching' /\ Leaving'
<1> USE DEF InstructionInv, regs, flags16, lock, ints, gas, history
<1>1. CASE LeaveOverride
  <2>1. Returning(PrefixBytes \ RepBytes)
    BY <1>1 DEF LeaveOverride, Returning, PrefixBytes, RepBytes
  <2>2. Leaving'
    BY <1>1, <2>1, PrefixReturns DEF LeaveOverride
  <2>3. pc' = "unwind"
    BY <1>1 DEF LeaveOverride, Returning
  <2> QED
    BY <1>1, <2>2, <2>3, NotInside DEF LeaveOverride
<1>2. CASE LeaveLock
  <2>1. Returning(PrefixBytes \ RepBytes)
    BY <1>2 DEF LeaveLock, Returning, PrefixBytes, RepBytes
  <2>2. Leaving'
    BY <1>2, <2>1, PrefixReturns DEF LeaveLock
  <2>3. pc' = "unwind"
    BY <1>2 DEF LeaveLock, Returning
  <2> QED
    BY <1>2, <2>2, <2>3, NotInside DEF LeaveLock
<1>3. CASE LeaveRep
  <2>1. Leaving'
    BY <1>3, RepReturns
  <2>2. pc' = "unwind"
    BY <1>3 DEF LeaveRep, Returning
  <2> QED
    BY <1>3, <2>1, <2>2, NotInside DEF LeaveRep
<1>4. CASE EndCycle
  <2>1. pc' \in {"host", "top"} /\ prog' = prog /\ saved' = saved
    BY <1>4 DEF EndCycle, Return
  <2>2. eip' \in prog.starts
    BY <1>4 DEF EndCycle, Leaving
  <2> QED
    BY <2>1, <2>2 DEF AtInstruction, Fetching, Leaving
<1> QED
  BY <1>1, <1>2, <1>3, <1>4 DEF Unwind

LEMMA LoopKeepsPlace ==
  ASSUME InstructionInv, LeaveExec \/ TakeInterrupt \/ StartCycle
  PROVE  AtInstruction' /\ Fetching' /\ Leaving'
<1> USE DEF InstructionInv, regs, flags16, lock, ints, gas, history
<1>1. CASE LeaveExec
  <2>1. pc = "top" /\ pc' = "host" /\ UNCHANGED <<prog, saved, eip>>
    BY <1>1 DEF LeaveExec, Return
  <2> QED
    BY <2>1 DEF AtInstruction, Fetching, Leaving
<1>2. CASE TakeInterrupt
  BY <1>2, ThrowLeaves DEF TakeInterrupt, Thrown
<1>3. CASE StartCycle
  <2>1. /\ pc = "top" /\ pc' = "dispatch" /\ beginEIP' = eip
        /\ stale' = string_compares
        /\ UNCHANGED <<prog, saved, eip, string_compares, frames, locked, busmaster>>
    BY <1>3 DEF StartCycle, GoesOn
  <2>2. frames = << >> /\ prog \in Programs /\ ~ busmaster
    BY <2>1 DEF EngineInv, TypeOK, LockScope
  <2>3. ~ locked
    BY <1>3, <2>2 DEF StartCycle, Blocked
  <2>4. PICK b \in prog.starts : b = eip
    BY <2>1 DEF AtInstruction
  <2>5. Len(Code) \in Nat /\ b \in 1 .. Len(Code) + 1 /\ Code' = Code
    BY <2>1, <2>2, StartsTyped DEF Code
  <2>6. b .. b - 1 = {} /\ b \in b .. Len(Code) + 1 /\ Len(frames) = b - b
    BY <2>2, <2>5, EmptySeq
  <2>7. Ahead(prog, b, b)
    BY <2>6 DEF Ahead
  <2>8. string_compares' => stale'
    BY <2>1
  <2>9. beginEIP' = b /\ eip' = b /\ frames' = frames
    BY <2>1, <2>4
  <2>10. Ahead(prog, beginEIP, eip)'
    BY <2>1, <2>7, <2>9 DEF Ahead
  <2>11. Fetching'
    BY <2>1, <2>2, <2>3, <2>4, <2>5, <2>6, <2>8, <2>9, <2>10 DEF Fetching
  <2> QED
    BY <2>1, <2>11, NotInside
<1> QED
  BY <1>1, <1>2, <1>3

LEMMA HostKeepsPlace ==
  ASSUME InstructionInv, Host
  PROVE  AtInstruction' /\ Fetching' /\ Leaving'
<1> USE DEF InstructionInv, regs, flags16, lock, ints, gas, history
<1>1. pc' \in {"host", "top"} /\ prog' = prog
  BY DEF Host, Exec, RaiseInt, setGasLimit, Stop, Reset, SaveState, LoadState, ResetParts
<1>2. 1 \in prog.starts
  BY StartsTyped DEF EngineInv, TypeOK
<1>3. AtInstruction'
  <2>1. ASSUME NEW n \in 1 .. MaxCycles, Exec(n) PROVE AtInstruction'
    BY <2>1 DEF Exec, AtInstruction
  <2>2. ASSUME NEW isNMI \in BOOLEAN, RaiseInt(isNMI) PROVE AtInstruction'
    BY <2>2 DEF RaiseInt, AtInstruction, Faulted
  <2>3. ASSUME NEW limit \in 0 .. MaxGas, setGasLimit(limit) PROVE AtInstruction'
    BY <2>3 DEF setGasLimit, AtInstruction, Faulted
  <2>4. CASE Stop
    BY <2>4 DEF Stop, AtInstruction, Faulted
  <2>5. CASE Reset
    BY <1>2, <2>5 DEF Reset, ResetParts, AtInstruction
  <2>6. CASE SaveState
    BY <2>6 DEF SaveState, AtInstruction, Faulted
  <2>7. CASE LoadState
    BY <2>7 DEF LoadState, ResetParts, AtInstruction
  <2> QED
    BY <2>1, <2>2, <2>3, <2>4, <2>5, <2>6, <2>7 DEF Host
<1> QED
  BY <1>1, <1>3 DEF Fetching, Leaving

LEMMA InstructionInductive == Spec => []InstructionInv
<1>1. Init => AtInstruction /\ Fetching /\ Leaving
  BY StartsTyped DEF Init, AtInstruction, Fetching, Leaving
<1>2. EngineInv /\ AtInstruction /\ Fetching /\ Leaving /\ [Next]_vars
        => AtInstruction' /\ Fetching' /\ Leaving'
  <2> SUFFICES ASSUME InstructionInv, [Next]_vars
               PROVE  AtInstruction' /\ Fetching' /\ Leaving'
    BY DEF InstructionInv
  <2>1. CASE UNCHANGED vars
    <3>1. UNCHANGED <<prog, pc, frames, outcome, eip, beginEIP, ecx, zf, string_compares,
                      locked, busmaster, saved, stale>>
      BY <2>1 DEF vars, regs, lock, history
    <3>2. AtInstruction'
      BY <3>1 DEF InstructionInv, AtInstruction, Faulted
    <3>3. Fetching'
      <4>1. Code' = Code /\ (Ahead(prog, beginEIP, eip)' <=> Ahead(prog, beginEIP, eip))
        BY <3>1 DEF Code, Ahead
      <4> QED
        BY <3>1, <4>1 DEF InstructionInv, Fetching, InCode
    <3>4. Leaving'
      <4>1. /\ IsRep(beginEIP)' <=> IsRep(beginEIP)
            /\ End(beginEIP)' = End(beginEIP) /\ Code' = Code
            /\ CountOf(beginEIP)' = CountOf(beginEIP)
            /\ Topped(RepBytes)' <=> Topped(RepBytes)
            /\ Top' = Top
        BY <3>1, SameProgram DEF CountOf, Topped, Top
      <4> QED
        BY <3>1, <4>1 DEF InstructionInv, Leaving
    <3> QED
      BY <3>2, <3>3, <3>4
  <2>2. CASE Next
    BY <2>1, <2>2, HostKeepsPlace, LoopKeepsPlace, DispatchKeepsPlace, UnwindKeepsPlace
       DEF Next, Running, Spin
  <2> QED
    BY <2>1, <2>2
<1> QED
  BY <1>1, <1>2, EngineInductive, PTL DEF Spec, InstructionInv

-----------------------------------------------------------------------------
(* The results.                                                            *)

\* Every variable keeps its type, whatever program runs and whatever the host does
\* between the calls of Exec.
THEOREM EngineTypeCorrect == Spec => []TypeOK
<1>1. EngineInv => TypeOK
  BY DEF EngineInv
<1> QED
  BY <1>1, EngineInductive, PTL

\* The size flags are those of the prefix handlers that wait, and no flag is left
\* for the next instruction: however prefixes, REP, LOCK, exchanges and faults nest.
THEOREM FlagsScoped == Spec => []FlagScope
<1>1. EngineInv => FlagScope
  BY DEF EngineInv
<1> QED
  BY <1>1, EngineInductive, PTL

\* The CPU is bus master exactly inside a LOCK prefix while nothing is thrown, and a
\* bus master finds the memory locked.
THEOREM LockScoped == Spec => []LockScope
<1>1. EngineInv => LockScope
  BY DEF EngineInv
<1> QED
  BY <1>1, EngineInductive, PTL

\* Every cycle that does not throw is charged once, and none begins with the gas overdrawn:
\* with any number of repetitions, retries, Stops, resets and limits.
THEOREM GasBounds == Spec => []GasCoversCycles
<1>1. EngineInv => GasCoversCycles
  BY DEF EngineInv, TypeOK, GasCounted, GasCoversCycles
<1> QED
  BY <1>1, EngineInductive, PTL

\* Every cycle begins where the assembler has put an instruction, whatever repeats, returns,
\* faults or is loaded.
THEOREM CyclesStartAtInstructions == Spec => []StartsAtInstruction
<1>1. InstructionInv => StartsAtInstruction
  BY DEF InstructionInv, AtInstruction, StartsAtInstruction
<1> QED
  BY <1>1, InstructionInductive, PTL

\* Every opcode runs under the prefixes of its own instruction and no others, for every order
\* and number of them.
THEOREM OwnPrefixesApply == Spec => []PrefixesApply
<1>1. ASSUME InstructionInv
      PROVE  PrefixesApply
  <2> SUFFICES ASSUME pc = "dispatch", InCode(eip), Code[eip] \notin PrefixBytes
               PROVE  /\ OperandSize16 <=> "66" \in PrefixesAt(eip)
                      /\ AddressSize16 <=> "67" \in PrefixesAt(eip)
                      /\ "F0" \in PrefixesAt(eip) => busmaster
    BY DEF PrefixesApply
  <2> USE <1>1 DEF InstructionInv
  <2>1. /\ prog \in Programs /\ beginEIP \in prog.starts /\ eip \in beginEIP .. Len(Code)
        /\ Ahead(prog, beginEIP, eip)
        /\ \A q : Waiting(q) <=> \E i \in beginEIP .. eip - 1 : Code[i] = q
        /\ IF Code[eip] \in {"F0", "xchg"} /\ locked
           THEN Splits(prog, beginEIP, eip) /\ eip > beginEIP
           ELSE ~ Splits(prog, beginEIP, eip)
    BY NoSplit
  <2>2. PICK b \in prog.starts : b = beginEIP
    BY <2>1
  <2>3. Len(Code) \in Nat /\ b \in Int /\ eip \in b .. Len(Code)
    BY <2>1, <2>2, StartsTyped
  <2>4. /\ OperandSize16 <=> Waiting("66")
        /\ AddressSize16 <=> Waiting("67")
        /\ busmaster <=> Waiting("F0")
    BY DEF EngineInv, FlagScope, LockScope
  <2>5. CASE Code[eip] = "xchg" /\ locked
    <3>1. Splits(prog, b, eip) /\ eip > b /\ Ahead(prog, b, eip)
      BY <2>1, <2>2, <2>5
    <3>2. eip \in prog.starts /\ eip = b + 1
      BY <2>1, <2>3, <3>1, SplitEnds
    <3>3. Code[b] = "F0"
      <4>1. \E i \in b .. eip - 1 : Code[i] = "F0"
        BY <2>5, <3>1 DEF Splits, Code
      <4> QED
        BY <2>3, <3>2, <4>1
    <3>4. StartOf(eip) = eip
      <4>1. eip + 1 .. eip = {}
        BY <2>3
      <4> QED
        BY <2>1, <2>3, <3>2, <4>1, StartIs
    <3>5. PrefixesAt(eip) = {}
      <4>1. eip .. eip - 1 = {}
        BY <2>3
      <4> QED
        BY <3>4, <4>1 DEF PrefixesAt
    <3>6. ~ Waiting("66") /\ ~ Waiting("67")
      <4>1. \A i \in b .. eip - 1 : i = b
        BY <2>3, <3>2
      <4> QED
        BY <2>1, <2>2, <3>3, <4>1
    <3> QED
      BY <2>4, <3>5, <3>6
  <2>6. CASE ~ (Code[eip] = "xchg" /\ locked)
    <3>1. ~ Splits(prog, b, eip) /\ Ahead(prog, b, eip)
      BY <2>1, <2>2, <2>6 DEF PrefixBytes
    <3>2. \A i \in b + 1 .. eip : i \notin prog.starts
      <4>1. eip > b => eip \notin prog.starts
        BY <2>1, <2>3, <3>1, StartsTyped DEF Assembled, Code
      <4> QED
        BY <2>3, <3>1, <4>1 DEF Ahead
    <3>3. StartOf(eip) = b
      BY <2>1, <2>3, <3>2, StartIs
    <3>4. \A q : q \in PrefixesAt(eip) <=> Waiting(q)
      BY <2>1, <2>2, <3>3 DEF PrefixesAt
    <3> QED
      BY <2>4, <3>4
  <2> QED
    BY <2>5, <2>6
<1> QED
  BY <1>1, InstructionInductive, PTL

\* A repetition is left only when its counter, in CX or ECX as its prefixes say, is zero or a
\* comparison ends it, its own or one remembered from before the cycle; else the next cycle begins with its first prefix again.
THEOREM RepetitionsComplete == Spec => RepCompletes
<1>1. ASSUME InstructionInv, EndCycle, IsRep(beginEIP)
      PROVE  LET e == End(beginEIP) IN
               /\ eip' \in {beginEIP, e}
               /\ eip' = e => \/ CountOf(beginEIP) = 0
                              \/ (Code[e - 1] = "cmps" \/ stale) /\ (Code[e - 2] = "F2" <=> zf)
  <2>1. pc = "unwind" /\ ~ Topped(RepBytes) /\ eip' = eip + 1
    BY <1>1 DEF EndCycle, Topped
  <2>2. PICK b \in Int, e \in Int : b = beginEIP /\ e = End(beginEIP) /\ b < e
    <3>1. prog \in Programs
      BY <1>1 DEF InstructionInv, EngineInv, TypeOK
    <3>2. prog.starts \subseteq Nat /\ beginEIP \in prog.starts
      BY <1>1, <3>1, StartsTyped DEF IsRep
    <3>3. End(beginEIP) \in prog.starts /\ End(beginEIP) > beginEIP
      <4>1. PICK x \in prog.starts : x > beginEIP
        BY <1>1 DEF IsRep
      <4> QED
        BY <3>1, <3>2, <4>1, NextStart
    <3> QED
      BY <3>2, <3>3
  <2>3. \/ eip = b - 1
        \/ /\ eip = e - 1
           /\ \/ CountOf(b) = 0
              \/ (Code[e - 1] = "cmps" \/ stale) /\ (Code[e - 2] = "F2" <=> zf)
    BY <1>1, <2>1, <2>2 DEF InstructionInv, Leaving
  <2> QED
    BY <2>1, <2>2, <2>3
<1>2. InstructionInv /\ [Next]_vars =>
        [EndCycle /\ IsRep(beginEIP) =>
           LET e == End(beginEIP) IN
             /\ eip' \in {beginEIP, e}
             /\ eip' = e => \/ CountOf(beginEIP) = 0
                            \/ (Code[e - 1] = "cmps" \/ stale) /\ (Code[e - 2] = "F2" <=> zf)]_vars
  BY <1>1
<1> QED
  BY <1>2, InstructionInductive, PTL DEF Spec, RepCompletes

=============================================================================
