------------------------------ MODULE BusProofs ------------------------------
(***************************************************************************)
(* Proofs about the memory the CPUs share: its address space (MemoryBus),  *)
(* for every space, set of devices and sequence of calls, and its lock     *)
(* (BusLock), for any set of CPUs.                                         *)
(*                                                                         *)
(* The two are machines of their own: what is stated of Spec is about      *)
(* MemoryBus, what is stated of LockSpec about BusLock.                    *)
(***************************************************************************)
EXTENDS MemoryBus, BusLock, SequenceTheorems, FiniteSetTheorems, WellFoundedInduction, TLAPS

\* Erasing an entry leaves a vector of the others, in their order.
LEMMA ErasedVector ==
  ASSUME NEW S, NEW s \in Seq(S), NEW k \in 1 .. Len(s)
  PROVE  /\ Erased(s, k) \in Seq(S)
         /\ Len(Erased(s, k)) = Len(s) - 1
         /\ \A i \in 1 .. Len(s) - 1 :
              Erased(s, k)[i] = IF i < k THEN s[i] ELSE s[i + 1]
<1>1. Len(s) - 1 \in Nat
  OBVIOUS
<1>2. \A i \in 1 .. Len(s) - 1 : s[i] \in S /\ s[i + 1] \in S
  OBVIOUS
<1>3. Erased(s, k) \in [1 .. Len(s) - 1 -> S]
  BY <1>2 DEF Erased
<1>4. Erased(s, k) \in Seq(S) /\ Len(Erased(s, k)) = Len(s) - 1
  BY <1>1, <1>3, IsASeq, LenProperties
<1> QED
  BY <1>4 DEF Erased

-----------------------------------------------------------------------------
(* Arithmetic of the bounds checks.                                        *)

\* The remainder of a natural number is a residue, no larger than the number, and
\* the number itself when that is a residue.
LEMMA Residue ==
  ASSUME NEW m \in Nat \ {0}, NEW x \in Nat
  PROVE  /\ x % m \in 0 .. m - 1
         /\ x % m <= x
         /\ x < m => x % m = x
  OBVIOUS

\* An entry of the vector is one of the host's windows.
LEMMA EntryOfRanges ==
  ASSUME TypeOK, NEW i \in 1 .. Len(ranges)
  PROVE  /\ ranges[i] \in Plug
         /\ ranges[i].low \in Addr /\ ranges[i].high \in Addr /\ ranges[i].dev \in Dev
         /\ ranges[i].high - ranges[i].low + MaxCount < AddrMod
<1>1. ranges[i] \in Plug
  BY DEF TypeOK
<1> QED
  BY <1>1, BusAssumption

\* A straddling access moves, in the range it has reached, fewer bytes than it
\* still owes, and that range ends before the top of the space.
LEMMA StraddlingHead ==
  ASSUME TypeOK, NEW i \in 1 .. Len(ranges), Serves(i, addr), left > 0,
         Straddles(ranges[i])
  PROVE  /\ ranges[i].high - addr \in Nat
         /\ ranges[i].high - addr + 1 < left
         /\ ranges[i].high + 1 \in Addr
<1> DEFINE r == ranges[i]
           hi == r.high
           x == (addr + left - 1) % AddrMod
<1>1. r.low \in Addr /\ hi \in Addr
  BY EntryOfRanges
<1>2. AddrMod \in Nat \ {0} /\ MaxCount \in Nat
  BY BusAssumption
<1>3. addr \in Nat /\ left \in Nat /\ addr <= hi
  BY <1>1, <1>2 DEF TypeOK, Addr, Serves, Contains
<1>4. addr + left - 1 \in Nat
  BY <1>3
<1>5. x \in 0 .. AddrMod - 1 /\ x <= addr + left - 1
  BY <1>2, <1>4, Residue
<1>6. x > hi
  BY DEF Straddles
<1> HIDE DEF x, hi
<1>7. hi - addr \in Nat /\ hi - addr + 1 < left /\ hi + 1 \in Addr
  BY <1>1, <1>2, <1>3, <1>5, <1>6 DEF Addr
<1> QED
  BY <1>7 DEF hi

\* An access that ends in its range is at an offset at which the sum of offset and
\* length does not wrap.
LEMMA LastOffset ==
  ASSUME TypeOK, NEW i \in 1 .. Len(ranges), Serves(i, addr), left > 0,
         Fits(ranges[i].dev, addr - ranges[i].low, left)
  PROVE  /\ addr - ranges[i].low \in Nat
         /\ addr - ranges[i].low + left <= Size[ranges[i].dev]
<1> DEFINE r == ranges[i]
<1>1. r.low \in Addr /\ r.high \in Addr /\ r.high - r.low + MaxCount < AddrMod
  BY EntryOfRanges
<1>2. AddrMod \in Nat \ {0} /\ MaxCount \in Nat
  BY BusAssumption
<1>3. addr \in Nat /\ left \in Nat /\ left <= MaxCount /\ r.low <= addr /\ addr <= r.high
  BY <1>1, <1>2 DEF TypeOK, Addr, Serves, Contains
<1>4. addr - r.low + left \in Nat /\ addr - r.low + left < AddrMod
  BY <1>1, <1>2, <1>3 DEF Addr
<1>5. (addr - r.low + left) % AddrMod = addr - r.low + left
  BY <1>2, <1>4, Residue
<1> QED
  BY <1>1, <1>3, <1>5 DEF Fits, Addr

\* memcpy between a device and the caller's buffer keeps both typed.
LEMMA LoadedType ==
  ASSUME TypeOK, NEW d \in Dev, NEW off \in Nat, NEW n \in Nat, off + n <= Size[d]
  PROVE  Loaded(d, off, n) \in [BufIndex -> Byte]
<1>1. mem[d] \in [0 .. Size[d] - 1 -> Byte] /\ Size[d] \in Nat /\ buf \in [BufIndex -> Byte] /\ pos \in Nat
  BY BusAssumption DEF TypeOK, Content
<1>2. ASSUME NEW i \in BufIndex, pos <= i, i < pos + n
      PROVE  mem[d][off + i - pos] \in Byte
  <2>1. i \in Nat
    BY BusAssumption DEF BufIndex
  <2>2. off + i - pos \in 0 .. Size[d] - 1
    BY <1>1, <1>2, <2>1
  <2> QED
    BY <1>1, <2>2
<1> QED
  BY <1>1, <1>2 DEF Loaded

LEMMA StoredType ==
  ASSUME TypeOK, NEW d \in Dev, NEW off \in Nat, NEW n \in Nat, pos + n <= MaxCount
  PROVE  Stored(d, off, n) \in Content(d)
<1>1. mem[d] \in [0 .. Size[d] - 1 -> Byte] /\ Size[d] \in Nat /\ buf \in [BufIndex -> Byte] /\ pos \in Nat
  BY BusAssumption DEF TypeOK, Content
<1>2. ASSUME NEW o \in 0 .. Size[d] - 1, off <= o, o < off + n
      PROVE  buf[pos + o - off] \in Byte
  <2>1. pos + o - off \in BufIndex
    BY <1>1, <1>2, BusAssumption DEF BufIndex
  <2> QED
    BY <1>1, <2>1
<1> QED
  BY <1>1, <1>2 DEF Stored, Content

-----------------------------------------------------------------------------
(* Types, and the bytes a running access still owes.  Neither is inductive   *)
(* alone: that a write stays inside the buffer needs its ledger.             *)

AccessInv == TypeOK /\ AccessLedger

LEMMA AccessInit == Init => AccessInv
<1> SUFFICES ASSUME Init PROVE AccessInv
  OBVIOUS
<1>1. ranges \in Seq(Plug)
  BY EmptySeq DEF Init
<1>2. mem \in [Dev -> AnyContent] /\ \A d \in Dev : mem[d] \in Content(d)
  BY BusAssumption DEF Init
<1>3. buf \in [BufIndex -> Byte] /\ 0 \in Addr /\ 0 \in 0 .. MaxCount
  BY BusAssumption DEF Init, Addr
<1>4. /\ op = "idle" /\ it = 1 /\ c = 0 /\ start = 0 /\ count = 0 /\ addr = 0
      /\ left = 0 /\ pos = 0 /\ result = "ok"
  BY DEF Init
<1>5. refused \in BOOLEAN
  BY DEF Init
<1>6. TypeOK
  BY <1>1, <1>2, <1>3, <1>4, <1>5 DEF TypeOK
<1>7. AccessLedger
  BY <1>4 DEF AccessLedger
<1> QED
  BY <1>6, <1>7 DEF AccessInv

\* Steps of the host: Add and the erasing loops.
LEMMA HostKeepsAccess ==
  ASSUME AccessInv,
         \/ \E p \in Plug : Add(p)
         \/ \E k \in {"removeLow", "removeDev", "rangeFree"} : \E x : BeginErase(k, x)
         \/ EraseEntry \/ KeepEntry \/ EndErase
  PROVE  AccessInv'
<1> USE DEF AccessInv, AccessLedger, accessVars
<1>1. ASSUME NEW p \in Plug, Add(p) PROVE AccessInv'
  <2>1. ranges' \in Seq(Plug)
    BY <1>1, AppendProperties DEF Add, TypeOK
  <2>2. refused' \in BOOLEAN
    BY <1>1 DEF Add, Contained
  <2> QED
    BY <1>1, <2>1, <2>2 DEF Add, TypeOK
<1>2. ASSUME NEW k \in {"removeLow", "removeDev", "rangeFree"}, NEW x, BeginErase(k, x)
      PROVE  AccessInv'
  BY <1>2 DEF BeginErase, TypeOK
<1>3. CASE EraseEntry
  <2>1. it \in 1 .. Len(ranges)
    BY <1>3 DEF EraseEntry, TypeOK
  <2>2. ranges' \in Seq(Plug)
    BY <1>3, <2>1, ErasedVector DEF EraseEntry, TypeOK
  <2> QED
    BY <1>3, <2>2 DEF EraseEntry, TypeOK
<1>4. CASE KeepEntry
  BY <1>4 DEF KeepEntry, TypeOK
<1>5. CASE EndErase
  BY <1>5 DEF EndErase, Erasing, TypeOK
<1> QED
  BY <1>1, <1>2, <1>3, <1>4, <1>5

\* A new access, and one that ends without moving a byte.
LEMMA BoundsKeepAccess ==
  ASSUME AccessInv, Access \/ ReturnEmpty \/ NoMatch \/ (InAccess /\ DeviceThrows)
  PROVE  AccessInv'
<1> USE DEF AccessInv, AccessLedger, mapVars
<1>1. ASSUME NEW a \in Addr, NEW n \in 0 .. MaxCount, BeginRead(a, n) PROVE AccessInv'
  BY <1>1, BusAssumption DEF BeginRead, TypeOK, Addr
<1>2. ASSUME NEW a \in Addr, NEW n \in 0 .. MaxCount, NEW data \in [0 .. n - 1 -> Byte],
             BeginWrite(a, n, data)
      PROVE  AccessInv'
  <2>1. buf' \in [BufIndex -> Byte]
    <3>1. \A i \in BufIndex : i \in Nat
      BY BusAssumption DEF BufIndex
    <3>2. \A i \in BufIndex : (IF i < n THEN data[i] ELSE Zero) \in Byte
      BY <3>1, BusAssumption
    <3> QED
      BY <1>2, <3>2 DEF BeginWrite
  <2> QED
    BY <1>2, <2>1, BusAssumption DEF BeginWrite, TypeOK, Addr
<1>3. ASSUME NEW outcome \in {"ok", "MemoryException", "MemoryException*"},
             Done(outcome), UNCHANGED <<mem, buf>>
      PROVE  AccessInv'
  BY <1>3, BusAssumption DEF Done, TypeOK, Addr
<1> QED
  BY <1>1, <1>2, <1>3 DEF Access, ReturnEmpty, NoMatch, DeviceThrows

\* A call on the device that serves the access.
LEMMA ReadKeepsAccess ==
  ASSUME AccessInv, ReadStep
  PROVE  AccessInv'
<1> USE DEF AccessInv
<1>1. PICK i \in 1 .. Len(ranges) :
        /\ Serves(i, addr)
        /\ IF Straddles(ranges[i]) THEN ReadHead(ranges[i]) ELSE ReadLast(ranges[i])
  BY DEF ReadStep
<1> DEFINE r == ranges[i]
<1>2. op = "read" /\ left > 0
  BY DEF ReadStep
<1>3. r.low \in Addr /\ r.high \in Addr /\ r.dev \in Dev
  BY EntryOfRanges
<1>4. CASE DeviceThrows
  BY <1>2, <1>4, BoundsKeepAccess DEF InAccess
<1>5. CASE Straddles(r) /\ ~ DeviceThrows
  <2>1. PICK h \in Addr, d \in Dev : h = r.high /\ d = r.dev
    BY <1>3
  <2>2. h - addr \in Nat /\ h - addr + 1 < left /\ h + 1 \in Addr
    BY <1>1, <1>2, <1>5, <2>1, StraddlingHead
  <2>3. /\ buf' = Loaded(d, addr, h - addr + 1) /\ Fits(d, addr, h - addr + 1)
        /\ left' = left - (h - addr) /\ pos' = pos + (h - addr) + 1 /\ addr' = h + 1
        /\ UNCHANGED <<mapVars, mem, op, start, count, result>>
    BY <1>1, <1>5, <2>1 DEF ReadHead
  <2>4. /\ addr \in Nat /\ left \in Nat /\ pos \in Nat /\ start \in Nat /\ h \in Nat
        /\ count \in Nat
    BY <2>1, BusAssumption DEF TypeOK, Addr
  <2>5. addr + (h - addr + 1) <= Size[d]
    <3>1. addr + (h - addr + 1) = h + 1
      BY <2>4
    <3>2. h + 1 \in Nat /\ h + 1 < AddrMod
      BY <2>2, <2>4, BusAssumption DEF Addr
    <3>3. (h + 1) % AddrMod = h + 1
      BY <3>2, BusAssumption, Residue
    <3> QED
      BY <2>3, <3>1, <3>3 DEF Fits
  <2>6. buf' \in [BufIndex -> Byte]
    <3>1. h - addr + 1 \in Nat
      BY <2>2
    <3> QED
      BY <2>1, <2>3, <2>4, <2>5, <3>1, LoadedType
  <2>7. left' \in 0 .. MaxCount /\ pos' \in Nat
    BY <2>2, <2>3, <2>4, BusAssumption DEF TypeOK
  <2>8. pos' = addr' - start /\ pos' + left' >= count
    <3>1. pos = addr - start /\ pos + left >= count
      BY <1>2 DEF AccessLedger
    <3> QED
      BY <2>2, <2>3, <2>4, <3>1
  <2>9. TypeOK'
    BY <1>2, <2>2, <2>3, <2>6, <2>7 DEF TypeOK, mapVars
  <2>10. AccessLedger'
    BY <1>2, <2>3, <2>8 DEF AccessLedger
  <2> QED
    BY <2>9, <2>10
<1>6. CASE ~ Straddles(r) /\ ~ DeviceThrows
  <2>1. /\ buf' = Loaded(r.dev, addr - r.low, left) /\ Fits(r.dev, addr - r.low, left)
        /\ Done("ok") /\ UNCHANGED mem
    BY <1>1, <1>6 DEF ReadLast
  <2>2. addr - r.low \in Nat /\ addr - r.low + left <= Size[r.dev]
    BY <1>1, <1>2, <2>1, LastOffset
  <2>3. buf' \in [BufIndex -> Byte]
    BY <1>3, <2>1, <2>2, LoadedType DEF TypeOK
  <2>4. /\ op' = "idle" /\ result' = "ok" /\ start' = 0 /\ addr' = 0 /\ left' = 0
        /\ pos' = 0 /\ mem' = mem /\ count' = count /\ UNCHANGED mapVars
    BY <2>1 DEF Done
  <2>5. 0 \in Addr /\ 0 \in 0 .. MaxCount
    BY BusAssumption DEF Addr
  <2>6. TypeOK'
    BY <2>3, <2>4, <2>5 DEF TypeOK, mapVars
  <2>7. AccessLedger'
    BY <2>4 DEF AccessLedger
  <2> QED
    BY <2>6, <2>7
<1> QED
  BY <1>4, <1>5, <1>6

LEMMA WriteKeepsAccess ==
  ASSUME AccessInv, WriteStep
  PROVE  AccessInv'
<1> USE DEF AccessInv
<1>1. PICK i \in 1 .. Len(ranges) :
        /\ Serves(i, addr)
        /\ IF Straddles(ranges[i]) THEN WriteHead(ranges[i]) ELSE WriteLast(ranges[i])
  BY DEF WriteStep
<1> DEFINE r == ranges[i]
<1>2. op = "write" /\ left > 0
  BY DEF WriteStep
<1>3. r.low \in Addr /\ r.high \in Addr /\ r.dev \in Dev
  BY EntryOfRanges
<1>4. CASE DeviceThrows
  BY <1>2, <1>4, BoundsKeepAccess DEF InAccess
<1>5. ASSUME NEW off \in Nat, NEW n \in Nat, n <= left,
             mem' = [mem EXCEPT ![r.dev] = Stored(r.dev, off, n)]
      PROVE  /\ mem' \in [Dev -> AnyContent]
             /\ \A d \in Dev : mem'[d] \in Content(d)
  <2>1. pos + n <= MaxCount
    <3>1. /\ pos \in Nat /\ left \in Nat /\ count \in Nat /\ count <= MaxCount
          /\ MaxCount \in Nat
      BY BusAssumption DEF TypeOK
    <3>2. pos + left = count
      BY <1>2 DEF AccessLedger
    <3> QED
      BY <1>5, <3>1, <3>2
  <2>2. Stored(r.dev, off, n) \in Content(r.dev)
    BY <1>3, <2>1, StoredType
  <2>3. Stored(r.dev, off, n) \in AnyContent
    BY <1>3, <2>2 DEF AnyContent
  <2> QED
    BY <1>3, <1>5, <2>2, <2>3 DEF TypeOK
<1>6. CASE Straddles(r) /\ ~ DeviceThrows
  <2>1. PICK h \in Addr : h = r.high
    BY <1>3
  <2>2. h - addr \in Nat /\ h - addr + 1 < left /\ h + 1 \in Addr
    BY <1>1, <1>2, <1>6, <2>1, StraddlingHead
  <2>3. /\ mem' = [mem EXCEPT ![r.dev] = Stored(r.dev, h - addr, h - addr + 1)]
        /\ left' = left - (h - addr) /\ pos' = pos + (h - addr) /\ addr' = h + 1
        /\ UNCHANGED <<mapVars, op, start, count, buf, result>>
    BY <1>1, <1>6, <2>1 DEF WriteHead
  <2>4. /\ addr \in Nat /\ left \in Nat /\ pos \in Nat /\ start \in Nat /\ h \in Nat
        /\ count \in Nat
    BY <2>1, BusAssumption DEF TypeOK, Addr
  <2>5. /\ mem' \in [Dev -> AnyContent]
        /\ \A d \in Dev : mem'[d] \in Content(d)
    <3>1. h - addr + 1 \in Nat /\ h - addr + 1 <= left
      BY <2>2, <2>4
    <3> QED
      BY <1>5, <2>2, <2>3, <3>1
  <2>6. left' \in 0 .. MaxCount /\ pos' \in Nat
    BY <2>2, <2>3, <2>4, BusAssumption DEF TypeOK
  <2>7. pos' + left' = count /\ pos' <= addr' - start
    <3>1. pos + left = count /\ pos <= addr - start
      BY <1>2 DEF AccessLedger
    <3> QED
      BY <2>2, <2>3, <2>4, <3>1
  <2>8. TypeOK'
    BY <1>2, <2>2, <2>3, <2>5, <2>6 DEF TypeOK, mapVars
  <2>9. AccessLedger'
    BY <1>2, <2>3, <2>7 DEF AccessLedger
  <2> QED
    BY <2>8, <2>9
<1>7. CASE ~ Straddles(r) /\ ~ DeviceThrows
  <2>1. /\ mem' = [mem EXCEPT ![r.dev] = Stored(r.dev, addr - r.low, left)]
        /\ Fits(r.dev, addr - r.low, left) /\ Done("ok") /\ UNCHANGED buf
    BY <1>1, <1>7 DEF WriteLast
  <2>2. addr - r.low \in Nat /\ left \in Nat
    BY <1>1, <1>2, <2>1, LastOffset DEF TypeOK
  <2>3. /\ mem' \in [Dev -> AnyContent]
        /\ \A d \in Dev : mem'[d] \in Content(d)
    <3>1. left <= left
      BY <2>2
    <3> QED
      BY <1>5, <2>1, <2>2, <3>1
  <2>4. /\ op' = "idle" /\ result' = "ok" /\ start' = 0 /\ addr' = 0 /\ left' = 0
        /\ pos' = 0 /\ UNCHANGED <<mapVars, count, buf>>
    BY <2>1 DEF Done
  <2>5. TypeOK'
    BY <2>3, <2>4, BusAssumption DEF TypeOK, mapVars, Addr
  <2>6. AccessLedger'
    BY <2>4 DEF AccessLedger
  <2> QED
    BY <2>5, <2>6
<1> QED
  BY <1>4, <1>6, <1>7

LEMMA AccessInductive == AccessInv /\ [Next]_vars => AccessInv'
<1> SUFFICES ASSUME AccessInv, [Next]_vars PROVE AccessInv'
  OBVIOUS
<1>1. CASE Host
  BY <1>1, HostKeepsAccess DEF Host, RemoveLow, RemoveDev, RangeFree
<1>2. CASE Access
  BY <1>2, BoundsKeepAccess
<1>3. CASE Step
  BY <1>3, HostKeepsAccess, BoundsKeepAccess, ReadKeepsAccess, WriteKeepsAccess DEF Step
<1>4. CASE UNCHANGED vars
  BY <1>4 DEF vars, AccessInv, TypeOK, AccessLedger
<1> QED
  BY <1>1, <1>2, <1>3, <1>4 DEF Next

\* Whatever the host maps and the CPU asks for, every access stays typed: no index
\* leaves the address space, the devices' bytes or the bounded buffer.
THEOREM TypeCorrect == Spec => []TypeOK
<1>1. AccessInv => TypeOK
  BY DEF AccessInv
<1> QED
  BY AccessInit, AccessInductive, <1>1, PTL DEF Spec

\* A read is never short and lands where its address says; a write never takes a
\* byte from behind the caller's buffer, however many ranges it crosses.
THEOREM LedgerHolds == Spec => []AccessLedger
<1>1. AccessInv => AccessLedger
  BY DEF AccessInv
<1> QED
  BY AccessInit, AccessInductive, <1>1, PTL DEF Spec

LEMMA BehindCounted ==
  ASSUME NEW rs \in Seq(Plug), NEW s \in Addr, NEW a \in Addr
  PROVE  /\ Cardinality(Behind(rs, s, a)) \in 0 .. Len(rs)
         /\ IsFiniteSet(Behind(rs, s, a))
<1>1. Len(rs) \in Nat /\ Behind(rs, s, a) \in SUBSET (1 .. Len(rs))
  BY DEF Behind
<1>2. IsFiniteSet(1 .. Len(rs)) /\ Cardinality(1 .. Len(rs)) = Len(rs)
  <2>1. PICK n \in Nat : n = Len(rs)
    BY <1>1
  <2>2. IsFiniteSet(1 .. n) /\ Cardinality(1 .. n) = IF 1 > n THEN 0 ELSE n - 1 + 1
    BY FS_Interval
  <2> QED
    BY <2>1, <2>2
<1>3. IsFiniteSet(Behind(rs, s, a)) /\ Cardinality(Behind(rs, s, a)) <= Len(rs)
  BY <1>1, <1>2, FS_Subset
<1> QED
  BY <1>1, <1>3, FS_CardinalityType

\* Crossing the end of entry i counts once more.
LEMMA BehindGrows ==
  ASSUME NEW rs \in Seq(Plug), NEW s \in Addr, NEW a \in Addr, s <= a,
         NEW i \in 1 .. Len(rs), NEW h \in Addr, h = rs[i].high, a <= h, h + 1 \in Addr
  PROVE  Cardinality(Behind(rs, s, a)) + 1 <= Cardinality(Behind(rs, s, h + 1))
<1>1. s \in Nat /\ a \in Nat /\ h \in Nat
  BY BusAssumption DEF Addr
<1>2. i \notin Behind(rs, s, a)
  BY <1>1 DEF Behind
<1>3. Behind(rs, s, a) \cup {i} \subseteq Behind(rs, s, h + 1)
  <2>1. ASSUME NEW j \in Behind(rs, s, a) PROVE j \in Behind(rs, s, h + 1)
    <3>1. j \in 1 .. Len(rs) /\ rs[j] \in Plug
      BY DEF Behind
    <3>2. rs[j].high \in Nat
      BY <3>1, BusAssumption DEF Addr
    <3>3. PICK g \in Nat : g = rs[j].high
      BY <3>2
    <3>4. s <= g /\ g < a
      BY <3>3 DEF Behind
    <3>5. s <= g /\ g < h + 1
      BY <1>1, <3>4
    <3> QED
      BY <3>1, <3>3, <3>5 DEF Behind
  <2>2. i \in Behind(rs, s, h + 1)
    BY <1>1 DEF Behind
  <2> QED
    BY <2>1, <2>2
<1>4. /\ IsFiniteSet(Behind(rs, s, a))
      /\ Cardinality(Behind(rs, s, a)) \in Nat
  BY BehindCounted
<1>5. /\ IsFiniteSet(Behind(rs, s, h + 1))
      /\ Cardinality(Behind(rs, s, h + 1)) \in Nat
  BY BehindCounted
<1>6. Cardinality(Behind(rs, s, a) \cup {i}) = Cardinality(Behind(rs, s, a)) + 1
  BY <1>2, <1>4, FS_AddElement
<1>7. Cardinality(Behind(rs, s, a) \cup {i}) <= Cardinality(Behind(rs, s, h + 1))
  BY <1>3, <1>5, FS_Subset
<1> QED
  BY <1>6, <1>7

LEMMA OverrunKept == AccessInv /\ OverrunBounded /\ [Next]_vars => OverrunBounded'
<1> SUFFICES ASSUME AccessInv, OverrunBounded, [Next]_vars PROVE OverrunBounded'
  OBVIOUS
<1>1. ASSUME op' # "read" PROVE OverrunBounded'
  BY <1>1 DEF OverrunBounded
<1>2. CASE Host
  BY <1>1, <1>2 DEF Host, Add, RemoveLow, RemoveDev, RangeFree, BeginErase
<1>3. CASE Access
  <2>1. PICK a \in Addr, n \in 0 .. MaxCount :
          start' = a /\ addr' = a /\ count' = n /\ left' = n /\ pos' = 0 /\ ranges' = ranges
    BY <1>3 DEF Access, BeginRead, BeginWrite, mapVars
  <2>2. Cardinality(Behind(ranges, a, a)) \in Nat
    <3>1. ranges \in Seq(Plug)
      BY DEF AccessInv, TypeOK
    <3> QED
      BY <3>1, BehindCounted
  <2>3. 0 + n <= n + Cardinality(Behind(ranges, a, a))
    BY <2>2, BusAssumption
  <2> QED
    BY <2>1, <2>3 DEF OverrunBounded
<1>4. CASE Step
  <2>1. CASE EraseEntry \/ KeepEntry \/ EndErase
    BY <1>1, <2>1 DEF EraseEntry, KeepEntry, EndErase, Erasing
  <2>2. CASE ReturnEmpty \/ NoMatch
    BY <1>1, <2>2 DEF ReturnEmpty, NoMatch, Done
  <2>3. CASE WriteStep
    <3>1. op' # "read"
      BY <2>3 DEF WriteStep, WriteHead, WriteLast, DeviceThrows, Done
    <3> QED
      BY <1>1, <3>1
  <2>4. CASE ReadStep
    <3>1. PICK i \in 1 .. Len(ranges) :
            /\ Serves(i, addr)
            /\ IF Straddles(ranges[i]) THEN ReadHead(ranges[i]) ELSE ReadLast(ranges[i])
      BY <2>4 DEF ReadStep
    <3>2. CASE DeviceThrows \/ ReadLast(ranges[i])
      BY <1>1, <3>2 DEF ReadLast, DeviceThrows, Done
    <3>3. CASE Straddles(ranges[i]) /\ ~ DeviceThrows
      <4>1. /\ op = "read" /\ left > 0 /\ TypeOK /\ pos = addr - start
        BY <2>4 DEF ReadStep, AccessInv, AccessLedger
      <4>2. PICK h \in Addr : h = ranges[i].high
        BY <4>1, EntryOfRanges
      <4>3. h - addr \in Nat /\ h + 1 \in Addr
        BY <3>1, <3>3, <4>1, <4>2, StraddlingHead
      <4>4. /\ left' = left - (h - addr) /\ pos' = pos + (h - addr) + 1 /\ addr' = h + 1
            /\ UNCHANGED <<ranges, op, start, count>>
        BY <3>1, <3>3, <4>2 DEF ReadHead, mapVars
      <4>5. /\ addr \in Addr /\ start \in Addr /\ ranges \in Seq(Plug)
            /\ addr \in Nat /\ start \in Nat /\ h \in Nat /\ left \in Nat /\ count \in Nat
            /\ pos \in Nat
        BY <4>1, BusAssumption DEF TypeOK, Addr
      <4>6. start <= addr /\ addr <= h
        BY <4>1, <4>3, <4>5
      <4>7. PICK k \in Nat : k = Cardinality(Behind(ranges, start, addr))
        BY <4>5, BehindCounted
      <4>8. PICK z \in Nat : z = Cardinality(Behind(ranges, start, h + 1))
        BY <4>3, <4>5, BehindCounted
      <4>9. k + 1 <= z
        BY <4>2, <4>3, <4>5, <4>6, <4>7, <4>8, BehindGrows
      <4>10. pos + left <= count + k
        BY <4>1, <4>7 DEF OverrunBounded
      <4>11. (pos + (h - addr) + 1) + (left - (h - addr)) <= count + z
        BY <4>5, <4>9, <4>10
      <4> QED
        BY <4>2, <4>4, <4>8, <4>11 DEF OverrunBounded
    <3> QED
      BY <3>1, <3>2, <3>3
  <2> QED
    BY <1>4, <2>1, <2>2, <2>3, <2>4 DEF Step
<1>5. CASE UNCHANGED vars
  BY <1>5 DEF vars, OverrunBounded
<1> QED
  BY <1>2, <1>3, <1>4, <1>5 DEF Next

\* A read runs behind the caller's buffer by one byte at most for each range whose end it
\* has crossed, for any map of windows and any access.
THEOREM OverrunStaysBounded == Spec => []OverrunBounded
<1>1. Init => OverrunBounded
  BY DEF Init, OverrunBounded
<1> QED
  BY <1>1, AccessInit, AccessInductive, OverrunKept, PTL DEF Spec

-----------------------------------------------------------------------------
(* The vector of ranges.                                                   *)

\* Only the host's functions change the vector or the state of an erasing loop.
LEMMA MapSteps ==
  ASSUME [Next]_vars
  PROVE  \/ \E p \in Plug : Add(p)
         \/ op = "idle" /\ it' = 1 /\ UNCHANGED ranges
         \/ EraseEntry \/ KeepEntry \/ EndErase
         \/ /\ UNCHANGED <<ranges, key, it>>
            /\ op' \in {"idle", "read", "write"} \/ op' = op
<1>1. CASE Host
  BY <1>1 DEF Host, RemoveLow, RemoveDev, RangeFree, BeginErase
<1>2. CASE Access
  BY <1>2 DEF Access, BeginRead, BeginWrite, mapVars
<1>3. CASE ReadStep \/ WriteStep
  <2>1. UNCHANGED <<ranges, key, it>>
    BY <1>3 DEF ReadStep, WriteStep, ReadHead, ReadLast, WriteHead, WriteLast,
                DeviceThrows, Done, mapVars
  <2>2. op' = "idle" \/ op' = op
    BY <1>3 DEF ReadStep, WriteStep, ReadHead, ReadLast, WriteHead, WriteLast,
                DeviceThrows, Done
  <2> QED
    BY <2>1, <2>2
<1>4. CASE ReturnEmpty \/ NoMatch
  BY <1>4 DEF ReturnEmpty, NoMatch, Done, mapVars
<1>5. CASE UNCHANGED vars
  BY <1>5 DEF vars
<1> QED
  BY <1>1, <1>2, <1>3, <1>4, <1>5 DEF Next, Step

\* A window that contains an earlier one never gets in behind it, and erasing
\* entries keeps the order of the others.
THEOREM NeverSwallowed == Spec => []NoneSwallowed
<1>1. Init => NoneSwallowed
  BY DEF Init, NoneSwallowed
<1>2. TypeOK /\ NoneSwallowed /\ [Next]_vars => NoneSwallowed'
  <2> SUFFICES ASSUME TypeOK, NoneSwallowed, [Next]_vars PROVE NoneSwallowed'
    OBVIOUS
  <2>1. ranges \in Seq(Plug)
    BY DEF TypeOK
  <2>2. ASSUME NEW p \in Plug, Add(p) PROVE NoneSwallowed'
    <3>1. CASE Contained(p)
      BY <2>2, <3>1 DEF Add, NoneSwallowed
    <3>2. CASE ~ Contained(p)
      <4>1. ranges' = Append(ranges, p)
        BY <2>2, <3>2 DEF Add
      <4>2. /\ Len(ranges') = Len(ranges) + 1
            /\ \A i \in 1 .. Len(ranges) : ranges'[i] = ranges[i]
            /\ ranges'[Len(ranges) + 1] = p
        BY <2>1, <4>1, AppendProperties
      <4>3. SUFFICES ASSUME NEW i \in 1 .. Len(ranges'), NEW j \in 1 .. Len(ranges'), i < j,
                            ranges'[j].low <= ranges'[i].low,
                            ranges'[i].high <= ranges'[j].high
                     PROVE  FALSE
        BY DEF NoneSwallowed
      <4>4. i \in 1 .. Len(ranges) /\ ranges'[i] = ranges[i]
        BY <2>1, <4>2, <4>3
      <4>5. CASE j \in 1 .. Len(ranges)
        BY <4>2, <4>3, <4>4, <4>5 DEF NoneSwallowed
      <4>6. CASE j = Len(ranges) + 1
        <5>1. ranges[i].low \in Addr /\ p.low \in Addr
          BY <4>4, EntryOfRanges, BusAssumption
        <5>2. ranges[i].low >= p.low
          BY <4>2, <4>3, <4>4, <4>6, <5>1, BusAssumption DEF Addr
        <5> QED
          BY <3>2, <4>2, <4>3, <4>4, <4>6, <5>2 DEF Contained
      <4> QED
        BY <2>1, <4>2, <4>3, <4>5, <4>6
    <3> QED
      BY <3>1, <3>2
  <2>3. CASE EraseEntry
    <3>1. it \in 1 .. Len(ranges) /\ ranges' = Erased(ranges, it)
      BY <2>3 DEF EraseEntry, TypeOK
    <3>2. /\ Len(ranges') = Len(ranges) - 1
          /\ \A i \in 1 .. Len(ranges) - 1 :
               ranges'[i] = IF i < it THEN ranges[i] ELSE ranges[i + 1]
      BY <2>1, <3>1, ErasedVector
    <3>3. ASSUME NEW i \in 1 .. Len(ranges'), NEW j \in 1 .. Len(ranges'), i < j
          PROVE  \E m, n \in 1 .. Len(ranges) :
                   m < n /\ ranges'[i] = ranges[m] /\ ranges'[j] = ranges[n]
      <4> DEFINE m == IF i < it THEN i ELSE i + 1
                 n == IF j < it THEN j ELSE j + 1
      <4>1. m \in 1 .. Len(ranges) /\ n \in 1 .. Len(ranges) /\ m < n
        BY <2>1, <3>1, <3>2, <3>3
      <4>2. ranges'[i] = ranges[m] /\ ranges'[j] = ranges[n]
        BY <3>2, <3>3
      <4> QED
        BY <4>1, <4>2
    <3> QED
      BY <3>3 DEF NoneSwallowed
  <2>4. CASE UNCHANGED ranges
    BY <2>4 DEF NoneSwallowed
  <2> QED
    BY <2>2, <2>3, <2>4, MapSteps DEF KeepEntry, EndErase
<1> QED
  BY <1>1, <1>2, TypeCorrect, PTL DEF Spec

\* When an erasing loop has passed an entry, the entry is one that was to stay.
THEOREM EraseComplete == Spec => []NothingPassedOver
<1>1. Init => NothingPassedOver
  BY DEF Init, NothingPassedOver, Erasing
<1>2. TypeOK /\ NothingPassedOver /\ [Next]_vars => NothingPassedOver'
  <2> SUFFICES ASSUME TypeOK, NothingPassedOver, [Next]_vars PROVE NothingPassedOver'
    OBVIOUS
  <2>1. ranges \in Seq(Plug) /\ it \in Nat \ {0}
    BY DEF TypeOK
  <2>2. CASE \E p \in Plug : Add(p)
    BY <2>2 DEF Add, NothingPassedOver, Erasing
  <2>3. CASE op = "idle" /\ it' = 1 /\ UNCHANGED ranges
    BY <2>1, <2>3 DEF NothingPassedOver
  <2>4. CASE EraseEntry
    <3>1. it \in 1 .. Len(ranges) /\ ranges' = Erased(ranges, it)
      BY <2>1, <2>4 DEF EraseEntry
    <3>2. /\ Len(ranges') = Len(ranges) - 1
          /\ \A i \in 1 .. Len(ranges) - 1 : i < it => ranges'[i] = ranges[i]
      BY <2>1, <3>1, ErasedVector
    <3>3. Erasing /\ it' = it /\ op' = op /\ key' = key
      BY <2>4 DEF EraseEntry
    <3>4. ASSUME NEW i \in 1 .. Len(ranges'), i < it'
          PROVE  ~ Matches(ranges[i])'
      <4>1. ranges'[i] = ranges[i] /\ ~ Matches(ranges[i])
        BY <2>1, <3>1, <3>2, <3>3, <3>4 DEF NothingPassedOver
      <4> QED
        BY <3>3, <4>1 DEF Matches
    <3> QED
      BY <3>4 DEF NothingPassedOver
  <2>5. CASE KeepEntry
    <3>1. /\ Erasing /\ it \in 1 .. Len(ranges) /\ ~ Matches(ranges[it])
          /\ it' = it + 1 /\ UNCHANGED <<ranges, op, key>>
      BY <2>1, <2>5 DEF KeepEntry
    <3>2. ASSUME NEW i \in 1 .. Len(ranges), i < it + 1 PROVE ~ Matches(ranges[i])
      BY <2>1, <3>1, <3>2 DEF NothingPassedOver
    <3>3. ASSUME NEW i \in 1 .. Len(ranges'), i < it' PROVE ~ Matches(ranges[i])'
      <4>1. ~ Matches(ranges[i])
        BY <3>1, <3>2, <3>3
      <4> QED
        BY <3>1, <4>1 DEF Matches
    <3> QED
      BY <3>3 DEF NothingPassedOver
  <2>6. CASE EndErase
    BY <2>6 DEF EndErase, NothingPassedOver, Erasing
  <2>7. CASE UNCHANGED <<ranges, key, it>> /\ op' \in {"idle", "read", "write"}
    BY <2>7 DEF NothingPassedOver, Erasing
  <2>8. CASE UNCHANGED <<ranges, key, it>> /\ op' = op
    BY <2>8 DEF NothingPassedOver, Erasing, Matches
  <2> QED
    BY <2>2, <2>3, <2>4, <2>5, <2>6, <2>7, <2>8, MapSteps
<1> QED
  BY <1>1, <1>2, TypeCorrect, PTL DEF Spec

\* A device that is mapped later never takes an address away from one that was
\* mapped before, even where their windows overlap.
THEOREM RoutesStable == Spec => AddKeepsRoutes
<1>1. TypeOK /\ [Next]_vars /\ op = "idle" /\ op' = "idle" =>
        \A a \in Addr, i \in 1 .. Len(ranges) :
          Serves(i, a) => Serves(i, a)' /\ ranges'[i] = ranges[i]
  <2> SUFFICES ASSUME TypeOK, [Next]_vars, op = "idle", op' = "idle",
                      NEW a \in Addr, NEW i \in 1 .. Len(ranges), Serves(i, a)
               PROVE  Serves(i, a)' /\ ranges'[i] = ranges[i]
    OBVIOUS
  <2>1. ranges \in Seq(Plug)
    BY DEF TypeOK
  <2>2. Len(ranges') >= Len(ranges) /\ \A j \in 1 .. Len(ranges) : ranges'[j] = ranges[j]
    <3>1. CASE \E p \in Plug : Add(p)
      BY <2>1, <3>1, AppendProperties DEF Add
    <3>2. CASE UNCHANGED ranges
      BY <2>1, <3>2
    <3> QED
      BY <3>1, <3>2, MapSteps DEF EraseEntry, KeepEntry, EndErase, Erasing
  <2> QED
    BY <2>1, <2>2 DEF Serves, Contains
<1> QED
  BY <1>1, TypeCorrect, PTL DEF Spec, AddKeepsRoutes

\* The CPU's writes reach only the RAM that serves the address, and nothing else
\* in the memory system changes a byte: a ROM keeps its image for ever.
THEOREM RamOnly == Spec => OnlyServingRamChanges
<1>1. TypeOK /\ [Next]_vars =>
        \A d \in Dev : mem'[d] # mem[d] =>
          /\ op = "write" /\ d \notin ROM
          /\ \E i \in 1 .. Len(ranges) : Serves(i, addr) /\ ranges[i].dev = d
  <2> SUFFICES ASSUME TypeOK, [Next]_vars, NEW d \in Dev, mem'[d] # mem[d]
               PROVE  /\ op = "write" /\ d \notin ROM
                      /\ \E i \in 1 .. Len(ranges) : Serves(i, addr) /\ ranges[i].dev = d
    OBVIOUS
  <2>1. CASE WriteStep
    <3>1. PICK i \in 1 .. Len(ranges) :
            /\ Serves(i, addr)
            /\ IF Straddles(ranges[i]) THEN WriteHead(ranges[i]) ELSE WriteLast(ranges[i])
      BY <2>1 DEF WriteStep
    <3>2. \/ UNCHANGED mem
          \/ /\ ranges[i].dev \notin ROM
             /\ \E bytes : mem' = [mem EXCEPT ![ranges[i].dev] = bytes]
      BY <3>1 DEF WriteHead, WriteLast, DeviceThrows
    <3>3. ranges[i].dev \notin ROM /\ \E bytes : mem' = [mem EXCEPT ![ranges[i].dev] = bytes]
      BY <3>2
    <3>4. ranges[i].dev = d
      BY <3>3 DEF TypeOK
    <3> QED
      BY <2>1, <3>1, <3>3, <3>4 DEF WriteStep
  <2>2. CASE ~ WriteStep
    <3>1. Host => UNCHANGED mem
      BY DEF Host, Add, RemoveLow, RemoveDev, RangeFree, BeginErase
    <3>2. Access => UNCHANGED mem
      BY DEF Access, BeginRead, BeginWrite
    <3>3. Step => UNCHANGED mem
      BY <2>2 DEF Step, EraseEntry, KeepEntry, EndErase, ReturnEmpty, NoMatch, ReadStep,
                  ReadHead, ReadLast, DeviceThrows
    <3> QED
      BY <3>1, <3>2, <3>3 DEF Next, vars
  <2> QED
    BY <2>1, <2>2
<1> QED
  BY <1>1, TypeCorrect, PTL DEF Spec, OnlyServingRamChanges

-----------------------------------------------------------------------------
(* The bus as one flat memory.                                             *)

\* The instances on which it is one: disjoint windows, one for each device, which is no
\* longer than its window; and no access that leaves its first window.
Separate ==
  /\ Straddling = FALSE /\ None \notin Byte
  /\ \A p, q \in Plug : p # q => p.dev # q.dev /\ (p.high < q.low \/ q.high < p.low)
  /\ \A p \in Plug : Size[p.dev] <= p.high - p.low + 1

\* What address a answers with when the vector is rs and the bytes of the devices are m.
FirstOf(rs, a, i) ==
  i \in 1 .. Len(rs) /\ Contains(rs[i], a) /\ \A j \in 1 .. i - 1 : ~ Contains(rs[j], a)

AnswersIn(rs, a) ==
  IF \E i \in 1 .. Len(rs) : FirstOf(rs, a, i)
  THEN LET r == rs[CHOOSE i \in 1 .. Len(rs) : FirstOf(rs, a, i)]
       IN  IF a - r.low < Size[r.dev] THEN {<<r.dev, a - r.low>>} ELSE {}
  ELSE {}

CellIn(rs, m, a) ==
  IF AnswersIn(rs, a) = {} THEN None
  ELSE LET x == CHOOSE x \in AnswersIn(rs, a) : TRUE IN m[x[1]][x[2]]

FrozenIn(rs, a) == \E x \in AnswersIn(rs, a) : x[1] \in ROM

LEMMA CellsAre ==
  /\ Cells = [a \in Addr |-> CellIn(ranges, mem, a)]
  /\ Cells' = [a \in Addr |-> CellIn(ranges', mem', a)]
  /\ Frozen = {a \in Addr : FrozenIn(ranges, a)}
  /\ Frozen' = {a \in Addr : FrozenIn(ranges', a)}
BY DEF Cells, Frozen, Answering, Serves, CellIn, FrozenIn, AnswersIn, FirstOf

\* If an entry contains an address, some entry is the first that does.
LEMMA FirstExists ==
  ASSUME NEW rs \in Seq(Plug), NEW a \in Addr, NEW i \in 1 .. Len(rs), Contains(rs[i], a)
  PROVE  \E j \in 1 .. Len(rs) : FirstOf(rs, a, j)
<1> DEFINE T == {j \in 1 .. Len(rs) : Contains(rs[j], a)}
<1>1. T \subseteq Nat /\ T # {}
  OBVIOUS
<1>2. PICK j \in T : \A k \in T : ~ (<<k, j>> \in OpToRel(<, Nat))
  <2> HIDE DEF T
  <2> QED
    BY <1>1, NatLessThanWellFounded, WFMin
<1>3. \A k \in T : ~ (k < j)
  BY <1>1, <1>2 DEF OpToRel
<1>4. ASSUME NEW k \in 1 .. j - 1
      PROVE  ~ Contains(rs[k], a)
  <2>1. k < j /\ k \in 1 .. Len(rs)
    BY <1>1
  <2> QED
    BY <1>3, <2>1
<1> QED
  BY <1>4 DEF FirstOf

LEMMA AnswersAre ==
  ASSUME Separate, NEW rs \in Seq(Plug), NEW a \in Addr
  PROVE  /\ \A i \in 1 .. Len(rs) : Contains(rs[i], a) =>
              AnswersIn(rs, a) =
                IF a - rs[i].low < Size[rs[i].dev] THEN {<<rs[i].dev, a - rs[i].low>>} ELSE {}
         /\ (\A i \in 1 .. Len(rs) : ~ Contains(rs[i], a)) => AnswersIn(rs, a) = {}
<1>1. ASSUME NEW i \in 1 .. Len(rs), Contains(rs[i], a)
      PROVE  AnswersIn(rs, a) =
               IF a - rs[i].low < Size[rs[i].dev] THEN {<<rs[i].dev, a - rs[i].low>>} ELSE {}
  <2>1. \E j \in 1 .. Len(rs) : FirstOf(rs, a, j)
    BY <1>1, FirstExists
  <2>2. PICK j \in 1 .. Len(rs) :
          FirstOf(rs, a, j) /\ j = (CHOOSE k \in 1 .. Len(rs) : FirstOf(rs, a, k))
    BY <2>1
  <2>3. rs[i] \in Plug /\ rs[j] \in Plug
    OBVIOUS
  <2>4. rs[j] = rs[i]
    <3>1. Contains(rs[i], a) /\ Contains(rs[j], a)
      BY <1>1, <2>2 DEF FirstOf
    <3>2. PICK p \in Plug : p = rs[i]
      BY <2>3
    <3>3. PICK q \in Plug : q = rs[j]
      BY <2>3
    <3>4. p.low \in Int /\ p.high \in Int /\ q.low \in Int /\ q.high \in Int /\ a \in Int
      <4>1. p.low \in Addr /\ p.high \in Addr /\ q.low \in Addr /\ q.high \in Addr
        BY BusAssumption
      <4> QED
        BY <4>1 DEF Addr
    <3>5. p.low <= a /\ a <= p.high /\ q.low <= a /\ a <= q.high
      BY <3>1, <3>2, <3>3 DEF Contains
    <3>6. p = q
      BY <3>4, <3>5 DEF Separate
    <3> QED
      BY <3>2, <3>3, <3>6
  <2> QED
    BY <2>1, <2>2, <2>4 DEF AnswersIn
<1>2. ASSUME \A i \in 1 .. Len(rs) : ~ Contains(rs[i], a)
      PROVE  AnswersIn(rs, a) = {}
  BY <1>2 DEF AnswersIn, FirstOf
<1> QED
  BY <1>1, <1>2

\* The cell of an address is the byte of the device behind the window that contains it.
LEMMA CellIs ==
  ASSUME Separate, NEW rs \in Seq(Plug), NEW m, NEW a \in Addr,
         NEW i \in 1 .. Len(rs), Contains(rs[i], a)
  PROVE  /\ CellIn(rs, m, a) =
              IF a - rs[i].low < Size[rs[i].dev] THEN m[rs[i].dev][a - rs[i].low] ELSE None
         /\ FrozenIn(rs, a) <=> a - rs[i].low < Size[rs[i].dev] /\ rs[i].dev \in ROM
<1>1. AnswersIn(rs, a) =
        IF a - rs[i].low < Size[rs[i].dev] THEN {<<rs[i].dev, a - rs[i].low>>} ELSE {}
  BY AnswersAre
<1>2. CASE a - rs[i].low < Size[rs[i].dev]
  <2>1. AnswersIn(rs, a) = {<<rs[i].dev, a - rs[i].low>>}
    BY <1>1, <1>2
  <2>2. PICK y : y = <<rs[i].dev, a - rs[i].low>>
    OBVIOUS
  <2>3. AnswersIn(rs, a) = {y}
    BY <2>1, <2>2
  <2>4. (CHOOSE x \in AnswersIn(rs, a) : TRUE) = y
    BY <2>3
  <2>5. AnswersIn(rs, a) # {}
    BY <2>3
  <2>6. CellIn(rs, m, a) = m[y[1]][y[2]]
    BY <2>4, <2>5 DEF CellIn
  <2>7. FrozenIn(rs, a) <=> y[1] \in ROM
    BY <2>3 DEF FrozenIn
  <2>8. y[1] = rs[i].dev /\ y[2] = a - rs[i].low
    BY <2>2
  <2> QED
    BY <1>2, <2>6, <2>7, <2>8
<1>3. CASE ~ (a - rs[i].low < Size[rs[i].dev])
  BY <1>1, <1>3 DEF CellIn, FrozenIn
<1> QED
  BY <1>2, <1>3

\* Only the window matters, not its place in the vector.
LEMMA SameWindow ==
  ASSUME Separate, NEW rs \in Seq(Plug), NEW qs \in Seq(Plug), NEW m, NEW a \in Addr,
         NEW i \in 1 .. Len(rs), NEW j \in 1 .. Len(qs), rs[i] = qs[j], Contains(rs[i], a)
  PROVE  CellIn(rs, m, a) = CellIn(qs, m, a) /\ (FrozenIn(rs, a) <=> FrozenIn(qs, a))
<1>1. /\ CellIn(rs, m, a) =
           IF a - rs[i].low < Size[rs[i].dev] THEN m[rs[i].dev][a - rs[i].low] ELSE None
      /\ FrozenIn(rs, a) <=> a - rs[i].low < Size[rs[i].dev] /\ rs[i].dev \in ROM
  BY CellIs
<1>2. /\ CellIn(qs, m, a) =
           IF a - qs[j].low < Size[qs[j].dev] THEN m[qs[j].dev][a - qs[j].low] ELSE None
      /\ FrozenIn(qs, a) <=> a - qs[j].low < Size[qs[j].dev] /\ qs[j].dev \in ROM
  BY CellIs
<1> QED
  BY <1>1, <1>2

LEMMA NoCell ==
  ASSUME Separate, NEW rs \in Seq(Plug), NEW m, NEW a \in Addr,
         \A i \in 1 .. Len(rs) : ~ Contains(rs[i], a)
  PROVE  CellIn(rs, m, a) = None /\ ~ FrozenIn(rs, a)
BY AnswersAre DEF CellIn, FrozenIn


LEMMA CellType ==
  ASSUME Separate, NEW rs \in Seq(Plug), NEW m, \A d \in Dev : m[d] \in Content(d), NEW a \in Addr
  PROVE  CellIn(rs, m, a) \in Byte \cup {None}
<1>1. CASE \E i \in 1 .. Len(rs) : Contains(rs[i], a)
  <2>1. PICK i \in 1 .. Len(rs) : Contains(rs[i], a)
    BY <1>1
  <2>2. PICK r \in Plug : r = rs[i]
    OBVIOUS
  <2>3. r.low \in Addr /\ r.dev \in Dev
    BY BusAssumption
  <2>4. r.low \in Int /\ a \in Int /\ r.low <= a /\ Size[r.dev] \in Nat
    BY <2>1, <2>2, <2>3, BusAssumption DEF Contains, Addr
  <2>5. ASSUME a - r.low < Size[r.dev]
        PROVE  m[r.dev][a - r.low] \in Byte
    <3>1. a - r.low \in 0 .. Size[r.dev] - 1
      BY <2>4, <2>5
    <3> QED
      BY <2>3, <3>1 DEF Content
  <2> QED
    BY <2>1, <2>2, <2>5, CellIs
<1>2. CASE \A i \in 1 .. Len(rs) : ~ Contains(rs[i], a)
  BY <1>2, NoCell
<1> QED
  BY <1>1, <1>2

\* An access inside the window that serves its first byte, or one that wraps: the device
\* takes it exactly if every address it touches has a cell.
LEMMA DeviceAnswers ==
  ASSUME Separate, NEW rs \in Seq(Plug), NEW m, \A d \in Dev : m[d] \in Content(d),
         NEW a \in Addr, NEW n \in 1 .. MaxCount,
         NEW i \in 1 .. Len(rs), Contains(rs[i], a), (a + n - 1) % AddrMod <= rs[i].high
  PROVE  /\ Fits(rs[i].dev, a - rs[i].low, n) <=>
              \A x \in a .. a + n - 1 : x \in Addr /\ CellIn(rs, m, x) # None
         /\ Fits(rs[i].dev, a - rs[i].low, n) =>
              \A x \in a .. a + n - 1 :
                /\ x - rs[i].low \in 0 .. Size[rs[i].dev] - 1 /\ Contains(rs[i], x)
                /\ CellIn(rs, m, x) = m[rs[i].dev][x - rs[i].low]
                /\ FrozenIn(rs, x) <=> rs[i].dev \in ROM
<1>1. PICK r \in Plug : r = rs[i]
  OBVIOUS
<1>2. /\ r.low \in Addr /\ r.high \in Addr /\ r.dev \in Dev
      /\ r.high - r.low + MaxCount < AddrMod
  BY BusAssumption
<1>3. /\ AddrMod \in Nat \ {0} /\ MaxCount \in Nat /\ Size[r.dev] \in Nat
      /\ r.low \in Nat /\ r.high \in Nat /\ r.high < AddrMod
      /\ a \in Nat /\ a < AddrMod /\ n \in Nat /\ 0 < n /\ n <= MaxCount
  BY <1>2, BusAssumption DEF Addr
<1>4. r.low <= a /\ a <= r.high
  BY <1>1 DEF Contains
<1>5. Size[r.dev] <= r.high - r.low + 1
  BY DEF Separate
<1>6. Fits(r.dev, a - r.low, n) <=> a - r.low + n <= Size[r.dev]
  <2>1. PICK o \in Nat : o = a - r.low + n
    BY <1>3, <1>4
  <2>2. o < AddrMod
    BY <1>2, <1>3, <1>4, <2>1
  <2>3. o % AddrMod = o
    BY <1>3, <2>2, Residue
  <2> QED
    BY <2>1, <2>3 DEF Fits
<1>7. a + n - 1 <= r.high \/ a + n - 1 >= AddrMod
  <2>1. PICK x \in Nat : x = a + n - 1
    BY <1>3
  <2>2. x < AddrMod => x % AddrMod = x
    BY <1>3, <2>1, Residue
  <2> QED
    BY <1>1, <1>3, <2>1, <2>2
<1>8. ASSUME a - r.low + n <= Size[r.dev], NEW x \in a .. a + n - 1
      PROVE  /\ x \in Addr /\ CellIn(rs, m, x) # None
             /\ x - r.low \in 0 .. Size[r.dev] - 1 /\ Contains(r, x)
             /\ CellIn(rs, m, x) = m[r.dev][x - r.low]
             /\ FrozenIn(rs, x) <=> r.dev \in ROM
  <2>1. x \in Nat /\ r.low <= x /\ x <= r.high /\ x - r.low < Size[r.dev] /\ x - r.low \in Nat
    <3>1. PICK l \in Nat, h \in Nat, z \in Nat : l = r.low /\ h = r.high /\ z = Size[r.dev]
      BY <1>3
    <3>2. x \in Int /\ a <= x /\ x <= a + n - 1
      BY <1>3
    <3>3. l <= a /\ a <= h /\ z <= h - l + 1 /\ a - l + n <= z
      BY <1>4, <1>5, <1>8, <3>1
    <3>4. l <= x /\ x <= h /\ x - l < z
      BY <1>3, <3>2, <3>3
    <3> QED
      BY <1>3, <3>1, <3>2, <3>4
  <2>2. x \in Addr /\ Contains(r, x)
    BY <1>3, <2>1 DEF Addr, Contains
  <2>3. /\ CellIn(rs, m, x) = m[r.dev][x - r.low]
        /\ FrozenIn(rs, x) <=> r.dev \in ROM
    BY <1>1, <2>1, <2>2, CellIs
  <2>4. x - r.low \in 0 .. Size[r.dev] - 1
    BY <1>3, <2>1
  <2>5. m[r.dev][x - r.low] \in Byte
    BY <1>2, <2>4 DEF Content
  <2> QED
    BY <2>2, <2>3, <2>4, <2>5 DEF Separate
<1>9. ASSUME a - r.low + n > Size[r.dev]
      PROVE  \E x \in a .. a + n - 1 : ~ (x \in Addr /\ CellIn(rs, m, x) # None)
  <2>1. PICK x \in a .. a + n - 1 : x = a + n - 1
    BY <1>3
  <2>2. CASE a + n - 1 >= AddrMod
    <3>1. x \notin Addr
      BY <1>3, <2>1, <2>2 DEF Addr
    <3> QED
      BY <3>1
  <2>3. CASE a + n - 1 <= r.high
    <3>1. x \in Addr /\ Contains(r, x)
      BY <1>3, <1>4, <2>1, <2>3 DEF Addr, Contains
    <3>2. ~ (x - r.low < Size[r.dev])
      <4>1. PICK l \in Nat, z \in Nat : l = r.low /\ z = Size[r.dev]
        BY <1>3
      <4>2. a - l + n > z /\ x \in Int /\ x = a + n - 1
        BY <1>3, <1>9, <2>1, <4>1
      <4>3. ~ (x - l < z)
        BY <1>3, <4>2
      <4> QED
        BY <4>1, <4>3
    <3>3. CellIn(rs, m, x) = None
      BY <1>1, <3>1, <3>2, CellIs
    <3> QED
      BY <3>3
  <2> QED
    BY <1>7, <2>2, <2>3
<1>10. a - r.low + n <= Size[r.dev] \/ a - r.low + n > Size[r.dev]
  BY <1>3
<1> QED
  BY <1>1, <1>6, <1>8, <1>9, <1>10

-----------------------------------------------------------------------------
(* The access under way.                                                   *)

\* No access ever leaves the window it began in, so it is always its first call.
Uncrossed ==
  InAccess =>
    /\ addr = start /\ left = count /\ pos = 0
    /\ \A i \in 1 .. Len(ranges) :
         Serves(i, start) /\ count > 0 => (start + count - 1) % AddrMod <= ranges[i].high

LEMMA NoStraddle ==
  ASSUME TypeOK, Uncrossed, InAccess, left > 0, NEW i \in 1 .. Len(ranges), Serves(i, addr)
  PROVE  ~ Straddles(ranges[i])
<1>1. addr = start /\ left = count /\ (start + count - 1) % AddrMod <= ranges[i].high
  BY DEF Uncrossed
<1>2. PICK x \in Int : x = (start + count - 1) % AddrMod
  <2>1. start \in Int /\ count \in Int /\ AddrMod \in Nat \ {0}
    BY BusAssumption DEF TypeOK, Addr
  <2>2. PICK y \in Int : y = start + count - 1
    BY <2>1
  <2> QED
    BY <2>1, <2>2
<1>3. ranges[i].high \in Int
  BY EntryOfRanges DEF Addr
<1> QED
  BY <1>1, <1>2, <1>3 DEF Straddles

LEMMA UncrossedInit == Init => Uncrossed
BY DEF Init, Uncrossed, InAccess

LEMMA UncrossedKept ==
  ASSUME Separate, TypeOK, Uncrossed, [Next]_vars
  PROVE  Uncrossed'
<1>1. ASSUME op' \notin {"read", "write"} PROVE Uncrossed'
  BY <1>1 DEF Uncrossed, InAccess
<1>2. CASE Host
  BY <1>1, <1>2 DEF Host, Add, RemoveLow, RemoveDev, RangeFree, BeginErase
<1>3. CASE Access
  <2>1. PICK a \in Addr, n \in 0 .. MaxCount :
          /\ ~ CrossesEnd(a, n)
          /\ start' = a /\ addr' = a /\ count' = n /\ left' = n /\ pos' = 0 /\ ranges' = ranges
    BY <1>3 DEF Access, Separate, BeginRead, BeginWrite, mapVars
  <2>2. ASSUME NEW i \in 1 .. Len(ranges), Serves(i, a), n > 0
        PROVE  (a + n - 1) % AddrMod <= ranges[i].high
    <3>1. ranges[i].high \in Int
      BY EntryOfRanges DEF Addr
    <3>2. PICK x \in Int : x = (a + n - 1) % AddrMod
      BY BusAssumption DEF Addr
    <3>3. ~ (x > ranges[i].high)
      BY <2>1, <2>2, <3>2 DEF CrossesEnd
    <3> QED
      BY <3>1, <3>2, <3>3
  <2> QED
    BY <2>1, <2>2 DEF Uncrossed, Serves
<1>4. CASE Step
  <2>1. CASE EraseEntry \/ KeepEntry \/ EndErase
    BY <1>1, <2>1 DEF EraseEntry, KeepEntry, EndErase, Erasing
  <2>2. CASE ReturnEmpty \/ NoMatch
    BY <1>1, <2>2 DEF ReturnEmpty, NoMatch, Done
  <2>3. CASE ReadStep
    <3>1. PICK i \in 1 .. Len(ranges) : Serves(i, addr) /\ ReadLast(ranges[i])
      BY <2>3, NoStraddle DEF ReadStep, InAccess
    <3> QED
      BY <1>1, <3>1 DEF ReadLast, DeviceThrows, Done
  <2>4. CASE WriteStep
    <3>1. PICK i \in 1 .. Len(ranges) : Serves(i, addr) /\ WriteLast(ranges[i])
      BY <2>4, NoStraddle DEF WriteStep, InAccess
    <3> QED
      BY <1>1, <3>1 DEF WriteLast, DeviceThrows, Done
  <2> QED
    BY <1>4, <2>1, <2>2, <2>3, <2>4 DEF Step
<1>5. CASE UNCHANGED vars
  BY <1>5 DEF vars, Uncrossed, InAccess, Serves
<1> QED
  BY <1>2, <1>3, <1>4, <1>5 DEF Next

-----------------------------------------------------------------------------
(* Every step of the bus is a step of the flat memory, or none.            *)

NoReq == [kind |-> "none"]
Failed == [ok |-> FALSE, data |-> << >>]
Told(n, b) == [ok |-> TRUE, data |-> [i \in 0 .. n - 1 |-> b[i]]]
ToRead == [kind |-> "read", a |-> start, n |-> count]
ToWrite == [kind |-> "write", a |-> start, n |-> count, data |-> [i \in 0 .. count - 1 |-> buf[i]]]

LEMMA ReqIs ==
  /\ op = "read" => Req = ToRead
  /\ op = "write" => Req = ToWrite
  /\ op \notin {"read", "write"} => Req = NoReq
  /\ op' = "read" => Req' = ToRead'
  /\ op' = "write" => Req' = ToWrite'
  /\ op' \notin {"read", "write"} => Req' = NoReq
BY DEF Req, ToRead, ToWrite, NoReq

LEMMA ReplyIs ==
  /\ InAccess \/ result # "ok" => Reply = Failed
  /\ ~ InAccess /\ result = "ok" => Reply = Told(count, buf)
  /\ InAccess' \/ result' # "ok" => Reply' = Failed
  /\ ~ InAccess' /\ result' = "ok" => Reply' = Told(count', buf')
BY DEF Reply, Failed, Told, InAccess

LEMMA SameCells ==
  ASSUME ranges' = ranges
  PROVE  /\ Frozen' = Frozen
         /\ mem' = mem => Cells' = Cells
BY CellsAre

FlatStep == [Flat!Next]_(Flat!vars)

LEMMA FlatInit ==
  ASSUME Init
  PROVE  Flat!Init
<1>1. Len(ranges) = 0 /\ op = "idle" /\ result = "ok" /\ count = 0
  BY DEF Init
<1>2. Cells = [a \in Addr |-> None] /\ Frozen = {}
  BY <1>1 DEF Cells, Frozen, Answering, Serves
<1>3. Req = NoReq /\ Reply = Told(0, buf)
  BY <1>1, ReqIs, ReplyIs DEF InAccess
<1>4. Told(0, buf) = [ok |-> TRUE, data |-> [i \in {} |-> None]]
  BY DEF Told
<1> QED
  BY <1>2, <1>3, <1>4 DEF Flat!Init, Flat!NoRequest, NoReq

\* Neither the cells nor the request and its reply change.
LEMMA Quiet ==
  ASSUME UNCHANGED <<ranges, mem, count, buf, result>>,
         \/ op' = op /\ start' = start
         \/ op \notin {"read", "write"} /\ op' \notin {"read", "write"}
  PROVE  FlatStep
<1>1. Cells' = Cells /\ Frozen' = Frozen
  BY SameCells
<1>2. Req' = Req
  BY ReqIs DEF Req
<1>3. Reply' = Reply
  BY DEF Reply, InAccess
<1> QED
  BY <1>1, <1>2, <1>3 DEF FlatStep, Flat!vars

\* A window more: what is mapped keeps its byte.
LEMMA AddIsExtend ==
  ASSUME Separate, TypeOK, NEW p \in Plug, Add(p)
  PROVE  FlatStep
<1>1. ranges \in Seq(Plug) /\ ranges' \in Seq(Plug) /\ mem' = mem /\ Len(ranges) \in Nat
  BY DEF TypeOK, Add
<1>2. \A i \in 1 .. Len(ranges) : i \in 1 .. Len(ranges') /\ ranges'[i] = ranges[i]
  BY <1>1 DEF Add
<1>3. ASSUME NEW a \in Addr, NEW i \in 1 .. Len(ranges), Contains(ranges[i], a)
      PROVE  /\ CellIn(ranges', mem, a) = CellIn(ranges, mem, a)
             /\ FrozenIn(ranges', a) <=> FrozenIn(ranges, a)
  <2>1. i \in 1 .. Len(ranges') /\ ranges'[i] = ranges[i]
    BY <1>2
  <2>2. PICK rs \in Seq(Plug) : rs = ranges'
    BY <1>1
  <2>3. /\ CellIn(rs, mem, a) = CellIn(ranges, mem, a)
        /\ FrozenIn(rs, a) <=> FrozenIn(ranges, a)
    BY <1>1, <1>3, <2>1, <2>2, SameWindow
  <2> QED
    BY <2>2, <2>3
<1>4. ASSUME NEW a \in Addr, \A i \in 1 .. Len(ranges) : ~ Contains(ranges[i], a)
      PROVE  CellIn(ranges, mem, a) = None /\ ~ FrozenIn(ranges, a)
  BY <1>1, <1>4, NoCell
<1>5. \A a \in Addr : Cells[a] # None => Cells'[a] = Cells[a]
  BY <1>1, <1>3, <1>4, CellsAre
<1>6. \A a \in Frozen : a \in Frozen'
  BY <1>3, <1>4, CellsAre
<1>7. Cells' \in [Addr -> Byte \cup {None}] /\ Frozen' \in SUBSET Addr
  <2>1. \A d \in Dev : mem[d] \in Content(d)
    BY DEF TypeOK
  <2>2. \A a \in Addr : CellIn(ranges', mem', a) \in Byte \cup {None}
    BY <1>1, <2>1, CellType
  <2> QED
    BY <2>2, CellsAre
<1>8. op = "idle" /\ op' = op /\ UNCHANGED <<count, buf, result, start>>
  BY DEF Add, accessVars
<1>9. Req = NoReq /\ Req' = Req
  BY <1>8, ReqIs
<1>10. Reply' = Reply
  BY <1>8 DEF Reply, InAccess
<1>11. Flat!Extend
  BY <1>5, <1>6, <1>7, <1>9, <1>10 DEF Flat!Extend, Flat!NoRequest, NoReq
<1> QED
  BY <1>11 DEF FlatStep, Flat!Next

\* A window less: what stays mapped keeps its byte.
LEMMA EraseIsShrink ==
  ASSUME Separate, TypeOK, EraseEntry
  PROVE  FlatStep
<1>1. ranges \in Seq(Plug) /\ mem' = mem /\ it \in 1 .. Len(ranges)
  BY DEF TypeOK, EraseEntry
<1>2. /\ ranges' \in Seq(Plug) /\ Len(ranges') = Len(ranges) - 1
      /\ \A i \in 1 .. Len(ranges) - 1 :
           ranges'[i] = IF i < it THEN ranges[i] ELSE ranges[i + 1]
  BY <1>1, ErasedVector DEF EraseEntry
<1>3. ASSUME NEW a \in Addr
      PROVE  \/ /\ CellIn(ranges', mem, a) = CellIn(ranges, mem, a)
                /\ FrozenIn(ranges', a) <=> FrozenIn(ranges, a)
             \/ CellIn(ranges', mem, a) = None /\ ~ FrozenIn(ranges', a)
  <2>1. PICK rs \in Seq(Plug) : rs = ranges'
    BY <1>2
  <2>2. CASE \E j \in 1 .. Len(rs) : Contains(rs[j], a)
    <3>1. PICK j \in 1 .. Len(rs) : Contains(rs[j], a)
      BY <2>2
    <3>2. \E i \in 1 .. Len(ranges) : ranges[i] = rs[j]
      <4>1. j \in 1 .. Len(ranges) - 1 /\ Len(ranges) \in Nat
        BY <1>1, <1>2, <2>1
      <4>2. j \in 1 .. Len(ranges) /\ j + 1 \in 1 .. Len(ranges)
        BY <4>1
      <4> QED
        BY <1>2, <2>1, <4>1, <4>2
    <3>3. PICK i \in 1 .. Len(ranges) : ranges[i] = rs[j]
      BY <3>2
    <3>4. CellIn(rs, mem, a) = CellIn(ranges, mem, a) /\ (FrozenIn(rs, a) <=> FrozenIn(ranges, a))
      BY <1>1, <3>1, <3>3, SameWindow
    <3> QED
      BY <2>1, <3>4
  <2>3. CASE \A j \in 1 .. Len(rs) : ~ Contains(rs[j], a)
    BY <2>1, <2>3, NoCell
  <2> QED
    BY <2>2, <2>3
<1>4. \A a \in Addr : Cells'[a] \in {Cells[a], None}
  BY <1>1, <1>3, CellsAre
<1>5. Frozen' \subseteq Frozen
  BY <1>3, CellsAre
<1>6. Cells' \in [Addr -> Byte \cup {None}]
  <2>1. \A d \in Dev : mem[d] \in Content(d)
    BY DEF TypeOK
  <2>2. \A a \in Addr : CellIn(ranges', mem', a) \in Byte \cup {None}
    BY <1>1, <1>2, <2>1, CellType
  <2> QED
    BY <2>2, CellsAre
<1>7. op \notin {"read", "write"} /\ op' = op /\ UNCHANGED <<count, buf, result, start>>
  BY DEF EraseEntry, Erasing, accessVars
<1>8. Req' = Req
  BY <1>7, ReqIs
<1>9. Reply' = Reply
  BY <1>7 DEF Reply, InAccess
<1>10. Flat!Shrink
  BY <1>4, <1>5, <1>6, <1>8, <1>9 DEF Flat!Shrink
<1> QED
  BY <1>10 DEF FlatStep, Flat!Next

LEMMA BeginIsRequest ==
  ASSUME TypeOK, NEW a \in Addr, NEW n \in 0 .. MaxCount,
         BeginRead(a, n) \/ \E data \in [0 .. n - 1 -> Byte] : BeginWrite(a, n, data)
  PROVE  FlatStep
<1>1. Cells' = Cells /\ Frozen' = Frozen
  BY SameCells DEF BeginRead, BeginWrite, mapVars
<1>2. Req = NoReq
  BY ReqIs DEF BeginRead, BeginWrite
<1>3. Reply' = Failed
  BY ReplyIs DEF BeginRead, BeginWrite, InAccess
<1>4. CASE BeginRead(a, n)
  <2>1. Req' = [kind |-> "read", a |-> a, n |-> n]
    BY <1>4, ReqIs DEF BeginRead, ToRead
  <2>2. Flat!Ask([kind |-> "read", a |-> a, n |-> n])
    BY <1>1, <1>2, <1>3, <2>1 DEF Flat!Ask, Flat!NoRequest, Flat!NoReply, NoReq, Failed
  <2> QED
    BY <2>2 DEF FlatStep, Flat!Next, Flat!Request
<1>5. CASE \E data \in [0 .. n - 1 -> Byte] : BeginWrite(a, n, data)
  <2>1. PICK data \in [0 .. n - 1 -> Byte] : BeginWrite(a, n, data)
    BY <1>5
  <2>2. Req' = [kind |-> "write", a |-> a, n |-> n, data |-> [i \in 0 .. n - 1 |-> buf'[i]]]
    BY <2>1, ReqIs DEF BeginWrite, ToWrite
  <2>3. [i \in 0 .. n - 1 |-> buf'[i]] = data
    <3>1. \A i \in 0 .. n - 1 : i \in BufIndex /\ i < n
      BY BusAssumption DEF BufIndex
    <3>2. \A i \in 0 .. n - 1 : buf'[i] = data[i]
      BY <2>1, <3>1 DEF BeginWrite
    <3> QED
      BY <3>2
  <2>4. Flat!Ask([kind |-> "write", a |-> a, n |-> n, data |-> data])
    BY <1>1, <1>2, <1>3, <2>2, <2>3 DEF Flat!Ask, Flat!NoRequest, Flat!NoReply, NoReq, Failed
  <2> QED
    BY <2>4 DEF FlatStep, Flat!Next, Flat!Request
<1> QED
  BY <1>4, <1>5

\* The request of the access under way, and what it touches.
LEMMA Asked ==
  ASSUME Uncrossed, InAccess, TypeOK
  PROVE  /\ addr = start /\ left = count /\ pos = 0
         /\ Req.kind = op /\ Req.a = start /\ Req.n = count
         /\ op = "read" => Req.kind = "read"
         /\ op = "write" => /\ Req.kind = "write"
                            /\ Req.data = [i \in 0 .. count - 1 |-> buf[i]]
         /\ Flat!Touched = start .. start + count - 1
         /\ start \in Addr /\ start \in Nat /\ count \in Nat /\ count <= MaxCount
         /\ \A d \in Dev : mem[d] \in Content(d)
         /\ ranges \in Seq(Plug)
<1>1. addr = start /\ left = count /\ pos = 0
  BY DEF Uncrossed
<1>2. start \in Addr /\ count \in 0 .. MaxCount
  BY DEF TypeOK
<1>3. start \in Nat /\ count \in Nat /\ count <= MaxCount
  BY <1>2, BusAssumption DEF Addr
<1>4. \/ op = "read" /\ Req = ToRead
      \/ op = "write" /\ Req = ToWrite
  BY ReqIs DEF InAccess
<1>5. /\ Req.kind = op /\ Req.a = start /\ Req.n = count
      /\ op = "write" => Req.data = [i \in 0 .. count - 1 |-> buf[i]]
  <2>1. CASE op = "read" /\ Req = ToRead
    BY <2>1 DEF ToRead
  <2>2. CASE op = "write" /\ Req = ToWrite
    BY <2>2 DEF ToWrite
  <2> QED
    BY <1>4, <2>1, <2>2
<1>6. Flat!Touched = start .. start + count - 1
  BY <1>5 DEF Flat!Touched
<1> QED
  BY <1>1, <1>2, <1>3, <1>5, <1>6 DEF TypeOK

\* An access that fails is one that not every touched address answers to.
LEMMA FailureIsAnswer ==
  ASSUME Uncrossed, TypeOK, InAccess, UNCHANGED <<ranges, mem>>,
         op' = "idle", result' # "ok", ~ Flat!Answers(op = "write")
  PROVE  FlatStep
<1>1. Cells' = Cells /\ Frozen' = Frozen
  BY SameCells
<1>2. Req' = NoReq /\ Reply' = Failed
  BY ReqIs, ReplyIs
<1>3. Req.kind = op
  BY Asked
<1>4. CASE op = "read"
  <2>1. ~ Flat!Answers(FALSE)
    BY <1>4
  <2>2. Flat!Read
    BY <1>1, <1>2, <1>3, <1>4, <2>1 DEF Flat!Read, Flat!NoRequest, Flat!NoReply, NoReq, Failed
  <2> QED
    BY <2>2 DEF FlatStep, Flat!Next
<1>5. CASE op = "write"
  <2>1. ~ Flat!Answers(TRUE)
    BY <1>5
  <2>2. Flat!Write
    BY <1>1, <1>2, <1>3, <1>5, <2>1 DEF Flat!Write, Flat!NoRequest, Flat!NoReply, NoReq, Failed
  <2> QED
    BY <2>2 DEF FlatStep, Flat!Next
<1> QED
  BY <1>4, <1>5 DEF InAccess

\* A read that answers from its cells.
LEMMA ReadIsAnswer ==
  ASSUME Uncrossed, TypeOK, op = "read", UNCHANGED <<ranges, mem, count>>,
         op' = "idle", result' = "ok", Flat!Answers(FALSE),
         \A i \in 0 .. count - 1 : buf'[i] = Cells[start + i]
  PROVE  FlatStep
<1>1. Cells' = Cells /\ Frozen' = Frozen
  BY SameCells
<1>2. Req' = NoReq /\ Reply' = Told(count, buf')
  BY ReqIs, ReplyIs DEF InAccess
<1>3. Req.kind = "read" /\ Req.a = start /\ Req.n = count
  BY Asked DEF InAccess
<1>4. Told(count, buf') = [ok |-> TRUE, data |-> [i \in 0 .. count - 1 |-> Cells[start + i]]]
  BY DEF Told
<1>5. Flat!Read
  BY <1>1, <1>2, <1>3, <1>4 DEF Flat!Read, Flat!NoRequest, NoReq
<1> QED
  BY <1>5 DEF FlatStep, Flat!Next

\* A write that changes the cells it touches.
LEMMA WriteIsAnswer ==
  ASSUME Uncrossed, TypeOK, op = "write", UNCHANGED <<ranges, count, buf>>,
         op' = "idle", result' = "ok", Flat!Answers(TRUE),
         \A a \in Addr : Cells'[a] = IF a \in start .. start + count - 1 THEN buf[a - start]
                                     ELSE Cells[a]
  PROVE  FlatStep
<1>1. Frozen' = Frozen
  BY SameCells
<1>2. Req' = NoReq /\ Reply' = Told(count, buf)
  BY ReqIs, ReplyIs DEF InAccess
<1>3. /\ Req.kind = "write" /\ Req.a = start
      /\ Req.data = [i \in 0 .. count - 1 |-> buf[i]]
      /\ Flat!Touched = start .. start + count - 1
      /\ start \in Nat /\ count \in Nat
  BY Asked DEF InAccess
<1>4. Told(count, buf) = [ok |-> TRUE, data |-> Req.data]
  BY <1>3 DEF Told
<1>5. ASSUME NEW a \in Addr
      PROVE  Cells'[a] = IF a \in Flat!Touched THEN Req.data[a - Req.a] ELSE Cells[a]
  <2>1. CASE a \in start .. start + count - 1
    <3>1. a - start \in 0 .. count - 1
      BY <1>3, <2>1
    <3>2. Req.data[a - Req.a] = buf[a - start]
      BY <1>3, <3>1
    <3> QED
      BY <1>3, <2>1, <3>2
  <2>2. CASE a \notin start .. start + count - 1
    BY <1>3, <2>2
  <2> QED
    BY <2>1, <2>2
<1>6. Cells' = [a \in Addr |-> IF a \in Flat!Touched THEN Req.data[a - Req.a] ELSE Cells[a]]
  BY <1>5, CellsAre
<1>7. Flat!Write
  BY <1>1, <1>2, <1>3, <1>4, <1>6 DEF Flat!Write, Flat!NoRequest, NoReq
<1> QED
  BY <1>7 DEF FlatStep, Flat!Next

LEMMA EmptyIsAnswer ==
  ASSUME Uncrossed, TypeOK, ReturnEmpty
  PROVE  FlatStep
<1>1. /\ InAccess /\ count = 0 /\ op' = "idle" /\ result' = "ok"
      /\ UNCHANGED <<ranges, mem, count, buf>>
  BY DEF ReturnEmpty, Done, mapVars, Uncrossed
<1>2. Flat!Touched = {} /\ start \in Nat
  BY <1>1, Asked
<1>3. Flat!Answers(TRUE) /\ Flat!Answers(FALSE)
  BY <1>2 DEF Flat!Answers
<1>4. \A i : i \notin 0 .. count - 1 /\ i \notin start .. start + count - 1
  BY <1>1, <1>2
<1>5. Cells' = Cells
  BY <1>1, SameCells
<1>6. CASE op = "read"
  BY <1>1, <1>3, <1>4, <1>6, ReadIsAnswer
<1>7. CASE op = "write"
  BY <1>1, <1>3, <1>4, <1>5, <1>7, WriteIsAnswer
<1> QED
  BY <1>1, <1>6, <1>7 DEF InAccess

LEMMA UnmappedIsAnswer ==
  ASSUME Separate, Uncrossed, TypeOK, NoMatch
  PROVE  FlatStep
<1>1. /\ InAccess /\ left > 0 /\ op' = "idle" /\ result' # "ok"
      /\ UNCHANGED <<ranges, mem>>
      /\ \A i \in 1 .. Len(ranges) : ~ Contains(ranges[i], addr)
  BY DEF NoMatch, Done, mapVars, Mapped
<1>2. /\ addr = start /\ left = count /\ Flat!Touched = start .. start + count - 1
      /\ start \in Addr /\ start \in Nat /\ count \in Nat /\ ranges \in Seq(Plug)
  BY <1>1, Asked
<1>3. Cells[start] = None
  BY <1>1, <1>2, NoCell, CellsAre
<1>4. start \in Flat!Touched
  BY <1>1, <1>2
<1>5. ~ Flat!Answers(op = "write")
  BY <1>3, <1>4 DEF Flat!Answers
<1> QED
  BY <1>1, <1>5, FailureIsAnswer

\* What DeviceAnswers says of the access under way.
LEMMA ServedAnswers ==
  ASSUME Separate, Uncrossed, TypeOK, InAccess, left > 0,
         NEW i \in 1 .. Len(ranges), Serves(i, addr)
  PROVE  /\ Fits(ranges[i].dev, addr - ranges[i].low, left) <=> Flat!Answers(FALSE)
         /\ Fits(ranges[i].dev, addr - ranges[i].low, left) =>
              \A x \in start .. start + count - 1 :
                /\ x \in Addr /\ x - ranges[i].low \in 0 .. Size[ranges[i].dev] - 1
                /\ Contains(ranges[i], x)
                /\ Cells[x] = mem[ranges[i].dev][x - ranges[i].low]
                /\ x \in Frozen <=> ranges[i].dev \in ROM
<1>1. /\ addr = start /\ left = count /\ Flat!Touched = start .. start + count - 1
      /\ start \in Addr /\ start \in Nat /\ count \in Nat /\ count <= MaxCount
      /\ ranges \in Seq(Plug) /\ \A d \in Dev : mem[d] \in Content(d)
  BY Asked
<1>2. count \in 1 .. MaxCount
  BY <1>1, BusAssumption
<1>3. (start + count - 1) % AddrMod <= ranges[i].high
  BY <1>1 DEF Uncrossed
<1>4. Contains(ranges[i], start)
  BY <1>1 DEF Serves
<1>5. /\ Fits(ranges[i].dev, start - ranges[i].low, count) <=>
           \A x \in start .. start + count - 1 : x \in Addr /\ CellIn(ranges, mem, x) # None
      /\ Fits(ranges[i].dev, start - ranges[i].low, count) =>
           \A x \in start .. start + count - 1 :
             /\ x - ranges[i].low \in 0 .. Size[ranges[i].dev] - 1 /\ Contains(ranges[i], x)
             /\ CellIn(ranges, mem, x) = mem[ranges[i].dev][x - ranges[i].low]
             /\ FrozenIn(ranges, x) <=> ranges[i].dev \in ROM
  BY <1>1, <1>2, <1>3, <1>4, DeviceAnswers
<1>6. Flat!Answers(FALSE) <=>
        \A x \in start .. start + count - 1 : x \in Addr /\ CellIn(ranges, mem, x) # None
  BY <1>1, CellsAre DEF Flat!Answers
<1> QED
  BY <1>1, <1>5, <1>6, CellsAre

LEMMA ReadLastIsAnswer ==
  ASSUME Separate, Uncrossed, TypeOK, op = "read", left > 0,
         NEW i \in 1 .. Len(ranges), Serves(i, addr), ReadLast(ranges[i])
  PROVE  FlatStep
<1> DEFINE d == ranges[i].dev
           o == addr - ranges[i].low
<1>1. InAccess /\ ~ (op = "write")
  BY DEF InAccess
<1>2. CASE Fits(d, o, left)
  <2>1. buf' = Loaded(d, o, left) /\ op' = "idle" /\ result' = "ok"
        /\ UNCHANGED <<ranges, mem, count>>
    BY <1>2 DEF ReadLast, Done, mapVars
  <2>2. /\ addr = start /\ left = count /\ pos = 0 /\ start \in Nat /\ count \in Nat
        /\ count <= MaxCount
    BY <1>1, Asked
  <2>3. ASSUME NEW k \in 0 .. count - 1
        PROVE  buf'[k] = Cells[start + k]
    <3>1. k \in BufIndex /\ 0 <= k /\ k < count
      BY <2>2, BusAssumption DEF BufIndex
    <3>2. buf'[k] = mem[d][o + k - 0]
      BY <2>1, <2>2, <3>1 DEF Loaded
    <3>3. PICK x \in start .. start + count - 1 : x = start + k
      BY <2>2
    <3>4. Cells[x] = mem[d][x - ranges[i].low]
      BY <1>1, <1>2, ServedAnswers
    <3>5. x - ranges[i].low = o + k - 0
      <4>1. PICK l \in Nat : l = ranges[i].low
        BY EntryOfRanges DEF Addr
      <4>2. x - l = (start - l) + k - 0
        BY <2>2, <3>1, <3>3
      <4> QED
        BY <2>2, <4>1, <4>2
    <3>6. buf'[k] = Cells[x]
      BY <3>2, <3>4, <3>5, Zenon
    <3> QED
      BY <3>3, <3>6, Zenon
  <2>4. Flat!Answers(FALSE)
    BY <1>1, <1>2, ServedAnswers
  <2> QED
    BY <2>1, <2>3, <2>4, ReadIsAnswer
<1>3. CASE ~ Fits(d, o, left)
  <2>1. op' = "idle" /\ result' # "ok" /\ UNCHANGED <<ranges, mem>>
    BY <1>3 DEF ReadLast, DeviceThrows, Done, mapVars
  <2>2. ~ Flat!Answers(FALSE)
    BY <1>1, <1>3, ServedAnswers
  <2>3. ~ Flat!Answers(op = "write")
    BY <1>1, <2>2 DEF Flat!Answers
  <2> QED
    BY <1>1, <2>1, <2>3, FailureIsAnswer
<1> QED
  BY <1>2, <1>3

\* The cells behind a write, with the bytes of the devices m before it and w after it.
LEMMA CellsWritten ==
  ASSUME Separate, Uncrossed, TypeOK, InAccess, left > 0,
         NEW i \in 1 .. Len(ranges), Serves(i, addr),
         Fits(ranges[i].dev, addr - ranges[i].low, left),
         NEW w, w[ranges[i].dev] = Stored(ranges[i].dev, addr - ranges[i].low, left),
         \A d \in Dev : d # ranges[i].dev => w[d] = mem[d],
         NEW a \in Addr
  PROVE  CellIn(ranges, w, a) =
           IF a \in start .. start + count - 1 THEN buf[a - start] ELSE CellIn(ranges, mem, a)
<1> DEFINE touched == start .. start + count - 1
<1>1. /\ addr = start /\ left = count /\ pos = 0 /\ start \in Nat /\ count \in Nat
      /\ ranges \in Seq(Plug)
  BY Asked
<1>2. PICK r \in Plug : r = ranges[i]
  BY <1>1
<1>3. r.dev \in Dev /\ r.low \in Nat /\ a \in Nat /\ Size[r.dev] \in Nat
  <2>1. r.dev \in Dev /\ r.low \in Addr
    BY BusAssumption
  <2> QED
    BY <2>1, BusAssumption DEF Addr
<1>4. PICK o \in Int : o = start - r.low
  BY <1>1, <1>3
<1>5. /\ w[r.dev] = Stored(r.dev, o, count)
      /\ \A d \in Dev : d # r.dev => w[d] = mem[d]
  BY <1>1, <1>2, <1>4
<1>6. \A x \in 0 .. Size[r.dev] - 1 :
        w[r.dev][x] = IF o <= x /\ x < o + count THEN buf[0 + x - o] ELSE mem[r.dev][x]
  BY <1>1, <1>5 DEF Stored
<1>7. CASE a \in touched
  <2>1. a - r.low \in 0 .. Size[r.dev] - 1 /\ Contains(r, a)
    BY <1>2, <1>7, ServedAnswers
  <2>2. CellIn(ranges, w, a) = w[r.dev][a - r.low]
    <3>1. a - r.low < Size[r.dev]
      BY <1>3, <2>1
    <3> QED
      BY <1>1, <1>2, <2>1, <3>1, CellIs
  <2>3. o <= a - r.low /\ a - r.low < o + count /\ 0 + (a - r.low) - o = a - start
    <3>1. PICK l \in Nat : l = r.low
      BY <1>3
    <3>2. o = start - l
      BY <1>4, <3>1
    <3>3. a \in Nat /\ start \in Nat /\ count \in Nat /\ start <= a /\ a <= start + count - 1
      BY <1>1, <1>3, <1>7
    <3>4. o <= a - l /\ a - l < o + count /\ 0 + (a - l) - o = a - start
      BY <3>2, <3>3
    <3> QED
      BY <3>1, <3>4
  <2>4. w[r.dev][a - r.low] = buf[a - start]
    BY <1>6, <2>1, <2>3
  <2> QED
    BY <1>7, <2>2, <2>4
<1>8. CASE a \notin touched
  <2>1. CASE \A k \in 1 .. Len(ranges) : ~ Contains(ranges[k], a)
    <3>1. CellIn(ranges, w, a) = None /\ CellIn(ranges, mem, a) = None
      BY <1>1, <2>1, NoCell
    <3> QED
      BY <1>8, <3>1
  <2>2. CASE \E k \in 1 .. Len(ranges) : Contains(ranges[k], a)
    <3>1. PICK k \in 1 .. Len(ranges) : Contains(ranges[k], a)
      BY <2>2
    <3>2. PICK q \in Plug : q = ranges[k]
      BY <1>1
    <3>3. q.dev \in Dev /\ q.low \in Nat /\ Size[q.dev] \in Nat
      <4>1. q.dev \in Dev /\ q.low \in Addr
        BY BusAssumption
      <4> QED
        BY <4>1, BusAssumption DEF Addr
    <3>4. CellIn(ranges, mem, a) = IF a - q.low < Size[q.dev] THEN mem[q.dev][a - q.low] ELSE None
      BY <1>1, <3>1, <3>2, CellIs
    <3>5. CellIn(ranges, w, a) = IF a - q.low < Size[q.dev] THEN w[q.dev][a - q.low] ELSE None
      BY <1>1, <3>1, <3>2, CellIs
    <3>6. ASSUME a - q.low < Size[q.dev]
          PROVE  w[q.dev][a - q.low] = mem[q.dev][a - q.low]
      <4>1. CASE q = r
        <5>1. q.low <= a
          BY <3>1, <3>2 DEF Contains
        <5>2. PICK x \in 0 .. Size[r.dev] - 1 : x = a - r.low
          BY <1>3, <3>6, <4>1, <5>1
        <5>3. ~ (o <= x /\ x < o + count)
          BY <1>1, <1>3, <1>4, <1>8, <5>2
        <5>4. w[r.dev][x] = mem[r.dev][x]
          BY <1>6, <5>2, <5>3
        <5> QED
          BY <4>1, <5>2, <5>4
      <4>2. CASE q # r
        <5>1. q.dev # r.dev
          BY <4>2 DEF Separate
        <5> QED
          BY <1>5, <3>3, <5>1
      <4> QED
        BY <4>1, <4>2
    <3> QED
      BY <1>8, <3>4, <3>5, <3>6
  <2> QED
    BY <2>1, <2>2
<1> QED
  BY <1>7, <1>8

LEMMA WriteLastIsAnswer ==
  ASSUME Separate, Uncrossed, TypeOK, op = "write", left > 0,
         NEW i \in 1 .. Len(ranges), Serves(i, addr), WriteLast(ranges[i])
  PROVE  FlatStep
<1> DEFINE d == ranges[i].dev
           o == addr - ranges[i].low
<1>1. InAccess
  BY DEF InAccess
<1>2. /\ addr = start /\ left = count /\ start \in Nat /\ count \in Nat
      /\ Flat!Touched = start .. start + count - 1
  BY <1>1, Asked
<1>3. start \in start .. start + count - 1
  BY <1>2
<1>4. CASE d \notin ROM /\ Fits(d, o, left)
  <2>1. /\ mem' = [mem EXCEPT ![d] = Stored(d, o, left)] /\ op' = "idle" /\ result' = "ok"
        /\ UNCHANGED <<ranges, count, buf>>
    BY <1>4 DEF WriteLast, Done, mapVars
  <2>2. ASSUME NEW a \in Addr
        PROVE  Cells'[a] = IF a \in start .. start + count - 1 THEN buf[a - start] ELSE Cells[a]
    <3>1. PICK w : w = mem'
      OBVIOUS
    <3>2. w[d] = Stored(d, o, left) /\ \A e \in Dev : e # d => w[e] = mem[e]
      <4>1. d \in Dev
        BY EntryOfRanges
      <4> QED
        BY <2>1, <3>1, <4>1 DEF TypeOK
    <3>3. CellIn(ranges, w, a) =
            IF a \in start .. start + count - 1 THEN buf[a - start] ELSE CellIn(ranges, mem, a)
      BY <1>1, <1>4, <3>2, CellsWritten
    <3>4. Cells[a] = CellIn(ranges, mem, a) /\ Cells'[a] = CellIn(ranges, w, a)
      BY <2>1, <3>1, CellsAre
    <3> QED
      BY <3>3, <3>4
  <2>3. Flat!Answers(TRUE)
    <3>1. Flat!Answers(FALSE)
      BY <1>1, <1>4, ServedAnswers
    <3>2. \A x \in Flat!Touched : x \notin Frozen
      BY <1>1, <1>2, <1>4, ServedAnswers
    <3> QED
      BY <3>1, <3>2 DEF Flat!Answers
  <2> QED
    BY <2>1, <2>2, <2>3, WriteIsAnswer
<1>5. CASE ~ (d \notin ROM /\ Fits(d, o, left))
  <2>1. op' = "idle" /\ result' # "ok" /\ UNCHANGED <<ranges, mem>>
    BY <1>5 DEF WriteLast, DeviceThrows, Done, mapVars
  <2>2. ~ Flat!Answers(TRUE)
    <3>1. ASSUME Flat!Answers(TRUE)
          PROVE  FALSE
      <4>1. Flat!Answers(FALSE)
        BY <3>1 DEF Flat!Answers
      <4>2. Fits(d, o, left)
        BY <1>1, <4>1, ServedAnswers
      <4>3. start \in Frozen
        BY <1>1, <1>3, <1>5, <4>2, ServedAnswers
      <4> QED
        BY <1>2, <1>3, <3>1, <4>3 DEF Flat!Answers
    <3> QED
      BY <3>1
  <2>3. ~ Flat!Answers(op = "write")
    BY <2>2 DEF Flat!Answers
  <2> QED
    BY <1>1, <2>1, <2>3, FailureIsAnswer
<1> QED
  BY <1>4, <1>5

LEMMA NextIsFlat ==
  ASSUME Separate, Uncrossed, TypeOK, [Next]_vars
  PROVE  FlatStep
<1>1. CASE Host
  <2>1. ASSUME NEW p \in Plug, Add(p) PROVE FlatStep
    BY <2>1, AddIsExtend
  <2>2. ASSUME NEW k \in {"removeLow", "removeDev", "rangeFree"}, NEW x, BeginErase(k, x)
        PROVE  FlatStep
    BY <2>2, Quiet DEF BeginErase, accessVars
  <2> QED
    BY <1>1, <2>1, <2>2 DEF Host, RemoveLow, RemoveDev, RangeFree
<1>2. CASE Access
  BY <1>2, BeginIsRequest DEF Access
<1>3. CASE EraseEntry
  BY <1>3, EraseIsShrink
<1>4. CASE KeepEntry \/ EndErase
  BY <1>4, Quiet DEF KeepEntry, EndErase, Erasing, accessVars
<1>5. CASE ReadStep
  <2>1. PICK i \in 1 .. Len(ranges) : Serves(i, addr) /\ ReadLast(ranges[i])
    BY <1>5, NoStraddle DEF ReadStep, InAccess
  <2> QED
    BY <1>5, <2>1, ReadLastIsAnswer DEF ReadStep
<1>6. CASE WriteStep
  <2>1. PICK i \in 1 .. Len(ranges) : Serves(i, addr) /\ WriteLast(ranges[i])
    BY <1>6, NoStraddle DEF WriteStep, InAccess
  <2> QED
    BY <1>6, <2>1, WriteLastIsAnswer DEF WriteStep
<1>7. CASE UNCHANGED vars
  <2>1. UNCHANGED <<ranges, mem, count, buf, result, op, start>>
    BY <1>7 DEF vars
  <2>2. op' = op /\ start' = start
    BY <2>1
  <2> QED
    BY <2>1, <2>2, Quiet, SMT
<1>8. CASE Step
  <2>1. CASE ReturnEmpty
    BY <2>1, EmptyIsAnswer
  <2>2. CASE NoMatch
    BY <2>2, UnmappedIsAnswer
  <2> QED
    BY <1>3, <1>4, <1>5, <1>6, <1>8, <2>1, <2>2 DEF Step
<1> QED
  BY <1>1, <1>2, <1>7, <1>8 DEF Next

\* With disjoint windows that their devices do not outgrow, the bus is one flat memory: every
\* access takes effect at one instant and on all of its bytes, or fails and changes none,
\* whatever is mapped or taken out between accesses (FlatSpec without its fairness).
THEOREM BusIsFlat ==
  ASSUME Separate
  PROVE  Spec => Flat!Init /\ [][Flat!Next]_(Flat!vars)
<1>1. AccessInv /\ Uncrossed /\ [Next]_vars => Uncrossed' /\ [Flat!Next]_(Flat!vars)
  BY UncrossedKept, NextIsFlat DEF AccessInv, FlatStep
<1> QED
  BY <1>1, AccessInit, AccessInductive, UncrossedInit, FlatInit, PTL DEF Spec

-----------------------------------------------------------------------------
(* The bus lock: who holds it, that it excludes and makes atomic as long   *)
(* as no CPU goes on after a test that no longer holds, and that it never  *)
(* stays behind without a holder.                                          *)
(*                                                                         *)
(* LockInv adds to those what they rest on: while nothing has raced, the   *)
(* memory is locked whenever somebody holds it, and the busmaster, and any *)
(* CPU between Lock and Unlock, holds it.                                  *)


\* A CPU that acts as a holder is one.
ActsAsHolder(p) ==
  /\ pc[p] = "own" => held[p]
  /\ ~ raced =>
       /\ held[p] => locked
       /\ pc[p] = "set" => ~ held[p] /\ ~ seen[p] /\ nest[p] = 0
       /\ pc[p] = "own" => nest[p] = 0
       /\ nest[p] <= 1
       /\ nest[p] = 1 => busmaster[p]
       /\ busmaster[p] /\ pc[p] # "disown" => held[p]
       /\ pc[p] = "clear" => nest[p] = 1
       /\ pc[p] = "disown" => nest[p] = 1
       /\ pc[p] \in {"read", "write"} /\ ~ busmaster[p] => ~ seen[p]

\* The calls of Lock an instruction has still to undo.
Nesting(p) ==
  /\ pc[p] = "fetch" => nest[p] = 0
  /\ pc[p] \in {"test", "set", "own"} => nest[p] = 0 \/ (nest[p] = 1 /\ insn[p] = "lock xchg")
  /\ pc[p] \in {"clear", "disown"} => nest[p] >= 1

LockInv ==
  /\ LockTypeOK
  /\ \A p \in CPU : Nesting(p)
  /\ LockedHasHolder
  /\ ExclusiveUnlessRaced
  /\ LockedIsAtomic
  /\ \A p \in CPU : ActsAsHolder(p)

-----------------------------------------------------------------------------

LEMMA ResultsTyped ==
  ASSUME LockTypeOK, NEW p \in CPU
  PROVE  Results(p) \subseteq Value
<1>1. PICK n \in Nat : n = tmp[p]
  BY DEF LockTypeOK, Value
<1>2. Modulus \in Nat /\ Modulus > 0
  BY LockAssumption DEF LockAssumption
<1>3. (n + 1) % Modulus \in 0 .. Modulus - 1
  BY <1>2
<1> QED
  BY <1>1, <1>3 DEF Results, Value

LEMMA LabelsAre ==
  /\ "fetch" \in Labels /\ "test" \in Labels /\ "set" \in Labels /\ "own" \in Labels
  /\ "wait read" \in Labels /\ "read" \in Labels /\ "wait write" \in Labels
  /\ "write" \in Labels /\ "clear" \in Labels /\ "disown" \in Labels
BY DEF Labels

LEMMA LockTypes ==
  ASSUME LockTypeOK, \A p \in CPU : Nesting(p), NEW p \in CPU, LockStep(p)
  PROVE  LockTypeOK' /\ \A d \in CPU : Nesting(d)'
<1> USE DEF Goto
<1>a. pc \in [CPU -> Labels] /\ nest \in [CPU -> 0 .. 2] /\ insn \in [CPU -> Insns]
  BY DEF LockTypeOK
<1>b. Nesting(p)
  OBVIOUS
<1>c. PICK n \in Nat : n <= 2 /\ nest[p] = n
  BY <1>a
<1>1. CASE Fetch(p)
  <2>1. LockTypeOK'
    BY <1>1, LabelsAre DEF Fetch, WaitLock, LockTypeOK, machine
  <2>2. \A d \in CPU : Nesting(d)'
    BY <1>1 DEF Fetch, LockTypeOK, Nesting
  <2> QED
    BY <2>1, <2>2
<1>2. CASE Test(p)
  <2>1. LockTypeOK'
    BY <1>2, LabelsAre DEF Test, LockTypeOK, machine
  <2>2. \A d \in CPU : Nesting(d)'
    BY <1>2 DEF Test, LockTypeOK, Nesting
  <2> QED
    BY <2>1, <2>2
<1>3. CASE Set(p)
  <2>1. LockTypeOK'
    BY <1>3, LabelsAre DEF Set, LockTypeOK
  <2>2. \A d \in CPU : Nesting(d)'
    BY <1>3 DEF Set, LockTypeOK, Nesting
  <2> QED
    BY <2>1, <2>2
<1>4. CASE Own(p)
  <2>0. n = 0 \/ n = 1
    <3>1. nest[p] = 0 \/ nest[p] = 1
      BY <1>4, <1>b, Zenon DEF Own, Nesting
    <3> QED
      BY <1>c, <3>1
  <2>a. (n + 1) \in 0 .. 2 /\ n + 1 >= 1
    BY <2>0
  <2>1. LockTypeOK'
    <3>1. pc' \in [CPU -> Labels]
      BY <1>4, <1>a, LabelsAre DEF Own
    <3>2. nest' \in [CPU -> 0 .. 2]
      BY <1>4, <1>a, <1>c, <2>a DEF Own
    <3>3. busmaster' \in [CPU -> BOOLEAN]
      BY <1>4 DEF Own, LockTypeOK
    <3> QED
      BY <1>4, <3>1, <3>2, <3>3 DEF Own, LockTypeOK, machine, history
  <2>2. \A d \in CPU : Nesting(d)'
    <3>1. ASSUME NEW d \in CPU, d # p PROVE Nesting(d)'
      BY <1>4, <3>1 DEF Own, LockTypeOK, Nesting
    <3>2. Nesting(p)'
      <4>1. /\ nest'[p] = n + 1 /\ insn'[p] = insn[p]
            /\ pc'[p] = IF insn[p] = "lock xchg" /\ n = 0 THEN "test" ELSE "wait read"
        BY <1>4, <1>a, <1>c DEF Own
      <4>2. CASE insn[p] = "lock xchg" /\ n = 0
        <5>0. n = 0 /\ nest'[p] = n + 1
          BY <4>1, <4>2, Zenon
        <5>1. nest'[p] = 1
          BY <5>0
        <5>2. pc'[p] = "test" /\ insn'[p] = "lock xchg"
          BY <4>1, <4>2, Zenon
        <5> QED
          BY <5>1, <5>2, Zenon DEF Nesting
      <4>3. CASE ~ (insn[p] = "lock xchg" /\ n = 0)
        <5>1. pc'[p] = "wait read"
          BY <4>1, <4>3
        <5> QED
          BY <5>1, Zenon DEF Nesting
      <4> QED
        BY <4>2, <4>3
    <3> QED
      BY <3>1, <3>2
  <2> QED
    BY <2>1, <2>2
<1>5. CASE Wait(p)
  <2>1. LockTypeOK'
    BY <1>5, LabelsAre DEF Wait, WaitLock, LockTypeOK, machine
  <2>2. \A d \in CPU : Nesting(d)'
    BY <1>5 DEF Wait, LockTypeOK, Nesting
  <2> QED
    BY <2>1, <2>2
<1>6. CASE Read(p)
  <2>1. LockTypeOK'
    BY <1>6, LabelsAre DEF Read, LockTypeOK, machine
  <2>2. \A d \in CPU : Nesting(d)'
    BY <1>6 DEF Read, LockTypeOK, Nesting
  <2> QED
    BY <2>1, <2>2
<1>7. CASE Write(p)
  <2>0. cell' \in Value
    BY <1>7, ResultsTyped DEF Write
  <2>1. LockTypeOK'
    BY <1>7, <2>0, LabelsAre DEF Write, LockTypeOK
  <2>2. \A d \in CPU : Nesting(d)'
    <3>1. ASSUME NEW d \in CPU, d # p PROVE Nesting(d)'
      BY <1>7, <3>1 DEF Write, LockTypeOK, Nesting
    <3>2. Nesting(p)'
      <4>1. nest'[p] = n /\ pc'[p] = IF n > 0 THEN "clear" ELSE "fetch"
        BY <1>7, <1>a, <1>c DEF Write
      <4>2. CASE n > 0
        <5>1. nest'[p] >= 1 /\ pc'[p] = "clear"
          BY <4>1, <4>2
        <5> QED
          BY <5>1, Zenon DEF Nesting
      <4>3. CASE n = 0
        <5>1. nest'[p] = 0 /\ pc'[p] = "fetch"
          BY <4>1, <4>3
        <5> QED
          BY <5>1, Zenon DEF Nesting
      <4> QED
        BY <4>2, <4>3
    <3> QED
      BY <3>1, <3>2
  <2> QED
    BY <2>1, <2>2
<1>8. CASE Fault(p)
  <2>0. faulted' \in [CPU -> BOOLEAN]
    <3>1. faulted' = [faulted EXCEPT ![p] = faulted[p] \/ nest[p] > 0] /\ faulted \in [CPU -> BOOLEAN]
      BY <1>8 DEF Fault, LockTypeOK
    <3>2. (faulted[p] \/ nest[p] > 0) \in BOOLEAN
      BY Zenon
    <3> QED
      BY <3>1, <3>2, Zenon
  <2>1. LockTypeOK'
    <3>1. pc' \in [CPU -> Labels]
      BY <1>8, <1>a, LabelsAre DEF Fault
    <3>2. nest' \in [CPU -> 0 .. 2]
      BY <1>8, <1>a DEF Fault
    <3> QED
      BY <1>8, <2>0, <3>1, <3>2 DEF Fault, LockTypeOK, machine
  <2>2. \A d \in CPU : Nesting(d)'
    BY <1>8 DEF Fault, LockTypeOK, Nesting
  <2> QED
    BY <2>1, <2>2
<1>9. CASE Clear(p)
  <2>1. LockTypeOK'
    BY <1>9, LabelsAre DEF Clear, LockTypeOK
  <2>2. \A d \in CPU : Nesting(d)'
    BY <1>9 DEF Clear, LockTypeOK, Nesting
  <2> QED
    BY <2>1, <2>2
<1>10. CASE Disown(p)
  <2>0. n >= 1 /\ n - 1 \in 0 .. 2
    <3>1. nest[p] >= 1
      BY <1>10, <1>b, Zenon DEF Disown, Nesting
    <3> QED
      BY <1>c, <3>1
  <2>1. LockTypeOK'
    <3>1. pc' \in [CPU -> Labels]
      BY <1>10, <1>a, LabelsAre DEF Disown
    <3>2. nest' \in [CPU -> 0 .. 2]
      BY <1>10, <1>a, <1>c, <2>0 DEF Disown
    <3>3. busmaster' \in [CPU -> BOOLEAN]
      BY <1>10 DEF Disown, LockTypeOK
    <3> QED
      BY <1>10, <3>1, <3>2, <3>3 DEF Disown, LockTypeOK, machine, history
  <2>2. \A d \in CPU : Nesting(d)'
    <3>1. ASSUME NEW d \in CPU, d # p PROVE Nesting(d)'
      BY <1>10, <3>1 DEF Disown, LockTypeOK, Nesting
    <3>2. Nesting(p)'
      <4>1. nest'[p] = n - 1 /\ pc'[p] = IF n > 1 THEN "clear" ELSE "fetch"
        BY <1>10, <1>a, <1>c DEF Disown
      <4>2. CASE n = 2
        <5>1. nest'[p] >= 1 /\ pc'[p] = "clear"
          BY <4>1, <4>2
        <5> QED
          BY <5>1, Zenon DEF Nesting
      <4>3. CASE n = 1
        <5>1. nest'[p] = 0 /\ pc'[p] = "fetch"
          BY <4>1, <4>3
        <5> QED
          BY <5>1, Zenon DEF Nesting
      <4> QED
        BY <1>c, <2>0, <4>2, <4>3
    <3> QED
      BY <3>1, <3>2
  <2> QED
    BY <2>1, <2>2
<1> QED
  BY <1>1, <1>2, <1>3, <1>4, <1>5, <1>6, <1>7, <1>8, <1>9, <1>10 DEF LockStep

-----------------------------------------------------------------------------
(* Each step keeps the lock's invariant.  What the proof needs of a step:  *)
(* the CPU d that did not take it sees its own variables unchanged.        *)

LEMMA OthersUntouched ==
  ASSUME LockTypeOK, NEW p \in CPU, LockStep(p), NEW d \in CPU, d # p
  PROVE  /\ pc'[d] = pc[d] /\ held'[d] = held[d] /\ seen'[d] = seen[d]
         /\ busmaster'[d] = busmaster[d] /\ nest'[d] = nest[d] /\ tmp'[d] = tmp[d]
<1> USE DEF Goto, WaitLock, LockTypeOK, machine, history
<1>1. CASE Fetch(p)
  BY <1>1 DEF Fetch
<1>2. CASE Test(p)
  BY <1>2 DEF Test
<1>3. CASE Set(p)
  BY <1>3 DEF Set
<1>4. CASE Own(p)
  BY <1>4 DEF Own
<1>5. CASE Wait(p)
  BY <1>5 DEF Wait
<1>6. CASE Read(p)
  BY <1>6 DEF Read
<1>7. CASE Write(p)
  BY <1>7 DEF Write
<1>8. CASE Fault(p)
  BY <1>8 DEF Fault
<1>9. CASE Clear(p)
  BY <1>9 DEF Clear
<1>10. CASE Disown(p)
  BY <1>10 DEF Disown
<1> QED
  BY <1>1, <1>2, <1>3, <1>4, <1>5, <1>6, <1>7, <1>8, <1>9, <1>10 DEF LockStep

\* What a step of p needs to show for the other CPUs, once it is known that nobody
\* else loses the lock to it and that no other holder's value is overwritten.
LEMMA OthersKeep ==
  ASSUME LockInv, NEW p \in CPU, LockStep(p), NEW d \in CPU, d # p,
         raced => raced', ~ raced' => (held[d] => locked')
  PROVE  ActsAsHolder(d)'
<1>1. /\ pc'[d] = pc[d] /\ held'[d] = held[d] /\ seen'[d] = seen[d]
      /\ busmaster'[d] = busmaster[d] /\ nest'[d] = nest[d]
  BY OthersUntouched DEF LockInv
<1>2. ActsAsHolder(d)
  BY DEF LockInv
<1> QED
  BY <1>1, <1>2, Zenon DEF ActsAsHolder

\* A step that leaves locked, cell and the holders alone.
LEMMA QuietStep ==
  ASSUME LockInv, NEW p \in CPU, LockStep(p),
         locked' = locked, cell' = cell, held' = held, raced => raced',
         ActsAsHolder(p)',
         held[p] /\ pc'[p] \in {"wait write", "write"} => tmp'[p] = cell
           \/ (tmp'[p] = tmp[p] /\ pc[p] \in {"wait write", "write"})
  PROVE  LockInv'
<1>1. LockTypeOK' /\ \A d \in CPU : Nesting(d)'
  BY LockTypes DEF LockInv
<1>2. LockedHasHolder'
  BY Zenon DEF LockInv, LockedHasHolder
<1>3. ExclusiveUnlessRaced'
  BY Zenon DEF LockInv, ExclusiveUnlessRaced
<1>4. LockedIsAtomic'
  <2> SUFFICES ASSUME ~ raced', NEW d \in CPU, held'[d], pc'[d] \in {"wait write", "write"}
               PROVE  tmp'[d] = cell'
    BY Zenon DEF LockedIsAtomic
  <2>1. CASE d = p
    BY <2>1, Zenon DEF LockInv, LockedIsAtomic
  <2>2. CASE d # p
    <3>1. pc'[d] = pc[d] /\ tmp'[d] = tmp[d]
      BY <2>2, OthersUntouched DEF LockInv
    <3> QED
      BY <3>1, Zenon DEF LockInv, LockedIsAtomic
  <2> QED
    BY <2>1, <2>2
<1>5. ASSUME NEW d \in CPU PROVE ActsAsHolder(d)'
  <2>1. CASE d = p
    BY <2>1
  <2>2. CASE d # p
    <3>1. ~ raced' => (held[d] => locked')
      BY Zenon DEF LockInv, ActsAsHolder
    <3> QED
      BY <2>2, <3>1, OthersKeep
  <2> QED
    BY <2>1, <2>2
<1> QED
  BY <1>1, <1>2, <1>3, <1>4, <1>5 DEF LockInv

\* The variables of the CPU that takes a step, as a step finds them.
LEMMA Mine ==
  ASSUME LockInv, NEW p \in CPU
  PROVE  /\ LockTypeOK /\ ActsAsHolder(p) /\ Nesting(p)
         /\ pc \in [CPU -> Labels] /\ nest \in [CPU -> 0 .. 2]
         /\ held \in [CPU -> BOOLEAN] /\ seen \in [CPU -> BOOLEAN]
         /\ busmaster \in [CPU -> BOOLEAN] /\ tmp \in [CPU -> Value]
BY DEF LockInv, LockTypeOK

LEMMA FetchKeeps ==
  ASSUME LockInv, NEW p \in CPU, Fetch(p)
  PROVE  LockInv'
<1>1. /\ locked' = locked /\ cell' = cell /\ held' = held /\ raced' = raced
      /\ busmaster' = busmaster /\ nest' = nest
      /\ pc[p] = "fetch" /\ (pc'[p] = "test" \/ pc'[p] = "wait read")
  BY Mine DEF Fetch, machine, Goto
<1>2. ActsAsHolder(p)'
  BY <1>1, Mine, Zenon DEF ActsAsHolder
<1>3. ~ (pc'[p] \in {"wait write", "write"})
  BY <1>1, Zenon
<1> QED
  BY <1>1, <1>2, <1>3, QuietStep DEF LockStep

LEMMA TestKeeps ==
  ASSUME LockInv, NEW p \in CPU, Test(p)
  PROVE  LockInv'
<1>1. /\ locked' = locked /\ cell' = cell /\ held' = held /\ raced' = raced
      /\ busmaster' = busmaster /\ nest' = nest
      /\ pc[p] = "test" /\ pc'[p] = "set" /\ ~ locked /\ ~ seen'[p]
  BY Mine DEF Test, machine, Goto
<1>2. ~ raced => nest[p] = 0
  <2>1. nest[p] = 0 \/ nest[p] = 1 \/ nest[p] = 2
    BY Mine
  <2>2. ~ raced => ~ (nest[p] = 1)
    BY <1>1, Mine, Zenon DEF ActsAsHolder
  <2>3. ~ raced => nest[p] <= 1
    BY Mine, Zenon DEF ActsAsHolder
  <2> QED
    BY <2>1, <2>2, <2>3
<1>3. ActsAsHolder(p)'
  BY <1>1, <1>2, Mine, Zenon DEF ActsAsHolder
<1>4. ~ (pc'[p] \in {"wait write", "write"})
  BY <1>1, Zenon
<1> QED
  BY <1>1, <1>3, <1>4, QuietStep DEF LockStep

LEMMA OwnKeeps ==
  ASSUME LockInv, NEW p \in CPU, Own(p)
  PROVE  LockInv'
<1>1. /\ locked' = locked /\ cell' = cell /\ held' = held /\ raced' = raced
      /\ busmaster'[p] /\ nest'[p] = nest[p] + 1
      /\ pc[p] = "own" /\ (pc'[p] = "test" \/ pc'[p] = "wait read")
  BY Mine DEF Own, machine, history, Goto
<1>2. ~ raced => nest'[p] = 1 /\ nest'[p] <= 1
  <2>1. ~ raced => nest[p] = 0
    BY <1>1, Mine, Zenon DEF ActsAsHolder
  <2>2. nest'[p] = nest[p] + 1
    BY <1>1
  <2> QED
    BY <2>1, <2>2
<1>3. ActsAsHolder(p)'
  BY <1>1, <1>2, Mine, Zenon DEF ActsAsHolder
<1>4. ~ (pc'[p] \in {"wait write", "write"})
  BY <1>1, Zenon
<1> QED
  BY <1>1, <1>3, <1>4, QuietStep DEF LockStep

LEMMA WaitKeeps ==
  ASSUME LockInv, NEW p \in CPU, Wait(p)
  PROVE  LockInv'
<1>1. /\ locked' = locked /\ cell' = cell /\ held' = held /\ raced' = raced
      /\ busmaster' = busmaster /\ nest' = nest /\ tmp' = tmp
      /\ ~ busmaster[p] => ~ seen'[p]
      /\ \/ pc[p] = "wait read" /\ pc'[p] = "read"
         \/ pc[p] = "wait write" /\ pc'[p] = "write"
  BY Mine DEF Wait, WaitLock, machine, Goto
<1>2. ActsAsHolder(p)'
  BY <1>1, Mine, Zenon DEF ActsAsHolder
<1>3. pc'[p] \in {"wait write", "write"} => tmp'[p] = tmp[p] /\ pc[p] \in {"wait write", "write"}
  BY <1>1, Zenon
<1> QED
  BY <1>1, <1>2, <1>3, QuietStep DEF LockStep

LEMMA ReadKeeps ==
  ASSUME LockInv, NEW p \in CPU, Read(p)
  PROVE  LockInv'
<1>1. /\ locked' = locked /\ cell' = cell /\ held' = held /\ (raced => raced')
      /\ busmaster' = busmaster /\ nest' = nest /\ tmp'[p] = cell
      /\ pc[p] = "read" /\ pc'[p] = "wait write"
  BY Mine DEF Read, machine, Goto
<1>2. ActsAsHolder(p)'
  BY <1>1, Mine, Zenon DEF ActsAsHolder
<1> QED
  BY <1>1, <1>2, QuietStep DEF LockStep

LEMMA FaultKeeps ==
  ASSUME LockInv, NEW p \in CPU, Fault(p)
  PROVE  LockInv'
<1>1. /\ locked' = locked /\ cell' = cell /\ held' = held /\ raced' = raced
      /\ busmaster' = busmaster /\ nest'[p] = 0 /\ nest'[p] <= 1 /\ ~ (nest'[p] = 1)
      /\ (pc[p] = "read" \/ pc[p] = "write") /\ pc'[p] = "fetch"
  BY Mine DEF Fault, machine, Goto
<1>2. ActsAsHolder(p)'
  BY <1>1, Mine, Zenon DEF ActsAsHolder
<1>3. ~ (pc'[p] \in {"wait write", "write"})
  BY <1>1, Zenon
<1> QED
  BY <1>1, <1>2, <1>3, QuietStep DEF LockStep

LEMMA DisownKeeps ==
  ASSUME LockInv, NEW p \in CPU, Disown(p)
  PROVE  LockInv'
<1>1. /\ locked' = locked /\ cell' = cell /\ held' = held /\ raced' = raced
      /\ ~ busmaster'[p] /\ nest'[p] = nest[p] - 1
      /\ pc[p] = "disown" /\ pc'[p] = IF nest[p] > 1 THEN "clear" ELSE "fetch"
  BY Mine DEF Disown, machine, history, Goto
<1>2. ~ raced => nest'[p] <= 1 /\ ~ (nest'[p] = 1) /\ ~ (nest[p] > 1)
  <2>1. ~ raced => nest[p] = 1
    BY <1>1, Mine, Zenon DEF ActsAsHolder
  <2>2. nest'[p] = nest[p] - 1
    BY <1>1
  <2> QED
    BY <2>1, <2>2
<1>3. (pc'[p] = "clear" \/ pc'[p] = "fetch") /\ (~ raced => pc'[p] = "fetch")
  BY <1>1, <1>2, Zenon
<1>4. ActsAsHolder(p)'
  BY <1>1, <1>2, <1>3, Mine, Zenon DEF ActsAsHolder
<1>5. ~ (pc'[p] \in {"wait write", "write"})
  BY <1>3, Zenon
<1> QED
  BY <1>1, <1>4, <1>5, QuietStep DEF LockStep

LEMMA SetKeeps ==
  ASSUME LockInv, NEW p \in CPU, Set(p)
  PROVE  LockInv'
<1>1. /\ locked' /\ cell' = cell /\ held' = [held EXCEPT ![p] = TRUE]
      /\ raced' = (raced \/ Stale(p)) /\ busmaster' = busmaster /\ nest' = nest /\ tmp' = tmp
      /\ pc[p] = "set" /\ pc'[p] = "own"
  BY Mine DEF Set, Goto
<1>2. /\ held'[p] /\ \A d \in CPU : d # p => held'[d] = held[d]
      /\ raced => raced'
  BY <1>1, Mine
<1>3. ASSUME ~ raced' PROVE /\ ~ raced /\ nest[p] = 0 /\ ~ (nest[p] = 1) /\ ~ locked
                            /\ \A d \in CPU : ~ held[d]
  <2>1. ~ raced /\ ~ locked /\ nest[p] = 0
    BY <1>1, <1>3, Mine, Zenon DEF ActsAsHolder, Stale
  <2>2. \A d \in CPU : ~ held[d]
    BY <2>1, Zenon DEF LockInv, ActsAsHolder
  <2>3. ~ (nest[p] = 1)
    BY <2>1
  <2> QED
    BY <2>1, <2>2, <2>3
<1>4. LockTypeOK' /\ \A d \in CPU : Nesting(d)'
  BY LockTypes DEF LockInv, LockStep
<1>5. LockedHasHolder'
  BY <1>2, Zenon DEF LockedHasHolder
<1>6. ExclusiveUnlessRaced'
  BY <1>2, <1>3, Zenon DEF ExclusiveUnlessRaced
<1>7. LockedIsAtomic'
  <2> SUFFICES ASSUME ~ raced', NEW d \in CPU, held'[d], pc'[d] \in {"wait write", "write"}
               PROVE  FALSE
    BY Zenon DEF LockedIsAtomic
  <2>1. d = p
    BY <1>2, <1>3, Zenon
  <2> QED
    BY <1>1, <2>1, Zenon
<1>8. ActsAsHolder(p)'
  BY <1>1, <1>2, <1>3, Mine, Zenon DEF ActsAsHolder
<1>9. ASSUME NEW d \in CPU PROVE ActsAsHolder(d)'
  <2>1. CASE d = p
    BY <1>8, <2>1
  <2>2. CASE d # p
    BY <1>1, <1>2, <2>2, OthersKeep DEF LockStep
  <2> QED
    BY <2>1, <2>2
<1> QED
  BY <1>4, <1>5, <1>6, <1>7, <1>9 DEF LockInv

LEMMA WriteKeeps ==
  ASSUME LockInv, NEW p \in CPU, Write(p)
  PROVE  LockInv'
<1>1. /\ locked' = locked /\ held' = held /\ raced' = (raced \/ StaleAccess(p))
      /\ busmaster' = busmaster /\ nest' = nest /\ tmp' = tmp
      /\ pc[p] = "write" /\ pc'[p] = IF nest[p] > 0 THEN "clear" ELSE "fetch"
  BY Mine DEF Write, Goto
<1>2. raced => raced'
  BY <1>1
<1>3. pc'[p] = "clear" \/ pc'[p] = "fetch"
  BY <1>1, Zenon
<1>4. LockTypeOK' /\ \A d \in CPU : Nesting(d)'
  BY LockTypes DEF LockInv, LockStep
<1>5. LockedHasHolder' /\ ExclusiveUnlessRaced'
  BY <1>1, <1>2, Zenon DEF LockInv, LockedHasHolder, ExclusiveUnlessRaced
<1>6. ASSUME ~ raced', NEW d \in CPU, held[d] PROVE d = p
  <2>1. ~ raced /\ ~ StaleAccess(p)
    BY <1>1, <1>6, Zenon
  <2>2. CASE busmaster[p]
    <3>1. held[p]
      BY <1>1, <2>1, <2>2, Mine, Zenon DEF ActsAsHolder
    <3> QED
      BY <1>6, <2>1, <3>1, Zenon DEF LockInv, ExclusiveUnlessRaced
  <2>3. CASE ~ busmaster[p]
    <3>1. ~ locked
      BY <1>1, <2>1, <2>3, Mine, Zenon DEF ActsAsHolder, StaleAccess, Stale
    <3> QED
      BY <1>6, <2>1, <3>1, Zenon DEF LockInv, ActsAsHolder
  <2> QED
    BY <2>2, <2>3
<1>7. LockedIsAtomic'
  <2> SUFFICES ASSUME ~ raced', NEW d \in CPU, held'[d], pc'[d] \in {"wait write", "write"}
               PROVE  FALSE
    BY Zenon DEF LockedIsAtomic
  <2>1. d = p
    BY <1>1, <1>6, Zenon
  <2> QED
    BY <1>3, <2>1, Zenon
<1>8. ActsAsHolder(p)'
  <2>1. ~ raced /\ pc'[p] = "clear" => nest[p] = 1
    <3> SUFFICES ASSUME ~ raced, pc'[p] = "clear" PROVE nest[p] = 1
      OBVIOUS
    <3>1. nest[p] > 0
      BY <1>1, Zenon
    <3>2. nest[p] <= 1 /\ nest[p] \in 0 .. 2
      BY Mine DEF ActsAsHolder
    <3> QED
      BY <3>1, <3>2
  <2> QED
    BY <1>1, <1>2, <1>3, <2>1, Mine, Zenon DEF ActsAsHolder
<1>9. ASSUME NEW d \in CPU PROVE ActsAsHolder(d)'
  <2>1. CASE d = p
    BY <1>8, <2>1
  <2>2. CASE d # p
    <3>1. ~ raced' => (held[d] => locked')
      BY <1>6, <2>2, Zenon
    <3> QED
      BY <1>2, <2>2, <3>1, OthersKeep DEF LockStep
  <2> QED
    BY <2>1, <2>2
<1> QED
  BY <1>4, <1>5, <1>7, <1>9 DEF LockInv

LEMMA ClearKeeps ==
  ASSUME LockInv, NEW p \in CPU, Clear(p)
  PROVE  LockInv'
<1>1. /\ ~ locked' /\ cell' = cell /\ held' = [held EXCEPT ![p] = FALSE]
      /\ raced' = raced /\ busmaster' = busmaster /\ nest' = nest /\ tmp' = tmp
      /\ pc[p] = "clear" /\ pc'[p] = "disown"
  BY Mine DEF Clear, Goto
<1>2. ~ held'[p] /\ \A d \in CPU : d # p => held'[d] = held[d]
  BY <1>1, Mine
<1>3. ASSUME ~ raced PROVE nest[p] = 1 /\ \A d \in CPU : held[d] => d = p
  <2>1. nest[p] = 1
    BY <1>1, <1>3, Mine, Zenon DEF ActsAsHolder
  <2>2. held[p]
    <3>1. pc[p] # "disown"
      BY <1>1
    <3> QED
      BY <1>3, <2>1, <3>1, Mine, Zenon DEF ActsAsHolder
  <2> QED
    BY <1>3, <2>1, <2>2, Zenon DEF LockInv, ExclusiveUnlessRaced
<1>4. LockTypeOK' /\ \A d \in CPU : Nesting(d)'
  BY LockTypes DEF LockInv, LockStep
<1>5. LockedHasHolder'
  BY <1>1, Zenon DEF LockedHasHolder
<1>6. ASSUME ~ raced' PROVE \A d \in CPU : ~ held'[d]
  BY <1>1, <1>2, <1>3, <1>6, Zenon
<1>7. ExclusiveUnlessRaced' /\ LockedIsAtomic'
  BY <1>6, Zenon DEF ExclusiveUnlessRaced, LockedIsAtomic
<1>8. ActsAsHolder(p)'
  BY <1>1, <1>2, <1>3, Mine, Zenon DEF ActsAsHolder
<1>9. ASSUME NEW d \in CPU PROVE ActsAsHolder(d)'
  <2>1. CASE d = p
    BY <1>8, <2>1
  <2>2. CASE d # p
    <3>1. (raced => raced') /\ (~ raced' => (held[d] => locked'))
      BY <1>1, <1>3, <2>2, Zenon
    <3> QED
      BY <2>2, <3>1, OthersKeep DEF LockStep
  <2> QED
    BY <2>1, <2>2
<1> QED
  BY <1>4, <1>5, <1>7, <1>9 DEF LockInv

-----------------------------------------------------------------------------

LEMMA LockBegins == LockInit => LockInv
<1> SUFFICES ASSUME LockInit PROVE LockInv
  OBVIOUS
<1>1. LockTypeOK
  <2>1. 0 \in Value
    BY LockAssumption DEF LockAssumption, Value
  <2>2. "fetch" \in Labels
    BY LabelsAre
  <2>3. locked \in BOOLEAN /\ raced \in BOOLEAN
    BY Zenon DEF LockInit
  <2> QED
    BY <2>1, <2>2, <2>3 DEF LockInit, LockTypeOK
<1>2. ASSUME NEW p \in CPU PROVE Nesting(p) /\ ActsAsHolder(p)
  <2>1. /\ pc[p] = "fetch" /\ nest[p] = 0 /\ ~ held[p] /\ ~ busmaster[p]
        /\ nest[p] <= 1 /\ ~ (nest[p] = 1)
    BY DEF LockInit
  <2> QED
    BY <2>1, Zenon DEF Nesting, ActsAsHolder
<1>3. LockedHasHolder /\ ExclusiveUnlessRaced /\ LockedIsAtomic
  BY DEF LockInit, LockedHasHolder, ExclusiveUnlessRaced, LockedIsAtomic
<1> QED
  BY <1>1, <1>2, <1>3 DEF LockInv

LEMMA LockInductive == LockSpec => []LockInv
<1>1. LockInv /\ [LockNext]_lockVars => LockInv'
  <2> SUFFICES ASSUME LockInv, [LockNext]_lockVars PROVE LockInv'
    OBVIOUS
  <2>1. ASSUME NEW p \in CPU, LockStep(p) PROVE LockInv'
    BY <2>1, FetchKeeps, TestKeeps, SetKeeps, OwnKeeps, WaitKeeps, ReadKeeps, WriteKeeps,
       FaultKeeps, ClearKeeps, DisownKeeps DEF LockStep
  <2>2. CASE UNCHANGED lockVars
    BY <2>2, Zenon DEF lockVars, machine, history, LockInv, LockTypeOK, Nesting, LockedHasHolder,
       ExclusiveUnlessRaced, LockedIsAtomic, ActsAsHolder
  <2> QED
    BY <2>1, <2>2 DEF LockNext
<1> QED
  BY <1>1, LockBegins, PTL DEF LockSpec

\* The lock's variables keep their types, for any set of CPUs (TypeOK): Lock is nested
\* at most twice.
THEOREM LockTypeCorrect == LockSpec => []LockTypeOK
<1>1. LockInv => LockTypeOK
  BY DEF LockInv
<1> QED
  BY <1>1, LockInductive, PTL

\* A locked memory has a CPU that locked it and has not unlocked it (LockedHasHolder).
THEOREM NoOrphanLock == LockSpec => []LockedHasHolder
<1>1. LockInv => LockedHasHolder
  BY DEF LockInv
<1> QED
  BY <1>1, LockInductive, PTL

\* MemorySystem::Lock excludes as long as no CPU stores to locked after somebody else
\* has, behind its own test (ExclusiveUnlessRaced).
THEOREM ExcludesUnlessRaced == LockSpec => []ExclusiveUnlessRaced
<1>1. LockInv => ExclusiveUnlessRaced
  BY DEF LockInv
<1> QED
  BY <1>1, LockInductive, PTL

\* What a holder read is in memory when it writes, as long as no CPU goes on after a
\* test of locked that no longer holds (LockedIsAtomic).
THEOREM AtomicUnlessRaced == LockSpec => []LockedIsAtomic
<1>1. LockInv => LockedIsAtomic
  BY DEF LockInv
<1> QED
  BY <1>1, LockInductive, PTL

=============================================================================
