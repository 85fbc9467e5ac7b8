------------------------------ MODULE MemoryBus ------------------------------
(***************************************************************************)
(* The physical address space of the VM: class MemorySystem                *)
(* (vm/device_manager.cpp) and the memory devices behind it (RAMemory and  *)
(* ROMemory, include/x86lib.h).                                            *)
(*                                                                         *)
(* The host maps devices into the 32-bit space with Add and takes them out *)
(* with the two Remove functions and RangeFree.  The CPU reads and writes  *)
(* byte ranges; the FIRST entry of the vector that contains the address    *)
(* serves the access, and an access that does not fit in that entry is     *)
(* continued by a recursive call at the address after its end.  Every call *)
(* on a device, and every iteration of an erasing loop, is one step.       *)
(*                                                                         *)
(* A definition marked "Slip" is a mistake one could make here; the        *)
(* specification does not use it.                                          *)
(***************************************************************************)
EXTENDS Integers, Sequences, FiniteSets

CONSTANTS
  AddrMod,   \* number of addresses: uint32_t arithmetic wraps here (2^32)
  Dev,       \* memory devices
  Size,      \* [Dev -> Nat]: bytes of each device
  ROM,       \* the devices that are ROMemory; the others are RAMemory
  Image,     \* [Dev -> bytes]: what the host loads into them beforehand
  Plug,      \* the [low, high, dev] triples the host passes to Add
  MaxCount,  \* largest access of the CPU, in bytes (bound)
  Byte,      \* the values of a byte (bound)
  Zero,      \* the byte 0: what a new buffer holds
  MaxRanges, \* most entries the host maps at once (bound)
  Straddling \* whether the CPU issues accesses that leave their first window

Addr == 0 .. AddrMod - 1

Content(d) == [0 .. Size[d] - 1 -> Byte]

AnyContent == UNION {Content(d) : d \in Dev}

\* A window never spans so much of the space that the offset of an access in it
\* wraps: then the bounds check of the devices would itself overflow.
ASSUME BusAssumption ==
  /\ AddrMod \in Nat \ {0}
  /\ MaxCount \in Nat \ {0}
  /\ MaxRanges \in Nat
  /\ Straddling \in BOOLEAN
  /\ Size \in [Dev -> Nat]
  /\ ROM \subseteq Dev
  /\ Zero \in Byte
  /\ Image \in [Dev -> AnyContent]
  /\ \A d \in Dev : Image[d] \in Content(d)
  /\ Plug \subseteq [low : Addr, high : Addr, dev : Dev]
  /\ \A p \in Plug : p.low <= p.high /\ p.high - p.low + MaxCount < AddrMod

VARIABLES
  ranges,  \* memorySystemVector
  mem,     \* the bytes of every device
  op,      \* the MemorySystem function that is running, "idle" if none
  key,     \* the arguments of a running Remove or RangeFree
  it,      \* the vector index its loop has reached
  c,       \* the entries it has erased
  start,   \* address of the running access
  count,   \* its number of bytes
  addr,    \* address, remaining bytes and buffer position of the
  left,    \*   (recursive) call it has reached
  pos,
  buf,     \* the caller's buffer; indices >= count lie behind its end
  result,  \* how the last access ended
  refused  \* the last change of the map ended in a runtime_error

mapVars == <<ranges, key, it, c, refused>>
accessVars == <<start, count, addr, left, pos, buf, result>>
vars == <<ranges, mem, op, key, it, c, start, count, addr, left, pos, buf, result,
          refused>>

\* An access crosses the end of at most MaxRanges ranges, one index each.
BufIndex == 0 .. MaxCount + MaxRanges

NoRange == [low |-> 0, high |-> 0]

Init ==
  /\ ranges = << >>
  /\ mem = Image
  /\ op = "idle"
  /\ key = NoRange /\ it = 1 /\ c = 0
  /\ start = 0 /\ count = 0 /\ addr = 0 /\ left = 0 /\ pos = 0
  /\ buf = [i \in BufIndex |-> Zero]
  /\ result = "ok"
  /\ refused = FALSE

-----------------------------------------------------------------------------
(* Which entry serves an address: the first match of the search loop.      *)

Contains(r, a) == r.low <= a /\ a <= r.high

Serves(i, a) ==
  /\ i \in 1 .. Len(ranges)
  /\ Contains(ranges[i], a)
  /\ \A j \in 1 .. i - 1 : ~ Contains(ranges[j], a)

Mapped(a) == \E i \in 1 .. Len(ranges) : Contains(ranges[i], a)

-----------------------------------------------------------------------------
(* The host changes the map.                                               *)

\* Slip: the two windows of the check swapped.
ContainedSwapped(p) ==
  \E i \in 1 .. Len(ranges) : ranges[i].high >= p.high /\ ranges[i].low <= p.low

\* Add refuses a new window only if it contains an existing one entirely.
Contained(p) ==
  \E i \in 1 .. Len(ranges) : ranges[i].high <= p.high /\ ranges[i].low >= p.low

Add(p) ==
  /\ op = "idle"
  /\ Len(ranges) < MaxRanges
  /\ refused' = Contained(p)
  /\ ranges' = IF Contained(p) THEN ranges ELSE Append(ranges, p)
  /\ UNCHANGED <<mem, op, key, it, c, accessVars>>

\* The three erasing loops: the entries each of them takes out.
Matches(r) ==
  CASE op = "removeLow" -> r.low = key.low
    [] op = "removeDev" -> r.dev = key.dev
    [] op = "rangeFree" -> \/ r.high <= key.high /\ r.high >= key.low
                           \/ r.low <= key.high /\ r.low >= key.low
    [] OTHER -> FALSE

BeginErase(kind, k) ==
  /\ op = "idle"
  /\ op' = kind /\ key' = k
  /\ it' = 1 /\ c' = 0
  /\ UNCHANGED <<ranges, mem, accessVars, refused>>

RemoveLow(p)  == BeginErase("removeLow", [low |-> p.low, high |-> p.high])
RemoveDev(d)  == BeginErase("removeDev", [dev |-> d])
RangeFree(p)  == BeginErase("rangeFree", [low |-> p.low, high |-> p.high])

Erasing == op \in {"removeLow", "removeDev", "rangeFree"}

\* vector::erase closes the gap: the entries behind entry k move up by one.
Erased(s, k) == [i \in 1 .. Len(s) - 1 |-> IF i < k THEN s[i] ELSE s[i + 1]]

\* Slip: the iterator is advanced after erase as well.
EraseEntrySkipping ==
  /\ Erasing /\ it <= Len(ranges) /\ Matches(ranges[it])
  /\ ranges' = Erased(ranges, it)
  /\ c' = c + 1 /\ it' = it + 1
  /\ UNCHANGED <<mem, op, key, accessVars, refused>>

\* it = erase(it): the iterator now stands on the entry that followed.
EraseEntry ==
  /\ Erasing /\ it <= Len(ranges) /\ Matches(ranges[it])
  /\ ranges' = Erased(ranges, it)
  /\ c' = c + 1
  /\ UNCHANGED <<mem, op, key, it, accessVars, refused>>

KeepEntry ==
  /\ Erasing /\ it <= Len(ranges) /\ ~ Matches(ranges[it])
  /\ it' = it + 1
  /\ UNCHANGED <<ranges, mem, op, key, c, accessVars, refused>>

EndErase ==
  /\ Erasing /\ it > Len(ranges)
  /\ refused' = (c = 0)
  /\ op' = "idle" /\ key' = NoRange /\ it' = 1 /\ c' = 0
  /\ UNCHANGED <<ranges, mem, accessVars>>

-----------------------------------------------------------------------------
(* The CPU reads or writes n bytes at address a.                           *)

BeginRead(a, n) ==
  /\ op = "idle"
  /\ op' = "read"
  /\ start' = a /\ addr' = a
  /\ count' = n /\ left' = n
  /\ pos' = 0
  /\ buf' = [i \in BufIndex |-> Zero]
  /\ UNCHANGED <<mapVars, mem, result>>

BeginWrite(a, n, data) ==
  /\ op = "idle"
  /\ op' = "write"
  /\ start' = a /\ addr' = a
  /\ count' = n /\ left' = n
  /\ pos' = 0
  /\ buf' = [i \in BufIndex |-> IF i < n THEN data[i] ELSE Zero]
  /\ UNCHANGED <<mapVars, mem, result>>

InAccess == op \in {"read", "write"}

Done(outcome) ==
  /\ op' = "idle" /\ result' = outcome
  /\ start' = 0 /\ addr' = 0 /\ left' = 0 /\ pos' = 0
  /\ UNCHANGED <<mapVars, count>>

\* Requests for no bytes return at once.
ReturnEmpty ==
  /\ InAccess /\ left = 0
  /\ Done("ok")
  /\ UNCHANGED <<mem, buf>>

\* No entry contains the address: MemoryException, thrown by value.
NoMatch ==
  /\ InAccess /\ left > 0 /\ ~ Mapped(addr)
  /\ Done("MemoryException")
  /\ UNCHANGED <<mem, buf>>

\* The entry that serves the call does not reach to its last byte.
Straddles(r) == (addr + left - 1) % AddrMod > r.high

\* RAMemory::Read and Write: bounds check, then memcpy.
Fits(d, off, n) == (off + n) % AddrMod <= Size[d]

\* memcpy from the caller's buffer, at index pos, into device d.
Stored(d, off, n) ==
  [o \in 0 .. Size[d] - 1 |->
     IF off <= o /\ o < off + n THEN buf[pos + o - off] ELSE mem[d][o]]

\* memcpy from device d into the caller's buffer.
Loaded(d, off, n) ==
  [i \in BufIndex |->
     IF pos <= i /\ i < pos + n THEN mem[d][off + i - pos] ELSE buf[i]]

\* The device refuses: "throw new MemoryException", a pointer.
DeviceThrows ==
  /\ Done("MemoryException*")
  /\ UNCHANGED <<mem, buf>>

\* Slip: the size is not reduced by the part that was read.
ReadHeadWhole(r) ==
  LET tail == r.high - addr
  IN  IF Fits(r.dev, addr, tail + 1)
      THEN /\ buf' = Loaded(r.dev, addr, tail + 1)
           /\ pos' = pos + tail + 1
           /\ addr' = r.high + 1
           /\ UNCHANGED <<mapVars, mem, op, start, count, left, result>>
      ELSE DeviceThrows

\* Slip: the end of the window taken as exclusive: a one-byte window is read again.
ReadHeadStaying(r) ==
  LET tail == r.high - addr
  IN  IF Fits(r.dev, addr, tail)
      THEN /\ buf' = Loaded(r.dev, addr, tail)
           /\ left' = left - tail
           /\ pos' = pos + tail
           /\ addr' = r.high
           /\ UNCHANGED <<mapVars, mem, op, start, count, result>>
      ELSE DeviceThrows

\* The part of a read inside entry r that goes on behind its end: the device is
\* given the bus address, and the rest of the read is one byte longer.
ReadHead(r) ==
  LET tail == r.high - addr
  IN  IF Fits(r.dev, addr, tail + 1)
      THEN /\ buf' = Loaded(r.dev, addr, tail + 1)
           /\ left' = left - tail
           /\ pos' = pos + tail + 1
           /\ addr' = r.high + 1
           /\ UNCHANGED <<mapVars, mem, op, start, count, result>>
      ELSE DeviceThrows

\* Slip: the absolute address is not made relative.
ReadLastAbsolute(r) ==
  IF Fits(r.dev, addr, left)
  THEN /\ buf' = Loaded(r.dev, addr, left)
       /\ Done("ok")
       /\ UNCHANGED mem
  ELSE DeviceThrows

ReadLast(r) ==
  IF Fits(r.dev, addr - r.low, left)
  THEN /\ buf' = Loaded(r.dev, addr - r.low, left)
       /\ Done("ok")
       /\ UNCHANGED mem
  ELSE DeviceThrows

ReadStep ==
  /\ op = "read" /\ left > 0
  /\ \E i \in 1 .. Len(ranges) :
       /\ Serves(i, addr)
       /\ IF Straddles(ranges[i]) THEN ReadHead(ranges[i]) ELSE ReadLast(ranges[i])

\* Slip: the buffer advances over the whole part, the size does not.
WriteHeadUneven(r) ==
  LET tail == r.high - addr
  IN  IF r.dev \notin ROM /\ Fits(r.dev, tail, tail + 1)
      THEN /\ mem' = [mem EXCEPT ![r.dev] = Stored(r.dev, tail, tail + 1)]
           /\ left' = left - tail
           /\ pos' = pos + tail + 1
           /\ addr' = r.high + 1
           /\ UNCHANGED <<mapVars, op, start, count, buf, result>>
      ELSE DeviceThrows

\* The part of a write inside entry r that goes on behind its end: the device is
\* given the distance to that end, and the buffer advances one byte too few.
WriteHead(r) ==
  LET tail == r.high - addr
  IN  IF r.dev \notin ROM /\ Fits(r.dev, tail, tail + 1)
      THEN /\ mem' = [mem EXCEPT ![r.dev] = Stored(r.dev, tail, tail + 1)]
           /\ left' = left - tail
           /\ pos' = pos + tail
           /\ addr' = r.high + 1
           /\ UNCHANGED <<mapVars, op, start, count, buf, result>>
      ELSE DeviceThrows

WriteLast(r) ==
  IF r.dev \notin ROM /\ Fits(r.dev, addr - r.low, left)
  THEN /\ mem' = [mem EXCEPT ![r.dev] = Stored(r.dev, addr - r.low, left)]
       /\ Done("ok")
       /\ UNCHANGED buf
  ELSE DeviceThrows

WriteStep ==
  /\ op = "write" /\ left > 0
  /\ \E i \in 1 .. Len(ranges) :
       /\ Serves(i, addr)
       /\ IF Straddles(ranges[i]) THEN WriteHead(ranges[i]) ELSE WriteLast(ranges[i])

-----------------------------------------------------------------------------

Step == EraseEntry \/ KeepEntry \/ EndErase \/ ReturnEmpty \/ NoMatch
          \/ ReadStep \/ WriteStep

Host ==
  \/ \E p \in Plug : Add(p) \/ RemoveLow(p) \/ RangeFree(p)
  \/ \E d \in Dev : RemoveDev(d)

\* The access does not fit in the window that serves its first byte.
CrossesEnd(a, n) ==
  \E i \in 1 .. Len(ranges) :
    Serves(i, a) /\ n > 0 /\ (a + n - 1) % AddrMod > ranges[i].high

Access ==
  \E a \in Addr, n \in 0 .. MaxCount :
    /\ Straddling \/ ~ CrossesEnd(a, n)
    /\ \/ BeginRead(a, n)
       \/ \E data \in [0 .. n - 1 -> Byte] : BeginWrite(a, n, data)

Next == Host \/ Access \/ Step

\* A call on the memory system is a plain function call: it runs on.
Fairness == WF_vars(Step)

Spec == Init /\ [][Next]_vars /\ Fairness

-----------------------------------------------------------------------------
(* What makes the address space correct.                                   *)

\* Every variable holds a value of its C++ type, and an access stays inside the
\* 32-bit space and the buffer behind it.
TypeOK ==
  /\ ranges \in Seq(Plug)
  /\ mem \in [Dev -> AnyContent]
  /\ \A d \in Dev : mem[d] \in Content(d)
  /\ op \in {"idle", "read", "write", "removeLow", "removeDev", "rangeFree"}
  /\ it \in Nat \ {0}
  /\ c \in Nat
  /\ start \in Addr /\ addr \in Addr
  /\ count \in 0 .. MaxCount /\ left \in 0 .. MaxCount
  /\ pos \in Nat
  /\ buf \in [BufIndex -> Byte]
  /\ result \in {"ok", "MemoryException", "MemoryException*"}
  /\ refused \in BOOLEAN

\* No window the host maps later contains an earlier one entirely, whatever was
\* added and removed in between: what the overlap check of Add does guarantee.
NoneSwallowed ==
  \A i, j \in 1 .. Len(ranges) :
    i < j => ~ (ranges[j].low <= ranges[i].low /\ ranges[i].high <= ranges[j].high)

\* The bytes a running access has still to move, against those it was asked for.
\* A read is at the buffer index of its address and never comes out short, but
\* may run over; a write never takes a byte from behind the caller's buffer.
AccessLedger ==
  /\ op = "read" => pos = addr - start /\ pos + left >= count
  /\ op = "write" => pos + left = count /\ pos <= addr - start

\* The entries whose end lies from s on and before a.
Behind(rs, s, a) == {i \in 1 .. Len(rs) : s <= rs[i].high /\ rs[i].high < a}

\* A read runs behind the end of the caller's buffer by at most one byte for
\* each range whose end lies between where it began and where it has got to.
OverrunBounded ==
  op = "read" => pos + left <= count + Cardinality(Behind(ranges, start, addr))

\* While an erasing loop runs, no entry it has passed is one it should erase:
\* Remove(dev) leaves nothing behind through which dev can still be reached.
NothingPassedOver ==
  Erasing => \A i \in 1 .. Len(ranges) : i < it => ~ Matches(ranges[i])

\* Mapping a device never changes which device serves an address that was
\* already mapped, and never unmaps one.
AddKeepsRoutes ==
  [][op = "idle" /\ op' = "idle" =>
       \A a \in Addr, i \in 1 .. Len(ranges) : Serves(i, a) => Serves(i, a)' /\ ranges'[i] = ranges[i]]_vars

\* A step of a write changes bytes of the one device that serves the address it
\* has reached, which is not a ROM; no other step changes a byte anywhere.
OnlyServingRamChanges ==
  [][\A d \in Dev : mem'[d] # mem[d] =>
       /\ op = "write" /\ d \notin ROM
       /\ \E i \in 1 .. Len(ranges) : Serves(i, addr) /\ ranges[i].dev = d]_vars

\* A write changes only bytes at addresses of the running request: the offset
\* handed to the device is the bus address without the window's start.
WritesLandInRequest ==
  [][\A d \in Dev : \A o \in DOMAIN mem[d] : mem'[d][o] # mem[d][o] =>
       \E i \in 1 .. Len(ranges) :
         /\ ranges[i].dev = d
         /\ ranges[i].low + o \in addr .. addr + left - 1]_vars

\* Every call returns: the recursion of a straddling access ends, also where a
\* one-byte window leaves its remaining size as it was and where the access runs
\* over the top of the space, and the erasing loops reach the end of the vector.
CallsReturn == (op # "idle") ~> (op = "idle")

-----------------------------------------------------------------------------
(* As long as windows are disjoint, each device sits in one window, and no  *)
(* access leaves its first window, the bus is one flat memory.              *)

CONSTANT None

Answering(a) ==
  IF \E i \in 1 .. Len(ranges) : Serves(i, a)
  THEN LET r == ranges[CHOOSE i \in 1 .. Len(ranges) : Serves(i, a)]
       IN  IF a - r.low < Size[r.dev] THEN {<<r.dev, a - r.low>>} ELSE {}
  ELSE {}

Cells == [a \in Addr |-> IF Answering(a) = {} THEN None
                         ELSE LET x == CHOOSE x \in Answering(a) : TRUE IN mem[x[1]][x[2]]]

Frozen == {a \in Addr : \E x \in Answering(a) : x[1] \in ROM}

Req ==
  CASE op = "read"  -> [kind |-> "read", a |-> start, n |-> count]
    [] op = "write" -> [kind |-> "write", a |-> start, n |-> count,
                        data |-> [i \in 0 .. count - 1 |-> buf[i]]]
    [] OTHER        -> [kind |-> "none"]

Reply ==
  IF InAccess \/ result # "ok" THEN [ok |-> FALSE, data |-> << >>]
  ELSE [ok |-> TRUE, data |-> [i \in 0 .. count - 1 |-> buf[i]]]

Flat == INSTANCE FlatMemory
          WITH cells <- Cells, frozen <- Frozen, req <- Req, reply <- Reply

\* Every access takes effect at one instant on one flat memory: it moves all its
\* bytes or, when it throws, none, and unplugging other devices costs no byte.
FlatSpec == Flat!Spec

=============================================================================
