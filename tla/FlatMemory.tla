------------------------------ MODULE FlatMemory ------------------------------
(***************************************************************************)
(* What the address space promises to the CPU: a partial map from          *)
(* addresses to bytes on which a read or a write takes effect at one       *)
(* instant, completely or not at all.                                      *)
(***************************************************************************)
EXTENDS Integers

CONSTANTS
  Addr,      \* the addresses
  Byte,      \* the values of a byte
  None,      \* what an address holds at which no device answers
  MaxCount   \* largest access, in bytes

VARIABLES
  cells,  \* [Addr -> Byte \cup {None}]
  frozen, \* the addresses that cannot be written
  req,    \* the running request
  reply   \* the outcome of the last one and the caller's bytes after it

vars == <<cells, frozen, req, reply>>

NoRequest == [kind |-> "none"]

NoReply == [ok |-> FALSE, data |-> << >>]

Init ==
  /\ cells = [a \in Addr |-> None]
  /\ frozen = {}
  /\ req = NoRequest
  /\ reply = [ok |-> TRUE, data |-> [i \in {} |-> None]]

\* A device is plugged in: what is mapped keeps its value.
Extend ==
  /\ req = NoRequest
  /\ cells' \in [Addr -> Byte \cup {None}]
  /\ \A a \in Addr : cells[a] # None => cells'[a] = cells[a]
  /\ \A a \in frozen : a \in frozen'
  /\ frozen' \in SUBSET Addr
  /\ UNCHANGED <<req, reply>>

\* Devices are taken out: what stays mapped keeps its value.
Shrink ==
  /\ cells' \in [Addr -> Byte \cup {None}]
  /\ \A a \in Addr : cells'[a] \in {cells[a], None}
  /\ frozen' \subseteq frozen
  /\ UNCHANGED <<req, reply>>

Ask(r) ==
  /\ req = NoRequest
  /\ req' = r
  /\ reply' = NoReply
  /\ UNCHANGED <<cells, frozen>>

Touched == req.a .. req.a + req.n - 1

Answers(write) ==
  \A a \in Touched : a \in Addr /\ cells[a] # None /\ (write => a \notin frozen)

Read ==
  /\ req.kind = "read"
  /\ req' = NoRequest
  /\ reply' = IF Answers(FALSE)
              THEN [ok |-> TRUE, data |-> [i \in 0 .. req.n - 1 |-> cells[req.a + i]]]
              ELSE NoReply
  /\ UNCHANGED <<cells, frozen>>

Write ==
  /\ req.kind = "write"
  /\ req' = NoRequest
  /\ IF Answers(TRUE)
     THEN /\ cells' = [a \in Addr |-> IF a \in Touched THEN req.data[a - req.a] ELSE cells[a]]
          /\ reply' = [ok |-> TRUE, data |-> req.data]
     ELSE /\ reply' = NoReply
          /\ UNCHANGED cells
  /\ UNCHANGED frozen

Request ==
  \/ \E a \in Addr, n \in 0 .. MaxCount : Ask([kind |-> "read", a |-> a, n |-> n])
  \/ \E a \in Addr, n \in 0 .. MaxCount : \E data \in [0 .. n - 1 -> Byte] :
       Ask([kind |-> "write", a |-> a, n |-> n, data |-> data])

Next == Extend \/ Shrink \/ Request \/ Read \/ Write

Spec == Init /\ [][Next]_vars /\ WF_vars(Read \/ Write)

=============================================================================
