------------------------------ MODULE MCBusLock ------------------------------
(* Small machines for BusLock. *)
EXTENDS BusLock, TLC, FiniteSets

CONSTANTS c1, c2, c3

Two == {c1, c2}
Three == {c1, c2, c3}

\* The CPUs are alike.
Alike == Permutations(CPU)

=============================================================================
