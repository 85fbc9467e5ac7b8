----------------------------- MODULE MCMemoryBus -----------------------------
(* Small address spaces for MemoryBus. *)
EXTENDS MemoryBus, TLC

CONSTANTS ram, rom

MCDev == {ram, rom}
MCSize == ram :> 2 @@ rom :> 2
MCImage == ram :> [o \in 0 .. 1 |-> 0] @@ rom :> (0 :> 1 @@ 1 :> 0)

Window(l, h, d) == [low |-> l, high |-> h, dev |-> d]

\* A RAM as large as the space, which takes the bus address a straddling read hands
\* it for an offset, and a ROM of two bytes, which refuses most of them.
WideSize == ram :> 6 @@ rom :> 2
WideImage == ram :> [o \in 0 .. 5 |-> 0] @@ rom :> [o \in 0 .. 1 |-> 0]

\* Windows that touch, overlap, nest, alias a device, outgrow their device, start
\* at 0 and end at the top of the space; a row of windows of one byte, over which
\* a read of two bytes gets no shorter.
OverlappingPlug ==
  {Window(0, 2, ram), Window(3, 3, ram), Window(4, 4, ram), Window(2, 4, rom),
   Window(5, 5, ram)}

\* Pairwise disjoint windows with gaps and neighbours, one for each device; the
\* last one ends at the top of the space.
DisjointPlug == {Window(0, 2, ram), Window(4, 5, rom)}

=============================================================================
