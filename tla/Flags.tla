-------------------------------- MODULE Flags --------------------------------
(***************************************************************************)
(* The flags that arithmetic and shifts both set.                          *)
(***************************************************************************)
EXTENDS Integers

VARIABLES cf, of, zf, sf

Bit == {0, 1}

=============================================================================
