------------------------------ MODULE MCKernel ------------------------------
(***************************************************************************)
(* Six bytes are enough for some left from boot, some that come while the  *)
(* leftovers are read, and some that are handled.  Counters of eight       *)
(* values wrap in every way; with half a tick to a millisecond a sleep is  *)
(* of no whole tick or of one, or its product overflows.  Tables of four   *)
(* entries.                                                                *)
(***************************************************************************)
EXTENDS Kernel

MCTSS == <<17, 34, 51, 68>>

=============================================================================
