--------------------------- MODULE FrameAllocator ---------------------------
(***************************************************************************)
(* What the physical memory manager of LumOS promises its callers          *)
(* (lumos/include/lumos/pmm.h): a set of usable frames is opened once, and *)
(* from then on pmm_alloc hands out a usable frame that nobody holds, or   *)
(* fails, and pmm_free gives one held frame back.                          *)
(*                                                                         *)
(* The promise lasts as long as the allocator's own records are sound.     *)
(* Once a call has written outside the record it meant to change the       *)
(* allocator is no longer trusted and nothing is promised of it.           *)
(***************************************************************************)

CONSTANTS
  Nulls,     \* the failed outcomes of pmm_alloc
  Idle       \* the outcome before the first call

VARIABLES
  open,      \* init_pmm has returned
  usable,    \* the frames that may be handed out
  held,      \* the frames callers hold
  ret,       \* the outcome of the last pmm_alloc
  trusted    \* no call has damaged the records yet

vars == <<open, usable, held, ret, trusted>>

Init ==
  /\ open = FALSE
  /\ usable = {}
  /\ held = {}
  /\ ret = Idle
  /\ trusted = TRUE

\* init_pmm returns; the boot loader's memory map decides which frames exist.
Open ==
  /\ ~open
  /\ open'
  /\ UNCHANGED <<held, ret, trusted>>

Alloc(f) ==
  /\ open
  /\ f \in usable \ held
  /\ held' = held \cup {f}
  /\ ret' = f
  /\ UNCHANGED <<open, usable, trusted>>

Fail ==
  /\ open
  /\ ret' \in Nulls
  /\ UNCHANGED <<open, usable, held, trusted>>

Free(f) ==
  /\ open
  /\ f \in held
  /\ held' = held \ {f}
  /\ UNCHANGED <<open, usable, ret, trusted>>

\* A call writes where it should not.
Break == trusted' = FALSE

Next ==
  \/ Open
  \/ \E f \in usable : Alloc(f)
  \/ Fail
  \/ \E f \in held : Free(f)
  \/ Break

Spec == Init /\ [][Next]_vars

=============================================================================
