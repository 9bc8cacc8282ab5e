--------------------------- MODULE MCBitmapLoops ---------------------------
(***************************************************************************)
(* Words of 4 bits, 24 offsets.  The ranges are written over empty, full   *)
(* and striped memory; the search is in every bitmap of up to 2 words,     *)
(* with empty or full memory behind it.                                    *)
(***************************************************************************)
EXTENDS BitmapLoops

Patterns == {{}, Offset, {o \in Offset : o % 3 = 0}}

Bitmaps == {m \cup b : m \in SUBSET (0 .. 7), b \in {{}, 8 .. 15}}

=============================================================================
