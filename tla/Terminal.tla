------------------------------ MODULE Terminal ------------------------------
(***************************************************************************)
(* The text terminal of LumOS, lumos/arch/i386/tty.c, with one call of     *)
(* terminal_putchar at a time.  (Module TerminalRace has the calls that    *)
(* an interrupt handler makes while the kernel is inside one.)             *)
(*                                                                         *)
(* The screen is the first VGA_HEIGHT * VGA_WIDTH cells of the one page    *)
(* that boot.S maps for video memory.  A newline on the last row leaves    *)
(* tty_row at VGA_HEIGHT, a row that is not on the screen; the scroll is   *)
(* put off to the next character.  An access past the page faults, and     *)
(* what happens then (isr_handler prints, and faults again) is not         *)
(* modelled.  The colour never changes and is left out of a cell.          *)
(***************************************************************************)
EXTENDS Integers, Sequences

CONSTANTS
  VGA_HEIGHT, VGA_WIDTH,
  TAB,             \* what a tab adds to tty_column
  PAGE_CELLS,      \* cells in the mapped page
  Glyphs,          \* the printable characters
  NEWLINE, TABULATOR, BACKSPACE,
  Blank,           \* a space in tty_color
  Junk,            \* what the boot loader left in video memory
  MaxChars         \* bound: how many characters are printed

Chars == Glyphs \cup {NEWLINE, TABULATOR, BACKSPACE}

ScreenCells == VGA_HEIGHT * VGA_WIDTH
Cells == 0 .. (PAGE_CELLS - 1)

ASSUME ScreenAssumption ==
  /\ VGA_HEIGHT \in Nat \ {0, 1}
  /\ VGA_WIDTH \in Nat \ {0, 1}
  /\ TAB \in Nat \ {0}
  /\ PAGE_CELLS \in Nat
  /\ ScreenCells <= PAGE_CELLS

ASSUME CharsAssumption ==
  /\ NEWLINE # TABULATOR /\ TABULATOR # BACKSPACE /\ BACKSPACE # NEWLINE
  /\ Glyphs \cap {NEWLINE, TABULATOR, BACKSPACE} = {}

ASSUME BoundAssumption == MaxChars \in Nat

VARIABLES
  tty,         \* tty_row, tty_column, tty_buffer; fault: the machine has
               \* faulted; scrolled: history, the rows that left at the top
  ready,       \* terminal_init has returned
  printed      \* how many characters have been printed

vars == <<tty, ready, printed>>

-----------------------------------------------------------------------------
(***************************************************************************)
(* The functions, on the state t of the terminal                           *)
(***************************************************************************)

Row(t, y) == [x \in 0 .. (VGA_WIDTH - 1) |-> t.buffer[y * VGA_WIDTH + x]]

Index(t) == t.row * VGA_WIDTH + t.column

\* tty_buffer[index] = entry
Store(t, index, entry) ==
  IF index \in Cells
  THEN [t EXCEPT !.buffer[index] = entry]
  ELSE [t EXCEPT !.fault = TRUE]

init(t) ==
  [t EXCEPT !.row = 0,
            !.column = 0,
            !.buffer = [i \in Cells |-> IF i < ScreenCells THEN Blank ELSE @[i]]]

\* Mutant: the row that comes in at the bottom is not blanked.
scroll_NoBlank(t) ==
  [t EXCEPT !.row = @ - 1,
            !.buffer = [i \in Cells |-> IF i + VGA_WIDTH < ScreenCells
                                        THEN @[i + VGA_WIDTH] ELSE @[i]],
            !.scrolled = Append(@, Row(t, 0))]

\* Mutant: the row is blanked before tty_row--.
scroll_BlankNext(t) ==
  [t EXCEPT !.row = @ - 1,
            !.buffer = [i \in Cells |->
                          IF i \div VGA_WIDTH = t.row THEN Blank
                          ELSE IF i + VGA_WIDTH < ScreenCells
                          THEN @[i + VGA_WIDTH] ELSE @[i]],
            !.scrolled = Append(@, Row(t, 0))]

scroll(t) ==
  [t EXCEPT !.row = @ - 1,
            !.buffer = [i \in Cells |->
                          IF i \div VGA_WIDTH = t.row - 1 THEN Blank
                          ELSE IF i + VGA_WIDTH < ScreenCells
                          THEN @[i + VGA_WIDTH] ELSE @[i]],
            !.scrolled = Append(@, Row(t, 0))]

newline(t) == [t EXCEPT !.column = 0, !.row = @ + 1]

tabulator(t) == [t EXCEPT !.column = @ + TAB]

\* Mutant: the cursor may step back to column -1, the row above.
backspace_NoStop(t) ==
  LET back == [t EXCEPT !.column = @ - 1]
  IN Store(back, Index(back), Blank)

backspace(t) ==
  LET back == [t EXCEPT !.column = IF @ = 0 THEN 0 ELSE @ - 1]
  IN Store(back, Index(back), Blank)

glyph(t, c) ==
  LET put  == Store(t, Index(t), c)
      next == [put EXCEPT !.column = 0, !.row = @ + 1]
  IN IF put.fault THEN put
     ELSE IF put.column + 1 < VGA_WIDTH THEN [put EXCEPT !.column = @ + 1]
     ELSE IF next.row < VGA_HEIGHT THEN next
     ELSE scroll(next)

terminal_putchar(t, c) ==
  LET on == IF t.row = VGA_HEIGHT THEN scroll(t) ELSE t
  IN CASE c = NEWLINE    -> newline(on)
       [] c = TABULATOR  -> tabulator(on)
       [] c = BACKSPACE  -> backspace(on)
       [] OTHER          -> glyph(on, c)

-----------------------------------------------------------------------------

Init ==
  /\ tty = [row |-> 0, column |-> 0, buffer |-> [i \in Cells |-> Junk],
            fault |-> FALSE, scrolled |-> <<>>]
  /\ ready = FALSE
  /\ printed = 0

terminal_init ==
  /\ ~ready
  /\ tty' = init(tty)
  /\ ready' = TRUE
  /\ UNCHANGED printed

\* terminal_write and terminal_writestring are calls of this, one by one.
Putchar(c) ==
  /\ ready
  /\ ~tty.fault
  /\ printed < MaxChars
  /\ tty' = terminal_putchar(tty, c)
  /\ printed' = printed + 1
  /\ UNCHANGED ready

(***************************************************************************)
(* Nothing in the code keeps a tab on its line.  The rest of what the      *)
(* terminal promises is shown for texts whose tabs end on the line they    *)
(* begin on.                                                               *)
(***************************************************************************)
TabFits == tty.column + TAB < VGA_WIDTH

NextOnLine ==
  \/ terminal_init
  \/ \E c \in Chars \ {TABULATOR} : Putchar(c)
  \/ TabFits /\ Putchar(TABULATOR)

SpecOnLine == Init /\ [][NextOnLine]_vars

-----------------------------------------------------------------------------
(***************************************************************************)
(* Properties                                                              *)
(***************************************************************************)

TypeOK ==
  /\ tty.row \in 0 .. VGA_HEIGHT
  /\ tty.column \in 0 .. (VGA_WIDTH - 1)
  /\ tty.buffer \in [Cells -> Glyphs \cup {Blank, Junk}]
  /\ tty.fault = FALSE
  /\ ready \in BOOLEAN
  /\ printed \in 0 .. MaxChars

(***************************************************************************)
(* Below the cursor's row the screen is blank, and behind the screen the   *)
(* video page is as the boot loader left it: the row a line comes to is    *)
(* always clean when it gets there, whatever scrolled before.              *)
(***************************************************************************)
CleanBelow ==
  ready => \A i \in Cells :
    /\ i \div VGA_WIDTH > tty.row /\ i < ScreenCells => tty.buffer[i] = Blank
    /\ i >= ScreenCells => tty.buffer[i] = Junk

BlankRow == [x \in 0 .. (VGA_WIDTH - 1) |-> Blank]

\* The rows up to the cursor's; the row below the screen is still to come.
RowsToCursor ==
  [y \in 1 .. (tty.row + 1) |->
     IF y <= VGA_HEIGHT THEN Row(tty, y - 1) ELSE BlankRow]

Abstract == INSTANCE Console WITH
  WIDTH  <- VGA_WIDTH,
  lines  <- IF ready THEN tty.scrolled \o RowsToCursor ELSE <<BlankRow>>,
  column <- tty.column

(***************************************************************************)
(* The rows that have left the screen followed by the rows up to the       *)
(* cursor are the page of module Console: no scroll, at once or put off,   *)
(* loses, doubles or moves a line.                                         *)
(***************************************************************************)
Implements == Abstract!Spec

=============================================================================
