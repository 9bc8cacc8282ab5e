---------------------------- MODULE TerminalRace ----------------------------
(***************************************************************************)
(* The terminal of tty.c with two callers.  The kernel prints (kernel.c:22 *)
(* is what it prints today) with interrupts enabled, and nothing in        *)
(* terminal_putchar masks them; keyboard_handler and irq_handler print     *)
(* from inside an interrupt, to the end, before the kernel goes on.        *)
(*                                                                         *)
(* The kernel's call is split where an interrupt can come between two      *)
(* accesses to the shared variables, as gcc -O2 -ffreestanding compiles    *)
(* the function for i386: tty_row++ of a newline is one addl to memory;    *)
(* the other paths load tty_column, then tty_row, and store what they      *)
(* computed from them; terminal_scroll loads tty_row when it has copied    *)
(* the rows.  Copying one cell is one step here, and so is the             *)
(* interrupt's call.  keyboard_handler prints what kbdus has for a key,    *)
(* Enter's newline included; irq_handler's message ends with a newline.    *)
(***************************************************************************)
EXTENDS Terminal

CONSTANTS
  KernelChars,     \* what the kernel prints
  KeyChars,        \* what the interrupt handlers print
  MaxKeys          \* bound: how many characters the handlers print

ASSUME RaceAssumption ==
  /\ KernelChars \subseteq Chars /\ KernelChars # {}
  /\ KeyChars \subseteq Chars
  /\ MaxKeys \in Nat

VARIABLES
  pc,      \* where the kernel is in terminal_putchar
  after,   \* where it goes on when terminal_scroll returns
  char,    \* its argument c
  column,  \* the tty_column it has loaded
  row,     \* the tty_row it has loaded
  cell,    \* the cell terminal_scroll is at
  keys,    \* how many characters the handlers have printed
  meant,   \* history: what the call should leave, or NoClaim once an
           \* interrupt has come in between
  struck   \* history: whether a handler's newline has put the cursor below
           \* the screen while the kernel was Exposed

raceVars == <<tty, ready, printed, pc, after, char, column, row, cell, keys,
              meant, struck>>
locals == <<after, char, column, row, cell>>

NoClaim == [row |-> 0, column |-> 0, buffer |-> <<>>, fault |-> TRUE,
            scrolled |-> <<>>]

InitRace ==
  /\ Init
  /\ pc = "boot"
  /\ after = "body"
  /\ char \in KernelChars
  /\ column = 0
  /\ row = 0
  /\ cell = 0
  /\ keys = 0
  /\ meant = NoClaim
  /\ struck = FALSE

Kernel(at) == pc = at /\ ~tty.fault /\ UNCHANGED <<ready, keys, struck>>
Goto(at) == pc' = at /\ UNCHANGED meant

-----------------------------------------------------------------------------
(***************************************************************************)
(* The kernel                                                              *)
(***************************************************************************)

\* kernel_main calls terminal_init long before idt_init enables interrupts.
Boot ==
  /\ pc = "boot"
  /\ terminal_init
  /\ pc' = "idle"
  /\ UNCHANGED <<locals, keys, meant, struck>>

Call(c) ==
  /\ Kernel("idle")
  /\ printed < MaxChars
  /\ printed' = printed + 1
  /\ char' = c
  /\ meant' = terminal_putchar(tty, c)
  /\ pc' = "check"
  /\ UNCHANGED <<tty, after, column, row, cell>>

\* Mutant: a call that scrolls returns without its character.
CheckRow_Drop ==
  /\ Kernel("check")
  /\ IF tty.row = VGA_HEIGHT THEN Goto("copy") ELSE Goto("body")
  /\ after' = "return"
  /\ cell' = 0
  /\ UNCHANGED <<tty, printed, char, column, row>>

\* if (tty_row == VGA_HEIGHT)
CheckRow ==
  /\ Kernel("check")
  /\ IF tty.row = VGA_HEIGHT THEN Goto("copy") ELSE Goto("body")
  /\ after' = "body"
  /\ cell' = 0
  /\ UNCHANGED <<tty, printed, char, column, row>>

\* terminal_scroll copies a cell up.
CopyCell ==
  /\ Kernel("copy")
  /\ cell < ScreenCells - VGA_WIDTH
  /\ tty' = [tty EXCEPT
               !.buffer[cell] = tty.buffer[cell + VGA_WIDTH],
               !.scrolled = IF cell = 0 THEN Append(@, Row(tty, 0)) ELSE @]
  /\ cell' = cell + 1
  /\ Goto("copy")
  /\ UNCHANGED <<printed, after, char, column, row>>

\* tty_row--, a load and a store; the loop after it uses the same value.
LoadLowered ==
  /\ Kernel("copy")
  /\ cell = ScreenCells - VGA_WIDTH
  /\ row' = tty.row - 1
  /\ cell' = 0
  /\ Goto("lower")
  /\ UNCHANGED <<tty, printed, after, char, column>>

\* Mutant: the store is left out.
StoreLowered_Not ==
  /\ Kernel("lower")
  /\ Goto("blank")
  /\ UNCHANGED <<tty, printed, locals>>

StoreLowered ==
  /\ Kernel("lower")
  /\ tty' = [tty EXCEPT !.row = row]
  /\ Goto("blank")
  /\ UNCHANGED <<printed, locals>>

BlankCell ==
  /\ Kernel("blank")
  /\ cell < VGA_WIDTH
  /\ tty' = Store(tty, row * VGA_WIDTH + cell, Blank)
  /\ cell' = cell + 1
  /\ Goto("blank")
  /\ UNCHANGED <<printed, after, char, column, row>>

EndScroll ==
  /\ Kernel("blank")
  /\ cell = VGA_WIDTH
  /\ Goto(after)
  /\ UNCHANGED <<tty, printed, locals>>

\* The newline path: tty_column = 0, then tty_row++.
FirstColumn ==
  /\ Kernel("body")
  /\ char = NEWLINE
  /\ tty' = [tty EXCEPT !.column = 0]
  /\ Goto("newline")
  /\ UNCHANGED <<printed, locals>>

NextRow ==
  /\ Kernel("newline")
  /\ tty' = [tty EXCEPT !.row = @ + 1]
  /\ Goto("return")
  /\ UNCHANGED <<printed, locals>>

LoadColumn ==
  /\ Kernel("body")
  /\ char # NEWLINE
  /\ column' = tty.column
  /\ IF char = TABULATOR THEN Goto("tab") ELSE Goto("row")
  /\ UNCHANGED <<tty, printed, after, char, row, cell>>

StoreTab ==
  /\ Kernel("tab")
  /\ tty' = [tty EXCEPT !.column = column + TAB]
  /\ Goto("return")
  /\ UNCHANGED <<printed, locals>>

LoadRow ==
  /\ Kernel("row")
  /\ row' = tty.row
  /\ IF char = BACKSPACE THEN Goto("back") ELSE Goto("cell")
  /\ UNCHANGED <<tty, printed, after, char, column, cell>>

\* Column 0 is not stored again.
StepBack ==
  /\ Kernel("back")
  /\ column' = IF column = 0 THEN 0 ELSE column - 1
  /\ tty' = IF column = 0 THEN tty ELSE [tty EXCEPT !.column = column - 1]
  /\ Goto("cell")
  /\ UNCHANGED <<printed, after, char, row, cell>>

StoreCell ==
  /\ Kernel("cell")
  /\ LET entry == IF char = BACKSPACE THEN Blank ELSE char
     IN tty' = Store(tty, row * VGA_WIDTH + column, entry)
  /\ IF char = BACKSPACE THEN Goto("return") ELSE Goto("advance")
  /\ UNCHANGED <<printed, locals>>

StoreColumn ==
  /\ Kernel("advance")
  /\ IF column + 1 < VGA_WIDTH
     THEN tty' = [tty EXCEPT !.column = column + 1] /\ Goto("return")
     ELSE tty' = [tty EXCEPT !.column = 0] /\ Goto("wrap")
  /\ UNCHANGED <<printed, locals>>

StoreRow ==
  /\ Kernel("wrap")
  /\ tty' = [tty EXCEPT !.row = row + 1]
  /\ IF row + 1 >= VGA_HEIGHT THEN Goto("copy") ELSE Goto("return")
  /\ after' = "return"
  /\ cell' = 0
  /\ UNCHANGED <<printed, char, column, row>>

Return ==
  /\ Kernel("return")
  /\ pc' = "idle"
  /\ UNCHANGED <<tty, printed, locals, meant>>

-----------------------------------------------------------------------------
(***************************************************************************)
(* The interrupt handlers                                                  *)
(***************************************************************************)

(***************************************************************************)
(* The kernel has its test of tty_row behind it and its last use of        *)
(* tty_row before it: the ++ of a newline, or the load of the other paths. *)
(***************************************************************************)
Exposed ==
  \/ pc \in {"body", "newline", "row"}
  \/ pc = "blank" /\ after = "body"

Interrupt(c) ==
  /\ pc # "boot"
  /\ ~tty.fault
  /\ keys < MaxKeys
  /\ tty' = terminal_putchar(tty, c)
  /\ keys' = keys + 1
  /\ meant' = NoClaim
  /\ struck' = (struck \/ (Exposed /\ c = NEWLINE /\ tty'.row = VGA_HEIGHT))
  /\ UNCHANGED <<ready, printed, pc, locals>>

NextRace ==
  \/ Boot
  \/ \E c \in KernelChars : Call(c)
  \/ CheckRow
  \/ CopyCell \/ LoadLowered \/ StoreLowered \/ BlankCell \/ EndScroll
  \/ FirstColumn \/ NextRow
  \/ LoadColumn \/ StoreTab
  \/ LoadRow \/ StepBack \/ StoreCell
  \/ StoreColumn \/ StoreRow
  \/ Return
  \/ \E c \in KeyChars : Interrupt(c)

SpecRace == InitRace /\ [][NextRace]_raceVars

-----------------------------------------------------------------------------
(***************************************************************************)
(* Properties                                                              *)
(***************************************************************************)

(***************************************************************************)
(* A call that no interrupt comes into leaves what terminal_putchar in     *)
(* module Terminal leaves, whatever interrupts did to the row, the column  *)
(* and the cells in earlier calls.                                         *)
(***************************************************************************)
Uninterrupted == pc = "return" /\ ~meant.fault => tty = meant

(***************************************************************************)
(* The row passes VGA_HEIGHT, the value that the test of tty.c:72 looks    *)
(* for, in one way only: a handler's newline comes between that test and   *)
(* the kernel's last use of tty_row, and takes the cursor below the screen *)
(* there.  No other character of a handler does it wherever it comes, nor  *)
(* does a newline anywhere else, overlapping scrolls included.             *)
(***************************************************************************)
RowPassesByNewline == tty.row > VGA_HEIGHT => struck

(***************************************************************************)
(* tty.c:67 says that terminal_putchar "increments current row and column  *)
(* as required, resetting them to 0 when there's an overflow".  Past       *)
(* VGA_HEIGHT the test of tty.c:72 fails and the row is not brought back:  *)
(* what is stored there lies behind the page of the video memory.          *)
(***************************************************************************)
RowOnScreen == tty.row <= VGA_HEIGHT

(***************************************************************************)
(* tty.c:67 says that a character goes into the buffer "at the current     *)
(* (row, col)".                                                            *)
(***************************************************************************)
AtTheCursor ==
  [][StoreCell => row = tty.row /\ column = tty.column]_raceVars

=============================================================================
