------------------------------ MODULE Console ------------------------------
(***************************************************************************)
(* What the LumOS terminal promises whoever prints (tty.c and tty.h): the  *)
(* text goes on a page of lines that grows at the bottom.  A character     *)
(* that fills a line, or a newline, opens a blank line below; a tab moves  *)
(* along a line; a backspace blanks the place before the cursor, and never *)
(* leaves its line.  What has once been put on a line that the cursor has  *)
(* left stays there for good.                                              *)
(***************************************************************************)
EXTENDS Naturals, Sequences

CONSTANTS
  Glyphs,    \* what can be shown
  Blank,     \* the empty place
  WIDTH,     \* places in a line
  TAB        \* places a tab moves

VARIABLES
  lines,     \* the page, its first line first
  column     \* the place of the cursor in the last line

vars == <<lines, column>>

Places == 0 .. (WIDTH - 1)
BlankLine == [x \in Places |-> Blank]

Put(x, g) == [lines EXCEPT ![Len(lines)][x] = g]

Init ==
  /\ lines = <<BlankLine>>
  /\ column = 0

Write(g) ==
  \/ /\ column + 1 < WIDTH
     /\ lines' = Put(column, g)
     /\ column' = column + 1
  \/ /\ column + 1 = WIDTH
     /\ lines' = Append(Put(column, g), BlankLine)
     /\ column' = 0

NewLine ==
  /\ lines' = Append(lines, BlankLine)
  /\ column' = 0

Tab ==
  /\ column' = column + TAB
  /\ column' \in Places
  /\ UNCHANGED lines

Backspace ==
  /\ column' = IF column = 0 THEN 0 ELSE column - 1
  /\ lines' = Put(column', Blank)

Next ==
  \/ \E g \in Glyphs : Write(g)
  \/ NewLine
  \/ Tab
  \/ Backspace

Spec == Init /\ [][Next]_vars

=============================================================================
