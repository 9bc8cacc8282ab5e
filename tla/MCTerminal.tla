---------------------------- MODULE MCTerminal ----------------------------
(***************************************************************************)
(* A screen of 2 rows and 3 columns in a page of 8 cells, tabs of 2: a     *)
(* text of 10 characters scrolls the screen several times in every way.     *)
(***************************************************************************)
EXTENDS Terminal

=============================================================================
