--------------------------- MODULE MCTerminalRace ---------------------------
(***************************************************************************)
(* A screen of 2 rows and 2 columns in a page that ends, as the real one   *)
(* does, within the row below it; enough for the kernel's text to scroll   *)
(* and for several keys to come into one scroll.  The keys are a letter,   *)
(* Enter, Tab and Backspace.                                               *)
(***************************************************************************)
EXTENDS TerminalRace

=============================================================================
