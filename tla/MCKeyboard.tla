----------------------------- MODULE MCKeyboard -----------------------------
(***************************************************************************)
(* One letter and one other character, next to every modifier and toggle:  *)
(* the tables treat all keys of a kind alike.                              *)
(***************************************************************************)
EXTENDS Keyboard

MCLetters == {"a"}
MCSymbols == {"1"}

=============================================================================
