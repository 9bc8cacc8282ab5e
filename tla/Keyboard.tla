------------------------------ MODULE Keyboard ------------------------------
(***************************************************************************)
(* keyboard_handler of lumos/arch/i386/keyboard.c: what it makes of the    *)
(* scancodes of a user who presses, holds and releases keys.               *)
(*                                                                         *)
(* A scancode is a key with its bit 7, set when the key is released; 0xE0, *)
(* which goes before the codes of the right control and alt keys, is a     *)
(* byte of its own.  The tables are abstracted to which keys have an entry *)
(* and which entries are letters: an entry is the key and its level.       *)
(* Bytes come one by one and in order, as module Interrupts shows.         *)
(***************************************************************************)
EXTENDS Naturals, Sequences, FiniteSetsExt

CONSTANTS
  Letters,       \* keys with a letter in the tables
  Symbols,       \* the other keys with an entry
  MaxEvents,     \* bound: what the user does
  MaxPending     \* bound: bytes that wait to be read

ASSUME KeysAssumption ==
  /\ MaxEvents \in Nat
  /\ MaxPending \in Nat
  /\ Letters \cap Symbols = {}

VARIABLES
  status,      \* the modifiers the driver takes to be on
  pending,     \* the bytes it has still to read
  printed,     \* history: the characters it has printed
  down,        \* the keys the user holds
  capsOn,      \* whether Caps Lock should be on
  typed,       \* history: for each press, the characters it may stand for
  unsure,      \* history: what the driver's bits cannot tell
  events       \* how much the user has done

vars == <<status, pending, printed, down, capsOn, typed, unsure, events>>
user == <<down, capsOn, typed, unsure, events>>

-----------------------------------------------------------------------------
(***************************************************************************)
(* Keys and tables                                                         *)
(***************************************************************************)

Modifiers == {"SHIFT", "CTRL", "ALT"}
Toggles == {"CAPS_LOCK", "NUM_LOCK", "SCROLL_LOCK"}

\* The keys that stand for a modifier.
KeysOf(m) ==
  CASE m = "SHIFT" -> {"left shift", "right shift"}
    [] m = "CTRL"  -> {"left control", "right control"}
    [] m = "ALT"   -> {"left alt", "right alt"}

Printing == Letters \cup Symbols
ModifierKeys == UNION {KeysOf(m) : m \in Modifiers}
Keys == Printing \cup ModifierKeys \cup Toggles

\* The tables have no character for the other keys.
ASSUME TablesAssumption ==
  Printing \cap (ModifierKeys \cup Toggles \cup {"prefix"}) = {}

Prefix == [key |-> "prefix", released |-> TRUE]

\* What the keyboard sends: the right control and alt keys have the codes
\* of the left ones, after a prefix.
Bytes(k, released) ==
  LET Byte(key) == [key |-> key, released |-> released]
  IN CASE k = "right control" -> <<Prefix, Byte("left control")>>
       [] k = "right alt"     -> <<Prefix, Byte("left alt")>>
       [] OTHER               -> <<Byte(k)>>

None == <<"none">>
kbdus(k) == IF k \in Printing THEN <<k, "plain">> ELSE None
kbdus_shift(k) == IF k \in Printing THEN <<k, "shifted">> ELSE None

-----------------------------------------------------------------------------
(***************************************************************************)
(* The driver                                                              *)
(***************************************************************************)

\* Mutant: Caps Lock turns symbols round as well.
character_AllKeys(k) ==
  LET shifted == ("SHIFT" \in status) # ("CAPS_LOCK" \in status)
  IN IF shifted THEN kbdus_shift(k) ELSE kbdus(k)

\* Caps Lock turns the level of letters round, and of nothing else.
character(k) ==
  LET turned  == k \in Letters /\ "CAPS_LOCK" \in status
      shifted == ("SHIFT" \in status) # turned
  IN IF shifted THEN kbdus_shift(k) ELSE kbdus(k)

\* Mutant: the release of the right shift key has no case.
switch_OneShift(b) ==
  LET on     == {m \in Modifiers : ~b.released /\ b.key \in KeysOf(m)}
      off    == {m \in Modifiers : b.released
                                   /\ b.key \in KeysOf(m) \ {"right shift"}}
      turned == {t \in Toggles : ~b.released /\ b.key = t}
  IN SymDiff((status \ off) \cup on, turned)

\* Mutant: the press of a modifier turns its bit round.
switch_Toggle(b) ==
  LET off    == {m \in Modifiers : b.released /\ b.key \in KeysOf(m)}
      turned == {t \in Toggles : ~b.released /\ b.key = t}
                  \cup {m \in Modifiers : ~b.released /\ b.key \in KeysOf(m)}
  IN SymDiff(status \ off, turned)

\* The cases of the switch: the press of a key of a modifier sets its bit,
\* the release clears it, and the press of a toggle turns its bit round.
switch(b) ==
  LET on     == {m \in Modifiers : ~b.released /\ b.key \in KeysOf(m)}
      off    == {m \in Modifiers : b.released /\ b.key \in KeysOf(m)}
      turned == {t \in Toggles : ~b.released /\ b.key = t}
  IN SymDiff((status \ off) \cup on, turned)

\* Mutant: an entry of 0 is printed like any other.
keyboard_handler_NoTemp ==
  /\ pending # <<>>
  /\ LET b == Head(pending)
     IN IF ~b.released
        THEN printed' = Append(printed, character(b.key)) /\ UNCHANGED status
        ELSE status' = switch(b) /\ UNCHANGED printed
  /\ pending' = Tail(pending)
  /\ UNCHANGED user

\* Both tables have an entry for the same keys.
keyboard_handler ==
  /\ pending # <<>>
  /\ LET b == Head(pending)
     IN IF ~b.released /\ kbdus(b.key) # None
        THEN printed' = Append(printed, character(b.key)) /\ UNCHANGED status
        ELSE status' = switch(b) /\ UNCHANGED printed
  /\ pending' = Tail(pending)
  /\ UNCHANGED user

-----------------------------------------------------------------------------
(***************************************************************************)
(* The user.  A key held long enough is sent again and again, as if it     *)
(* were pressed.                                                           *)
(***************************************************************************)

Held(m, keys) == keys \cap KeysOf(m) # {}

\* What the driver cannot know: a modifier from the time both of its keys
\* are down until none is, for they share a bit; and Caps Lock once it has
\* been held so long that it was sent again.
Unsure(keys) ==
  {m \in Modifiers : Held(m, keys) /\ (m \in unsure \/ KeysOf(m) \subseteq keys)}
    \cup (unsure \ Modifiers)

\* The characters the press of a key may stand for.
Meant(k) ==
  LET caps    == k \in Letters /\ capsOn
      shifted == Held("SHIFT", down) # caps
      clear   == "SHIFT" \notin unsure
                   /\ (k \in Letters => "CAPS_LOCK" \notin unsure)
  IN CASE ~clear           -> {<<k, "plain">>, <<k, "shifted">>}
       [] clear /\ shifted  -> {<<k, "shifted">>}
       [] clear /\ ~shifted -> {<<k, "plain">>}

Send(k, released) ==
  /\ events < MaxEvents
  /\ events' = events + 1
  /\ Len(pending) < MaxPending
  /\ pending' = pending \o Bytes(k, released)
  /\ typed' = IF k \in Printing /\ ~released THEN Append(typed, Meant(k))
              ELSE typed
  /\ UNCHANGED <<status, printed>>

Press(k) ==
  /\ k \notin down
  /\ Send(k, FALSE)
  /\ down' = down \cup {k}
  /\ capsOn' = (capsOn # (k = "CAPS_LOCK"))
  /\ unsure' = Unsure(down')

Repeat(k) ==
  /\ k \in down
  /\ Send(k, FALSE)
  /\ unsure' = unsure \cup ({k} \cap {"CAPS_LOCK"})
  /\ UNCHANGED <<down, capsOn>>

Release(k) ==
  /\ k \in down
  /\ Send(k, TRUE)
  /\ down' = down \ {k}
  /\ unsure' = Unsure(down')
  /\ UNCHANGED capsOn

-----------------------------------------------------------------------------

\* init_keyboard has cleared status; a modifier may be held meanwhile.
Init ==
  /\ status = {}
  /\ pending = <<>>
  /\ printed = <<>>
  /\ down \in SUBSET ModifierKeys
  /\ capsOn = FALSE
  /\ typed = <<>>
  /\ unsure = {m \in Modifiers : Held(m, down)}
  /\ events = 0

Next ==
  \/ keyboard_handler
  \/ \E k \in Keys : Press(k) \/ Repeat(k) \/ Release(k)

Spec == Init /\ [][Next]_vars

-----------------------------------------------------------------------------
(***************************************************************************)
(* Properties                                                              *)
(***************************************************************************)

(***************************************************************************)
(* Types: status holds only the bits of keyboard.h, and only characters of *)
(* the tables are printed, never an entry that is 0.                       *)
(***************************************************************************)
TypeOK ==
  /\ status \subseteq Modifiers \cup Toggles
  /\ pending \in Seq([key : Keys \cup {"prefix"}, released : BOOLEAN])
  /\ printed \in Seq(Printing \X {"plain", "shifted"})
  /\ down \subseteq Keys
  /\ capsOn \in BOOLEAN
  /\ typed \in Seq(SUBSET (Printing \X {"plain", "shifted"}))
  /\ unsure \subseteq Modifiers \cup {"CAPS_LOCK"}
  /\ events \in 0 .. MaxEvents

(***************************************************************************)
(* When every byte has been read no modifier is on without a key of it     *)
(* being held, whichever of its keys were pressed, repeated or released    *)
(* before, and in whatever order: a modifier never sticks.                 *)
(***************************************************************************)
NothingSticks ==
  pending = <<>> => \A m \in status \cap Modifiers : Held(m, down)

(***************************************************************************)
(* And none that is held is missed, but for what keyboard_handler cannot   *)
(* know: the two keys of a modifier share a bit, and init_keyboard clears  *)
(* the bit of a key that is held.                                          *)
(***************************************************************************)
NothingMissed ==
  pending = <<>> =>
    \A m \in Modifiers \ unsure : Held(m, down) => m \in status

(***************************************************************************)
(* However late keyboard_handler reads the bytes, it prints what was typed *)
(* in order, and each character with the shift keys and Caps Lock as they  *)
(* were when its key was pressed; with every byte read, all that was.      *)
(***************************************************************************)
PrintedAsTyped ==
  /\ Len(printed) <= Len(typed)
  /\ \A i \in DOMAIN printed : printed[i] \in typed[i]
  /\ pending = <<>> => Len(printed) = Len(typed)

=============================================================================
