------------------------------- MODULE MCLog -------------------------------
(***************************************************************************)
(* Integers of 4 bits, from -8 to 7, and texts of up to 7 characters: one  *)
(* number is negative, the smallest or not, and one text takes more room   *)
(* than is left after others.  Every format of up to 3 characters, the     *)
(* letter a among them, which is no conversion, and of 4 with %, c, s and  *)
(* d, whose two parameters are any.                                        *)
(***************************************************************************)
EXTENDS Log

MCNoise == {0, 85}

Parameters ==
  {<<[n |-> 8, s |-> <<97, 37, 98>>], [n |-> 6, s |-> <<>>]>>,
   <<[n |-> 13, s |-> <<97>>], [n |-> 0, s |-> <<97, 98, 99, 100, 101, 102>>]>>}

Formats ==
  SeqOf({Percent, CharC, CharS, CharD, CharX, CharO, 97}, 3)
    \cup [1 .. 4 -> {Percent, CharC, CharS, CharD}]

FormatCalls ==
  {[fn |-> "logf", format |-> text, arguments |-> p] :
     text \in Formats, p \in Parameters}
  \cup {[fn |-> "printf", format |-> text, arguments |-> p] :
          text \in Formats, p \in Parameters}
  \cup {[fn |-> "puts", str |-> text] : text \in SeqOf({CharC, Percent}, 3)}

Places == {c \in [dest : 1 .. 5, src : 1 .. 5, size : 0 .. 4] :
             c.dest + c.size <= 5 /\ c.src + c.size <= 5}

MemoryCall(f, m, c) ==
  [fn |-> f, memory |-> m, dest |-> c.dest, src |-> c.src, size |-> c.size]

ComputeCalls ==
  {MemoryCall(f, <<1, 2, 3, 4>>, c) : f \in {"memcpy", "memmove"}, c \in Places}
  \cup {MemoryCall("memcmp", m, c) : m \in [1 .. 4 -> {0, 255}], c \in Places}
  \cup {[fn |-> "memset", memory |-> <<1, 2, 3, 4>>, dest |-> c.dest, val |-> v,
         size |-> c.size] : c \in {d \in Places : d.src = 1}, v \in {-1, 257}}
  \cup {[fn |-> "ceilPowTwo", num |-> n] : n \in 0 .. 15}

MCCalls == FormatCalls \cup ComputeCalls

=============================================================================
