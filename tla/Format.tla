------------------------------- MODULE Format -------------------------------
(***************************************************************************)
(* The loop that printf.c and logf.c share line for line; they differ in   *)
(* where print and log hand the characters over, which module Log says.    *)
(* One action is a turn of the loop up to its call of print or log, or     *)
(* one character of that call.                                             *)
(***************************************************************************)
EXTENDS Libc

VARIABLES
  rest,            \* what is left of format_str
  params,          \* what is left of params: a number n and a text s each
  bytes_written,
  data,            \* what print or log has not handed over yet
  out,             \* history: what they have handed over
  ret,             \* what has been returned
  returned

format == <<rest, params, bytes_written, data, out, ret, returned>>

INT_MAX == (WIDTH \div 2) - 1

Percent == 37
Newline == 10
CharC == 99
CharS == 115
CharD == 100
CharX == 120
CharO == 111
Conversions == {CharC, CharS, CharD, CharX, CharO}

\* The text a parameter stands for.
Converted(letter, param) ==
  CASE letter = CharC -> <<Signed(param.n) % BYTE>>
    [] letter = CharS -> param.s
    [] letter = CharD -> itoa(param.n, 10)
    [] letter = CharX -> itoa(param.n, 16)
    [] letter = CharO -> itoa(param.n, 8)

Begin(format_str, arguments) ==
  /\ rest' = format_str
  /\ params' = arguments
  /\ bytes_written' = 0
  /\ data' = <<>>
  /\ UNCHANGED <<out, ret, returned>>

Return(value) ==
  /\ ret' = value
  /\ returned' = TRUE
  /\ UNCHANGED <<rest, bytes_written, data, out>>

\* Mutant: the text is not compared with what an int still counts.
Give_NoLimit(text, left) ==
  /\ data' = text
  /\ rest' = left
  /\ bytes_written' = bytes_written + Len(text)
  /\ UNCHANGED <<out, ret, returned>>

\* Print the text and go on with format_str at left, or return -1.
Give(text, left) ==
  LET max_remaining == INT_MAX - bytes_written
  IN \/ /\ max_remaining < Len(text)
        /\ Return(-1)
     \/ /\ max_remaining >= Len(text)
        /\ data' = text
        /\ rest' = left
        /\ bytes_written' = bytes_written + Len(text)
        /\ UNCHANGED <<out, ret, returned>>

\* How far a plain text goes whose first character may be a %.
subLength(text) ==
  Min({k \in 2 .. Len(text) : text[k] = Percent} \cup {Len(text) + 1}) - 1

AtConversion == rest[1] = Percent /\ (Len(rest) > 1 => rest[2] # Percent)

\* Mutant: the second % of a pair is left for the next turn.
Plain_Both ==
  /\ ~AtConversion
  /\ LET length == subLength(rest)
     IN Give(SubSeq(rest, 1, length), SubSeq(rest, length + 1, Len(rest)))
  /\ UNCHANGED params

\* Text up to the next %; of %% the second one begins the text.
Plain ==
  /\ ~AtConversion
  /\ LET text   == IF rest[1] = Percent THEN Tail(rest) ELSE rest
         length == subLength(text)
     IN Give(SubSeq(text, 1, length), SubSeq(text, length + 1, Len(text)))
  /\ UNCHANGED params

Convert ==
  /\ AtConversion
  /\ Len(rest) > 1
  /\ rest[2] \in Conversions
  /\ Give(Converted(rest[2], Head(params)), SubSeq(rest, 3, Len(rest)))
  /\ params' = Tail(params)

\* After a % that begins nothing, all the rest, or nothing, is printed.
Unknown ==
  /\ AtConversion
  /\ Len(rest) > 1 => rest[2] \notin Conversions
  /\ Give(Tail(rest), <<>>)
  /\ UNCHANGED params

Turn ==
  /\ ~returned
  /\ data = <<>>
  /\ \/ rest # <<>> /\ (Plain \/ Convert \/ Unknown)
     \/ rest = <<>> /\ Return(bytes_written) /\ UNCHANGED params

\* The next character of the text that is being printed.
HandOver ==
  /\ data # <<>>
  /\ out' = Append(out, Head(data))
  /\ data' = Tail(data)
  /\ UNCHANGED <<rest, params, bytes_written, ret, returned>>

-----------------------------------------------------------------------------
(***************************************************************************)
(* What C says of the same formats, one character of the format at a time. *)
(***************************************************************************)

Numeral(n, radix) ==
  LET length == Min({k \in 1 .. BITS : n < Power(radix, k)})
  IN [k \in 1 .. length |-> Digit((n \div Power(radix, length - k)) % radix)]

Said(letter, param) ==
  CASE letter = CharC -> <<Signed(param.n) % BYTE>>
    [] letter = CharS -> param.s
    [] letter = CharX -> Numeral(param.n, 16)
    [] letter = CharO -> Numeral(param.n, 8)
    [] letter = CharD -> IF Signed(param.n) < 0
                         THEN <<Minus>> \o Numeral(-Signed(param.n), 10)
                         ELSE Numeral(param.n, 10)

\* A % at i is not the second of a pair: an even number of them precedes it.
Begins(text, i) ==
  \E j \in 1 .. i : /\ (i - j) % 2 = 0
                    /\ \A m \in j .. (i - 1) : text[m] = Percent
                    /\ j > 1 => text[j - 1] # Percent

\* Where the format asks for a parameter.
ConversionsOf(text) ==
  {i \in 1 .. (Len(text) - 1) :
     text[i] = Percent /\ text[i + 1] \in Conversions /\ Begins(text, i)}

\* What the format says at its i-th character, and where it goes on.
Piece(text, arguments, i) ==
  LET next == IF i < Len(text) THEN text[i + 1] ELSE 0
      argument == arguments[Cardinality(ConversionsOf(text) \cap (1 .. i))]
  IN CASE text[i] # Percent -> [says |-> <<text[i]>>, next |-> i + 1]
       [] text[i] = Percent /\ next = Percent ->
            [says |-> <<Percent>>, next |-> i + 2]
       [] text[i] = Percent /\ next \in Conversions ->
            [says |-> Said(next, argument), next |-> i + 2]
       [] text[i] = Percent /\ next \notin Conversions \cup {Percent} ->
            [says |-> SubSeq(text, i + 1, Len(text)), next |-> Len(text) + 1]

Rendered(text, arguments) ==
  LET From[i \in 1 .. (Len(text) + 1)] ==
        IF i > Len(text) THEN <<>>
        ELSE LET piece == Piece(text, arguments, i)
             IN piece.says \o From[piece.next]
  IN From[1]

=============================================================================
