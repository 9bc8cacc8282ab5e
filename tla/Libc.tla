-------------------------------- MODULE Libc --------------------------------
(***************************************************************************)
(* The functions of libc that return a value: string/, stdlib/itoa.c and   *)
(* utils/ceilPowTwo.c.  A memory is a function from addresses to bytes; a  *)
(* character is its code; a text is the sequence of its characters, the    *)
(* final 0 left out.                                                       *)
(***************************************************************************)
EXTENDS Integers, SequencesExt

CONSTANT BITS   \* bits of an unsigned long and of an int

\* ceilPowTwo shifts by 16 at most.
ASSUME BitsAssumption == BITS \in 1 .. 32

BYTE == 256     \* how many values an unsigned char has
Byte == 0 .. (BYTE - 1)

\* radix to the power of k
Power(radix, k) ==
  LET power[j \in Nat] == IF j = 0 THEN 1 ELSE radix * power[j - 1]
  IN power[k]

WIDTH == Power(2, BITS)
Signed(n) == IF 2 * n < WIDTH THEN n ELSE n - WIDTH

\* What a loop makes of start in so many passes, counted from 0.
Loop(start, passes, Pass(_, _)) ==
  LET after[k \in 0 .. passes] ==
        IF k = 0 THEN start ELSE Pass(after[k - 1], k - 1)
  IN after[passes]

-----------------------------------------------------------------------------
(***************************************************************************)
(* string/                                                                 *)
(***************************************************************************)

\* The values of i in a loop up from 0, and in a loop down to 0.
Up(size) == [k \in 0 .. (size - 1) |-> k]
Down(size) == [k \in 0 .. (size - 1) |-> size - 1 - k]

CopyBytes(memory, dest, src, size, i) ==
  Loop(memory, size, LAMBDA m, k : [m EXCEPT ![dest + i[k]] = m[src + i[k]]])

memcpy(memory, dest, src, size) == CopyBytes(memory, dest, src, size, Up(size))

\* Mutant: the directions the wrong way round.
memmove_Swapped(memory, dest, src, size) ==
  CopyBytes(memory, dest, src, size, IF dest > src THEN Up(size) ELSE Down(size))

memmove(memory, dest, src, size) ==
  CopyBytes(memory, dest, src, size, IF dest < src THEN Up(size) ELSE Down(size))

memset(memory, buf, val, size) ==
  Loop(memory, size, LAMBDA m, k : [m EXCEPT ![buf + k] = val % BYTE])

\* -1 or 1 at the first difference, where the loop returns.
memcmp(memory, a, b, size) ==
  Loop(0, size, LAMBDA r, k : CASE r # 0 -> r
                                [] r = 0 /\ memory[a + k] < memory[b + k] -> -1
                                [] r = 0 /\ memory[a + k] > memory[b + k] -> 1
                                [] r = 0 /\ memory[a + k] = memory[b + k] -> 0)

strlen(text) == Len(text)

-----------------------------------------------------------------------------
(***************************************************************************)
(* stdlib/itoa.c                                                           *)
(***************************************************************************)

Minus == 45

Digit(d) == IF d > 9 THEN 65 + (d - 10) ELSE d + 48

\* The digits of a number, the lowest first.
LowFirst(num, radix) ==
  LET digits[n \in Nat] ==
        IF n = 0 THEN <<>> ELSE <<Digit(n % radix)>> \o digits[n \div radix]
  IN digits[num]

\* The second loop turns the digits round in place.  strlen(buf) + 1 bytes
\* of buf are written.
itoa(num, radix) ==
  LET negative == radix = 10 /\ Signed(num) < 0
  IN CASE num = 0 -> <<Digit(0)>>
       [] num # 0 /\ negative ->
            <<Minus>> \o Reverse(LowFirst((0 - num) % WIDTH, radix))
       [] num # 0 /\ ~negative -> Reverse(LowFirst(num, radix))

-----------------------------------------------------------------------------
(***************************************************************************)
(* utils/ceilPowTwo.c, on the sets of the bits that are 1                  *)
(***************************************************************************)

BitsOf(n) == {b \in 0 .. (BITS - 1) : (n \div Power(2, b)) % 2 = 1}
ValueOf(bits) ==
  Loop(0, BITS, LAMBDA sum, b : IF b \in bits THEN sum + Power(2, b) ELSE sum)

\* num |= num >> k
OrShifted(bits, k) == bits \cup {b - k : b \in {c \in bits : c >= k}}

Smeared(bits) ==
  OrShifted(OrShifted(OrShifted(OrShifted(OrShifted(bits, 1), 2), 4), 8), 16)

\* Mutant: num is not lowered first.
ceilPowTwo_NoLess(num) == (ValueOf(Smeared(BitsOf(num))) + 1) % WIDTH

ceilPowTwo(num) ==
  (ValueOf(Smeared(BitsOf((num - 1) % WIDTH))) + 1) % WIDTH

=============================================================================
