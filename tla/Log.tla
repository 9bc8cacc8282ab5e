--------------------------------- MODULE Log ---------------------------------
(***************************************************************************)
(* What the kernel writes: kernel_main sets up the serial port and calls a *)
(* function of libc.  logf's characters go to com1_send one by one,        *)
(* printf's to putchar, and the functions of string/ and utils/ just       *)
(* compute.                                                                *)
(***************************************************************************)
EXTENDS Format, Serial

CONSTANT Calls    \* what may be called, with its arguments

Texts == Seq(Byte \ {0})
Parameter == [n : 0 .. (WIDTH - 1), s : Texts]
Within(memory, place, size) == place .. (place + size - 1) \subseteq DOMAIN memory

(***************************************************************************)
(* A caller passes the parameters its format asks for, and places that are *)
(* in memory.                                                              *)
(***************************************************************************)
ASSUME CallsAssumption ==
  \A c \in Calls :
    \/ /\ c.fn \in {"printf", "logf"}
       /\ c.format \in Texts
       /\ c.arguments \in Seq(Parameter)
       /\ Cardinality(ConversionsOf(c.format)) <= Len(c.arguments)
    \/ /\ c.fn = "puts"
       /\ c.str \in Texts
    \/ /\ c.fn \in {"memcpy", "memmove", "memcmp"}
       /\ c.memory \in [DOMAIN c.memory -> Byte]
       /\ c.dest \in Nat /\ c.src \in Nat /\ c.size \in Nat
       /\ Within(c.memory, c.dest, c.size)
       /\ Within(c.memory, c.src, c.size)
    \/ /\ c.fn = "memset"
       /\ c.memory \in [DOMAIN c.memory -> Byte]
       /\ c.dest \in Nat /\ c.val \in Int /\ c.size \in Nat
       /\ Within(c.memory, c.dest, c.size)
    \/ /\ c.fn = "ceilPowTwo"
       /\ c.num \in 0 .. (WIDTH - 1)

VARIABLES
  call,      \* what is called
  result     \* what a function that just computes has returned, or the
             \* memory it has left

vars == <<format, serial, call, result>>

NoCall == [fn |-> "none"]

Init ==
  /\ SerialInit
  /\ rest = <<>> /\ params = <<>> /\ bytes_written = 0
  /\ data = <<>> /\ out = <<>> /\ ret = 0 /\ returned = FALSE
  /\ call = NoCall
  /\ result = 0

Setup ==
  /\ init_com1
  /\ UNCHANGED <<format, call, result>>

CallFormat(c) ==
  /\ c.fn \in {"printf", "logf"}
  /\ Begin(c.format, c.arguments)
  /\ UNCHANGED result

puts(c) ==
  /\ c.fn = "puts"
  /\ Begin(<<Percent, CharS, Newline>>, <<[n |-> 0, s |-> c.str]>>)
  /\ UNCHANGED result

Compute(c) ==
  /\ c.fn \in {"memcpy", "memmove", "memset", "memcmp", "ceilPowTwo"}
  /\ result' =
       CASE c.fn = "memcpy"     -> memcpy(c.memory, c.dest, c.src, c.size)
         [] c.fn = "memmove"    -> memmove(c.memory, c.dest, c.src, c.size)
         [] c.fn = "memset"     -> memset(c.memory, c.dest, c.val, c.size)
         [] c.fn = "memcmp"     -> memcmp(c.memory, c.dest, c.src, c.size)
         [] c.fn = "ceilPowTwo" -> ceilPowTwo(c.num)
  /\ returned' = TRUE
  /\ UNCHANGED <<rest, params, bytes_written, data, out, ret>>

Call ==
  /\ test # Untested
  /\ call = NoCall
  /\ \E c \in Calls : call' = c /\ (CallFormat(c) \/ puts(c) \/ Compute(c))
  /\ UNCHANGED serial

\* putchar returns the character, never EOF, so printing never fails.
printf ==
  /\ call.fn \in {"printf", "puts"}
  /\ Turn \/ HandOver
  /\ UNCHANGED <<serial, call, result>>

log == HandOver /\ com1_send(Head(data))

logf ==
  /\ call.fn = "logf"
  /\ (Turn /\ UNCHANGED serial) \/ log
  /\ UNCHANGED <<call, result>>

Kernel ==
  \/ Setup
  \/ Call
  \/ printf
  \/ logf

UART == Shift \/ Transmit

Next ==
  \/ Kernel
  \/ (UART \/ Receive) /\ UNCHANGED <<format, call, result>>

Spec == Init /\ [][Next]_vars

(***************************************************************************)
(* The kernel runs, and the UART sends what it holds.  Nothing is assumed  *)
(* of how soon, nor of what comes in.                                      *)
(***************************************************************************)
Fairness ==
  /\ WF_vars(Kernel)
  /\ WF_vars(UART /\ UNCHANGED <<format, call, result>>)

FairSpec == Spec /\ Fairness

-----------------------------------------------------------------------------
(***************************************************************************)
(* Properties                                                              *)
(***************************************************************************)

TypeOK ==
  /\ UARTTypeOK
  /\ rest \in Texts /\ data \in Seq(Byte) /\ out \in Seq(Byte)
  /\ bytes_written \in 0 .. INT_MAX
  /\ ret \in -1 .. INT_MAX
  /\ returned \in BOOLEAN

Connected == test = <<TestByte, "loop">>

(***************************************************************************)
(* Nothing of the set-up leaks on the line, and once the loopback test has *)
(* read its own byte every character given to com1_send is on the line or  *)
(* on its way, in order, none lost to a full queue or a wrong rate.  A     *)
(* test that a byte of the line has passed promises less: its own byte may *)
(* still be under way (com.c).                                             *)
(***************************************************************************)
OnTheLine ==
  /\ test[2] # "line" => IsPrefix(wire, out)
  /\ Connected /\ call.fn = "logf" => wire \o uart.shift \o uart.tx = out

Text ==
  IF call.fn = "puts" THEN call.str \o <<Newline>>
  ELSE Rendered(call.format, call.arguments)

(***************************************************************************)
(* printf, logf and puts hand over the text the format stands for, and     *)
(* return its length; if that is more than an int counts they return -1    *)
(* after some first part of it.                                            *)
(***************************************************************************)
Formatted ==
  call.fn \in {"printf", "logf", "puts"} =>
    /\ IsPrefix(out \o data, Text)
    /\ returned =>
         IF Len(Text) > INT_MAX THEN ret = -1 ELSE out = Text /\ ret = Len(out)

Moved(c, i) == IF i \in c.dest .. (c.dest + c.size - 1)
               THEN c.memory[i - c.dest + c.src] ELSE c.memory[i]
Overlap(c) == c.dest < c.src + c.size /\ c.src < c.dest + c.size
Differ(c) ==
  {i \in 0 .. (c.size - 1) : c.memory[c.dest + i] # c.memory[c.src + i]}

(***************************************************************************)
(* memmove moves as if through a copy, whichever way the places overlap,   *)
(* memcpy does if they do not; memset fills the place and nothing else;    *)
(* memcmp judges by the first difference; ceilPowTwo is the least power of *)
(* two that is not less, or 0 where none fits.                             *)
(***************************************************************************)
Computed ==
  returned /\ call.fn \notin {"printf", "logf", "puts"} =>
    CASE call.fn = "memmove" ->
           \A i \in DOMAIN call.memory : result[i] = Moved(call, i)
      [] call.fn = "memcpy" ->
           \A i \in DOMAIN call.memory :
             Overlap(call) \/ result[i] = Moved(call, i)
      [] call.fn = "memset" ->
           \A i \in DOMAIN call.memory :
             result[i] = IF i \in call.dest .. (call.dest + call.size - 1)
                         THEN call.val % BYTE ELSE call.memory[i]
      [] call.fn = "memcmp" ->
           IF Differ(call) = {} THEN result = 0
           ELSE LET i == Min(Differ(call))
                IN result = IF call.memory[call.dest + i] < call.memory[call.src + i]
                            THEN -1 ELSE 1
      [] call.fn = "ceilPowTwo" ->
           LET powers == {p \in {Power(2, b) : b \in 0 .. (BITS - 1)} : p >= call.num}
           IN result = IF call.num = 0 \/ powers = {} THEN 0 ELSE Min(powers)

(***************************************************************************)
(* Whatever is called returns, also with the port left looped back, and    *)
(* all that logf has sent through a connected port arrives.                *)
(***************************************************************************)
Delivered ==
  <>(returned /\ (Connected /\ call.fn = "logf" => wire = out))

=============================================================================
