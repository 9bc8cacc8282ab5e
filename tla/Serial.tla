------------------------------- MODULE Serial -------------------------------
(***************************************************************************)
(* The first serial port: init_com1 and com1_send of com.c, and the 16550  *)
(* UART behind the ports they write, which sends and receives meanwhile.   *)
(***************************************************************************)
EXTENDS Integers, Sequences

CONSTANTS
  FIFO_SIZE,   \* bytes each of the UART's queues holds
  Noise        \* bytes that may come in from the line during init_com1

ASSUME UARTAssumption == FIFO_SIZE \in Nat \ {0} /\ Noise \subseteq 0 .. 255

VARIABLES
  uart,     \* the UART's registers and queues
  wire,     \* history: what has gone out on the line
  todo,     \* the writes init_com1 has still to do
  test      \* what its test has read: a byte and where it came from

serial == <<uart, wire, todo, test>>

\* Offsets of the ports from COM1.
DATA == 0
INTERRUPT_ENABLE == 1
FIFO_CTL == 2
LINE_CTL == 3
MODEM_CTL == 4

TestByte == 85
Nothing == <<-1, "none">>
Untested == <<-2, "none">>

Bit(value, n) == (value \div 2 ^ n) % 2 = 1

\* A write to a port.  The first two are the baud rate's while DLAB is set;
\* a byte that finds the queue full is lost.
outb(u, port, value) ==
  CASE port = DATA /\ u.dlab -> [u EXCEPT !.divisor[1] = value]
    [] port = DATA /\ ~u.dlab ->
         IF Len(u.tx) < FIFO_SIZE THEN [u EXCEPT !.tx = Append(@, value)] ELSE u
    [] port = INTERRUPT_ENABLE ->
         IF u.dlab THEN [u EXCEPT !.divisor[2] = value] ELSE u
    [] port = FIFO_CTL ->
         [u EXCEPT !.rx = IF Bit(value, 1) THEN <<>> ELSE @,
                   !.tx = IF Bit(value, 2) THEN <<>> ELSE @]
    [] port = LINE_CTL -> [u EXCEPT !.dlab = Bit(value, 7)]
    [] port = MODEM_CTL -> [u EXCEPT !.loop = Bit(value, 4)]

\* Mutant: the baud rate is set after DLAB is cleared.
Writes_Late ==
  <<<<INTERRUPT_ENABLE, 0>>, <<LINE_CTL, 128>>, <<LINE_CTL, 3>>, <<DATA, 3>>,
    <<INTERRUPT_ENABLE, 0>>, <<MODEM_CTL, 11>>, <<MODEM_CTL, 30>>,
    <<DATA, TestByte>>>>

\* init_com1's writes up to its test.
Writes ==
  <<<<INTERRUPT_ENABLE, 0>>, <<LINE_CTL, 128>>, <<DATA, 3>>,
    <<INTERRUPT_ENABLE, 0>>, <<LINE_CTL, 3>>, <<FIFO_CTL, 199>>,
    <<MODEM_CTL, 11>>, <<MODEM_CTL, 30>>, <<DATA, TestByte>>>>

\* What the BIOS may leave.
SerialInit ==
  /\ uart \in [dlab : BOOLEAN, divisor : {<<12, 0>>}, loop : BOOLEAN,
               tx : {<<>>}, shift : {<<>>},
               rx : {<<>>} \cup {<<<<byte, "line">>>> : byte \in Noise}]
  /\ wire = <<>>
  /\ todo = Writes
  /\ test = Untested

Write ==
  /\ todo # <<>>
  /\ uart' = outb(uart, Head(todo)[1], Head(todo)[2])
  /\ todo' = Tail(todo)
  /\ UNCHANGED <<wire, test>>

\* It reads at once, whether or not the byte has come round; if it has not
\* the port stays as it is, looped back.
LoopbackTest ==
  /\ todo = <<>>
  /\ test = Untested
  /\ test' = IF uart.rx = <<>> THEN Nothing ELSE Head(uart.rx)
  /\ LET read == IF uart.rx = <<>> THEN uart ELSE [uart EXCEPT !.rx = Tail(@)]
     IN uart' = IF test'[1] = TestByte THEN outb(read, MODEM_CTL, 15) ELSE read
  /\ UNCHANGED <<wire, todo>>

init_com1 == Write \/ LoopbackTest

\* Mutant: the byte is written without a look at the line status.
com1_send_Blind(ch) ==
  /\ uart' = outb(uart, DATA, ch)
  /\ UNCHANGED <<wire, todo, test>>

\* Mutant: the loop waits for the queue to hold something.
com1_send_Inverted(ch) ==
  /\ uart.tx # <<>>
  /\ uart' = outb(uart, DATA, ch)
  /\ UNCHANGED <<wire, todo, test>>

\* It waits until the queue is empty, which bit 0x20 of the status says.
com1_send(ch) ==
  /\ uart.tx = <<>>
  /\ uart' = outb(uart, DATA, ch)
  /\ UNCHANGED <<wire, todo, test>>

-----------------------------------------------------------------------------
(***************************************************************************)
(* The UART                                                                *)
(***************************************************************************)

Shift ==
  /\ uart.tx # <<>>
  /\ uart.shift = <<>>
  /\ uart' = [uart EXCEPT !.tx = Tail(@), !.shift = <<Head(uart.tx)>>]
  /\ UNCHANGED <<wire, todo, test>>

\* A byte has left: back to the receiver in loopback mode, else on the
\* line, where it is one only at the rate of the other side, 115200 / 3.
Transmit ==
  /\ uart.shift # <<>>
  /\ LET sent == [uart EXCEPT !.shift = <<>>]
         byte == uart.shift[1]
     IN IF uart.loop
        THEN /\ uart' = IF Len(uart.rx) < FIFO_SIZE
                        THEN [sent EXCEPT !.rx = Append(@, <<byte, "loop">>)]
                        ELSE sent
             /\ UNCHANGED wire
        ELSE /\ uart' = sent
             /\ wire' = Append(wire, IF uart.divisor = <<3, 0>> THEN byte ELSE -1)
  /\ UNCHANGED <<todo, test>>

\* Nothing reads what comes in after init_com1.
Receive ==
  /\ test = Untested
  /\ ~uart.loop
  /\ uart.rx = <<>>
  /\ \E byte \in Noise : uart' = [uart EXCEPT !.rx = <<<<byte, "line">>>>]
  /\ UNCHANGED <<wire, todo, test>>

UARTTypeOK ==
  /\ uart \in [dlab : BOOLEAN, divisor : (0 .. 255) \X (0 .. 255),
               loop : BOOLEAN, tx : Seq(0 .. 255), shift : Seq(0 .. 255),
               rx : Seq((0 .. 255) \X {"line", "loop"})]
  /\ Len(uart.tx) <= FIFO_SIZE
  /\ Len(uart.shift) <= 1
  /\ Len(uart.rx) <= FIFO_SIZE
  /\ wire \in Seq(-1 .. 255)

=============================================================================
