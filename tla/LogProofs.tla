------------------------------ MODULE LogProofs ------------------------------
(***************************************************************************)
(* Theorems about the serial port: for every call, with any characters,    *)
(* any size of the UART's queues, and whatever comes in from the line.     *)
(***************************************************************************)
EXTENDS FormatProofs

-----------------------------------------------------------------------------
(***************************************************************************)
(* The inductive invariant                                                 *)
(***************************************************************************)

Answer == <<TestByte, "loop">>

\* What goes out on the line: a byte, or something else at a wrong rate.
Sent == Byte \cup {-1}

Lines ==
  [dlab : BOOLEAN, divisor : [1 .. 2 -> Byte], loop : BOOLEAN,
   tx : Seq(Byte), shift : Seq(Byte), rx : Seq(Byte \X {"line", "loop"})]

\* No queue of the UART holds more than it can.
Room(u) ==
  Len(u.tx) <= FIFO_SIZE /\ Len(u.shift) <= 1 /\ Len(u.rx) <= FIFO_SIZE

Types ==
  /\ uart \in Lines /\ Room(uart)
  /\ wire \in Seq(Sent) /\ out \in Seq(Byte)

Left(i) == SubSeq(Writes, i, 9)

\* The registers of a UART u before the i-th write, or, at 10, after all.
Registers(u, i) ==
  /\ i \in 3 .. 5 => u.dlab
  /\ i >= 6 => ~u.dlab
  /\ i >= 4 => u.divisor[1] = 3
  /\ i >= 5 => u.divisor[2] = 0
  /\ i = 9 => u.loop

\* Where the test byte is: not written yet, written, being sent, or back.
Underway ==
  \/ uart.tx = <<>> /\ uart.shift = <<>> /\ todo # <<>>
  \/ uart.tx = <<TestByte>> /\ uart.shift = <<>> /\ todo = <<>>
  \/ uart.tx = <<>> /\ uart.shift = <<TestByte>> /\ todo = <<>>
  \/ uart.tx = <<>> /\ uart.shift = <<>> /\ todo = <<>>

\* What has come round is the test byte, when it is nowhere else.
ComeRound ==
  \A j \in DOMAIN uart.rx :
    \/ uart.rx[j][2] = "line"
    \/ uart.rx[j] = Answer /\ uart.tx = <<>> /\ uart.shift = <<>> /\ todo = <<>>

BeforeTest ==
  /\ call = NoCall /\ out = <<>> /\ wire = <<>>
  /\ Underway
  /\ ComeRound
  /\ todo = <<>> => uart.loop

\* Once the test has read its byte, the line has what logf has sent.
AfterTest ==
  /\ todo = <<>>
  /\ test = Answer \/ test[2] = "line" \/ test = Nothing
  /\ call = NoCall => out = <<>>
  /\ test = Answer =>
       /\ ~uart.loop
       /\ call.fn = "logf" => wire \o uart.shift \o uart.tx = out
       /\ call.fn # "logf" => wire = <<>> /\ uart.shift = <<>> /\ uart.tx = <<>>
  /\ test = Nothing => uart.loop /\ wire = <<>>

LineInv ==
  /\ Types
  /\ \E i \in 1 .. 10 : todo = Left(i) /\ Registers(uart, i)
  /\ test = Untested => BeforeTest
  /\ test # Untested => AfterTest

\* The bytes that init_com1 writes, and those that come in.
LEMMA ByteIs ==
  /\ Byte = 0 .. 255
  /\ {0, 3, 12, TestByte} \subseteq Byte /\ Noise \subseteq Byte
  /\ \A s \in Seq(Byte) : s \in Seq(Sent)
  <1>1. Byte = 0 .. 255
    BY DEF Byte, BYTE
  <1>2. \A s \in Seq(Byte) : s \in Seq(Sent)
    <2>1. Byte \subseteq Sent
      BY DEF Sent
    <2> QED
      BY <2>1, SeqMonotonic
  <1> QED
    BY <1>1, <1>2, UARTAssumption DEF TestByte

-----------------------------------------------------------------------------
(***************************************************************************)
(* The ports                                                               *)
(***************************************************************************)

\* The bits of what is written to them.
LEMMA Bits ==
  /\ Bit(128, 7) = TRUE /\ Bit(3, 7) = FALSE
  /\ Bit(199, 1) = TRUE /\ Bit(199, 2) = TRUE
  /\ Bit(11, 4) = FALSE /\ Bit(30, 4) = TRUE /\ Bit(15, 4) = FALSE
  BY DEF Bit

\* The writes one after the other.
LEMMA Written ==
  /\ Left(1) = Writes /\ Left(10) = <<>>
  /\ \A i \in 1 .. 9 : /\ Left(i) # <<>> /\ Head(Left(i)) = Writes[i]
                       /\ Tail(Left(i)) = Left(i + 1)
  <1>1. Writes \in Seq(Int \X Int) /\ Len(Writes) = 9
    BY DEF Writes, TestByte, DATA, INTERRUPT_ENABLE, FIFO_CTL, LINE_CTL, MODEM_CTL
  <1> HIDE DEF Writes
  <1>2. Left(1) = Writes /\ Left(10) = <<>>
    BY <1>1 DEF Left
  <1>3. ASSUME NEW i \in 1 .. 9
        PROVE  /\ Left(i) # <<>> /\ Head(Left(i)) = Writes[i]
               /\ Tail(Left(i)) = Left(i + 1)
    <2>1. i \in 1 .. Len(Writes) /\ 9 \in i .. Len(Writes)
      BY <1>1
    <2>2. Head(Left(i)) = Writes[i] /\ Tail(Left(i)) = Left(i + 1)
      BY <1>1, <2>1, HeadTailOfSubSeq DEF Left
    <2>3. Len(Left(i)) = 9 - i + 1
      BY <1>1 DEF Left
    <2>4. Left(i) # <<>>
      BY <2>3
    <2> QED
      BY <2>2, <2>4
  <1> QED
    BY <1>2, <1>3

\* The ports and values of the writes.
LEMMA WritesOne ==
  /\ Writes[1] = <<INTERRUPT_ENABLE, 0>> /\ Writes[2] = <<LINE_CTL, 128>>
  /\ Writes[3] = <<DATA, 3>> /\ Writes[4] = <<INTERRUPT_ENABLE, 0>>
  /\ Writes[5] = <<LINE_CTL, 3>> /\ Writes[6] = <<FIFO_CTL, 199>>
  /\ Writes[7] = <<MODEM_CTL, 11>> /\ Writes[8] = <<MODEM_CTL, 30>>
  /\ Writes[9] = <<DATA, TestByte>>
  BY DEF Writes

-----------------------------------------------------------------------------
(***************************************************************************)
(* init_com1                                                               *)
(***************************************************************************)

\* The UART's fields, one by one.
LEMMA Fields ==
  ASSUME NEW u \in Lines
  PROVE  /\ u.dlab \in BOOLEAN /\ u.divisor \in [1 .. 2 -> Byte]
         /\ u.loop \in BOOLEAN
         /\ u.tx \in Seq(Byte) /\ u.shift \in Seq(Byte)
         /\ u.rx \in Seq(Byte \X {"line", "loop"})
  BY DEF Lines

\* The i-th write makes a UART u to w.
IsWritten(u, i, w) ==
  /\ u \in Lines /\ u.tx = <<>>
  /\ i \in 1 .. 9 /\ Registers(u, i)
  /\ w = outb(u, Writes[i][1], Writes[i][2])

LEMMA OneWrite ==
  ASSUME NEW u, NEW i, NEW w, IsWritten(u, i, w)
  PROVE  /\ w \in Lines
         /\ Registers(w, i + 1)
         /\ w.tx = IF i = 9 THEN <<TestByte>> ELSE <<>>
         /\ w.shift = u.shift
         /\ w.rx = u.rx \/ w.rx = <<>>
         /\ i = 9 => w.loop
  <1> USE DEF DATA, INTERRUPT_ENABLE, FIFO_CTL, LINE_CTL, MODEM_CTL
  <1>0. /\ TestByte \in Byte /\ u \in Lines /\ u.tx = <<>>
        /\ i \in 1 .. 9 /\ Registers(u, i)
        /\ w = outb(u, Writes[i][1], Writes[i][2])
    BY ByteIs DEF IsWritten
  <1>1. /\ u.dlab \in BOOLEAN /\ u.divisor \in [1 .. 2 -> Byte]
        /\ u.loop \in BOOLEAN
        /\ u.tx \in Seq(Byte) /\ u.shift \in Seq(Byte)
        /\ u.rx \in Seq(Byte \X {"line", "loop"})
        /\ u \in Lines
    BY <1>0, Fields
  <1>2. /\ <<>> \in Seq(Byte) /\ <<TestByte>> \in Seq(Byte)
        /\ <<>> \in Seq(Byte \X {"line", "loop"})
    BY ByteIs
  <1>3. /\ i \in 3 .. 5 => u.dlab
        /\ i >= 6 => ~u.dlab
        /\ i >= 4 => u.divisor[1] = 3
        /\ i >= 5 => u.divisor[2] = 0
        /\ i = 9 => u.loop
    BY <1>0 DEF Registers
  <1>bit. u.dlab \in BOOLEAN
    BY <1>1
  <1>4. CASE i = 1
    <2>1. Writes[i] = <<INTERRUPT_ENABLE, 0>>
      BY <1>4, WritesOne
    <2>2. w = outb(u, INTERRUPT_ENABLE, 0)
      BY <1>0, <2>1
    <2> DEFINE d == [u.divisor EXCEPT ![2] = 0]
    <2>4. d \in [1 .. 2 -> Byte] /\ d[2] = 0 /\ d[1] = u.divisor[1]
      BY <1>1, ByteIs
    <2>5. w = IF u.dlab THEN [u EXCEPT !.divisor = d] ELSE u
      BY ONLY <1>bit, <2>2 DEF outb
    <2> HIDE DEF d
    <2>6. /\ w \in Lines
          /\ w.tx = <<>> /\ w.shift = u.shift
          /\ w.rx = u.rx
      BY ONLY <1>0, <1>1, <1>2, <2>4, <2>5 DEF Lines
    <2> QED
      BY <1>4, <2>6 DEF Registers
  <1>5. CASE i = 2
    <2>1. Writes[i] = <<LINE_CTL, 128>>
      BY <1>5, WritesOne
    <2>2. w = outb(u, LINE_CTL, 128)
      BY <1>0, <2>1
    <2>4. w = [u EXCEPT !.dlab = TRUE]
      <3>1. w = [u EXCEPT !.dlab = Bit(128, 7)]
        BY ONLY <1>bit, <2>2 DEF outb
      <3> QED
        BY ONLY <3>1, Bits
    <2>5. /\ w \in Lines /\ w.dlab
          /\ w.tx = <<>> /\ w.shift = u.shift
          /\ w.rx = u.rx
      BY ONLY <1>0, <1>1, <1>2, <2>4 DEF Lines
    <2> QED
      BY <1>5, <2>5 DEF Registers
  <1>6. CASE i = 3
    <2>1. Writes[i] = <<DATA, 3>>
      BY <1>6, WritesOne
    <2>2. w = outb(u, DATA, 3)
      BY <1>0, <2>1
    <2>3. u.dlab
      BY <1>3, <1>6
    <2> DEFINE d == [u.divisor EXCEPT ![1] = 3]
    <2>4. d \in [1 .. 2 -> Byte] /\ d[1] = 3 /\ d[2] = u.divisor[2]
      BY <1>1, ByteIs
    <2>5. w = [u EXCEPT !.divisor = d]
      BY ONLY <1>bit, <2>2, <2>3 DEF outb
    <2> HIDE DEF d
    <2>6. /\ w \in Lines /\ w.dlab /\ w.divisor[1] = 3
          /\ w.tx = <<>> /\ w.shift = u.shift
          /\ w.rx = u.rx
      BY ONLY <1>0, <1>1, <1>2, <2>3, <2>4, <2>5 DEF Lines
    <2> QED
      BY <1>6, <2>6 DEF Registers
  <1>7. CASE i = 4
    <2>1. Writes[i] = <<INTERRUPT_ENABLE, 0>>
      BY <1>7, WritesOne
    <2>2. w = outb(u, INTERRUPT_ENABLE, 0)
      BY <1>0, <2>1
    <2>3. u.dlab /\ u.divisor[1] = 3
      BY <1>3, <1>7
    <2> DEFINE d == [u.divisor EXCEPT ![2] = 0]
    <2>4. d \in [1 .. 2 -> Byte] /\ d[2] = 0 /\ d[1] = u.divisor[1]
      BY <1>1, ByteIs
    <2>5. w = [u EXCEPT !.divisor = d]
      BY ONLY <1>bit, <2>2, <2>3 DEF outb
    <2> HIDE DEF d
    <2>6. /\ w \in Lines /\ w.dlab /\ w.divisor[1] = 3 /\ w.divisor[2] = 0
          /\ w.tx = <<>> /\ w.shift = u.shift
          /\ w.rx = u.rx
      BY ONLY <1>0, <1>1, <1>2, <2>3, <2>4, <2>5 DEF Lines
    <2> QED
      BY <1>7, <2>6 DEF Registers
  <1>8. CASE i = 5
    <2>1. Writes[i] = <<LINE_CTL, 3>>
      BY <1>8, WritesOne
    <2>2. w = outb(u, LINE_CTL, 3)
      BY <1>0, <2>1
    <2>3. u.divisor[1] = 3 /\ u.divisor[2] = 0
      BY <1>3, <1>8
    <2>4. w = [u EXCEPT !.dlab = FALSE]
      <3>1. w = [u EXCEPT !.dlab = Bit(3, 7)]
        BY ONLY <1>bit, <2>2 DEF outb
      <3> QED
        BY ONLY <3>1, Bits
    <2>5. /\ w \in Lines /\ ~w.dlab /\ w.divisor[1] = 3 /\ w.divisor[2] = 0
          /\ w.tx = <<>> /\ w.shift = u.shift
          /\ w.rx = u.rx
      BY ONLY <1>0, <1>1, <1>2, <2>3, <2>4 DEF Lines
    <2> QED
      BY <1>8, <2>5 DEF Registers
  <1>9. CASE i = 6
    <2>1. Writes[i] = <<FIFO_CTL, 199>>
      BY <1>9, WritesOne
    <2>2. w = outb(u, FIFO_CTL, 199)
      BY <1>0, <2>1
    <2>3. ~u.dlab /\ u.divisor[1] = 3 /\ u.divisor[2] = 0
      BY <1>3, <1>9
    <2>4. w = [u EXCEPT !.rx = <<>>, !.tx = <<>>]
      <3>1. w = [u EXCEPT !.rx = IF Bit(199, 1) THEN <<>> ELSE @,
                               !.tx = IF Bit(199, 2) THEN <<>> ELSE @]
        BY ONLY <1>bit, <2>2 DEF outb
      <3> QED
        BY ONLY <3>1, Bits
    <2>5. /\ w \in Lines /\ ~w.dlab /\ w.divisor[1] = 3 /\ w.divisor[2] = 0
          /\ w.tx = <<>> /\ w.shift = u.shift
          /\ w.rx = <<>>
      BY ONLY <1>0, <1>1, <1>2, <2>3, <2>4 DEF Lines
    <2> QED
      BY <1>9, <2>5 DEF Registers
  <1>10. CASE i = 7
    <2>1. Writes[i] = <<MODEM_CTL, 11>>
      BY <1>10, WritesOne
    <2>2. w = outb(u, MODEM_CTL, 11)
      BY <1>0, <2>1
    <2>3. ~u.dlab /\ u.divisor[1] = 3 /\ u.divisor[2] = 0
      BY <1>3, <1>10
    <2>4. w = [u EXCEPT !.loop = FALSE]
      <3>1. w = [u EXCEPT !.loop = Bit(11, 4)]
        BY ONLY <1>bit, <2>2 DEF outb
      <3> QED
        BY ONLY <3>1, Bits
    <2>5. /\ w \in Lines /\ ~w.dlab /\ w.divisor[1] = 3 /\ w.divisor[2] = 0
          /\ w.tx = <<>> /\ w.shift = u.shift
          /\ w.rx = u.rx
      BY ONLY <1>0, <1>1, <1>2, <2>3, <2>4 DEF Lines
    <2> QED
      BY <1>10, <2>5 DEF Registers
  <1>11. CASE i = 8
    <2>1. Writes[i] = <<MODEM_CTL, 30>>
      BY <1>11, WritesOne
    <2>2. w = outb(u, MODEM_CTL, 30)
      BY <1>0, <2>1
    <2>3. ~u.dlab /\ u.divisor[1] = 3 /\ u.divisor[2] = 0
      BY <1>3, <1>11
    <2>4. w = [u EXCEPT !.loop = TRUE]
      <3>1. w = [u EXCEPT !.loop = Bit(30, 4)]
        BY ONLY <1>bit, <2>2 DEF outb
      <3> QED
        BY ONLY <3>1, Bits
    <2>5. /\ w \in Lines /\ ~w.dlab /\ w.divisor[1] = 3 /\ w.divisor[2] = 0 /\ w.loop
          /\ w.tx = <<>> /\ w.shift = u.shift
          /\ w.rx = u.rx
      BY ONLY <1>0, <1>1, <1>2, <2>3, <2>4 DEF Lines
    <2> QED
      BY <1>11, <2>5 DEF Registers
  <1>12. CASE i = 9
    <2>1. Writes[i] = <<DATA, TestByte>>
      BY <1>12, WritesOne
    <2>2. w = outb(u, DATA, TestByte)
      BY <1>0, <2>1
    <2>3. ~u.dlab /\ u.divisor[1] = 3 /\ u.divisor[2] = 0 /\ u.loop
      BY <1>3, <1>12
    <2>4. w = [u EXCEPT !.tx = <<TestByte>>]
      <3>1. Len(u.tx) < FIFO_SIZE
        BY <1>0, UARTAssumption
      <3>2. w = [u EXCEPT !.tx = Append(@, TestByte)]
        BY ONLY <1>bit, <2>2, <2>3, <3>1 DEF outb
      <3> QED
        BY <1>0, <3>2
    <2>5. /\ w \in Lines /\ ~w.dlab /\ w.divisor[1] = 3 /\ w.divisor[2] = 0 /\ w.loop
          /\ w.tx = <<TestByte>> /\ w.shift = u.shift
          /\ w.rx = u.rx
      BY ONLY <1>0, <1>1, <1>2, <2>3, <2>4 DEF Lines
    <2> QED
      BY <1>12, <2>5 DEF Registers
  <1> QED
    BY <1>0, <1>4, <1>5, <1>6, <1>7, <1>8, <1>9, <1>10, <1>11, <1>12

\* A write of init_com1, which comes before its test.
LEMMA WriteStep ==
  ASSUME LineInv, Write, UNCHANGED <<format, call, result>>
  PROVE  LineInv'
  <1>1. /\ todo # <<>> /\ uart' = outb(uart, Head(todo)[1], Head(todo)[2])
        /\ todo' = Tail(todo) /\ wire' = wire /\ test' = test
        /\ call' = call /\ out' = out
    BY DEF Write, format
  <1>2. test = Untested /\ BeforeTest
    BY <1>1 DEF LineInv, AfterTest
  <1>3. Types
    BY DEF LineInv
  <1>4. PICK i \in 1 .. 10 : todo = Left(i) /\ Registers(uart, i)
    BY DEF LineInv
  <1>5. i \in 1 .. 9 /\ i + 1 \in 1 .. 10
    <2>1. i # 10
      BY <1>1, <1>4, Written
    <2> QED
      BY <2>1
  <1>6. /\ uart.tx = <<>> /\ uart.shift = <<>>
        /\ \A j \in DOMAIN uart.rx : uart.rx[j][2] = "line"
    BY <1>1, <1>2 DEF BeforeTest, Underway, ComeRound
  <1>7. /\ Head(todo) = Writes[i] /\ todo' = Left(i + 1)
    BY <1>1, <1>4, <1>5, Written
  <1>8. /\ uart' \in Lines
        /\ Registers(uart', i + 1)
        /\ uart'.tx = IF i = 9 THEN <<TestByte>> ELSE <<>>
        /\ uart'.shift = uart.shift
        /\ uart'.rx = uart.rx \/ uart'.rx = <<>>
        /\ i = 9 => uart'.loop
    <2>1. uart \in Lines
      BY <1>3 DEF Types
    <2>2. uart' = outb(uart, Writes[i][1], Writes[i][2])
      BY <1>1, <1>7
    <2>3. IsWritten(uart, i, uart')
      BY <1>4, <1>5, <1>6, <2>1, <2>2 DEF IsWritten
    <2> QED
      BY ONLY <2>3, OneWrite
  <1>9. todo' = <<>> <=> i = 9
    <2>1. CASE i = 9
      <3>1. i + 1 = 10
        BY <2>1
      <3> QED
        BY <1>7, <2>1, <3>1, Written
    <2>2. CASE i # 9
      <3>1. i + 1 \in 1 .. 9
        BY <1>5, <2>2
      <3> QED
        BY <1>7, <2>2, <3>1, Written
    <2> QED
      BY <2>1, <2>2
  <1>10. BeforeTest'
    <2>1. Underway'
      BY <1>6, <1>8, <1>9 DEF Underway
    <2>2. ComeRound'
      BY <1>6, <1>8 DEF ComeRound
    <2> QED
      BY <1>1, <1>2, <1>8, <1>9, <2>1, <2>2 DEF BeforeTest
  <1>11. Types'
    <2>1. Room(uart')
      <3>1. Len(uart.rx) <= FIFO_SIZE /\ FIFO_SIZE \in Nat /\ 1 <= FIFO_SIZE
        BY <1>3, UARTAssumption DEF Types, Room
      <3>2. Len(uart'.tx) <= FIFO_SIZE
        <4>1. CASE i = 9
          BY ONLY <1>8, <3>1, <4>1
        <4>2. CASE i # 9
          BY ONLY <1>8, <3>1, <4>2
        <4> QED
          BY <4>1, <4>2
      <3>3. Len(uart'.rx) <= FIFO_SIZE
        <4>1. CASE uart'.rx = uart.rx
          BY ONLY <3>1, <4>1
        <4>2. CASE uart'.rx = <<>>
          BY ONLY <3>1, <4>2
        <4> QED
          BY <1>8, <4>1, <4>2
      <3>4. Len(uart'.shift) <= 1
        BY ONLY <1>6, <1>8
      <3> QED
        BY ONLY <3>2, <3>3, <3>4 DEF Room
    <2> QED
      BY <1>1, <1>3, <1>8, <2>1 DEF Types
  <1> QED
    BY <1>1, <1>2, <1>5, <1>7, <1>8, <1>10, <1>11 DEF LineInv

\* Once all is written the UART has its registers.
LEMMA AllWritten ==
  ASSUME LineInv, todo = <<>>
  PROVE  todo = Left(10) /\ Registers(uart, 10)
  <1>1. PICK i \in 1 .. 10 : todo = Left(i) /\ Registers(uart, i)
    BY DEF LineInv
  <1>2. i \notin 1 .. 9
    BY <1>1, Written
  <1>3. i = 10
    BY <1>2
  <1> QED
    BY <1>1, <1>3

\* If the byte that is read has come round, none of it is left behind.
LEMMA LoopbackStep ==
  ASSUME LineInv, LoopbackTest, UNCHANGED <<format, call, result>>
  PROVE  LineInv'
  <1>1. /\ todo = <<>> /\ test = Untested
        /\ test' = IF uart.rx = <<>> THEN Nothing ELSE Head(uart.rx)
        /\ wire' = wire /\ todo' = todo /\ call' = call /\ out' = out
    BY DEF LoopbackTest, format
  <1>2. Types
    BY DEF LineInv
  <1>3. /\ todo = Left(10) /\ Registers(uart, 10)
        /\ ~uart.dlab /\ uart.divisor[1] = 3 /\ uart.divisor[2] = 0
    BY <1>1, AllWritten DEF Registers
  <1>4. BeforeTest
    BY <1>1 DEF LineInv
  <1> DEFINE read == IF uart.rx = <<>> THEN uart ELSE [uart EXCEPT !.rx = Tail(@)]
  <1>5. uart' = IF test'[1] = TestByte THEN outb(read, MODEM_CTL, 15) ELSE read
    BY DEF LoopbackTest
  <1>6. /\ uart \in Lines
        /\ uart.dlab \in BOOLEAN /\ uart.divisor \in [1 .. 2 -> Byte]
        /\ uart.loop \in BOOLEAN
        /\ uart.tx \in Seq(Byte) /\ uart.shift \in Seq(Byte)
        /\ uart.rx \in Seq(Byte \X {"line", "loop"})
    BY <1>2, Fields DEF Types
  <1>7. /\ read \in Lines /\ read.dlab = uart.dlab
        /\ read.divisor = uart.divisor /\ read.loop = uart.loop
        /\ read.tx = uart.tx /\ read.shift = uart.shift
        /\ Len(read.rx) <= Len(uart.rx)
    <2>1. CASE uart.rx = <<>>
      BY <1>6, <2>1
    <2>2. CASE uart.rx # <<>>
      <3> DEFINE r == Tail(uart.rx)
      <3>1. r \in Seq(Byte \X {"line", "loop"}) /\ Len(r) <= Len(uart.rx)
        BY <1>6, <2>2, HeadTailProperties
      <3>2. read = [uart EXCEPT !.rx = r]
        BY <2>2
      <3> HIDE DEF r, read
      <3> QED
        BY ONLY <1>6, <3>1, <3>2 DEF Lines
    <2> QED
      BY <2>1, <2>2
  <1> HIDE DEF read
  <1>8. /\ uart' \in Lines /\ uart'.dlab = uart.dlab
        /\ uart'.divisor = uart.divisor
        /\ uart'.loop = IF test'[1] = TestByte THEN FALSE ELSE uart.loop
        /\ uart'.tx = uart.tx /\ uart'.shift = uart.shift
        /\ Len(uart'.rx) <= Len(uart.rx)
    <2>1. CASE test'[1] = TestByte
      <3>1. uart' = [read EXCEPT !.loop = Bit(15, 4)]
        BY ONLY <1>5, <2>1 DEF outb, DATA, INTERRUPT_ENABLE, FIFO_CTL, LINE_CTL, MODEM_CTL
      <3>2. uart' = [read EXCEPT !.loop = FALSE]
        BY ONLY <3>1, Bits
      <3>3. /\ uart' \in Lines /\ uart'.dlab = read.dlab
            /\ uart'.divisor = read.divisor /\ uart'.loop = FALSE
            /\ uart'.tx = read.tx /\ uart'.shift = read.shift
            /\ uart'.rx = read.rx
        BY ONLY <1>7, <3>2 DEF Lines
      <3> QED
        BY <1>7, <2>1, <3>3
    <2>2. CASE test'[1] # TestByte
      BY <1>5, <1>7, <2>2
    <2> QED
      BY <2>1, <2>2
  <1>9. /\ test' # Untested
        /\ test' = Nothing \/ test'[2] = "line" \/ test' = Answer
        /\ test' = Answer => uart.tx = <<>> /\ uart.shift = <<>>
        /\ test' = Nothing => test'[1] # TestByte
        /\ test' = Answer => test'[1] = TestByte
    <2>1. CASE uart.rx = <<>>
      BY <1>1, <2>1 DEF Nothing, Untested, Answer, TestByte
    <2>2. CASE uart.rx # <<>>
      <3>1. test' = uart.rx[1] /\ 1 \in DOMAIN uart.rx
        BY <1>1, <1>6, <2>2
      <3>2. \/ uart.rx[1][2] = "line"
            \/ uart.rx[1] = Answer /\ uart.tx = <<>> /\ uart.shift = <<>>
        BY <1>4, <3>1 DEF BeforeTest, ComeRound
      <3> QED
        BY <3>1, <3>2 DEF Nothing, Untested, Answer, TestByte
    <2> QED
      BY <2>1, <2>2
  <1>10. call.fn # "logf" /\ out = <<>> /\ wire = <<>> /\ uart.loop
    BY <1>1, <1>4 DEF BeforeTest, NoCall
  <1>11. AfterTest'
    BY <1>1, <1>8, <1>9, <1>10 DEF AfterTest
  <1>12. Registers(uart', 10)
    BY <1>3, <1>8 DEF Registers
  <1>13. Types'
    <2>1. Room(uart')
      <3>1. Len(uart'.rx) \in Nat /\ Len(uart.rx) \in Nat
        BY <1>6, <1>8, Fields, LenProperties
      <3> QED
        BY <1>2, <1>8, <3>1, UARTAssumption DEF Types, Room
    <2> QED
      BY <1>1, <1>2, <1>8, <2>1 DEF Types
  <1> QED
    BY <1>1, <1>3, <1>9, <1>11, <1>12, <1>13 DEF LineInv

-----------------------------------------------------------------------------
(***************************************************************************)
(* The UART                                                                *)
(***************************************************************************)

\* What is sent moves on, and the line, the shift register and the queue
\* still make up the same.
LEMMA MovesOn ==
  ASSUME NEW S, NEW a \in Seq(S), NEW b \in Seq(S), b # <<>>
  PROVE  (a \o <<Head(b)>>) \o Tail(b) = (a \o <<>>) \o b
  <1>1. Head(b) \in S /\ Tail(b) \in Seq(S) /\ <<Head(b)>> \in Seq(S)
    BY HeadTailProperties
  <1>2. (a \o <<Head(b)>>) \o Tail(b) = a \o (<<Head(b)>> \o Tail(b))
    BY <1>1, ConcatAssociative
  <1>3. <<Head(b)>> \o Tail(b) = b
    OBVIOUS
  <1>4. a \o <<>> = a
    BY ConcatEmptySeq
  <1> QED
    BY <1>2, <1>3, <1>4

LEMMA Alone ==
  ASSUME NEW S, NEW s \in Seq(S), s # <<>>, Len(s) <= 1
  PROVE  s = <<s[1]>> /\ s[1] \in S
  <1>1. Len(s) = 1
    <2>1. Len(s) \in Nat \ {0}
      BY EmptySeq
    <2> QED
      BY <2>1
  <1> QED
    BY <1>1

LEMMA ShiftStep ==
  ASSUME LineInv, Shift, UNCHANGED <<format, call, result>>
  PROVE  LineInv'
  <1>1. /\ uart.tx # <<>> /\ uart.shift = <<>>
        /\ uart' = [uart EXCEPT !.tx = Tail(@), !.shift = <<Head(uart.tx)>>]
        /\ wire' = wire /\ todo' = todo /\ test' = test
        /\ call' = call /\ out' = out
    BY DEF Shift, format
  <1>2. Types
    BY DEF LineInv
  <1>3. /\ uart \in Lines
        /\ uart.dlab \in BOOLEAN /\ uart.divisor \in [1 .. 2 -> Byte]
        /\ uart.loop \in BOOLEAN
        /\ uart.tx \in Seq(Byte) /\ uart.shift \in Seq(Byte)
        /\ uart.rx \in Seq(Byte \X {"line", "loop"})
    BY <1>2, Fields DEF Types
  <1>4. /\ uart' \in Lines
        /\ uart'.dlab = uart.dlab /\ uart'.divisor = uart.divisor
        /\ uart'.loop = uart.loop /\ uart'.rx = uart.rx
        /\ uart'.tx = Tail(uart.tx) /\ uart'.shift = <<Head(uart.tx)>>
        /\ Len(uart'.shift) = 1 /\ Len(uart'.tx) <= Len(uart.tx)
    <2> DEFINE t == Tail(uart.tx)
               h == <<Head(uart.tx)>>
    <2>1. /\ t \in Seq(Byte) /\ h \in Seq(Byte) /\ Len(h) = 1
          /\ Len(t) <= Len(uart.tx)
      BY <1>1, <1>3, HeadTailProperties
    <2>2. uart' = [uart EXCEPT !.tx = t, !.shift = h]
      BY <1>1
    <2> HIDE DEF t, h
    <2>3. /\ uart' \in Lines
          /\ uart'.dlab = uart.dlab /\ uart'.divisor = uart.divisor
          /\ uart'.loop = uart.loop /\ uart'.rx = uart.rx
          /\ uart'.tx = t /\ uart'.shift = h
      BY ONLY <1>3, <2>1, <2>2 DEF Lines
    <2> QED
      BY <2>1, <2>3 DEF t, h
  <1>5. Types'
    <2>1. Room(uart')
      <3>1. Len(uart'.tx) \in Nat /\ Len(uart.tx) \in Nat
        BY <1>3, <1>4, Fields, LenProperties
      <3> QED
        BY <1>2, <1>4, <3>1, UARTAssumption DEF Types, Room
    <2> QED
      BY <1>1, <1>2, <1>4, <2>1 DEF Types
  <1>6. \E i \in 1 .. 10 : todo' = Left(i) /\ Registers(uart', i)
    BY <1>1, <1>4 DEF LineInv, Registers
  <1>7. ASSUME test = Untested PROVE BeforeTest'
    <2>1. /\ BeforeTest /\ uart.tx = <<TestByte>> /\ todo = <<>>
          /\ \A j \in DOMAIN uart.rx : uart.rx[j][2] = "line"
      BY <1>1, <1>7 DEF LineInv, BeforeTest, Underway, ComeRound
    <2>2. uart'.tx = <<>> /\ uart'.shift = <<TestByte>>
      BY <1>4, <2>1
    <2> QED
      BY <1>1, <1>4, <2>1, <2>2 DEF BeforeTest, Underway, ComeRound
  <1>8. ASSUME test # Untested PROVE AfterTest'
    <2>1. AfterTest
      BY <1>8 DEF LineInv
    <2>2. (wire \o <<Head(uart.tx)>>) \o Tail(uart.tx) = (wire \o <<>>) \o uart.tx
      <3>1. wire \in Seq(Sent) /\ uart.tx \in Seq(Sent)
        BY <1>2, <1>3, ByteIs DEF Types
      <3> QED
        BY <1>1, <3>1, MovesOn
    <2> QED
      BY <1>1, <1>4, <2>1, <2>2 DEF AfterTest
  <1> QED
    BY <1>1, <1>5, <1>6, <1>7, <1>8 DEF LineInv

\* What is looped back does not go on the line, and what does has its rate.
LEMMA TransmitStep ==
  ASSUME LineInv, Transmit, UNCHANGED <<format, call, result>>
  PROVE  LineInv'
  <1> DEFINE byte == uart.shift[1]
             sent == [uart EXCEPT !.shift = <<>>]
             r == Append(uart.rx, <<byte, "loop">>)
  <1>1. /\ uart.shift # <<>>
        /\ IF uart.loop
           THEN /\ uart' = IF Len(uart.rx) < FIFO_SIZE
                           THEN [sent EXCEPT !.rx = r]
                           ELSE sent
                /\ wire' = wire
           ELSE /\ uart' = sent
                /\ wire' = Append(wire, IF uart.divisor = <<3, 0>> THEN byte ELSE -1)
        /\ todo' = todo /\ test' = test /\ call' = call /\ out' = out
    BY DEF Transmit, format
  <1>2. Types
    BY DEF LineInv
  <1>3. /\ uart \in Lines
        /\ uart.dlab \in BOOLEAN /\ uart.divisor \in [1 .. 2 -> Byte]
        /\ uart.loop \in BOOLEAN
        /\ uart.tx \in Seq(Byte) /\ uart.shift \in Seq(Byte)
        /\ uart.rx \in Seq(Byte \X {"line", "loop"})
        /\ wire \in Seq(Sent) /\ Byte \cup {-1} \subseteq Sent
        /\ Room(uart) /\ Len(uart.shift) <= 1
    BY <1>2, Fields DEF Types, Room, Sent
  <1>4. uart.shift = <<byte>> /\ byte \in Byte
    BY <1>1, <1>3, Alone
  <1>5. r \in Seq(Byte \X {"line", "loop"}) /\ <<>> \in Seq(Byte)
    BY <1>3, <1>4
  <1> HIDE DEF byte
  <1>6. /\ sent \in Lines
        /\ sent.dlab = uart.dlab /\ sent.divisor = uart.divisor
        /\ sent.loop = uart.loop /\ sent.rx = uart.rx
        /\ sent.tx = uart.tx /\ sent.shift = <<>>
    BY ONLY <1>3, <1>5 DEF Lines
  <1> HIDE DEF r, sent
  <1>7. /\ uart' \in Lines
        /\ uart'.dlab = uart.dlab /\ uart'.divisor = uart.divisor
        /\ uart'.loop = uart.loop
        /\ \/ uart'.rx = uart.rx
           \/ uart.loop /\ uart'.rx = r /\ Len(uart.rx) < FIFO_SIZE
        /\ uart'.tx = uart.tx /\ uart'.shift = <<>>
    <2>1. CASE uart' = sent
      BY <1>6, <2>1
    <2>2. CASE /\ uart' = [sent EXCEPT !.rx = r] /\ uart.loop
               /\ Len(uart.rx) < FIFO_SIZE
      <3>1. /\ uart' \in Lines
            /\ uart'.dlab = sent.dlab /\ uart'.divisor = sent.divisor
            /\ uart'.loop = sent.loop /\ uart'.rx = r
            /\ uart'.tx = sent.tx /\ uart'.shift = sent.shift
        BY ONLY <1>5, <1>6, <2>2 DEF Lines
      <3> QED
        BY <1>6, <2>2, <3>1
    <2> QED
      BY <1>1, <2>1, <2>2
  <1>8. wire' \in Seq(Sent) /\ Len(uart'.shift) = 0
    <2>1. CASE wire' = wire
      BY <1>3, <1>7, <2>1
    <2>2. ASSUME NEW x \in Sent, wire' = Append(wire, x) PROVE wire' \in Seq(Sent)
      BY <1>3, <2>2, AppendProperties
    <2>3. wire' = wire \/ \E x \in Sent : wire' = Append(wire, x)
      BY <1>1, <1>3, <1>4
    <2>4. Len(uart'.shift) = 0
      BY <1>7
    <2> QED
      BY <2>1, <2>2, <2>3, <2>4
  <1>9. Types'
    <2>1. Room(uart')
      <3>1. CASE uart'.rx = uart.rx
        BY <1>3, <1>7, <1>8, <3>1 DEF Room
      <3>2. CASE uart'.rx = r /\ Len(uart.rx) < FIFO_SIZE
        <4>1. Len(r) = Len(uart.rx) + 1 /\ Len(uart.rx) \in Nat
          BY <1>3, <1>4, AppendProperties, LenProperties DEF r
        <4> QED
          BY <1>3, <1>7, <1>8, <3>2, <4>1, UARTAssumption DEF Room
      <3> QED
        BY <1>7, <3>1, <3>2
    <2> QED
      BY <1>1, <1>2, <1>7, <1>8, <2>1 DEF Types
  <1>10. \E i \in 1 .. 10 : todo' = Left(i) /\ Registers(uart', i)
    BY <1>1, <1>7 DEF LineInv, Registers
  <1>11. ASSUME test = Untested PROVE BeforeTest'
    <2>1. /\ BeforeTest /\ uart.shift = <<TestByte>> /\ todo = <<>>
          /\ uart.tx = <<>> /\ uart.loop
          /\ \A j \in DOMAIN uart.rx : uart.rx[j][2] = "line"
      BY <1>1, <1>11 DEF LineInv, BeforeTest, Underway, ComeRound
    <2>2. byte = TestByte
      BY <1>4, <2>1
    <2>3. \A j \in DOMAIN uart'.rx : uart'.rx[j][2] = "line" \/ uart'.rx[j] = Answer
      <3>1. CASE uart'.rx = uart.rx
        BY <2>1, <3>1
      <3>2. CASE uart'.rx = r
        <4>1. r = Append(uart.rx, Answer)
          BY <2>2 DEF r, Answer
        <4>2. Answer \in Byte \X {"line", "loop"}
          BY <1>4, <2>2 DEF Answer
        <4>3. /\ DOMAIN r = 1 .. Len(uart.rx) + 1 /\ DOMAIN uart.rx = 1 .. Len(uart.rx)
              /\ \A j \in 1 .. Len(uart.rx) : r[j] = uart.rx[j]
              /\ r[Len(uart.rx) + 1] = Answer
              /\ Len(uart.rx) \in Nat
          BY <1>3, <4>1, <4>2, AppendProperties, LenProperties
        <4>4. \A j \in DOMAIN r : j \in 1 .. Len(uart.rx) \/ j = Len(uart.rx) + 1
          BY <4>3
        <4> QED
          BY <2>1, <3>2, <4>3, <4>4
      <3> QED
        BY <1>7, <3>1, <3>2
    <2> QED
      BY <1>1, <1>7, <2>1, <2>3 DEF BeforeTest, Underway, ComeRound
  <1>12. ASSUME test # Untested PROVE AfterTest'
    <2>1. AfterTest
      BY <1>12 DEF LineInv
    <2>2. uart.divisor = <<3, 0>>
      <3>1. uart.divisor[1] = 3 /\ uart.divisor[2] = 0
        BY <2>1, AllWritten DEF AfterTest, Registers
      <3> QED
        BY <1>3, <3>1
    <2>3. CASE uart.loop
      BY <1>1, <1>7, <2>1, <2>3 DEF AfterTest
    <2>4. CASE ~uart.loop
      <3>1. wire' = Append(wire, byte)
        BY <1>1, <2>2, <2>4
      <3>2. wire' = wire \o uart.shift
        BY <1>3, <1>4, <3>1, AppendIsConcat
      <3>3. wire' \o uart'.shift = wire \o uart.shift
        BY <1>7, <1>8, <3>2, ConcatEmptySeq
      <3> QED
        BY <1>1, <1>7, <2>1, <2>4, <3>3 DEF AfterTest
    <2> QED
      BY <1>3, <2>3, <2>4
  <1> QED
    BY <1>1, <1>9, <1>10, <1>11, <1>12 DEF LineInv

LEMMA ReceiveStep ==
  ASSUME LineInv, Receive, UNCHANGED <<format, call, result>>
  PROVE  LineInv'
  <1>1. PICK byte \in Noise : uart' = [uart EXCEPT !.rx = <<<<byte, "line">>>>]
    BY DEF Receive
  <1>2. /\ test = Untested /\ ~uart.loop /\ uart.rx = <<>>
        /\ wire' = wire /\ todo' = todo /\ test' = test
        /\ call' = call /\ out' = out
    BY DEF Receive, format
  <1>3. Types
    BY DEF LineInv
  <1>4. /\ uart \in Lines
        /\ uart.dlab \in BOOLEAN /\ uart.divisor \in [1 .. 2 -> Byte]
        /\ uart.loop \in BOOLEAN
        /\ uart.tx \in Seq(Byte) /\ uart.shift \in Seq(Byte)
        /\ uart.rx \in Seq(Byte \X {"line", "loop"})
    BY <1>3, Fields DEF Types
  <1> DEFINE r == <<<<byte, "line">>>>
  <1>5. /\ r \in Seq(Byte \X {"line", "loop"})
        /\ \A j \in DOMAIN r : r[j][2] = "line"
        /\ Len(r) = 1
    <2>1. <<byte, "line">> \in Byte \X {"line", "loop"}
      BY ByteIs
    <2> QED
      BY ONLY <2>1
  <1> HIDE DEF r
  <1>6. /\ uart' \in Lines
        /\ uart'.dlab = uart.dlab /\ uart'.divisor = uart.divisor
        /\ uart'.loop = uart.loop /\ uart'.rx = r
        /\ uart'.tx = uart.tx /\ uart'.shift = uart.shift
    <2>1. uart' = [uart EXCEPT !.rx = r]
      BY <1>1 DEF r
    <2> QED
      BY ONLY <1>4, <1>5, <2>1 DEF Lines
  <1>7. BeforeTest'
    BY <1>2, <1>5, <1>6 DEF LineInv, BeforeTest, Underway, ComeRound
  <1>8. \E i \in 1 .. 10 : todo' = Left(i) /\ Registers(uart', i)
    BY <1>2, <1>6 DEF LineInv, Registers
  <1>9. Types'
    <2>1. Room(uart')
      BY <1>3, <1>5, <1>6, UARTAssumption DEF Types, Room
    <2> QED
      BY <1>2, <1>3, <1>6, <2>1 DEF Types
  <1> QED
    BY <1>2, <1>7, <1>8, <1>9 DEF LineInv

-----------------------------------------------------------------------------
(***************************************************************************)
(* The calls                                                               *)
(***************************************************************************)

\* Only HandOver hands a character over.
LEMMA TurnHandsNothing ==
  ASSUME Turn
  PROVE  out' = out
  BY DEF Turn, Plain, Convert, Unknown, Give, Return

LEMMA BeginHandsNothing ==
  ASSUME NEW c, CallFormat(c) \/ puts(c) \/ Compute(c)
  PROVE  out' = out
  BY DEF CallFormat, puts, Compute, Begin

\* A step that leaves the port and what has been handed over as they are.
LEMMA QuietStep ==
  ASSUME LineInv, UNCHANGED serial, out' = out,
         call' # call => test # Untested /\ call = NoCall
  PROVE  LineInv'
  <1>1. uart' = uart /\ wire' = wire /\ todo' = todo /\ test' = test
    BY DEF serial
  <1>2. Types'
    BY <1>1 DEF LineInv, Types
  <1>3. \E i \in 1 .. 10 : todo' = Left(i) /\ Registers(uart', i)
    BY <1>1 DEF LineInv
  <1>4. ASSUME test = Untested PROVE BeforeTest'
    <2>1. BeforeTest /\ call' = call
      BY <1>4 DEF LineInv
    <2> QED
      BY <1>1, <2>1 DEF BeforeTest, Underway, ComeRound
  <1>5. ASSUME test # Untested PROVE AfterTest'
    <2>1. AfterTest
      BY <1>5 DEF LineInv
    <2>2. CASE call' = call
      BY <1>1, <2>1, <2>2 DEF AfterTest
    <2>3. CASE call' # call
      <3>1. call.fn # "logf" /\ out = <<>>
        BY <2>1, <2>3 DEF AfterTest, NoCall
      <3>2. (<<>> \o <<>>) \o <<>> = <<>>
        OBVIOUS
      <3>3. test = Answer => wire = <<>> /\ uart.shift = <<>> /\ uart.tx = <<>>
        BY <2>1, <3>1 DEF AfterTest
      <3> QED
        BY <1>1, <2>1, <3>1, <3>2, <3>3 DEF AfterTest
    <2> QED
      BY <2>2, <2>3
  <1> QED
    BY <1>1, <1>2, <1>3, <1>4, <1>5 DEF LineInv

\* What HandOver hands over is a byte.
LEMMA ByteHanded ==
  ASSUME FormatInv, HandOver
  PROVE  Head(data) \in Byte
  <1>1. data \in Seq(Byte) /\ data # <<>>
    BY DEF FormatInv, FormatTypes, HandOver
  <1> QED
    BY <1>1, HeadTailProperties

\* printf hands over while nothing is on the line.
LEMMA PrintStep ==
  ASSUME LineInv, FormatInv, call.fn \in {"printf", "puts"}, HandOver,
         UNCHANGED <<serial, call, result>>
  PROVE  LineInv'
  <1>1. /\ uart' = uart /\ wire' = wire /\ todo' = todo /\ test' = test
        /\ call' = call /\ out' = Append(out, Head(data))
    BY DEF serial, HandOver
  <1>2. call # NoCall /\ call.fn # "logf"
    BY DEF NoCall
  <1>3. AfterTest /\ test # Untested
    BY <1>2 DEF LineInv, BeforeTest
  <1>4. Types
    BY DEF LineInv
  <1>5. Head(data) \in Byte
    BY ByteHanded
  <1>6. Types'
    <2>1. out \in Seq(Byte)
      BY <1>4 DEF Types
    <2>2. out' \in Seq(Byte)
      BY <1>1, <1>5, <2>1, AppendProperties
    <2> QED
      BY <1>1, <1>4, <2>2 DEF Types
  <1>7. AfterTest'
    BY <1>1, <1>2, <1>3 DEF AfterTest
  <1> QED
    BY <1>1, <1>3, <1>6, <1>7 DEF LineInv

\* logf hands a character over to a port whose queue is empty.
LEMMA SendStep ==
  ASSUME LineInv, FormatInv, call.fn = "logf", log, UNCHANGED <<call, result>>
  PROVE  LineInv'
  <1> DEFINE ch == Head(data)
  <1>1. /\ uart.tx = <<>> /\ uart' = outb(uart, DATA, ch)
        /\ wire' = wire /\ todo' = todo /\ test' = test
        /\ call' = call /\ out' = Append(out, ch)
    BY DEF log, HandOver, com1_send
  <1> HIDE DEF ch
  <1>2. AfterTest /\ test # Untested
    BY DEF LineInv, BeforeTest, NoCall
  <1>3. ~uart.dlab /\ todo = Left(10) /\ Registers(uart, 10)
    BY <1>2, AllWritten DEF AfterTest, Registers
  <1>4. Types
    BY DEF LineInv
  <1>5. ch \in Byte
    BY ByteHanded DEF ch, log
  <1>6. /\ uart \in Lines
        /\ uart.dlab \in BOOLEAN /\ uart.divisor \in [1 .. 2 -> Byte]
        /\ uart.loop \in BOOLEAN
        /\ uart.tx \in Seq(Byte) /\ uart.shift \in Seq(Byte)
        /\ uart.rx \in Seq(Byte \X {"line", "loop"})
        /\ wire \in Seq(Sent) /\ out \in Seq(Byte)
    BY <1>4, Fields DEF Types
  <1>7. /\ uart' \in Lines
        /\ uart'.dlab = uart.dlab /\ uart'.divisor = uart.divisor
        /\ uart'.loop = uart.loop /\ uart'.rx = uart.rx
        /\ uart'.tx = <<ch>> /\ uart'.shift = uart.shift
    <2>1. Len(uart.tx) < FIFO_SIZE
      BY <1>1, UARTAssumption
    <2>2. uart' = [uart EXCEPT !.tx = Append(@, ch)]
      BY ONLY <1>1, <1>3, <2>1 DEF outb, DATA, INTERRUPT_ENABLE, FIFO_CTL,
                                    LINE_CTL, MODEM_CTL
    <2>3. uart' = [uart EXCEPT !.tx = <<ch>>]
      BY <1>1, <2>2
    <2>4. <<ch>> \in Seq(Byte)
      BY <1>5
    <2> QED
      BY ONLY <1>6, <2>3, <2>4 DEF Lines
  <1>8. Types'
    <2>1. out' \in Seq(Byte)
      BY <1>1, <1>5, <1>6, AppendProperties
    <2>2. Len(uart'.tx) = 1
      BY <1>7
    <2>3. Room(uart')
      BY <1>4, <1>7, <2>2, UARTAssumption DEF Types, Room
    <2> QED
      BY <1>1, <1>4, <1>7, <2>1, <2>3 DEF Types
  <1>9. test = Answer => wire' \o uart'.shift \o uart'.tx = out'
    <2> SUFFICES ASSUME test = Answer PROVE wire' \o uart'.shift \o uart'.tx = out'
      OBVIOUS
    <2>1. wire \o uart.shift \o <<>> = out
      BY <1>1, <1>2 DEF AfterTest
    <2>2. wire \o uart.shift \in Seq(Sent)
      BY <1>6, ByteIs, ConcatProperties
    <2>3. wire \o uart.shift = out
      BY <2>1, <2>2, ConcatEmptySeq
    <2>4. Append(out, ch) = out \o <<ch>>
      BY <1>5, <1>6, AppendIsConcat
    <2> QED
      BY <1>1, <1>7, <2>3, <2>4
  <1>10. AfterTest'
    <2>1. call' # NoCall /\ call'.fn = "logf"
      BY <1>1 DEF NoCall
    <2>2. uart'.loop = uart.loop
      BY <1>7
    <2> QED
      BY <1>1, <1>2, <1>9, <2>1, <2>2 DEF AfterTest
  <1>11. Registers(uart', 10)
    BY <1>3, <1>7 DEF Registers
  <1> QED
    BY <1>1, <1>2, <1>3, <1>8, <1>10, <1>11 DEF LineInv

-----------------------------------------------------------------------------
(***************************************************************************)
(* The theorems                                                            *)
(***************************************************************************)

LEMMA InitLine ==
  Init => LineInv
  <1> SUFFICES ASSUME Init PROVE LineInv
    OBVIOUS
  <1>1. /\ wire = <<>> /\ todo = Writes /\ test = Untested
        /\ call = NoCall /\ out = <<>>
        /\ uart \in [dlab : BOOLEAN, divisor : {<<12, 0>>}, loop : BOOLEAN,
                     tx : {<<>>}, shift : {<<>>},
                     rx : {<<>>} \cup {<<<<byte, "line">>>> : byte \in Noise}]
    BY DEF Init, SerialInit
  <1>2. /\ uart.tx = <<>> /\ uart.shift = <<>>
        /\ uart.rx = <<>> \/ \E byte \in Noise : uart.rx = <<<<byte, "line">>>>
    BY <1>1
  <1>3. /\ \A j \in DOMAIN uart.rx : uart.rx[j][2] = "line"
        /\ uart.rx \in Seq(Byte \X {"line", "loop"})
    <2>1. CASE uart.rx = <<>>
      BY <2>1
    <2>2. ASSUME NEW byte \in Noise, uart.rx = <<<<byte, "line">>>>
          PROVE  /\ \A j \in DOMAIN uart.rx : uart.rx[j][2] = "line"
                 /\ uart.rx \in Seq(Byte \X {"line", "loop"})
      <3>1. <<byte, "line">> \in Byte \X {"line", "loop"}
        BY ByteIs
      <3> QED
        BY <2>2, <3>1
    <2> QED
      BY <1>2, <2>1, <2>2
  <1>4. uart \in Lines
    <2>1. <<12, 0>> \in [1 .. 2 -> Byte] /\ <<>> \in Seq(Byte)
      <3>1. 12 \in Byte /\ 0 \in Byte
        BY ByteIs
      <3> QED
        BY ONLY <3>1
    <2> QED
      BY <1>1, <1>2, <1>3, <2>1 DEF Lines
  <1>5. Types
    <2>1. Room(uart)
      <3>1. FIFO_SIZE \in Nat /\ 1 <= FIFO_SIZE
        BY UARTAssumption
      <3>2. Len(uart.tx) = 0 /\ Len(uart.shift) = 0
        BY ONLY <1>2
      <3>3. Len(uart.rx) <= FIFO_SIZE
        <4>1. ASSUME NEW byte, uart.rx = <<<<byte, "line">>>> PROVE Len(uart.rx) = 1
          BY ONLY <4>1
        <4>2. CASE uart.rx = <<>>
          BY ONLY <3>1, <4>2
        <4>3. CASE Len(uart.rx) = 1
          BY ONLY <3>1, <4>3
        <4> QED
          BY ONLY <1>2, <4>1, <4>2, <4>3
      <3> QED
        BY ONLY <3>1, <3>2, <3>3 DEF Room
    <2>2. wire \in Seq(Sent) /\ out \in Seq(Byte)
      BY <1>1
    <2> QED
      BY <1>4, <2>1, <2>2 DEF Types
  <1>6. todo = Left(1) /\ Registers(uart, 1) /\ todo # <<>>
    BY <1>1, Written DEF Registers
  <1>7. BeforeTest
    BY <1>1, <1>2, <1>3, <1>6 DEF BeforeTest, Underway, ComeRound
  <1> QED
    BY <1>1, <1>5, <1>6, <1>7 DEF LineInv

LEMMA LineStep ==
  LineInv /\ FormatInv /\ [Next]_vars => LineInv'
  <1> SUFFICES ASSUME LineInv, FormatInv, [Next]_vars PROVE LineInv'
    OBVIOUS
  <1>1. CASE Setup
    BY <1>1, WriteStep, LoopbackStep DEF Setup, init_com1
  <1>2. CASE Call
    <2>1. PICK c : CallFormat(c) \/ puts(c) \/ Compute(c)
      BY <1>2 DEF Call
    <2> QED
      BY <1>2, <2>1, BeginHandsNothing, QuietStep DEF Call
  <1>3. CASE printf
    BY <1>3, TurnHandsNothing, QuietStep, PrintStep DEF printf
  <1>4. CASE logf
    BY <1>4, TurnHandsNothing, QuietStep, SendStep DEF logf
  <1>5. CASE UART /\ UNCHANGED <<format, call, result>>
    BY <1>5, ShiftStep, TransmitStep DEF UART
  <1>6. CASE Receive /\ UNCHANGED <<format, call, result>>
    BY <1>6, ReceiveStep
  <1>7. CASE UNCHANGED vars
    BY <1>7, QuietStep DEF vars, format
  <1> QED
    BY <1>1, <1>2, <1>3, <1>4, <1>5, <1>6, <1>7 DEF Next, Kernel

(***************************************************************************)
(* The inductive invariant: init_com1's writes leave the UART as its test  *)
(* needs it, what comes round is the byte of the test alone, and after it  *)
(* line, shift register and queue make up what logf has handed over.       *)
(***************************************************************************)
THEOREM LineInductive == Spec => []LineInv
  <1> QED
    BY InitLine, LineStep, FormatHolds, PTL DEF Spec

\* What begins three texts in a row is a prefix of them.
LEMMA BeginsThree ==
  ASSUME NEW S, NEW a \in Seq(S), NEW b \in Seq(S), NEW c \in Seq(S)
  PROVE  IsPrefix(a, a \o b \o c)
  <1>1. (a \o b) \o c = a \o (b \o c)
    BY ConcatAssociative
  <1>2. b \o c \in Seq(S)
    BY ConcatProperties
  <1> QED
    BY <1>1, <1>2, PrefixOf

(***************************************************************************)
(* Nothing of init_com1 leaks on the line, and once its test has read its  *)
(* own byte every character com1_send is given is on the line or on its    *)
(* way, in order and at the right rate.                                    *)
(***************************************************************************)
THEOREM NothingIsLost == Spec => []OnTheLine
  <1>1. ASSUME LineInv PROVE OnTheLine
    <2>1. Types
      BY <1>1 DEF LineInv
    <2>2. /\ uart.tx \in Seq(Sent) /\ uart.shift \in Seq(Sent)
          /\ wire \in Seq(Sent) /\ out \in Seq(Byte)
      <3>1. uart \in Lines /\ wire \in Seq(Sent) /\ out \in Seq(Byte)
        BY <2>1 DEF Types
      <3> QED
        BY <3>1, Fields, ByteIs
    <2>3. Connected /\ call.fn = "logf" => wire \o uart.shift \o uart.tx = out
      <3>1. Connected => test # Untested /\ test = Answer
        BY DEF Connected, Untested, Answer, TestByte
      <3> QED
        BY <1>1, <3>1 DEF LineInv, AfterTest
    <2>4. IsPrefix(<<>>, out)
      <3>1. IsPrefix(<<>>, <<>> \o out)
        <4>1. <<>> \in Seq(Byte)
          OBVIOUS
        <4> QED
          BY <2>2, <4>1, PrefixOf
      <3>2. <<>> \o out = out
        BY <2>2, ConcatEmptySeq
      <3> QED
        BY <3>1, <3>2
    <2>5. IsPrefix(wire, wire \o uart.shift \o uart.tx)
      BY <2>2, BeginsThree
    <2>6. test[2] # "line" => IsPrefix(wire, out)
      <3>1. CASE test = Untested
        BY <1>1, <2>4, <3>1 DEF LineInv, BeforeTest
      <3>2. CASE test # Untested /\ test = Answer
        BY <1>1, <2>4, <2>5, <3>2 DEF LineInv, AfterTest
      <3>3. CASE test # Untested /\ test = Nothing
        BY <1>1, <2>4, <3>3 DEF LineInv, AfterTest
      <3> QED
        BY <1>1, <3>1, <3>2, <3>3 DEF LineInv, AfterTest
    <2> QED
      BY <2>3, <2>6 DEF OnTheLine
  <1> QED
    BY <1>1, LineInductive, PTL

(***************************************************************************)
(* The UART's registers are bytes and its queues hold no more than they    *)
(* can; the formatter's counters stay within an int, and it hands over     *)
(* bytes.                                                                  *)
(***************************************************************************)
THEOREM LogTypes == Spec => []TypeOK
  <1>1. ASSUME LineInv, FormatInv PROVE TypeOK
    <2>1. Types /\ FormatTypes
      BY <1>1 DEF LineInv, FormatInv
    <2>2. /\ uart.dlab \in BOOLEAN /\ uart.divisor \in [1 .. 2 -> Byte]
          /\ uart.loop \in BOOLEAN
          /\ uart.tx \in Seq(Byte) /\ uart.shift \in Seq(Byte)
          /\ uart.rx \in Seq(Byte \X {"line", "loop"})
      BY <2>1, Fields DEF Types
    <2>3. uart.divisor \in Byte \X Byte
      BY <2>2
    <2>4. uart = [dlab |-> uart.dlab, divisor |-> uart.divisor, loop |-> uart.loop,
                  tx |-> uart.tx, shift |-> uart.shift, rx |-> uart.rx]
      BY <2>1 DEF Types, Lines
    <2>5. uart \in [dlab : BOOLEAN, divisor : Byte \X Byte, loop : BOOLEAN,
                    tx : Seq(Byte), shift : Seq(Byte),
                    rx : Seq(Byte \X {"line", "loop"})]
      BY <2>2, <2>3, <2>4
    <2>6. Sent = -1 .. 255
      BY ByteIs DEF Sent
    <2>7. UARTTypeOK
      BY <2>1, <2>5, <2>6, ByteIs DEF UARTTypeOK, Types, Room
    <2> QED
      BY <2>1, <2>7 DEF TypeOK, FormatTypes
  <1> QED
    BY <1>1, LineInductive, FormatHolds, PTL

=============================================================================
