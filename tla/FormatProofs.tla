---------------------------- MODULE FormatProofs ----------------------------
(***************************************************************************)
(* Theorems about what the kernel writes with printf, logf and puts, and   *)
(* about the functions of libc it calls: for every format, every number    *)
(* and every text, with integers of any size up to 32 bits.                *)
(***************************************************************************)
EXTENDS Log, LibcProofs

-----------------------------------------------------------------------------
(***************************************************************************)
(* What C says of a conversion                                             *)
(***************************************************************************)

\* What an int or an unsigned long holds.
Number == 0 .. (WIDTH - 1)

\* The digits of a number that is not 0, the highest first.
LEMMA NumeralIs ==
  ASSUME NEW r \in Radix, NEW n \in Number
  PROVE  Numeral(n, r) = IF n = 0 THEN <<Digit(0)>> ELSE Reverse(LowFirst(n, r))
  <1> DEFINE K == {k \in 1 .. BITS : n < Power(r, k)}
  <1>0. r \in Nat /\ r >= 2 /\ BITS \in Nat /\ BITS >= 1 /\ n \in Nat /\ WIDTH \in Nat
    BY Widths DEF Radix, Number
  <1>p. \A k \in Nat : Power(r, k) \in Nat /\ Power(r, k) >= 1
    BY <1>0, PowerIs, PowersGrow
  <1>q. Power(r, 0) = 1 BY <1>0, PowerIs
  <1>K. K \in SUBSET Int BY <1>0
  <1>1. CASE n = 0
    <2>1. 1 \in K
      <3>1. 1 \in 1 .. BITS /\ Power(r, 1) >= 1 BY <1>0, <1>p
      <3> QED BY <3>1, <1>1, <1>p
    <2>2. \A k \in K : 1 <= k OBVIOUS
    <2>3. Min(K) = 1
      <3> HIDE DEF K
      <3> QED BY <2>1, <2>2, <1>K, LeastIs
    <2>4. Numeral(n, r) = [k \in 1 .. 1 |-> Digit((n \div Power(r, 1 - k)) % r)]
      BY <2>3, Zenon DEF Numeral
    <2>5. \A k \in 1 .. 1 : Digit((n \div Power(r, 1 - k)) % r) = Digit(0)
      <3> TAKE k \in 1 .. 1
      <3>1. 1 - k = 0 /\ Power(r, 1 - k) = 1 BY <1>q
      <3>2. (n \div 1) % r = 0 BY <1>1, <1>0
      <3> QED BY <3>1, <3>2
    <2>6. Numeral(n, r) = <<Digit(0)>>
      <3> DEFINE z == Digit(0)
      <3> HIDE DEF z
      <3>1. [k \in 1 .. 1 |-> z] = <<z>> OBVIOUS
      <3> QED BY <3>1, <2>4, <2>5 DEF z
    <2> QED BY <2>6, <1>1
  <1>2. CASE n # 0
    <2> DEFINE s == LowFirst(n, r)
               L == Len(s)
    <2>1. /\ L >= 1
          /\ Power(r, L - 1) <= n /\ n < Power(r, L)
          /\ \A j \in 1 .. L : s[j] = Digit((n \div Power(r, j - 1)) % r)
      BY <1>0, <1>2, LowFirstDigits
    <2>2. s \in Seq(Byte \ {0}) /\ L \in Nat BY <1>0, LowFirstIs, LenProperties
    <2> HIDE DEF s
    <2>g. \A j, k \in Nat : j < k => Power(r, j) < Power(r, k) BY <1>0, PowersGrow
    <2>3. \A k \in Nat : n < Power(r, k) => L <= k
      <3> SUFFICES ASSUME NEW k \in Nat, n < Power(r, k), k <= L - 1 PROVE FALSE
        BY <2>2
      <3>1. L - 1 \in Nat BY <2>1, <2>2
      <3>2. k = L - 1 \/ k < L - 1 BY <3>1
      <3>3. k = L - 1 \/ Power(r, k) < Power(r, L - 1) BY <3>1, <3>2, <2>g
      <3>4. Power(r, k) \in Nat /\ Power(r, L - 1) \in Nat BY <3>1, <1>p
      <3>5. Power(r, L - 1) <= n BY <2>1
      <3> QED BY ONLY <3>3, <3>4, <3>5, <1>0, n < Power(r, k)
    <2>4. L <= BITS
      <3>1. n < Power(2, BITS) BY <1>0 DEF Number, WIDTH
      <3>2. Power(2, BITS) <= Power(r, BITS) BY <1>0, PowersGrow
      <3>3. Power(2, BITS) \in Nat BY <1>0, Twos
      <3>4. n < Power(r, BITS) BY <3>1, <3>2, <3>3, <1>p, <1>0
      <3> QED BY <3>4, <2>3, <1>0
    <2>5. Min(K) = L
      <3>1. L \in K BY <2>1, <2>2, <2>4, <1>0
      <3>2. \A k \in K : L <= k BY <2>3
      <3> HIDE DEF K
      <3> QED BY <3>1, <3>2, <1>K, LeastIs
    <2>6. Numeral(n, r) = [k \in 1 .. L |-> Digit((n \div Power(r, L - k)) % r)]
      BY <2>5, Zenon DEF Numeral
    <2>7. Reverse(s) = [k \in 1 .. L |-> s[(L - k) + 1]]
      BY Zenon DEF Reverse
    <2>8. \A k \in 1 .. L : s[(L - k) + 1] = Digit((n \div Power(r, L - k)) % r)
      <3> TAKE k \in 1 .. L
      <3>1. (L - k) + 1 \in 1 .. L /\ ((L - k) + 1) - 1 = L - k BY <2>2
      <3> QED BY <3>1, <2>1
    <2> HIDE DEF L
    <2>9. Numeral(n, r) = Reverse(s) BY <2>6, <2>7, <2>8
    <2> QED BY <2>9, <1>2 DEF s
  <1> QED BY <1>1, <1>2

\* A sequence turned round.
LEMMA ReverseIs ==
  ASSUME NEW S, NEW s \in Seq(S)
  PROVE  Reverse(s) \in Seq(S) /\ Len(Reverse(s)) = Len(s)
  <1>1. Len(s) \in Nat /\ \A k \in 1 .. Len(s) : s[(Len(s) - k) + 1] \in S
    <2>1. Len(s) \in Nat /\ \A k \in 1 .. Len(s) : s[k] \in S OBVIOUS
    <2>2. \A k \in 1 .. Len(s) : (Len(s) - k) + 1 \in 1 .. Len(s) BY <2>1
    <2> QED BY <2>1, <2>2
  <1> QED BY <1>1 DEF Reverse

\* A negative number in decimal has a minus and the digits of its negation.
LEMMA SignedIs ==
  ASSUME NEW n \in Number
  PROVE  /\ Signed(n) \in Int
         /\ Signed(n) < 0 => /\ n # 0
                             /\ -Signed(n) = (0 - n) % WIDTH
                             /\ (0 - n) % WIDTH \in Number
  <1>0. WIDTH \in Nat /\ WIDTH >= 2 /\ n \in Nat /\ n < WIDTH BY Widths DEF Number
  <1>1. Signed(n) < 0 => Signed(n) = n - WIDTH /\ n # 0 BY <1>0 DEF Signed
  <1>2. n # 0 => (0 - n) % WIDTH = WIDTH - n
    <2> SUFFICES ASSUME n # 0 PROVE (0 - n) % WIDTH = WIDTH - n OBVIOUS
    <2>1. 0 - n = WIDTH * (-1) + (WIDTH - n) /\ WIDTH - n \in 0 .. (WIDTH - 1) BY <1>0
    <2> QED BY <2>1, <1>0
  <1> QED BY <1>0, <1>1, <1>2 DEF Signed, Number

\* printf converts each parameter to what C says of its conversion.
THEOREM ConvertedIs ==
  ASSUME NEW letter \in Conversions, NEW param \in Parameter
  PROVE  /\ Converted(letter, param) = Said(letter, param)
         /\ Said(letter, param) \in Seq(Byte)
  <1> USE DEF CharC, CharS, CharD, CharX, CharO
  <1>0. param.n \in Number /\ param.s \in Texts BY DEF Parameter, Number
  <1>1. 8 \in Radix /\ 10 \in Radix /\ 16 \in Radix BY DEF Radix
  <1>2. ASSUME NEW r \in Radix, NEW n \in Number
        PROVE  Numeral(n, r) \in Seq(Byte)
    <2>1. n \in Nat BY Widths DEF Number
    <2>2. LowFirst(n, r) \in Seq(Byte)
      <3>1. LowFirst(n, r) \in Seq(Byte \ {0}) BY <2>1, LowFirstIs
      <3> QED BY <3>1
    <2>3. <<Digit(0)>> \in Seq(Byte)
      <3>1. Digit(0) \in Byte BY DEF Digit, Byte, BYTE
      <3> QED BY <3>1
    <2> QED BY <2>2, <2>3, NumeralIs, ReverseIs
  <1>3. ASSUME NEW r \in {8, 16} PROVE itoa(param.n, r) = Numeral(param.n, r)
    BY <1>0, <1>1, NumeralIs DEF itoa
  <1>4. CASE letter = CharC
    <2>1. Signed(param.n) \in Int BY <1>0, SignedIs
    <2>2. Signed(param.n) % BYTE \in Byte BY <2>1 DEF BYTE, Byte
    <2>3. <<Signed(param.n) % BYTE>> \in Seq(Byte) BY <2>2
    <2> QED BY <2>3, <1>4 DEF Converted, Said
  <1>5. CASE letter = CharS
    <2>1. param.s \in Seq(Byte) BY <1>0 DEF Texts
    <2> QED BY <2>1, <1>5 DEF Converted, Said
  <1>6. CASE letter = CharX BY <1>6, <1>0, <1>1, <1>2, <1>3 DEF Converted, Said
  <1>7. CASE letter = CharO BY <1>7, <1>0, <1>1, <1>2, <1>3 DEF Converted, Said
  <1>8. CASE letter = CharD
    <2> DEFINE n == param.n
               m == (0 - n) % WIDTH
    <2>1. CASE Signed(n) < 0
      <3>1. n # 0 /\ -Signed(n) = m /\ m \in Number BY <1>0, <2>1, SignedIs
      <3>2. m # 0 BY <2>1, <3>1, <1>0, SignedIs
      <3>3. itoa(n, 10) = <<Minus>> \o Reverse(LowFirst(m, 10)) BY <2>1, <3>1 DEF itoa
      <3>4. Numeral(m, 10) = Reverse(LowFirst(m, 10)) BY <3>1, <3>2, <1>1, NumeralIs
      <3>5. Numeral(m, 10) \in Seq(Byte) BY <3>1, <1>1, <1>2
      <3>6. <<Minus>> \in Seq(Byte) BY DEF Minus, Byte, BYTE
      <3>7. Said(letter, param) = <<Minus>> \o Numeral(m, 10)
        BY <1>8, <2>1, <3>1 DEF Said
      <3>8. Converted(letter, param) = itoa(n, 10) BY <1>8 DEF Converted
      <3> QED BY <3>3, <3>4, <3>5, <3>6, <3>7, <3>8, ConcatProperties
    <2>2. CASE ~(Signed(n) < 0)
      <3>1. itoa(n, 10) = Numeral(n, 10) BY <2>2, <1>0, <1>1, NumeralIs DEF itoa
      <3>2. Said(letter, param) = Numeral(n, 10) BY <1>8, <2>2 DEF Said
      <3>3. Converted(letter, param) = itoa(n, 10) BY <1>8 DEF Converted
      <3> QED BY <3>1, <3>2, <3>3, <1>0, <1>1, <1>2
    <2> QED BY <2>1, <2>2
  <1> QED BY <1>4, <1>5, <1>6, <1>7, <1>8 DEF Conversions
-----------------------------------------------------------------------------
(***************************************************************************)
(* The text a format stands for, from each of its characters on            *)
(***************************************************************************)

\* A caller passes as many parameters as the format asks for.
Asked(f, a) ==
  /\ f \in Texts
  /\ a \in Seq(Parameter)
  /\ Cardinality(ConversionsOf(f)) <= Len(a)

\* p says what the format stands for from each of its characters on.
Renders(f, a, p) ==
  /\ Rendered(f, a) = p[1]
  /\ p[Len(f) + 1] = <<>>
  /\ \A i \in 1 .. Len(f) :
       p[i] = Piece(f, a, i).says \o p[Piece(f, a, i).next]

\* A character says something, and the format goes on behind it.
LEMMA PieceIs ==
  ASSUME NEW f \in Texts, NEW a, NEW i \in 1 .. Len(f)
  PROVE  LET next == IF i < Len(f) THEN f[i + 1] ELSE 0
             argument == a[Cardinality(ConversionsOf(f) \cap (1 .. i))]
             piece == Piece(f, a, i)
         IN /\ f[i] # Percent => piece.says = <<f[i]>> /\ piece.next = i + 1
            /\ f[i] = Percent /\ next = Percent =>
                 piece.says = <<Percent>> /\ piece.next = i + 2
            /\ f[i] = Percent /\ next \in Conversions =>
                 piece.says = Said(next, argument) /\ piece.next = i + 2
            /\ f[i] = Percent /\ next \notin Conversions \cup {Percent} =>
                 piece.says = SubSeq(f, i + 1, Len(f)) /\ piece.next = Len(f) + 1
            /\ piece.next \in (i + 1) .. (Len(f) + 1)
  <1> DEFINE next == IF i < Len(f) THEN f[i + 1] ELSE 0
             argument == a[Cardinality(ConversionsOf(f) \cap (1 .. i))]
             piece == Piece(f, a, i)
  <1>0. Len(f) \in Nat /\ i \in Nat /\ i <= Len(f) BY LenProperties DEF Texts
  <1>1. Percent \notin Conversions /\ 0 \notin Conversions /\ Percent # 0
    BY DEF Percent, Conversions, CharC, CharS, CharD, CharX, CharO
  <1>2. next = Percent \/ next \in Conversions => i + 1 <= Len(f) BY <1>0, <1>1
  <1>p. piece = CASE f[i] # Percent -> [says |-> <<f[i]>>, next |-> i + 1]
                  [] f[i] = Percent /\ next = Percent ->
                       [says |-> <<Percent>>, next |-> i + 2]
                  [] f[i] = Percent /\ next \in Conversions ->
                       [says |-> Said(next, argument), next |-> i + 2]
                  [] f[i] = Percent /\ next \notin Conversions \cup {Percent} ->
                       [says |-> SubSeq(f, i + 1, Len(f)), next |-> Len(f) + 1]
    BY Zenon DEF Piece
  <1> HIDE DEF next, piece
  <1>3. CASE f[i] # Percent
    <2>1. piece = [says |-> <<f[i]>>, next |-> i + 1] BY <1>3, <1>p
    <2> QED BY <2>1, <1>3, <1>0 DEF next, piece
  <1>4. CASE f[i] = Percent /\ next = Percent
    <2>1. piece = [says |-> <<Percent>>, next |-> i + 2] BY <1>4, <1>1, <1>p
    <2> QED BY <2>1, <1>4, <1>0, <1>1, <1>2 DEF next, piece
  <1>5. CASE f[i] = Percent /\ next \in Conversions
    <2>1. next # Percent BY <1>1, <1>5
    <2>2. piece = [says |-> Said(next, argument), next |-> i + 2] BY <2>1, <1>5, <1>p
    <2> HIDE DEF argument, piece
    <2>3. piece.says = Said(next, argument) /\ piece.next = i + 2 BY <2>2
    <2>4. i + 2 \in (i + 1) .. (Len(f) + 1) BY <1>0, <1>2, <1>5
    <2> QED BY <2>1, <2>3, <2>4, <1>5 DEF next, argument, piece
  <1>6. CASE f[i] = Percent /\ next \notin Conversions \cup {Percent}
    <2>1. piece = [says |-> SubSeq(f, i + 1, Len(f)), next |-> Len(f) + 1]
      BY <1>6, <1>p
    <2> QED BY <2>1, <1>6, <1>0 DEF next, piece
  <1> QED BY <1>3, <1>4, <1>5, <1>6

\* A conversion says what its parameter stands for.
LEMMA PieceConverts ==
  ASSUME NEW f \in Texts, NEW a, NEW i \in 1 .. (Len(f) - 1),
         f[i] = Percent, f[i + 1] \in Conversions
  PROVE  /\ Piece(f, a, i).says =
              Said(f[i + 1], a[Cardinality(ConversionsOf(f) \cap (1 .. i))])
         /\ Piece(f, a, i).next = i + 2
  <1>1. Len(f) \in Nat BY LenProperties DEF Texts
  <1>2. i < Len(f) /\ i \in 1 .. Len(f) BY <1>1
  <1>3. (IF i < Len(f) THEN f[i + 1] ELSE 0) = f[i + 1] BY ONLY <1>2
  <1>4. (IF i < Len(f) THEN f[i + 1] ELSE 0) \in Conversions
    BY ONLY <1>3, f[i + 1] \in Conversions
  <1>5. /\ Piece(f, a, i).says =
             Said(IF i < Len(f) THEN f[i + 1] ELSE 0,
                  a[Cardinality(ConversionsOf(f) \cap (1 .. i))])
        /\ Piece(f, a, i).next = i + 2
    BY ONLY <1>2, <1>4, f \in Texts, f[i] = Percent, PieceIs, Zenon
  <1> QED BY ONLY <1>3, <1>5

\* The text from each character on exists, and the whole is that from the
\* first.
LEMMA RenderedIs ==
  ASSUME NEW f \in Texts, NEW a
  PROVE  \E p : Renders(f, a, p)
  <1> DEFINE X == 1 .. (Len(f) + 1)
             At(g, i) == IF i > Len(f) THEN <<>>
                         ELSE Piece(f, a, i).says \o g[Piece(f, a, i).next]
             p == CHOOSE g : g = [i \in X |->
                    IF i > Len(f) THEN <<>>
                    ELSE Piece(f, a, i).says \o g[Piece(f, a, i).next]]
             mu(i) == (Len(f) + 1) - i
             Good(g, n) == \A i \in X : mu(i) < n => g[i] = At(g, i)
             S == {n \in Nat : \E g : Good(g, n)}
  <1>0. Len(f) \in Nat BY LenProperties DEF Texts
  <1>1. Rendered(f, a) = p[1]
    BY Zenon DEF Rendered
  <1>2. ASSUME NEW g, NEW h, NEW i \in X, \A j \in X : mu(j) < mu(i) => g[j] = h[j]
        PROVE  At(g, i) = At(h, i)
    <2>1. CASE i > Len(f) BY <2>1, <1>0
    <2>2. CASE ~(i > Len(f))
      <3> DEFINE k == Piece(f, a, i).next
      <3>1. i \in 1 .. Len(f) BY <2>2, <1>0
      <3>2. k \in (i + 1) .. (Len(f) + 1) BY <3>1, PieceIs
      <3> HIDE DEF k
      <3>3. k \in X /\ mu(k) < mu(i) BY <3>1, <3>2, <1>0
      <3>4. g[k] = h[k] BY <3>3, <1>2
      <3> QED BY <3>4, Zenon DEF k
    <2> QED BY <2>1, <2>2
  <1>3. Nat \subseteq S
    <2>1. 0 \in S
      <3>1. Good([i \in X |-> 0], 0) BY <1>0
      <3> HIDE DEF Good
      <3> QED BY <3>1
    <2>2. ASSUME NEW n \in Nat, n \in S PROVE n + 1 \in S
      <3>1. PICK g : Good(g, n) BY <2>2
      <3> HIDE DEF At
      <3> DEFINE h == [i \in X |-> At(g, i)]
      <3>2. \A i \in X : mu(i) < n => h[i] = g[i] BY <3>1
      <3>3. ASSUME NEW i \in X, mu(i) < n + 1 PROVE h[i] = At(h, i)
        <4>1. ASSUME NEW j \in X, mu(j) < mu(i) PROVE g[j] = h[j]
          <5>1. mu(j) < n BY <1>0, <3>3, <4>1
          <5> HIDE DEF mu, h
          <5> QED BY <5>1, <3>2
        <4>2. h[i] = At(g, i) OBVIOUS
        <4> HIDE DEF mu, h
        <4> QED BY <4>1, <4>2, <1>2
      <3> HIDE DEF h, mu
      <3>4. Good(h, n + 1) BY <3>3
      <3> HIDE DEF Good
      <3> QED BY <3>4
    <2> HIDE DEF S
    <2> QED BY <2>1, <2>2, Induction, Zenon
  <1>4. PICK g : Good(g, Len(f) + 1)
    <2>1. Len(f) + 1 \in S BY <1>0, <1>3
    <2> HIDE DEF Good
    <2> QED BY <2>1
  <1> DEFINE h == [i \in X |-> g[i]]
  <1>5. h = [i \in X |-> At(h, i)]
    <2> HIDE DEF At
    <2>1. \A i \in X : h[i] = g[i] OBVIOUS
    <2>2. \A i \in X : mu(i) < Len(f) + 1 BY <1>0
    <2>3. ASSUME NEW i \in X PROVE h[i] = At(h, i)
      <3>1. g[i] = At(g, i) BY <1>4, <2>2
      <3> HIDE DEF h, mu
      <3>2. At(g, i) = At(h, i) BY <1>2, <2>1
      <3> QED BY <3>1, <3>2, <2>1
    <2>4. h = [i \in X |-> h[i]] OBVIOUS
    <2> HIDE DEF h
    <2> QED BY <2>3, <2>4
  <1> HIDE DEF h
  <1>6. p = [i \in X |-> At(p, i)] BY <1>5, Zenon
  <1> HIDE DEF p
  <1>7. \A i \in X : p[i] = At(p, i)
    <2> HIDE DEF At
    <2> QED BY <1>6
  <1>8. p[Len(f) + 1] = <<>> BY <1>0, <1>7
  <1>9. \A i \in 1 .. Len(f) : p[i] = Piece(f, a, i).says \o p[Piece(f, a, i).next]
    <2> SUFFICES ASSUME NEW i \in 1 .. Len(f)
        PROVE  p[i] = Piece(f, a, i).says \o p[Piece(f, a, i).next]
      BY Zenon
    <2>1. i \in X /\ ~(i > Len(f)) BY <1>0
    <2> QED BY <2>1, <1>7, Zenon
  <1> QED BY <1>1, <1>8, <1>9, Zenon DEF Renders

\* How many parameters the conversions before a character use.
Used(f, i) == Cardinality(ConversionsOf(f) \cap (1 .. (i - 1)))

\* Where the loop may be: no turn begins with the second % of a pair.
Place(f, i) == i \in 1 .. (Len(f) + 1) /\ (i = Len(f) + 1 \/ Begins(f, i))

\* Where a turn may begin, from one character to the next.
LEMMA BeginsNext ==
  ASSUME NEW f \in Texts
  PROVE  /\ Begins(f, 1)
         /\ \A i \in 1 .. Len(f) : f[i] # Percent => Begins(f, i + 1)
         /\ \A i \in 1 .. (Len(f) - 1) :
              Begins(f, i) /\ f[i] = Percent /\ f[i + 1] = Percent =>
                Begins(f, i + 2) /\ ~Begins(f, i + 1)
  <1>0. Len(f) \in Nat BY LenProperties DEF Texts
  <1>1. Begins(f, 1)
    <2>1. 1 \in 1 .. 1 /\ (1 - 1) % 2 = 0 /\ 1 .. (1 - 1) = {} /\ ~(1 > 1) OBVIOUS
    <2> QED BY <2>1 DEF Begins
  <1>2. ASSUME NEW i \in 1 .. Len(f), f[i] # Percent PROVE Begins(f, i + 1)
    <2> DEFINE j == i + 1
    <2>1. /\ j \in 1 .. j /\ (j - j) % 2 = 0
          /\ j .. (j - 1) = {} /\ f[j - 1] # Percent
      BY <1>0, <1>2
    <2>2. Begins(f, j) BY <2>1, Zenon DEF Begins
    <2> QED BY <2>2
  <1>3. ASSUME NEW i \in 1 .. (Len(f) - 1), Begins(f, i), f[i] = Percent, f[i + 1] = Percent
        PROVE  Begins(f, i + 2) /\ ~Begins(f, i + 1)
    <2>1. PICK j \in 1 .. i : /\ (i - j) % 2 = 0
                              /\ \A m \in j .. (i - 1) : f[m] = Percent
                              /\ j > 1 => f[j - 1] # Percent
      BY <1>3 DEF Begins
    <2>2. Begins(f, i + 2)
      <3>1. j \in 1 .. (i + 2) /\ ((i + 2) - j) % 2 = 0
        <4>1. (i + 2) - j = (i - j) + 2 /\ i - j \in Nat BY <2>1
        <4> QED BY <2>1, <4>1
      <3>2. \A m \in j .. ((i + 2) - 1) : f[m] = Percent
        <4>1. \A m \in j .. ((i + 2) - 1) : m \in j .. (i - 1) \/ m = i \/ m = i + 1 OBVIOUS
        <4> QED BY <4>1, <2>1, <1>3
      <3> QED BY <3>1, <3>2, <2>1 DEF Begins
    <2>3. ~Begins(f, i + 1)
      <3> SUFFICES ASSUME NEW k \in 1 .. (i + 1), ((i + 1) - k) % 2 = 0,
                          \A m \in k .. ((i + 1) - 1) : f[m] = Percent,
                          k > 1 => f[k - 1] # Percent
          PROVE  FALSE
        BY DEF Begins
      <3>1. k # i + 1 BY <1>3
      <3>2. ~(k < j)
        <4> SUFFICES ASSUME k < j PROVE FALSE OBVIOUS
        <4>1. j - 1 \in k .. ((i + 1) - 1) /\ j > 1 BY <2>1
        <4> QED BY <4>1, <2>1
      <3>3. ~(j < k)
        <4> SUFFICES ASSUME j < k PROVE FALSE OBVIOUS
        <4>1. k - 1 \in j .. (i - 1) /\ k > 1 BY <3>1, <2>1
        <4> QED BY <4>1, <2>1
      <3>4. k = j BY <3>2, <3>3
      <3>5. (i + 1) - k = (i - j) + 1 /\ i - j \in Nat BY <3>4
      <3>6. ((i - j) + 1) % 2 = 1 BY <2>1, <3>5
      <3> QED BY <3>5, <3>6
    <2> QED BY <2>2, <2>3
  <1> QED BY <1>1, <1>2, <1>3

\* The parameters used before a character.
LEMMA UsedIs ==
  ASSUME NEW f \in Texts
  PROVE  /\ Cardinality(ConversionsOf(f)) \in Nat
         /\ Used(f, 1) = 0
         /\ \A i \in 1 .. (Len(f) + 1) :
              /\ Used(f, i) \in Nat
              /\ Used(f, i) <= Cardinality(ConversionsOf(f))
         /\ \A i \in 1 .. Len(f) :
              Used(f, i + 1) = Used(f, i) + IF i \in ConversionsOf(f) THEN 1 ELSE 0
         /\ \A i, k \in 1 .. (Len(f) + 1) :
              i <= k /\ (\A m \in i .. (k - 1) : m \notin ConversionsOf(f)) =>
                Used(f, k) = Used(f, i)
  <1> DEFINE C == ConversionsOf(f)
  <1>0. Len(f) \in Nat BY LenProperties DEF Texts
  <1>1. C \subseteq 1 .. Len(f) BY <1>0 DEF ConversionsOf
  <1>2. IsFiniteSet(C)
    <2>1. IsFiniteSet(1 .. Len(f)) BY <1>0, FS_Interval
    <2> QED BY <1>1, <2>1, FS_Subset
  <1> HIDE DEF C
  <1>3. \A i : IsFiniteSet(C \cap (1 .. (i - 1))) BY <1>2, FS_Subset
  <1>4. \A i : Used(f, i) \in Nat /\ Used(f, i) <= Cardinality(C)
    BY <1>2, <1>3, FS_CardinalityType, FS_Subset DEF Used, C
  <1>5. ASSUME NEW i \in 1 .. Len(f)
        PROVE  Used(f, i + 1) = Used(f, i) + IF i \in C THEN 1 ELSE 0
    <2> DEFINE B == C \cap (1 .. (i - 1))
               A == C \cap (1 .. ((i + 1) - 1))
    <2>1. CASE i \in C
      <3>1. A = B \cup {i} /\ i \notin B BY <2>1
      <3> HIDE DEF A, B
      <3>2. IsFiniteSet(B) BY <1>3 DEF B
      <3>3. Cardinality(A) = Cardinality(B) + 1 BY <3>1, <3>2, FS_AddElement
      <3> QED BY <3>3, <2>1 DEF A, B, Used, C
    <2>2. CASE i \notin C
      <3>1. A = B BY <2>2
      <3>2. Used(f, i + 1) = Used(f, i) BY <3>1 DEF Used, C
      <3> QED BY <3>2, <2>2, <1>4
    <2> QED BY <2>1, <2>2
  <1>6. ASSUME NEW i \in 1 .. (Len(f) + 1), NEW k \in 1 .. (Len(f) + 1), i <= k,
               \A m \in i .. (k - 1) : m \notin C
        PROVE  Used(f, k) = Used(f, i)
    <2>1. C \cap (1 .. (k - 1)) = C \cap (1 .. (i - 1)) BY <1>6, <1>0
    <2> QED BY <2>1 DEF Used, C
  <1>7. Used(f, 1) = 0
    <2>1. C \cap (1 .. (1 - 1)) = {} OBVIOUS
    <2> QED BY <2>1, FS_EmptySet DEF Used, C
  <1>8. Cardinality(C) \in Nat BY <1>2, FS_CardinalityType
  <1> QED BY <1>4, <1>5, <1>6, <1>7, <1>8 DEF C

\* The format has its parameters, and p says what it stands for.
Known(f, a, p) == Asked(f, a) /\ Renders(f, a, p)

\* What the format stands for from where a turn begins on.
LEMMA PlaceIs ==
  ASSUME NEW f, NEW a, NEW p, Known(f, a, p)
  PROVE  \A i \in 1 .. (Len(f) + 1) : Place(f, i) => p[i] \in Seq(Byte)
  <1>0. /\ f \in Texts /\ a \in Seq(Parameter) /\ Len(f) \in Nat /\ Len(a) \in Nat
        /\ Cardinality(ConversionsOf(f)) <= Len(a)
    BY LenProperties DEF Known, Asked, Texts
  <1>f. \A i \in 1 .. Len(f) : f[i] \in Byte BY <1>0 DEF Texts
  <1> DEFINE X == 1 .. (Len(f) + 1)
             mu == [i \in X |-> (Len(f) + 1) - i]
             S == {i \in X : Place(f, i) => p[i] \in Seq(Byte)}
  <1>1. ASSUME NEW i \in X, \A j \in X : mu[j] < mu[i] => j \in S PROVE i \in S
    <2> SUFFICES ASSUME Place(f, i) PROVE p[i] \in Seq(Byte) OBVIOUS
    <2>1. CASE i = Len(f) + 1
      <3>1. p[i] = <<>> BY <2>1 DEF Known, Renders
      <3> QED BY <3>1
    <2>2. CASE i # Len(f) + 1
      <3> DEFINE t == Piece(f, a, i).says
                 k == Piece(f, a, i).next
                 next == IF i < Len(f) THEN f[i + 1] ELSE 0
                 argument == a[Cardinality(ConversionsOf(f) \cap (1 .. i))]
      <3>0. i \in 1 .. Len(f) /\ Begins(f, i) BY <2>2, <1>0 DEF Place
      <3>1. p[i] = t \o p[k] BY <3>0 DEF Known, Renders
      <3>2. /\ f[i] # Percent => t = <<f[i]>> /\ k = i + 1
            /\ f[i] = Percent /\ next = Percent =>
                 t = <<Percent>> /\ k = i + 2
            /\ f[i] = Percent /\ next \in Conversions =>
                 t = Said(next, argument) /\ k = i + 2
            /\ f[i] = Percent /\ next \notin Conversions \cup {Percent} =>
                 t = SubSeq(f, i + 1, Len(f)) /\ k = Len(f) + 1
            /\ k \in (i + 1) .. (Len(f) + 1)
        BY <1>0, <3>0, PieceIs, Zenon
      <3> HIDE DEF t, k, next, argument
      <3>3. Percent # 0 /\ 0 \notin Conversions /\ Percent \notin Conversions /\ Percent \in Byte
        BY DEF Percent, Conversions, CharC, CharS, CharD, CharX, CharO, Byte, BYTE
      <3>4. t \in Seq(Byte) /\ Place(f, k)
        <4>1. CASE f[i] # Percent
          <5>1. <<f[i]>> \in Seq(Byte) BY <3>0, <1>f
          <5>2. Begins(f, i + 1) BY <4>1, <3>0, <1>0, BeginsNext
          <5>3. t = <<f[i]>> /\ k = i + 1 BY <3>2, <4>1, Zenon
          <5>4. t \in Seq(Byte) BY <5>1, <5>3, Zenon
          <5> QED BY <5>2, <5>3, <5>4, <3>2 DEF Place
        <4>2. CASE f[i] = Percent /\ next = Percent
          <5>1. i \in 1 .. (Len(f) - 1) /\ f[i + 1] = Percent
            BY <4>2, <3>0, <3>3, <1>0 DEF next
          <5>2. Begins(f, i + 2) BY <4>2, <5>1, <3>0, <1>0, BeginsNext
          <5>3. <<Percent>> \in Seq(Byte) BY <3>3
          <5>4. t = <<Percent>> /\ k = i + 2 BY <3>2, <4>2, Zenon
          <5>5. t \in Seq(Byte) BY <5>3, <5>4, Zenon
          <5> QED BY <5>2, <5>4, <5>5, <3>2 DEF Place
        <4>3. CASE f[i] = Percent /\ next \in Conversions
          <5>1. i \in 1 .. (Len(f) - 1) /\ f[i + 1] = next
            BY <4>3, <3>0, <3>3, <1>0 DEF next
          <5>2. i + 1 \in 1 .. Len(f) /\ f[i + 1] # Percent /\ (i + 1) + 1 = i + 2
            BY <5>1, <4>3, <3>3, <1>0
          <5>3. Begins(f, i + 2) BY <5>2, <1>0, BeginsNext
          <5>4. i \in ConversionsOf(f) BY <5>1, <4>3, <3>0 DEF ConversionsOf
          <5>5. Used(f, i + 1) = Used(f, i) + 1 /\ Used(f, i) \in Nat
            BY <5>4, <3>0, <1>0, UsedIs
          <5>6. Used(f, i + 1) <= Cardinality(ConversionsOf(f))
                /\ Cardinality(ConversionsOf(f)) \in Nat
            BY <5>2, <1>0, UsedIs
          <5>7. Used(f, i + 1) = Cardinality(ConversionsOf(f) \cap (1 .. i))
            BY DEF Used
          <5>8. Used(f, i + 1) \in 1 .. Len(a) BY <5>5, <5>6, <1>0
          <5>9. argument \in Parameter BY <5>7, <5>8, <1>0 DEF argument
          <5>10. Said(next, argument) \in Seq(Byte) BY <4>3, <5>9, ConvertedIs
          <5> QED BY <5>3, <5>10, <3>2, <4>3 DEF Place
        <4>4. CASE f[i] = Percent /\ next \notin Conversions \cup {Percent}
          <5>1. SubSeq(f, i + 1, Len(f)) \in Seq(Byte) BY <3>0, <1>0, <1>f
          <5>2. t = SubSeq(f, i + 1, Len(f)) /\ k = Len(f) + 1 BY <3>2, <4>4, Zenon
          <5>3. t \in Seq(Byte) BY <5>1, <5>2, Zenon
          <5> QED BY <5>2, <5>3, <1>0 DEF Place
        <4> QED BY <4>1, <4>2, <4>3, <4>4
      <3>5. k \in X /\ mu[k] < mu[i] BY <3>0, <3>2, <1>0
      <3>6. k \in S
        <4> HIDE DEF S, X, mu
        <4> QED BY <3>5, <1>1
      <3>7. p[k] \in Seq(Byte) BY <3>4, <3>6
      <3> QED BY <3>1, <3>4, <3>7, ConcatProperties
    <2> QED BY <2>1, <2>2
  <1>2. X \subseteq S
    <2>1. mu \in [X -> Nat] BY <1>0
    <2> HIDE DEF S, X, mu
    <2> QED BY <1>1, <2>1, MeasureInduction, Zenon
  <1> QED BY <1>2
-----------------------------------------------------------------------------
(***************************************************************************)
(* A turn of the loop                                                      *)
(***************************************************************************)

\* A plain text goes at least one character and ends before a further %.
LEMMA SubLengthIs ==
  ASSUME NEW t \in Texts, t # <<>>
  PROVE  /\ subLength(t) \in 1 .. Len(t)
         /\ \A m \in 2 .. subLength(t) : t[m] # Percent
  <1> DEFINE K == {k \in 2 .. Len(t) : t[k] = Percent} \cup {Len(t) + 1}
  <1>0. Len(t) \in Nat /\ Len(t) >= 1
    <2>1. Len(t) \in Nat /\ Len(t) # 0 BY EmptySeq, LenProperties DEF Texts
    <2> QED BY <2>1
  <1>1. K \in SUBSET Nat /\ K # {} /\ K \in SUBSET Int BY <1>0
  <1>2. PICK m \in K : \A k \in K : m <= k
    <2> HIDE DEF K
    <2> QED BY <1>1, Least
  <1>3. Min(K) = m
    <2> HIDE DEF K
    <2> QED BY <1>1, <1>2, LeastIs
  <1>4. subLength(t) = m - 1 BY <1>3, Zenon DEF subLength
  <1>5. m \in 2 .. (Len(t) + 1) BY <1>0
  <1>6. ASSUME NEW k \in 2 .. (m - 1), t[k] = Percent PROVE FALSE
    <2>1. k \in K BY <1>5, <1>6, <1>0
    <2>2. m <= k
      <3> HIDE DEF K
      <3> QED BY <2>1, <1>2
    <2> QED BY <2>2, <1>5
  <1> QED BY <1>0, <1>4, <1>5, <1>6

\* s is what f says from its i-th character on.
Suffix(s, f, i) == f \in Texts /\ i \in 1 .. Len(f) /\ s = SubSeq(f, i, Len(f))

\* Its characters and its parts, in terms of f.
LEMMA SuffixIs ==
  ASSUME NEW s, NEW f, NEW i, Suffix(s, f, i)
  PROVE  /\ s \in Texts /\ s # <<>>
         /\ Len(f) \in Nat /\ i \in Nat /\ i >= 1 /\ i <= Len(f)
         /\ Len(s) = Len(f) - i + 1
         /\ \A m \in 1 .. Len(s) : s[m] = f[(i + m) - 1]
         /\ \A n \in 1 .. Len(s) :
              /\ SubSeq(s, 1, n) = SubSeq(f, i, (i + n) - 1)
              /\ SubSeq(s, n + 1, Len(s)) = SubSeq(f, i + n, Len(f))
         /\ Tail(s) = SubSeq(f, i + 1, Len(f))
  <1>0. /\ f \in Seq(Byte \ {0}) /\ Len(f) \in Nat /\ i \in 1 .. Len(f)
        /\ s = SubSeq(f, i, Len(f))
    BY LenProperties DEF Texts, Suffix
  <1>1. /\ Len(s) = Len(f) - i + 1 /\ Len(s) \in Nat \ {0}
        /\ \A m \in 1 .. Len(s) : s[m] = f[(i + m) - 1]
        /\ s \in Seq(Byte \ {0})
    BY <1>0
  <1>2. s # <<>> BY <1>1, EmptySeq
  <1>3. ASSUME NEW m \in 1 .. Len(s), NEW n \in 1 .. Len(s)
        PROVE  SubSeq(s, m, n) = SubSeq(f, (i + m) - 1, (i + n) - 1)
    <2>1. /\ i \in 1 .. Len(f) /\ Len(f) \in 1 .. Len(f)
          /\ m \in 1 .. ((Len(f) - i) + 1) /\ n \in 1 .. ((Len(f) - i) + 1)
      BY <1>0, <1>1
    <2>2. SubSeq(SubSeq(f, i, Len(f)), m, n) = SubSeq(f, (i + m) - 1, (i + n) - 1)
      BY <1>0, <2>1, SubSeqOfSubSeq
    <2> QED BY <2>2, <1>0
  <1>4. ASSUME NEW n \in 1 .. Len(s)
        PROVE  SubSeq(s, 1, n) = SubSeq(f, i, (i + n) - 1)
    <2>1. 1 \in 1 .. Len(s) /\ (i + 1) - 1 = i BY <1>0, <1>1
    <2> QED BY <2>1, <1>3
  <1>5. ASSUME NEW n \in 1 .. Len(s)
        PROVE  SubSeq(s, n + 1, Len(s)) = SubSeq(f, i + n, Len(f))
    <2>1. Len(s) \in 1 .. Len(s) /\ (i + Len(s)) - 1 = Len(f) /\ (i + (n + 1)) - 1 = i + n
      BY <1>0, <1>1
    <2>2. CASE n + 1 \in 1 .. Len(s) BY <2>1, <2>2, <1>3
    <2>3. CASE n = Len(s)
      <3>1. Len(s) < n + 1 /\ Len(f) < i + n /\ n + 1 \in Int /\ i + n \in Int
            /\ Len(s) \in Int /\ Len(f) \in Int
        BY <2>1, <2>3, <1>0, <1>1
      <3> QED BY <3>1, SubSeqEmpty
    <2>4. n + 1 \in 1 .. Len(s) \/ n = Len(s) BY <1>1
    <2> QED BY <2>2, <2>3, <2>4
  <1>6. Tail(s) = SubSeq(f, i + 1, Len(f))
    <2>1. Len(f) \in i .. Len(f) BY <1>0
    <2> QED BY <1>0, <2>1, HeadTailOfSubSeq
  <1> QED BY <1>0, <1>1, <1>2, <1>4, <1>5, <1>6 DEF Texts

\* No % from the i-th character up to, but not with, the k-th.
PlainUpTo(f, i, k) ==
  /\ i \in 1 .. Len(f) /\ k \in (i + 1) .. (Len(f) + 1)
  /\ \A m \in i .. (k - 1) : f[m] # Percent

\* From i on the format stands for itself from j up to the k-th character.
Runs(f, p, i, j, k) ==
  /\ p[i] = SubSeq(f, j, k - 1) \o p[k]
  /\ Place(f, k)
  /\ Used(f, k) = Used(f, i)
  /\ SubSeq(f, j, k - 1) \in Seq(Byte)

\* Over characters that are no % the format stands for itself.
LEMMA PlainRun ==
  ASSUME NEW f, NEW a, NEW p, Known(f, a, p), NEW i, NEW k, PlainUpTo(f, i, k)
  PROVE  Runs(f, p, i, i, k)
  <1>0. f \in Texts /\ Len(f) \in Nat /\ f \in Seq(Byte)
    BY LenProperties DEF Known, Asked, Texts
  <1> DEFINE n == (k - 1) - i
  <1>i. /\ i \in 1 .. Len(f) /\ k \in (i + 1) .. (Len(f) + 1)
        /\ \A m \in i .. (k - 1) : f[m] # Percent
    BY DEF PlainUpTo
  <1>j. i + n = k - 1 BY <1>0, <1>i
  <1>n. /\ n \in Nat /\ i + n <= Len(f) /\ i \in 1 .. Len(f)
        /\ i + n = k - 1 /\ (i + n) + 1 = k /\ k \in 1 .. (Len(f) + 1)
        /\ \A m \in i .. (i + n) : f[m] # Percent
    BY <1>0, <1>i, <1>j
  <1> HIDE DEF n
  <1> USE <1>n
  <1>1. \A m \in i .. (i + n) : /\ m \in 1 .. Len(f)
                                /\ p[m] = <<f[m]>> \o p[m + 1]
                                /\ Place(f, m + 1)
                                /\ p[m + 1] \in Seq(Byte)
    <2> TAKE m \in i .. (i + n)
    <2>1. m \in 1 .. Len(f) /\ f[m] # Percent BY <1>0
    <2>2. Piece(f, a, m).says = <<f[m]>> /\ Piece(f, a, m).next = m + 1
      BY <1>0, <2>1, PieceIs
    <2>3. p[m] = <<f[m]>> \o p[m + 1] BY <2>1, <2>2 DEF Known, Renders
    <2>4. Place(f, m + 1) BY <2>1, <1>0, BeginsNext DEF Place
    <2>5. m + 1 \in 1 .. (Len(f) + 1) BY <2>1
    <2>6. p[m + 1] \in Seq(Byte) BY <2>4, <2>5, PlaceIs
    <2> QED BY <2>1, <2>3, <2>4, <2>6
  <1> DEFINE Right(l) == p[i] = SubSeq(f, i, i + l) \o p[(i + l) + 1]
             S == {l \in 0 .. n : Right(l)}
  <1>2. 0 .. n \subseteq S
    <2>1. 0 \in S
      <3>1. i \in i .. Len(f) /\ i \in Int /\ i - 1 \in Int /\ i - 1 < i BY <1>0
      <3>2. SubSeq(f, i, i) = SubSeq(f, i, i - 1) \o <<f[i]>>
        BY <1>0, <3>1, SubSeqRecursiveSecond
      <3>3. SubSeq(f, i, i - 1) = <<>> BY <3>1, SubSeqEmpty
      <3>4. <<f[i]>> \in Seq(Byte)
        <4>1. f[i] \in Byte BY <1>0
        <4> QED BY <4>1
      <3>5. SubSeq(f, i, i) = <<f[i]>> BY <3>2, <3>3, <3>4, ConcatEmptySeq
      <3>6. p[i] = <<f[i]>> \o p[i + 1]
        <4>1. i \in i .. (i + n) OBVIOUS
        <4> QED BY <4>1, <1>1
      <3>7. i + 0 = i /\ (i + 0) + 1 = i + 1 /\ 0 \in 0 .. n OBVIOUS
      <3>8. Right(0) BY <3>5, <3>6, <3>7
      <3> HIDE DEF Right
      <3> QED BY <3>7, <3>8
    <2>2. ASSUME NEW l \in 0 .. (n - 1), l \in S PROVE l + 1 \in S
      <3> DEFINE m == (i + l) + 1
                 b == SubSeq(f, i, i + l)
                 c == <<f[m]>>
                 q == p[m + 1]
      <3>1. m \in i .. (i + n) /\ i + (l + 1) = m BY <2>2
      <3>2. p[i] = b \o p[m] BY <2>2
      <3>3. p[m] = c \o q /\ q \in Seq(Byte) /\ m \in 1 .. Len(f) BY <3>1, <1>1
      <3>4. b \in Seq(Byte) /\ c \in Seq(Byte) BY <3>3, <1>0
      <3>5. SubSeq(f, i, m) = b \o c
        <4>1. f \in Seq(Byte) /\ i \in 1 .. Len(f) /\ m \in 1 .. Len(f) /\ i <= m
              /\ m - 1 = i + l
          BY <3>1, <3>3, <1>0
        <4> HIDE DEF m
        <4>2. m \in i .. Len(f) BY <4>1
        <4>3. SubSeq(f, i, m) = SubSeq(f, i, m - 1) \o <<f[m]>>
          BY <4>1, <4>2, SubSeqRecursiveSecond
        <4>4. SubSeq(f, i, m - 1) = b BY <4>1
        <4> QED BY <4>3, <4>4
      <3> HIDE DEF b, c, q, m
      <3>6. (b \o c) \o q = b \o (c \o q)
        <4>1. b \in Seq(Byte) /\ c \in Seq(Byte) /\ q \in Seq(Byte) BY <3>3, <3>4
        <4> QED BY ONLY <4>1, ConcatAssociative
      <3>7. p[i] = SubSeq(f, i, m) \o q BY <3>2, <3>3, <3>5, <3>6
      <3>8. Right(l + 1) BY <3>7, <3>1 DEF q
      <3>9. l + 1 \in 0 .. n OBVIOUS
      <3> HIDE DEF Right
      <3> QED BY <3>8, <3>9
    <2> HIDE DEF S
    <2> QED BY <2>1, <2>2, BoundedInduction
  <1>3. Right(n)
    <2>1. n \in S
      <3> HIDE DEF S
      <3> QED BY <1>2
    <2> QED BY <2>1
  <1>4. i + n \in i .. (i + n) OBVIOUS
  <1>5. Place(f, k) BY <1>1, <1>4
  <1>6. Used(f, k) = Used(f, i)
    <2>1. \A m \in i .. (k - 1) : m \notin ConversionsOf(f)
      BY DEF ConversionsOf
    <2>2. i \in 1 .. (Len(f) + 1) /\ i <= k BY <1>0
    <2> QED BY <1>0, <2>1, <2>2, UsedIs
  <1>7. SubSeq(f, i, k - 1) \in Seq(Byte)
    <2>1. \A m \in i .. (k - 1) : f[m] \in Byte BY <1>0
    <2>2. i \in Int /\ k - 1 \in Int BY <1>0
    <2> QED BY <2>1, <2>2, SubSeqProperties
  <1> QED BY <1>3, <1>5, <1>6, <1>7 DEF Runs

\* A turn of the loop is due at the i-th character.
Due(f, a, p, i) ==
  /\ Known(f, a, p)
  /\ i \in 1 .. Len(f) /\ Begins(f, i)
  /\ rest = SubSeq(f, i, Len(f))
  /\ params = SubSeq(a, Used(f, i) + 1, Len(a))

\* It gives a text to print and goes on where the format stands for the rest.
Turned(f, a, p, i) ==
  \E text \in Seq(Byte), k \in 1 .. (Len(f) + 1) :
    /\ Place(f, k)
    /\ p[i] = text \o p[k]
    /\ Give(text, SubSeq(f, k, Len(f)))
    /\ k <= Len(f) => params' = SubSeq(a, Used(f, k) + 1, Len(a))

\* What rest is then, in terms of f.
LEMMA DueIs ==
  ASSUME NEW f, NEW a, NEW p, NEW i, Due(f, a, p, i)
  PROVE  /\ f \in Texts /\ Len(f) \in Nat /\ a \in Seq(Parameter) /\ i \in 1 .. Len(f)
         /\ Suffix(rest, f, i)
         /\ rest \in Texts /\ rest # <<>> /\ Len(rest) = Len(f) - i + 1
         /\ rest[1] = f[i] /\ Tail(rest) = SubSeq(f, i + 1, Len(f))
         /\ Len(rest) > 1 => i < Len(f) /\ rest[2] = f[i + 1]
         /\ Len(rest) <= 1 => i = Len(f)
  <1>0. Suffix(rest, f, i) BY DEF Due, Known, Asked, Suffix
  <1>1. f \in Texts /\ Len(f) \in Nat /\ a \in Seq(Parameter) /\ i \in 1 .. Len(f)
        /\ Suffix(rest, f, i)
    BY <1>0, LenProperties DEF Due, Known, Asked, Texts
  <1>2. /\ rest \in Texts /\ rest # <<>> /\ Len(rest) = Len(f) - i + 1
        /\ \A m \in 1 .. Len(rest) : rest[m] = f[(i + m) - 1]
        /\ Tail(rest) = SubSeq(f, i + 1, Len(f))
    BY ONLY <1>0, SuffixIs
  <1>3. rest[1] = f[i]
    <2>1. 1 \in 1 .. Len(rest) /\ (i + 1) - 1 = i BY <1>1, <1>2
    <2> QED BY <2>1, <1>2
  <1>4. Len(rest) > 1 => i < Len(f) /\ rest[2] = f[i + 1]
    <2> SUFFICES ASSUME Len(rest) > 1 PROVE i < Len(f) /\ rest[2] = f[i + 1] OBVIOUS
    <2>1. 2 \in 1 .. Len(rest) /\ (i + 2) - 1 = i + 1 /\ i < Len(f) BY <1>1, <1>2
    <2> QED BY <2>1, <1>2
  <1>5. Len(rest) <= 1 => i = Len(f) BY <1>1, <1>2
  <1> QED BY <1>1, <1>2, <1>3, <1>4, <1>5

\* What Plain prints of a text that begins at the j-th character goes up to
\* the k-th.
PlainText(text, f, j, k) ==
  /\ k \in (j + 1) .. (Len(f) + 1)
  /\ SubSeq(text, 1, subLength(text)) = SubSeq(f, j, k - 1)
  /\ SubSeq(text, subLength(text) + 1, Len(text)) = SubSeq(f, k, Len(f))
  /\ \A m \in (j + 1) .. (k - 1) : f[m] # Percent

\* There is such a k.
LEMMA GivesPlain ==
  ASSUME NEW text, NEW f, NEW j, Suffix(text, f, j)
  PROVE  \E k \in Int : PlainText(text, f, j, k)
  <1> DEFINE n == subLength(text)
             k == j + n
  <1>1. /\ text \in Texts /\ text # <<>>
        /\ Len(f) \in Nat /\ j \in Nat /\ j >= 1 /\ j <= Len(f)
        /\ Len(text) = Len(f) - j + 1
        /\ \A m \in 1 .. Len(text) : text[m] = f[(j + m) - 1]
        /\ \A l \in 1 .. Len(text) :
             /\ SubSeq(text, 1, l) = SubSeq(f, j, (j + l) - 1)
             /\ SubSeq(text, l + 1, Len(text)) = SubSeq(f, j + l, Len(f))
    BY SuffixIs, SMTT(30)
  <1>2. n \in 1 .. Len(text) /\ \A m \in 2 .. n : text[m] # Percent
    BY <1>1, SubLengthIs
  <1>3. SubSeq(text, 1, n) = SubSeq(f, j, k - 1)
        /\ SubSeq(text, n + 1, Len(text)) = SubSeq(f, k, Len(f))
    BY <1>1, <1>2
  <1> HIDE DEF n
  <1>4. k \in (j + 1) .. (Len(f) + 1) BY <1>1, <1>2
  <1>5. ASSUME NEW m \in (j + 1) .. (k - 1) PROVE f[m] # Percent
    <2> DEFINE l == (m - j) + 1
    <2>1. l \in 2 .. n /\ l \in 1 .. Len(text) /\ (j + l) - 1 = m BY <1>1, <1>2
    <2> HIDE DEF l
    <2> QED BY <2>1, <1>1, <1>2
  <1>6. k \in Int BY <1>4, <1>1
  <1>7. PlainText(text, f, j, k) BY <1>3, <1>4, <1>5 DEF n, PlainText
  <1> QED BY <1>6, <1>7

\* A pair of %, and no further one up to the k-th character.
PairUpTo(f, i, k) ==
  /\ i \in 1 .. (Len(f) - 1) /\ k \in (i + 2) .. (Len(f) + 1)
  /\ Begins(f, i) /\ f[i] = Percent /\ f[i + 1] = Percent
  /\ \A m \in (i + 2) .. (k - 1) : f[m] # Percent

\* The format stands there for what follows its first character.
LEMMA PairRun ==
  ASSUME NEW f, NEW a, NEW p, Known(f, a, p), NEW i, NEW k, PairUpTo(f, i, k)
  PROVE  Runs(f, p, i, i + 1, k)
  <1>0. /\ f \in Texts /\ Len(f) \in Nat /\ f \in Seq(Byte) /\ <<Percent>> \in Seq(Byte)
        /\ Percent \in Byte
    BY LenProperties DEF Known, Asked, Texts, Percent, Byte, BYTE
  <1> DEFINE j == i + 1
             b == i + 2
  <1>1. /\ i \in 1 .. (Len(f) - 1) /\ k \in b .. (Len(f) + 1)
        /\ Begins(f, i) /\ f[i] = Percent /\ f[j] = Percent
        /\ \A m \in b .. (k - 1) : f[m] # Percent
    BY DEF PairUpTo
  <1>2. /\ i \in 1 .. Len(f) /\ i < Len(f) /\ j \in 1 .. Len(f) /\ b \in 1 .. (Len(f) + 1)
        /\ b = j + 1 /\ j + 1 = b /\ b - 1 = j /\ i <= b
        /\ i \in 1 .. (Len(f) + 1) /\ k \in 1 .. (Len(f) + 1)
        /\ i \in Int /\ j \in Int /\ b \in Int /\ k \in Int /\ j - 1 \in Int /\ j - 1 < j
        /\ j \in j .. Len(f) /\ j \in 1 .. (Len(f) + 1) /\ j \in (j - 1) .. Len(f)
    BY <1>0, <1>1
  <1>3. Begins(f, b) /\ ~Begins(f, j) BY ONLY <1>0, <1>1, BeginsNext
  <1>4. p[i] = <<Percent>> \o p[b]
    <2>1. Piece(f, a, i).says = <<Percent>> /\ Piece(f, a, i).next = b
      BY ONLY <1>0, <1>1, <1>2, PieceIs
    <2>2. p[i] = Piece(f, a, i).says \o p[Piece(f, a, i).next]
      BY ONLY Known(f, a, p), <1>2 DEF Known, Renders
    <2> QED BY ONLY <2>1, <2>2
  <1>5. Used(f, b) = Used(f, i)
    <2>1. Percent \notin Conversions
      BY DEF Percent, Conversions, CharC, CharS, CharD, CharX, CharO
    <2>2. i \notin ConversionsOf(f) /\ j \notin ConversionsOf(f)
      BY ONLY <2>1, <1>1, <1>3 DEF ConversionsOf
    <2>3. \A m \in i .. (b - 1) : m = i \/ m = j BY <1>2
    <2>4. \A m \in i .. (b - 1) : m \notin ConversionsOf(f) BY ONLY <2>2, <2>3
    <2> HIDE DEF j, b
    <2> QED BY ONLY <2>4, <1>0, <1>2, UsedIs, Zenon
  <1>6. SubSeq(f, j, j) = <<Percent>>
    <2> HIDE DEF j
    <2>1. SubSeq(f, j, j) = SubSeq(f, j, j - 1) \o <<f[j]>>
      BY ONLY <1>2, <1>0, SubSeqRecursiveSecond
    <2>2. SubSeq(f, j, j - 1) = <<>> BY ONLY <1>2, SubSeqEmpty
    <2>3. <<>> \o <<Percent>> = <<Percent>> BY ONLY <1>0, ConcatEmptySeq
    <2> QED BY ONLY <2>1, <2>2, <2>3, <1>1
  <1>7. CASE k = b
    <2>1. k - 1 = j BY ONLY <1>7, <1>2
    <2>2. SubSeq(f, j, k - 1) = <<Percent>> BY ONLY <2>1, <1>6
    <2>3. Place(f, k) BY ONLY <1>7, <1>2, <1>3 DEF Place
    <2> HIDE DEF j, b
    <2>4. SubSeq(f, j, k - 1) \in Seq(Byte) /\ p[i] = SubSeq(f, j, k - 1) \o p[k]
      BY ONLY <2>2, <1>0, <1>4, <1>7
    <2> QED BY ONLY <2>3, <2>4, <1>5, <1>7 DEF j, Runs
  <1>8. CASE k # b
    <2> DEFINE q == SubSeq(f, b, k - 1)
               r == p[k]
    <2>1. PlainUpTo(f, b, k)
      <3>1. b \in 1 .. Len(f) /\ k \in (b + 1) .. (Len(f) + 1) BY <1>0, <1>1, <1>8
      <3> QED BY ONLY <3>1, <1>1 DEF PlainUpTo
    <2>2. p[b] = q \o r /\ Place(f, k) /\ Used(f, k) = Used(f, b) /\ q \in Seq(Byte)
      <3> HIDE DEF b
      <3>1. Runs(f, p, b, b, k) BY ONLY <2>1, Known(f, a, p), PlainRun
      <3> QED BY ONLY <3>1 DEF Runs
    <2>3. r \in Seq(Byte) BY ONLY <1>2, <2>2, Known(f, a, p), PlaceIs
    <2>4. SubSeq(f, j, k - 1) = <<Percent>> \o q
      <3>1. k - 1 \in j .. Len(f) BY <1>0, <1>1
      <3>2. SubSeq(f, j, j) \o SubSeq(f, j + 1, k - 1) = SubSeq(f, j, k - 1)
        <4> HIDE DEF j
        <4> QED BY ONLY <3>1, <1>0, <1>2, ConcatAdjacentSubSeq
      <3> QED BY ONLY <3>2, <1>6, <1>2
    <2> HIDE DEF q, r
    <2>5. (<<Percent>> \o q) \o r = <<Percent>> \o (q \o r)
      BY ONLY <2>2, <2>3, <1>0, ConcatAssociative
    <2>6. <<Percent>> \o q \in Seq(Byte) BY ONLY <2>2, <1>0, ConcatProperties
    <2>7. p[i] = SubSeq(f, j, k - 1) \o r BY ONLY <2>4, <2>5, <2>2, <1>4
    <2> QED BY ONLY <2>7, <2>6, <2>4, <2>2, <1>5 DEF r, Runs
  <1> QED BY <1>7, <1>8

\* A turn that prints plain text does what the format says.
LEMMA PlainTurn ==
  ASSUME NEW f, NEW a, NEW p, NEW i, Due(f, a, p, i), Plain
  PROVE  Turned(f, a, p, i)
  <1>0. /\ f \in Texts /\ Len(f) \in Nat /\ a \in Seq(Parameter) /\ i \in 1 .. Len(f)
        /\ Suffix(rest, f, i)
        /\ rest \in Texts /\ rest # <<>> /\ Len(rest) = Len(f) - i + 1
        /\ rest[1] = f[i] /\ Tail(rest) = SubSeq(f, i + 1, Len(f))
        /\ Len(rest) > 1 => i < Len(f) /\ rest[2] = f[i + 1]
        /\ Len(rest) <= 1 => i = Len(f)
    BY ONLY Due(f, a, p, i), DueIs, Zenon
  <1>k. Known(f, a, p) /\ Begins(f, i)
        /\ params' = params /\ params = SubSeq(a, Used(f, i) + 1, Len(a))
    BY DEF Due, Plain
  <1> DEFINE text == IF rest[1] = Percent THEN Tail(rest) ELSE rest
             n == subLength(text)
  <1>1. Give(SubSeq(text, 1, n), SubSeq(text, n + 1, Len(text))) BY DEF Plain
  <1>2. ASSUME NEW j, NEW k, PlainText(text, f, j, k), Runs(f, p, i, j, k)
        PROVE  Turned(f, a, p, i)
    <2> HIDE DEF n, text
    <2>1. Give(SubSeq(f, j, k - 1), SubSeq(f, k, Len(f)))
      BY ONLY <1>1, <1>2 DEF PlainText, n
    <2>2. params' = SubSeq(a, Used(f, k) + 1, Len(a)) BY ONLY <1>2, <1>k DEF Runs
    <2>3. k \in 1 .. (Len(f) + 1) BY ONLY <1>2 DEF Place, Runs
    <2> QED BY ONLY <2>1, <2>2, <2>3, <1>2 DEF Turned, Runs
  <1>3. CASE rest[1] # Percent
    <2>1. Suffix(text, f, i) BY <1>0, <1>3
    <2> HIDE DEF n, text
    <2>2. PICK k \in Int : PlainText(text, f, i, k) BY ONLY <2>1, GivesPlain
    <2>3. /\ k \in (i + 1) .. (Len(f) + 1)
          /\ \A m \in (i + 1) .. (k - 1) : f[m] # Percent
      BY ONLY <2>2 DEF PlainText
    <2>4. \A m \in i .. (k - 1) : f[m] # Percent
      <3>1. \A m \in i .. (k - 1) : m = i \/ m \in (i + 1) .. (k - 1) BY <1>0, <2>2
      <3>2. f[i] # Percent BY ONLY <1>0, <1>3
      <3> QED BY ONLY <3>1, <3>2, <2>3
    <2>5. PlainUpTo(f, i, k) BY ONLY <2>3, <2>4, <1>0 DEF PlainUpTo
    <2>6. Runs(f, p, i, i, k) BY ONLY <2>5, <1>k, PlainRun
    <2> QED BY ONLY <2>2, <2>6, <1>2
  <1>4. CASE rest[1] = Percent
    <2>1. Len(rest) > 1 /\ rest[2] = Percent
      <3>1. Len(rest) \in Nat BY <1>0
      <3> QED BY <3>1, <1>4 DEF Plain, AtConversion
    <2> DEFINE j == i + 1
    <2>2. /\ f[i] = Percent /\ f[j] = Percent
          /\ i \in 1 .. (Len(f) - 1) /\ j \in 1 .. Len(f) /\ i + 2 = j + 1 /\ j \in Nat
      BY <2>1, <1>0, <1>4
    <2>3. Suffix(text, f, j) BY <1>0, <1>4, <2>2 DEF Suffix
    <2> HIDE DEF n, text, j
    <2>4. PICK k \in Int : PlainText(text, f, j, k) BY ONLY <2>3, GivesPlain
    <2>5. /\ k \in (j + 1) .. (Len(f) + 1)
          /\ \A m \in (j + 1) .. (k - 1) : f[m] # Percent
      BY ONLY <2>4 DEF PlainText
    <2>6. PairUpTo(f, i, k) BY ONLY <2>2, <2>5, <1>k DEF PairUpTo, j
    <2>7. Runs(f, p, i, i + 1, k) BY ONLY <2>6, <1>k, PairRun
    <2>8. j = i + 1 BY DEF j
    <2> QED BY ONLY <2>2, <2>4, <2>7, <2>8, <1>2
  <1> QED BY <1>3, <1>4

\* A turn that converts a parameter does what the format says.
LEMMA ConvertTurn ==
  ASSUME NEW f, NEW a, NEW p, NEW i, Due(f, a, p, i), Convert
  PROVE  Turned(f, a, p, i)
  <1>0. /\ f \in Texts /\ Len(f) \in Nat /\ a \in Seq(Parameter) /\ i \in 1 .. Len(f)
        /\ Suffix(rest, f, i)
        /\ rest \in Texts /\ rest # <<>> /\ Len(rest) = Len(f) - i + 1
        /\ rest[1] = f[i] /\ Tail(rest) = SubSeq(f, i + 1, Len(f))
        /\ Len(rest) > 1 => i < Len(f) /\ rest[2] = f[i + 1]
        /\ Len(rest) <= 1 => i = Len(f)
    BY ONLY Due(f, a, p, i), DueIs, Zenon
  <1>1. Len(rest) > 1 /\ rest[1] = Percent /\ rest[2] \in Conversions
        /\ Give(Converted(rest[2], Head(params)), SubSeq(rest, 3, Len(rest)))
        /\ params' = Tail(params)
    BY DEF Convert, AtConversion
  <1>2. /\ i < Len(f) /\ f[i] = Percent /\ f[i + 1] \in Conversions
        /\ i \in 1 .. (Len(f) - 1) /\ i + 1 \in 1 .. Len(f) /\ (i + 1) + 1 = i + 2
        /\ i + 2 \in 1 .. (Len(f) + 1)
    BY <1>0, <1>1
  <1>3. Known(f, a, p) /\ Begins(f, i) /\ params = SubSeq(a, Used(f, i) + 1, Len(a))
    BY DEF Due
  <1>4. Percent \notin Conversions
    BY DEF Percent, Conversions, CharC, CharS, CharD, CharX, CharO
  <1> DEFINE u == Used(f, i)
  <1>5. /\ u \in Nat /\ Used(f, i + 1) = u + 1 /\ Used(f, i + 2) = u + 1
        /\ u + 1 \in 1 .. Len(a) /\ Len(a) \in Nat
    <2>1. i \in ConversionsOf(f) BY <1>2, <1>3 DEF ConversionsOf
    <2>2. i + 1 \notin ConversionsOf(f) BY <1>2, <1>4 DEF ConversionsOf
    <2>3. u \in Nat /\ Used(f, i + 1) = u + 1 BY <1>0, <2>1, UsedIs
    <2>4. Used(f, i + 2) = u + 1
      <3>1. Used(f, (i + 1) + 1) = Used(f, i + 1) + 0 BY <1>0, <1>2, <2>2, UsedIs
      <3> QED BY <3>1, <2>3, <1>2
    <2>5. Used(f, i + 1) <= Cardinality(ConversionsOf(f))
      <3>1. i + 1 \in 1 .. (Len(f) + 1) BY <1>2
      <3> QED BY <3>1, <1>0, UsedIs
    <2>6. Cardinality(ConversionsOf(f)) \in Nat BY <1>0, UsedIs
    <2>7. Cardinality(ConversionsOf(f)) <= Len(a) /\ Len(a) \in Nat
      BY <1>0, <1>3, LenProperties DEF Known, Asked
    <2> HIDE DEF u
    <2> QED BY <2>3, <2>4, <2>5, <2>6, <2>7
  <1> HIDE DEF u
  <1>6. Head(params) = a[u + 1] /\ params' = SubSeq(a, (u + 1) + 1, Len(a))
    <2>1. Len(a) \in (u + 1) .. Len(a) BY <1>5
    <2>2. /\ Head(SubSeq(a, u + 1, Len(a))) = a[u + 1]
          /\ Tail(SubSeq(a, u + 1, Len(a))) = SubSeq(a, (u + 1) + 1, Len(a))
      BY <2>1, <1>0, <1>5, HeadTailOfSubSeq
    <2> QED BY <2>2, <1>1, <1>3 DEF u
  <1>7. SubSeq(rest, 3, Len(rest)) = SubSeq(f, i + 2, Len(f))
    <2>1. 2 \in 1 .. Len(rest) /\ 2 + 1 = 3 BY <1>0, <1>1
    <2>2. SubSeq(rest, 2 + 1, Len(rest)) = SubSeq(f, i + 2, Len(f))
      BY <2>1, <1>0, SuffixIs
    <2> QED BY <2>1, <2>2
  <1> DEFINE text == Said(f[i + 1], a[u + 1])
  <1>8. Converted(rest[2], Head(params)) = text /\ text \in Seq(Byte)
    <2>1. a[u + 1] \in Parameter /\ rest[2] = f[i + 1] BY <1>0, <1>1, <1>5
    <2> QED BY <2>1, <1>2, <1>6, ConvertedIs
  <1>9. p[i] = text \o p[i + 2]
    <2>1. Cardinality(ConversionsOf(f) \cap (1 .. i)) = u + 1
      <3>1. (i + 1) - 1 = i BY <1>0
      <3> QED BY <3>1, <1>5 DEF Used
    <2>2. Piece(f, a, i).says = text /\ Piece(f, a, i).next = i + 2
      <3>1. a[Cardinality(ConversionsOf(f) \cap (1 .. i))] = a[u + 1] BY ONLY <2>1
      <3>2. /\ Piece(f, a, i).says =
                 Said(f[i + 1], a[Cardinality(ConversionsOf(f) \cap (1 .. i))])
            /\ Piece(f, a, i).next = i + 2
        BY ONLY <1>0, <1>2, PieceConverts
      <3> QED BY ONLY <3>1, <3>2
    <2> QED BY <2>2, <1>0, <1>3 DEF Known, Renders
  <1>10. Place(f, i + 2)
    <2>1. f[i + 1] # Percent BY <1>2, <1>4
    <2>2. Begins(f, (i + 1) + 1) BY <2>1, <1>0, <1>2, BeginsNext
    <2> QED BY <2>2, <1>2 DEF Place
  <1> HIDE DEF text
  <1>11. Give(text, SubSeq(f, i + 2, Len(f))) BY <1>1, <1>7, <1>8
  <1>12. params' = SubSeq(a, Used(f, i + 2) + 1, Len(a)) BY <1>5, <1>6
  <1> QED BY <1>2, <1>8, <1>9, <1>10, <1>11, <1>12 DEF Turned

\* A turn at a % that begins nothing does what the format says.
LEMMA UnknownTurn ==
  ASSUME NEW f, NEW a, NEW p, NEW i, Due(f, a, p, i), Unknown
  PROVE  Turned(f, a, p, i)
  <1>0. /\ f \in Texts /\ Len(f) \in Nat /\ i \in 1 .. Len(f)
        /\ Len(rest) = Len(f) - i + 1
        /\ rest[1] = f[i] /\ Tail(rest) = SubSeq(f, i + 1, Len(f))
        /\ Len(rest) > 1 => i < Len(f) /\ rest[2] = f[i + 1]
        /\ Len(rest) <= 1 => i = Len(f)
    BY ONLY Due(f, a, p, i), DueIs, SMTT(30)
  <1>1. /\ rest[1] = Percent
        /\ Len(rest) > 1 => rest[2] \notin Conversions \cup {Percent}
        /\ Give(Tail(rest), <<>>)
    BY DEF Unknown, AtConversion
  <1>2. Known(f, a, p) BY DEF Due
  <1> DEFINE k == Len(f) + 1
             text == SubSeq(f, i + 1, Len(f))
             next == IF i < Len(f) THEN f[i + 1] ELSE 0
  <1>3. f[i] = Percent /\ next \notin Conversions \cup {Percent}
    <2>1. 0 \notin Conversions \cup {Percent}
      BY ONLY DEF Percent, Conversions, CharC, CharS, CharD, CharX, CharO
    <2>2. f[i] = Percent BY ONLY <1>0, <1>1
    <2>3. CASE i < Len(f)
      <3>1. Len(rest) > 1 BY <2>3, <1>0
      <3>2. next = rest[2] BY ONLY <2>3, <3>1, <1>0
      <3> QED BY ONLY <3>1, <3>2, <2>2, <1>1
    <2>4. CASE ~(i < Len(f)) BY ONLY <2>4, <2>1, <2>2
    <2> QED BY ONLY <2>3, <2>4
  <1>4. p[i] = text \o p[k]
    <2>1. Piece(f, a, i).says = text /\ Piece(f, a, i).next = k
      <3> HIDE DEF text, k
      <3> QED BY <1>0, <1>3, PieceIs DEF text, k
    <2> QED BY <2>1, <1>0, <1>2 DEF Known, Renders
  <1>5. SubSeq(f, k, Len(f)) = <<>>
    <2>1. k \in Int /\ Len(f) \in Int /\ Len(f) < k BY <1>0
    <2> QED BY <2>1, SubSeqEmpty
  <1>6. text \in Seq(Byte)
    <2>1. \A m \in (i + 1) .. Len(f) : f[m] \in Byte BY <1>0 DEF Texts
    <2>2. i + 1 \in Int /\ Len(f) \in Int BY <1>0
    <2> QED BY <2>1, <2>2, SubSeqProperties
  <1>7. k \in 1 .. (Len(f) + 1) /\ Place(f, k) /\ ~(k <= Len(f)) BY <1>0 DEF Place
  <1>8. Give(text, SubSeq(f, k, Len(f))) BY <1>0, <1>1, <1>5
  <1> HIDE DEF text, k
  <1> QED BY <1>4, <1>6, <1>7, <1>8 DEF Turned
-----------------------------------------------------------------------------
(***************************************************************************)
(* The inductive invariant                                                 *)
(***************************************************************************)

\* What goes through the loop of printf and logf.
Prints(c) == c.fn \in {"printf", "logf", "puts"}

\* What printf or logf is given.
FormatOf(c) ==
  IF c.fn = "puts" THEN <<Percent, CharS, Newline>> ELSE c.format
ArgumentsOf(c) ==
  IF c.fn = "puts" THEN <<[n |-> 0, s |-> c.str]>> ELSE c.arguments

\* The loop has come to the i-th character: with what is still to be handed
\* over and what the format says from there on, it is all that is asked for.
Going(f, a, p, i) ==
  /\ Known(f, a, p) /\ Place(f, i)
  /\ rest = SubSeq(f, i, Len(f))
  /\ i <= Len(f) => params = SubSeq(a, Used(f, i) + 1, Len(a))
  /\ (out \o data) \o p[i] = p[1]
  /\ bytes_written = Len(out) + Len(data)

\* It has returned.
Over(text) ==
  /\ data = <<>> /\ IsPrefix(out, text)
  /\ IF Len(text) > INT_MAX THEN ret = -1 ELSE out = text /\ ret = Len(out)

\* The types of the loop's variables.
FormatTypes ==
  /\ rest \in Texts /\ data \in Seq(Byte) /\ out \in Seq(Byte)
  /\ bytes_written \in 0 .. INT_MAX
  /\ ret \in -1 .. INT_MAX
  /\ returned \in BOOLEAN

\* Where a call with format f and parameters a is.
Progress(f, a) ==
  IF returned THEN Over(Rendered(f, a)) ELSE \E p, i : Going(f, a, p, i)

FormatInv ==
  /\ FormatTypes
  /\ call \in Calls \cup {NoCall}
  /\ call = NoCall => data = <<>> /\ out = <<>> /\ ~returned
  /\ call # NoCall /\ Prints(call) => Progress(FormatOf(call), ArgumentsOf(call))

\* What begins a text is a prefix of it.
LEMMA PrefixOf ==
  ASSUME NEW S, NEW a \in Seq(S), NEW b \in Seq(S)
  PROVE  IsPrefix(a, a \o b)
  <1>1. /\ a \o b \in Seq(S) /\ Len(a) \in Nat /\ Len(b) \in Nat
        /\ Len(a \o b) = Len(a) + Len(b)
        /\ \A i \in 1 .. Len(a) : (a \o b)[i] = a[i]
    BY ConcatProperties, LenProperties
  <1>2. SubSeq(a \o b, 1, Len(a)) = SubSeq(a, 1, Len(a))
    <2> DEFINE n == Len(a)
    <2>1. /\ SubSeq(a \o b, 1, n) = [i \in 1 .. n |-> (a \o b)[i]]
          /\ SubSeq(a, 1, n) = [i \in 1 .. n |-> a[i]]
      BY <1>1
    <2> QED
      BY <1>1, <2>1
  <1> QED
    BY <1>1, <1>2 DEF IsPrefix

\* puts has printf print the text and a newline.
LEMMA PutsIs ==
  ASSUME NEW str \in Texts
  PROVE  LET f == <<Percent, CharS, Newline>>
             a == <<[n |-> 0, s |-> str]>>
         IN Asked(f, a) /\ Rendered(f, a) = str \o <<Newline>>
  <1> DEFINE f == <<Percent, CharS, Newline>>
             param == [n |-> 0, s |-> str]
             a == <<param>>
  <1>1. f \in Texts /\ f[1] = Percent /\ f[2] = CharS /\ f[3] = Newline /\ Len(f) = 3
    BY DEF Texts, Percent, CharS, Newline, Byte, BYTE
  <1>2. a \in Seq(Parameter) /\ Len(a) = 1 /\ a[1] = param
    <2>1. 0 \in 0 .. (WIDTH - 1) BY Widths
    <2>2. param \in Parameter BY <2>1 DEF Parameter
    <2> HIDE DEF param
    <2> QED BY <2>2
  <1>3. CharS # Percent /\ Newline # Percent /\ CharS \in Conversions /\ CharS # CharC
    BY DEF Percent, CharS, CharC, Newline, Conversions
  <1>p. param.s = str OBVIOUS
  <1> HIDE DEF f, param
  <1>4. ConversionsOf(f) = {1}
    <2>1. Begins(f, 1) BY <1>1, BeginsNext
    <2>2. 1 .. (Len(f) - 1) = {1, 2} BY <1>1
    <2> QED BY <2>1, <2>2, <1>1, <1>3 DEF ConversionsOf
  <1>5. Cardinality({1}) = 1 BY FS_Singleton
  <1>6. Asked(f, a) BY <1>1, <1>2, <1>4, <1>5 DEF Asked
  <1>7. PICK p : Renders(f, a, p) BY <1>1, RenderedIs
  <1>8. Piece(f, a, 1).says = str /\ Piece(f, a, 1).next = 3
    <2> DEFINE one == 1
    <2>1. one \in 1 .. (Len(f) - 1) /\ f[one] = Percent /\ f[one + 1] = CharS /\ one + 2 = 3
      BY <1>1
    <2>2. ConversionsOf(f) \cap (1 .. one) = {1} BY <1>4
    <2> HIDE DEF one
    <2>3. /\ Piece(f, a, one).says =
               Said(f[one + 1], a[Cardinality(ConversionsOf(f) \cap (1 .. one))])
          /\ Piece(f, a, one).next = one + 2
      BY ONLY <2>1, <1>1, <1>3, PieceConverts
    <2>4. a[Cardinality(ConversionsOf(f) \cap (1 .. one))] = param
      BY ONLY <2>2, <1>5, <1>2
    <2>5. Said(CharS, param) = str
      BY ONLY <1>p DEF Said, CharC, CharS, CharD, CharX, CharO
    <2> QED BY ONLY <2>1, <2>3, <2>4, <2>5 DEF one
  <1>9. Piece(f, a, 3).says = <<Newline>> /\ Piece(f, a, 3).next = 4
    <2> DEFINE three == 3
    <2>1. three \in 1 .. Len(f) /\ f[three] # Percent /\ three + 1 = 4
          /\ f[three] = Newline
      BY <1>1, <1>3
    <2> HIDE DEF three
    <2>2. Piece(f, a, three).says = <<f[three]>> /\ Piece(f, a, three).next = three + 1
      BY ONLY <2>1, <1>1, PieceIs
    <2> QED BY ONLY <2>1, <2>2 DEF three
  <1>10. /\ Rendered(f, a) = p[1] /\ p[4] = <<>>
         /\ p[1] = Piece(f, a, 1).says \o p[Piece(f, a, 1).next]
         /\ p[3] = Piece(f, a, 3).says \o p[Piece(f, a, 3).next]
    <2>1. Len(f) + 1 = 4 /\ 1 \in 1 .. Len(f) /\ 3 \in 1 .. Len(f) BY <1>1
    <2> QED BY ONLY <2>1, <1>7 DEF Renders
  <1>11. Rendered(f, a) = str \o <<Newline>>
    <2>1. <<Newline>> \o <<>> = <<Newline>> OBVIOUS
    <2> QED BY ONLY <2>1, <1>8, <1>9, <1>10
  <1> QED BY <1>6, <1>11 DEF f, param

\* What is called asks for no more than it is given.
LEMMA CallIs ==
  ASSUME NEW c \in Calls, Prints(c)
  PROVE  /\ Asked(FormatOf(c), ArgumentsOf(c))
         /\ Rendered(FormatOf(c), ArgumentsOf(c)) =
              IF c.fn = "puts" THEN c.str \o <<Newline>>
              ELSE Rendered(c.format, c.arguments)
  <1>1. CASE c.fn = "puts"
    <2>1. c.str \in Texts BY <1>1, CallsAssumption
    <2> QED BY <1>1, <2>1, PutsIs DEF FormatOf, ArgumentsOf
  <1>2. CASE c.fn # "puts"
    <2>1. /\ c.format \in Texts /\ c.arguments \in Seq(Parameter)
          /\ Cardinality(ConversionsOf(c.format)) <= Len(c.arguments)
      BY <1>2, CallsAssumption DEF Prints
    <2> QED BY <1>2, <2>1 DEF FormatOf, ArgumentsOf, Asked
  <1> QED BY <1>1, <1>2

\* An int counts at least to 0.
LEMMA IntMax == INT_MAX \in Nat
  <1>1. WIDTH \in Nat /\ WIDTH >= 2 BY Widths
  <1>2. WIDTH \div 2 \in Nat /\ WIDTH \div 2 >= 1 BY <1>1
  <1> QED BY <1>2 DEF INT_MAX
-----------------------------------------------------------------------------
(***************************************************************************)
(* The steps                                                               *)
(***************************************************************************)

\* The whole text the format stands for, and what is known of it at a place.
LEMMA GoingIs ==
  ASSUME NEW f, NEW a, NEW p, NEW i, Going(f, a, p, i), FormatTypes
  PROVE  /\ f \in Texts /\ f \in Seq(Byte \ {0}) /\ Len(f) \in Nat
         /\ i \in 1 .. (Len(f) + 1)
         /\ Rendered(f, a) = p[1] /\ p[Len(f) + 1] = <<>> /\ p[i] \in Seq(Byte)
         /\ data \in Seq(Byte) /\ out \in Seq(Byte)
         /\ Len(data) \in Nat /\ Len(out) \in Nat
         /\ Known(f, a, p) /\ Place(f, i)
         /\ rest = SubSeq(f, i, Len(f))
         /\ (out \o data) \o p[i] = p[1]
         /\ bytes_written = Len(out) + Len(data)
  <1>1. /\ Known(f, a, p) /\ Place(f, i)
        /\ rest = SubSeq(f, i, Len(f))
        /\ (out \o data) \o p[i] = p[1]
        /\ bytes_written = Len(out) + Len(data)
    BY DEF Going
  <1>2. f \in Texts /\ Rendered(f, a) = p[1] /\ p[Len(f) + 1] = <<>>
    BY ONLY <1>1 DEF Known, Asked, Renders
  <1>3. f \in Seq(Byte \ {0}) /\ Len(f) \in Nat BY ONLY <1>2, LenProperties DEF Texts
  <1>4. i \in 1 .. (Len(f) + 1) BY ONLY <1>1 DEF Place
  <1>5. p[i] \in Seq(Byte) BY ONLY <1>1, <1>4, PlaceIs
  <1>6. data \in Seq(Byte) /\ out \in Seq(Byte) BY DEF FormatTypes
  <1>7. Len(data) \in Nat /\ Len(out) \in Nat BY ONLY <1>6, LenProperties
  <1> QED BY ONLY <1>1, <1>2, <1>3, <1>4, <1>5, <1>6, <1>7

\* What is left of a format is one.
LEMMA LeftIs ==
  ASSUME NEW f \in Texts, NEW k \in 1 .. (Len(f) + 1)
  PROVE  SubSeq(f, k, Len(f)) \in Texts
  <1>1. f \in Seq(Byte \ {0}) /\ Len(f) \in Nat BY LenProperties DEF Texts
  <1>2. \A m \in k .. Len(f) : f[m] \in Byte \ {0} BY <1>1
  <1>3. k \in Int /\ Len(f) \in Int BY <1>1
  <1> QED BY ONLY <1>2, <1>3, SubSeqProperties DEF Texts

\* A turn that gives a text hands it over whole, or is the last.
LEMMA GiveStep ==
  ASSUME FormatTypes, NEW f, NEW a, NEW p, NEW i, Going(f, a, p, i),
         data = <<>>, ~returned, Turned(f, a, p, i)
  PROVE  FormatTypes' /\ Progress(f, a)'
  <1>0. /\ f \in Texts /\ Len(f) \in Nat
        /\ Rendered(f, a) = p[1]
        /\ out \in Seq(Byte) /\ Len(out) \in Nat
        /\ Known(f, a, p)
        /\ (out \o data) \o p[i] = p[1]
        /\ bytes_written = Len(out) + Len(data)
    BY ONLY GoingIs, FormatTypes, Going(f, a, p, i)
  <1>t. /\ rest \in Texts /\ bytes_written \in 0 .. INT_MAX
        /\ ret \in -1 .. INT_MAX /\ returned = FALSE
        /\ INT_MAX \in Nat
    BY IntMax DEF FormatTypes
  <1>1. PICK text \in Seq(Byte), k \in 1 .. (Len(f) + 1) :
          /\ Place(f, k)
          /\ p[i] = text \o p[k]
          /\ Give(text, SubSeq(f, k, Len(f)))
          /\ k <= Len(f) => params' = SubSeq(a, Used(f, k) + 1, Len(a))
    BY DEF Turned
  <1> DEFINE r == p[k]
  <1>2. r \in Seq(Byte) BY ONLY <1>0, <1>1, PlaceIs
  <1>3. Len(text) \in Nat /\ Len(r) \in Nat BY ONLY <1>1, <1>2, LenProperties
  <1>4. bytes_written = Len(out) /\ out \o <<>> = out
    BY ONLY <1>0, data = <<>>, ConcatEmptySeq, EmptySeq
  <1> HIDE DEF r
  <1>5. p[1] = (out \o text) \o r /\ p[1] = out \o (text \o r)
    <2>1. p[1] = out \o (text \o r) BY ONLY <1>0, <1>1, <1>4, data = <<>> DEF r
    <2>2. (out \o text) \o r = out \o (text \o r)
      <3>1. out \in Seq(Byte) /\ text \in Seq(Byte) /\ r \in Seq(Byte)
        BY ONLY <1>0, <1>1, <1>2
      <3> QED BY ONLY <3>1, ConcatAssociative, SMTT(30)
    <2> QED BY ONLY <2>1, <2>2
  <1>6. /\ text \o r \in Seq(Byte) /\ Len(text \o r) = Len(text) + Len(r)
        /\ Len(p[1]) = Len(out) + (Len(text) + Len(r))
    <2>1. text \o r \in Seq(Byte) /\ Len(text \o r) = Len(text) + Len(r)
      BY ONLY <1>1, <1>2, ConcatProperties
    <2>2. Len(out \o (text \o r)) = Len(out) + Len(text \o r)
      BY ONLY <2>1, <1>0, ConcatProperties
    <2> QED BY ONLY <2>1, <2>2, <1>5
  <1>7. CASE INT_MAX - bytes_written < Len(text) /\ Return(-1)
    <2>1. ret' = -1 /\ returned' = TRUE /\ rest' = rest /\ data' = data /\ out' = out
          /\ bytes_written' = bytes_written
      BY ONLY <1>7 DEF Return
    <2>2. Len(p[1]) > INT_MAX BY ONLY <1>3, <1>4, <1>6, <1>7, <1>t
    <2>3. IsPrefix(out, p[1]) BY ONLY <1>0, <1>5, <1>6, PrefixOf
    <2>4. FormatTypes'
      <3>1. -1 \in -1 .. INT_MAX /\ <<>> \in Seq(Byte) BY <1>t
      <3> QED BY ONLY <1>0, <1>t, <2>1, <3>1, data = <<>> DEF FormatTypes
    <2> QED BY ONLY <1>0, <2>1, <2>2, <2>3, <2>4, data = <<>> DEF Progress, Over
  <1>8. CASE /\ INT_MAX - bytes_written >= Len(text)
             /\ data' = text /\ rest' = SubSeq(f, k, Len(f))
             /\ bytes_written' = bytes_written + Len(text)
             /\ UNCHANGED <<out, ret, returned>>
    <2>1. out' = out /\ ret' = ret /\ returned' = returned BY ONLY <1>8
    <2>2. bytes_written' \in 0 .. INT_MAX /\ bytes_written' = Len(out') + Len(data')
      BY ONLY <1>3, <1>4, <1>8, <1>t, <1>0
    <2>3. rest' \in Texts BY ONLY <1>8, <1>0, <1>1, LeftIs
    <2>4. FormatTypes'
      BY ONLY <1>0, <1>1, <1>8, <1>t, <2>1, <2>2, <2>3 DEF FormatTypes
    <2>5. Going(f, a, p, k)'
      <3>1. (out' \o data') \o p[k] = p[1] BY ONLY <1>5, <1>8 DEF r
      <3> QED BY ONLY <1>0, <1>1, <1>8, <2>2, <3>1 DEF Going
    <2> QED BY ONLY <2>1, <2>4, <2>5, <1>t DEF Progress
  <1> QED BY <1>1, <1>7, <1>8 DEF Give

\* The loop returns at the end of the format.
LEMMA EndStep ==
  ASSUME FormatTypes, NEW f, NEW a, NEW p, NEW i, Going(f, a, p, i),
         data = <<>>, ~returned, rest = <<>>, Return(bytes_written)
  PROVE  FormatTypes' /\ Progress(f, a)'
  <1>0. /\ f \in Seq(Byte \ {0}) /\ Len(f) \in Nat /\ i \in 1 .. (Len(f) + 1)
        /\ Rendered(f, a) = p[1] /\ p[Len(f) + 1] = <<>>
        /\ out \in Seq(Byte) /\ Len(out) \in Nat
        /\ rest = SubSeq(f, i, Len(f))
        /\ (out \o data) \o p[i] = p[1]
        /\ bytes_written = Len(out) + Len(data)
    BY ONLY GoingIs, FormatTypes, Going(f, a, p, i)
  <1>1. i = Len(f) + 1
    <2> SUFFICES ASSUME i # Len(f) + 1 PROVE FALSE OBVIOUS
    <2>1. i \in 1 .. Len(f) BY <1>0
    <2>2. Len(SubSeq(f, i, Len(f))) = Len(f) - i + 1 BY ONLY <1>0, <2>1
    <2>3. Len(rest) = 0 BY ONLY rest = <<>>
    <2> QED BY ONLY <2>1, <2>2, <2>3, <1>0
  <1>2. out \o <<>> = out BY ONLY <1>0, ConcatEmptySeq
  <1>3. out = p[1] /\ bytes_written = Len(out)
    <2>1. p[i] = <<>> BY ONLY <1>0, <1>1
    <2>2. out \o data = out BY ONLY <1>2, data = <<>>
    <2>3. out = p[1] BY ONLY <1>0, <1>2, <2>1, <2>2
    <2>4. Len(data) = 0 BY ONLY data = <<>>
    <2>5. bytes_written = Len(out) BY ONLY <1>0, <2>4
    <2> QED BY ONLY <2>3, <2>5
  <1>4. ret' = bytes_written /\ returned' = TRUE /\ rest' = rest /\ data' = data
        /\ out' = out /\ bytes_written' = bytes_written
    BY DEF Return
  <1>5. /\ bytes_written \in 0 .. INT_MAX /\ INT_MAX \in Nat /\ rest \in Texts
        /\ data \in Seq(Byte)
    BY IntMax DEF FormatTypes
  <1>6. FormatTypes'
    <2>1. ret' \in -1 .. INT_MAX BY ONLY <1>4, <1>5
    <2> QED BY ONLY <2>1, <1>0, <1>4, <1>5 DEF FormatTypes
  <1>7. IsPrefix(out, out)
    <2>1. <<>> \in Seq(Byte) BY EmptySeq
    <2> QED BY ONLY <2>1, <1>0, <1>2, PrefixOf
  <1>8. ~(Len(p[1]) > INT_MAX) BY ONLY <1>0, <1>3, <1>5
  <1> QED BY ONLY <1>0, <1>3, <1>4, <1>6, <1>7, <1>8, data = <<>> DEF Progress, Over

\* Handing a character over changes neither the text nor its length.
LEMMA HandOverStep ==
  ASSUME FormatTypes, NEW f, NEW a, NEW p, NEW i, Going(f, a, p, i),
         ~returned, HandOver
  PROVE  FormatTypes' /\ Progress(f, a)'
  <1>0. /\ data \in Seq(Byte) /\ out \in Seq(Byte)
        /\ Len(data) \in Nat /\ Len(out) \in Nat
        /\ Known(f, a, p) /\ Place(f, i)
        /\ rest = SubSeq(f, i, Len(f))
        /\ (out \o data) \o p[i] = p[1]
        /\ bytes_written = Len(out) + Len(data)
    BY ONLY GoingIs, FormatTypes, Going(f, a, p, i)
  <1>1. /\ data # <<>> /\ out' = Append(out, Head(data)) /\ data' = Tail(data)
        /\ rest' = rest /\ params' = params /\ bytes_written' = bytes_written
        /\ ret' = ret /\ returned' = returned
    BY DEF HandOver
  <1>t. /\ rest \in Texts /\ bytes_written \in 0 .. INT_MAX
        /\ ret \in -1 .. INT_MAX /\ returned = FALSE
    BY DEF FormatTypes
  <1> DEFINE h == Head(data)
             t == Tail(data)
  <1>2. h \in Byte /\ t \in Seq(Byte) /\ Len(t) = Len(data) - 1 /\ data = <<h>> \o t
        /\ Len(t) \in Nat
    BY ONLY <1>0, <1>1, data # <<>>, HeadTailProperties, LenProperties
  <1> HIDE DEF h, t
  <1>3. out' = out \o <<h>> /\ <<h>> \in Seq(Byte) /\ out' \in Seq(Byte)
        /\ Len(out') = Len(out) + 1
    <2>1. out' = Append(out, h) BY ONLY <1>1 DEF h
    <2> QED BY ONLY <2>1, <1>2, <1>0, AppendIsConcat, AppendProperties
  <1>4. out' \o data' = out \o data
    <2>1. (out \o <<h>>) \o t = out \o (<<h>> \o t)
      BY ONLY <1>0, <1>2, <1>3, ConcatAssociative
    <2>2. data' = t BY ONLY <1>1 DEF t
    <2> QED BY ONLY <2>1, <2>2, <1>2, <1>3
  <1>5. data' = t BY ONLY <1>1 DEF t
  <1>6. bytes_written' = Len(out') + Len(data') BY ONLY <1>0, <1>1, <1>2, <1>3, <1>5
  <1>7. FormatTypes' BY ONLY <1>1, <1>2, <1>3, <1>5, <1>t DEF FormatTypes
  <1>8. Going(f, a, p, i)'
    <2>1. i <= Len(f) => params = SubSeq(a, Used(f, i) + 1, Len(a)) BY DEF Going
    <2> QED BY ONLY <1>0, <1>1, <1>4, <1>6, <2>1 DEF Going
  <1> QED BY ONLY <1>1, <1>t, <1>7, <1>8 DEF Progress

\* A call begins at the first character, with all its parameters.
LEMMA BeginStep ==
  ASSUME FormatTypes, out = <<>>, ~returned,
         NEW f, NEW a, Asked(f, a), Begin(f, a)
  PROVE  FormatTypes' /\ Progress(f, a)'
  <1>0. /\ f \in Texts /\ f \in Seq(Byte \ {0}) /\ Len(f) \in Nat
        /\ a \in Seq(Parameter) /\ Len(a) \in Nat
    BY LenProperties DEF Asked, Texts
  <1>1. /\ rest' = f /\ params' = a /\ bytes_written' = 0 /\ data' = <<>>
        /\ out' = out /\ ret' = ret /\ returned' = returned
    BY DEF Begin
  <1>2. PICK p : Renders(f, a, p) BY ONLY <1>0, RenderedIs
  <1>3. Known(f, a, p) BY ONLY <1>2, Asked(f, a) DEF Known
  <1>4. Place(f, 1)
    <2>1. Begins(f, 1) BY ONLY <1>0, BeginsNext
    <2>2. 1 \in 1 .. (Len(f) + 1) BY ONLY <1>0
    <2> QED BY ONLY <2>1, <2>2 DEF Place
  <1> DEFINE w == p[1]
  <1>5. w \in Seq(Byte)
    <2>1. 1 \in 1 .. (Len(f) + 1) BY ONLY <1>0
    <2> QED BY ONLY <2>1, <1>3, <1>4, PlaceIs
  <1>6. f = SubSeq(f, 1, Len(f)) BY ONLY <1>0
  <1>7. 1 <= Len(f) => a = SubSeq(a, Used(f, 1) + 1, Len(a))
    <2>1. Used(f, 1) = 0 BY ONLY <1>0, UsedIs
    <2>2. a = SubSeq(a, 1, Len(a)) BY ONLY <1>0
    <2> QED BY ONLY <2>1, <2>2
  <1>8. (<<>> \o <<>>) \o w = w /\ Len(<<>>) + Len(<<>>) = 0
    <2>1. <<>> \o <<>> = <<>> OBVIOUS
    <2> HIDE DEF w
    <2>2. <<>> \o w = w BY ONLY <1>5, ConcatEmptySeq
    <2> QED BY ONLY <2>1, <2>2
  <1>9. Going(f, a, p, 1)'
    BY ONLY <1>1, <1>3, <1>4, <1>6, <1>7, <1>8, out = <<>> DEF Going
  <1>10. FormatTypes'
    <2>1. 0 \in 0 .. INT_MAX /\ <<>> \in Seq(Byte) BY IntMax
    <2> QED BY ONLY <1>0, <1>1, <2>1, FormatTypes DEF FormatTypes
  <1> QED BY ONLY <1>1, <1>9, <1>10, ~returned DEF Progress

\* A turn of the loop, or a character handed over.
LEMMA TurnStep ==
  ASSUME FormatTypes, NEW f, NEW a, Progress(f, a), Turn \/ HandOver
  PROVE  FormatTypes' /\ Progress(f, a)'
  <1>1. ~returned
    <2> SUFFICES ASSUME returned PROVE FALSE OBVIOUS
    <2>1. data = <<>> BY DEF Progress, Over
    <2> QED BY <2>1 DEF Turn, HandOver
  <1>2. PICK p, i : Going(f, a, p, i) BY <1>1 DEF Progress
  <1>3. CASE HandOver BY ONLY <1>1, <1>2, <1>3, FormatTypes, HandOverStep
  <1>4. CASE Turn
    <2>1. data = <<>> BY ONLY <1>4 DEF Turn
    <2>2. CASE rest = <<>> /\ Return(bytes_written)
      BY ONLY <1>1, <1>2, <2>1, <2>2, FormatTypes, EndStep
    <2>3. CASE rest # <<>> /\ (Plain \/ Convert \/ Unknown)
      <3>0. /\ f \in Seq(Byte \ {0}) /\ Len(f) \in Nat /\ i \in 1 .. (Len(f) + 1)
            /\ Known(f, a, p) /\ Place(f, i) /\ rest = SubSeq(f, i, Len(f))
        BY ONLY GoingIs, FormatTypes, <1>2
      <3>1. i # Len(f) + 1
        <4> SUFFICES ASSUME i = Len(f) + 1 PROVE FALSE OBVIOUS
        <4>1. i \in Int /\ Len(f) \in Int /\ Len(f) < i BY <3>0
        <4>2. SubSeq(f, i, Len(f)) = <<>> BY ONLY <4>1, SubSeqEmpty
        <4> QED BY ONLY <4>2, <3>0, <2>3
      <3>2. i \in 1 .. Len(f) /\ i <= Len(f) BY ONLY <3>0, <3>1
      <3>3. Begins(f, i) BY ONLY <3>0, <3>1 DEF Place
      <3>4. params = SubSeq(a, Used(f, i) + 1, Len(a)) BY ONLY <3>2, <1>2 DEF Going
      <3>5. Due(f, a, p, i) BY ONLY <3>0, <3>2, <3>3, <3>4 DEF Due
      <3>6. Turned(f, a, p, i)
        BY ONLY <2>3, <3>5, PlainTurn, ConvertTurn, UnknownTurn
      <3> QED BY ONLY <1>1, <1>2, <2>1, <3>6, FormatTypes, GiveStep
    <2> QED BY ONLY <1>4, <2>2, <2>3 DEF Turn
  <1> QED BY <1>3, <1>4

\* Nothing is called "none".
LEMMA NoneCalled ==
  ASSUME NEW c \in Calls PROVE c # NoCall
  <1>1. NoCall.fn = "none" BY DEF NoCall
  <1>2. c.fn # "none" BY CallsAssumption
  <1> QED BY <1>1, <1>2

\* At first nothing has been printed.
LEMMA InitFormat == Init => FormatInv
  <1> SUFFICES ASSUME Init PROVE FormatInv OBVIOUS
  <1>1. /\ rest = <<>> /\ bytes_written = 0 /\ data = <<>> /\ out = <<>> /\ ret = 0
        /\ returned = FALSE /\ call = NoCall
    BY DEF Init
  <1>2. FormatTypes
    <2>1. <<>> \in Seq(Byte \ {0}) /\ <<>> \in Seq(Byte) OBVIOUS
    <2>2. 0 \in 0 .. INT_MAX /\ 0 \in -1 .. INT_MAX BY IntMax
    <2> QED BY ONLY <1>1, <2>1, <2>2 DEF FormatTypes, Texts
  <1> QED BY ONLY <1>1, <1>2 DEF FormatInv

\* A call leaves the invariant as it should be at its beginning.
LEMMA CallStep ==
  ASSUME FormatInv, Call
  PROVE  FormatInv'
  <1>1. call = NoCall BY DEF Call
  <1>2. PICK c \in Calls : call' = c /\ (CallFormat(c) \/ puts(c) \/ Compute(c))
    BY DEF Call
  <1>3. FormatTypes /\ data = <<>> /\ out = <<>> /\ ~returned BY <1>1 DEF FormatInv
  <1>4. call' \in Calls /\ call' # NoCall BY <1>2, NoneCalled
  <1>5. ASSUME Prints(c), Begin(FormatOf(c), ArgumentsOf(c)) PROVE FormatInv'
    <2>1. Asked(FormatOf(c), ArgumentsOf(c)) BY ONLY <1>2, <1>5, CallIs
    <2> DEFINE f == FormatOf(c)
               a == ArgumentsOf(c)
    <2>2. FormatTypes' /\ Progress(f, a)'
      <3> HIDE DEF f, a
      <3>1. Asked(f, a) /\ Begin(f, a) BY <2>1, <1>5 DEF f, a
      <3> QED BY ONLY <1>3, <3>1, BeginStep
    <2> QED BY <1>2, <1>4, <2>2 DEF FormatInv
  <1>6. CASE CallFormat(c)
    <2>1. Prints(c) /\ FormatOf(c) = c.format /\ ArgumentsOf(c) = c.arguments
      BY <1>6 DEF CallFormat, Prints, FormatOf, ArgumentsOf
    <2> QED BY <1>5, <1>6, <2>1 DEF CallFormat
  <1>7. CASE puts(c)
    <2>1. /\ Prints(c) /\ FormatOf(c) = <<Percent, CharS, Newline>>
          /\ ArgumentsOf(c) = <<[n |-> 0, s |-> c.str]>>
      BY <1>7 DEF puts, Prints, FormatOf, ArgumentsOf
    <2> QED BY <1>5, <1>7, <2>1 DEF puts
  <1>8. CASE Compute(c)
    <2>1. ~Prints(c) BY <1>8 DEF Compute, Prints
    <2>2. /\ rest' = rest /\ bytes_written' = bytes_written /\ data' = data /\ out' = out
          /\ ret' = ret /\ returned' = TRUE
      BY <1>8 DEF Compute
    <2>3. FormatTypes' BY <2>2, <1>3 DEF FormatTypes
    <2> QED BY <2>1, <2>3, <1>2, <1>4 DEF FormatInv
  <1> QED BY <1>2, <1>6, <1>7, <1>8

\* Every step preserves it.
LEMMA FormatStep == FormatInv /\ [Next]_vars => FormatInv'
  <1> SUFFICES ASSUME FormatInv, [Next]_vars PROVE FormatInv' OBVIOUS
  <1>1. CASE UNCHANGED <<format, call>>
    <2>1. /\ rest' = rest /\ params' = params /\ bytes_written' = bytes_written
          /\ data' = data /\ out' = out /\ ret' = ret /\ returned' = returned
          /\ call' = call
      BY <1>1 DEF format
    <2> QED BY <2>1 DEF FormatInv, FormatTypes, Progress, Over, Going
  <1>2. CASE Call BY <1>2, CallStep
  <1>3. CASE call' = call /\ Prints(call) /\ (Turn \/ HandOver)
    <2>1. call # NoCall /\ call \in Calls
      <3>1. NoCall.fn = "none" BY DEF NoCall
      <3> QED BY <3>1, <1>3 DEF Prints, FormatInv
    <2>2. PICK c \in Calls : call = c BY <2>1
    <2> DEFINE f == FormatOf(c)
               a == ArgumentsOf(c)
    <2>3. FormatTypes /\ Progress(f, a) BY <2>1, <2>2, <1>3 DEF FormatInv
    <2>4. FormatTypes' /\ Progress(f, a)'
      <3> HIDE DEF f, a
      <3> QED BY ONLY <2>3, <1>3, TurnStep
    <2>5. call' = c /\ c # NoCall BY <2>1, <2>2, <1>3
    <2> QED BY ONLY <2>4, <2>5 DEF FormatInv
  <1>4. CASE printf \/ logf BY ONLY <1>3, <1>4 DEF printf, logf, log, Prints
  <1>5. CASE Setup \/ UNCHANGED vars BY ONLY <1>1, <1>5 DEF Setup, vars
  <1> QED BY ONLY <1>1, <1>2, <1>4, <1>5, [Next]_vars DEF Next, Kernel

-----------------------------------------------------------------------------
(***************************************************************************)
(* What a function computes                                                *)
(***************************************************************************)

\* What a function that just computes returns, or makes of the memory.
Value(c) ==
  CASE c.fn = "memcpy"     -> memcpy(c.memory, c.dest, c.src, c.size)
    [] c.fn = "memmove"    -> memmove(c.memory, c.dest, c.src, c.size)
    [] c.fn = "memset"     -> memset(c.memory, c.dest, c.val, c.size)
    [] c.fn = "memcmp"     -> memcmp(c.memory, c.dest, c.src, c.size)
    [] c.fn = "ceilPowTwo" -> ceilPowTwo(c.num)

\* A function that computes leaves its value in result.
ComputeInv ==
  /\ call = NoCall => ~returned
  /\ call # NoCall => call \in Calls
  /\ call # NoCall /\ ~Prints(call) => result = Value(call)

\* At first nothing has been computed.
LEMMA InitCompute == Init => ComputeInv
  BY DEF Init, ComputeInv

\* Every step preserves ComputeInv.
LEMMA ComputeStep == ComputeInv /\ [Next]_vars => ComputeInv'
  <1> SUFFICES ASSUME ComputeInv, [Next]_vars PROVE ComputeInv' OBVIOUS
  <1>1. CASE UNCHANGED <<returned, call, result>>
    BY ONLY ComputeInv, <1>1 DEF ComputeInv
  <1>2. CASE Call
    <2>1. PICK c \in Calls : call' = c /\ (CallFormat(c) \/ puts(c) \/ Compute(c))
      BY ONLY <1>2 DEF Call
    <2>2. c # NoCall BY <2>1, NoneCalled
    <2>3. CASE CallFormat(c) \/ puts(c)
      <3>1. Prints(c) BY ONLY <2>3 DEF CallFormat, puts, Prints
      <3> QED BY ONLY <2>1, <2>2, <3>1 DEF ComputeInv
    <2>4. CASE Compute(c)
      <3>1. result' = Value(c) BY ONLY <2>4, Zenon DEF Compute, Value
      <3> QED BY ONLY <2>1, <2>2, <3>1 DEF ComputeInv
    <2> QED BY ONLY <2>1, <2>3, <2>4
  <1>3. CASE printf \/ logf
    <2>1. Prints(call) /\ call' = call /\ result' = result
      BY ONLY <1>3 DEF printf, logf, Prints
    <2>2. call # NoCall
      <3>1. NoCall.fn = "none" BY DEF NoCall
      <3> QED BY <3>1, <2>1 DEF Prints
    <2> QED BY ONLY <2>1, <2>2, ComputeInv DEF ComputeInv
  <1>4. CASE Setup \/ UNCHANGED vars BY ONLY <1>1, <1>4 DEF Setup, vars, format
  <1>5. CASE (UART \/ Receive) /\ UNCHANGED <<format, call, result>>
    BY ONLY <1>1, <1>5 DEF format
  <1> QED BY ONLY <1>2, <1>3, <1>4, <1>5, [Next]_vars DEF Next, Kernel

\* A function that has returned has returned its value.
LEMMA ValueIs ==
  ASSUME ComputeInv, returned, ~Prints(call)
  PROVE  call \in Calls /\ result = Value(call)
  BY DEF ComputeInv

\* What is called to compute, and with what.
LEMMA ComputeCallIs ==
  ASSUME NEW c \in Calls, ~Prints(c)
  PROVE  \/ /\ c.fn \in {"memcpy", "memmove", "memcmp"}
            /\ c.memory \in [DOMAIN c.memory -> Byte]
            /\ c.dest \in Nat /\ c.src \in Nat /\ c.size \in Nat
            /\ c.dest .. (c.dest + c.size - 1) \subseteq DOMAIN c.memory
            /\ c.src .. (c.src + c.size - 1) \subseteq DOMAIN c.memory
         \/ /\ c.fn = "memset"
            /\ c.memory \in [DOMAIN c.memory -> Byte]
            /\ c.dest \in Nat /\ c.val \in Int /\ c.size \in Nat
            /\ c.dest .. (c.dest + c.size - 1) \subseteq DOMAIN c.memory
         \/ c.fn = "ceilPowTwo" /\ c.num \in 0 .. (WIDTH - 1)
  BY CallsAssumption, Zenon DEF Prints, Within

(***************************************************************************)
(* What memmove, memcpy, memset, memcmp and ceilPowTwo return, or make of  *)
(* the memory, is what they are to, for all arguments they may have.       *)
(***************************************************************************)
THEOREM LibcComputes == Spec => []Computed
  <1>1. ASSUME ComputeInv PROVE Computed
    <2> SUFFICES ASSUME returned, ~Prints(call) PROVE
          CASE call.fn = "memmove" ->
             \A i \in DOMAIN call.memory : result[i] = Moved(call, i)
        [] call.fn = "memcpy" ->
             \A i \in DOMAIN call.memory :
               Overlap(call) \/ result[i] = Moved(call, i)
        [] call.fn = "memset" ->
             \A i \in DOMAIN call.memory :
               result[i] = IF i \in call.dest .. (call.dest + call.size - 1)
                           THEN call.val % BYTE ELSE call.memory[i]
        [] call.fn = "memcmp" ->
             IF Differ(call) = {} THEN result = 0
             ELSE LET i == Min(Differ(call))
                  IN result = IF call.memory[call.dest + i] < call.memory[call.src + i]
                              THEN -1 ELSE 1
        [] call.fn = "ceilPowTwo" ->
             LET powers == {p \in {Power(2, b) : b \in 0 .. (BITS - 1)} : p >= call.num}
             IN result = IF call.num = 0 \/ powers = {} THEN 0 ELSE Min(powers)
      BY DEF Computed, Prints
    <2>1. call \in Calls /\ result = Value(call) BY <1>1, ValueIs
    <2>2. CASE call.fn \in {"memcpy", "memmove"}
      <3>1. /\ call.memory \in [DOMAIN call.memory -> Byte]
            /\ call.dest \in Nat /\ call.src \in Nat /\ call.size \in Nat
            /\ call.dest .. (call.dest + call.size - 1) \subseteq DOMAIN call.memory
            /\ call.src .. (call.src + call.size - 1) \subseteq DOMAIN call.memory
        BY <2>1, <2>2, ComputeCallIs
      <3>2. /\ \A i \in DOMAIN call.memory :
                 memmove(call.memory, call.dest, call.src, call.size)[i] =
                   Copied(call.memory, call.dest, call.src, call.size, i)
            /\ ~(call.dest < call.src + call.size /\ call.src < call.dest + call.size) =>
                 \A i \in DOMAIN call.memory :
                   memcpy(call.memory, call.dest, call.src, call.size)[i] =
                     Copied(call.memory, call.dest, call.src, call.size, i)
        <4> DEFINE m == call.memory
                   A == DOMAIN m
                   d == call.dest
                   s == call.src
                   n == call.size
        <4>1. /\ m \in [A -> Byte] /\ n \in Nat /\ d \in Nat /\ s \in Nat
              /\ d .. (d + n - 1) \subseteq A /\ s .. (s + n - 1) \subseteq A
          BY ONLY <3>1
        <4> HIDE DEF m, A, d, s, n
        <4>2. /\ \A i \in A : memmove(m, d, s, n)[i] = Copied(m, d, s, n, i)
              /\ ~(d < s + n /\ s < d + n) =>
                   \A i \in A : memcpy(m, d, s, n)[i] = Copied(m, d, s, n, i)
          BY ONLY <4>1, Moves
        <4> QED BY ONLY <4>2 DEF m, A, d, s, n
      <3>3. \A i \in DOMAIN call.memory :
              Copied(call.memory, call.dest, call.src, call.size, i) = Moved(call, i)
        BY <3>1 DEF Copied, Moved
      <3>4. CASE call.fn = "memcpy"
        <4>1. result = memcpy(call.memory, call.dest, call.src, call.size)
          BY ONLY <2>1, <3>4 DEF Value
        <4>2. \A i \in DOMAIN call.memory : Overlap(call) \/ result[i] = Moved(call, i)
          BY ONLY <3>2, <3>3, <4>1 DEF Overlap
        <4> QED BY ONLY <3>4, <4>2
      <3>5. CASE call.fn = "memmove"
        <4>1. result = memmove(call.memory, call.dest, call.src, call.size)
          BY ONLY <2>1, <3>5 DEF Value
        <4>2. \A i \in DOMAIN call.memory : result[i] = Moved(call, i)
          BY ONLY <3>2, <3>3, <4>1
        <4> QED BY ONLY <3>5, <4>2
      <3> QED BY ONLY <2>2, <3>4, <3>5
    <2>3. CASE call.fn = "memset"
      <3>1. /\ call.memory \in [DOMAIN call.memory -> Byte]
            /\ call.dest \in Nat /\ call.val \in Int /\ call.size \in Nat
            /\ call.dest .. (call.dest + call.size - 1) \subseteq DOMAIN call.memory
        BY <2>1, <2>3, ComputeCallIs
      <3>2. \A i \in DOMAIN call.memory :
              memset(call.memory, call.dest, call.val, call.size)[i] =
                IF i \in call.dest .. (call.dest + call.size - 1)
                THEN call.val % BYTE ELSE call.memory[i]
        <4> DEFINE m == call.memory
                   A == DOMAIN m
                   d == call.dest
                   v == call.val
                   n == call.size
        <4>1. /\ m \in [A -> Byte] /\ n \in Nat /\ d \in Nat /\ v \in Int
              /\ d .. (d + n - 1) \subseteq A
          BY ONLY <3>1
        <4> HIDE DEF m, A, d, v, n
        <4>2. \A i \in A : memset(m, d, v, n)[i] =
                             IF i \in d .. (d + n - 1) THEN v % BYTE ELSE m[i]
          BY ONLY <4>1, Sets
        <4> QED BY ONLY <4>2 DEF m, A, d, v, n
      <3>3. result = memset(call.memory, call.dest, call.val, call.size)
        BY ONLY <2>1, <2>3 DEF Value
      <3> QED BY ONLY <2>3, <3>2, <3>3
    <2>4. CASE call.fn = "memcmp"
      <3>1. /\ call.memory \in [DOMAIN call.memory -> Byte]
            /\ call.dest \in Nat /\ call.src \in Nat /\ call.size \in Nat
            /\ call.dest .. (call.dest + call.size - 1) \subseteq DOMAIN call.memory
            /\ call.src .. (call.src + call.size - 1) \subseteq DOMAIN call.memory
        BY <2>1, <2>4, ComputeCallIs
      <3>2. \/ Differ(call) = {} /\ memcmp(call.memory, call.dest, call.src, call.size) = 0
            \/ \E o \in Differ(call) :
                 /\ \A p \in Differ(call) : o <= p
                 /\ memcmp(call.memory, call.dest, call.src, call.size) =
                      IF call.memory[call.dest + o] < call.memory[call.src + o]
                      THEN -1 ELSE 1
        <4> DEFINE m == call.memory
                   A == DOMAIN m
                   d == call.dest
                   s == call.src
                   n == call.size
        <4>1. /\ m \in [A -> Byte] /\ n \in Nat /\ d \in Nat /\ s \in Nat
              /\ d .. (d + n - 1) \subseteq A /\ s .. (s + n - 1) \subseteq A
          BY ONLY <3>1
        <4> HIDE DEF m, A, d, s, n
        <4>2. Compared(m, d, s, n) BY ONLY <4>1, Compares
        <4>3. Differ(call) = DifferAt(m, d, s, n) BY DEF Differ, DifferAt, m, d, s, n
        <4> QED BY ONLY <4>2, <4>3, Zenon DEF Compared, m, d, s, n
      <3>3. result = memcmp(call.memory, call.dest, call.src, call.size)
        BY ONLY <2>1, <2>4 DEF Value
      <3>4. IF Differ(call) = {} THEN result = 0
            ELSE LET i == Min(Differ(call))
                 IN result = IF call.memory[call.dest + i] < call.memory[call.src + i]
                             THEN -1 ELSE 1
        <4>1. CASE Differ(call) = {} BY ONLY <3>2, <3>3, <4>1
        <4>2. CASE Differ(call) # {}
          <5>1. PICK o \in Differ(call) :
                 /\ \A p \in Differ(call) : o <= p
                 /\ memcmp(call.memory, call.dest, call.src, call.size) =
                      IF call.memory[call.dest + o] < call.memory[call.src + o]
                      THEN -1 ELSE 1
            BY ONLY <3>2, <4>2
          <5>2. Differ(call) \in SUBSET Int BY ONLY <3>1 DEF Differ
          <5>3. Min(Differ(call)) = o BY ONLY <5>1, <5>2, LeastIs
          <5> QED BY ONLY <4>2, <5>1, <5>3, <3>3
        <4> QED BY ONLY <4>1, <4>2
      <3> QED BY ONLY <2>4, <3>4
    <2>5. CASE call.fn = "ceilPowTwo"
      <3>1. call.num \in 0 .. (WIDTH - 1) BY <2>1, <2>5, ComputeCallIs
      <3>2. result = ceilPowTwo(call.num) BY ONLY <2>1, <2>5 DEF Value
      <3>3. result = IF call.num = 0 \/ PowersTo(call.num) = {} THEN 0
                     ELSE Min(PowersTo(call.num))
        BY ONLY <3>1, <3>2, CeilPowTwo
      <3> QED BY ONLY <2>5, <3>3 DEF PowersTo
    <2>6. call.fn \in {"memcpy", "memmove", "memset", "memcmp", "ceilPowTwo"}
      BY ONLY <2>1, ComputeCallIs, ~Prints(call)
    <2> QED BY ONLY <2>2, <2>3, <2>4, <2>5, <2>6
  <1> QED BY <1>1, InitCompute, ComputeStep, PTL DEF Spec

-----------------------------------------------------------------------------
(***************************************************************************)
(* The theorems about printf, logf and puts                                *)
(***************************************************************************)

\* The inductive invariant of the loop of printf and logf.
LEMMA FormatHolds == Spec => []FormatInv
  BY InitFormat, FormatStep, PTL DEF Spec

(***************************************************************************)
(* printf, logf and puts hand over the text the format stands for and      *)
(* return its length, or -1 after a first part of it if an int does not    *)
(* count that far: for every format and all parameters.                    *)
(***************************************************************************)
THEOREM TextIsRight == Spec => []Formatted
  <1>1. ASSUME FormatInv PROVE Formatted
    <2> SUFFICES ASSUME Prints(call)
                 PROVE  /\ IsPrefix(out \o data, Text)
                        /\ returned => IF Len(Text) > INT_MAX THEN ret = -1
                                       ELSE out = Text /\ ret = Len(out)
      BY DEF Formatted, Prints
    <2>1. call # NoCall /\ call \in Calls
      <3>1. NoCall.fn = "none" BY DEF NoCall
      <3> QED BY <3>1, <1>1 DEF Prints, FormatInv
    <2> DEFINE f == FormatOf(call)
               a == ArgumentsOf(call)
    <2>2. Text = Rendered(f, a) BY <2>1, CallIs DEF Text
    <2>3. FormatTypes /\ Progress(f, a) BY <1>1, <2>1 DEF FormatInv
    <2>4. out \in Seq(Byte) /\ data \in Seq(Byte) BY <2>3 DEF FormatTypes
    <2> HIDE DEF f, a
    <2>5. CASE returned
      <3>1. Over(Text) BY ONLY <2>2, <2>3, <2>5 DEF Progress
      <3>2. out \o <<>> = out BY ONLY <2>4, ConcatEmptySeq
      <3> QED BY ONLY <3>1, <3>2 DEF Over
    <2>6. CASE ~returned
      <3>1. PICK p, i : Going(f, a, p, i) BY ONLY <2>3, <2>6 DEF Progress
      <3>2. /\ Rendered(f, a) = p[1] /\ p[i] \in Seq(Byte)
            /\ (out \o data) \o p[i] = p[1]
        BY ONLY <2>3, <3>1, GoingIs
      <3>3. out \o data \in Seq(Byte) BY ONLY <2>4, ConcatProperties
      <3>4. IsPrefix(out \o data, (out \o data) \o p[i])
        <4> DEFINE b == out \o data
                   r == p[i]
        <4>1. b \in Seq(Byte) /\ r \in Seq(Byte) BY ONLY <3>2, <3>3
        <4> HIDE DEF b, r
        <4>2. IsPrefix(b, b \o r) BY ONLY <4>1, PrefixOf
        <4> QED BY ONLY <4>2 DEF b, r
      <3> QED BY ONLY <2>2, <2>6, <3>2, <3>4
    <2> QED BY ONLY <2>5, <2>6
  <1> QED BY <1>1, FormatHolds, PTL

=============================================================================
