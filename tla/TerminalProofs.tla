--------------------------- MODULE TerminalProofs ---------------------------
(***************************************************************************)
(* Theorems about Terminal and TerminalRace, for every size of the screen, *)
(* of the page of video memory and of a tab, and for texts of any length.  *)
(***************************************************************************)
EXTENDS TerminalRace, SequenceTheorems, TLAPS

-----------------------------------------------------------------------------
(***************************************************************************)
(* Rows, columns and cells                                                 *)
(***************************************************************************)

Rows == 0 .. (VGA_HEIGHT - 1)
Columns == 0 .. (VGA_WIDTH - 1)

LEMMA Sizes ==
  /\ VGA_HEIGHT \in Nat /\ VGA_HEIGHT > 1
  /\ VGA_WIDTH \in Nat /\ VGA_WIDTH > 1
  /\ TAB \in Nat /\ PAGE_CELLS \in Nat
  BY ScreenAssumption

\* The place x of row y is a cell of the screen, and y is its row.
LEMMA CellOfPlace ==
  ASSUME NEW y \in Rows, NEW x \in Columns
  PROVE  /\ y * VGA_WIDTH + x \in 0 .. (ScreenCells - 1)
         /\ y * VGA_WIDTH + x \in Cells
         /\ (y * VGA_WIDTH + x) \div VGA_WIDTH = y
  <1>1. y \in Nat /\ y + 1 <= VGA_HEIGHT /\ x \in Nat /\ x < VGA_WIDTH
    BY Sizes DEF Rows, Columns
  <1>2. y * VGA_WIDTH \in Nat
    BY <1>1, Sizes
  <1>3. (y + 1) * VGA_WIDTH <= VGA_HEIGHT * VGA_WIDTH
    BY <1>1, Sizes
  <1>4. (y + 1) * VGA_WIDTH = y * VGA_WIDTH + VGA_WIDTH
    BY <1>1, Sizes
  <1>5. ScreenCells \in Nat /\ ScreenCells = VGA_HEIGHT * VGA_WIDTH
    BY Sizes DEF ScreenCells
  <1>6. y * VGA_WIDTH + x < ScreenCells
    BY <1>1, <1>2, <1>3, <1>4, <1>5, Sizes
  <1>7. (y * VGA_WIDTH + x) \div VGA_WIDTH = y
    BY <1>1, Sizes
  <1> QED
    BY <1>1, <1>2, <1>5, <1>6, <1>7, ScreenAssumption DEF Cells

\* Every cell of the screen is a place of a row.
LEMMA PlaceOfCell ==
  ASSUME NEW i \in 0 .. (ScreenCells - 1)
  PROVE  \E y \in Rows, x \in Columns : i = y * VGA_WIDTH + x
  <1> DEFINE y == i \div VGA_WIDTH
             x == i % VGA_WIDTH
  <1>1. i \in Nat /\ i < VGA_HEIGHT * VGA_WIDTH
    BY Sizes DEF ScreenCells
  <1>2. y \in Nat /\ x \in Columns /\ i = y * VGA_WIDTH + x
    BY <1>1, Sizes DEF Columns
  <1> HIDE DEF y, x
  <1>3. y < VGA_HEIGHT
    <2>1. SUFFICES ASSUME VGA_HEIGHT <= y PROVE FALSE
      BY <1>2, Sizes
    <2>2. VGA_HEIGHT * VGA_WIDTH <= y * VGA_WIDTH
      BY <1>2, <2>1, Sizes
    <2>3. x >= 0 /\ x \in Int /\ y * VGA_WIDTH \in Int
      BY <1>2, Sizes DEF Columns
    <2> QED
      BY <1>1, <1>2, <2>2, <2>3, Sizes
  <1> QED
    BY <1>2, <1>3, Sizes DEF Rows

\* Two places with one cell are one place.
LEMMA PlacesDiffer ==
  ASSUME NEW y \in Rows, NEW x \in Columns, NEW z \in Rows, NEW u \in Columns,
         y * VGA_WIDTH + x = z * VGA_WIDTH + u
  PROVE  y = z /\ x = u
  <1>1. y = z
    BY CellOfPlace
  <1>2. x \in Int /\ u \in Int /\ y * VGA_WIDTH \in Int
    BY Sizes DEF Rows, Columns
  <1> QED
    BY <1>1, <1>2

LEMMA ScreenInPage ==
  /\ ScreenCells \in Nat /\ ScreenCells <= PAGE_CELLS
  /\ 0 .. (ScreenCells - 1) \subseteq Cells
  <1>1. ScreenCells \in Nat
    BY Sizes DEF ScreenCells
  <1> QED
    BY <1>1, ScreenAssumption DEF Cells

-----------------------------------------------------------------------------
(***************************************************************************)
(* The terminal's state and what the functions make of it                  *)
(***************************************************************************)

Shown == Glyphs \cup {Blank, Junk}
Lines == [Columns -> Shown]

Buffers == [Cells -> Shown]
Pages == Seq(Lines)

Terminals ==
  [row : Int, column : Int, buffer : Buffers, fault : BOOLEAN, scrolled : Pages]

\* What an assignment to one field leaves.
LEMMA WithRow ==
  ASSUME NEW t \in Terminals, NEW n \in Int
  PROVE  LET m == [t EXCEPT !.row = n] IN
         /\ m \in Terminals
         /\ m.row = n
         /\ m.column = t.column /\ m.buffer = t.buffer
         /\ m.fault = t.fault /\ m.scrolled = t.scrolled
  BY DEF Terminals

LEMMA WithColumn ==
  ASSUME NEW t \in Terminals, NEW n \in Int
  PROVE  LET m == [t EXCEPT !.column = n] IN
         /\ m \in Terminals
         /\ m.column = n
         /\ m.row = t.row /\ m.buffer = t.buffer
         /\ m.fault = t.fault /\ m.scrolled = t.scrolled
  BY DEF Terminals

LEMMA WithBuffer ==
  ASSUME NEW t \in Terminals, NEW b \in Buffers
  PROVE  LET m == [t EXCEPT !.buffer = b] IN
         /\ m \in Terminals
         /\ m.buffer = b
         /\ m.row = t.row /\ m.column = t.column
         /\ m.fault = t.fault /\ m.scrolled = t.scrolled
  BY DEF Terminals

LEMMA WithScrolled ==
  ASSUME NEW t \in Terminals, NEW s \in Pages
  PROVE  LET m == [t EXCEPT !.scrolled = s] IN
         /\ m \in Terminals
         /\ m.scrolled = s
         /\ m.row = t.row /\ m.column = t.column
         /\ m.buffer = t.buffer /\ m.fault = t.fault
  BY DEF Terminals

LEMMA WithFault ==
  ASSUME NEW t \in Terminals
  PROVE  LET m == [t EXCEPT !.fault = TRUE] IN
         /\ m \in Terminals
         /\ m.fault
         /\ m.row = t.row /\ m.column = t.column
         /\ m.buffer = t.buffer /\ m.scrolled = t.scrolled
  BY DEF Terminals

LEMMA Fields ==
  ASSUME NEW t \in Terminals
  PROVE  /\ t.row \in Int /\ t.column \in Int /\ t.fault \in BOOLEAN
         /\ t.buffer \in [Cells -> Shown] /\ t.scrolled \in Seq(Lines)
  BY DEF Terminals, Buffers, Pages

LEMMA RowIsALine ==
  ASSUME NEW t \in Terminals, NEW y \in Rows
  PROVE  /\ Row(t, y) \in Lines
         /\ \A x \in Columns : Row(t, y)[x] = t.buffer[y * VGA_WIDTH + x]
  <1>1. \A x \in Columns : y * VGA_WIDTH + x \in Cells
    BY CellOfPlace
  <1>2. t.buffer \in [Cells -> Shown]
    BY Fields
  <1> QED
    BY <1>1, <1>2 DEF Row, Lines, Columns

LEMMA BlankRowIsALine ==
  /\ BlankRow \in Lines
  /\ \A x \in Columns : BlankRow[x] = Blank
  BY DEF BlankRow, Lines, Columns, Shown

LEMMA StoreShape ==
  ASSUME NEW t \in Terminals, NEW n \in Int, NEW e \in Shown
  PROVE  /\ Store(t, n, e) \in Terminals
         /\ Store(t, n, e).row = t.row
         /\ Store(t, n, e).column = t.column
         /\ Store(t, n, e).scrolled = t.scrolled
         /\ n \in Cells =>
              /\ Store(t, n, e).fault = t.fault
              /\ Store(t, n, e).buffer = [t.buffer EXCEPT ![n] = e]
         /\ n \notin Cells => Store(t, n, e).fault
  <1>1. CASE n \in Cells
    <2> DEFINE b == [t.buffer EXCEPT ![n] = e]
    <2>1. Store(t, n, e) = [t EXCEPT !.buffer = b]
      BY <1>1 DEF Store
    <2>2. b \in Buffers
      BY Fields DEF Buffers
    <2> HIDE DEF b
    <2>3. /\ Store(t, n, e) \in Terminals
          /\ Store(t, n, e).row = t.row
          /\ Store(t, n, e).column = t.column
          /\ Store(t, n, e).scrolled = t.scrolled
          /\ Store(t, n, e).fault = t.fault
          /\ Store(t, n, e).buffer = b
      BY <2>1, <2>2, WithBuffer
    <2> QED
      BY <1>1, <2>3 DEF b
  <1>2. CASE n \notin Cells
    <2>1. Store(t, n, e) = [t EXCEPT !.fault = TRUE]
      BY <1>2 DEF Store
    <2> QED
      BY <1>2, <2>1, WithFault
  <1> QED
    BY <1>1, <1>2

LEMMA ScrollShape ==
  ASSUME NEW t \in Terminals
  PROVE  /\ scroll(t) \in Terminals
         /\ scroll(t).row = t.row - 1
         /\ scroll(t).column = t.column
         /\ scroll(t).fault = t.fault
         /\ scroll(t).scrolled = Append(t.scrolled, Row(t, 0))
         /\ scroll(t).buffer =
              [i \in Cells |->
                 IF i \div VGA_WIDTH = t.row - 1 THEN Blank
                 ELSE IF i + VGA_WIDTH < ScreenCells
                 THEN t.buffer[i + VGA_WIDTH] ELSE t.buffer[i]]
  <1> DEFINE b == [i \in Cells |->
                 IF i \div VGA_WIDTH = t.row - 1 THEN Blank
                 ELSE IF i + VGA_WIDTH < ScreenCells
                 THEN t.buffer[i + VGA_WIDTH] ELSE t.buffer[i]]
  <1>1. b \in Buffers
    <2>1. t.buffer \in [Cells -> Shown] /\ Blank \in Shown
      BY Fields DEF Shown
    <2>2. \A i \in Cells : i + VGA_WIDTH < ScreenCells => i + VGA_WIDTH \in Cells
      BY Sizes, ScreenInPage DEF Cells
    <2> QED
      BY <2>1, <2>2 DEF Buffers
  <1>2. Append(t.scrolled, Row(t, 0)) \in Pages
    <2>1. Row(t, 0) \in Lines
      BY RowIsALine, Sizes DEF Rows
    <2> QED
      BY <2>1, Fields, AppendProperties DEF Pages
  <1>3. t.row - 1 \in Int
    BY Fields
  <1> DEFINE r == t.row - 1
             s == Append(t.scrolled, Row(t, 0))
             t1 == [t EXCEPT !.row = r]
             t2 == [t1 EXCEPT !.buffer = b]
             t3 == [t2 EXCEPT !.scrolled = s]
  <1>4. scroll(t) = t3
    BY Zenon DEF scroll
  <1> HIDE DEF b, r, s
  <1>5. /\ t1 \in Terminals /\ t1.row = r /\ t1.column = t.column
        /\ t1.fault = t.fault
    BY <1>3, WithRow DEF r
  <1> HIDE DEF t1
  <1>6. /\ t2 \in Terminals /\ t2.row = r /\ t2.column = t.column
        /\ t2.fault = t.fault /\ t2.buffer = b
    BY <1>1, <1>5, WithBuffer
  <1> HIDE DEF t2
  <1>7. /\ t3 \in Terminals /\ t3.row = r /\ t3.column = t.column
        /\ t3.fault = t.fault /\ t3.buffer = b /\ t3.scrolled = s
    BY <1>2, <1>6, WithScrolled DEF s
  <1> HIDE DEF t3
  <1> QED
    BY <1>4, <1>7 DEF b, r, s

LEMMA NewlineShape ==
  ASSUME NEW t \in Terminals
  PROVE  /\ newline(t) \in Terminals
         /\ newline(t).row = t.row + 1
         /\ newline(t).column = 0
         /\ newline(t).fault = t.fault
         /\ newline(t).scrolled = t.scrolled
         /\ newline(t).buffer = t.buffer
  <1> DEFINE r == t.row + 1
             t1 == [t EXCEPT !.column = 0]
             t2 == [t1 EXCEPT !.row = r]
  <1>1. r \in Int
    BY Fields
  <1>2. t1 \in Terminals
    BY WithColumn
  <1>3. newline(t) = t2
    BY WithColumn DEF newline
  <1> HIDE DEF r
  <1>4. /\ t1.column = 0 /\ t1.fault = t.fault /\ t1.scrolled = t.scrolled
        /\ t1.buffer = t.buffer
    BY WithColumn
  <1> HIDE DEF t1
  <1>5. /\ t2 \in Terminals /\ t2.row = r /\ t2.column = 0
        /\ t2.fault = t.fault /\ t2.scrolled = t.scrolled
        /\ t2.buffer = t.buffer
    BY <1>1, <1>2, <1>4, WithRow
  <1> HIDE DEF t2
  <1> QED
    BY <1>3, <1>5 DEF r

-----------------------------------------------------------------------------
(***************************************************************************)
(* The page of Console that a terminal shows                               *)
(***************************************************************************)

ToCursor(t) ==
  [y \in 1 .. (t.row + 1) |-> IF y <= VGA_HEIGHT THEN Row(t, y - 1) ELSE BlankRow]

Page(t) == t.scrolled \o ToCursor(t)

\* The page p with e at the place x of its last line.
Edited(p, x, e) == [p EXCEPT ![Len(p)][x] = e]

LEMMA PageShape ==
  ASSUME NEW t \in Terminals, t.row \in 0 .. VGA_HEIGHT
  PROVE  /\ Page(t) \in Seq(Lines)
         /\ Len(Page(t)) = Len(t.scrolled) + (t.row + 1)
         /\ Len(t.scrolled) \in Nat
         /\ \A n \in 1 .. Len(t.scrolled) : Page(t)[n] = t.scrolled[n]
         /\ \A y \in 0 .. t.row :
              Page(t)[(Len(t.scrolled) + 1) + y] =
                IF y < VGA_HEIGHT THEN Row(t, y) ELSE BlankRow
  <1> DEFINE L == Len(t.scrolled)
             q == ToCursor(t)
  <1>1. t.row \in Nat /\ t.row <= VGA_HEIGHT /\ t.row + 1 \in Nat
    BY Sizes
  <1>2. t.scrolled \in Seq(Lines) /\ L \in Nat
    BY Fields, LenProperties
  <1>3. \A y \in 1 .. (t.row + 1) : y <= VGA_HEIGHT => Row(t, y - 1) \in Lines
    <2>1. ASSUME NEW y \in 1 .. (t.row + 1), y <= VGA_HEIGHT
          PROVE  y - 1 \in Rows
      BY <1>1, <2>1, Sizes DEF Rows
    <2> QED
      BY <2>1, RowIsALine
  <1>4. q \in [1 .. (t.row + 1) -> Lines]
    BY <1>3, BlankRowIsALine DEF ToCursor
  <1>5. q \in Seq(Lines) /\ Len(q) = t.row + 1
    BY <1>1, <1>4
  <1>6. \A y \in 0 .. t.row : q[y + 1] = IF y < VGA_HEIGHT THEN Row(t, y) ELSE BlankRow
    <2>1. ASSUME NEW y \in 0 .. t.row
          PROVE  /\ y + 1 \in 1 .. (t.row + 1) /\ (y + 1) - 1 = y
                 /\ y + 1 <= VGA_HEIGHT <=> y < VGA_HEIGHT
      BY <1>1, <2>1, Sizes
    <2> QED
      BY <2>1 DEF ToCursor
  <1> HIDE DEF q
  <1>7. /\ Page(t) \in Seq(Lines)
        /\ Len(Page(t)) = L + Len(q)
        /\ \A n \in 1 .. (L + Len(q)) :
             Page(t)[n] = IF n <= L THEN t.scrolled[n] ELSE q[n - L]
    BY <1>2, <1>5, ConcatProperties DEF Page, q
  <1> HIDE DEF L
  <1>8. \A n \in 1 .. L : Page(t)[n] = t.scrolled[n]
    <2>1. ASSUME NEW n \in 1 .. L PROVE n \in 1 .. (L + Len(q)) /\ n <= L
      BY <1>1, <1>2, <1>5
    <2> QED
      BY <1>7, <2>1
  <1>9. ASSUME NEW y \in 0 .. t.row
        PROVE  Page(t)[(L + 1) + y] = IF y < VGA_HEIGHT THEN Row(t, y) ELSE BlankRow
    <2>1. /\ (L + 1) + y \in 1 .. (L + Len(q)) /\ ~((L + 1) + y <= L)
          /\ ((L + 1) + y) - L = y + 1
      BY <1>1, <1>2, <1>5
    <2> QED
      BY <1>6, <1>7, <2>1
  <1> QED
    BY <1>2, <1>5, <1>7, <1>8, <1>9 DEF L

\* A sequence with the lines of t's page is t's page.
LEMMA SamePage ==
  ASSUME NEW t \in Terminals, t.row \in 0 .. VGA_HEIGHT,
         NEW p \in Seq(Lines),
         Len(p) = Len(t.scrolled) + (t.row + 1),
         \A n \in 1 .. Len(t.scrolled) : p[n] = t.scrolled[n],
         \A y \in 0 .. t.row : p[(Len(t.scrolled) + 1) + y] =
                                 IF y < VGA_HEIGHT THEN Row(t, y) ELSE BlankRow
  PROVE  p = Page(t)
  <1> DEFINE L == Len(t.scrolled)
  <1>1. Page(t) \in Seq(Lines) /\ Len(Page(t)) = Len(p) /\ L \in Nat
    BY PageShape
  <1>2. ASSUME NEW n \in 1 .. Len(p) PROVE p[n] = Page(t)[n]
    <2>1. CASE n <= L
      <3>1. n \in 1 .. L
        BY <1>1, <2>1
      <3> QED
        BY <3>1, PageShape
    <2>2. CASE n > L
      <3>1. PICK y \in 0 .. t.row : n = (L + 1) + y
        <4>1. Len(p) = L + (t.row + 1) /\ t.row \in Int
          BY Sizes
        <4>2. n \in 1 .. Len(p) /\ n > L /\ L \in Nat
          BY <1>1, <2>2
        <4> HIDE DEF L
        <4>3. n - (L + 1) \in 0 .. t.row /\ n = (L + 1) + (n - (L + 1))
          BY <4>1, <4>2
        <4> QED
          BY <4>3
      <3> HIDE DEF L
      <3> QED
        BY <3>1, PageShape DEF L
    <2> QED
      BY <1>1, <2>1, <2>2
  <1> QED
    BY <1>1, <1>2, SeqEqual

-----------------------------------------------------------------------------
(***************************************************************************)
(* What the functions do to the page and to the cells below the cursor     *)
(***************************************************************************)

CleanUnder(t) ==
  /\ \A y \in Rows, x \in Columns :
       y > t.row => t.buffer[y * VGA_WIDTH + x] = Blank
  /\ \A i \in Cells : i >= ScreenCells => t.buffer[i] = Junk

Sound(t) ==
  /\ t \in Terminals
  /\ t.row \in 0 .. VGA_HEIGHT
  /\ t.column \in Columns
  /\ t.fault = FALSE
  /\ CleanUnder(t)

\* A cell of scroll's screen is the cell below it, or blank.
LEMMA ScrolledCells ==
  ASSUME NEW t \in Terminals, t.row = VGA_HEIGHT
  PROVE  /\ \A y \in Rows, x \in Columns :
              scroll(t).buffer[y * VGA_WIDTH + x] =
                IF y = VGA_HEIGHT - 1 THEN Blank
                ELSE t.buffer[(y + 1) * VGA_WIDTH + x]
         /\ \A i \in Cells : i >= ScreenCells => scroll(t).buffer[i] = t.buffer[i]
  <1>1. ASSUME NEW y \in Rows, NEW x \in Columns
        PROVE  scroll(t).buffer[y * VGA_WIDTH + x] =
                IF y = VGA_HEIGHT - 1 THEN Blank
                ELSE t.buffer[(y + 1) * VGA_WIDTH + x]
    <2> DEFINE i == y * VGA_WIDTH + x
    <2>1. i \in Cells /\ i \div VGA_WIDTH = y
      BY CellOfPlace
    <2>2. y # VGA_HEIGHT - 1 =>
            /\ i + VGA_WIDTH = (y + 1) * VGA_WIDTH + x
            /\ i + VGA_WIDTH < ScreenCells
      <3>1. SUFFICES ASSUME y # VGA_HEIGHT - 1
                     PROVE  /\ i + VGA_WIDTH = (y + 1) * VGA_WIDTH + x
                            /\ i + VGA_WIDTH < ScreenCells
        OBVIOUS
      <3>2. y + 1 \in Rows
        BY <3>1, Sizes DEF Rows
      <3>3. (y + 1) * VGA_WIDTH + x < ScreenCells
        BY <3>2, CellOfPlace, ScreenInPage
      <3>4. i + VGA_WIDTH = (y + 1) * VGA_WIDTH + x
        BY Sizes DEF Rows, Columns
      <3> QED
        BY <3>3, <3>4
    <2> HIDE DEF i
    <2>3. scroll(t).buffer[i] =
            IF y = VGA_HEIGHT - 1 THEN Blank
            ELSE IF i + VGA_WIDTH < ScreenCells
            THEN t.buffer[i + VGA_WIDTH] ELSE t.buffer[i]
      BY <2>1, ScrollShape
    <2> QED
      BY <2>2, <2>3 DEF i
  <1>2. ASSUME NEW i \in Cells, i >= ScreenCells
        PROVE  scroll(t).buffer[i] = t.buffer[i]
    <2>1. i \in Nat /\ i >= VGA_HEIGHT * VGA_WIDTH
      BY <1>2, Sizes, ScreenInPage DEF Cells, ScreenCells
    <2>2. i \div VGA_WIDTH # VGA_HEIGHT - 1
      <3> DEFINE q == i \div VGA_WIDTH
      <3>1. q \in Int /\ i < (q + 1) * VGA_WIDTH
        BY <2>1, Sizes
      <3> HIDE DEF q
      <3>2. SUFFICES ASSUME q = VGA_HEIGHT - 1 PROVE FALSE
        BY DEF q
      <3>3. q + 1 = VGA_HEIGHT
        BY <3>2, Sizes
      <3>4. i < VGA_HEIGHT * VGA_WIDTH
        BY <3>1, <3>3
      <3>5. VGA_HEIGHT * VGA_WIDTH \in Int
        BY Sizes
      <3> QED
        BY <2>1, <3>4, <3>5
    <2>3. ~(i + VGA_WIDTH < ScreenCells)
      BY <1>2, <2>1, Sizes, ScreenInPage
    <2> QED
      BY <1>2, <2>2, <2>3, ScrollShape
  <1> QED
    BY <1>1, <1>2

\* Put off or not, a scroll does not change the page.
LEMMA ScrollKeeps ==
  ASSUME NEW t, Sound(t), t.row = VGA_HEIGHT
  PROVE  /\ Sound(scroll(t))
         /\ scroll(t).row = VGA_HEIGHT - 1
         /\ scroll(t).column = t.column
         /\ Page(scroll(t)) = Page(t)
  <1> DEFINE s == scroll(t)
  <1>1. t \in Terminals /\ t.column \in Columns /\ t.fault = FALSE /\ CleanUnder(t)
    BY DEF Sound
  <1>2. /\ s \in Terminals /\ s.row = VGA_HEIGHT - 1 /\ s.column = t.column
        /\ s.fault = FALSE /\ s.scrolled = Append(t.scrolled, Row(t, 0))
    BY <1>1, ScrollShape
  <1>3. /\ \A y \in Rows, x \in Columns :
             s.buffer[y * VGA_WIDTH + x] =
               IF y = VGA_HEIGHT - 1 THEN Blank
               ELSE t.buffer[(y + 1) * VGA_WIDTH + x]
        /\ \A i \in Cells : i >= ScreenCells => s.buffer[i] = t.buffer[i]
    BY <1>1, ScrolledCells
  <1> HIDE DEF s
  <1>4. s.row \in 0 .. VGA_HEIGHT /\ s.row + 1 = VGA_HEIGHT
    BY <1>2, Sizes
  <1>5. CleanUnder(s)
    <2>1. \A y \in Rows : ~(y > s.row)
      BY <1>2, Sizes DEF Rows
    <2> QED
      BY <1>1, <1>3, <2>1 DEF CleanUnder
  <1>6. ASSUME NEW y \in Rows
        PROVE  Row(s, y) = IF y = VGA_HEIGHT - 1 THEN BlankRow ELSE Row(t, y + 1)
    <2>1. CASE y = VGA_HEIGHT - 1
      BY <1>3, <2>1 DEF Row, BlankRow, Columns
    <2>2. CASE y # VGA_HEIGHT - 1
      BY <1>3, <2>2 DEF Row, Columns
    <2> QED
      BY <2>1, <2>2
  <1>7. Page(s) = Page(t)
    <2> DEFINE L == Len(t.scrolled)
    <2>1. Row(t, 0) \in Lines
      BY <1>1, RowIsALine, Sizes DEF Rows
    <2>2. /\ L \in Nat /\ Len(s.scrolled) = L + 1
          /\ \A n \in 1 .. L : s.scrolled[n] = t.scrolled[n]
          /\ s.scrolled[L + 1] = Row(t, 0)
      <3>1. t.scrolled \in Seq(Lines)
        BY <1>1, Fields
      <3> QED
        BY <1>2, <2>1, <3>1, LenProperties, AppendProperties
    <2>3. /\ Page(s) \in Seq(Lines)
          /\ Len(Page(s)) = Len(s.scrolled) + (s.row + 1)
          /\ \A n \in 1 .. Len(s.scrolled) : Page(s)[n] = s.scrolled[n]
          /\ \A y \in 0 .. s.row :
               Page(s)[(Len(s.scrolled) + 1) + y] =
                 IF y < VGA_HEIGHT THEN Row(s, y) ELSE BlankRow
      BY <1>2, <1>4, PageShape
    <2> HIDE DEF L
    <2>4. Len(Page(s)) = L + (t.row + 1)
      BY <1>2, <2>2, <2>3, Sizes
    <2>5. ASSUME NEW n \in 1 .. L PROVE Page(s)[n] = t.scrolled[n]
      <3>1. n \in 1 .. (L + 1)
        BY <2>2
      <3> QED
        BY <2>2, <2>3, <2>5, <3>1
    <2>6. ASSUME NEW y \in 0 .. t.row
          PROVE  Page(s)[(L + 1) + y] = IF y < VGA_HEIGHT THEN Row(t, y) ELSE BlankRow
      <3>1. CASE y = 0
        <4>1. (L + 1) + y = L + 1 /\ L + 1 \in 1 .. (L + 1) /\ y < VGA_HEIGHT
          BY <2>2, <3>1, Sizes
        <4> QED
          BY <2>2, <2>3, <3>1, <4>1
      <3>2. CASE y # 0
        <4>1. /\ y - 1 \in 0 .. s.row /\ y - 1 \in Rows /\ (y - 1) + 1 = y
              /\ (L + 1) + y = ((L + 1) + 1) + (y - 1)
              /\ y - 1 < VGA_HEIGHT
              /\ y - 1 = VGA_HEIGHT - 1 <=> ~(y < VGA_HEIGHT)
          BY <1>2, <2>2, <2>6, <3>2, Sizes DEF Rows
        <4>2. Page(s)[(L + 1) + y] = Row(s, y - 1)
          BY <2>2, <2>3, <4>1
        <4> QED
          BY <1>6, <4>1, <4>2
      <3> QED
        BY <3>1, <3>2
    <2>7. t.row \in 0 .. VGA_HEIGHT
      BY Sizes
    <2> QED
      BY <1>1, <2>3, <2>4, <2>5, <2>6, <2>7, SamePage DEF L
  <1>8. Sound(s)
    BY <1>1, <1>2, <1>4, <1>5 DEF Sound
  <1> QED
    BY <1>2, <1>7, <1>8 DEF s

\* A newline opens a line at the end of the page: the row it comes to is blank.
LEMMA NewlineKeeps ==
  ASSUME NEW t, Sound(t), t.row < VGA_HEIGHT
  PROVE  /\ Sound(newline(t))
         /\ newline(t).row = t.row + 1
         /\ newline(t).column = 0
         /\ Page(newline(t)) = Append(Page(t), BlankRow)
  <1> DEFINE s == newline(t)
             L == Len(t.scrolled)
             p == Append(Page(t), BlankRow)
  <1>1. t \in Terminals /\ t.row \in 0 .. VGA_HEIGHT /\ t.fault = FALSE /\ CleanUnder(t)
    BY DEF Sound
  <1>2. /\ s \in Terminals /\ s.row = t.row + 1 /\ s.column = 0
        /\ s.fault = FALSE /\ s.scrolled = t.scrolled /\ s.buffer = t.buffer
    BY <1>1, NewlineShape
  <1> HIDE DEF s
  <1>3. /\ s.row \in 0 .. VGA_HEIGHT /\ t.row \in Nat
        /\ s.column \in Columns
    BY <1>1, <1>2, Sizes DEF Columns
  <1>4. CleanUnder(s)
    <2>1. \A y \in Rows : y > s.row => y > t.row
      BY <1>2, <1>3, Sizes DEF Rows
    <2> QED
      BY <1>1, <1>2, <2>1 DEF CleanUnder
  <1>5. ASSUME NEW y \in Rows PROVE Row(s, y) = Row(t, y)
    BY <1>2 DEF Row
  <1>6. ASSUME s.row < VGA_HEIGHT PROVE Row(s, s.row) = BlankRow
    <2>1. s.row \in Rows /\ s.row > t.row
      BY <1>2, <1>3, <1>6, Sizes DEF Rows
    <2>2. \A x \in Columns : s.buffer[s.row * VGA_WIDTH + x] = Blank
      BY <1>1, <1>2, <2>1 DEF CleanUnder
    <2> QED
      BY <2>2 DEF Row, BlankRow, Columns
  <1>7. /\ Page(t) \in Seq(Lines)
        /\ Len(Page(t)) = L + (t.row + 1)
        /\ L \in Nat
        /\ \A n \in 1 .. L : Page(t)[n] = t.scrolled[n]
        /\ \A y \in 0 .. t.row :
             Page(t)[(L + 1) + y] = IF y < VGA_HEIGHT THEN Row(t, y) ELSE BlankRow
    BY <1>1, PageShape
  <1>8. /\ p \in Seq(Lines)
        /\ Len(p) = Len(Page(t)) + 1
        /\ \A n \in 1 .. Len(Page(t)) : p[n] = Page(t)[n]
        /\ p[Len(Page(t)) + 1] = BlankRow
    BY <1>7, BlankRowIsALine, AppendProperties
  <1> HIDE DEF L, p
  <1>9. p = Page(s)
    <2>1. Len(p) = L + (s.row + 1)
      BY <1>2, <1>3, <1>7, <1>8
    <2>2. ASSUME NEW n \in 1 .. L PROVE p[n] = s.scrolled[n]
      <3>1. n \in 1 .. Len(Page(t))
        BY <1>3, <1>7
      <3> QED
        BY <1>2, <1>7, <1>8, <2>2, <3>1
    <2>3. ASSUME NEW y \in 0 .. s.row
          PROVE  p[(L + 1) + y] = IF y < VGA_HEIGHT THEN Row(s, y) ELSE BlankRow
      <3>1. CASE y <= t.row
        <4>1. /\ y \in 0 .. t.row /\ y \in Rows /\ y < VGA_HEIGHT
              /\ (L + 1) + y \in 1 .. Len(Page(t))
          BY <1>3, <1>7, <2>3, <3>1, Sizes DEF Rows
        <4> QED
          BY <1>5, <1>7, <1>8, <4>1
      <3>2. CASE y > t.row
        <4>1. y = s.row /\ (L + 1) + y = Len(Page(t)) + 1
          <5>1. s.row = t.row + 1 /\ t.row \in Nat
            BY <1>2, <1>3
          <5>2. y \in 0 .. s.row /\ y > t.row
            BY <2>3, <3>2
          <5>3. Len(Page(t)) = L + (t.row + 1) /\ L \in Nat
            BY <1>7
          <5>4. y = t.row + 1
            BY <5>1, <5>2
          <5>5. (L + 1) + y = (L + (t.row + 1)) + 1
            <6>1. L \in Nat /\ t.row \in Nat
              BY <5>1, <5>3
            <6>2. \A a, b \in Nat : (a + 1) + (b + 1) = (a + (b + 1)) + 1
              OBVIOUS
            <6> QED
              BY <6>1, <6>2, <5>4
          <5> QED
            BY <5>1, <5>3, <5>4, <5>5
        <4> QED
          BY <1>6, <1>8, <4>1
      <3> QED
        BY <1>3, <2>3, <3>1, <3>2
    <2>4. s \in Terminals /\ s.row \in 0 .. VGA_HEIGHT /\ p \in Seq(Lines)
      BY <1>2, <1>3, <1>8
    <2>5. L = Len(s.scrolled)
      BY <1>2 DEF L
    <2> QED
      BY <2>1, <2>2, <2>3, <2>4, <2>5, SamePage
  <1>10. Sound(s)
    BY <1>2, <1>3, <1>4 DEF Sound
  <1> QED
    BY <1>2, <1>9, <1>10 DEF s, p

\* A store into the cursor's row changes one place of the last line.
LEMMA StoreKeeps ==
  ASSUME NEW t, Sound(t), t.row < VGA_HEIGHT, NEW x \in Columns, NEW e \in Shown
  PROVE  LET s == Store(t, t.row * VGA_WIDTH + x, e) IN
         /\ Sound(s)
         /\ s.row = t.row
         /\ s.column = t.column
         /\ Page(s) = Edited(Page(t), x, e)
  <1> DEFINE i == t.row * VGA_WIDTH + x
             s == Store(t, i, e)
             L == Len(t.scrolled)
  <1>1. /\ t \in Terminals /\ t.row \in 0 .. VGA_HEIGHT /\ t.column \in Columns
        /\ t.fault = FALSE /\ CleanUnder(t)
    BY DEF Sound
  <1>2. t.row \in Rows /\ t.row \in Nat
    BY <1>1, Sizes DEF Rows
  <1>3. i \in Cells /\ i < ScreenCells /\ i \in Int
    BY <1>2, CellOfPlace, ScreenInPage
  <1>4. /\ s \in Terminals /\ s.row = t.row /\ s.column = t.column
        /\ s.fault = FALSE /\ s.scrolled = t.scrolled
        /\ s.buffer = [t.buffer EXCEPT ![i] = e]
    <2>1. s = Store(t, i, e)
      OBVIOUS
    <2> HIDE DEF i, s
    <2>2. t \in Terminals /\ i \in Int /\ i \in Cells /\ t.fault = FALSE
      BY <1>1, <1>3
    <2> QED
      BY <2>1, <2>2, StoreShape
  <1>5. t.buffer \in [Cells -> Shown]
    BY <1>1, Fields
  <1> HIDE DEF s
  <1>6. ASSUME NEW y \in Rows, NEW u \in Columns
        PROVE  s.buffer[y * VGA_WIDTH + u] =
                 IF y = t.row /\ u = x THEN e ELSE t.buffer[y * VGA_WIDTH + u]
    <2>1. y * VGA_WIDTH + u \in Cells
      BY CellOfPlace
    <2>2. y * VGA_WIDTH + u = i <=> y = t.row /\ u = x
      BY <1>2, PlacesDiffer
    <2> HIDE DEF i
    <2> QED
      BY <1>4, <1>5, <2>1, <2>2
  <1> HIDE DEF i
  <1>7. CleanUnder(s)
    <2>1. \A y \in Rows : y > s.row => y > t.row /\ y # t.row
      BY <1>2, <1>4, Sizes DEF Rows
    <2>2. \A y \in Rows, u \in Columns :
            y > s.row => s.buffer[y * VGA_WIDTH + u] = Blank
      BY <1>1, <1>6, <2>1 DEF CleanUnder
    <2>3. ASSUME NEW j \in Cells, j >= ScreenCells PROVE s.buffer[j] = Junk
      <3>1. j # i
        BY <1>3, <2>3, ScreenInPage DEF Cells
      <3> QED
        BY <1>1, <1>4, <1>5, <2>3, <3>1 DEF CleanUnder
    <2> QED
      BY <2>2, <2>3 DEF CleanUnder
  <1>8. Sound(s)
    BY <1>1, <1>4, <1>7 DEF Sound
  <1>9. ASSUME NEW y \in Rows
        PROVE  Row(s, y) = IF y = t.row THEN [Row(t, y) EXCEPT ![x] = e] ELSE Row(t, y)
    <2>1. CASE y = t.row
      <3>1. Row(s, y) \in Lines /\ Row(t, y) \in Lines
        BY <1>1, <1>4, RowIsALine
      <3>2. ASSUME NEW u \in Columns
            PROVE  Row(s, y)[u] = [Row(t, y) EXCEPT ![x] = e][u]
        <4>1. Row(s, y)[u] = IF u = x THEN e ELSE t.buffer[y * VGA_WIDTH + u]
          BY <1>4, <1>6, <2>1, RowIsALine
        <4>2. Row(t, y)[u] = t.buffer[y * VGA_WIDTH + u]
          BY <1>1, RowIsALine
        <4> QED
          BY <3>1, <4>1, <4>2 DEF Lines
      <3> QED
        BY <2>1, <3>1, <3>2 DEF Lines
    <2>2. CASE y # t.row
      BY <1>6, <2>2 DEF Row, Columns
    <2> QED
      BY <2>1, <2>2
  <1>10. Page(s) = Edited(Page(t), x, e)
    <2> DEFINE k == Len(Page(t))
               line == [Row(t, t.row) EXCEPT ![x] = e]
               p == [Page(t) EXCEPT ![k] = line]
    <2>1. /\ Page(t) \in Seq(Lines)
          /\ k = L + (t.row + 1)
          /\ L \in Nat
          /\ \A n \in 1 .. L : Page(t)[n] = t.scrolled[n]
          /\ \A y \in 0 .. t.row :
               Page(t)[(L + 1) + y] = IF y < VGA_HEIGHT THEN Row(t, y) ELSE BlankRow
      BY <1>1, PageShape
    <2> HIDE DEF L, k
    <2>2. k \in 1 .. k /\ k = (L + 1) + t.row /\ t.row \in 0 .. t.row
      BY <1>2, <2>1
    <2>3. Page(t)[k] = Row(t, t.row)
      BY <2>1, <2>2
    <2>4. line \in Lines
      <3>1. Row(t, t.row) \in Lines
        BY <1>1, <1>2, RowIsALine
      <3> QED
        BY <3>1 DEF Lines
    <2> HIDE DEF line
    <2>5. /\ p \in Seq(Lines) /\ Len(p) = k
          /\ \A n \in 1 .. k : p[n] = IF n = k THEN line ELSE Page(t)[n]
      BY <2>1, <2>2, <2>4, ExceptSeq DEF k
    <2> HIDE DEF p
    <2>6. Len(p) = L + (s.row + 1)
      BY <1>4, <2>1, <2>5
    <2>7. ASSUME NEW n \in 1 .. L PROVE p[n] = s.scrolled[n]
      <3>1. n \in 1 .. k /\ n # k
        BY <1>2, <2>1, <2>7
      <3> QED
        BY <1>4, <2>1, <2>5, <2>7, <3>1
    <2>8. ASSUME NEW y \in 0 .. s.row
          PROVE  p[(L + 1) + y] = IF y < VGA_HEIGHT THEN Row(s, y) ELSE BlankRow
      <3>1. /\ y \in Rows /\ y < VGA_HEIGHT /\ (L + 1) + y \in 1 .. k
            /\ (L + 1) + y = k <=> y = t.row
            /\ y \in 0 .. t.row
        <4>1. /\ y \in 0 .. t.row /\ t.row \in Nat /\ t.row < VGA_HEIGHT
              /\ L \in Nat
          BY <1>2, <1>4, <2>1, <2>8
        <4>2. k = (L + 1) + t.row
          BY <2>2
        <4> QED
          BY <4>1, <4>2, Sizes DEF Rows
      <3>2. p[(L + 1) + y] = IF y = t.row THEN line ELSE Page(t)[(L + 1) + y]
        BY <2>5, <3>1
      <3>3. Page(t)[(L + 1) + y] = Row(t, y)
        BY <2>1, <3>1
      <3> QED
        BY <1>9, <3>1, <3>2, <3>3 DEF line
    <2>9. p = Page(s)
      <3>1. /\ s \in Terminals /\ s.row \in 0 .. VGA_HEIGHT
            /\ p \in Seq(Lines) /\ Len(s.scrolled) = L
        BY <1>1, <1>4, <2>5 DEF L
      <3> QED
        BY ONLY <2>6, <2>7, <2>8, <3>1, SamePage, Zenon
    <2>10. p = [Page(t) EXCEPT ![k][x] = e]
      BY <2>3 DEF p, line
    <2> QED
      BY <2>9, <2>10 DEF k, Edited
  <1> QED
    BY <1>4, <1>8, <1>10 DEF s, i

\* The column is not on the page.
LEMMA ColumnKeeps ==
  ASSUME NEW t, Sound(t), NEW k \in Columns
  PROVE  LET m == [t EXCEPT !.column = k] IN
         /\ Sound(m)
         /\ m.row = t.row
         /\ m.column = k
         /\ Page(m) = Page(t)
  <1> DEFINE m == [t EXCEPT !.column = k]
  <1>1. t \in Terminals /\ k \in Int
    BY Sizes DEF Sound, Columns
  <1>2. /\ m \in Terminals /\ m.column = k /\ m.row = t.row
        /\ m.buffer = t.buffer /\ m.fault = t.fault /\ m.scrolled = t.scrolled
    BY <1>1, WithColumn
  <1> HIDE DEF m
  <1>3. Sound(m)
    BY <1>2 DEF Sound, CleanUnder
  <1>4. Page(m) = Page(t)
    <2>1. \A y : Row(m, y) = Row(t, y)
      BY <1>2 DEF Row
    <2> QED
      BY <1>2, <2>1 DEF Page, ToCursor
  <1> QED
    BY <1>2, <1>3, <1>4 DEF m

-----------------------------------------------------------------------------
(***************************************************************************)
(* terminal_putchar, character by character                                *)
(***************************************************************************)

Brought(t) == IF t.row = VGA_HEIGHT THEN scroll(t) ELSE t

LEMMA BroughtOnScreen ==
  ASSUME NEW t, Sound(t)
  PROVE  /\ Sound(Brought(t))
         /\ Brought(t).row < VGA_HEIGHT
         /\ Brought(t).column = t.column
         /\ Page(Brought(t)) = Page(t)
  <1>1. CASE t.row = VGA_HEIGHT
    BY <1>1, ScrollKeeps, Sizes DEF Brought
  <1>2. CASE t.row # VGA_HEIGHT
    <2>1. t.row < VGA_HEIGHT
      BY <1>2, Sizes DEF Sound
    <2> QED
      BY <1>2, <2>1 DEF Brought
  <1> QED
    BY <1>1, <1>2

LEMMA GlyphKeeps ==
  ASSUME NEW t, Sound(t), t.row < VGA_HEIGHT, NEW c \in Glyphs
  PROVE  LET p == Edited(Page(t), t.column, c) IN
         /\ Sound(glyph(t, c))
         /\ \/ /\ t.column + 1 < VGA_WIDTH
               /\ glyph(t, c).column = t.column + 1
               /\ Page(glyph(t, c)) = p
            \/ /\ t.column + 1 = VGA_WIDTH
               /\ glyph(t, c).column = 0
               /\ Page(glyph(t, c)) = Append(p, BlankRow)
  <1> DEFINE put == Store(t, Index(t), c)
             p == Edited(Page(t), t.column, c)
  <1>1. t.column \in Columns /\ c \in Shown
    BY DEF Sound, Shown
  <1>2. /\ Sound(put) /\ put.row = t.row /\ put.column = t.column
        /\ Page(put) = p
    <2>1. put = Store(t, t.row * VGA_WIDTH + t.column, c)
      BY DEF Index
    <2> HIDE DEF put
    <2> QED
      BY <1>1, <2>1, StoreKeeps
  <1>3. glyph(t, c) =
          IF put.fault THEN put
          ELSE IF put.column + 1 < VGA_WIDTH THEN [put EXCEPT !.column = put.column + 1]
          ELSE IF newline(put).row < VGA_HEIGHT THEN newline(put)
          ELSE scroll(newline(put))
    BY Zenon DEF glyph, newline
  <1> HIDE DEF put, p
  <1>4. put.fault = FALSE
    BY <1>2 DEF Sound
  <1>5. CASE t.column + 1 < VGA_WIDTH
    <2>1. t.column + 1 \in Columns
      BY <1>1, <1>5, Sizes DEF Columns
    <2>2. glyph(t, c) = [put EXCEPT !.column = t.column + 1]
      BY <1>2, <1>3, <1>4, <1>5
    <2>3. /\ Sound(glyph(t, c)) /\ glyph(t, c).column = t.column + 1
          /\ Page(glyph(t, c)) = Page(put)
      BY <1>2, <2>1, <2>2, ColumnKeeps
    <2> QED
      BY <1>2, <1>5, <2>3 DEF p
  <1>6. CASE ~(t.column + 1 < VGA_WIDTH)
    <2> DEFINE next == newline(put)
    <2>1. t.column + 1 = VGA_WIDTH
      BY <1>1, <1>6, Sizes DEF Columns
    <2>2. /\ Sound(next) /\ next.row = t.row + 1 /\ next.column = 0
          /\ Page(next) = Append(p, BlankRow)
      BY <1>2, NewlineKeeps
    <2>3. glyph(t, c) = IF next.row < VGA_HEIGHT THEN next ELSE scroll(next)
      BY <1>2, <1>3, <1>4, <1>6
    <2> HIDE DEF next
    <2>4. CASE next.row < VGA_HEIGHT
      BY <2>1, <2>2, <2>3, <2>4 DEF p
    <2>5. CASE ~(next.row < VGA_HEIGHT)
      <3>1. next.row = VGA_HEIGHT
        BY <2>2, <2>5, Sizes DEF Sound
      <3> QED
        BY <2>1, <2>2, <2>3, <2>5, <3>1, ScrollKeeps DEF p
    <2> QED
      BY <2>4, <2>5
  <1> QED
    BY <1>5, <1>6

LEMMA BackspaceKeeps ==
  ASSUME NEW t, Sound(t), t.row < VGA_HEIGHT
  PROVE  LET k == IF t.column = 0 THEN 0 ELSE t.column - 1 IN
         /\ Sound(backspace(t))
         /\ backspace(t).column = k
         /\ Page(backspace(t)) = Edited(Page(t), k, Blank)
  <1> DEFINE k == IF t.column = 0 THEN 0 ELSE t.column - 1
             back == [t EXCEPT !.column = k]
  <1>1. k \in Columns
    BY Sizes DEF Sound, Columns
  <1>2. Blank \in Shown
    BY DEF Shown
  <1>3. backspace(t) = Store(back, Index(back), Blank)
    BY Zenon DEF backspace
  <1> HIDE DEF k
  <1>4. /\ Sound(back) /\ back.row = t.row /\ back.column = k
        /\ Page(back) = Page(t)
    BY <1>1, ColumnKeeps
  <1> HIDE DEF back
  <1>5. Index(back) = back.row * VGA_WIDTH + k
    BY <1>4 DEF Index
  <1>6. LET s == Store(back, back.row * VGA_WIDTH + k, Blank) IN
        /\ Sound(s) /\ s.column = back.column
        /\ Page(s) = Edited(Page(back), k, Blank)
    <2>1. back.row < VGA_HEIGHT
      BY <1>4
    <2> QED
      BY <1>1, <1>2, <1>4, <2>1, StoreKeeps
  <1> QED
    BY <1>3, <1>4, <1>5, <1>6 DEF k

\* Every call is a step of Console.
LEMMA PutcharKeeps ==
  ASSUME NEW t, Sound(t), NEW c \in Chars,
         c = TABULATOR => t.column + TAB < VGA_WIDTH
  PROVE  LET n == terminal_putchar(t, c)
             p == Page(t)
             k == IF t.column = 0 THEN 0 ELSE t.column - 1
         IN
         /\ Sound(n)
         /\ \/ /\ c \in Glyphs /\ t.column + 1 < VGA_WIDTH
               /\ n.column = t.column + 1 /\ Page(n) = Edited(p, t.column, c)
            \/ /\ c \in Glyphs /\ t.column + 1 = VGA_WIDTH
               /\ n.column = 0
               /\ Page(n) = Append(Edited(p, t.column, c), BlankRow)
            \/ n.column = 0 /\ Page(n) = Append(p, BlankRow)
            \/ n.column = t.column + TAB /\ n.column \in Columns /\ Page(n) = p
            \/ n.column = k /\ Page(n) = Edited(p, k, Blank)
  <1> DEFINE n == terminal_putchar(t, c)
             on == Brought(t)
  <1>1. /\ Sound(on) /\ on.row < VGA_HEIGHT /\ on.column = t.column
        /\ Page(on) = Page(t)
    BY BroughtOnScreen
  <1>2. n = CASE c = NEWLINE    -> newline(on)
              [] c = TABULATOR  -> tabulator(on)
              [] c = BACKSPACE  -> backspace(on)
              [] OTHER          -> glyph(on, c)
    BY Zenon DEF terminal_putchar, Brought
  <1> HIDE DEF n, on
  <1>3. CASE c = NEWLINE
    <2>1. n = newline(on)
      BY <1>2, <1>3, CharsAssumption, Zenon
    <2> QED
      BY <1>1, <2>1, NewlineKeeps DEF n
  <1>4. CASE c = TABULATOR
    <2>1. n = tabulator(on)
      BY <1>2, <1>4, CharsAssumption, Zenon
    <2>2. n = [on EXCEPT !.column = on.column + TAB]
      BY <2>1, Zenon DEF tabulator
    <2>3. on.column + TAB \in Columns
      BY <1>1, <1>4, Sizes DEF Columns, Sound
    <2>4. Sound(n) /\ n.column = on.column + TAB /\ Page(n) = Page(on)
      BY <1>1, <2>2, <2>3, ColumnKeeps
    <2> QED
      BY <1>1, <2>3, <2>4 DEF n
  <1>5. CASE c = BACKSPACE
    <2>1. n = backspace(on)
      BY <1>2, <1>5, CharsAssumption, Zenon
    <2> QED
      BY <1>1, <2>1, BackspaceKeeps DEF n
  <1>6. CASE c \notin {NEWLINE, TABULATOR, BACKSPACE}
    <2>1. c \in Glyphs
      BY <1>6 DEF Chars
    <2>2. n = glyph(on, c)
      BY <1>2, <1>6, Zenon
    <2>3. /\ Sound(n)
          /\ \/ /\ on.column + 1 < VGA_WIDTH
                /\ n.column = on.column + 1
                /\ Page(n) = Edited(Page(on), on.column, c)
             \/ /\ on.column + 1 = VGA_WIDTH
                /\ n.column = 0
                /\ Page(n) = Append(Edited(Page(on), on.column, c), BlankRow)
      BY <1>1, <2>1, <2>2, GlyphKeeps
    <2> QED
      BY <1>1, <2>1, <2>3 DEF n
  <1> QED
    BY <1>3, <1>4, <1>5, <1>6

-----------------------------------------------------------------------------
(***************************************************************************)
(* Theorems about Terminal                                                 *)
(***************************************************************************)

\* The terminal before terminal_init.
AtBoot == [row |-> 0, column |-> 0, buffer |-> [i \in Cells |-> Junk],
           fault |-> FALSE, scrolled |-> <<>>]

(***************************************************************************)
(* The inductive invariant: the cursor is on the screen, or on the row     *)
(* below it, and the cells below the cursor's row are blank.               *)
(***************************************************************************)
ScreenInv ==
  /\ ready \in BOOLEAN
  /\ printed \in 0 .. MaxChars
  /\ IF ready THEN Sound(tty) ELSE tty = AtBoot

\* terminal_init leaves an empty page.
LEMMA InitPage ==
  Sound(init(AtBoot)) /\ init(AtBoot).column = 0 /\ Page(init(AtBoot)) = <<BlankRow>>
  <1> DEFINE b == [i \in Cells |-> IF i < ScreenCells THEN Blank ELSE Junk]
             t == [row |-> 0, column |-> 0, buffer |-> b, fault |-> FALSE,
                   scrolled |-> <<>>]
  <1>1. init(AtBoot) = t
    <2>1. init(AtBoot) = [AtBoot EXCEPT !.row = 0, !.column = 0,
                            !.buffer = [i \in Cells |->
                               IF i < ScreenCells THEN Blank ELSE AtBoot.buffer[i]]]
      BY Zenon DEF init, AtBoot
    <2>2. \A i \in Cells : AtBoot.buffer[i] = Junk
      BY DEF AtBoot
    <2>3. [i \in Cells |-> IF i < ScreenCells THEN Blank ELSE AtBoot.buffer[i]] = b
      BY <2>2
    <2> QED
      BY <2>1, <2>3 DEF AtBoot
  <1>2. b \in Buffers
    BY DEF Buffers, Shown
  <1>3. <<>> \in Pages
    BY EmptySeq DEF Pages
  <1> HIDE DEF b
  <1>4. /\ t \in Terminals /\ t.row = 0 /\ t.column = 0 /\ t.buffer = b
        /\ t.fault = FALSE /\ t.scrolled = <<>>
    BY <1>2, <1>3 DEF Terminals
  <1> HIDE DEF t
  <1>5. \A y \in Rows, x \in Columns : t.buffer[y * VGA_WIDTH + x] = Blank
    <2>1. ASSUME NEW y \in Rows, NEW x \in Columns
          PROVE  y * VGA_WIDTH + x \in Cells /\ y * VGA_WIDTH + x < ScreenCells
      BY CellOfPlace, ScreenInPage
    <2> QED
      BY <1>4, <2>1 DEF b
  <1>6. \A i \in Cells : i >= ScreenCells => t.buffer[i] = Junk
    <2>1. \A i \in Cells : i >= ScreenCells => ~(i < ScreenCells)
      BY ScreenInPage DEF Cells
    <2> QED
      BY <1>4, <2>1 DEF b
  <1>7. t.row \in 0 .. VGA_HEIGHT /\ t.column \in Columns /\ 0 \in Rows
    BY <1>4, Sizes DEF Columns, Rows
  <1>8. Sound(t)
    BY <1>4, <1>5, <1>6, <1>7 DEF Sound, CleanUnder
  <1>9. Page(t) = <<BlankRow>>
    <2>1. Row(t, 0) = BlankRow
      BY <1>5, <1>7 DEF Row, BlankRow, Columns
    <2>2. <<BlankRow>> \in Seq(Lines) /\ Len(<<BlankRow>>) = 1 /\ <<BlankRow>>[1] = BlankRow
      BY BlankRowIsALine
    <2>3. Len(t.scrolled) = 0
      BY <1>4, EmptySeq
    <2>4. \A y \in 0 .. t.row : y = 0 /\ (Len(t.scrolled) + 1) + y = 1
      BY <1>4, <2>3
    <2>5. Len(<<BlankRow>>) = Len(t.scrolled) + (t.row + 1)
      BY <1>4, <2>2, <2>3
    <2>6. \A n \in 1 .. Len(t.scrolled) : <<BlankRow>>[n] = t.scrolled[n]
      BY <2>3
    <2>7. 0 < VGA_HEIGHT
      BY Sizes
    <2>8. \A y \in 0 .. t.row : <<BlankRow>>[(Len(t.scrolled) + 1) + y] =
                                 IF y < VGA_HEIGHT THEN Row(t, y) ELSE BlankRow
      BY <2>1, <2>2, <2>4, <2>7
    <2> QED
      BY <1>4, <1>7, <2>2, <2>5, <2>6, <2>8, SamePage
  <1> QED
    BY <1>1, <1>4, <1>8, <1>9 DEF t

LEMMA InitHolds == Init => ScreenInv
  <1>1. 0 \in 0 .. MaxChars
    BY BoundAssumption
  <1> QED
    BY <1>1, Zenon DEF Init, ScreenInv, AtBoot

LEMMA InitStep ==
  ASSUME ScreenInv, terminal_init
  PROVE  /\ ScreenInv' /\ ~ready /\ ready'
         /\ tty = AtBoot /\ Sound(tty') /\ tty'.column = 0
         /\ Page(tty') = <<BlankRow>>
  <1>1. tty = AtBoot /\ tty' = init(tty) /\ ready' = TRUE /\ printed' = printed
    BY DEF ScreenInv, terminal_init
  <1>2. Sound(tty') /\ tty'.column = 0 /\ Page(tty') = <<BlankRow>>
    BY <1>1, InitPage
  <1> QED
    BY <1>1, <1>2 DEF ScreenInv, terminal_init

LEMMA PutcharStep ==
  ASSUME ScreenInv, NEW c \in Chars, Putchar(c), c = TABULATOR => TabFits
  PROVE  /\ ScreenInv' /\ ready /\ ready'
         /\ Sound(tty) /\ tty' = terminal_putchar(tty, c) /\ Sound(tty')
  <1>1. /\ ready /\ tty' = terminal_putchar(tty, c) /\ ready' = ready
        /\ printed < MaxChars /\ printed' = printed + 1
    BY DEF Putchar
  <1>2. Sound(tty)
    BY <1>1 DEF ScreenInv
  <1>3. c = TABULATOR => tty.column + TAB < VGA_WIDTH
    BY DEF TabFits
  <1>4. Sound(tty')
    BY <1>1, <1>2, <1>3, PutcharKeeps
  <1>5. printed' \in 0 .. MaxChars
    BY <1>1, BoundAssumption DEF ScreenInv
  <1> QED
    BY <1>1, <1>2, <1>4, <1>5 DEF ScreenInv

(***************************************************************************)
(* In every text whose tabs end on the line they begin on the cursor stays *)
(* on the screen or on the row below it, and the cells below its row are   *)
(* blank.                                                                  *)
(***************************************************************************)
THEOREM ScreenInductive == SpecOnLine => []ScreenInv
  <1>1. ScreenInv /\ [NextOnLine]_vars => ScreenInv'
    <2> SUFFICES ASSUME ScreenInv, [NextOnLine]_vars PROVE ScreenInv'
      OBVIOUS
    <2>1. CASE UNCHANGED vars
      BY <2>1 DEF vars, ScreenInv
    <2>2. CASE terminal_init
      BY <2>2, InitStep
    <2>3. CASE \E c \in Chars \ {TABULATOR} : Putchar(c)
      BY <2>3, PutcharStep
    <2>4. CASE TabFits /\ Putchar(TABULATOR)
      <3>1. TABULATOR \in Chars
        BY DEF Chars
      <3> QED
        BY <2>4, <3>1, PutcharStep
    <2> QED
      BY <2>1, <2>2, <2>3, <2>4 DEF NextOnLine
  <1> QED
    BY <1>1, InitHolds, PTL DEF SpecOnLine

(***************************************************************************)
(* The row and the column never leave their ranges and nothing faults, for *)
(* every screen and every such text, backspaces at column 0 included.      *)
(***************************************************************************)
THEOREM TerminalTypes == SpecOnLine => []TypeOK
  <1>1. ScreenInv => TypeOK
    <2> SUFFICES ASSUME ScreenInv PROVE TypeOK
      OBVIOUS
    <2>1. CASE ready
      <3>1. Sound(tty)
        BY <2>1 DEF ScreenInv
      <3>2. tty.buffer \in [Cells -> Shown]
        BY <3>1, Fields DEF Sound
      <3> QED
        BY <3>1, <3>2 DEF ScreenInv, Sound, TypeOK, Columns, Shown
    <2>2. CASE ~ready
      <3>1. tty = AtBoot
        BY <2>2 DEF ScreenInv
      <3> QED
        BY <3>1, Sizes DEF ScreenInv, AtBoot, TypeOK
    <2> QED
      BY <2>1, <2>2
  <1> QED
    BY <1>1, ScreenInductive, PTL

(***************************************************************************)
(* The row a line comes to is always clean when it gets there, and nothing *)
(* is ever written behind the screen.                                      *)
(***************************************************************************)
THEOREM TerminalStaysClean == SpecOnLine => []CleanBelow
  <1>1. ScreenInv => CleanBelow
    <2> SUFFICES ASSUME ScreenInv, ready, NEW i \in Cells
                 PROVE  /\ i \div VGA_WIDTH > tty.row /\ i < ScreenCells
                             => tty.buffer[i] = Blank
                        /\ i >= ScreenCells => tty.buffer[i] = Junk
      BY DEF CleanBelow
    <2>1. Sound(tty) /\ CleanUnder(tty)
      BY DEF ScreenInv, Sound
    <2>2. ASSUME i \div VGA_WIDTH > tty.row, i < ScreenCells
          PROVE  tty.buffer[i] = Blank
      <3>1. i \in 0 .. (ScreenCells - 1)
        BY <2>2, ScreenInPage DEF Cells
      <3>2. PICK y \in Rows, x \in Columns : i = y * VGA_WIDTH + x
        BY <3>1, PlaceOfCell
      <3>3. i \div VGA_WIDTH = y
        BY <3>2, CellOfPlace
      <3> QED
        BY <2>1, <2>2, <3>2, <3>3 DEF CleanUnder
    <2> QED
      BY <2>1, <2>2 DEF CleanUnder
  <1> QED
    BY <1>1, ScreenInductive, PTL

(***************************************************************************)
(* tty.c implements Console: each call is one step of it, so no scroll, at *)
(* once or put off, loses, doubles or moves a line, for every size of the  *)
(* screen and every length of the text.                                    *)
(***************************************************************************)
THEOREM TerminalRefines == SpecOnLine => Implements
  <1> DEFINE lines == IF ready THEN tty.scrolled \o RowsToCursor ELSE <<BlankRow>>
  <1>1. lines = IF ready THEN Page(tty) ELSE <<BlankRow>>
    BY DEF RowsToCursor, Page, ToCursor
  <1>2. lines' = IF ready' THEN Page(tty') ELSE <<BlankRow>>
    BY DEF RowsToCursor, Page, ToCursor, Row
  <1>3. Abstract!BlankLine = BlankRow
    BY DEF Abstract!BlankLine, Abstract!Places, BlankRow
  <1>4. Init => Abstract!Init
    BY <1>3 DEF Init, Abstract!Init
  <1>5. ScreenInv /\ terminal_init => UNCHANGED Abstract!vars
    <2> SUFFICES ASSUME ScreenInv, terminal_init PROVE UNCHANGED Abstract!vars
      OBVIOUS
    <2>1. lines' = lines
      BY <1>1, <1>2, InitStep
    <2>2. tty'.column = tty.column
      BY InitStep DEF AtBoot
    <2> QED
      BY <2>1, <2>2 DEF Abstract!vars
  <1>6. ASSUME ScreenInv, NEW c \in Chars, Putchar(c), c = TABULATOR => TabFits
        PROVE  Abstract!Next
    <2> DEFINE k == IF tty.column = 0 THEN 0 ELSE tty.column - 1
               p == Page(tty)
    <2>1. /\ ready /\ ready' /\ Sound(tty)
          /\ tty' = terminal_putchar(tty, c)
      BY <1>6, PutcharStep
    <2>2. lines = p /\ lines' = Page(tty')
      BY <1>1, <1>2, <2>1
    <2>3. \/ /\ c \in Glyphs /\ tty.column + 1 < VGA_WIDTH
             /\ tty'.column = tty.column + 1 /\ Page(tty') = Edited(p, tty.column, c)
          \/ /\ c \in Glyphs /\ tty.column + 1 = VGA_WIDTH
             /\ tty'.column = 0
             /\ Page(tty') = Append(Edited(p, tty.column, c), BlankRow)
          \/ tty'.column = 0 /\ Page(tty') = Append(p, BlankRow)
          \/ tty'.column = tty.column + TAB /\ tty'.column \in Columns /\ Page(tty') = p
          \/ tty'.column = k /\ Page(tty') = Edited(p, k, Blank)
      BY <1>6, <2>1, PutcharKeeps DEF TabFits
    <2>4. \A x, g : Abstract!Put(x, g) = Edited(p, x, g)
      BY <2>2 DEF Abstract!Put, Edited
    <2> HIDE DEF lines, p, k
    <2>5. CASE /\ c \in Glyphs /\ tty.column + 1 < VGA_WIDTH
               /\ tty'.column = tty.column + 1 /\ Page(tty') = Edited(p, tty.column, c)
      <3>1. Abstract!Write(c)
        BY <2>2, <2>4, <2>5 DEF Abstract!Write, lines
      <3> QED
        BY <2>5, <3>1 DEF Abstract!Next
    <2>6. CASE /\ c \in Glyphs /\ tty.column + 1 = VGA_WIDTH
               /\ tty'.column = 0
               /\ Page(tty') = Append(Edited(p, tty.column, c), BlankRow)
      <3>1. Abstract!Write(c)
        BY <1>3, <2>2, <2>4, <2>6 DEF Abstract!Write, lines
      <3> QED
        BY <2>6, <3>1 DEF Abstract!Next
    <2>7. CASE tty'.column = 0 /\ Page(tty') = Append(p, BlankRow)
      <3>1. Abstract!NewLine
        BY <1>3, <2>2, <2>7 DEF Abstract!NewLine, lines
      <3> QED
        BY <3>1 DEF Abstract!Next
    <2>8. CASE tty'.column = tty.column + TAB /\ tty'.column \in Columns /\ Page(tty') = p
      <3>1. Abstract!Tab
        BY <2>2, <2>8 DEF Abstract!Tab, Abstract!Places, Columns, lines
      <3> QED
        BY <3>1 DEF Abstract!Next
    <2>9. CASE tty'.column = k /\ Page(tty') = Edited(p, k, Blank)
      <3>1. Abstract!Backspace
        BY <2>2, <2>4, <2>9 DEF Abstract!Backspace, k, lines
      <3> QED
        BY <3>1 DEF Abstract!Next
    <2> QED
      BY <2>3, <2>5, <2>6, <2>7, <2>8, <2>9
  <1>7. ScreenInv /\ [NextOnLine]_vars => [Abstract!Next]_(Abstract!vars)
    <2> SUFFICES ASSUME ScreenInv, [NextOnLine]_vars
                 PROVE  [Abstract!Next]_(Abstract!vars)
      OBVIOUS
    <2>1. CASE UNCHANGED vars
      <3>1. lines' = lines
        BY <1>1, <1>2, <2>1 DEF vars
      <3> QED
        BY <2>1, <3>1 DEF vars, Abstract!vars
    <2>2. CASE terminal_init
      BY <1>5, <2>2
    <2>3. CASE \E c \in Chars \ {TABULATOR} : Putchar(c)
      BY <1>6, <2>3
    <2>4. CASE TabFits /\ Putchar(TABULATOR)
      <3>1. TABULATOR \in Chars
        BY DEF Chars
      <3> QED
        BY <1>6, <2>4, <3>1
    <2> QED
      BY <2>1, <2>2, <2>3, <2>4 DEF NextOnLine
  <1> QED
    BY <1>4, <1>7, ScreenInductive, PTL DEF SpecOnLine, Implements, Abstract!Spec

-----------------------------------------------------------------------------
(***************************************************************************)
(* TerminalRace: the rows                                                  *)
(***************************************************************************)

\* The types, and which characters the paths through terminal_putchar are of.
RaceTypes ==
  /\ tty \in Terminals
  /\ char \in KernelChars
  /\ column \in Int /\ row \in Int /\ cell \in Nat
  /\ pc \in {"boot", "idle", "check", "copy", "lower", "blank", "body", "newline",
             "tab", "row", "back", "cell", "advance", "wrap", "return"}
  /\ after \in {"body", "return"}
  /\ pc = "boot" => tty = AtBoot
  /\ pc \in {"row", "back", "cell", "advance", "wrap"} => char \in Glyphs \cup {BACKSPACE}
  /\ struck \in BOOLEAN

(***************************************************************************)
(* From its test of tty_row to its last use of it the kernel has the row   *)
(* on the screen, and what it has loaded then is on the screen; a scroll,  *)
(* until it has lowered the row, finds it on the last row or below, also   *)
(* when handlers have scrolled meanwhile.                                  *)
(***************************************************************************)
RaceRows ==
  /\ tty.row \in 0 .. VGA_HEIGHT
  /\ pc = "copy" => tty.row >= VGA_HEIGHT - 1
  /\ pc = "lower" => row \in {VGA_HEIGHT - 2, VGA_HEIGHT - 1}
  /\ Exposed => tty.row < VGA_HEIGHT
  /\ pc \in {"back", "cell", "advance", "wrap"} => row \in 0 .. (VGA_HEIGHT - 1)

\* Until the kernel is struck.
RaceInv == RaceTypes /\ (~struck => RaceRows)

LEMMA TerminalFields ==
  ASSUME NEW t \in Terminals, NEW u \in Terminals,
         t.row = u.row, t.column = u.column, t.buffer = u.buffer,
         t.fault = u.fault, t.scrolled = u.scrolled
  PROVE  t = u
  BY DEF Terminals

\* terminal_putchar keeps the types, and only the cursor's row can leave the
\* screen, by a newline.
LEMMA TypedPutchar ==
  ASSUME NEW t \in Terminals, NEW c \in Chars
  PROVE  LET n  == terminal_putchar(t, c)
             on == Brought(t)
         IN /\ n \in Terminals
            /\ on.row = IF t.row = VGA_HEIGHT THEN VGA_HEIGHT - 1 ELSE t.row
            /\ c # NEWLINE => \/ n.row = on.row
                              \/ n.row = on.row + 1 /\ n.row < VGA_HEIGHT
  <1> DEFINE n == terminal_putchar(t, c)
             on == Brought(t)
  <1>1. /\ on \in Terminals
        /\ on.row = IF t.row = VGA_HEIGHT THEN VGA_HEIGHT - 1 ELSE t.row
    BY ScrollShape DEF Brought
  <1>2. n = CASE c = NEWLINE    -> newline(on)
              [] c = TABULATOR  -> tabulator(on)
              [] c = BACKSPACE  -> backspace(on)
              [] OTHER          -> glyph(on, c)
    BY Zenon DEF terminal_putchar, Brought
  <1>3. SUFFICES /\ n \in Terminals
                 /\ c # NEWLINE => \/ n.row = on.row
                                   \/ n.row = on.row + 1 /\ n.row < VGA_HEIGHT
    BY <1>1
  <1> HIDE DEF n, on
  <1>a. CASE c = NEWLINE
    <2>1. n = newline(on)
      BY <1>2, <1>a, CharsAssumption, Zenon
    <2> QED
      BY <1>1, <1>a, <2>1, NewlineShape
  <1>4. CASE c = TABULATOR
    <2>1. n = [on EXCEPT !.column = on.column + TAB]
      BY <1>2, <1>4, CharsAssumption, Zenon DEF tabulator
    <2>2. on.column + TAB \in Int
      BY <1>1, Fields, Sizes
    <2>3. n \in Terminals /\ n.row = on.row
      BY <1>1, <2>1, <2>2, WithColumn
    <2> QED
      BY <1>1, <2>3, Sizes
  <1>5. CASE c = BACKSPACE
    <2> DEFINE k == IF on.column = 0 THEN 0 ELSE on.column - 1
               back == [on EXCEPT !.column = k]
    <2>1. n = Store(back, Index(back), Blank)
      BY <1>2, <1>5, CharsAssumption, Zenon DEF backspace
    <2>2. k \in Int
      BY <1>1, Fields
    <2> HIDE DEF k
    <2>3. back \in Terminals /\ back.row = on.row
      BY <1>1, <2>2, WithColumn
    <2> HIDE DEF back
    <2>4. Index(back) \in Int /\ Blank \in Shown
      BY <2>3, Fields, Sizes DEF Index, Shown
    <2>5. n \in Terminals /\ n.row = on.row
      BY <2>1, <2>3, <2>4, StoreShape
    <2> QED
      BY <1>1, <2>5, Sizes
  <1>6. CASE c \notin {NEWLINE, TABULATOR, BACKSPACE}
    <2> DEFINE put == Store(on, Index(on), c)
    <2>1. n = glyph(on, c)
      BY <1>2, <1>6, Zenon
    <2>2. n = IF put.fault THEN put
              ELSE IF put.column + 1 < VGA_WIDTH THEN [put EXCEPT !.column = put.column + 1]
              ELSE IF newline(put).row < VGA_HEIGHT THEN newline(put)
              ELSE scroll(newline(put))
      BY <2>1, Zenon DEF glyph, newline
    <2>3. Index(on) \in Int /\ c \in Shown
      BY <1>1, <1>6, Fields, Sizes DEF Index, Shown, Chars
    <2>4. put \in Terminals /\ put.row = on.row
      BY <1>1, <2>3, StoreShape
    <2> HIDE DEF put
    <2>5. put.column + 1 \in Int
      BY <2>4, Fields
    <2>6. /\ [put EXCEPT !.column = put.column + 1] \in Terminals
          /\ [put EXCEPT !.column = put.column + 1].row = on.row
      BY <2>4, <2>5, WithColumn
    <2>7. newline(put) \in Terminals /\ newline(put).row = on.row + 1
      BY <2>4, NewlineShape
    <2>8. scroll(newline(put)) \in Terminals /\ scroll(newline(put)).row = on.row
      <3>1. (on.row + 1) - 1 = on.row
        BY <1>1, Fields
      <3> QED
        BY <2>7, <3>1, ScrollShape
    <2> QED
      BY <1>1, <2>2, <2>4, <2>6, <2>7, <2>8, Sizes
  <1> QED
    BY <1>a, <1>4, <1>5, <1>6

\* A character that is not a newline never leaves the row below the screen.
LEMMA TypedKeepsRow ==
  ASSUME NEW t \in Terminals, t.row \in 0 .. VGA_HEIGHT,
         NEW c \in Chars, c # NEWLINE
  PROVE  LET n == terminal_putchar(t, c) IN
         /\ n.row \in 0 .. (VGA_HEIGHT - 1)
         /\ t.row >= VGA_HEIGHT - 1 => n.row = VGA_HEIGHT - 1
  <1> DEFINE n == terminal_putchar(t, c)
             r == IF t.row = VGA_HEIGHT THEN VGA_HEIGHT - 1 ELSE t.row
  <1>1. n.row = r \/ (n.row = r + 1 /\ n.row < VGA_HEIGHT)
    BY TypedPutchar
  <1> HIDE DEF n
  <1> QED
    BY <1>1, Sizes DEF n

\* A newline takes the cursor down a row, to the one below the screen at most.
LEMMA TypedNewline ==
  ASSUME NEW t \in Terminals, t.row \in 0 .. VGA_HEIGHT
  PROVE  LET n == terminal_putchar(t, NEWLINE) IN
         /\ n.row \in 0 .. VGA_HEIGHT
         /\ t.row >= VGA_HEIGHT - 1 => n.row = VGA_HEIGHT
  <1>1. /\ Brought(t) \in Terminals
        /\ Brought(t).row = IF t.row = VGA_HEIGHT THEN VGA_HEIGHT - 1 ELSE t.row
    <2>1. t.row = VGA_HEIGHT => scroll(t) \in Terminals /\ scroll(t).row = t.row - 1
      BY ScrollShape
    <2> QED
      BY <2>1 DEF Brought
  <1> DEFINE on == Brought(t)
  <1>2. terminal_putchar(t, NEWLINE) = newline(on)
    <2>1. terminal_putchar(t, NEWLINE) =
            CASE NEWLINE = NEWLINE    -> newline(on)
              [] NEWLINE = TABULATOR -> tabulator(on)
              [] NEWLINE = BACKSPACE -> backspace(on)
              [] OTHER               -> glyph(on, NEWLINE)
      BY Zenon DEF terminal_putchar, Brought
    <2> HIDE DEF on
    <2> QED
      BY <2>1, CharsAssumption
  <1>3. newline(Brought(t)).row = Brought(t).row + 1
    BY <1>1, NewlineShape
  <1> QED
    BY <1>1, <1>2, <1>3, Sizes

LEMMA RaceInit == InitRace => RaceInv
  <1> SUFFICES ASSUME InitRace PROVE RaceInv
    OBVIOUS
  <1>1. tty = AtBoot /\ pc = "boot" /\ after = "body" /\ char \in KernelChars
    BY DEF InitRace, Init, AtBoot
  <1>2. column \in Int /\ row \in Int /\ cell \in Nat
    BY DEF InitRace
  <1>3. AtBoot \in Terminals /\ AtBoot.row = 0
    <2>1. [i \in Cells |-> Junk] \in Buffers /\ <<>> \in Pages
      BY EmptySeq DEF Buffers, Pages, Shown
    <2> QED
      BY <2>1 DEF AtBoot, Terminals
  <1>4. tty \in Terminals /\ tty.row \in 0 .. VGA_HEIGHT
    BY <1>1, <1>3, Sizes
  <1> QED
    BY <1>1, <1>2, <1>4 DEF RaceInv, RaceTypes, RaceRows, Exposed, InitRace

\* The kernel's steps, the stores apart.
LEMMA RaceMoves ==
  ASSUME RaceTypes,
         CheckRow \/ LoadLowered \/ EndScroll \/ LoadColumn \/ LoadRow \/ Return
         \/ \E c \in KernelChars : Call(c)
  PROVE  RaceTypes' /\ (RaceRows => RaceRows')
  <1> USE DEF RaceTypes, RaceRows, Exposed, Kernel, Goto, locals
  <1>1. CASE CheckRow
    BY <1>1, Sizes DEF CheckRow
  <1>2. CASE LoadLowered
    <2>1. tty.row \in Int
      BY Fields
    <2> QED
      BY <1>2, <2>1, Sizes DEF LoadLowered
  <1>3. CASE EndScroll
    BY <1>3, Sizes DEF EndScroll
  <1>4. CASE LoadColumn
    <2>1. tty.column \in Int
      BY Fields
    <2> QED
      BY <1>4, <2>1, RaceAssumption DEF LoadColumn, Chars
  <1>5. CASE LoadRow
    <2>1. tty.row \in Int
      BY Fields
    <2> QED
      BY <1>5, <2>1, Sizes DEF LoadRow
  <1>6. CASE Return
    BY <1>6 DEF Return
  <1>7. CASE \E c \in KernelChars : Call(c)
    BY <1>7 DEF Call
  <1> QED
    BY <1>1, <1>2, <1>3, <1>4, <1>5, <1>6, <1>7

\* What CopyCell makes of the terminal when it copies to the cell n.
Copied(t, n) ==
  [t EXCEPT !.buffer[n] = t.buffer[n + VGA_WIDTH],
            !.scrolled = IF n = 0 THEN Append(@, Row(t, 0)) ELSE @]

LEMMA CopiedShape ==
  ASSUME NEW t \in Terminals, NEW n \in Nat, n < ScreenCells - VGA_WIDTH
  PROVE  LET m == Copied(t, n) IN
         /\ m \in Terminals
         /\ m.row = t.row /\ m.column = t.column /\ m.fault = t.fault
         /\ m.buffer = [t.buffer EXCEPT ![n] = t.buffer[n + VGA_WIDTH]]
         /\ m.scrolled = IF n = 0 THEN Append(t.scrolled, Row(t, 0)) ELSE t.scrolled
         /\ n \in Cells /\ n + VGA_WIDTH \in Cells /\ n + VGA_WIDTH < ScreenCells
  <1> DEFINE b == [t.buffer EXCEPT ![n] = t.buffer[n + VGA_WIDTH]]
             s == IF n = 0 THEN Append(t.scrolled, Row(t, 0)) ELSE t.scrolled
             t1 == [t EXCEPT !.buffer = b]
             t2 == [t1 EXCEPT !.scrolled = s]
  <1>1. n \in Cells /\ n + VGA_WIDTH \in Cells /\ n + VGA_WIDTH < ScreenCells
    BY Sizes, ScreenInPage DEF Cells
  <1>2. b \in Buffers
    BY <1>1, Fields DEF Buffers
  <1>3. s \in Pages
    <2>1. Row(t, 0) \in Lines
      BY RowIsALine, Sizes DEF Rows
    <2> QED
      BY <2>1, Fields, AppendProperties DEF Pages
  <1>4. t1 \in Terminals /\ t1.scrolled = t.scrolled
    BY <1>2, WithBuffer
  <1>5. Copied(t, n) = t2
    BY <1>4, Zenon DEF Copied
  <1> HIDE DEF b, s
  <1>6. /\ t1 \in Terminals /\ t1.row = t.row /\ t1.column = t.column
        /\ t1.fault = t.fault /\ t1.buffer = b
    BY <1>2, WithBuffer
  <1> HIDE DEF t1
  <1>7. /\ t2 \in Terminals /\ t2.row = t.row /\ t2.column = t.column
        /\ t2.fault = t.fault /\ t2.buffer = b /\ t2.scrolled = s
    BY <1>3, <1>6, WithScrolled
  <1> QED
    BY <1>1, <1>5, <1>7 DEF b, s

\* The kernel's stores.
LEMMA RaceStores ==
  ASSUME RaceTypes,
         CopyCell \/ StoreLowered \/ BlankCell \/ FirstColumn \/ NextRow
         \/ StoreTab \/ StepBack \/ StoreCell \/ StoreColumn \/ StoreRow
  PROVE  RaceTypes' /\ (RaceRows => RaceRows')
  <1> USE DEF Kernel, Goto, locals
  <1>a. /\ tty \in Terminals /\ tty.row \in Int
        /\ column \in Int /\ row \in Int /\ cell \in Nat
    BY Fields DEF RaceTypes
  <1>1. CASE CopyCell
    <2>1. tty' \in Terminals /\ tty'.row = tty.row
      <3>1. /\ cell < ScreenCells - VGA_WIDTH
            /\ tty' = Copied(tty, cell)
        BY <1>1, Zenon DEF CopyCell, Copied
      <3> QED
        BY <1>a, <3>1, CopiedShape
    <2> QED
      BY <1>1, <2>1 DEF CopyCell, RaceTypes, RaceRows, Exposed
  <1>2. CASE StoreLowered
    <2>1. tty' \in Terminals /\ tty'.row = row
      BY <1>a, <1>2, WithRow DEF StoreLowered
    <2> QED
      BY <1>2, <2>1, Sizes DEF StoreLowered, RaceTypes, RaceRows, Exposed
  <1>3. CASE BlankCell
    <2>1. row * VGA_WIDTH + cell \in Int /\ Blank \in Shown
      BY <1>a, Sizes DEF Shown
    <2>2. tty' \in Terminals /\ tty'.row = tty.row
      <3>1. tty' = Store(tty, row * VGA_WIDTH + cell, Blank)
        BY <1>3 DEF BlankCell
      <3> QED
        BY <1>a, <2>1, <3>1, StoreShape
    <2> QED
      BY <1>3, <2>2 DEF BlankCell, RaceTypes, RaceRows, Exposed
  <1>4. CASE FirstColumn
    <2>1. tty' \in Terminals /\ tty'.row = tty.row
      BY <1>a, <1>4, WithColumn DEF FirstColumn
    <2> QED
      BY <1>4, <2>1 DEF FirstColumn, RaceTypes, RaceRows, Exposed
  <1>5. CASE NextRow
    <2>1. tty' = [tty EXCEPT !.row = tty.row + 1]
      BY <1>5 DEF NextRow
    <2>2. tty.row + 1 \in Int
      BY <1>a
    <2>3. tty' \in Terminals /\ tty'.row = tty.row + 1
      BY <1>a, <2>1, <2>2, WithRow
    <2> QED
      BY <1>5, <2>3, Sizes DEF NextRow, RaceTypes, RaceRows, Exposed
  <1>6. CASE StoreTab
    <2>1. column + TAB \in Int
      BY <1>a, Sizes
    <2>2. tty' \in Terminals /\ tty'.row = tty.row
      BY <1>a, <1>6, <2>1, WithColumn DEF StoreTab
    <2> QED
      BY <1>6, <2>2 DEF StoreTab, RaceTypes, RaceRows, Exposed
  <1>7. CASE StepBack
    <2>1. column - 1 \in Int /\ column' \in Int
      BY <1>a, <1>7 DEF StepBack
    <2>2. tty' \in Terminals /\ tty'.row = tty.row
      BY <1>a, <1>7, <2>1, WithColumn DEF StepBack
    <2> QED
      BY <1>7, <2>1, <2>2 DEF StepBack, RaceTypes, RaceRows, Exposed
  <1>8. CASE StoreCell
    <2> DEFINE entry == IF char = BACKSPACE THEN Blank ELSE char
    <2>1. row * VGA_WIDTH + column \in Int /\ entry \in Shown
      BY <1>a, <1>8, Sizes DEF StoreCell, RaceTypes, Shown
    <2>2. tty' = Store(tty, row * VGA_WIDTH + column, entry)
      BY <1>8 DEF StoreCell
    <2>3. tty' \in Terminals /\ tty'.row = tty.row
      BY <1>a, <2>1, <2>2, StoreShape
    <2> QED
      BY <1>8, <2>3 DEF StoreCell, RaceTypes, RaceRows, Exposed
  <1>9. CASE StoreColumn
    <2>1. column + 1 \in Int
      BY <1>a
    <2>2. tty' \in Terminals /\ tty'.row = tty.row
      <3>1. PICK k \in Int : tty' = [tty EXCEPT !.column = k]
        BY <1>9, <2>1 DEF StoreColumn
      <3> QED
        BY <1>a, <3>1, WithColumn
    <2> QED
      BY <1>9, <2>2 DEF StoreColumn, RaceTypes, RaceRows, Exposed
  <1>10. CASE StoreRow
    <2>1. row + 1 \in Int
      BY <1>a
    <2>2. tty' \in Terminals /\ tty'.row = row + 1
      BY <1>a, <1>10, <2>1, WithRow DEF StoreRow
    <2> QED
      BY <1>10, <2>2, Sizes DEF StoreRow, RaceTypes, RaceRows, Exposed
  <1> QED
    BY <1>1, <1>2, <1>3, <1>4, <1>5, <1>6, <1>7, <1>8, <1>9, <1>10

LEMMA BootStep ==
  ASSUME RaceTypes, Boot
  PROVE  RaceTypes' /\ RaceRows'
  <1>1. tty = AtBoot /\ tty' = init(AtBoot) /\ pc' = "idle" /\ UNCHANGED locals
    BY DEF RaceTypes, Boot, terminal_init
  <1>2. tty' \in Terminals /\ tty'.row \in 0 .. VGA_HEIGHT
    BY <1>1, InitPage DEF Sound
  <1> QED
    BY <1>1, <1>2 DEF Boot, RaceTypes, RaceRows, Exposed, locals

LEMMA InterruptStep ==
  ASSUME RaceTypes, NEW c \in KeyChars, Interrupt(c)
  PROVE  /\ RaceTypes'
         /\ struck => struck'
         /\ RaceRows /\ ~struck' => RaceRows'
  <1>1. /\ tty' = terminal_putchar(tty, c) /\ pc # "boot"
        /\ UNCHANGED <<pc, locals>>
        /\ struck' = (struck \/ (Exposed /\ c = NEWLINE /\ tty'.row = VGA_HEIGHT))
    BY DEF Interrupt
  <1>2. c \in Chars
    BY RaceAssumption
  <1>3. tty \in Terminals
    BY DEF RaceTypes
  <1>4. RaceTypes'
    <2>1. tty' \in Terminals
      BY <1>1, <1>2, <1>3, TypedPutchar
    <2> QED
      BY <1>1, <2>1 DEF RaceTypes, locals
  <1>5. ASSUME RaceRows, c # NEWLINE
        PROVE  RaceRows'
    <2>1. tty.row \in 0 .. VGA_HEIGHT
      BY <1>5 DEF RaceRows
    <2>2. /\ tty'.row \in 0 .. (VGA_HEIGHT - 1)
          /\ tty.row >= VGA_HEIGHT - 1 => tty'.row = VGA_HEIGHT - 1
      BY <1>1, <1>2, <1>3, <1>5, <2>1, TypedKeepsRow
    <2> QED
      BY <1>1, <1>5, <2>1, <2>2, Sizes DEF RaceRows, Exposed, locals
  <1>6. ASSUME RaceRows, ~struck', c = NEWLINE
        PROVE  RaceRows'
    <2>1. tty.row \in 0 .. VGA_HEIGHT
      BY <1>6 DEF RaceRows
    <2>2. /\ tty'.row \in 0 .. VGA_HEIGHT
          /\ tty.row >= VGA_HEIGHT - 1 => tty'.row = VGA_HEIGHT
      BY <1>1, <1>3, <1>6, <2>1, TypedNewline
    <2>3. Exposed => tty'.row # VGA_HEIGHT
      BY <1>1, <1>6
    <2> QED
      BY <1>1, <1>6, <2>1, <2>2, <2>3, Sizes DEF RaceRows, Exposed, locals
  <1> QED
    BY <1>1, <1>4, <1>5, <1>6

LEMMA RaceStep ==
  ASSUME RaceTypes, [NextRace]_raceVars
  PROVE  /\ RaceTypes'
         /\ struck => struck'
         /\ RaceRows /\ ~struck' => RaceRows'
  <1>1. CASE UNCHANGED raceVars
    BY <1>1 DEF raceVars, RaceTypes, RaceRows, Exposed
  <1>2. CASE \E c \in KeyChars : Interrupt(c)
    BY <1>2, InterruptStep
  <1>3. CASE NextRace /\ ~(\E c \in KeyChars : Interrupt(c))
    <2>1. struck' = struck
      BY <1>3 DEF NextRace, Boot, CheckRow, LoadLowered, EndScroll, LoadColumn,
             LoadRow, Return, Call, CopyCell, StoreLowered, BlankCell,
             FirstColumn, NextRow, StoreTab, StepBack, StoreCell, StoreColumn,
             StoreRow, Kernel
    <2> QED
      BY <1>3, <2>1, BootStep, RaceMoves, RaceStores DEF NextRace
  <1> QED
    BY <1>1, <1>2, <1>3

\* The types are kept whatever the handlers print.
LEMMA RaceTyped == SpecRace => []RaceTypes
  <1>1. InitRace => RaceTypes
    BY RaceInit DEF RaceInv
  <1>2. RaceTypes /\ [NextRace]_raceVars => RaceTypes'
    BY RaceStep
  <1> QED
    BY <1>1, <1>2, PTL DEF SpecRace

THEOREM RaceInductive == SpecRace => []RaceInv
  <1>1. RaceInv /\ [NextRace]_raceVars => RaceInv'
    BY RaceStep DEF RaceInv
  <1> QED
    BY <1>1, RaceInit, PTL DEF SpecRace

(***************************************************************************)
(* Whatever the handlers print, wherever in the kernel's calls it comes    *)
(* and however much it is, the row passes VGA_HEIGHT only after a newline  *)
(* has put the cursor below the screen between the kernel's test of        *)
(* tty_row and its last use of it.                                         *)
(***************************************************************************)
THEOREM RowPassesOnlyByNewline == SpecRace => []RowPassesByNewline
  <1>1. RaceInv => RowPassesByNewline
    BY Sizes DEF RaceInv, RaceRows, RowPassesByNewline
  <1> QED
    BY <1>1, RaceInductive, PTL

-----------------------------------------------------------------------------
(***************************************************************************)
(* TerminalRace: calls that no interrupt comes into                        *)
(***************************************************************************)

\* What terminal_putchar does after the row has been looked at.
Body(t, c) ==
  IF c = NEWLINE THEN newline(t)
  ELSE IF c = TABULATOR THEN tabulator(t)
  ELSE IF c = BACKSPACE THEN backspace(t)
  ELSE glyph(t, c)

\* What glyph does once the character is on the screen.
Advanced(t) ==
  IF t.column + 1 < VGA_WIDTH THEN [t EXCEPT !.column = t.column + 1]
  ELSE IF newline(t).row < VGA_HEIGHT THEN newline(t)
  ELSE scroll(newline(t))

\* How many cells a scroll copies.
Copies == ScreenCells - VGA_WIDTH

\* What a scroll to the row r leaves that has copied the cells below n.
Shifted(t, r, n) ==
  [t EXCEPT !.row = r,
            !.buffer = [i \in Cells |->
               IF i \div VGA_WIDTH = r THEN Blank
               ELSE IF i >= n /\ i + VGA_WIDTH < ScreenCells
               THEN t.buffer[i + VGA_WIDTH] ELSE t.buffer[i]],
            !.scrolled = IF n = 0 THEN Append(t.scrolled, Row(t, 0)) ELSE t.scrolled]

AfterScroll(t) == IF after = "body" THEN Body(t, char) ELSE t

(***************************************************************************)
(* At each place what the call should leave follows from what is there.    *)
(* A handler's newline may have taken the row past the screen: then a      *)
(* scroll goes to a row r past its last one too.                           *)
(***************************************************************************)
Follows ==
  /\ pc = "check" => meant = terminal_putchar(tty, char)
  /\ pc \in {"body", "row", "back"} => meant = Body(tty, char)
  /\ pc = "newline" => meant = [tty EXCEPT !.row = tty.row + 1]
  /\ pc = "tab" => meant = [tty EXCEPT !.column = column + TAB]
  /\ pc \in {"row", "back", "cell", "advance"} => column = tty.column
  /\ pc \in {"back", "cell", "advance", "wrap"} => row = tty.row
  /\ pc = "back" => char = BACKSPACE
  /\ pc = "cell" =>
       LET entry == IF char = BACKSPACE THEN Blank ELSE char
           put   == Store(tty, row * VGA_WIDTH + column, entry)
       IN meant = IF char = BACKSPACE \/ put.fault THEN put ELSE Advanced(put)
  /\ pc = "advance" => meant = Advanced(tty)
  /\ pc = "wrap" =>
       LET next == [tty EXCEPT !.row = row + 1]
       IN meant = IF row + 1 < VGA_HEIGHT THEN next ELSE scroll(next)
  /\ pc = "copy" => /\ tty.row >= VGA_HEIGHT
                    /\ cell <= Copies
                    /\ meant = AfterScroll(Shifted(tty, tty.row - 1, cell))
  /\ pc \in {"lower", "blank"} =>
       /\ row >= VGA_HEIGHT - 1
       /\ meant = AfterScroll(Shifted(tty, row, Copies))
       /\ pc = "lower" => cell = 0
  /\ pc = "blank" =>
       /\ tty.row = row
       /\ cell <= VGA_WIDTH
       /\ \A x \in 0 .. (cell - 1) :
            row * VGA_WIDTH + x \in Cells =>
              tty.buffer[row * VGA_WIDTH + x] = Blank

\* A fault ends everything: there is no return after it but that of a call
\* which should fault.
MeantInv ==
  ~meant.fault =>
    /\ ~tty.fault => Follows
    /\ pc = "return" => tty = meant

LEMMA PutcharIsBody ==
  ASSUME NEW t, NEW c
  PROVE  terminal_putchar(t, c) = Body(Brought(t), c)
  <1> DEFINE on == Brought(t)
  <1>1. terminal_putchar(t, c) =
          CASE c = NEWLINE    -> newline(on)
            [] c = TABULATOR  -> tabulator(on)
            [] c = BACKSPACE  -> backspace(on)
            [] OTHER          -> glyph(on, c)
    BY Zenon DEF terminal_putchar, Brought
  <1> HIDE DEF on
  <1>2. CASE c = NEWLINE
    BY <1>1, <1>2, CharsAssumption, Zenon DEF Body, on
  <1>3. CASE c = TABULATOR
    BY <1>1, <1>3, CharsAssumption, Zenon DEF Body, on
  <1>4. CASE c = BACKSPACE
    BY <1>1, <1>4, CharsAssumption, Zenon DEF Body, on
  <1>5. CASE c \notin {NEWLINE, TABULATOR, BACKSPACE}
    BY <1>1, <1>5, Zenon DEF Body, on
  <1> QED
    BY <1>2, <1>3, <1>4, <1>5

LEMMA GlyphIsStore ==
  ASSUME NEW t, NEW c
  PROVE  LET put == Store(t, Index(t), c)
         IN glyph(t, c) = IF put.fault THEN put ELSE Advanced(put)
  BY Zenon DEF glyph, Advanced, newline

LEMMA ShiftedShape ==
  ASSUME NEW t \in Terminals, NEW r \in Int, NEW n \in Nat
  PROVE  LET m == Shifted(t, r, n) IN
         /\ m \in Terminals
         /\ m.row = r
         /\ m.column = t.column
         /\ m.fault = t.fault
         /\ m.buffer \in [Cells -> Shown]
         /\ \A i \in Cells : m.buffer[i] =
              IF i \div VGA_WIDTH = r THEN Blank
              ELSE IF i >= n /\ i + VGA_WIDTH < ScreenCells
              THEN t.buffer[i + VGA_WIDTH] ELSE t.buffer[i]
         /\ m.scrolled = IF n = 0 THEN Append(t.scrolled, Row(t, 0)) ELSE t.scrolled
  <1> DEFINE b == [i \in Cells |->
               IF i \div VGA_WIDTH = r THEN Blank
               ELSE IF i >= n /\ i + VGA_WIDTH < ScreenCells
               THEN t.buffer[i + VGA_WIDTH] ELSE t.buffer[i]]
             s == IF n = 0 THEN Append(t.scrolled, Row(t, 0)) ELSE t.scrolled
             t1 == [t EXCEPT !.row = r]
             t2 == [t1 EXCEPT !.buffer = b]
             t3 == [t2 EXCEPT !.scrolled = s]
  <1>1. b \in Buffers
    <2>1. t.buffer \in [Cells -> Shown] /\ Blank \in Shown
      BY Fields DEF Shown
    <2>2. \A i \in Cells : i + VGA_WIDTH < ScreenCells => i + VGA_WIDTH \in Cells
      BY Sizes, ScreenInPage DEF Cells
    <2> QED
      BY <2>1, <2>2 DEF Buffers
  <1>2. s \in Pages
    <2>1. Row(t, 0) \in Lines
      BY RowIsALine, Sizes DEF Rows
    <2> QED
      BY <2>1, Fields, AppendProperties DEF Pages
  <1>4. Shifted(t, r, n) = t3
    BY Zenon DEF Shifted
  <1>5. b \in [Cells -> Shown] /\ \A i \in Cells : b[i] =
              IF i \div VGA_WIDTH = r THEN Blank
              ELSE IF i >= n /\ i + VGA_WIDTH < ScreenCells
              THEN t.buffer[i + VGA_WIDTH] ELSE t.buffer[i]
    BY <1>1 DEF Buffers
  <1> HIDE DEF b, s
  <1>6. /\ t1 \in Terminals /\ t1.row = r /\ t1.column = t.column
        /\ t1.fault = t.fault
    BY WithRow
  <1> HIDE DEF t1
  <1>7. /\ t2 \in Terminals /\ t2.row = r /\ t2.column = t.column
        /\ t2.fault = t.fault /\ t2.buffer = b
    BY <1>1, <1>6, WithBuffer
  <1> HIDE DEF t2
  <1>8. /\ t3 \in Terminals /\ t3.row = r /\ t3.column = t.column
        /\ t3.fault = t.fault /\ t3.buffer = b /\ t3.scrolled = s
    BY <1>2, <1>7, WithScrolled
  <1> HIDE DEF t3
  <1> QED
    BY <1>4, <1>5, <1>8 DEF s

LEMMA SameBuffers ==
  ASSUME NEW t \in Terminals, NEW u \in Terminals,
         \A i \in Cells : t.buffer[i] = u.buffer[i]
  PROVE  t.buffer = u.buffer
  <1>1. t.buffer \in [Cells -> Shown] /\ u.buffer \in [Cells -> Shown]
    BY Fields
  <1> QED
    BY <1>1

\* A scroll that has copied nothing yet has all to do.
LEMMA ShiftedAll ==
  ASSUME NEW t \in Terminals
  PROVE  Shifted(t, t.row - 1, 0) = scroll(t)
  <1> DEFINE r == t.row - 1
             m == Shifted(t, r, 0)
             s == scroll(t)
  <1>1. /\ m \in Terminals /\ m.row = r /\ m.column = t.column
        /\ m.fault = t.fault /\ m.scrolled = Append(t.scrolled, Row(t, 0))
        /\ \A i \in Cells : m.buffer[i] =
              IF i \div VGA_WIDTH = r THEN Blank
              ELSE IF i >= 0 /\ i + VGA_WIDTH < ScreenCells
              THEN t.buffer[i + VGA_WIDTH] ELSE t.buffer[i]
    <2>1. r \in Int
      BY Fields
    <2> HIDE DEF r
    <2> QED
      BY <2>1, ShiftedShape
  <1>2. /\ s \in Terminals /\ s.row = r /\ s.column = t.column
        /\ s.fault = t.fault /\ s.scrolled = Append(t.scrolled, Row(t, 0))
        /\ \A i \in Cells : s.buffer[i] =
              IF i \div VGA_WIDTH = r THEN Blank
              ELSE IF i + VGA_WIDTH < ScreenCells
              THEN t.buffer[i + VGA_WIDTH] ELSE t.buffer[i]
    BY ScrollShape
  <1> HIDE DEF m, s
  <1>3. \A i \in Cells : i >= 0
    BY DEF Cells
  <1>4. ASSUME NEW i \in Cells
        PROVE  m.buffer[i] = s.buffer[i]
    <2>1. i >= 0
      BY <1>3
    <2> QED
      BY <1>1, <1>2, <2>1, Zenon
  <1>5. m = s
    <2>1. m.buffer = s.buffer
      BY ONLY <1>1, <1>2, <1>4, SameBuffers, Zenon
    <2>2. /\ m.row = s.row /\ m.column = s.column /\ m.fault = s.fault
          /\ m.scrolled = s.scrolled /\ m \in Terminals /\ s \in Terminals
      BY ONLY <1>1, <1>2, Zenon
    <2> QED
      BY ONLY <2>1, <2>2, TerminalFields, Zenon
  <1> QED
    BY <1>5 DEF m, s

\* Copying a cell leaves the rest to do.
LEMMA ShiftedOn ==
  ASSUME NEW t \in Terminals, NEW r \in Int, NEW n \in Nat, n < ScreenCells - VGA_WIDTH
  PROVE  Shifted(Copied(t, n), r, n + 1) = Shifted(t, r, n)
  <1> DEFINE c == Copied(t, n)
             k == n + 1
             l == Shifted(c, r, k)
             m == Shifted(t, r, n)
  <1>1. /\ c \in Terminals
        /\ c.row = t.row /\ c.column = t.column /\ c.fault = t.fault
        /\ c.buffer = [t.buffer EXCEPT ![n] = t.buffer[n + VGA_WIDTH]]
        /\ c.scrolled = IF n = 0 THEN Append(t.scrolled, Row(t, 0)) ELSE t.scrolled
        /\ n \in Cells /\ n + VGA_WIDTH \in Cells /\ n + VGA_WIDTH < ScreenCells
    BY CopiedShape
  <1> HIDE DEF c
  <1>2. k \in Nat /\ k # 0
    OBVIOUS
  <1> HIDE DEF k
  <1>3. /\ l \in Terminals /\ l.row = r /\ l.column = t.column
        /\ l.fault = t.fault /\ l.scrolled = c.scrolled
        /\ \A i \in Cells : l.buffer[i] =
              IF i \div VGA_WIDTH = r THEN Blank
              ELSE IF i >= k /\ i + VGA_WIDTH < ScreenCells
              THEN c.buffer[i + VGA_WIDTH] ELSE c.buffer[i]
    <2>1. c \in Terminals /\ r \in Int
      BY <1>1
    <2>2. /\ l \in Terminals /\ l.row = r /\ l.column = c.column
          /\ l.fault = c.fault
          /\ l.scrolled = IF k = 0 THEN Append(c.scrolled, Row(c, 0)) ELSE c.scrolled
          /\ \A i \in Cells : l.buffer[i] =
               IF i \div VGA_WIDTH = r THEN Blank
               ELSE IF i >= k /\ i + VGA_WIDTH < ScreenCells
               THEN c.buffer[i + VGA_WIDTH] ELSE c.buffer[i]
      BY ONLY <1>2, <2>1, ShiftedShape
    <2> QED
      BY <1>1, <1>2, <2>2, Zenon
  <1>4. /\ m \in Terminals /\ m.row = r /\ m.column = t.column
        /\ m.fault = t.fault /\ m.scrolled = c.scrolled
        /\ \A i \in Cells : m.buffer[i] =
              IF i \div VGA_WIDTH = r THEN Blank
              ELSE IF i >= n /\ i + VGA_WIDTH < ScreenCells
              THEN t.buffer[i + VGA_WIDTH] ELSE t.buffer[i]
    BY <1>1, ShiftedShape
  <1> HIDE DEF l, m
  <1>5. \A i \in Cells : c.buffer[i] = IF i = n THEN t.buffer[n + VGA_WIDTH] ELSE t.buffer[i]
    BY <1>1, Fields
  <1>6. ASSUME NEW i \in Cells PROVE l.buffer[i] = m.buffer[i]
    <2>1. i \in Nat /\ (i + VGA_WIDTH < ScreenCells => i + VGA_WIDTH \in Cells)
      BY Sizes, ScreenInPage DEF Cells
    <2>2. CASE i = n
      <3>1. ~(i >= k) /\ i >= n
        BY <2>1, <2>2 DEF k
      <3> QED
        BY <1>1, <1>3, <1>4, <1>5, <2>2, <3>1
    <2>3. CASE i # n
      <3>1. i >= k <=> i >= n
        BY <2>1, <2>3 DEF k
      <3>2. i >= k => i + VGA_WIDTH # n
        BY <2>1, Sizes DEF k
      <3> QED
        BY <1>3, <1>4, <1>5, <2>1, <2>3, <3>1, <3>2
    <2> QED
      BY <2>2, <2>3
  <1>7. l = m
    BY <1>3, <1>4, <1>6, SameBuffers, TerminalFields
  <1> QED
    BY <1>7 DEF l, m, c, k

LEMMA CopiesPositive == Copies \in Nat /\ Copies > 0
  <1>1. (VGA_HEIGHT - 1) * VGA_WIDTH = ScreenCells - VGA_WIDTH
    BY Sizes DEF ScreenCells
  <1>2. VGA_HEIGHT - 1 >= 1 /\ VGA_HEIGHT - 1 \in Nat
    BY Sizes
  <1>3. (VGA_HEIGHT - 1) * VGA_WIDTH >= VGA_WIDTH
    BY <1>2, Sizes
  <1> QED
    BY <1>1, <1>3, Sizes, ScreenInPage DEF Copies

\* With all cells copied the rest to do is to blank the row r.
LEMMA ShiftedLast ==
  ASSUME NEW t \in Terminals, NEW r \in Int
  PROVE  LET m == Shifted(t, r, Copies) IN
         /\ m \in Terminals
         /\ m.row = r /\ m.column = t.column
         /\ m.fault = t.fault /\ m.scrolled = t.scrolled
         /\ \A i \in Cells : m.buffer[i] =
              IF i \div VGA_WIDTH = r THEN Blank ELSE t.buffer[i]
  <1> DEFINE m == Shifted(t, r, Copies)
  <1>1. /\ m \in Terminals
        /\ m.row = r /\ m.column = t.column
        /\ m.fault = t.fault
        /\ \A i \in Cells : m.buffer[i] =
              IF i \div VGA_WIDTH = r THEN Blank
              ELSE IF i >= Copies /\ i + VGA_WIDTH < ScreenCells
              THEN t.buffer[i + VGA_WIDTH] ELSE t.buffer[i]
        /\ m.scrolled = IF Copies = 0 THEN Append(t.scrolled, Row(t, 0)) ELSE t.scrolled
    BY CopiesPositive, ShiftedShape
  <1> HIDE DEF m
  <1>2. \A i \in Cells : ~(i >= Copies /\ i + VGA_WIDTH < ScreenCells)
    BY Sizes, ScreenInPage DEF Cells, Copies
  <1>3. Copies # 0
    BY CopiesPositive
  <1> QED
    BY <1>1, <1>2, <1>3 DEF m

LEMMA ShiftedLowered ==
  ASSUME NEW t \in Terminals, NEW r \in Int, NEW n \in Int
  PROVE  Shifted([t EXCEPT !.row = n], r, Copies) = Shifted(t, r, Copies)
  <1> DEFINE u == [t EXCEPT !.row = n]
             l == Shifted(u, r, Copies)
             m == Shifted(t, r, Copies)
  <1>1. /\ u \in Terminals /\ u.column = t.column /\ u.fault = t.fault
        /\ u.scrolled = t.scrolled /\ u.buffer = t.buffer
    BY WithRow
  <1> HIDE DEF u
  <1>2. /\ l \in Terminals /\ l.row = m.row /\ l.column = m.column
        /\ l.fault = m.fault /\ l.scrolled = m.scrolled /\ m \in Terminals
        /\ \A i \in Cells : l.buffer[i] = m.buffer[i]
    BY <1>1, ShiftedLast
  <1> HIDE DEF l, m
  <1>3. l = m
    BY <1>2, SameBuffers, TerminalFields
  <1> QED
    BY <1>3 DEF l, m, u

\* The place x of row y is in that row, on the screen or past it.
LEMMA RowOfPlace ==
  ASSUME NEW y \in Nat, NEW x \in Columns
  PROVE  y * VGA_WIDTH + x \in Int /\ (y * VGA_WIDTH + x) \div VGA_WIDTH = y
  <1>1. x \in Nat /\ x < VGA_WIDTH
    BY Sizes DEF Columns
  <1> QED
    BY <1>1, Sizes

\* Blanking a cell of the row r leaves the rest to do.
LEMMA ShiftedBlanked ==
  ASSUME NEW t \in Terminals, NEW r \in Nat, NEW x \in Columns,
         ~Store(t, r * VGA_WIDTH + x, Blank).fault
  PROVE  LET s == Store(t, r * VGA_WIDTH + x, Blank) IN
         /\ s \in Terminals /\ s.row = t.row /\ s.column = t.column
         /\ s.fault = t.fault /\ s.scrolled = t.scrolled
         /\ r * VGA_WIDTH + x \in Cells
         /\ s.buffer = [t.buffer EXCEPT ![r * VGA_WIDTH + x] = Blank]
         /\ Shifted(s, r, Copies) = Shifted(t, r, Copies)
  <1> DEFINE j == r * VGA_WIDTH + x
             s == Store(t, j, Blank)
             l == Shifted(s, r, Copies)
             m == Shifted(t, r, Copies)
  <1>1. j \in Int /\ j \div VGA_WIDTH = r
    BY RowOfPlace
  <1>2. Blank \in Shown
    BY DEF Shown
  <1>a. ~s.fault
    OBVIOUS
  <1>b. r \in Int
    OBVIOUS
  <1> HIDE DEF j
  <1>3. /\ j \in Cells
        /\ s \in Terminals /\ s.row = t.row /\ s.column = t.column
        /\ s.fault = t.fault /\ s.scrolled = t.scrolled
        /\ s.buffer = [t.buffer EXCEPT ![j] = Blank]
    BY <1>1, <1>2, <1>a, StoreShape
  <1> HIDE DEF s
  <1>4. \A i \in Cells : s.buffer[i] = IF i = j THEN Blank ELSE t.buffer[i]
    BY <1>3, Fields
  <1>5. /\ l \in Terminals /\ l.row = r /\ l.column = t.column
        /\ l.fault = t.fault /\ l.scrolled = t.scrolled
        /\ \A i \in Cells : l.buffer[i] =
              IF i \div VGA_WIDTH = r THEN Blank ELSE s.buffer[i]
    BY <1>3, <1>b, ShiftedLast
  <1>6. /\ m \in Terminals /\ m.row = r /\ m.column = t.column
        /\ m.fault = t.fault /\ m.scrolled = t.scrolled
        /\ \A i \in Cells : m.buffer[i] =
              IF i \div VGA_WIDTH = r THEN Blank ELSE t.buffer[i]
    BY <1>b, ShiftedLast
  <1> HIDE DEF l, m
  <1>7. \A i \in Cells : l.buffer[i] = m.buffer[i]
    BY <1>1, <1>4, <1>5, <1>6
  <1>8. l = m
    BY <1>5, <1>6, <1>7, SameBuffers, TerminalFields
  <1> QED
    BY <1>3, <1>8 DEF l, m, s, j

\* With the row r blank nothing is left to do.
LEMMA ShiftedDone ==
  ASSUME NEW t \in Terminals, NEW r \in Nat, t.row = r,
         \A x \in Columns : r * VGA_WIDTH + x \in Cells =>
                              t.buffer[r * VGA_WIDTH + x] = Blank
  PROVE  Shifted(t, r, Copies) = t
  <1> DEFINE m == Shifted(t, r, Copies)
  <1>1. /\ m \in Terminals /\ m.row = r /\ m.column = t.column
        /\ m.fault = t.fault /\ m.scrolled = t.scrolled
        /\ \A i \in Cells : m.buffer[i] =
              IF i \div VGA_WIDTH = r THEN Blank ELSE t.buffer[i]
    BY ShiftedLast
  <1> HIDE DEF m
  <1>2. ASSUME NEW i \in Cells, i \div VGA_WIDTH = r
        PROVE  t.buffer[i] = Blank
    <2> DEFINE x == i % VGA_WIDTH
    <2>1. i \in Nat
      BY Sizes DEF Cells
    <2>2. i = (i \div VGA_WIDTH) * VGA_WIDTH + x /\ x \in Columns
      BY <2>1, Sizes DEF Columns
    <2> QED
      BY <1>2, <2>2
  <1>3. \A i \in Cells : m.buffer[i] = t.buffer[i]
    BY <1>1, <1>2
  <1>4. m = t
    BY <1>1, <1>3, SameBuffers, TerminalFields
  <1> QED
    BY <1>4 DEF m

\* The call, the test of the row and the copying of a scroll.
LEMMA MeantScroll ==
  ASSUME RaceTypes, MeantInv,
         (\E c \in KernelChars : Call(c)) \/ CheckRow \/ CopyCell \/ LoadLowered
         \/ StoreLowered \/ BlankCell \/ EndScroll
  PROVE  MeantInv'
  <1> USE DEF Kernel, Goto, locals
  <1>a. /\ tty \in Terminals /\ tty.row \in Int
        /\ column \in Int /\ row \in Int /\ cell \in Nat
    BY Fields DEF RaceTypes
  <1>1. CASE \E c \in KernelChars : Call(c)
    BY <1>1 DEF Call, MeantInv, Follows
  <1>2. SUFFICES ASSUME ~(\E c \in KernelChars : Call(c)), ~meant'.fault PROVE MeantInv'
    BY <1>1 DEF MeantInv
  <1>b. Follows
    BY <1>2 DEF MeantInv, CheckRow, CopyCell, LoadLowered, StoreLowered, BlankCell,
                EndScroll
  <1>3. CASE CheckRow
    <2>1. /\ pc = "check" /\ tty' = tty /\ meant' = meant /\ char' = char
          /\ after' = "body" /\ cell' = 0
          /\ pc' = IF tty.row = VGA_HEIGHT THEN "copy" ELSE "body"
      BY <1>3 DEF CheckRow
    <2>2. meant = Body(Brought(tty), char)
      BY <1>b, <2>1, PutcharIsBody DEF Follows
    <2>3. CASE tty.row = VGA_HEIGHT
      <3>1. Brought(tty) = Shifted(tty, tty.row - 1, 0)
        BY <1>a, <2>3, ShiftedAll DEF Brought
      <3>2. meant' = AfterScroll(Shifted(tty, tty.row - 1, cell))'
        BY <2>1, <2>2, <3>1 DEF AfterScroll
      <3>3. cell' <= Copies
        BY <2>1, CopiesPositive
      <3> QED
        BY <1>a, <2>1, <2>3, <3>2, <3>3, Sizes DEF MeantInv, Follows
    <2>4. CASE tty.row # VGA_HEIGHT
      BY <2>1, <2>2, <2>4 DEF MeantInv, Follows, Brought
    <2> QED
      BY <2>3, <2>4
  <1>4. CASE CopyCell
    <2>1. /\ pc = "copy" /\ cell < Copies /\ meant' = meant /\ char' = char
          /\ after' = after /\ cell' = cell + 1 /\ pc' = "copy"
          /\ tty' = Copied(tty, cell)
      BY <1>4 DEF CopyCell, Copied, Copies
    <2>2. tty.row >= VGA_HEIGHT /\ meant = AfterScroll(Shifted(tty, tty.row - 1, cell))
      BY <1>b, <2>1 DEF Follows
    <2>3. tty'.row = tty.row
      BY <1>a, <2>1, CopiedShape DEF Copies
    <2>4. Shifted(tty', tty'.row - 1, cell') = Shifted(tty, tty.row - 1, cell)
      <3>1. tty.row - 1 \in Int
        BY <1>a
      <3> QED
        BY <1>a, <2>1, <2>3, <3>1, ShiftedOn DEF Copies
    <2>5. meant' = AfterScroll(Shifted(tty, tty.row - 1, cell))'
      BY <2>1, <2>2, <2>4 DEF AfterScroll
    <2>6. cell' <= Copies
      BY <1>a, <2>1, CopiesPositive
    <2> QED
      BY <2>1, <2>2, <2>3, <2>5, <2>6 DEF MeantInv, Follows
  <1>5. CASE LoadLowered
    <2>1. /\ pc = "copy" /\ cell = Copies /\ meant' = meant /\ char' = char
          /\ after' = after /\ cell' = 0 /\ pc' = "lower"
          /\ tty' = tty /\ row' = tty.row - 1
      BY <1>5 DEF LoadLowered, Copies
    <2>2. tty.row >= VGA_HEIGHT /\ meant = AfterScroll(Shifted(tty, tty.row - 1, Copies))
      BY <1>b, <2>1 DEF Follows
    <2>3. meant' = AfterScroll(Shifted(tty, row, Copies))'
      BY <2>1, <2>2 DEF AfterScroll
    <2> QED
      <3>1. row' >= VGA_HEIGHT - 1
        BY <1>a, <2>1, <2>2, Sizes
      <3> QED
        BY <2>1, <2>3, <3>1 DEF MeantInv, Follows
  <1>6. CASE StoreLowered
    <2>1. /\ pc = "lower" /\ meant' = meant /\ char' = char
          /\ after' = after /\ cell' = cell /\ pc' = "blank"
          /\ tty' = [tty EXCEPT !.row = row] /\ row' = row
      BY <1>6 DEF StoreLowered
    <2>2. /\ row >= VGA_HEIGHT - 1 /\ cell = 0
          /\ meant = AfterScroll(Shifted(tty, row, Copies))
      BY <1>b, <2>1 DEF Follows
    <2>3. Shifted(tty', row, Copies) = Shifted(tty, row, Copies) /\ tty'.row = row
      BY <1>a, <2>1, ShiftedLowered, WithRow
    <2>4. meant' = AfterScroll(Shifted(tty, row, Copies))'
      BY <2>1, <2>2, <2>3 DEF AfterScroll
    <2>5. cell' <= VGA_WIDTH /\ 0 .. (cell' - 1) = {}
      BY <2>1, <2>2, Sizes
    <2> QED
      BY <2>1, <2>2, <2>3, <2>4, <2>5 DEF MeantInv, Follows
  <1>7. CASE BlankCell
    <2> DEFINE j == row * VGA_WIDTH + cell
    <2>1. /\ pc = "blank" /\ cell < VGA_WIDTH /\ meant' = meant /\ char' = char
          /\ after' = after /\ cell' = cell + 1 /\ pc' = "blank"
          /\ tty' = Store(tty, row * VGA_WIDTH + cell, Blank) /\ row' = row
      BY <1>7 DEF BlankCell
    <2>2. /\ row >= VGA_HEIGHT - 1 /\ tty.row = row
          /\ meant = AfterScroll(Shifted(tty, row, Copies))
          /\ \A x \in 0 .. (cell - 1) :
               row * VGA_WIDTH + x \in Cells =>
                 tty.buffer[row * VGA_WIDTH + x] = Blank
      BY <1>b, <2>1 DEF Follows
    <2>3. cell \in Columns /\ row \in Nat
      BY <1>a, <2>1, <2>2, Sizes DEF Columns
    <2>a. CASE tty'.fault
      BY <2>1, <2>a DEF MeantInv
    <2>b. SUFFICES ASSUME ~tty'.fault PROVE MeantInv'
      BY <2>a
    <2>4. /\ tty' = Store(tty, j, Blank) /\ j \in Cells
          /\ tty'.row = tty.row
          /\ tty'.buffer = [tty.buffer EXCEPT ![j] = Blank]
          /\ Shifted(tty', row, Copies) = Shifted(tty, row, Copies)
      BY <1>a, <2>1, <2>3, <2>b, ShiftedBlanked
    <2>5. meant' = AfterScroll(Shifted(tty, row, Copies))'
      BY <2>1, <2>2, <2>4 DEF AfterScroll
    <2>6. ASSUME NEW x \in 0 .. (cell' - 1), row * VGA_WIDTH + x \in Cells
          PROVE  tty'.buffer[row * VGA_WIDTH + x] = Blank
      <3>1. x = cell \/ x \in 0 .. (cell - 1)
        BY <1>a, <2>1
      <3>2. tty.buffer \in [Cells -> Shown]
        BY <1>a, Fields
      <3>3. x = cell => row * VGA_WIDTH + x = j
        OBVIOUS
      <3> HIDE DEF j
      <3> QED
        BY <2>2, <2>4, <2>6, <3>1, <3>2, <3>3
    <2>7. cell' <= VGA_WIDTH
      BY <1>a, <2>1, Sizes
    <2> QED
      BY <2>1, <2>2, <2>4, <2>5, <2>6, <2>7 DEF MeantInv, Follows
  <1>8. CASE EndScroll
    <2>1. /\ pc = "blank" /\ cell = VGA_WIDTH /\ meant' = meant /\ char' = char
          /\ pc' = after /\ tty' = tty
      BY <1>8 DEF EndScroll
    <2>2. /\ row >= VGA_HEIGHT - 1 /\ tty.row = row
          /\ meant = AfterScroll(Shifted(tty, row, Copies))
          /\ \A x \in 0 .. (cell - 1) :
               row * VGA_WIDTH + x \in Cells =>
                 tty.buffer[row * VGA_WIDTH + x] = Blank
      BY <1>b, <2>1 DEF Follows
    <2>3. Shifted(tty, row, Copies) = tty
      <3>1. row \in Nat
        BY <1>a, <2>2, Sizes
      <3> QED
        BY <1>a, <2>1, <2>2, <3>1, ShiftedDone DEF Columns
    <2>4. after \in {"body", "return"}
      BY DEF RaceTypes
    <2> QED
      BY <2>1, <2>2, <2>3, <2>4 DEF MeantInv, Follows, AfterScroll
  <1> QED
    BY <1>2, <1>3, <1>4, <1>5, <1>6, <1>7, <1>8

\* The paths of the character itself.
LEMMA MeantBody ==
  ASSUME RaceTypes, MeantInv,
         FirstColumn \/ NextRow \/ LoadColumn \/ StoreTab \/ LoadRow \/ StepBack
         \/ StoreCell \/ StoreColumn \/ StoreRow \/ Return
  PROVE  MeantInv'
  <1> USE DEF Kernel, Goto, locals
  <1>a. /\ tty \in Terminals /\ tty.row \in Int
        /\ column \in Int /\ row \in Int /\ cell \in Nat
    BY Fields DEF RaceTypes
  <1>b. tty.row \in Int /\ tty.column \in Int
    BY <1>a, Fields
  <1>1. SUFFICES ASSUME ~meant.fault, meant' = meant PROVE MeantInv'
    BY DEF MeantInv, FirstColumn, NextRow, LoadColumn, StoreTab, LoadRow, StepBack,
           StoreCell, StoreColumn, StoreRow, Return
  <1>c. Follows
    BY <1>1 DEF MeantInv, FirstColumn, NextRow, LoadColumn, StoreTab, LoadRow, StepBack,
                StoreCell, StoreColumn, StoreRow, Return
  <1>2. CASE FirstColumn
    <2>1. /\ pc = "body" /\ char = NEWLINE /\ pc' = "newline"
          /\ tty' = [tty EXCEPT !.column = 0]
      BY <1>2 DEF FirstColumn
    <2>2. meant = newline(tty)
      BY <1>c, <2>1 DEF Follows, Body
    <2>3. tty'.row = tty.row
      BY <1>a, <2>1, WithColumn
    <2>4. meant = [tty' EXCEPT !.row = tty'.row + 1]
      BY <2>1, <2>2, <2>3, Zenon DEF newline
    <2> QED
      BY <1>1, <2>1, <2>4 DEF MeantInv, Follows
  <1>3. CASE NextRow
    <2>1. pc = "newline" /\ pc' = "return" /\ tty' = [tty EXCEPT !.row = tty.row + 1]
      BY <1>3 DEF NextRow
    <2> QED
      BY <1>1, <1>c, <2>1 DEF MeantInv, Follows
  <1>4. CASE LoadColumn
    <2>1. /\ pc = "body" /\ char # NEWLINE /\ column' = tty.column /\ tty' = tty
          /\ char' = char
          /\ pc' = IF char = TABULATOR THEN "tab" ELSE "row"
      BY <1>4 DEF LoadColumn
    <2>2. meant = Body(tty, char)
      BY <1>c, <2>1 DEF Follows
    <2>3. CASE char = TABULATOR
      <3>1. meant = [tty EXCEPT !.column = tty.column + TAB]
        BY <2>1, <2>2, <2>3, Zenon DEF Body, tabulator
      <3> QED
        BY <1>1, <2>1, <2>3, <3>1 DEF MeantInv, Follows
    <2>4. CASE char # TABULATOR
      BY <1>1, <2>1, <2>2, <2>4 DEF MeantInv, Follows
    <2> QED
      BY <2>3, <2>4
  <1>5. CASE StoreTab
    <2>1. pc = "tab" /\ pc' = "return" /\ tty' = [tty EXCEPT !.column = column + TAB]
      BY <1>5 DEF StoreTab
    <2> QED
      BY <1>1, <1>c, <2>1 DEF MeantInv, Follows
  <1>6. CASE LoadRow
    <2>1. /\ pc = "row" /\ row' = tty.row /\ tty' = tty /\ char' = char
          /\ column' = column
          /\ pc' = IF char = BACKSPACE THEN "back" ELSE "cell"
      BY <1>6 DEF LoadRow
    <2>2. column = tty.column /\ meant = Body(tty, char)
      BY <1>c, <2>1 DEF Follows
    <2>3. CASE char = BACKSPACE
      BY <1>1, <2>1, <2>2, <2>3 DEF MeantInv, Follows
    <2>4. CASE char # BACKSPACE
      <3>1. char # NEWLINE /\ char # TABULATOR
        BY <2>1, <2>4, CharsAssumption DEF RaceTypes
      <3>2. meant = glyph(tty, char)
        BY <2>2, <2>4, <3>1 DEF Body
      <3> DEFINE put == Store(tty, tty.row * VGA_WIDTH + tty.column, char)
      <3>3. meant = IF put.fault THEN put ELSE Advanced(put)
        BY <3>2, GlyphIsStore DEF Index
      <3>4. row' * VGA_WIDTH + column' = tty.row * VGA_WIDTH + tty.column
        BY <2>1, <2>2
      <3> QED
        BY <1>1, <2>1, <2>2, <2>4, <3>3, <3>4 DEF MeantInv, Follows
    <2> QED
      BY <2>3, <2>4
  <1>7. CASE StepBack
    <2> DEFINE k == IF tty.column = 0 THEN 0 ELSE tty.column - 1
               back == [tty EXCEPT !.column = k]
    <2>1. /\ pc = "back" /\ pc' = "cell" /\ char' = char /\ row' = row
          /\ column' = IF column = 0 THEN 0 ELSE column - 1
          /\ tty' = IF column = 0 THEN tty ELSE [tty EXCEPT !.column = column - 1]
      BY <1>7 DEF StepBack
    <2>2. /\ char = BACKSPACE /\ column = tty.column /\ row = tty.row
          /\ meant = Body(tty, char)
      BY <1>c, <2>1 DEF Follows
    <2>3. meant = Store(back, Index(back), Blank)
      <3>1. char # NEWLINE /\ char # TABULATOR
        BY <2>2, CharsAssumption
      <3>2. meant = backspace(tty)
        BY <2>2, <3>1 DEF Body
      <3> QED
        BY <3>2, Zenon DEF backspace
    <2>4. column' = k /\ k \in Int
      BY <1>b, <2>1, <2>2
    <2>5. tty' = back
      <3>1. CASE column = 0
        <4>1. k = tty.column /\ tty' = tty
          BY <2>1, <2>2, <3>1
        <4> HIDE DEF k
        <4>2. back \in Terminals /\ back.column = tty.column /\ back.row = tty.row
              /\ back.buffer = tty.buffer /\ back.fault = tty.fault
              /\ back.scrolled = tty.scrolled
          BY <1>a, <2>4, <4>1, WithColumn
        <4> HIDE DEF back
        <4>3. back = tty
          BY <1>a, <4>2, TerminalFields
        <4> QED
          BY <4>1, <4>3
      <3>2. CASE column # 0
        BY <2>1, <2>2, <3>2
      <3> QED
        BY <3>1, <3>2
    <2> HIDE DEF k
    <2>6. back.column = k /\ back.row = tty.row
      BY <1>a, <2>4, WithColumn
    <2> HIDE DEF back
    <2>7. /\ Index(back) = row' * VGA_WIDTH + column'
          /\ tty'.column = column' /\ tty'.row = row'
      BY <2>1, <2>2, <2>4, <2>5, <2>6 DEF Index
    <2>8. meant = Store(tty', row' * VGA_WIDTH + column', Blank)
      BY <2>3, <2>5, <2>7
    <2> QED
      BY <1>1, <2>1, <2>2, <2>7, <2>8 DEF MeantInv, Follows
  <1>8. CASE StoreCell
    <2> DEFINE entry == IF char = BACKSPACE THEN Blank ELSE char
               put == Store(tty, row * VGA_WIDTH + column, entry)
    <2>1. /\ pc = "cell" /\ tty' = put /\ char' = char /\ row' = row
          /\ column' = column
          /\ pc' = IF char = BACKSPACE THEN "return" ELSE "advance"
      BY <1>8 DEF StoreCell
    <2>2. /\ column = tty.column /\ row = tty.row
          /\ meant = IF char = BACKSPACE \/ put.fault THEN put ELSE Advanced(put)
      BY <1>c, <2>1 DEF Follows
    <2>3. row * VGA_WIDTH + column \in Int /\ entry \in Shown
      <3>1. row * VGA_WIDTH + column \in Int
        BY <1>a, Sizes
      <3>2. char \in Glyphs \cup {BACKSPACE}
        BY <2>1 DEF RaceTypes
      <3> QED
        BY <3>1, <3>2 DEF Shown
    <2>4. put.row = tty.row /\ put.column = tty.column
      BY <1>a, <2>3, StoreShape
    <2> HIDE DEF put
    <2>5. CASE char = BACKSPACE
      BY <1>1, <2>1, <2>2, <2>5 DEF MeantInv, Follows
    <2>6. CASE char # BACKSPACE
      <3>1. ~put.fault
        BY <1>1, <2>2
      <3> QED
        BY <1>1, <2>1, <2>2, <2>4, <2>6, <3>1 DEF MeantInv, Follows
    <2> QED
      BY <2>5, <2>6
  <1>9. CASE StoreColumn
    <2>1. /\ pc = "advance" /\ row' = row /\ column' = column /\ char' = char
          /\ IF column + 1 < VGA_WIDTH
             THEN tty' = [tty EXCEPT !.column = column + 1] /\ pc' = "return"
             ELSE tty' = [tty EXCEPT !.column = 0] /\ pc' = "wrap"
      BY <1>9 DEF StoreColumn
    <2>2. column = tty.column /\ row = tty.row /\ meant = Advanced(tty)
      BY <1>c, <2>1 DEF Follows
    <2>3. CASE column + 1 < VGA_WIDTH
      BY <1>1, <2>1, <2>2, <2>3 DEF MeantInv, Follows, Advanced
    <2>4. CASE ~(column + 1 < VGA_WIDTH)
      <3>1. tty' = [tty EXCEPT !.column = 0] /\ pc' = "wrap"
        BY <2>1, <2>4
      <3>2. tty'.row = tty.row
        BY <1>a, <3>1, WithColumn
      <3> DEFINE next == [tty' EXCEPT !.row = row' + 1]
      <3>3. newline(tty) = next
        BY <2>1, <2>2, <3>1, Zenon DEF newline
      <3>4. newline(tty).row = row' + 1
        BY <1>a, <2>1, <2>2, NewlineShape
      <3>5. meant = IF newline(tty).row < VGA_HEIGHT THEN newline(tty)
                    ELSE scroll(newline(tty))
        BY <2>2, <2>4 DEF Advanced
      <3>6. meant = IF row' + 1 < VGA_HEIGHT THEN next ELSE scroll(next)
        BY <3>3, <3>4, <3>5
      <3> QED
        BY <1>1, <2>1, <2>2, <3>1, <3>2, <3>6 DEF MeantInv, Follows
    <2> QED
      BY <2>3, <2>4
  <1>10. CASE StoreRow
    <2>1. /\ pc = "wrap" /\ tty' = [tty EXCEPT !.row = row + 1]
          /\ after' = "return" /\ cell' = 0 /\ char' = char
          /\ pc' = IF row + 1 >= VGA_HEIGHT THEN "copy" ELSE "return"
      BY <1>10 DEF StoreRow
    <2>2. /\ row = tty.row
          /\ meant = IF row + 1 < VGA_HEIGHT THEN tty' ELSE scroll(tty')
      BY <1>c, <2>1 DEF Follows
    <2>3. CASE row + 1 < VGA_HEIGHT
      <3>1. pc' = "return"
        BY <1>a, <2>1, <2>3, Sizes
      <3> QED
        BY <1>1, <2>2, <2>3, <3>1 DEF MeantInv, Follows
    <2>4. CASE ~(row + 1 < VGA_HEIGHT)
      <3>1. pc' = "copy" /\ row + 1 >= VGA_HEIGHT /\ row + 1 \in Int
        BY <1>a, <2>1, <2>2, <2>4, Sizes
      <3>2. tty' \in Terminals /\ tty'.row = row + 1
        BY <1>a, <2>1, <3>1, WithRow
      <3>3. meant = Shifted(tty', tty'.row - 1, 0)
        BY <2>2, <2>4, <3>2, ShiftedAll
      <3>4. meant' = AfterScroll(Shifted(tty, tty.row - 1, cell))'
        BY <1>1, <2>1, <3>3 DEF AfterScroll
      <3>5. cell' <= Copies
        BY <2>1, CopiesPositive
      <3> QED
        BY <1>1, <3>1, <3>2, <3>4, <3>5 DEF MeantInv, Follows
    <2> QED
      BY <2>3, <2>4
  <1>11. CASE Return
    BY <1>11 DEF Return, MeantInv, Follows
  <1> QED
    BY <1>2, <1>3, <1>4, <1>5, <1>6, <1>7, <1>8, <1>9, <1>10, <1>11

(***************************************************************************)
(* A call that no interrupt comes into does what terminal_putchar does in  *)
(* one step, for every size of the screen, whatever interrupts left before *)
(* it, a row past the screen included: splitting the scroll and the stores *)
(* changes nothing by itself.                                              *)
(***************************************************************************)
THEOREM CallsAreWhole == SpecRace => []Uninterrupted
  <1>1. InitRace => MeantInv
    BY DEF InitRace, MeantInv, NoClaim
  <1>2. RaceTypes /\ MeantInv /\ [NextRace]_raceVars => MeantInv'
    <2> SUFFICES ASSUME RaceTypes, MeantInv, [NextRace]_raceVars PROVE MeantInv'
      OBVIOUS
    <2>1. CASE UNCHANGED raceVars
      BY <2>1 DEF raceVars, MeantInv, Follows, AfterScroll
    <2>2. CASE Boot
      BY <2>2 DEF Boot, MeantInv, Follows
    <2>3. CASE \E c \in KeyChars : Interrupt(c)
      BY <2>3 DEF Interrupt, MeantInv, NoClaim
    <2>4. CASE /\ NextRace
               /\ ~Boot /\ ~(\E c \in KeyChars : Interrupt(c))
      BY <2>4, MeantScroll, MeantBody DEF NextRace
    <2> QED
      BY <2>1, <2>2, <2>3, <2>4
  <1>3. MeantInv => Uninterrupted
    BY DEF MeantInv, Uninterrupted
  <1> QED
    BY <1>1, <1>2, <1>3, RaceTyped, PTL DEF SpecRace

=============================================================================
