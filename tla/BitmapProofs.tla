---------------------------- MODULE BitmapProofs ----------------------------
(***************************************************************************)
(* Theorems about BitmapLoops, for every size of a word, every width of an *)
(* offset and every content of memory: pass by pass the loops do what      *)
(* module PMM takes them to do in one step.                                *)
(***************************************************************************)
EXTENDS BitmapLoops, TLAPS

-----------------------------------------------------------------------------
(***************************************************************************)
(* Words                                                                   *)
(***************************************************************************)

\* Words and offsets are counted from 0.
LEMMA Sizes ==
  /\ WORD \in Nat /\ WORD > 0
  /\ WIDTH \in Nat /\ WIDTH > 0
  BY WidthAssumption

\* A word starts at a multiple of WORD.
LEMMA WordCount ==
  ASSUME NEW s \in Nat
  PROVE  /\ s \div WORD \in Nat
         /\ s % WORD = 0 => s = (s \div WORD) * WORD
         /\ (s * WORD) % WORD = 0
         /\ s * WORD \in Nat
  <1>1. s \div WORD \in Nat /\ (s % WORD = 0 => s = (s \div WORD) * WORD)
    BY Sizes
  <1>2. (s * WORD) % WORD = 0 /\ s * WORD \in Nat
    BY Sizes
  <1> QED
    BY <1>1, <1>2

\* An offset at which a word starts starts that word.
LEMMA WordStarts ==
  ASSUME NEW o \in Nat, o % WORD = 0
  PROVE  WordAt(o) = o .. (o + WORD - 1)
  <1>1. (o \div WORD) * WORD = o
    BY WordCount
  <1> QED
    BY <1>1 DEF WordAt

\* Every offset is in the word that starts at or before it.
LEMMA WordShape ==
  ASSUME NEW o \in Nat
  PROVE  \E s \in Nat : /\ s % WORD = 0 /\ s <= o /\ o < s + WORD
                       /\ WordAt(o) = s .. (s + WORD - 1)
  <1> DEFINE s == (o \div WORD) * WORD
  <1>1. s <= o /\ o < s + WORD
    BY Sizes
  <1>2. o \div WORD \in Nat
    BY WordCount
  <1>3. s \in Nat /\ s % WORD = 0
    BY <1>2, WordCount
  <1>4. WordAt(o) = s .. (s + WORD - 1)
    BY DEF WordAt
  <1> QED
    BY <1>1, <1>3, <1>4

\* The next word starts where this one ends.
LEMMA NextWord ==
  ASSUME NEW o \in Nat, o % WORD = 0
  PROVE  (o + WORD) % WORD = 0
  <1> DEFINE q == o \div WORD
  <1>1. q \in Nat /\ o = q * WORD
    BY WordCount
  <1> HIDE DEF q
  <1>2. o + WORD = (q + 1) * WORD
    BY <1>1, Sizes
  <1> QED
    BY <1>1, <1>2, WordCount

\* Within a word only its start is a multiple of WORD.
LEMMA InsideWord ==
  ASSUME NEW s \in Nat, s % WORD = 0, NEW o \in s .. (s + WORD - 1)
  PROVE  /\ o % WORD = o - s
         /\ WordAt(o) = s .. (s + WORD - 1)
  <1>1. PICK q \in Nat : s = q * WORD
    BY WordCount
  <1>2. o \div WORD = q /\ o % WORD = o - s
    BY <1>1, Sizes
  <1> QED
    BY <1>1, <1>2 DEF WordAt

\* Two words either coincide or one ends before the other starts.
LEMMA WordsApart ==
  ASSUME NEW s \in Nat, NEW t \in Nat, s % WORD = 0, t % WORD = 0, s < t
  PROVE  s + WORD <= t
  <1>1. PICK q \in Nat : s = q * WORD
    BY WordCount
  <1>2. PICK r \in Nat : t = r * WORD
    BY WordCount
  <1>3. q < r
    BY <1>1, <1>2, Sizes
  <1>4. (q + 1) * WORD <= r * WORD
    BY <1>3, Sizes
  <1> QED
    BY <1>1, <1>2, <1>4, Sizes

-----------------------------------------------------------------------------
(***************************************************************************)
(* The inductive invariant                                                 *)
(***************************************************************************)

Written(offsets) ==
  IF op = "set_bits" THEN before \cup offsets ELSE before \ offsets

(***************************************************************************)
(* set_bits and unset_bits: what is written is what i has passed; i passes *)
(* last by one at most, and starts a word where words are written.         *)
(***************************************************************************)
RangeInv ==
  /\ op \in {"set_bits", "unset_bits"}
  /\ first \in Nat /\ first + 1 + WORD < WIDTH
  /\ last \in Nat /\ last + 1 + WORD < WIDTH
  /\ pc \in {"head", "words", "tail", "done"}
  /\ i \in Nat /\ first <= i /\ (i = first \/ i <= last + 1)
  /\ memory = Written(first .. (i - 1))
  /\ pc = "words" => i > last \/ i % WORD = 0
  /\ pc = "done" => i > last

(***************************************************************************)
(* The search: every bit before i is set; while a word is searched, it has *)
(* an unset bit from i on, and that is a bit of the zone.                  *)
(***************************************************************************)
SearchInv ==
  /\ op = "search"
  /\ first = 0
  /\ last \in Nat /\ 0 < last /\ last + 2 * WORD <= WIDTH
  /\ \A o \in WordAt(last - 1) : o >= last => o \in before
  /\ pc \in {"full", "unset", "found", "no word"}
  /\ i \in Nat /\ i < last + WORD
  /\ 0 .. (i - 1) \subseteq before
  /\ memory = IF pc = "found" THEN before \cup {i} ELSE before
  /\ pc = "full" => i % WORD = 0
  /\ pc = "unset" => \E x \in WordAt(i) : i <= x /\ x < last /\ x \notin before
  /\ pc = "found" => i < last /\ i \notin before
  /\ pc = "no word" => i >= last

LoopInv ==
  /\ before \subseteq Nat
  /\ RangeInv \/ SearchInv

\* No offset that a loop reaches wraps.
LEMMA NoWrap ==
  ASSUME NEW o \in Nat, o < WIDTH
  PROVE  o % WIDTH = o
  BY Sizes

LEMMA InitHolds ==
  InitRange \/ InitSearch => LoopInv
  <1>1. ASSUME InitRange PROVE LoopInv
    <2>1. /\ first \in Nat /\ first + 1 + WORD < WIDTH
          /\ last \in Nat /\ last + 1 + WORD < WIDTH
          /\ before \subseteq Nat
      BY <1>1, MemoriesAssumption DEF InitRange, Offset
    <2>2. first .. (i - 1) = {}
      BY <1>1, <2>1 DEF InitRange
    <2>3. memory = Written(first .. (i - 1))
      BY <1>1, <2>2 DEF InitRange, Written
    <2> QED
      BY <1>1, <2>1, <2>3 DEF InitRange, LoopInv, RangeInv
  <1>2. ASSUME InitSearch PROVE LoopInv
    <2>1. /\ last \in Nat /\ 0 < last /\ last + 2 * WORD <= WIDTH
          /\ before \subseteq Nat
      BY <1>2, Sizes, MemoriesAssumption DEF InitSearch
    <2>2. i \in Nat /\ i < last + WORD /\ i % WORD = 0 /\ 0 .. (i - 1) = {}
      BY <1>2, <2>1, Sizes DEF InitSearch
    <2> QED
      BY <1>2, <2>1, <2>2 DEF InitSearch, LoopInv, SearchInv
  <1> QED
    BY <1>1, <1>2

\* A pass that writes the offsets from i on writes the next ones.
LEMMA WriteOn ==
  ASSUME NEW m \in Nat, NEW n \in Nat, NEW l \in Nat, m <= n,
         memory = Written(m .. (n - 1)), n < l,
         memory' = Write(n .. (l - 1))
  PROVE  memory' = Written(m .. (l - 1))
  <1>1. (m .. (n - 1)) \cup (n .. (l - 1)) = m .. (l - 1)
    OBVIOUS
  <1> DEFINE A == m .. (n - 1)
             B == n .. (l - 1)
  <1> HIDE DEF A, B
  <1>2. CASE op = "set_bits"
    <2>1. memory' = (before \cup A) \cup B
      BY <1>2 DEF Written, Write, A, B
    <2>2. memory' = before \cup (A \cup B)
      BY <2>1
    <2> QED
      BY <1>1, <1>2, <2>2 DEF Written, A, B
  <1>3. CASE op # "set_bits"
    <2>1. memory' = (before \ A) \ B
      BY <1>3 DEF Written, Write, A, B
    <2>2. memory' = before \ (A \cup B)
      BY <2>1
    <2> QED
      BY <1>1, <1>3, <2>2 DEF Written, A, B
  <1> QED
    BY <1>2, <1>3

\* Every pass of set_bits and unset_bits.
LEMMA RangeStep ==
  ASSUME LoopInv, RangeInv, Next
  PROVE  RangeInv' /\ UNCHANGED before
  <1> USE DEF RangeInv
  <1>1. CASE SetHeadBit \/ SetTailBit
    <2>1. /\ i <= last /\ memory' = Write({i}) /\ i' = (i + 1) % WIDTH
          /\ pc \in {"head", "tail"}
          /\ UNCHANGED <<op, first, last, before, pc>>
      BY <1>1 DEF SetHeadBit, SetTailBit
    <2>2. i' = i + 1
      BY <2>1, Sizes, NoWrap
    <2>3. i .. ((i + 1) - 1) = {i}
      OBVIOUS
    <2>4. memory' = Write(i .. ((i + 1) - 1))
      BY <2>1, <2>3
    <2>5. memory' = Written(first .. ((i + 1) - 1))
      <3>1. /\ first \in Nat /\ i \in Nat /\ first <= i
            /\ i + 1 \in Nat /\ i < i + 1
        OBVIOUS
      <3>2. memory = Written(first .. (i - 1))
        OBVIOUS
      <3> HIDE DEF RangeInv
      <3> QED
        BY <2>4, <3>1, <3>2, WriteOn
    <2>6. memory' = (Written(first .. (i - 1)))'
      <3>1. (Written(first .. (i - 1)))' = Written(first .. (i' - 1))
        BY <2>1 DEF Written
      <3> QED
        BY <2>2, <2>5, <3>1
    <2> QED
      BY <2>1, <2>2, <2>6
  <1>2. CASE SetWord
    <2>1. /\ (i + WORD) % WIDTH <= last /\ memory' = Write(WordAt(i))
          /\ i' = (i + WORD) % WIDTH /\ pc = "words"
          /\ UNCHANGED <<op, first, last, before, pc>>
      BY <1>2 DEF SetWord
    <2>2. i' = i + WORD /\ i + WORD <= last
      <3>1. i + WORD < WIDTH /\ i + WORD \in Nat
        BY Sizes
      <3> QED
        BY <2>1, <3>1, NoWrap
    <2>3. i % WORD = 0
      BY <2>1, <2>2, Sizes
    <2>4. memory' = Write(i .. ((i + WORD) - 1))
      <3>1. WordAt(i) = i .. ((i + WORD) - 1)
        <4>1. i + (WORD - 1) = (i + WORD) - 1
          BY Sizes
        <4> QED
          BY <2>3, <4>1, WordStarts
      <3>2. memory' = Write(WordAt(i))
        BY <2>1
      <3> HIDE DEF RangeInv
      <3> QED
        BY <3>1, <3>2
    <2>5. memory' = Written(first .. ((i + WORD) - 1))
      <3>1. i + WORD \in Nat /\ i < i + WORD
        BY Sizes
      <3> QED
        BY <2>4, <3>1, WriteOn
    <2>6. memory' = (Written(first .. (i - 1)))'
      <3>1. (Written(first .. (i - 1)))' = Written(first .. (i' - 1))
        BY <2>1 DEF Written
      <3> QED
        BY <2>2, <2>5, <3>1
    <2>7. i' % WORD = 0
      BY <2>2, <2>3, NextWord
    <2> QED
      BY <2>1, <2>2, <2>6, <2>7, Sizes
  <1>3. CASE EndHead \/ EndWords \/ EndTail
    <2>1. /\ UNCHANGED <<op, first, last, before, memory, i>>
          /\ pc' \in {"words", "tail", "done"}
          /\ pc' = "words" => i > last \/ i % WORD = 0
          /\ pc' = "done" => i > last
      BY <1>3 DEF EndHead, EndWords, EndTail
    <2> QED
      BY <2>1 DEF Written
  <1>4. ~(SkipWord \/ NoFreeWord \/ ChooseWord \/ SkipBit \/ TakeBlock)
    BY DEF SkipWord, NoFreeWord, ChooseWord, SkipBit, TakeBlock
  <1>5. UNCHANGED before
    BY DEF Next, SetHeadBit, EndHead, SetWord, EndWords, SetTailBit, EndTail,
           SkipWord, NoFreeWord, ChooseWord, SkipBit, TakeBlock
  <1> QED
    BY <1>1, <1>2, <1>3, <1>4, <1>5 DEF Next

\* In a word that starts before last, a bit that is not set is the zone's:
\* this is what the bits set between the length and the end of a word are for.
LEMMA UnsetIsInZone ==
  ASSUME SearchInv, pc = "full", i < last, NEW x \in WordAt(i), x \notin before
  PROVE  i <= x /\ x < last
  <1> DEFINE e == ((last - 1) \div WORD) * WORD
  <1>1. i \in Nat /\ i % WORD = 0 /\ last \in Nat /\ 0 < last
    BY DEF SearchInv
  <1>2. x \in i .. (i + WORD - 1)
    BY <1>1, WordStarts
  <1>3. e \in Nat /\ e % WORD = 0 /\ WordAt(last - 1) = e .. (e + WORD - 1)
    <2>1. last - 1 \in Nat
      BY <1>1
    <2>2. (last - 1) \div WORD \in Nat
      BY <2>1, WordCount
    <2> QED
      BY <2>2, WordCount DEF WordAt
  <1>4. e <= last - 1 /\ last - 1 < e + WORD
    BY <1>1, Sizes
  <1> HIDE DEF e
  <1>5. CASE i = e
    <2>1. x \in WordAt(last - 1)
      BY <1>2, <1>3, <1>5
    <2>2. ~(x >= last)
      BY <2>1 DEF SearchInv
    <2> QED
      BY <1>1, <1>2, <2>2, Sizes
  <1>6. CASE i < e
    <2>1. i + WORD <= e
      BY <1>1, <1>3, <1>6, WordsApart
    <2> QED
      BY <1>1, <1>2, <1>3, <1>4, <2>1, Sizes
  <1>7. ~(e < i)
    <2>1. SUFFICES ASSUME e < i PROVE FALSE
      OBVIOUS
    <2>2. e + WORD <= i
      BY <1>1, <1>3, <2>1, WordsApart
    <2> QED
      BY <1>1, <1>3, <1>4, <2>2, Sizes
  <1> QED
    BY <1>1, <1>3, <1>5, <1>6, <1>7

\* Every pass of the search.
LEMMA SearchStep ==
  ASSUME LoopInv, SearchInv, Next
  PROVE  SearchInv' /\ UNCHANGED before
  <1>a. /\ first = 0
        /\ last \in Nat /\ 0 < last /\ last + 2 * WORD <= WIDTH
        /\ i \in Nat /\ i < last + WORD
    BY DEF SearchInv
  <1>c. op = "search"
    BY DEF SearchInv
  <1>b. 0 .. (i - 1) \subseteq before
    BY DEF SearchInv
  <1>1. CASE SkipWord
    <2>1. /\ pc = "full" /\ Full(i) /\ i < last /\ i' = (i + WORD) % WIDTH
          /\ UNCHANGED <<op, first, last, before, memory, pc>>
      BY <1>1 DEF SkipWord
    <2>2. i' = i + WORD
      <3>1. i + WORD < WIDTH /\ i + WORD \in Nat
        BY <1>a, <2>1, Sizes
      <3> QED
        BY <2>1, <3>1, NoWrap
    <2>3. i % WORD = 0 /\ memory = before
      BY <2>1 DEF SearchInv
    <2>4. i .. (i + WORD - 1) \subseteq before
      BY <1>a, <2>1, <2>3, WordStarts DEF Full
    <2>5. 0 .. (i' - 1) \subseteq before
      <3>1. ASSUME NEW o \in 0 .. (i' - 1) PROVE o \in before
        <4>1. o \in 0 .. (i - 1) \/ o \in i .. (i + WORD - 1)
          BY <1>a, <2>2, <3>1, Sizes
        <4> QED
          BY <1>b, <2>4, <4>1
      <3> QED
        BY <3>1
    <2>6. i' % WORD = 0
      BY <1>a, <2>2, <2>3, NextWord
    <2>7. i' \in Nat /\ i' < last + WORD
      BY <1>a, <2>1, <2>2, Sizes
    <2> QED
      BY <2>1, <2>3, <2>5, <2>6, <2>7 DEF SearchInv, WordAt
  <1>2. CASE NoFreeWord
    BY <1>2 DEF NoFreeWord, SearchInv, WordAt
  <1>3. CASE ChooseWord
    <2>1. /\ pc = "full" /\ ~Full(i) /\ i < last /\ pc' = "unset"
          /\ UNCHANGED <<op, first, last, before, memory, i>>
      BY <1>3 DEF ChooseWord
    <2>2. memory = before
      BY <2>1 DEF SearchInv
    <2>3. PICK x \in WordAt(i) : x \notin before
      BY <2>1, <2>2 DEF Full
    <2>4. i <= x /\ x < last
      BY <2>1, <2>3, UnsetIsInZone
    <2>5. \E y \in WordAt(i) : i <= y /\ y < last /\ y \notin before
      BY <2>3, <2>4
    <2>6. \A o \in WordAt(last - 1) : o >= last => o \in before
      BY DEF SearchInv
    <2>7. (\E y \in WordAt(i) : i <= y /\ y < last /\ y \notin before)'
          /\ (\A o \in WordAt(last - 1) : o >= last => o \in before)'
      BY <2>1, <2>5, <2>6 DEF WordAt
    <2> QED
      BY <1>a, <1>c, <1>b, <2>1, <2>2, <2>7 DEF SearchInv
  <1>4. CASE SkipBit
    <2>1. /\ pc = "unset" /\ i \in memory /\ i' = (i + 1) % WIDTH
          /\ pc' = IF i' % WORD = 0 THEN "no block" ELSE pc
          /\ UNCHANGED <<op, first, last, before, memory>>
      BY <1>4 DEF SkipBit
    <2>2. PICK x \in WordAt(i) : i <= x /\ x < last /\ x \notin before
      BY <2>1 DEF SearchInv
    <2>3. PICK s \in Nat : /\ s % WORD = 0 /\ s <= i /\ i < s + WORD
                           /\ WordAt(i) = s .. (s + WORD - 1)
      BY <1>a, WordShape
    <2>4. i \in before
      BY <2>1 DEF SearchInv
    <2>5. x \in Int /\ i < x /\ x <= s + WORD - 1
      BY <1>a, <2>2, <2>3, <2>4, Sizes
    <2>6. i' = i + 1
      <3>1. i + 1 < WIDTH /\ i + 1 \in Nat
        BY <1>a, <2>2, <2>5, Sizes
      <3> QED
        BY <2>1, <3>1, NoWrap
    <2>7. i + 1 \in s .. (s + WORD - 1)
      BY <1>a, <2>3, <2>5, Sizes
    <2>8. (i + 1) % WORD = (i + 1) - s /\ WordAt(i + 1) = s .. (s + WORD - 1)
      <3>1. s \in Nat /\ s % WORD = 0
        BY <2>3
      <3> QED
        BY <2>7, <3>1, InsideWord
    <2>9. i' % WORD # 0 /\ WordAt(i') = WordAt(i)
      BY <1>a, <2>3, <2>6, <2>8
    <2>10. i' \in Nat /\ i' < last + WORD /\ i' <= x
      BY <1>a, <2>2, <2>5, <2>6, Sizes
    <2>11. 0 .. (i' - 1) \subseteq before
      <3>1. ASSUME NEW o \in 0 .. (i' - 1) PROVE o \in before
        <4>1. o \in 0 .. (i - 1) \/ o = i
          BY <1>a, <2>6, <3>1
        <4> QED
          BY <1>b, <2>4, <4>1
      <3> QED
        BY <3>1
    <2>12. pc' = "unset"
      BY <2>1, <2>9
    <2>13. \E y \in WordAt(i') : i' <= y /\ y < last /\ y \notin before
      BY <2>2, <2>9, <2>10
    <2>14. memory = before /\ \A o \in WordAt(last - 1) : o >= last => o \in before
      BY <2>1 DEF SearchInv
    <2>15. (\E y \in WordAt(i) : i <= y /\ y < last /\ y \notin before)'
           /\ (\A o \in WordAt(last - 1) : o >= last => o \in before)'
      BY <2>1, <2>13, <2>14 DEF WordAt
    <2> QED
      BY <1>a, <1>c, <2>1, <2>10, <2>11, <2>12, <2>14, <2>15 DEF SearchInv
  <1>5. CASE TakeBlock
    <2>1. /\ pc = "unset" /\ i \notin memory /\ memory' = memory \cup {i}
          /\ pc' = "found" /\ UNCHANGED <<op, first, last, before, i>>
      BY <1>5 DEF TakeBlock
    <2>2. PICK x \in WordAt(i) : i <= x /\ x < last
      BY <2>1 DEF SearchInv
    <2>3. PICK s \in Nat : WordAt(i) = s .. (s + WORD - 1)
      BY <1>a, WordShape
    <2>4. i < last
      BY <1>a, <2>2, <2>3, Sizes
    <2>5. memory = before /\ \A o \in WordAt(last - 1) : o >= last => o \in before
      BY <2>1 DEF SearchInv
    <2>6. (\A o \in WordAt(last - 1) : o >= last => o \in before)'
      BY <2>1, <2>5 DEF WordAt
    <2> QED
      BY <1>a, <1>c, <1>b, <2>1, <2>4, <2>5, <2>6 DEF SearchInv
  <1>6. ~(SetHeadBit \/ EndHead \/ SetWord \/ EndWords \/ SetTailBit \/ EndTail)
    BY DEF SearchInv, SetHeadBit, EndHead, SetWord, EndWords, SetTailBit, EndTail
  <1>7. UNCHANGED before
    BY DEF Next, SetHeadBit, EndHead, SetWord, EndWords, SetTailBit, EndTail,
           SkipWord, NoFreeWord, ChooseWord, SkipBit, TakeBlock
  <1> QED
    BY <1>1, <1>2, <1>3, <1>4, <1>5, <1>6, <1>7 DEF Next

-----------------------------------------------------------------------------
(***************************************************************************)
(* Theorems                                                                *)
(***************************************************************************)

(***************************************************************************)
(* Between two passes memory is what it was with the offsets that i has    *)
(* passed written, or every bit that i has passed is set and the word      *)
(* under search has an unset bit of the zone from i on.                    *)
(***************************************************************************)
THEOREM LoopsInductive == Spec => []LoopInv
  <1>1. LoopInv /\ [Next]_vars => LoopInv'
    <2> SUFFICES ASSUME LoopInv, [Next]_vars PROVE LoopInv'
      OBVIOUS
    <2>1. CASE UNCHANGED vars
      BY <2>1 DEF vars, LoopInv, RangeInv, SearchInv, Written, WordAt
    <2>2. CASE Next /\ RangeInv
      BY <2>2, RangeStep DEF LoopInv
    <2>3. CASE Next /\ SearchInv
      BY <2>3, SearchStep DEF LoopInv
    <2> QED
      BY <2>1, <2>2, <2>3 DEF LoopInv
  <1> QED
    BY <1>1, InitHolds, PTL DEF Spec

(***************************************************************************)
(* Offsets never wrap, neither inside a range nor in the search.           *)
(***************************************************************************)
THEOREM LoopTypes == Spec => []TypeOK
  <1>1. LoopInv => TypeOK
    <2>1. ASSUME RangeInv, before \subseteq Nat PROVE TypeOK
      <3>1. first \in Offset /\ last \in Offset /\ i \in Offset
        BY <2>1, Sizes DEF RangeInv, Offset
      <3>2. memory \subseteq Nat
        <4>1. first .. (i - 1) \subseteq Nat
          BY <2>1 DEF RangeInv
        <4> QED
          BY <2>1, <4>1 DEF RangeInv, Written
      <3> QED
        BY <2>1, <3>1, <3>2 DEF RangeInv, TypeOK
    <2>2. ASSUME SearchInv, before \subseteq Nat PROVE TypeOK
      <3>1. first \in Offset /\ last \in Offset /\ i \in Offset
        <4>1. /\ first = 0 /\ last \in Nat /\ last + 2 * WORD <= WIDTH
              /\ i \in Nat /\ i < last + WORD /\ 0 < last
          BY <2>2 DEF SearchInv
        <4> QED
          BY <4>1, Sizes DEF Offset
      <3>2. memory \subseteq Nat
        BY <2>2 DEF SearchInv
      <3> QED
        BY <2>2, <3>1, <3>2 DEF SearchInv, TypeOK
    <2> QED
      BY <2>1, <2>2 DEF LoopInv
  <1> QED
    BY <1>1, LoopsInductive, PTL

(***************************************************************************)
(* In no pass is a bit written that lies before first or after last, for   *)
(* ranges that begin and end anywhere in a word.                           *)
(***************************************************************************)
THEOREM LoopsStayInRange == Spec => []OnlyTheRange
  <1>1. LoopInv => OnlyTheRange
    <2> SUFFICES ASSUME RangeInv,
                        NEW o \in (memory \ before) \cup (before \ memory)
                 PROVE  first <= o /\ o <= last
      BY DEF LoopInv, SearchInv, OnlyTheRange
    <2>1. o \in first .. (i - 1)
      BY DEF RangeInv, Written
    <2> QED
      BY <2>1 DEF RangeInv
  <1> QED
    BY <1>1, LoopsInductive, PTL

(***************************************************************************)
(* When set_bits or unset_bits returns the whole range has been written:   *)
(* what PMM!set_bits and PMM!unset_bits say.                               *)
(***************************************************************************)
THEOREM LoopsWriteAll == Spec => []WholeRange
  <1>1. LoopInv => WholeRange
    <2> SUFFICES ASSUME RangeInv, pc = "done"
                 PROVE  memory = Written(first .. last)
      BY DEF LoopInv, SearchInv, WholeRange, Written
    <2>1. i > last /\ (i = first \/ i = last + 1)
      BY DEF RangeInv
    <2>2. first .. (i - 1) = first .. last
      BY <2>1 DEF RangeInv
    <2> QED
      BY <2>2 DEF RangeInv
  <1> QED
    BY <1>1, LoopsInductive, PTL

(***************************************************************************)
(* pmm_alloc takes the first unset bit, always a bit of the zone; it finds *)
(* no word only if every bit is set, and never a word without a bit.       *)
(***************************************************************************)
THEOREM SearchFindsFirst == Spec => []FirstUnsetBit
  <1>1. LoopInv => FirstUnsetBit
    <2>1. RangeInv => FirstUnsetBit
      BY DEF RangeInv, FirstUnsetBit
    <2>2. ASSUME SearchInv PROVE FirstUnsetBit
      <3>1. pc = "no word" => 0 .. (last - 1) \subseteq before
        <4>1. SUFFICES ASSUME pc = "no word" PROVE 0 .. (last - 1) \subseteq before
          OBVIOUS
        <4>2. 0 .. (i - 1) \subseteq before /\ i \in Nat /\ last \in Nat /\ i >= last
          BY <2>2, <4>1 DEF SearchInv
        <4>3. 0 .. (last - 1) \subseteq 0 .. (i - 1)
          BY <4>2
        <4> QED
          BY <4>2, <4>3
      <3> QED
        BY <2>2, <3>1 DEF SearchInv, FirstUnsetBit
    <2> QED
      BY <2>1, <2>2 DEF LoopInv
  <1> QED
    BY <1>1, LoopsInductive, PTL

=============================================================================
