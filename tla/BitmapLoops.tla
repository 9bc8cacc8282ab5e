---------------------------- MODULE BitmapLoops ----------------------------
(***************************************************************************)
(* The loops over a zone's bitmap in lumos/arch/i386/pmm.c, one action per *)
(* pass: set_bits and unset_bits, which go bit by bit to the start of a    *)
(* word, word by word, and bit by bit to the end; and the search of        *)
(* pmm_alloc (and of pmm_alloc2), which skips full words and then looks    *)
(* for the unset bit of one word.                                          *)
(*                                                                         *)
(* A behavior is one call.  Memory from mapStart on is the set of the bits *)
(* that are 1; offsets are uint32_t and wrap at WIDTH.                     *)
(***************************************************************************)
EXTENDS Integers

CONSTANTS
  WORD,            \* bits in a word
  WIDTH,           \* how many values a uint32_t has
  RangeMemories,   \* what the memory may hold before set_bits, unset_bits
  SearchMemories   \* and before pmm_alloc

ASSUME WidthAssumption ==
  /\ WORD \in Nat \ {0}
  /\ WIDTH \in Nat \ {0}
  /\ WIDTH % WORD = 0

ASSUME MemoriesAssumption ==
  /\ RangeMemories \subseteq SUBSET Nat
  /\ SearchMemories \subseteq SUBSET Nat

VARIABLES
  op,         \* the function that runs
  first,      \* offsetStart; lastOffset in the search
  last,       \* offsetEnd; the zone's length in the search
  before,     \* the memory at the call
  memory,     \* the memory now
  i,          \* the function's i
  pc          \* the loop it is in, or how it ended

vars == <<op, first, last, before, memory, i, pc>>

Offset == 0 .. (WIDTH - 1)
WordAt(o) == LET start == (o \div WORD) * WORD IN start .. (start + WORD - 1)
Full(o) == WordAt(o) \subseteq memory

\* What |= and &= of a mask do to the memory.
Write(mask) == IF op = "set_bits" THEN memory \cup mask ELSE memory \ mask

-----------------------------------------------------------------------------
(***************************************************************************)
(* set_bits and unset_bits.  A zone has fewer blocks than offsets there    *)
(* are: no caller comes within a word of WIDTH but init_pmm for a section  *)
(* without a block, see InitShort.                                         *)
(***************************************************************************)

InitRange ==
  /\ op \in {"set_bits", "unset_bits"}
  /\ first \in {o \in Offset : o + 1 + WORD < WIDTH}
  /\ last \in {o \in Offset : o + 1 + WORD < WIDTH}
  /\ before \in RangeMemories
  /\ memory = before
  /\ i = first
  /\ pc = "head"

\* Mutant: the bit is not advanced past.
SetHeadBit_NoStep ==
  /\ pc = "head"
  /\ i <= last /\ i % WORD # 0
  /\ memory' = Write({i})
  /\ UNCHANGED <<op, first, last, before, i, pc>>

SetHeadBit ==
  /\ pc = "head"
  /\ i <= last /\ i % WORD # 0
  /\ memory' = Write({i})
  /\ i' = (i + 1) % WIDTH
  /\ UNCHANGED <<op, first, last, before, pc>>

EndHead ==
  /\ pc = "head"
  /\ i > last \/ i % WORD = 0
  /\ pc' = "words"
  /\ UNCHANGED <<op, first, last, before, memory, i>>

\* Mutant: a word is written while any of it is left to write.
SetWord_TooLong ==
  /\ pc = "words"
  /\ i <= last
  /\ memory' = Write(WordAt(i))
  /\ i' = (i + WORD) % WIDTH
  /\ UNCHANGED <<op, first, last, before, pc>>

\* A word would be too big when it reaches past last; i + WORD may wrap.
SetWord ==
  /\ pc = "words"
  /\ (i + WORD) % WIDTH <= last
  /\ memory' = Write(WordAt(i))
  /\ i' = (i + WORD) % WIDTH
  /\ UNCHANGED <<op, first, last, before, pc>>

\* Mutant: steps back over a word that was never written.
EndWords_StepBack ==
  /\ pc = "words"
  /\ (i + WORD) % WIDTH > last
  /\ i' = i - WORD
  /\ pc' = "tail"
  /\ UNCHANGED <<op, first, last, before, memory>>

EndWords ==
  /\ pc = "words"
  /\ (i + WORD) % WIDTH > last
  /\ pc' = "tail"
  /\ UNCHANGED <<op, first, last, before, memory, i>>

SetTailBit ==
  /\ pc = "tail"
  /\ i <= last
  /\ memory' = Write({i})
  /\ i' = (i + 1) % WIDTH
  /\ UNCHANGED <<op, first, last, before, pc>>

\* Mutant: the last offset is exclusive.
EndTail_Exclusive ==
  /\ pc = "tail"
  /\ i >= last
  /\ pc' = "done"
  /\ UNCHANGED <<op, first, last, before, memory, i>>

EndTail ==
  /\ pc = "tail"
  /\ i > last
  /\ pc' = "done"
  /\ UNCHANGED <<op, first, last, before, memory, i>>

-----------------------------------------------------------------------------
(***************************************************************************)
(* The search of pmm_alloc: first is lastOffset, last the zone's length.   *)
(* init_pmm has set the bits between the length and the end of its word;   *)
(* whatever lies behind the bitmap may hold anything.                      *)
(***************************************************************************)

InitSearch ==
  /\ op = "search"
  /\ first = 0
  /\ last \in 1 .. (WIDTH - 2 * WORD)
  /\ before \in SearchMemories
  /\ \A o \in WordAt(last - 1) : o >= last => o \in before
  /\ memory = before
  /\ i = first
  /\ pc = "full"

SkipWord ==
  /\ pc = "full"
  /\ Full(i) /\ i < last
  /\ i' = (i + WORD) % WIDTH
  /\ UNCHANGED <<op, first, last, before, memory, pc>>

NoFreeWord ==
  /\ pc = "full"
  /\ i >= last
  /\ pc' = "no word"
  /\ UNCHANGED <<op, first, last, before, memory, i>>

\* Mutant: the search goes on from the next word.
ChooseWord_Next ==
  /\ pc = "full"
  /\ ~Full(i) /\ i < last
  /\ pc' = "unset"
  /\ i' = (i + 1) % WIDTH
  /\ UNCHANGED <<op, first, last, before, memory>>

ChooseWord ==
  /\ pc = "full"
  /\ ~Full(i) /\ i < last
  /\ pc' = "unset"
  /\ UNCHANGED <<op, first, last, before, memory, i>>

\* end is i + 32 at ChooseWord, which is where a word starts.
SkipBit ==
  /\ pc = "unset"
  /\ i \in memory
  /\ i' = (i + 1) % WIDTH
  /\ pc' = IF i' % WORD = 0 THEN "no block" ELSE pc
  /\ UNCHANGED <<op, first, last, before, memory>>

TakeBlock ==
  /\ pc = "unset"
  /\ i \notin memory
  /\ memory' = memory \cup {i}
  /\ pc' = "found"
  /\ UNCHANGED <<op, first, last, before, i>>

-----------------------------------------------------------------------------

Returned == pc \in {"done", "found", "no word", "no block"}

Next ==
  \/ SetHeadBit \/ EndHead
  \/ SetWord \/ EndWords
  \/ SetTailBit \/ EndTail
  \/ SkipWord \/ NoFreeWord \/ ChooseWord
  \/ SkipBit \/ TakeBlock

Spec == (InitRange \/ InitSearch) /\ [][Next]_vars

\* Nothing preempts a running loop for good: it always gets to its next pass.
FairSpec == Spec /\ WF_vars(Next)

(***************************************************************************)
(* The call init_pmm makes for a section shorter than a block: the length  *)
(* is 0 and offsetEnd is 0 - 1.                                            *)
(***************************************************************************)
InitShort ==
  /\ op = "unset_bits"
  /\ first = 0
  /\ last = (0 - 1) % WIDTH
  /\ before \in RangeMemories
  /\ memory = before
  /\ i = first
  /\ pc = "head"

ShortSpec == InitShort /\ [][Next]_vars /\ WF_vars(Next)

-----------------------------------------------------------------------------
(***************************************************************************)
(* Properties                                                              *)
(***************************************************************************)

TypeOK ==
  /\ op \in {"set_bits", "unset_bits", "search"}
  /\ first \in Offset
  /\ last \in Offset
  /\ before \subseteq Nat
  /\ memory \subseteq Nat
  /\ i \in Offset
  /\ pc \in {"head", "words", "tail", "done",
             "full", "unset", "found", "no word", "no block"}

(***************************************************************************)
(* set_bits and unset_bits touch nothing before first or after last, in no *)
(* pass: what pmm.c:253-257 means by inclusive offsets.                    *)
(***************************************************************************)
OnlyTheRange ==
  op # "search" =>
    \A o \in (memory \ before) \cup (before \ memory) : first <= o /\ o <= last

(***************************************************************************)
(* When they return they have written the whole range, which is how module *)
(* PMM defines set_bits and unset_bits.                                    *)
(***************************************************************************)
WholeRange ==
  pc = "done" => memory = IF op = "set_bits"
                          THEN before \cup (first .. last)
                          ELSE before \ (first .. last)

(***************************************************************************)
(* The search takes the first unset bit of the bitmap, never a bit past    *)
(* the zone's last block, and gives up only when every bit is set: how     *)
(* module PMM defines AllocBlock and AllocNoWord.  The path marked "this   *)
(* shouldn't happen either" (pmm.c:214) is not taken.                      *)
(***************************************************************************)
FirstUnsetBit ==
  /\ pc = "found" => /\ i < last
                     /\ i \notin before
                     /\ 0 .. (i - 1) \subseteq before
                     /\ memory = before \cup {i}
  /\ pc = "no word" => 0 .. (last - 1) \subseteq before
  /\ pc # "no block"

\* Every call returns.
Terminates == <>Returned

=============================================================================
