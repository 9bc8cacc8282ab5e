---------------------------- MODULE KernelProofs ----------------------------
(***************************************************************************)
(* Theorems about module Kernel, in three parts: boot.S and gdt.c, the     *)
(* interrupts, and sleep of timer.c on top of them.                        *)
(***************************************************************************)
EXTENDS Kernel, FiniteSetTheorems, SequenceTheorems, TLAPS

-----------------------------------------------------------------------------
(***************************************************************************)
(* Boot: for page tables of any size and any place of the kernel, of video *)
(* memory and of the TSS.                                                  *)
(***************************************************************************)

Places == {"fill", "enable", "jump", "unmap", "reload", "gdt_init", "idt_init"}

\* The table as the loop leaves its first n entries.
Filled(n) ==
  /\ DOMAIN table = 0 .. LAST
  /\ \A t \in 0 .. (n - 1) : table[t] = t

\* Nothing is remembered that the finished table would not say.
TLBTrue ==
  \A v \in tlb : \E d \in {0, HIGH}, t \in 0 .. LAST : v = <<d, t, table[t]>>

(***************************************************************************)
(* What holds at each place of _start: how far the table is, which entries *)
(* of the directory hold it, and what the TLB may remember.                *)
(***************************************************************************)
BootInv ==
  /\ at \in Places
  /\ at = "fill" =>
       /\ esi \in 0 .. (LAST - 1) /\ ecx = LAST - esi
       /\ Filled(esi) /\ ~paging
  /\ at = "enable" => Filled(LAST) /\ ~paging
  /\ at \in Places \ {"fill", "enable"} =>
       Filled(LAST) /\ table[LAST] = VIDEO
  /\ at \in {"jump", "unmap"} => directory = {0, HIGH}
  /\ at \in {"reload", "gdt_init", "idt_init"} => directory = {HIGH}
  /\ at \in {"fill", "enable", "gdt_init", "idt_init"} => tlb = {}
  /\ at \in {"jump", "unmap", "reload"} => TLBTrue

\* There is a first entry besides the one for video memory.
LEMMA LastType ==
  /\ LAST \in Nat \ {0}
  /\ LAST = ENTRIES - 1
  /\ {VIDEO, BOOT, TEXT} \subseteq 0 .. (LAST - 1)
  /\ HIGH # 0
  BY FramesAssumption DEF LAST

\* The processor starts in the loop, with nothing filled or remembered.
LEMMA BootStart ==
  KernelInit => BootInv
  BY LastType DEF KernelInit, BootInit, BootInv, Places, Filled, TLBTrue

\* Each instruction of _start leads from one place of BootInv to the next.
LEMMA BootStep ==
  ASSUME BootInv, BootNext
  PROVE  BootInv'
  <1> USE DEF Places
  <1>1. CASE FillEntry
    <2>1. /\ esi \in 0 .. (LAST - 1) /\ ecx = LAST - esi
          /\ Filled(esi) /\ ~paging /\ tlb = {}
      BY <1>1 DEF FillEntry, BootInv
    <2>2. /\ esi' = esi + 1 /\ ecx' = LAST - esi' /\ esi' \in 1 .. LAST
          /\ ~paging' /\ tlb' = {}
      BY <1>1, <2>1, LastType DEF FillEntry
    <2>3. Filled(esi)'
      <3>1. /\ DOMAIN table = 0 .. LAST /\ \A t \in 0 .. (esi - 1) : table[t] = t
            /\ table' = [table EXCEPT ![esi] = esi]
        BY <1>1, <2>1 DEF FillEntry, Filled
      <3>2. DOMAIN table' = 0 .. LAST
        BY <3>1
      <3>3. ASSUME NEW t \in 0 .. (esi' - 1) PROVE table'[t] = t
        <4>1. t \in 0 .. LAST /\ (t = esi \/ t \in 0 .. (esi - 1))
          BY <2>1, <2>2, LastType
        <4> QED
          BY <3>1, <4>1
      <3> QED
        BY <3>2, <3>3 DEF Filled
    <2>4. CASE ecx' = 0
      <3>1. at' = "enable"
        BY <1>1, <2>4 DEF FillEntry
      <3>2. esi' = LAST
        BY <2>2, <2>4, LastType
      <3> QED
        BY <2>2, <2>3, <3>1, <3>2 DEF BootInv, Filled, LAST
    <2>5. CASE ecx' # 0
      <3>1. at' = "fill"
        BY <1>1, <2>5 DEF FillEntry
      <3>2. esi' \in 0 .. (LAST - 1)
        BY <2>2, <2>5, LastType
      <3> QED
        BY <2>2, <2>3, <3>1, <3>2, LastType DEF BootInv, LAST
    <2> QED
      BY <2>4, <2>5
  <1>2. CASE EnablePaging
    <2>1. Filled(LAST) /\ tlb = {}
      BY <1>2 DEF EnablePaging, BootInv
    <2>2. Filled(LAST)' /\ table'[LAST] = VIDEO
      BY <1>2, <2>1, LastType DEF EnablePaging, Filled, LAST
    <2> QED
      BY <1>2, <2>1, <2>2 DEF EnablePaging, BootInv, TLBTrue, LAST
  <1>3. CASE Jump
    BY <1>3 DEF Jump, BootInv, Filled, TLBTrue, LAST
  <1>4. CASE RemoveLow
    BY <1>4, LastType DEF RemoveLow, BootInv, Filled, TLBTrue, LAST
  <1>5. CASE ReloadCR3
    BY <1>5 DEF ReloadCR3, BootInv, Filled, LAST
  <1>6. CASE Remember
    <2>1. at' = at /\ table' = table /\ directory' = directory
      BY <1>6 DEF Remember
    <2>2. directory \subseteq {0, HIGH} /\ TLBTrue
      BY <1>6 DEF Remember, BootInv
    <2>3. PICK w \in Walk : tlb' = tlb \cup {w}
      BY <1>6 DEF Remember
    <2>4. \E d \in {0, HIGH}, t \in 0 .. LAST : w = <<d, t, table[t]>>
      <3>1. \E d \in directory, t \in {s \in 0 .. LAST : table[s] # Absent} :
              w = <<d, t, table[t]>>
        BY <2>3 DEF Walk
      <3> QED
        BY <2>2, <3>1
    <2>5. TLBTrue'
      BY <2>1, <2>2, <2>3, <2>4 DEF TLBTrue, LAST
    <2> QED
      BY <1>6, <2>1, <2>5 DEF Remember, BootInv, Filled, LAST
  <1>7. CASE gdt_init
    BY <1>7 DEF gdt_init, BootInv, Filled, LAST
  <1> QED
    BY <1>1, <1>2, <1>3, <1>4, <1>5, <1>6, <1>7 DEF BootNext

(***************************************************************************)
(* boot.S, for every size of the page table and every place of the kernel: *)
(* the loop fills every entry but the last, and nothing stale is ever      *)
(* remembered beyond what the finished table says.                         *)
(***************************************************************************)
THEOREM BootIsExact == KernelSpec => []BootInv
  <1>1. BootInv /\ [KernelNext]_kvars => BootInv'
    <2> SUFFICES ASSUME BootInv, [KernelNext]_kvars PROVE BootInv'
      OBVIOUS
    <2>1. CASE UNCHANGED boot
      BY <2>1 DEF boot, BootInv, Filled, TLBTrue, Places, LAST
    <2> QED
      BY <2>1, BootStep DEF KernelNext, kvars
  <1> QED
    BY <1>1, BootStart, PTL DEF KernelSpec

\* What any access reaches once the table is finished.
LEMMA Reached ==
  ASSUME BootInv, at \in Places \ {"fill", "enable"},
         NEW d \in {0, HIGH}, NEW t \in 0 .. LAST
  PROVE  /\ Reach(<<d, t>>) \subseteq {table[t]}
         /\ d \in directory => Reach(<<d, t>>) = {table[t]}
         /\ d \notin directory /\ tlb = {} => Reach(<<d, t>>) = {}
  <1>1. table[t] # Absent
    BY LastType DEF BootInv, Filled, Absent
  <1>2. TLBTrue
    BY DEF BootInv, TLBTrue, Places
  <1>3. \A w \in Walk \cup tlb :
          \E e \in {0, HIGH}, u \in 0 .. LAST : w = <<e, u, table[u]>>
    BY <1>2 DEF Walk, TLBTrue, BootInv, Places
  <1>4. ASSUME NEW w \in Walk \cup tlb, <<w[1], w[2]>> = <<d, t>>
        PROVE  w[3] = table[t]
    BY <1>3, <1>4
  <1>5. d \in directory => <<d, t, table[t]>> \in Walk
    BY <1>1 DEF Walk
  <1>6. ASSUME NEW w \in Walk PROVE w[1] \in directory
    BY <1>6 DEF Walk
  <1> QED
    BY <1>4, <1>5, <1>6 DEF Reach

(***************************************************************************)
(* From the moment paging is on the next instruction is mapped, and by one *)
(* translation only.                                                       *)
(***************************************************************************)
THEOREM CodeIsMapped == KernelSpec => []CodeMapped
  <1>1. BootInv => CodeMapped
    <2> SUFFICES ASSUME BootInv, paging PROVE Reach(CodePage) = {CodePage[2]}
      BY DEF CodeMapped
    <2>1. at \in Places \ {"fill", "enable"}
      BY DEF BootInv, Places
    <2>2. table[BOOT] = BOOT /\ table[TEXT] = TEXT
          /\ BOOT \in 0 .. LAST /\ TEXT \in 0 .. LAST
      BY <2>1, LastType DEF BootInv, Filled
    <2>3. CASE at = "jump"
      <3>1. CodePage = <<0, BOOT>> /\ 0 \in directory
        BY <2>3 DEF CodePage, BootInv
      <3> QED
        BY <2>1, <2>2, <3>1, Reached
    <2>4. CASE at # "jump"
      <3>1. CodePage = <<HIGH, TEXT>> /\ HIGH \in directory
        BY <2>1, <2>4 DEF CodePage, BootInv, Places
      <3> QED
        BY <2>1, <2>2, <3>1, Reached
    <2> QED
      BY <2>3, <2>4
  <1> QED
    BY <1>1, BootIsExact, PTL

(***************************************************************************)
(* When kernel_main runs the high half is memory and video memory, and no  *)
(* low address is mapped.                                                  *)
(***************************************************************************)
THEOREM OnlyHighHalf == KernelSpec => []HighHalf
  <1>1. BootInv => HighHalf
    <2> SUFFICES ASSUME BootInv, at \in {"gdt_init", "idt_init"}
                 PROVE  /\ \A t \in 0 .. (LAST - 1) : Reach(<<HIGH, t>>) = {t}
                        /\ Reach(<<HIGH, LAST>>) = {VIDEO}
                        /\ \A t \in 0 .. LAST : Reach(<<0, t>>) = {}
      BY DEF HighHalf
    <2>1. /\ at \in Places \ {"fill", "enable"}
          /\ directory = {HIGH} /\ tlb = {}
          /\ Filled(LAST) /\ table[LAST] = VIDEO
      BY DEF BootInv, Places
    <2>2. \A t \in 0 .. LAST : Reach(<<HIGH, t>>) = {table[t]}
      BY <2>1, Reached
    <2>3. \A t \in 0 .. LAST : Reach(<<0, t>>) = {}
      BY <2>1, LastType, Reached
    <2> QED
      BY <2>1, <2>2, <2>3, LastType DEF Filled
  <1> QED
    BY <1>1, BootIsExact, PTL

-----------------------------------------------------------------------------
(***************************************************************************)
(* gdt_create_entry and gdt_init                                           *)
(***************************************************************************)

\* Bytes, and words of four of them.
Byte == 0 .. 255
Word == [1 .. 4 -> Byte]

\* limitLow and baseLow of gdt_create_entry.
LEMMA LowHalf ==
  ASSUME NEW w \in Word
  PROVE  SubSeq(w, 1, 2) = <<w[1], w[2]>>
  <1>1. \A i \in 1 .. 2 : w[i] \in Int
    BY DEF Word, Byte
  <1>2. /\ SubSeq(w, 1, 2) \in Seq(Int) /\ Len(SubSeq(w, 1, 2)) = 2
        /\ \A i \in 1 .. 2 : SubSeq(w, 1, 2)[i] = w[i]
    BY <1>1, SubSeqProperties
  <1>3. <<w[1], w[2]>> \in Seq(Int) /\ Len(<<w[1], w[2]>>) = 2
    BY <1>1
  <1>4. <<w[1], w[2]>>[1] = w[1] /\ <<w[1], w[2]>>[2] = w[2]
    OBVIOUS
  <1> DEFINE s == SubSeq(w, 1, 2)
             t == <<w[1], w[2]>>
  <1>5. \A i \in 1 .. Len(s) : s[i] = t[i]
    <2> TAKE i \in 1 .. Len(s)
    <2>1. i = 1 \/ i = 2
      BY <1>2
    <2> QED
      BY <2>1, <1>2, <1>4
  <1> HIDE DEF s, t
  <1>6. s = t
    BY <1>2, <1>3, <1>5, SeqEqual DEF s, t
  <1> QED
    BY <1>6 DEF s, t

\* One sequence of bytes after another.
LEMMA Concat ==
  ASSUME NEW s \in Seq(Int), NEW t \in Seq(Int)
  PROVE  /\ (s \o t) \in Seq(Int)
         /\ Len(s \o t) = Len(s) + Len(t)
         /\ \A i \in 1 .. Len(s) : (s \o t)[i] = s[i]
         /\ \A i \in 1 .. Len(t) : (s \o t)[Len(s) + i] = t[i]
  <1> DEFINE m == Len(s)
             n == Len(t)
             u == s \o t
  <1>1. /\ u \in Seq(Int)
        /\ Len(u) = m + n
        /\ \A i \in 1 .. m + n : u[i] = IF i <= m THEN s[i] ELSE t[i - m]
    BY ConcatProperties
  <1>2. m \in Nat /\ n \in Nat
    BY LenProperties
  <1> HIDE DEF m, n, u
  <1>3. ASSUME NEW i \in 1 .. m PROVE u[i] = s[i]
    <2>1. i \in 1 .. m + n /\ i <= m
      BY <1>2
    <2> QED
      BY <1>1, <2>1
  <1>4. ASSUME NEW i \in 1 .. n PROVE u[m + i] = t[i]
    <2>1. (m + i) \in 1 .. m + n /\ ~(m + i <= m) /\ (m + i) - m = i
      BY <1>2
    <2> QED
      BY <1>1, <2>1
  <1> QED
    BY <1>1, <1>3, <1>4 DEF m, n, u

\* A descriptor's eight bytes, in their places.
LEMMA Descriptor ==
  ASSUME NEW limit \in Word, NEW start \in Word, NEW type \in Int, NEW flags \in Int
  PROVE  gdt_create_entry(start, limit, type, flags) =
           <<limit[1], limit[2], start[1], start[2], start[3], type,
             (limit[3] % 16) + flags, start[4]>>
  <1> DEFINE low == <<limit[1], limit[2]>>
             mid == <<start[1], start[2]>>
             high == <<start[3], type, (limit[3] % 16) + flags, start[4]>>
             all == <<limit[1], limit[2], start[1], start[2], start[3], type,
             (limit[3] % 16) + flags, start[4]>>
  <1>1. \A i \in 1 .. 4 : limit[i] \in Int /\ start[i] \in Int
    BY DEF Word, Byte
  <1>2. limit[3] % 16 \in Int
    BY <1>1
  <1>3. /\ low \in Seq(Int) /\ Len(low) = 2
        /\ mid \in Seq(Int) /\ Len(mid) = 2
    BY <1>1
  <1>4. high \in Seq(Int) /\ Len(high) = 4
    BY <1>1, <1>2
  <1>5. all \in Seq(Int) /\ Len(all) = 8
    BY <1>1, <1>2
  <1>6. low[1] = limit[1] /\ low[2] = limit[2] /\ mid[1] = start[1] /\ mid[2] = start[2]
    OBVIOUS
  <1>7. high[1] = start[3] /\ high[2] = type /\ high[3] = (limit[3] % 16) + flags
        /\ high[4] = start[4]
    OBVIOUS
  <1>8. /\ all[1] = limit[1] /\ all[2] = limit[2] /\ all[3] = start[1]
        /\ all[4] = start[2] /\ all[5] = start[3] /\ all[6] = type
        /\ all[7] = (limit[3] % 16) + flags /\ all[8] = start[4]
    OBVIOUS
  <1> HIDE DEF low, mid, high, all
  <1> DEFINE half == low \o mid
             whole == half \o high
  <1>9. /\ half \in Seq(Int) /\ Len(half) = 4
        /\ half[1] = low[1] /\ half[2] = low[2]
        /\ half[3] = mid[1] /\ half[4] = mid[2]
    <2>1. /\ half \in Seq(Int) /\ Len(half) = Len(low) + Len(mid)
          /\ \A i \in 1 .. Len(low) : half[i] = low[i]
          /\ \A i \in 1 .. Len(mid) : half[Len(low) + i] = mid[i]
      BY <1>3, Concat, Zenon
    <2> HIDE DEF half
    <2> QED
      BY <1>3, <2>1
  <1> HIDE DEF half
  <1>10. /\ whole \in Seq(Int) /\ Len(whole) = 8
         /\ whole[1] = half[1] /\ whole[2] = half[2]
         /\ whole[3] = half[3] /\ whole[4] = half[4]
         /\ whole[5] = high[1] /\ whole[6] = high[2]
         /\ whole[7] = high[3] /\ whole[8] = high[4]
    <2>1. /\ whole \in Seq(Int) /\ Len(whole) = Len(half) + Len(high)
          /\ \A i \in 1 .. Len(half) : whole[i] = half[i]
          /\ \A i \in 1 .. Len(high) : whole[Len(half) + i] = high[i]
      BY <1>4, <1>9, Concat, Zenon
    <2> HIDE DEF whole
    <2> QED
      BY <1>4, <1>9, <2>1
  <1> HIDE DEF whole
  <1>11. \A i \in 1 .. 8 : whole[i] = all[i]
    <2> TAKE i \in 1 .. 8
    <2>1. \/ i = 1 \/ i = 2 \/ i = 3 \/ i = 4 \/ i = 5 \/ i = 6 \/ i = 7 \/ i = 8
      OBVIOUS
    <2> QED
      BY <2>1, <1>6, <1>7, <1>8, <1>9, <1>10
  <1>12. whole = all
    <2>1. whole \in Seq(Int) /\ Len(whole) = 8
      BY <1>10
    <2>2. Len(whole) = Len(all) /\ \A i \in 1 .. Len(whole) : whole[i] = all[i]
      BY <1>5, <1>11, <2>1
    <2> QED
      BY <1>5, <2>1, <2>2, SeqEqual
  <1>13. SubSeq(limit, 1, 2) = low /\ SubSeq(start, 1, 2) = mid
    BY LowHalf DEF low, mid
  <1> QED
    BY <1>12, <1>13 DEF gdt_create_entry, gdtEntry, high, all, half, whole

\* The entries that load_gdt selects.
LEMMA Entries ==
  /\ GDT_entries[8 \div 8] = <<255, 255, 0, 0, 0, 154, 207, 0>>
  /\ GDT_entries[16 \div 8] = <<255, 255, 0, 0, 0, 146, 207, 0>>
  /\ GDT_entries[40 \div 8] = <<103, 0, TSS[1], TSS[2], TSS[3], 137, 16, TSS[4]>>
  <1> DEFINE Limit == <<sizeofTSS - 1, 0, 0, 0>>
  <1>1. /\ Zero \in Word /\ All \in Word /\ TSS \in Word /\ Limit \in Word
    BY FramesAssumption DEF Zero, All, Word, Byte, sizeofTSS
  <1>2. /\ Zero[1] = 0 /\ Zero[2] = 0 /\ Zero[3] = 0 /\ Zero[4] = 0
        /\ All[1] = 255 /\ All[2] = 255 /\ All[3] = 255 /\ All[4] = 255
        /\ Limit[1] = 103 /\ Limit[2] = 0 /\ Limit[3] = 0 /\ Limit[4] = 0
    BY DEF Zero, All, sizeofTSS
  <1>3. 255 % 16 = 15 /\ 0 % 16 = 0 /\ 8 \div 8 = 1 /\ 16 \div 8 = 2 /\ 40 \div 8 = 5
    OBVIOUS
  <1> HIDE DEF Limit
  <1>4. gdt_create_entry(Zero, All, 154, 192) = <<255, 255, 0, 0, 0, 154, 207, 0>>
    BY <1>1, <1>2, <1>3, Descriptor
  <1>5. gdt_create_entry(Zero, All, 146, 192) = <<255, 255, 0, 0, 0, 146, 207, 0>>
    BY <1>1, <1>2, <1>3, Descriptor
  <1>6. gdt_create_entry(TSS, Limit, 137, 16) =
          <<103, 0, TSS[1], TSS[2], TSS[3], 137, 16, TSS[4]>>
    BY <1>1, <1>2, <1>3, Descriptor
  <1>7. /\ GDT_entries[1] = gdt_create_entry(Zero, All, 154, 192)
        /\ GDT_entries[2] = gdt_create_entry(Zero, All, 146, 192)
        /\ GDT_entries[5] = gdt_create_entry(TSS, Limit, 137, 16)
    BY DEF GDT_entries, Limit
  <1> QED
    BY <1>3, <1>4, <1>5, <1>6, <1>7

\* What load_gdt leaves in the segment registers.
Loaded ==
  at = "idt_init" =>
    segments = [cs   |-> GDT_entries[8 \div 8],
                data |-> GDT_entries[16 \div 8],
                tr   |-> GDT_entries[40 \div 8]]

(***************************************************************************)
(* The segments the kernel runs with cover all memory, and the task        *)
(* register has the TSS, wherever that is.                                 *)
(***************************************************************************)
THEOREM SegmentsAreFlat == KernelSpec => []Flat
  <1>1. KernelInit => Loaded
    BY DEF KernelInit, BootInit, Loaded
  <1>2. Loaded /\ [KernelNext]_kvars => Loaded'
    <2> SUFFICES ASSUME Loaded, [KernelNext]_kvars PROVE Loaded'
      OBVIOUS
    <2>1. CASE UNCHANGED boot
      BY <2>1 DEF boot, Loaded
    <2>2. CASE BootNext
      <3>1. CASE gdt_init
        BY <3>1 DEF gdt_init, Loaded
      <3>2. CASE ~gdt_init
        BY <2>2, <3>2 DEF BootNext, FillEntry, EnablePaging, Jump, RemoveLow, ReloadCR3,
              Remember, Loaded
      <3> QED
        BY <3>1, <3>2
    <2> QED
      BY <2>1, <2>2 DEF KernelNext, kvars
  <1>3. Loaded => Flat
    <2> SUFFICES ASSUME Loaded, at = "idt_init" PROVE Flat
      BY DEF Flat
    <2>1. /\ segments.cs = <<255, 255, 0, 0, 0, 154, 207, 0>>
          /\ segments.data = <<255, 255, 0, 0, 0, 146, 207, 0>>
          /\ segments.tr = <<103, 0, TSS[1], TSS[2], TSS[3], 137, 16, TSS[4]>>
      BY Entries DEF Loaded
    <2>2. ASSUME NEW d \in {segments.cs, segments.data}
          PROVE  /\ BaseOf(d) = Zero /\ LimitOf(d) = <<255, 255, 15>>
                 /\ Granular(d) /\ Wide(d)
      BY <2>1 DEF BaseOf, LimitOf, Granular, Wide, Zero
    <2>3. segments.cs[6] = 16 * 9 + 8 + 2 /\ segments.data[6] = 16 * 9 + 2
      BY <2>1
    <2>4. BaseOf(segments.tr) = TSS
      BY <2>1, FramesAssumption DEF BaseOf
    <2>5. LimitOf(segments.tr) = <<103, 0, 0>> /\ ~Granular(segments.tr) /\ segments.tr[6] = 16 * 8 + 9
      BY <2>1 DEF LimitOf, Granular
    <2> QED
      BY <2>2, <2>3, <2>4, <2>5 DEF Flat
  <1> QED
    BY <1>1, <1>2, <1>3, PTL DEF KernelSpec

-----------------------------------------------------------------------------
(***************************************************************************)
(* Interrupts: for any number of bytes from the keyboard, any counter of   *)
(* ticks and any calls of sleep.                                           *)
(***************************************************************************)

\* The stack while an interrupt of the PIC is handled, or after the fault.
Frame(vector, place) ==
  <<<<"registers", 0>>, <<"IRQ_num", vector - 32>>, <<"IDT_num", vector>>,
    <<"return", place>>>>
FaultFrame ==
  <<<<"registers", 0>>, <<"ISR_num", 14>>, <<"errorCode", 2>>,
    <<"return", "work">>>>

IDT_num == stack[3][2]

\* Where kernel_main is, or goes on after the interrupt.
Place ==
  IF pc \in InterruptCode THEN stack[4][2]
  ELSE IF pc \in Stopped THEN "work" ELSE pc

Types ==
  /\ pc \in KernelCode \cup InterruptCode \cup Stopped
  /\ flag \in BOOLEAN
  /\ base \in {8, 32}
  /\ mask \subseteq Lines
  /\ request \subseteq {Timer, Keyboard}
  /\ service \subseteq {Timer, Keyboard}
  /\ handlers \in [Vectors -> {NoHandler, "timer_tick", "keyboard_handler"}]
  /\ full \in BOOLEAN
  /\ data \in 0 .. MaxBytes
  /\ handled \in Seq(0 .. MaxBytes)

\* An interrupt finds kernel_main with nothing else under way; which line is
\* in service says which vector was taken, until sendEOI.
Serving ==
  \/ pc = "return" /\ service = {}
  \/ IDT_num = 32 /\ service = {Timer} /\ pc \notin {"keyboard_handler", "return"}
  \/ IDT_num = 33 /\ service = {Keyboard} /\ Place = "work"
       /\ pc \notin {"timer_tick", "return"}
  \/ IDT_num = 39 /\ service = {} /\ pc \in {"irq_handler", "sendEOI"}

Nesting ==
  /\ pc \in KernelCode => stack = <<>> /\ service = {}
  /\ pc \in Stopped => ~flag /\ stack = FaultFrame /\ service = {}
  /\ pc \in InterruptCode =>
       /\ ~flag
       /\ stack = Frame(IDT_num, Place)
       /\ Place \in KernelCode \ {"idt_init"}
       /\ Serving

\* How far kernel_main's preparations are wherever an interrupt may come.
Prepared ==
  /\ pc = "idt_init" => ~flag
  /\ pc # "idt_init" => base = 32
  /\ Place \in SetupCode \ {"idt_init"} => Keyboard \in mask
  /\ Place \in {"test buffer", "read buffer", "unmask keyboard", "work"} =>
       handlers[33] = "keyboard_handler"
  /\ handlers[32] \in {NoHandler, "timer_tick"}
  /\ handlers[33] \in {NoHandler, "keyboard_handler"}
  /\ handlers[39] = NoHandler

\* From the end of init_keyboard's loop on no unread byte is forgotten.
Pending ==
  Place \in {"unmask keyboard", "work"} /\ full =>
    \/ Keyboard \in request
    \/ Keyboard \in service /\ pc \in {"irq_handler", "keyboard_handler"}

InterruptInv == Types /\ Nesting /\ Prepared /\ Pending

\* The steps of the machine that concern interrupts.
InterruptStep ==
  \/ Setup \/ page_fault
  \/ isr_handler \/ irq_handler \/ timer_tick \/ keyboard_handler
  \/ sendEOI \/ irq_stub
  \/ Tick \/ SendByte
  \/ (\E l \in {Timer, Keyboard} : Interrupt(l)) \/ SpuriousInterrupt

LEMMA KernelStep ==
  ASSUME KernelNext
  PROVE  InterruptStep \/ UNCHANGED vars
  BY DEF KernelNext, TimerNext, TimerHandling, CountTick, TickInTime, Wake,
         SleepCode, TestTicks, Halt, Sleep, InterruptStep

-----------------------------------------------------------------------------
(***************************************************************************)
(* What irq_stub and the handlers find on the stack                        *)
(***************************************************************************)

LEMMA FrameFields ==
  ASSUME NEW vector, NEW place
  PROVE  LET f == Frame(vector, place)
         IN /\ Len(f) = 4
            /\ f[2][2] = vector - 32
            /\ f[3][2] = vector
            /\ f[4] = <<"return", place>>
            /\ f[4][2] = place
            /\ f \o <<>> = f
            /\ SubSeq(f, 5, Len(f)) = <<>>
            /\ f # <<>>
  <1> DEFINE f == Frame(vector, place)
             S == {<<"registers", 0>>, <<"IRQ_num", vector - 32>>,
                   <<"IDT_num", vector>>, <<"return", place>>}
  <1>1. f \in Seq(S) /\ Len(f) = 4 /\ f # <<>>
    BY DEF Frame
  <1>2. f[2][2] = vector - 32 /\ f[3][2] = vector
        /\ f[4] = <<"return", place>> /\ f[4][2] = place
    BY DEF Frame
  <1> HIDE DEF f, S
  <1>3. f \o <<>> = f
    BY <1>1, ConcatEmptySeq
  <1>4. SubSeq(f, 5, Len(f)) = <<>>
    BY <1>1, SubSeqEmpty
  <1> QED
    BY <1>1, <1>2, <1>3, <1>4 DEF f

LEMMA FaultPushed ==
  FaultFrame \o <<>> = FaultFrame
  <1> DEFINE S == {<<"registers", 0>>, <<"ISR_num", 14>>, <<"errorCode", 2>>,
                   <<"return", "work">>}
  <1>1. FaultFrame \in Seq(S)
    BY DEF FaultFrame
  <1> HIDE DEF S
  <1> QED
    BY <1>1, ConcatEmptySeq

\* The first line in service, when there is but one.
LEMMA MinOne ==
  ASSUME NEW l \in Lines
  PROVE  Min({l}) = l
  BY DEF Min, Lines

\* The entries of the IDT are interrupt gates.
LEMMA FlagCleared ==
  (EntryType % 16 = 15) = FALSE
  BY DEF EntryType

-----------------------------------------------------------------------------
(***************************************************************************)
(* kernel_main                                                             *)
(***************************************************************************)

LEMMA InitHolds ==
  KernelInit => InterruptInv
  <1> SUFFICES ASSUME Init PROVE InterruptInv
    BY DEF KernelInit, TimerInit
  <1> USE DEF KernelCode, SetupCode, InterruptCode, Stopped
  <1>1. Types
    <2>1. handled \in Seq(0 .. MaxBytes) /\ data \in 0 .. MaxBytes
      BY BytesAssumption DEF Init
    <2>2. mask \subseteq Lines
      BY DEF Init, Lines, Timer, Keyboard
    <2>3. handlers \in [Vectors -> {NoHandler, "timer_tick", "keyboard_handler"}]
      BY DEF Init
    <2>4. request \subseteq {Timer, Keyboard} /\ service \subseteq {Timer, Keyboard}
      BY DEF Init
    <2> QED
      BY <2>1, <2>2, <2>3, <2>4 DEF Init, Types
  <1>2. Nesting /\ Prepared /\ Pending
    BY DEF Init, Nesting, Prepared, Pending, Place, Vectors, NoHandler
  <1> QED
    BY <1>1, <1>2 DEF InterruptInv

LEMMA SetupSteps ==
  ASSUME InterruptInv, Setup
  PROVE  InterruptInv'
  <1> USE DEF KernelCode, SetupCode, InterruptCode, Stopped, InterruptInv
  <1>1. /\ pc \in SetupCode /\ stack = <<>> /\ service = {} /\ Place = pc
        /\ stack' = <<>> /\ service' = {} /\ pc' \in KernelCode /\ Place' = pc'
        /\ pc' # "idt_init" /\ base' = 32
    BY DEF Setup, Nesting, Place, Prepared, idt_init, init_timer,
           register_timer, register_keyboard, test_buffer, read_buffer,
           unmask_keyboard, pic, keyboard
  <1>2. Types'
    <2> USE <1>1 DEF Types, Lines, Timer, Keyboard, Vectors, pic, keyboard
    <2>1. CASE idt_init BY <2>1 DEF idt_init
    <2>2. CASE init_timer BY <2>2 DEF init_timer
    <2>3. CASE register_timer BY <2>3 DEF register_timer
    <2>4. CASE register_keyboard BY <2>4 DEF register_keyboard
    <2>5. CASE test_buffer BY <2>5 DEF test_buffer
    <2>6. CASE read_buffer BY <2>6 DEF read_buffer
    <2>7. CASE unmask_keyboard BY <2>7 DEF unmask_keyboard
    <2> QED
      BY ONLY Setup, <2>1, <2>2, <2>3, <2>4, <2>5, <2>6, <2>7 DEF Setup
  <1>3. Nesting'
    BY <1>1 DEF Nesting
  <1>4. Prepared'
    <2> DEFINE Late == {"test buffer", "read buffer", "unmask keyboard", "work"}
               Own(h) == /\ h[32] \in {NoHandler, "timer_tick"}
                         /\ h[33] \in {NoHandler, "keyboard_handler"}
                         /\ h[39] = NoHandler
    <2>1. handlers \in [Vectors -> {NoHandler, "timer_tick", "keyboard_handler"}]
      BY DEF Types
    <2>2. 32 \in Vectors /\ 33 \in Vectors /\ 39 \in Vectors
      BY DEF Vectors
    <2>3. /\ pc # "idt_init" => Keyboard \in mask
          /\ pc \in Late => handlers[33] = "keyboard_handler"
          /\ Own(handlers)
      BY <1>1 DEF Prepared
    <2>4. /\ Keyboard \in Lines /\ Keyboard \in Lines \ {Timer}
      BY DEF Lines, Timer, Keyboard
    <2>5. pc' # "work" => Keyboard \in mask'
      BY <2>3, <2>4 DEF Setup, idt_init, init_timer, register_timer,
           register_keyboard, test_buffer, read_buffer, unmask_keyboard, pic
    <2>6. pc' \in Late => handlers'[33] = "keyboard_handler"
      BY <2>1, <2>2, <2>3 DEF Setup, idt_init, init_timer, register_timer,
           register_keyboard, test_buffer, read_buffer, unmask_keyboard
    <2>7. Own(handlers')
      <3>1. \/ handlers' = handlers
            \/ handlers' = [handlers EXCEPT ![32] = "timer_tick"]
            \/ handlers' = [handlers EXCEPT ![33] = "keyboard_handler"]
        BY DEF Setup, idt_init, init_timer, register_timer,
           register_keyboard, test_buffer, read_buffer, unmask_keyboard
      <3>2. CASE handlers' = handlers
        BY <2>3, <3>2
      <3>3. CASE handlers' = [handlers EXCEPT ![32] = "timer_tick"]
        <4>1. /\ handlers'[32] = "timer_tick"
              /\ handlers'[33] = handlers[33] /\ handlers'[39] = handlers[39]
          BY <2>1, <2>2, <3>3
        <4> QED
          BY <2>3, <4>1
      <3>4. CASE handlers' = [handlers EXCEPT ![33] = "keyboard_handler"]
        <4>1. /\ handlers'[33] = "keyboard_handler"
              /\ handlers'[32] = handlers[32] /\ handlers'[39] = handlers[39]
          BY <2>1, <2>2, <3>4
        <4> QED
          BY <2>3, <4>1
      <3> QED
        BY <3>1, <3>2, <3>3, <3>4
    <2> QED
      BY <1>1, <2>5, <2>6, <2>7 DEF Prepared
  <1>5. Pending'
    BY <1>1 DEF Pending, Setup, idt_init, init_timer, register_timer,
           register_keyboard, test_buffer, read_buffer, unmask_keyboard,
           pic, keyboard
  <1> QED
    BY <1>2, <1>3, <1>4, <1>5

LEMMA FaultStep ==
  ASSUME InterruptInv, page_fault
  PROVE  InterruptInv'
  <1> USE DEF KernelCode, SetupCode, InterruptCode, Stopped, InterruptInv
  <1>1. /\ pc = "work" /\ stack = <<>> /\ service = {} /\ Place = "work"
        /\ UNCHANGED <<base, mask, request, service, handlers, full, data, handled>>
        /\ pc' = "isr_handler" /\ flag' = FALSE
        /\ stack' = PushedByFault(2) \o <<>>
    BY FlagCleared DEF page_fault, Enter, Nesting, Place, pic, keyboard
  <1>2. stack' = FaultFrame
    BY <1>1, FaultPushed DEF PushedByFault, FaultFrame
  <1>3. Place' = "work"
    BY <1>1 DEF Place
  <1>4. Types'
    BY <1>1 DEF Types
  <1>5. Nesting'
    BY <1>1, <1>2 DEF Nesting
  <1>6. Prepared' /\ Pending'
    BY <1>1, <1>3 DEF Prepared, Pending
  <1> QED
    BY <1>4, <1>5, <1>6

-----------------------------------------------------------------------------
(***************************************************************************)
(* Handlers                                                                *)
(***************************************************************************)

\* Where all of them but irq_stub leave the processor: in the same interrupt.
LEMMA StillInside ==
  ASSUME pc \in InterruptCode, pc' \in InterruptCode, stack' = stack
  PROVE  Place' = Place /\ IDT_num' = IDT_num
  BY DEF Place, IDT_num

LEMMA HandlerSteps ==
  ASSUME InterruptInv, irq_handler \/ timer_tick \/ keyboard_handler
  PROVE  InterruptInv'
  <1> USE DEF InterruptInv
  <1>1. /\ pc \in {"irq_handler", "timer_tick", "keyboard_handler"}
        /\ UNCHANGED <<flag, stack, base, mask, service, handlers, data>>
    BY DEF irq_handler, timer_tick, keyboard_handler, pic, keyboard
  <1>2. /\ ~flag /\ stack = Frame(IDT_num, Place)
        /\ Place \in KernelCode \ {"idt_init"} /\ Serving
    BY <1>1 DEF Nesting, InterruptCode
  <1>3. pc = "irq_handler" =>
          /\ IDT_num \in {32, 33, 39}
          /\ IDT_num = 33 => handlers[IDT_num] = "keyboard_handler"
          /\ IDT_num = 32 => handlers[IDT_num] # "keyboard_handler"
          /\ IDT_num = 39 => handlers[IDT_num] = NoHandler
          /\ pc' = IF handlers[IDT_num] = NoHandler THEN "sendEOI"
                   ELSE handlers[IDT_num]
    <2> SUFFICES ASSUME pc = "irq_handler"
                 PROVE  /\ IDT_num \in {32, 33, 39}
                        /\ IDT_num = 33 => handlers[33] = "keyboard_handler"
                        /\ IDT_num = 32 => handlers[32] # "keyboard_handler"
                        /\ IDT_num = 39 => handlers[39] = NoHandler
                        /\ pc' = IF handlers[IDT_num] = NoHandler THEN "sendEOI"
                                 ELSE handlers[IDT_num]
      OBVIOUS
    <2>1. /\ IDT_num \in {32, 33, 39}
          /\ IDT_num = 33 => Place = "work"
      BY <1>2 DEF Serving
    <2>2. irq_handler
      BY DEF timer_tick, keyboard_handler
    <2>3. pc' = IF handlers[IDT_num] = NoHandler THEN "sendEOI"
                ELSE handlers[IDT_num]
      BY <2>2 DEF irq_handler, IDT_num
    <2> QED
      BY <2>1, <2>3 DEF Prepared, NoHandler
  <1>4. pc' \in {"timer_tick", "keyboard_handler", "sendEOI"}
    <2>1. CASE irq_handler
      <3>1. /\ IDT_num \in {32, 33, 39}
            /\ pc' = IF handlers[IDT_num] = NoHandler THEN "sendEOI"
                     ELSE handlers[IDT_num]
        BY <1>3, <2>1 DEF irq_handler
      <3>2. handlers[IDT_num] \in {NoHandler, "timer_tick", "keyboard_handler"}
        BY <3>1 DEF Prepared
      <3> QED
        BY <3>1, <3>2
    <2>2. CASE timer_tick \/ keyboard_handler
      BY <2>2 DEF timer_tick, keyboard_handler
    <2> QED
      BY <2>1, <2>2
  <1>5. Place' = Place /\ IDT_num' = IDT_num
    BY <1>1, <1>4, StillInside DEF InterruptCode
  <1>6. Types'
    <2>1. handled' \in Seq(0 .. MaxBytes)
      <3>1. handled \in Seq(0 .. MaxBytes) /\ data \in 0 .. MaxBytes
        BY DEF Types
      <3>2. handled' = handled \/ handled' = Append(handled, data)
        BY DEF irq_handler, timer_tick, keyboard_handler, keyboard
      <3>3. Append(handled, data) \in Seq(0 .. MaxBytes)
        BY <3>1, AppendProperties
      <3> QED
        BY <3>1, <3>2, <3>3
    <2>2. request' \subseteq {Timer, Keyboard} /\ full' \in BOOLEAN
      BY DEF Types, irq_handler, timer_tick, keyboard_handler, keyboard, pic
    <2> QED
      BY <1>1, <1>4, <2>1, <2>2 DEF Types, InterruptCode
  <1>7. Nesting'
    <2>1. Serving'
      <3>1. CASE irq_handler
        <4>1. pc = "irq_handler"
          BY <3>1 DEF irq_handler
        <4>2. CASE IDT_num = 32
          BY <1>1, <1>2, <1>3, <1>4, <1>5, <4>1, <4>2 DEF Serving, Prepared
        <4>3. CASE IDT_num = 33
          BY <1>1, <1>2, <1>3, <1>4, <1>5, <4>1, <4>3 DEF Serving, NoHandler
        <4>4. CASE IDT_num = 39
          BY <1>1, <1>2, <1>3, <1>4, <1>5, <4>1, <4>4 DEF Serving
        <4> QED
          BY <1>3, <4>1, <4>2, <4>3, <4>4
      <3>2. CASE timer_tick
        <4>1. pc = "timer_tick" /\ pc' = "sendEOI"
          BY <3>2 DEF timer_tick
        <4> QED
          BY <1>1, <1>2, <1>5, <4>1 DEF Serving
      <3>3. CASE keyboard_handler
        <4>1. pc = "keyboard_handler" /\ pc' = "sendEOI"
          BY <3>3 DEF keyboard_handler
        <4> QED
          BY <1>1, <1>2, <1>5, <4>1 DEF Serving
      <3> QED
        BY <3>1, <3>2, <3>3
    <2> QED
      BY <1>1, <1>2, <1>4, <1>5, <2>1
         DEF Nesting, KernelCode, SetupCode, InterruptCode, Stopped
  <1>8. Prepared'
    BY <1>1, <1>4, <1>5 DEF Prepared, InterruptCode
  <1>9. Pending'
    <2>1. CASE keyboard_handler
      BY <2>1 DEF Pending, keyboard_handler
    <2>2. CASE timer_tick
      <3>1. Keyboard \notin service
        BY <1>2, <2>2 DEF Serving, timer_tick, Timer, Keyboard
      <3> QED
        BY <1>5, <2>2, <3>1 DEF Pending, timer_tick, pic, keyboard
    <2>3. CASE irq_handler
      <3>1. Keyboard \in service => pc' = "keyboard_handler"
        BY <1>2, <1>3, <2>3 DEF Serving, irq_handler, Timer, Keyboard, NoHandler
      <3> QED
        BY <1>5, <2>3, <3>1 DEF Pending, irq_handler, pic, keyboard
    <2> QED
      BY <2>1, <2>2, <2>3
  <1> QED
    BY <1>6, <1>7, <1>8, <1>9

LEMMA sendEOIStep ==
  ASSUME InterruptInv, sendEOI
  PROVE  InterruptInv'
  <1> USE DEF InterruptInv
  <1>1. /\ pc = "sendEOI" /\ pc' = "return"
        /\ UNCHANGED <<flag, stack, base, mask, request, handlers, full, data,
                       handled>>
        /\ service' = {l \in service : l # Min(service)}
    BY DEF sendEOI, keyboard
  <1>2. /\ ~flag /\ stack = Frame(IDT_num, Place)
        /\ Place \in KernelCode \ {"idt_init"} /\ Serving
    BY <1>1 DEF Nesting, InterruptCode
  <1>3. Place' = Place /\ IDT_num' = IDT_num
    BY <1>1, StillInside DEF InterruptCode
  <1>4. service' = {}
    <2>1. service \in {{}, {Timer}, {Keyboard}}
      BY <1>1, <1>2 DEF Serving
    <2>2. Min({Timer}) = Timer /\ Min({Keyboard}) = Keyboard
      BY MinOne DEF Lines, Timer, Keyboard
    <2> QED
      BY <1>1, <2>1, <2>2
  <1>5. Types'
    BY <1>1, <1>4 DEF Types, InterruptCode
  <1>6. Nesting'
    BY <1>1, <1>2, <1>3, <1>4
       DEF Nesting, Serving, KernelCode, SetupCode, InterruptCode, Stopped
  <1>7. Prepared' /\ Pending'
    BY <1>1, <1>3 DEF Prepared, Pending
  <1> QED
    BY <1>5, <1>6, <1>7

LEMMA irq_stubStep ==
  ASSUME InterruptInv, irq_stub
  PROVE  InterruptInv'
  <1> USE DEF InterruptInv
  <1>1. /\ pc = "return" /\ flag' = TRUE
        /\ pc' = stack[4][2] /\ stack' = SubSeq(stack, 5, Len(stack))
        /\ UNCHANGED <<base, mask, request, service, handlers, full, data,
                       handled>>
    BY DEF irq_stub, pic, keyboard
  <1>2. /\ stack = Frame(IDT_num, Place) /\ service = {}
        /\ Place \in KernelCode \ {"idt_init"}
    BY <1>1 DEF Nesting, Serving, InterruptCode
  <1>3. pc' = Place /\ stack' = <<>>
    BY <1>1, <1>2, FrameFields
  <1>4. Place' = Place
    BY <1>2, <1>3 DEF Place, KernelCode, SetupCode, InterruptCode, Stopped
  <1>5. Types'
    BY <1>1, <1>2, <1>3 DEF Types
  <1>6. Nesting'
    BY <1>1, <1>2, <1>3
       DEF Nesting, KernelCode, SetupCode, InterruptCode, Stopped
  <1>7. Prepared' /\ Pending'
    BY <1>1, <1>2, <1>3, <1>4 DEF Prepared, Pending
  <1> QED
    BY <1>5, <1>6, <1>7

LEMMA isr_handlerStep ==
  ASSUME InterruptInv, isr_handler
  PROVE  InterruptInv'
  <1> USE DEF InterruptInv, KernelCode, SetupCode, InterruptCode, Stopped
  <1>1. /\ pc = "isr_handler" /\ pc' = "halted"
        /\ UNCHANGED <<flag, stack, base, mask, request, service, handlers,
                       full, data, handled>>
    BY DEF isr_handler, pic, keyboard
  <1>2. Place = "work" /\ Place' = "work"
    BY <1>1 DEF Place
  <1> QED
    BY <1>1, <1>2 DEF Types, Nesting, Prepared, Pending

-----------------------------------------------------------------------------
(***************************************************************************)
(* The devices and the PIC                                                 *)
(***************************************************************************)

LEMMA DeviceSteps ==
  ASSUME InterruptInv, Tick \/ SendByte
  PROVE  InterruptInv'
  <1> USE DEF InterruptInv
  <1>1. UNCHANGED <<pc, flag, stack, base, mask, service, handlers, handled>>
    BY DEF Tick, SendByte, keyboard
  <1>2. request \subseteq request' /\ request' \subseteq {Timer, Keyboard}
    BY DEF Tick, SendByte, Types
  <1>3. \/ UNCHANGED <<full, data>>
        \/ full' = TRUE /\ data' = data + 1 /\ data < MaxBytes
           /\ Keyboard \in request'
    BY DEF Tick, SendByte, keyboard
  <1>4. Place' = Place /\ IDT_num' = IDT_num
    BY <1>1 DEF Place, IDT_num
  <1>5. Types'
    <2>1. data' \in 0 .. MaxBytes
      <3>1. data \in 0 .. MaxBytes
        BY DEF Types
      <3> QED
        BY <1>3, <3>1, BytesAssumption
    <2>2. full' \in BOOLEAN
      <3>1. full \in BOOLEAN
        BY DEF Types
      <3> QED
        BY <1>3, <3>1
    <2> QED
      BY <1>1, <1>2, <2>1, <2>2 DEF Types
  <1>6. Nesting'
    BY <1>1, <1>4 DEF Nesting, Serving
  <1>7. Prepared'
    BY <1>1, <1>4 DEF Prepared
  <1>8. Pending'
    BY <1>1, <1>2, <1>3, <1>4 DEF Pending
  <1> QED
    BY <1>5, <1>6, <1>7, <1>8

\* An interrupt finds the flag set, so kernel_main past idt_init, and the
\* keyboard's line is not presented before "work".
LEMMA InterruptSteps ==
  ASSUME InterruptInv,
         (\E l \in {Timer, Keyboard} : Interrupt(l)) \/ SpuriousInterrupt
  PROVE  InterruptInv'
  <1> USE DEF InterruptInv
  <1>1. flag /\ UNCHANGED <<base, mask, handlers, full, data, handled>>
    BY DEF Interrupt, SpuriousInterrupt, keyboard
  <1>2. /\ pc \in KernelCode \ {"idt_init"} /\ stack = <<>> /\ service = {}
        /\ base = 32 /\ Place = pc
    BY <1>1 DEF Types, Nesting, Prepared, Place, KernelCode, SetupCode,
                InterruptCode, Stopped
  <1>3. Keyboard \notin mask => pc = "work"
    BY <1>2 DEF Prepared, KernelCode
  <1>4. \E v \in {32, 33, 39} :
          /\ Enter(PushedByIRQ(v), "irq_handler")
          /\ v = 32 => service' = {Timer} /\ request' = request \ {Timer}
          /\ v = 33 => service' = {Keyboard} /\ request' = request \ {Keyboard}
          /\ v = 39 => service' = {} /\ request' = request \ {Keyboard} /\ ~full
          /\ v # 32 => pc = "work"
    <2>1. CASE SpuriousInterrupt
      BY <1>2, <1>3, <2>1
         DEF SpuriousInterrupt, Presented, Spurious, Timer, Keyboard
    <2>2. CASE Interrupt(Timer)
      BY <1>2, <2>2 DEF Interrupt, Timer
    <2>3. CASE Interrupt(Keyboard)
      BY <1>2, <1>3, <2>3 DEF Interrupt, Presented, Timer, Keyboard
    <2> QED
      BY <2>1, <2>2, <2>3
  <1>5. PICK v \in {32, 33, 39} :
          /\ Enter(PushedByIRQ(v), "irq_handler")
          /\ v = 32 => service' = {Timer} /\ request' = request \ {Timer}
          /\ v = 33 => service' = {Keyboard} /\ request' = request \ {Keyboard}
          /\ v = 39 => service' = {} /\ request' = request \ {Keyboard} /\ ~full
          /\ v # 32 => pc = "work"
    BY <1>4
  <1>6. pc' = "irq_handler" /\ flag' = FALSE /\ stack' = Frame(v, pc)
    <2>1. stack' = Frame(v, pc) \o <<>>
      BY <1>2, <1>5 DEF Enter, PushedByIRQ, Frame
    <2>2. Frame(v, pc) \o <<>> = Frame(v, pc)
      BY FrameFields
    <2>3. pc' = "irq_handler" /\ flag' = FALSE
      BY <1>5, FlagCleared DEF Enter
    <2> QED
      BY <2>1, <2>2, <2>3
  <1>7. Place' = pc /\ IDT_num' = v
    <2>1. stack'[4][2] = pc /\ stack'[3][2] = v
      BY <1>6, FrameFields
    <2> QED
      BY <1>6, <2>1 DEF Place, IDT_num, InterruptCode
  <1>8. Types'
    BY <1>1, <1>5, <1>6 DEF Types, InterruptCode
  <1>9. Nesting'
    <2>1. Serving'
      BY <1>5, <1>6, <1>7 DEF Serving
    <2> QED
      BY <1>2, <1>6, <1>7, <2>1
         DEF Nesting, KernelCode, SetupCode, InterruptCode, Stopped
  <1>10. Prepared'
    BY <1>1, <1>2, <1>6, <1>7 DEF Prepared
  <1>11. Pending'
    BY <1>1, <1>2, <1>5, <1>6, <1>7 DEF Pending, Timer, Keyboard
  <1> QED
    BY <1>8, <1>9, <1>10, <1>11

-----------------------------------------------------------------------------
(***************************************************************************)
(* Theorems                                                                *)
(***************************************************************************)

(***************************************************************************)
(* Wherever the processor is, it is known what it interrupted, which line  *)
(* is in service, how far kernel_main's preparations are, and that no      *)
(* unread byte has been forgotten.                                         *)
(***************************************************************************)
THEOREM InterruptsInductive == KernelSpec => []InterruptInv
  <1>1. InterruptInv /\ [KernelNext]_kvars => InterruptInv'
    <2> SUFFICES ASSUME InterruptInv, [KernelNext]_kvars PROVE InterruptInv'
      OBVIOUS
    <2>1. CASE UNCHANGED vars
      <3>1. UNCHANGED <<pc, flag, stack, base, mask, request, service,
                        handlers, full, data, handled>>
        BY <2>1 DEF vars
      <3>2. Place' = Place /\ IDT_num' = IDT_num
        BY <3>1 DEF Place, IDT_num
      <3>3. Types'
        BY <3>1 DEF InterruptInv, Types
      <3>4. Nesting'
        BY <3>1, <3>2 DEF InterruptInv, Nesting, Serving
      <3>5. Prepared' /\ Pending'
        BY <3>1, <3>2 DEF InterruptInv, Prepared, Pending
      <3> QED
        BY <3>3, <3>4, <3>5 DEF InterruptInv
    <2>2. CASE InterruptStep
      BY <2>2, SetupSteps, FaultStep, HandlerSteps, sendEOIStep, irq_stubStep,
         isr_handlerStep, DeviceSteps, InterruptSteps DEF InterruptStep
    <2> QED
      BY <2>1, <2>2, KernelStep DEF kvars
  <1> QED
    BY <1>1, InitHolds, PTL DEF KernelSpec

(***************************************************************************)
(* The variables of module Interrupts have their types in every behaviour  *)
(* of the machine.                                                         *)
(***************************************************************************)
THEOREM InterruptTypes == KernelSpec => []TypeOK
  <1>1. InterruptInv => TypeOK
    <2> SUFFICES ASSUME InterruptInv PROVE TypeOK
      OBVIOUS
    <2>1. \E v, k : stack \in {<<>>, FaultFrame, Frame(v, k)}
      BY DEF InterruptInv, Types, Nesting
    <2>2. \A n \in DOMAIN stack :
            stack[n][1] \in {"registers", "IRQ_num", "IDT_num", "ISR_num",
                             "errorCode", "return"}
      BY <2>1 DEF Frame, FaultFrame
    <2> QED
      BY <2>2 DEF InterruptInv, Types, TypeOK
  <1> QED
    BY <1>1, InterruptsInductive, PTL

(***************************************************************************)
(* Interrupts do not nest: a handler interrupts kernel_main only, finds on *)
(* the stack what its entry pushed, and leaves no line in service.         *)
(***************************************************************************)
THEOREM InterruptsDoNotNest == KernelSpec => []OneAtATime
  <1>1. InterruptInv => OneAtATime
    <2> SUFFICES ASSUME InterruptInv PROVE OneAtATime
      OBVIOUS
    <2>1. pc \in KernelCode => stack = <<>> /\ service = {}
      BY DEF InterruptInv, Nesting
    <2>2. ASSUME pc \in InterruptCode
          PROVE  /\ ~flag /\ Len(stack) = 4
                 /\ stack[4] \in {"return"} \X KernelCode
                 /\ Cardinality(service) <= 1
      <3>1. ~flag /\ stack = Frame(IDT_num, Place) /\ Place \in KernelCode
            /\ service \in {{}, {Timer}, {Keyboard}}
        BY <2>2 DEF InterruptInv, Nesting, Serving
      <3>2. Len(stack) = 4 /\ stack[4] = <<"return", Place>>
        BY <3>1, FrameFields
      <3>3. Cardinality(service) <= 1
        <4>1. Cardinality({}) = 0
          BY FS_EmptySet
        <4>2. Cardinality({Timer}) = 1 /\ Cardinality({Keyboard}) = 1
          BY FS_Singleton
        <4> QED
          BY <3>1, <4>1, <4>2
      <3> QED
        BY <3>1, <3>2, <3>3
    <2> QED
      BY <2>1, <2>2 DEF OneAtATime
  <1> QED
    BY <1>1, InterruptsInductive, PTL

(***************************************************************************)
(* A handler runs for its own line only, and the keyboard's line never     *)
(* finds the table of handlers empty.                                      *)
(***************************************************************************)
THEOREM HandlersOwnLines == KernelSpec => []OwnHandler
  <1>1. InterruptInv => OwnHandler
    <2> SUFFICES ASSUME InterruptInv PROVE OwnHandler
      OBVIOUS
    <2>1. pc \in InterruptCode => Serving
      BY DEF InterruptInv, Nesting
    <2>2. pc = "timer_tick" => service = {Timer}
      BY <2>1 DEF Serving, InterruptCode
    <2>3. pc = "keyboard_handler" => service = {Keyboard}
      BY <2>1 DEF Serving, InterruptCode
    <2>4. ASSUME pc = "irq_handler", service = {Keyboard}
          PROVE  handlers[stack[3][2]] = "keyboard_handler"
      <3>1. IDT_num = 33 /\ Place = "work"
        BY <2>1, <2>4 DEF Serving, InterruptCode, Timer, Keyboard
      <3> QED
        BY <3>1 DEF InterruptInv, Prepared, IDT_num
    <2> QED
      BY <2>2, <2>3, <2>4 DEF OwnHandler
  <1> QED
    BY <1>1, InterruptsInductive, PTL

(***************************************************************************)
(* No byte is ever left without an interrupt to come: the keyboard cannot  *)
(* fall silent for want of an edge.                                        *)
(***************************************************************************)
THEOREM KeyboardStaysAlive == KernelSpec => []KeyboardAlive
  <1>1. InterruptInv => KeyboardAlive
    <2> SUFFICES ASSUME InterruptInv, full, Keyboard \notin mask, pc # "idt_init"
                 PROVE  \/ Keyboard \in request
                        \/ Keyboard \in service
                             /\ pc \in {"irq_handler", "keyboard_handler"}
      BY DEF KeyboardAlive
    <2>1. Place \in KernelCode \ {"idt_init"}
      BY DEF InterruptInv, Types, Nesting, Place, KernelCode, SetupCode,
             InterruptCode, Stopped
    <2>2. Place = "work"
      BY <2>1 DEF InterruptInv, Prepared, KernelCode
    <2> QED
      BY <2>2 DEF InterruptInv, Pending
  <1> QED
    BY <1>1, InterruptsInductive, PTL

-----------------------------------------------------------------------------
(***************************************************************************)
(* The order of bytes                                                      *)
(***************************************************************************)

\* keyboard_handler has been called and has not read yet.
Reading ==
  Keyboard \in service /\ pc \in {"irq_handler", "keyboard_handler"}

\* There is one call of keyboard_handler too many to come.
OneTooMany ==
  \/ Keyboard \in request /\ ~full
  \/ Reading /\ (Keyboard \in request \/ ~full)

\* The last byte handled is the one before the unread one, or the last that
\* came; a byte is handled twice only by the call too many, which comes once.
Sequel ==
  /\ handled # <<>> =>
       /\ Place = "work"
       /\ handled[Len(handled)] = IF full THEN data - 1 ELSE data
  /\ Reading /\ Keyboard \in request => full
  /\ \A n \in 2 .. Len(handled) :
       handled[n] = handled[n - 1] \/ handled[n] = handled[n - 1] + 1
  /\ OneTooMany => Repeats = {}
  /\ \A m, n \in Repeats : m = n

\* What keyboard_handler adds to the history.
LEMMA OneMore ==
  ASSUME handled \in Seq(0 .. MaxBytes), data \in 0 .. MaxBytes,
         handled' = Append(handled, data)
  PROVE  /\ handled' # <<>>
         /\ handled'[Len(handled')] = data
         /\ \A n \in 2 .. Len(handled') :
              \/ n \in 2 .. Len(handled) /\ handled'[n] = handled[n]
                                         /\ handled'[n - 1] = handled[n - 1]
              \/ /\ n = Len(handled) + 1 /\ handled # <<>>
                 /\ handled'[n] = data
                 /\ handled'[n - 1] = handled[Len(handled)]
         /\ Repeats' \subseteq Repeats \cup {Len(handled) + 1}
         /\ handled = <<>> \/ handled[Len(handled)] # data => Repeats' \subseteq Repeats
  <1> DEFINE k == Len(handled)
  <1>1. /\ k \in Nat /\ Len(handled') = k + 1
        /\ \A n \in 1 .. k : handled'[n] = handled[n]
        /\ handled'[k + 1] = data
        /\ handled = <<>> <=> k = 0
    BY LenProperties, EmptySeq, AppendProperties
  <1> HIDE DEF k
  <1>2. \A n \in 2 .. k + 1 : n \in 2 .. k \/ (n = k + 1 /\ k \in 1 .. k)
    BY <1>1
  <1>3. \A n \in 2 .. k : n \in 1 .. k /\ n - 1 \in 1 .. k
    BY <1>1
  <1>4. (k + 1) - 1 = k
    BY <1>1
  <1>5. ASSUME NEW n \in 2 .. k + 1
        PROVE  \/ n \in 2 .. k /\ handled'[n] = handled[n]
                               /\ handled'[n - 1] = handled[n - 1]
               \/ /\ n = k + 1 /\ handled # <<>>
                  /\ handled'[n] = data
                  /\ handled'[n - 1] = handled[k]
    <2>1. CASE n \in 2 .. k
      BY <1>1, <1>3, <2>1
    <2>2. CASE n = k + 1 /\ k \in 1 .. k
      BY <1>1, <1>4, <2>2
    <2> QED
      BY <1>2, <2>1, <2>2
  <1>6. handled' # <<>>
    BY EmptySeq, AppendProperties
  <1> QED
    BY <1>1, <1>5, <1>6 DEF k, Repeats


\* Steps that handle no byte, once a byte has been handled.
LEMMA NothingHandled ==
  ASSUME Sequel, handled' = handled,
         handled # <<>> =>
           /\ Place' = "work"
           /\ \/ full' = full /\ data' = data
              \/ ~full /\ full' /\ (data + 1) - 1 = data /\ data' = data + 1
           /\ OneTooMany' => OneTooMany,
         handled = <<>> => Repeats = {},
         Reading' /\ Keyboard \in request' => full'
  PROVE  Sequel'
  <1>1. Repeats' = Repeats
    BY DEF Repeats
  <1>2. handled # <<>> =>
          /\ Place' = "work"
          /\ handled'[Len(handled')] = IF full' THEN data' - 1 ELSE data'
    BY DEF Sequel
  <1>3. \A n \in 2 .. Len(handled') :
          handled'[n] = handled'[n - 1] \/ handled'[n] = handled'[n - 1] + 1
    BY DEF Sequel
  <1>4. OneTooMany' => Repeats' = {}
    BY <1>1 DEF Sequel
  <1>5. \A m, n \in Repeats' : m = n
    BY <1>1 DEF Sequel
  <1> QED
    BY <1>2, <1>3, <1>4, <1>5 DEF Sequel

\* No byte is handled twice before one is handled.
LEMMA NoneNoRepeats ==
  handled = <<>> => Repeats = {}
  BY EmptySeq DEF Repeats

\* Where kernel_main goes on is the same after an interrupt as before it.
LEMMA PlaceKept ==
  ASSUME InterruptInv, InterruptInv', InterruptStep, ~Setup
  PROVE  Place' = Place
  <1> USE DEF InterruptInv
  <1>1. CASE page_fault \/ isr_handler
    BY <1>1 DEF page_fault, Enter, isr_handler, Place, KernelCode, SetupCode,
                InterruptCode, Stopped
  <1>2. CASE irq_handler \/ timer_tick \/ keyboard_handler \/ sendEOI
    <2>1. pc \in InterruptCode /\ stack' = stack
      BY <1>2 DEF irq_handler, timer_tick, keyboard_handler, sendEOI, InterruptCode
    <2>2. pc' \in InterruptCode
      <3>1. ~flag' /\ stack' # <<>> /\ stack' # FaultFrame
        <4>1. ~flag /\ stack = Frame(IDT_num, Place)
          BY <2>1 DEF Nesting
        <4>2. Frame(IDT_num, Place) # <<>> /\ Frame(IDT_num, Place)[2][1] = "IRQ_num"
          BY DEF Frame
        <4>3. FaultFrame[2][1] = "ISR_num"
          BY DEF FaultFrame
        <4>4. flag' = flag
          BY <1>2 DEF irq_handler, timer_tick, keyboard_handler, sendEOI
        <4> QED
          BY <2>1, <4>1, <4>2, <4>3, <4>4
      <3> QED
        BY <3>1 DEF Types, Nesting
    <2> QED
      BY <2>1, <2>2, StillInside
  <1>3. CASE irq_stub
    <2>1. pc = "return" /\ pc' = stack[4][2] /\ Place = stack[4][2]
      BY <1>3 DEF irq_stub, Place, InterruptCode
    <2>2. Place \in KernelCode
      BY <2>1 DEF Nesting, InterruptCode
    <2> QED
      BY <2>1, <2>2 DEF Place, KernelCode, SetupCode, InterruptCode, Stopped
  <1>4. CASE Tick \/ SendByte
    BY <1>4 DEF Tick, SendByte, Place
  <1>5. CASE (\E l \in {Timer, Keyboard} : Interrupt(l)) \/ SpuriousInterrupt
    <2>1. PICK v : Enter(PushedByIRQ(v), "irq_handler") /\ flag
      BY <1>5 DEF Interrupt, SpuriousInterrupt
    <2>2. pc \in KernelCode /\ stack = <<>>
      BY <2>1 DEF Types, Nesting
    <2>3. stack' = Frame(v, pc) \o <<>>
      BY <2>1, <2>2 DEF Enter, PushedByIRQ, Frame
    <2>4. stack'[4][2] = pc
      BY <2>3, FrameFields
    <2>5. pc' = "irq_handler"
      BY <2>1 DEF Enter
    <2> QED
      BY <2>2, <2>4, <2>5 DEF Place, KernelCode, SetupCode, InterruptCode, Stopped
  <1> QED
    BY <1>1, <1>2, <1>3, <1>4, <1>5 DEF InterruptStep

\* What each step does to the bytes' order.
LEMMA SequelStep ==
  ASSUME InterruptInv, InterruptInv', Sequel, InterruptStep
  PROVE  Sequel'
  <1>1. CASE Setup
    <2>1. pc \in SetupCode /\ handled' = handled /\ Place = pc /\ service = {} /\ service' = {}
      BY <1>1 DEF Setup, InterruptInv, Nesting, Place, idt_init, init_timer,
           register_timer, register_keyboard, test_buffer, read_buffer,
           unmask_keyboard, pic, keyboard, KernelCode, SetupCode, InterruptCode, Stopped
    <2>2. handled = <<>>
      BY <2>1 DEF Sequel, SetupCode
    <2>3. ~Reading'
      BY <2>1 DEF Reading
    <2> QED
      BY <2>1, <2>2, <2>3, NothingHandled, NoneNoRepeats
  <1>2. CASE keyboard_handler
    <2>1. /\ Reading /\ ~Reading' /\ handled' = Append(handled, data)
          /\ full' = FALSE /\ data' = data /\ request' \subseteq request
      <3>1. service = {Keyboard}
        BY <1>2 DEF keyboard_handler, InterruptInv, Nesting, Serving, InterruptCode
      <3> QED
        BY <1>2, <3>1 DEF keyboard_handler, Reading
    <2>2. Place' = "work"
      <3>1. Place = "work"
        BY <1>2 DEF keyboard_handler, InterruptInv, Nesting, Serving, InterruptCode
      <3> QED
        BY <1>2, <3>1, PlaceKept DEF InterruptStep, keyboard_handler, Setup, idt_init, init_timer,
           register_timer, register_keyboard, test_buffer, read_buffer,
           unmask_keyboard
    <2>3. handled \in Seq(0 .. MaxBytes) /\ data \in 0 .. MaxBytes
      BY DEF InterruptInv, Types
    <2>4. \A n \in 2 .. Len(handled') :
              \/ n \in 2 .. Len(handled) /\ handled'[n] = handled[n]
                                         /\ handled'[n - 1] = handled[n - 1]
              \/ /\ n = Len(handled) + 1 /\ handled # <<>>
                 /\ handled'[n] = data
                 /\ handled'[n - 1] = handled[Len(handled)]
      BY <2>1, <2>3, OneMore
    <2>5. /\ handled' # <<>> /\ handled'[Len(handled')] = data
          /\ Repeats' \subseteq Repeats \cup {Len(handled) + 1}
          /\ handled = <<>> \/ handled[Len(handled)] # data => Repeats' \subseteq Repeats
      BY <2>1, <2>3, OneMore
    <2>6. handled # <<>> =>
            \/ full /\ handled[Len(handled)] + 1 = data
            \/ ~full /\ handled[Len(handled)] = data
      <3>1. handled # <<>> => handled[Len(handled)] = IF full THEN data - 1 ELSE data
        BY DEF Sequel
      <3>2. (data - 1) + 1 = data
        BY <2>3
      <3> QED
        BY <3>1, <3>2
    <2>7. \A n \in 2 .. Len(handled') :
            handled'[n] = handled'[n - 1] \/ handled'[n] = handled'[n - 1] + 1
      <3> TAKE n \in 2 .. Len(handled')
      <3>1. CASE n \in 2 .. Len(handled) /\ handled'[n] = handled[n]
                                         /\ handled'[n - 1] = handled[n - 1]
        BY <3>1 DEF Sequel
      <3>2. CASE /\ n = Len(handled) + 1 /\ handled # <<>>
                 /\ handled'[n] = data
                 /\ handled'[n - 1] = handled[Len(handled)]
        BY <2>6, <3>2
      <3> QED
        BY <2>4, <3>1, <3>2
    <2>8. CASE full \/ handled = <<>>
      <3>1. handled[Len(handled)] # data \/ handled = <<>>
        <4>1. CASE handled # <<>>
          <5>1. handled[Len(handled)] = data - 1
            BY <2>8, <4>1 DEF Sequel
          <5> QED
            BY <2>3, <5>1
        <4> QED
          BY <4>1
      <3>2. Repeats' \subseteq Repeats
        BY <2>5, <3>1
      <3>3. OneTooMany' => Repeats = {}
        <4>1. OneTooMany' => Keyboard \in request
          BY <2>1 DEF OneTooMany
        <4> QED
          BY <4>1, <2>1 DEF OneTooMany, Sequel
      <3> QED
        BY <2>1, <2>2, <2>5, <2>7, <3>2, <3>3 DEF Sequel
    <2>9. CASE ~full /\ handled # <<>>
      <3>1. Repeats = {} /\ Keyboard \notin request
        BY <2>1, <2>9 DEF Sequel, OneTooMany
      <3>2. ~OneTooMany'
        BY <2>1, <3>1 DEF OneTooMany
      <3>3. \A m, n \in Repeats' : m = n
        BY <2>5, <3>1
      <3> QED
        BY <2>1, <2>2, <2>5, <2>7, <3>2, <3>3 DEF Sequel
    <2> QED
      BY <2>8, <2>9
  <1>3. CASE InterruptStep /\ ~Setup /\ ~keyboard_handler
    <2>1. Place' = Place
      BY <1>3, PlaceKept
    <2>2. handled' = handled
      BY <1>3 DEF InterruptStep, page_fault, isr_handler, irq_handler,
           timer_tick, sendEOI, irq_stub, Tick, SendByte, Interrupt,
           SpuriousInterrupt, keyboard
    <2>3. /\ \/ full' = full /\ data' = data
             \/ ~full /\ full' /\ (data + 1) - 1 = data /\ data' = data + 1
          /\ OneTooMany' => OneTooMany
          /\ Reading' /\ Keyboard \in request' => full'
      <3>1. CASE page_fault \/ isr_handler \/ timer_tick \/ sendEOI \/ irq_stub
        <4>1. full' = full /\ data' = data /\ request' = request
          BY <3>1 DEF page_fault, isr_handler, timer_tick, sendEOI, irq_stub, pic, keyboard
        <4>2. ~Reading'
          <5>1. CASE page_fault \/ isr_handler \/ timer_tick \/ sendEOI
            BY <5>1 DEF page_fault, Enter, isr_handler, timer_tick, sendEOI, Reading
          <5>2. CASE irq_stub
            <6>1. Place' = pc'
              BY <2>1, <5>2 DEF irq_stub, Place, InterruptCode
            <6>2. service' = {}
              BY <5>2 DEF irq_stub, pic, InterruptInv, Nesting, Serving, InterruptCode
            <6> QED
              BY <6>2 DEF Reading
          <5> QED
            BY <3>1, <5>1, <5>2
        <4> QED
          BY <4>1, <4>2 DEF OneTooMany
      <3>2. CASE irq_handler
        <4>1. full' = full /\ data' = data /\ request' = request /\ service' = service
          BY <3>2 DEF irq_handler, pic, keyboard
        <4>2. Reading' => Reading
          BY <3>2, <4>1 DEF irq_handler, Reading
        <4> QED
          BY <4>1, <4>2 DEF OneTooMany, Sequel
      <3>3. CASE Tick
        <4>1. /\ full' = full /\ data' = data /\ service' = service /\ pc' = pc
              /\ Keyboard \in request' <=> Keyboard \in request
          BY <3>3 DEF Tick, keyboard, Timer, Keyboard
        <4> QED
          BY <4>1 DEF OneTooMany, Sequel, Reading
      <3>4. CASE SendByte
        <4>1. /\ ~full /\ full' = TRUE /\ data' = data + 1 /\ service' = service
              /\ pc' = pc
          BY <3>4 DEF SendByte
        <4>2. (data + 1) - 1 = data
          BY DEF InterruptInv, Types
        <4> QED
          BY <4>1, <4>2 DEF OneTooMany, Reading
      <3>5. CASE (\E l \in {Timer, Keyboard} : Interrupt(l)) \/ SpuriousInterrupt
        <4>1. full' = full /\ data' = data /\ request' \subseteq request /\ flag
          BY <3>5 DEF Interrupt, SpuriousInterrupt, keyboard
        <4>2. service = {}
          BY <4>1 DEF InterruptInv, Types, Nesting
        <4>3. Reading' => Keyboard \in request /\ Keyboard \notin request'
          BY <3>5, <4>2 DEF Interrupt, SpuriousInterrupt, Presented, Reading,
                            Timer, Keyboard
        <4> QED
          BY <4>1, <4>3 DEF OneTooMany
      <3> QED
        BY <1>3, <3>1, <3>2, <3>3, <3>4, <3>5 DEF InterruptStep
    <2> QED
      BY <2>1, <2>2, <2>3, NothingHandled, NoneNoRepeats DEF Sequel
  <1> QED
    BY <1>1, <1>2, <1>3

(***************************************************************************)
(* However many bytes come, keyboard_handler reads every byte from its     *)
(* first one on, in order, and one of them at most twice.                  *)
(***************************************************************************)
THEOREM BytesInOrder == KernelSpec => []InOrder
  <1>1. KernelInit => Sequel
    <2>1. KernelInit => handled = <<>> /\ pc = "idt_init" /\ service = {}
      BY DEF KernelInit, TimerInit, Init
    <2>2. KernelInit => Len(handled) = 0 /\ Repeats = {} /\ ~Reading
      BY <2>1, EmptySeq, NoneNoRepeats DEF Reading
    <2> QED
      BY <2>1, <2>2 DEF Sequel
  <1>2. InterruptInv /\ InterruptInv' /\ Sequel /\ [KernelNext]_kvars => Sequel'
    <2>1. ASSUME Sequel, UNCHANGED vars PROVE Sequel'
      BY <2>1 DEF vars, Sequel, Place, Reading, OneTooMany, Repeats
    <2> QED
      BY <2>1, SequelStep, KernelStep DEF kvars
  <1>3. InterruptInv /\ Sequel => InOrder
    <2> SUFFICES ASSUME InterruptInv, Sequel PROVE InOrder
      OBVIOUS
    <2>1. \A n \in 2 .. Len(handled) :
            n \in Repeats \/ handled[n] = handled[n - 1] + 1
      BY DEF Sequel, Repeats
    <2>2. Cardinality(Repeats) <= 1
      <3>1. \A m, n \in Repeats : m = n
        BY DEF Sequel
      <3>2. CASE Repeats = {}
        BY <3>2, FS_EmptySet
      <3>3. CASE Repeats # {}
        <4>1. PICK n \in Repeats : TRUE
          BY <3>3
        <4>2. Repeats = {n}
          BY <3>1, <4>1
        <4> QED
          BY <4>2, FS_Singleton
      <3> QED
        BY <3>2, <3>3
    <2> QED
      BY <2>1, <2>2 DEF InOrder
  <1> QED
    BY <1>1, <1>2, <1>3, InterruptsInductive, PTL DEF KernelSpec

-----------------------------------------------------------------------------
(***************************************************************************)
(* sleep: for any width of the counter of ticks, any frequency and any     *)
(* number of milliseconds.                                                 *)
(***************************************************************************)

SleepTypes ==
  /\ ticks \in 0 .. (TICKS - 1)
  /\ sleeping \in [at : {"not called", "test", "hlt", "halted", "woken"},
                   target : Nat, fits : BOOLEAN, asked : Nat, elapsed : Nat,
                   stepped : BOOLEAN]

\* A tick has been presented and timer_tick has not counted it.
Counting == Timer \in service /\ pc \in {"irq_handler", "timer_tick"}

\* A tick has come and has not been counted.
Coming == Timer \in request \/ Counting

\* How many more periods than asked for may have begun: a test finds no tick
\* too many, one may come before hlt and one during it.
Slack ==
  IF sleeping.at = "hlt" THEN IF sleeping.stepped THEN 0 ELSE 1
  ELSE IF sleeping.stepped THEN 1 ELSE 2

\* The counter has gone on from its value at the call by the ticks that have
\* come, but for one that has not been counted, and has not wrapped.
Clocked ==
  /\ sleeping.asked <= sleeping.target
  /\ sleeping.target + 2 < TICKS
  /\ ticks + (IF Coming THEN 1 ELSE 0) =
       (sleeping.target - sleeping.asked) + sleeping.elapsed
  /\ sleeping.elapsed <= sleeping.asked + Slack

\* Where the call of sleep is, what is under way at its sides, and that the
\* timer has had its handler since register_timer.
Asleep ==
  /\ sleeping.at = "not called" => sleeping.elapsed = 0 /\ sleeping.stepped
  /\ sleeping.at # "not called" => Place = "work"
  /\ Place \notin {"idt_init", "unmask timer", "register timer"} =>
       handlers[32] = "timer_tick"
  /\ sleeping.at = "halted" =>
       pc = "work" /\ (sleeping.stepped \/ Timer \in request)
  /\ InSleep /\ Coming => ~sleeping.stepped
  /\ InSleep /\ Counting => Timer \notin request

SleepInv ==
  /\ SleepTypes
  /\ Asleep
  /\ InSleep /\ sleeping.fits => Clocked
  /\ SleptEnough

\* The numbers without the places.
LEMMA Numbers ==
  ASSUME SleepTypes
  PROVE  /\ ticks \in Nat /\ ticks < TICKS
         /\ sleeping.target \in Nat /\ sleeping.asked \in Nat
         /\ sleeping.elapsed \in Nat /\ TICKS \in Nat
         /\ sleeping.fits \in BOOLEAN /\ sleeping.stepped \in BOOLEAN
  <1>1. TICKS \in Nat
    BY ClockAssumption
  <1>2. ticks \in 0 .. (TICKS - 1)
    BY DEF SleepTypes
  <1>3. ticks \in Nat /\ ticks < TICKS
    BY <1>1, <1>2
  <1>4. /\ sleeping.target \in Nat /\ sleeping.asked \in Nat
        /\ sleeping.elapsed \in Nat
        /\ sleeping.fits \in BOOLEAN /\ sleeping.stepped \in BOOLEAN
    BY DEF SleepTypes
  <1> QED
    BY <1>1, <1>3, <1>4

-----------------------------------------------------------------------------
(***************************************************************************)
(* What the counter does                                                   *)
(***************************************************************************)

LEMMA Counted ==
  ASSUME NEW t \in Nat, NEW asked \in Nat, NEW elapsed \in Nat, NEW target \in Nat,
         NEW slack \in {0, 1, 2}, NEW n \in Nat,
         t + 1 = (target - asked) + elapsed, elapsed <= asked + slack,
         target + 2 < n
  PROVE  (t + 1) % n = t + 1
  <1>1. t + 1 < n
    OBVIOUS
  <1> QED
    BY <1>1

-----------------------------------------------------------------------------
(***************************************************************************)
(* The steps                                                               *)
(***************************************************************************)

LEMMA TwoLines ==
  Timer # Keyboard
  BY DEF Timer, Keyboard

LEMMA Slots ==
  32 \in Vectors /\ 33 \in Vectors /\ 32 # 33
  BY DEF Vectors

\* Every step leaves the timer's handler where it is.
LEMMA HandlerStays ==
  ASSUME InterruptInv, InterruptInv', InterruptStep,
         Place \notin {"idt_init", "unmask timer", "register timer"} =>
           handlers[32] = "timer_tick"
  PROVE  (Place \notin {"idt_init", "unmask timer", "register timer"} =>
           handlers[32] = "timer_tick")'
  <1>1. CASE Setup
    <2>1. Place = pc /\ Place' = pc'
      BY <1>1 DEF Setup, InterruptInv, Place, idt_init, init_timer,
           register_timer, register_keyboard, test_buffer, read_buffer,
           unmask_keyboard, KernelCode, SetupCode, InterruptCode, Stopped
    <2>2. handlers \in [Vectors -> {NoHandler, "timer_tick", "keyboard_handler"}]
      BY DEF InterruptInv, Types
    <2>3. 32 \in Vectors /\ 33 \in Vectors /\ 32 # 33
      BY Slots
    <2>4. CASE idt_init \/ init_timer
      BY <2>1, <2>4 DEF idt_init, init_timer
    <2>5. CASE register_timer
      BY <2>2, <2>3, <2>5 DEF register_timer
    <2>6. CASE register_keyboard \/ test_buffer \/ read_buffer \/ unmask_keyboard
      <3>1. pc \in {"register keyboard", "test buffer", "read buffer", "unmask keyboard"}
        BY <2>6 DEF register_keyboard, test_buffer, read_buffer, unmask_keyboard
      <3>2. handlers[32] = "timer_tick"
        BY <2>1, <3>1
      <3>3. handlers' = handlers
              \/ handlers' = [handlers EXCEPT ![33] = "keyboard_handler"]
        BY <2>6 DEF register_keyboard, test_buffer, read_buffer, unmask_keyboard
      <3> QED
        BY <2>2, <2>3, <3>2, <3>3
    <2> QED
      BY <1>1, <2>4, <2>5, <2>6 DEF Setup
  <1>2. CASE ~Setup
    <2>1. Place' = Place
      BY <1>2, PlaceKept
    <2>2. handlers' = handlers
      BY <1>2 DEF InterruptStep, page_fault, isr_handler, irq_handler, timer_tick,
           keyboard_handler, sendEOI, irq_stub, Tick, SendByte, Interrupt,
           SpuriousInterrupt
    <2> QED
      BY <2>1, <2>2
  <1> QED
    BY <1>1, <1>2

\* Steps beside the call: they count no tick and bring none.
LEMMA Beside ==
  ASSUME InterruptInv, SleepInv, UNCHANGED timer,
         InSleep => /\ Place' = "work"
                    /\ Coming' <=> Coming
                    /\ Counting' => Counting
                    /\ Timer \in request' <=> Timer \in request
                    /\ sleeping.at = "halted" => pc' = "work",
         sleeping.at = "woken" => Place' = "work",
         (Place \notin {"idt_init", "unmask timer", "register timer"} =>
           handlers[32] = "timer_tick")'
  PROVE  SleepInv'
  <1>1. ticks' = ticks /\ sleeping' = sleeping
    BY DEF timer
  <1>2. SleepTypes' /\ SleptEnough'
    BY <1>1 DEF SleepInv, SleepTypes, SleptEnough
  <1>3. Asleep'
    <2>1. sleeping.at \in {"not called", "test", "hlt", "halted", "woken"}
      BY DEF SleepInv, SleepTypes
    <2> QED
      BY <1>1, <2>1 DEF SleepInv, Asleep, InSleep
  <1>4. InSleep' /\ sleeping'.fits => Clocked'
    BY <1>1 DEF SleepInv, InSleep, Clocked, Slack
  <1> QED
    BY <1>2, <1>3, <1>4 DEF SleepInv

\* The steps of TimerNext that leave the timer alone.
TimerStays ==
  \/ Setup \/ SendByte
  \/ page_fault /\ ~InSleep
  \/ isr_handler \/ irq_handler \/ keyboard_handler \/ sendEOI \/ irq_stub

LEMMA StaysBeside ==
  ASSUME InterruptInv, InterruptInv', SleepInv, TimerStays, UNCHANGED timer
  PROVE  SleepInv'
  <1>1. InterruptStep
    BY DEF TimerStays, InterruptStep
  <1>2. (Place \notin {"idt_init", "unmask timer", "register timer"} =>
           handlers[32] = "timer_tick")'
    BY <1>1, HandlerStays DEF SleepInv, Asleep
  <1>3. sleeping.at # "not called" => Place = "work" /\ ~Setup
    BY DEF SleepInv, Asleep, Setup, Place, idt_init, init_timer,
           register_timer, register_keyboard, test_buffer, read_buffer,
           unmask_keyboard, KernelCode, SetupCode, InterruptCode, Stopped
  <1>4. sleeping.at # "not called" => Place' = "work"
    BY <1>1, <1>3, PlaceKept
  <1>5. ASSUME InSleep
        PROVE  /\ Coming' <=> Coming
               /\ Counting' => Counting
               /\ Timer \in request' <=> Timer \in request
               /\ sleeping.at = "halted" => pc' = "work"
    <2>0. sleeping.at # "not called"
      BY <1>5 DEF InSleep
    <2>1. CASE SendByte
      BY <2>1, TwoLines DEF SendByte, Coming, Counting, SleepInv, Asleep
    <2>2. CASE isr_handler \/ sendEOI
      BY <2>2 DEF isr_handler, sendEOI, pic, Coming, Counting, SleepInv, Asleep
    <2>3. CASE keyboard_handler
      BY <2>3, TwoLines DEF keyboard_handler, Coming, Counting, SleepInv, Asleep
    <2>4. CASE irq_stub
      <3>1. pc = "return" /\ request' = request /\ service' = service
        BY <2>4 DEF irq_stub, pic
      <3>2. service = {}
        BY <3>1 DEF InterruptInv, Nesting, Serving, InterruptCode
      <3> QED
        BY <3>1, <3>2 DEF Coming, Counting, SleepInv, Asleep
    <2>5. CASE irq_handler
      <3>1. /\ pc = "irq_handler" /\ request' = request /\ service' = service
            /\ pc' = IF handlers[IDT_num] = NoHandler THEN "sendEOI"
                     ELSE handlers[IDT_num]
        BY <2>5 DEF irq_handler, pic, IDT_num
      <3>2. Timer \in service => IDT_num = 32
        BY <3>1 DEF InterruptInv, Nesting, Serving, InterruptCode, Timer, Keyboard
      <3>3. handlers[32] = "timer_tick"
        BY <1>3, <2>0 DEF SleepInv, Asleep
      <3>4. Timer \in service => pc' = "timer_tick"
        BY <3>1, <3>2, <3>3 DEF NoHandler
      <3> QED
        BY <3>1, <3>4 DEF Coming, Counting, SleepInv, Asleep
    <2> QED
      BY <1>3, <1>5, <2>0, <2>1, <2>2, <2>3, <2>4, <2>5 DEF TimerStays
  <1>6. InSleep \/ sleeping.at = "woken" => sleeping.at # "not called"
    BY DEF InSleep
  <1> QED
    BY <1>2, <1>4, <1>5, <1>6, Beside

\* timer_tick: the tick that was coming is counted.
LEMMA Counts ==
  ASSUME InterruptInv, InterruptInv', SleepInv, CountTick
  PROVE  SleepInv'
  <1>1. InterruptStep /\ ~Setup
    BY DEF CountTick, InterruptStep, timer_tick, Setup, idt_init, init_timer,
           register_timer, register_keyboard, test_buffer, read_buffer,
           unmask_keyboard
  <1>2. (Place \notin {"idt_init", "unmask timer", "register timer"} =>
           handlers[32] = "timer_tick")'
    BY <1>1, HandlerStays DEF SleepInv, Asleep
  <1>3. Place' = Place
    BY <1>1, PlaceKept
  <1>4. /\ pc = "timer_tick" /\ pc' = "sendEOI" /\ request' = request
        /\ service' = service /\ sleeping' = sleeping
        /\ ticks' = (ticks + 1) % TICKS
    BY DEF CountTick, timer_tick, pic
  <1>5. Counting
    BY <1>4 DEF InterruptInv, Nesting, Serving, InterruptCode, Counting
  <1>6. ~Counting' /\ (Coming' <=> Timer \in request)
    BY <1>4 DEF Counting, Coming
  <1>7. Asleep'
    BY <1>2, <1>3, <1>4, <1>6 DEF SleepInv, Asleep, InSleep, Coming
  <1>8. SleepTypes'
    <2>1. ticks' \in 0 .. (TICKS - 1)
      <3>1. ticks + 1 \in Nat /\ TICKS \in Nat \ {0}
        BY Numbers, ClockAssumption DEF SleepInv
      <3> QED
        BY <1>4, <3>1
    <2> QED
      BY <1>4, <2>1 DEF SleepInv, SleepTypes
  <1>9. ASSUME InSleep, sleeping.fits PROVE Clocked'
    <2>1. Clocked /\ Coming /\ ~Coming'
      BY <1>5, <1>6, <1>9 DEF SleepInv, Asleep, Coming
    <2>2. Slack \in {0, 1, 2} /\ Slack' = Slack
      BY <1>4 DEF Slack
    <2>3. /\ ticks + 1 = (sleeping.target - sleeping.asked) + sleeping.elapsed
          /\ sleeping.elapsed <= sleeping.asked + Slack
          /\ sleeping.asked <= sleeping.target
          /\ sleeping.target + 2 < TICKS
      BY <2>1 DEF Clocked
    <2>4. ticks' = ticks + 1
      BY <1>4, <2>2, <2>3, Counted, Numbers DEF SleepInv
    <2>5. ticks' + 0 = ticks'
      BY <2>4, Numbers DEF SleepInv
    <2> QED
      BY <1>4, <2>1, <2>2, <2>3, <2>4, <2>5 DEF Clocked
  <1>10. SleptEnough'
    BY <1>4 DEF SleepInv, SleptEnough
  <1> QED
    BY <1>4, <1>7, <1>8, <1>9, <1>10 DEF SleepInv, InSleep

\* A tick of the timer: while the call lasts none is coming at that moment.
LEMMA Ticks ==
  ASSUME InterruptInv, InterruptInv', SleepInv, TickInTime
  PROVE  SleepInv'
  <1>1. InterruptStep /\ ~Setup
    BY DEF TickInTime, InterruptStep, Tick, Setup, idt_init, init_timer,
           register_timer, register_keyboard, test_buffer, read_buffer,
           unmask_keyboard
  <1>2. (Place \notin {"idt_init", "unmask timer", "register timer"} =>
           handlers[32] = "timer_tick")'
    BY <1>1, HandlerStays DEF SleepInv, Asleep
  <1>3. Place' = Place
    BY <1>1, PlaceKept
  <1>4. /\ pc' = pc /\ service' = service /\ request' = request \cup {Timer}
        /\ ticks' = ticks
    BY DEF TickInTime, Tick
  <1>5. CASE ~InSleep
    <2>1. sleeping' = sleeping
      BY <1>5 DEF TickInTime
    <2>2. SleepTypes' /\ SleptEnough'
      BY <1>4, <2>1 DEF SleepInv, SleepTypes, SleptEnough
    <2> QED
      BY <1>2, <1>3, <1>4, <1>5, <2>1, <2>2 DEF SleepInv, Asleep, InSleep
  <1>6. CASE InSleep
    <2>1. ~Coming
      <3>1. Timer \notin request /\ (sleeping.stepped \/ sleeping.at = "halted")
        BY <1>6 DEF TickInTime
      <3>2. CASE sleeping.stepped
        BY <1>6, <3>2 DEF SleepInv, Asleep
      <3>3. CASE sleeping.at = "halted"
        <4>1. pc = "work"
          BY <3>3 DEF SleepInv, Asleep
        <4> QED
          BY <3>1, <4>1 DEF Coming, Counting
      <3> QED
        BY <3>1, <3>2, <3>3
    <2>2. sleeping' =
            [sleeping EXCEPT !.stepped = FALSE,
               !.elapsed = IF sleeping.fits /\ @ < TICKS THEN @ + 1 ELSE @]
      BY <1>6 DEF TickInTime
    <2>3. /\ sleeping'.at = sleeping.at /\ sleeping'.target = sleeping.target
          /\ sleeping'.fits = sleeping.fits /\ sleeping'.asked = sleeping.asked
          /\ sleeping'.stepped = FALSE
          /\ sleeping'.elapsed = IF sleeping.fits /\ sleeping.elapsed < TICKS
                                 THEN sleeping.elapsed + 1 ELSE sleeping.elapsed
      BY <2>2 DEF SleepInv, SleepTypes
    <2>4. SleepTypes'
      <3>1. sleeping'.elapsed \in Nat
        BY <2>3, Numbers DEF SleepInv
      <3> QED
        BY <1>4, <2>2, <2>3, <3>1 DEF SleepInv, SleepTypes
    <2>5. Coming' /\ ~Counting' /\ InSleep' /\ sleeping.at # "woken"
      BY <1>4, <1>6, <2>1, <2>3 DEF Coming, Counting, InSleep
    <2>6. Asleep'
      BY <1>2, <1>3, <1>4, <1>6, <2>3, <2>5 DEF SleepInv, Asleep, InSleep
    <2>7. ASSUME sleeping.fits PROVE Clocked'
      <3>1. Clocked
        BY <1>6, <2>7 DEF SleepInv
      <3>2. /\ ticks + 0 = (sleeping.target - sleeping.asked) + sleeping.elapsed
            /\ sleeping.elapsed <= sleeping.asked + Slack
            /\ sleeping.asked <= sleeping.target
            /\ sleeping.target + 2 < TICKS
        BY <2>1, <3>1 DEF Clocked
      <3>3. sleeping.stepped
        BY <1>6 DEF TickInTime, SleepInv, Asleep
      <3>4. Slack \in {0, 1} /\ Slack' = Slack + 1
        <4>1. CASE sleeping.at = "hlt"
          <5>1. Slack = 0 /\ Slack' = 1
            BY <2>3, <3>3, <4>1 DEF Slack
          <5> QED
            BY <5>1
        <4>2. CASE sleeping.at # "hlt"
          <5>1. Slack = 1 /\ Slack' = 2
            BY <2>3, <3>3, <4>2 DEF Slack
          <5> QED
            BY <5>1
        <4> QED
          BY <4>1, <4>2
      <3>5. sleeping.elapsed < TICKS
        BY <3>2, <3>4, Numbers DEF SleepInv
      <3>6. sleeping'.elapsed = sleeping.elapsed + 1
        BY <2>3, <2>7, <3>5
      <3>7. ticks + 1 = (sleeping.target - sleeping.asked) + (sleeping.elapsed + 1)
        BY <3>2, Numbers DEF SleepInv
      <3>8. sleeping.elapsed + 1 <= sleeping.asked + (Slack + 1)
        BY <3>2, <3>4, Numbers DEF SleepInv
      <3> QED
        BY <1>4, <2>3, <2>5, <3>2, <3>4, <3>6, <3>7, <3>8 DEF Clocked
    <2> QED
      BY <2>3, <2>4, <2>5, <2>6, <2>7 DEF SleepInv, SleptEnough, InSleep
  <1> QED
    BY <1>5, <1>6

\* An interrupt: a tick that was requested is now being handled, and hlt ends.
LEMMA Wakes ==
  ASSUME InterruptInv, InterruptInv', SleepInv, Wake
  PROVE  SleepInv'
  <1>1. InterruptStep /\ ~Setup
    <2>1. InterruptStep
      BY DEF Wake, InterruptStep
    <2>2. pc' = "irq_handler"
      BY DEF Wake, Interrupt, SpuriousInterrupt, Enter
    <2> QED
      BY <2>1, <2>2 DEF Setup, idt_init, init_timer, register_timer,
           register_keyboard, test_buffer, read_buffer, unmask_keyboard
  <1>2. (Place \notin {"idt_init", "unmask timer", "register timer"} =>
           handlers[32] = "timer_tick")'
    BY <1>1, HandlerStays DEF SleepInv, Asleep
  <1>3. Place' = Place
    BY <1>1, PlaceKept
  <1>4. /\ ticks' = ticks /\ flag /\ pc' = "irq_handler"
        /\ sleeping' = [sleeping EXCEPT !.at = IF @ = "halted" THEN "test" ELSE @]
    BY DEF Wake, Interrupt, SpuriousInterrupt, Enter
  <1>5. service = {}
    BY <1>4 DEF InterruptInv, Types, Nesting
  <1>6. /\ Counting' => Timer \in request /\ Timer \notin request'
        /\ Coming' <=> Coming
    <2>1. CASE Interrupt(Timer)
      BY <1>4, <1>5, <2>1 DEF Interrupt, Presented, Counting, Coming
    <2>2. CASE Interrupt(Keyboard) \/ SpuriousInterrupt
      BY <1>4, <1>5, <2>2, TwoLines DEF Interrupt, SpuriousInterrupt, Counting, Coming
    <2> QED
      BY <2>1, <2>2 DEF Wake
  <1>7. /\ sleeping'.at = IF sleeping.at = "halted" THEN "test" ELSE sleeping.at
        /\ sleeping'.target = sleeping.target /\ sleeping'.asked = sleeping.asked
        /\ sleeping'.fits = sleeping.fits /\ sleeping'.stepped = sleeping.stepped
        /\ sleeping'.elapsed = sleeping.elapsed
    BY <1>4 DEF SleepInv, SleepTypes
  <1>8. SleepTypes'
    BY <1>4 DEF SleepInv, SleepTypes
  <1>9. Asleep'
    BY <1>2, <1>3, <1>6, <1>7 DEF SleepInv, Asleep, InSleep
  <1>10. ASSUME InSleep', sleeping'.fits PROVE Clocked'
    <2>1. Clocked
      BY <1>7, <1>10 DEF SleepInv, InSleep
    <2>2. Slack' = Slack
      BY <1>7 DEF Slack
    <2> QED
      BY <1>4, <1>6, <1>7, <2>1, <2>2 DEF Clocked
  <1>11. SleptEnough'
    BY <1>7 DEF SleepInv, SleptEnough
  <1> QED
    BY <1>8, <1>9, <1>10, <1>11 DEF SleepInv

\* The loop of sleep: it goes on where no tick is coming.
LEMMA Loops ==
  ASSUME InterruptInv, SleepInv, SleepCode
  PROVE  SleepInv'
  <1>1. /\ Going /\ InSleep /\ UNCHANGED <<vars, ticks>>
        /\ sleeping.at \in {"test", "hlt"}
        /\ \/ /\ sleeping.at = "test" /\ ticks <= sleeping.target
              /\ sleeping' = [sleeping EXCEPT !.stepped = TRUE, !.at = "hlt"]
           \/ /\ sleeping.at = "test" /\ ~(ticks <= sleeping.target)
              /\ sleeping' = [sleeping EXCEPT !.stepped = TRUE, !.at = "woken"]
           \/ /\ sleeping.at = "hlt"
              /\ sleeping' = [sleeping EXCEPT !.at = "halted", !.stepped = TRUE]
    BY DEF SleepCode, TestTicks, Halt, InSleep
  <1>2. /\ sleeping'.stepped = TRUE
        /\ sleeping'.target = sleeping.target /\ sleeping'.asked = sleeping.asked
        /\ sleeping'.fits = sleeping.fits /\ sleeping'.elapsed = sleeping.elapsed
        /\ sleeping'.at \in {"hlt", "woken", "halted"}
        /\ sleeping.at = "test" /\ ticks <= sleeping.target <=> sleeping'.at = "hlt"
        /\ sleeping.at = "test" /\ ~(ticks <= sleeping.target) <=> sleeping'.at = "woken"
        /\ sleeping.at = "hlt" <=> sleeping'.at = "halted"
    <2> DEFINE late == ~(ticks <= sleeping.target)
    <2>1. late <=> ~(ticks <= sleeping.target)
      OBVIOUS
    <2> HIDE DEF late
    <2> QED
      BY <1>1, <2>1 DEF SleepInv, SleepTypes
  <1>3. SleepTypes'
    <2>1. ticks' = ticks
      BY <1>1
    <2>2. \E v \in {"hlt", "woken", "halted"} :
            sleeping' = [sleeping EXCEPT !.stepped = TRUE, !.at = v]
      BY <1>1 DEF SleepInv, SleepTypes
    <2> QED
      BY <2>1, <2>2 DEF SleepInv, SleepTypes
  <1>4. /\ UNCHANGED <<pc, stack, handlers, request, service, ticks>>
        /\ pc = "work" /\ Timer \notin request
    BY <1>1 DEF vars, Going
  <1>5. ~Counting /\ ~Coming /\ ~Counting' /\ ~Coming'
    BY <1>4 DEF Counting, Coming
  <1>6. Place = "work" /\ Place' = "work"
    BY <1>4 DEF Place, InterruptCode, Stopped
  <1>7. Asleep'
    BY <1>2, <1>4, <1>5, <1>6 DEF SleepInv, Asleep, InSleep
  <1>8. ASSUME sleeping.fits
        PROVE  /\ ticks = (sleeping.target - sleeping.asked) + sleeping.elapsed
               /\ sleeping.elapsed <= sleeping.asked + Slack
               /\ sleeping.asked <= sleeping.target
               /\ sleeping.target + 2 < TICKS
    <2>1. Clocked
      BY <1>1, <1>8 DEF SleepInv
    <2>2. ticks + 0 = (sleeping.target - sleeping.asked) + sleeping.elapsed
      BY <1>5, <2>1 DEF Clocked
    <2>3. ticks + 0 = ticks
      BY Numbers DEF SleepInv
    <2> QED
      BY <2>1, <2>2, <2>3 DEF Clocked
  <1>9. ASSUME InSleep', sleeping'.fits PROVE Clocked'
    <2>1. sleeping.fits
      BY <1>2, <1>9
    <2>2. sleeping.elapsed <= sleeping.asked + Slack'
      <3>1. CASE sleeping'.at = "hlt"
        <4>1. ticks <= sleeping.target /\ Slack' = 0
          BY <1>2, <3>1 DEF Slack
        <4> QED
          BY <1>8, <2>1, <4>1, Numbers DEF SleepInv
      <3>2. CASE sleeping'.at = "halted"
        <4>1. sleeping.at = "hlt" /\ Slack' = 1 /\ Slack \in {0, 1}
          BY <1>2, <3>2 DEF Slack
        <4>2. Slack' = 1 /\ Slack \in {0, 1}
          BY <4>1
        <4> QED
          BY <1>8, <2>1, <4>2, Numbers DEF SleepInv
      <3> QED
        BY <1>2, <1>9, <3>1, <3>2 DEF InSleep
    <2>3. ticks' + 0 = ticks
      BY <1>4, Numbers DEF SleepInv
    <2>4. (IF Coming THEN 1 ELSE 0)' = 0
      BY <1>5
    <2> QED
      BY <1>2, <1>8, <2>1, <2>2, <2>3, <2>4 DEF Clocked
  <1>10. SleptEnough'
    <2> SUFFICES ASSUME sleeping'.at = "woken", sleeping'.fits
                 PROVE  sleeping.elapsed \in (sleeping.asked + 1) .. (sleeping.asked + 2)
      BY <1>2 DEF SleptEnough
    <2>1. sleeping.at = "test" /\ ~(ticks <= sleeping.target) /\ sleeping.fits
      BY <1>2
    <2>2. Slack \in {1, 2}
      BY <2>1 DEF Slack
    <2>3. ~(ticks <= sleeping.target) /\ sleeping.fits
      BY <2>1
    <2> QED
      BY <1>8, <2>2, <2>3, Numbers DEF SleepInv
  <1> QED
    BY <1>3, <1>7, <1>9, <1>10 DEF SleepInv

\* The call: where no tick is coming the target is as far off as asked for.
LEMMA Calls ==
  ASSUME InterruptInv, SleepInv, NEW ms \in 0 .. (TICKS - 1), Sleep(ms)
  PROVE  SleepInv'
  <1> DEFINE product == ms * CLOCKS_PER_SECOND
             periods == product \div MS
             fits == product < TICKS /\ ticks + periods + 2 < TICKS
             target == (ticks + ((product % TICKS) \div MS)) % TICKS
  <1>1. /\ Going /\ UNCHANGED <<vars, ticks>> /\ sleeping.at = "not called"
        /\ sleeping' = [sleeping EXCEPT !.at = "test", !.fits = fits,
                          !.asked = IF fits THEN periods ELSE 0,
                          !.target = target]
    BY Zenon DEF Sleep
  <1>2. product \in Nat /\ MS \in Nat \ {0} /\ TICKS \in Nat \ {0}
    <2>1. ms \in Nat /\ CLOCKS_PER_SECOND \in Nat /\ MS \in Nat \ {0} /\ TICKS \in Nat \ {0}
      BY ClockAssumption
    <2> QED
      BY <2>1
  <1>3. periods \in Nat /\ target \in Nat
    BY <1>2, Numbers DEF SleepInv
  <1>4. fits => target = ticks + periods
    <2>1. ticks \in Nat /\ TICKS \in Nat
      BY Numbers DEF SleepInv
    <2> HIDE DEF product
    <2>2. SUFFICES ASSUME product < TICKS, ticks + (product \div MS) + 2 < TICKS
                   PROVE  target = ticks + (product \div MS)
      BY Zenon
    <2>3. product % TICKS = product
      BY ONLY <1>2, <2>1, <2>2
    <2>4. product \div MS \in Nat
      BY ONLY <1>2, <2>1
    <2> DEFINE n == product \div MS
    <2> HIDE DEF n
    <2>5. (ticks + n) % TICKS = ticks + n
      BY ONLY <2>1, <2>2, <2>4 DEF n
    <2> QED
      BY ONLY <2>3, <2>5, Zenon DEF n
  <1>5. fits => ticks + periods + 2 < TICKS
    BY Zenon
  <1>6. fits \in BOOLEAN
    BY Zenon
  <1> HIDE DEF product, periods, fits, target
  <1>7. /\ sleeping'.at = "test" /\ sleeping'.target = target
        /\ sleeping'.fits = fits /\ sleeping'.asked = IF fits THEN periods ELSE 0
        /\ sleeping'.elapsed = sleeping.elapsed
        /\ sleeping'.stepped = sleeping.stepped
    BY <1>1 DEF SleepInv, SleepTypes
  <1>8. SleepTypes'
    <2>1. ticks' = ticks /\ (IF fits THEN periods ELSE 0) \in Nat
      BY <1>1, <1>3
    <2> QED
      BY <1>1, <1>3, <1>6, <2>1 DEF SleepInv, SleepTypes
  <1>9. /\ UNCHANGED <<pc, stack, handlers, request, service, ticks>>
        /\ pc = "work" /\ Timer \notin request
    BY <1>1 DEF vars, Going
  <1>10. ~Counting' /\ ~Coming'
    BY <1>9 DEF Counting, Coming
  <1>11. Place = "work" /\ Place' = "work"
    BY <1>9 DEF Place, InterruptCode, Stopped
  <1>12. sleeping.elapsed = 0 /\ sleeping.stepped
    BY <1>1 DEF SleepInv, Asleep
  <1>13. Asleep'
    BY <1>7, <1>9, <1>10, <1>11, <1>12 DEF SleepInv, Asleep, InSleep
  <1>14. ASSUME sleeping'.fits PROVE Clocked'
    <2>1. /\ sleeping'.asked = periods /\ sleeping'.target = ticks + periods
          /\ sleeping'.elapsed = 0 /\ ticks' = ticks /\ fits
      BY <1>4, <1>7, <1>9, <1>12, <1>14
    <2>2. Slack' = 1
      BY <1>7, <1>12 DEF Slack
    <2>3. (IF Coming THEN 1 ELSE 0)' = 0
      BY <1>10
    <2>4. /\ periods <= ticks + periods
          /\ (ticks + periods) + 2 < TICKS
          /\ ticks + 0 = ((ticks + periods) - periods) + 0
          /\ 0 <= periods + 1
      BY <1>3, <1>5, <2>1, Numbers DEF SleepInv
    <2> QED
      BY <2>1, <2>2, <2>3, <2>4 DEF Clocked
  <1>15. SleptEnough'
    BY <1>7 DEF SleptEnough
  <1> QED
    BY <1>8, <1>13, <1>14, <1>15 DEF SleepInv

-----------------------------------------------------------------------------
(***************************************************************************)
(* Theorems                                                                *)
(***************************************************************************)

\* Every step of the machine is one of those above.
LEMMA SleepSteps ==
  ASSUME InterruptInv, InterruptInv', SleepInv, KernelNext
  PROVE  SleepInv'
  <1>1. CASE UNCHANGED <<vars, timer>>
    <2>1. SleepInv' <=> SleepInv
      BY <1>1 DEF vars, timer, SleepInv, SleepTypes, Asleep, InSleep, Clocked, Slack,
                  Coming, Counting, Place, SleptEnough
    <2> QED
      BY <2>1
  <1>2. CASE TimerNext
    <2>1. CASE TimerStays /\ UNCHANGED timer
      BY <2>1, StaysBeside
    <2>2. CASE CountTick \/ TickInTime \/ Wake \/ SleepCode
              \/ \E ms \in 0 .. (TICKS - 1) : Sleep(ms)
      BY <2>2, Counts, Ticks, Wakes, Loops, Calls
    <2>3. \/ TimerStays /\ UNCHANGED timer
          \/ CountTick \/ TickInTime \/ Wake \/ SleepCode
          \/ \E ms \in 0 .. (TICKS - 1) : Sleep(ms)
      BY <1>2 DEF TimerNext, TimerHandling, TimerStays
    <2> QED
      BY <2>1, <2>2, <2>3
  <1> QED
    BY <1>1, <1>2 DEF KernelNext

(***************************************************************************)
(* The counter and the call of sleep at every moment: what the counter has *)
(* gained since the call, and how many ticks it may lag behind the timer.  *)
(***************************************************************************)
THEOREM SleepInductive == KernelSpec => []SleepInv
  <1>1. KernelInit => SleepInv
    <2> SUFFICES ASSUME TimerInit PROVE SleepInv
      BY DEF KernelInit
    <2>1. ticks = 0 /\ sleeping = [at |-> "not called", target |-> 0, fits |-> TRUE,
                                   asked |-> 0, elapsed |-> 0, stepped |-> TRUE]
      BY DEF TimerInit
    <2>2. ticks \in 0 .. (TICKS - 1)
      <3>1. TICKS \in Nat \ {0}
        BY ClockAssumption
      <3>2. 0 \in 0 .. (TICKS - 1)
        BY <3>1
      <3> QED
        BY <2>1, <3>2, Zenon
    <2>3. SleepTypes
      BY <2>1, <2>2 DEF SleepTypes
    <2>4. Place = "idt_init"
      BY DEF TimerInit, Init, Place, InterruptCode, Stopped
    <2> QED
      BY <2>1, <2>3, <2>4 DEF SleepInv, Asleep, InSleep, SleptEnough
  <1>2. InterruptInv /\ InterruptInv' /\ SleepInv /\ [KernelNext]_kvars => SleepInv'
    <2>1. ASSUME SleepInv, UNCHANGED <<vars, timer>> PROVE SleepInv'
      BY <2>1 DEF vars, timer, SleepInv, SleepTypes, Asleep, InSleep, Clocked, Slack,
                  Coming, Counting, Place, SleptEnough
    <2> QED
      BY <2>1, SleepSteps DEF kvars
  <1> QED
    BY <1>1, <1>2, InterruptsInductive, PTL DEF KernelSpec

(***************************************************************************)
(* sleep takes at least the periods it was asked for and begins at most    *)
(* one more than it needs to be sure of that, whatever interrupts come     *)
(* between its test and hlt, as long as the numbers fit their type.        *)
(***************************************************************************)
THEOREM SleepLongEnough == KernelSpec => []SleptEnough
  BY SleepInductive, PTL DEF SleepInv

=============================================================================
