-------------------------------- MODULE Boot --------------------------------
(***************************************************************************)
(* From the boot loader to interrupts: _start of boot.S builds a page      *)
(* table, turns paging on and moves to the high half, and gdt_init sets up *)
(* the segments.  A page is known by its entries <<directory, table>>.     *)
(*                                                                         *)
(* The processor may keep any translation it could have used (tlb), and    *)
(* forgets them all when CR3 is written.                                   *)
(***************************************************************************)
EXTENDS Integers, Sequences

CONSTANTS
  ENTRIES,       \* entries of a page table
  HIGH,          \* the directory entry of VIRTUAL_KERNEL_OFFSET
  VIDEO,         \* the frame of video memory
  BOOT, TEXT,    \* the frames of .text.initBoot and of .text
  TSS            \* the address of TSS, its four bytes

ASSUME FramesAssumption ==
  /\ ENTRIES \in Nat /\ HIGH \in Nat \ {0}
  /\ {VIDEO, BOOT, TEXT} \subseteq 0 .. (ENTRIES - 2)
  /\ TSS \in [1 .. 4 -> 0 .. 255]

VARIABLES
  at,           \* what the processor executes next
  table,        \* boot_page_table1: the frames its entries map
  directory,    \* boot_page_directory: the entries that hold the table
  esi, ecx,     \* the frame of the next entry, and how many are left
  paging,       \* the bit in CR0
  tlb,          \* translations the processor remembers
  segments      \* the descriptors behind CS, the data segments and TR

boot == <<at, table, directory, esi, ecx, paging, tlb, segments>>

Absent == -1
LAST == ENTRIES - 1

\* What a walk of the tables finds for every page.
Walk == {<<d, t, table[t]>> : d \in directory,
                              t \in {s \in 0 .. LAST : table[s] # Absent}}

\* Frames an access to a page may reach.
Reach(page) == {w[3] : w \in {v \in Walk \cup tlb : <<v[1], v[2]>> = page}}

BootInit ==
  /\ at = "fill"
  /\ table = [t \in 0 .. LAST |-> Absent]
  /\ directory = {}
  /\ esi = 0
  /\ ecx = LAST
  /\ paging = FALSE
  /\ tlb = {}
  /\ segments = [cs |-> <<>>, data |-> <<>>, tr |-> <<>>]

\* loop 1b: the entries follow one another as the frames do.
FillEntry ==
  /\ at = "fill"
  /\ table' = [table EXCEPT ![esi] = esi]
  /\ esi' = esi + 1
  /\ ecx' = ecx - 1
  /\ at' = IF ecx' = 0 THEN "enable" ELSE "fill"
  /\ UNCHANGED <<directory, paging, tlb, segments>>

\* Video memory and the two directory entries; CR3 and CR0.
EnablePaging ==
  /\ at = "enable"
  /\ table' = [table EXCEPT ![LAST] = VIDEO]
  /\ directory' = {0, HIGH}
  /\ paging' = TRUE
  /\ at' = "jump"
  /\ UNCHANGED <<esi, ecx, tlb, segments>>

Jump ==
  /\ at = "jump"
  /\ at' = "unmap"
  /\ UNCHANGED <<table, directory, esi, ecx, paging, tlb, segments>>

\* Mutant: the high entry is the one that goes.
RemoveLow_High ==
  /\ at = "unmap"
  /\ directory' = directory \ {HIGH}
  /\ at' = "reload"
  /\ UNCHANGED <<table, esi, ecx, paging, tlb, segments>>

RemoveLow ==
  /\ at = "unmap"
  /\ directory' = directory \ {0}
  /\ at' = "reload"
  /\ UNCHANGED <<table, esi, ecx, paging, tlb, segments>>

\* Mutant: the directory's register is not written again.
ReloadCR3_Not ==
  /\ at = "reload"
  /\ at' = "gdt_init"
  /\ UNCHANGED <<table, directory, esi, ecx, paging, tlb, segments>>

\* After it the stack is set up and kernel_main is called.
ReloadCR3 ==
  /\ at = "reload"
  /\ tlb' = {}
  /\ at' = "gdt_init"
  /\ UNCHANGED <<table, directory, esi, ecx, paging, segments>>

\* The processor may fetch translations into the TLB whenever it likes.
Remember ==
  /\ paging
  /\ at \in {"jump", "unmap", "reload"}
  /\ \E w \in Walk : tlb' = tlb \cup {w}
  /\ UNCHANGED <<at, table, directory, esi, ecx, paging, segments>>

-----------------------------------------------------------------------------
(***************************************************************************)
(* gdt.c and loadGDT.S.  A number of 32 bits is its bytes, the low first.  *)
(***************************************************************************)

All == <<255, 255, 255, 255>>
Zero == <<0, 0, 0, 0>>

\* struct gdtEntry, packed: its eight bytes in memory.
gdtEntry(e) ==
  e.limitLow \o e.baseLow \o <<e.baseMid, e.type, e.limitHigh_flags, e.baseHigh>>

\* Mutant: = instead of |= for the flags.
gdt_create_entry_Assign(base, limit, type, flags) ==
  gdtEntry([baseLow |-> SubSeq(base, 1, 2), baseMid |-> base[3],
            baseHigh |-> base[4], limitLow |-> SubSeq(limit, 1, 2),
            limitHigh_flags |-> flags, type |-> type])

gdt_create_entry(base, limit, type, flags) ==
  gdtEntry([baseLow |-> SubSeq(base, 1, 2), baseMid |-> base[3],
            baseHigh |-> base[4], limitLow |-> SubSeq(limit, 1, 2),
            limitHigh_flags |-> (limit[3] % 16) + flags, type |-> type])

\* struct TSS_segment: 26 words of 4 bytes, some of them in two halves.
sizeofTSS == 26 * 4

GDT_entries ==
  [n \in 0 .. 5 |->
     CASE n = 0 -> gdt_create_entry(Zero, Zero, 0, 0)
       [] n = 1 -> gdt_create_entry(Zero, All, 154, 192)
       [] n = 2 -> gdt_create_entry(Zero, All, 146, 192)
       [] n = 3 -> gdt_create_entry(Zero, All, 250, 192)
       [] n = 4 -> gdt_create_entry(Zero, All, 242, 192)
       [] n = 5 -> gdt_create_entry(TSS, <<sizeofTSS - 1, 0, 0, 0>>, 137, 16)]

\* gdt_init, and load_gdt with the selectors it loads.
gdt_init ==
  /\ at = "gdt_init"
  /\ segments' = [cs   |-> GDT_entries[8 \div 8],
                  data |-> GDT_entries[16 \div 8],
                  tr   |-> GDT_entries[40 \div 8]]
  /\ at' = "idt_init"
  /\ UNCHANGED <<table, directory, esi, ecx, paging, tlb>>

BootNext ==
  \/ FillEntry \/ EnablePaging \/ Jump \/ RemoveLow \/ ReloadCR3 \/ Remember
  \/ gdt_init

-----------------------------------------------------------------------------
(***************************************************************************)
(* Properties                                                              *)
(***************************************************************************)

CodePage ==
  IF at = "jump" THEN <<0, BOOT>> ELSE <<HIGH, TEXT>>

(***************************************************************************)
(* From the moment paging is on, the next instruction is where the tables  *)
(* and the TLB say it is, first in the low half and then in the high one   *)
(* (the order of the end of _start).                                       *)
(***************************************************************************)
CodeMapped ==
  paging => Reach(CodePage) = {CodePage[2]}

(***************************************************************************)
(* When kernel_main runs, the high half is all memory up to the last page, *)
(* which is video memory's, and no other address is mapped, not even by a  *)
(* translation remembered from before: module Interrupts relies on the     *)
(* fault at a physical address.                                            *)
(***************************************************************************)
HighHalf ==
  at \in {"gdt_init", "idt_init"} =>
    /\ \A t \in 0 .. (LAST - 1) : Reach(<<HIGH, t>>) = {t}
    /\ Reach(<<HIGH, LAST>>) = {VIDEO}
    /\ \A t \in 0 .. LAST : Reach(<<0, t>>) = {}

\* What the processor makes of a descriptor.
BaseOf(d) == <<d[3], d[4], d[5], d[8]>>
LimitOf(d) == <<d[1], d[2], d[7] % 16>>
Granular(d) == d[7] >= 128
Wide(d) == (d[7] \div 64) % 2 = 1

(***************************************************************************)
(* As the processor decodes them, the kernel's segments are present, of    *)
(* ring 0 and cover all memory from 0, code to run and data to write, and  *)
(* the task register has an available TSS of 104 bytes at its place        *)
(* (gdt_create_entry and gdt_init).                                        *)
(***************************************************************************)
Flat ==
  at = "idt_init" =>
    /\ \A d \in {segments.cs, segments.data} :
         /\ BaseOf(d) = Zero /\ LimitOf(d) = <<255, 255, 15>>
         /\ Granular(d) /\ Wide(d)
    /\ segments.cs[6] = 16 * 9 + 8 + 2
    /\ segments.data[6] = 16 * 9 + 2
    /\ BaseOf(segments.tr) = TSS /\ LimitOf(segments.tr) = <<103, 0, 0>>
    /\ ~Granular(segments.tr) /\ segments.tr[6] = 16 * 8 + 9

=============================================================================
