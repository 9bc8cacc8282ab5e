-------------------------------- MODULE PMM --------------------------------
(***************************************************************************)
(* The physical memory manager of LumOS, lumos/arch/i386/pmm.c: init_pmm,  *)
(* pmm_alloc and pmm_free, and a caller that uses them as kernel_main      *)
(* does: it frees what pmm_alloc gave it, and never tests a result for     *)
(* NULL before it passes it on.                                            *)
(*                                                                         *)
(* The zones live in one stretch of memory that starts at _kernel_end: a   *)
(* header (struct pm_zone_t), the words of its bitmap, the next header,    *)
(* its bitmap, and so on.  A zone's bitmap is modelled as the set of the   *)
(* bit offsets that are 1.  pmm_free may address a bit outside the bitmap  *)
(* it meant, so the position of every bitmap in that stretch is kept.  A   *)
(* block is named by its zone and its offset: a frame <<k, i>>.            *)
(***************************************************************************)
EXTENDS Integers, Sequences, FiniteSets

CONSTANTS
  BLOCK_SIZE,     \* bytes in a block
  WORD,           \* bits in a word of a bitmap
  WORD_BYTES,     \* bytes in a word of a bitmap
  HEADER_WORDS,   \* words in a struct pm_zone_t
  ADDRESSES,      \* how many values a uint32_t has
  KERNEL_START,   \* physical address of _kernel_start
  KERNEL_END,     \* physical address of _kernel_end
  Maps            \* the memory maps the boot loader may pass; valid: the
                  \* flags have MBT_FLAG_IS_MMAP, sections: the entries

uint32 == 0 .. (ADDRESSES - 1)

\* An entry of the memory map.
Section ==
  [base_low : uint32, base_high : uint32, length_low : uint32, type : uint32]

(***************************************************************************)
(* A section that init_pmm makes a zone of.  length_high is never read.    *)
(***************************************************************************)
Available(s) == ~(s.base_low = 0 /\ s.base_high # 0) /\ s.type = 1

ASSUME SizesAssumption ==
  /\ BLOCK_SIZE \in Nat \ {0}
  /\ WORD \in Nat \ {0}
  /\ WORD_BYTES \in Nat \ {0}
  /\ HEADER_WORDS \in Nat \ {0}
  /\ ADDRESSES \in Nat \ {0}
  /\ KERNEL_START \in Nat
  /\ KERNEL_END \in Nat
  /\ KERNEL_START < KERNEL_END

\* An available section ends inside the 32-bit address space.
ASSUME MapsAssumption ==
  \A m \in Maps :
    /\ DOMAIN m = {"valid", "sections"}
    /\ m.valid \in BOOLEAN
    /\ m.sections \in Seq(Section)
    /\ \A n \in DOMAIN m.sections : Available(m.sections[n]) =>
         m.sections[n].base_low + m.sections[n].length_low <= ADDRESSES

VARIABLES
  mmap,     \* the memory map of this boot
  zones,    \* the list that starts at memory_zones
  pc,       \* how far init_pmm is
  cursor,   \* the section, then the zone, that init_pmm's loop is at
  held,     \* the frames the caller holds
  ret,      \* the outcome of the last pmm_alloc
  damage    \* what a write outside its own bitmap has hit so far

vars == <<mmap, zones, pc, cursor, held, ret, damage>>

NoCall == <<0, 0>>
NoFreeZone == <<0, 1>>     \* NULL: "no free zones"
NoFreeWord == <<0, 2>>     \* NULL: "no free words in zone"
Nulls == {NoFreeZone, NoFreeWord}

-----------------------------------------------------------------------------
(***************************************************************************)
(* Arithmetic and bitmaps                                                  *)
(***************************************************************************)

CEIL(x, y) == (x \div y) + (IF x % y # 0 THEN 1 ELSE 0)
MIN(x, y) == IF x < y THEN x ELSE y
MAX(x, y) == IF x > y THEN x ELSE y

GET_OFFSET(start, target) == ((target - start) % ADDRESSES) \div BLOCK_SIZE
GET_ADDRESS(start, offset) == (offset * BLOCK_SIZE) + start

\* Mutant: the last bit is exclusive.
set_bits_Exclusive(bits, first, last) == bits \cup (first .. (last - 1))

\* Module BitmapLoops has the loops and shows that they compute these.
set_bits(bits, first, last) == bits \cup (first .. last)
unset_bits(bits, first, last) == bits \ (first .. last)

Offsets(z) == 0 .. (z.bitmapWords * WORD - 1)
Frames == UNION {{k} \X Offsets(zones[k]) : k \in DOMAIN zones}
Address(f) == GET_ADDRESS(zones[f[1]].start, f[2])

\* The words from _kernel_end that the zones take up: pmm_structures_size.
StructureWords ==
  IF zones = <<>> THEN 0
  ELSE LET z == zones[Len(zones)] IN z.bitmap + z.bitmapWords

\* The physical addresses resStart and resEnd, both reserved.
resStart == KERNEL_START
resEnd == KERNEL_END - 1 + StructureWords * WORD_BYTES

-----------------------------------------------------------------------------
(***************************************************************************)
(* init_pmm                                                                *)
(***************************************************************************)

Init ==
  /\ mmap \in Maps
  /\ zones = <<>>
  /\ pc = "scan"
  /\ cursor = 1
  /\ held = {}
  /\ ret = NoCall
  /\ damage = "none"

AtSection ==
  /\ pc = "scan"
  /\ mmap.valid
  /\ cursor \in DOMAIN mmap.sections

\* The flags promise no memory map: abort.
NoMemoryMap ==
  /\ pc = "scan"
  /\ ~mmap.valid
  /\ pc' = "abort"
  /\ UNCHANGED <<mmap, zones, cursor, held, ret, damage>>

SkipSection ==
  /\ AtSection
  /\ ~Available(mmap.sections[cursor])
  /\ cursor' = cursor + 1
  /\ UNCHANGED <<mmap, zones, pc, held, ret, damage>>

\* Mutant: the bits past the last block are not set.
NewZone_NoPadding(s, garbage) ==
  LET length == s.length_low \div BLOCK_SIZE
      words  == CEIL(length, WORD)
      free   == unset_bits(garbage, 0, words * WORD - 1)
  IN [start       |-> s.base_low,
      end         |-> s.base_low + s.length_low - 1,
      length      |-> length,
      free        |-> length,
      bitmapWords |-> words,
      bitmap      |-> StructureWords + HEADER_WORDS,
      bits        |-> IF s.base_low = 0 THEN free \cup {0} ELSE free]

\* Mutant: the partial block at the end of a section counts as a block.
NewZone_RoundUp(s, garbage) ==
  LET length == CEIL(s.length_low, BLOCK_SIZE)
      words  == CEIL(length, WORD)
      free   == unset_bits(garbage, 0, length - 1)
      padded == set_bits(free, length, words * WORD - 1)
  IN [start       |-> s.base_low,
      end         |-> s.base_low + s.length_low - 1,
      length      |-> length,
      free        |-> length,
      bitmapWords |-> words,
      bitmap      |-> StructureWords + HEADER_WORDS,
      bits        |-> IF s.base_low = 0 THEN padded \cup {0} ELSE padded]

\* The zone made of a section, over whatever the memory held before.
NewZone(s, garbage) ==
  LET length == s.length_low \div BLOCK_SIZE
      words  == CEIL(length, WORD)
      free   == unset_bits(garbage, 0, length - 1)
      padded == set_bits(free, length, words * WORD - 1)
  IN [start       |-> s.base_low,
      end         |-> s.base_low + s.length_low - 1,
      length      |-> length,
      free        |-> length,
      bitmapWords |-> words,
      bitmap      |-> StructureWords + HEADER_WORDS,
      bits        |-> IF s.base_low = 0 THEN padded \cup {0} ELSE padded]

AddZone ==
  /\ AtSection
  /\ Available(mmap.sections[cursor])
  /\ mmap.sections[cursor].length_low >= BLOCK_SIZE
  /\ LET words == CEIL(mmap.sections[cursor].length_low \div BLOCK_SIZE, WORD)
     IN \E garbage \in SUBSET (0 .. words * WORD - 1) :
          zones' = Append(zones, NewZone(mmap.sections[cursor], garbage))
  /\ cursor' = cursor + 1
  /\ UNCHANGED <<mmap, pc, held, ret, damage>>

(***************************************************************************)
(* A section shorter than a block: length - 1 is 2^32 - 1, and unset_bits  *)
(* clears memory from the new bitmap upwards until the machine faults.     *)
(***************************************************************************)
RunAway ==
  /\ AtSection
  /\ Available(mmap.sections[cursor])
  /\ mmap.sections[cursor].length_low < BLOCK_SIZE
  /\ pc' = "runaway"
  /\ UNCHANGED <<mmap, zones, cursor, held, ret, damage>>

\* Mutant: current_zone = memory_zones is left out.
EndScan_NoReset ==
  /\ pc = "scan"
  /\ mmap.valid
  /\ cursor \notin DOMAIN mmap.sections
  /\ pc' = "reserve"
  /\ damage' = IF zones = <<>> THEN "wild" ELSE damage
  /\ UNCHANGED <<mmap, zones, cursor, held, ret>>

(***************************************************************************)
(* memory_zones points at _kernel_end whether or not a zone was put there: *)
(* without one, what follows reads memory nobody wrote.                    *)
(***************************************************************************)
EndScan ==
  /\ pc = "scan"
  /\ mmap.valid
  /\ cursor \notin DOMAIN mmap.sections
  /\ pc' = "reserve"
  /\ cursor' = 1
  /\ damage' = IF zones = <<>> THEN "wild" ELSE damage
  /\ UNCHANGED <<mmap, zones, held, ret>>

Overlaps(z) ==
  \/ resStart <= z.start /\ resEnd >= z.start
  \/ resStart >= z.start /\ resStart <= z.end

(***************************************************************************)
(* Sets the bits of the kernel's blocks and of the zones themselves.  free *)
(* is not lowered.  The last block of a zone may be a partial one that its *)
(* bitmap has no bit for.                                                  *)
(***************************************************************************)
ReserveZone ==
  /\ pc = "reserve"
  /\ damage # "wild"
  /\ cursor \in DOMAIN zones
  /\ LET z        == zones[cursor]
         startbit == GET_OFFSET(z.start, MAX(z.start, resStart))
         endbit   == GET_OFFSET(z.start, MIN(z.end, resEnd))
     IN IF Overlaps(z)
        THEN /\ zones' = [zones EXCEPT ![cursor].bits =
                            set_bits(@, startbit, endbit) \cap Offsets(z)]
             /\ damage' = IF startbit .. endbit \subseteq Offsets(z)
                          THEN damage ELSE "wild"
        ELSE UNCHANGED <<zones, damage>>
  /\ cursor' = cursor + 1
  /\ UNCHANGED <<mmap, pc, held, ret>>

EndReserve ==
  /\ pc = "reserve"
  /\ damage # "wild"
  /\ cursor \notin DOMAIN zones
  /\ pc' = "ready"
  /\ UNCHANGED <<mmap, zones, cursor, held, ret, damage>>

-----------------------------------------------------------------------------
(***************************************************************************)
(* pmm_alloc                                                               *)
(***************************************************************************)

\* After a write into a zone header what the code does is not modelled.
Serving == pc = "ready" /\ damage # "wild"

\* The zone pmm_alloc searches: the first whose counter is not 0.
IsFirstFreeZone(k) ==
  /\ k \in DOMAIN zones
  /\ zones[k].free # 0
  /\ \A j \in 1 .. (k - 1) : zones[j].free = 0

AllocNoZone ==
  /\ Serving
  /\ \A k \in DOMAIN zones : zones[k].free = 0
  /\ ret' = NoFreeZone
  /\ UNCHANGED <<mmap, zones, pc, cursor, held, damage>>

\* Every word of the zone's bitmap is full: no other zone is tried.
AllocNoWord ==
  /\ Serving
  /\ \E k \in DOMAIN zones :
       /\ IsFirstFreeZone(k)
       /\ Offsets(zones[k]) \subseteq zones[k].bits
  /\ ret' = NoFreeWord
  /\ UNCHANGED <<mmap, zones, pc, cursor, held, damage>>

\* Mutant: two steps of the counter for one block.
AllocBlock_Twice ==
  /\ Serving
  /\ \E k \in DOMAIN zones : \E i \in Offsets(zones[k]) \ zones[k].bits :
       /\ IsFirstFreeZone(k)
       /\ 0 .. (i - 1) \subseteq zones[k].bits
       /\ zones' = [zones EXCEPT ![k].bits = @ \cup {i}, ![k].free = @ - 2]
       /\ held' = held \cup {<<k, i>>}
       /\ ret' = <<k, i>>
  /\ UNCHANGED <<mmap, pc, cursor, damage>>

(***************************************************************************)
(* The first unset bit of the first word that is not full.  The search     *)
(* starts at lastOffset, which init_pmm sets to 0 and nothing changes.     *)
(***************************************************************************)
AllocBlock ==
  /\ Serving
  /\ \E k \in DOMAIN zones : \E i \in Offsets(zones[k]) \ zones[k].bits :
       /\ IsFirstFreeZone(k)
       /\ 0 .. (i - 1) \subseteq zones[k].bits
       /\ zones' = [zones EXCEPT ![k].bits = @ \cup {i}, ![k].free = @ - 1]
       /\ held' = held \cup {<<k, i>>}
       /\ ret' = <<k, i>>
  /\ UNCHANGED <<mmap, pc, cursor, damage>>

-----------------------------------------------------------------------------
(***************************************************************************)
(* pmm_free                                                                *)
(***************************************************************************)

\* The loop stops at the first zone that fails its condition.
StopsAt(k, addr) ==
  /\ k \in DOMAIN zones
  /\ ~(zones[k].start > addr /\ addr > zones[k].end)
  /\ \A j \in 1 .. (k - 1) : zones[j].start > addr /\ addr > zones[j].end

\* The bit of zone j that is bit i of the bitmap of zone k.
BitIn(j, k, i) == (zones[k].bitmap - zones[j].bitmap) * WORD + i

\* The frames whose bit is cleared by clearing bit i of zone k.
Cleared(k, i) ==
  {<<j, BitIn(j, k, i)>> : j \in
     {m \in DOMAIN zones : BitIn(m, k, i) \in Offsets(zones[m])}}

\* Mutant: free++ is left out.
pmm_free_NoCount(addr, f) ==
  \E k \in DOMAIN zones :
    LET i == GET_OFFSET(zones[k].start, addr)
    IN /\ StopsAt(k, addr)
       /\ zones' = [j \in DOMAIN zones |->
            [zones[j] EXCEPT !.bits = @ \ {BitIn(j, k, i)}]]
       /\ damage' = CASE Cleared(k, i) = {}              -> "wild"
                      [] Cleared(k, i) = {f} /\ f[1] = k -> damage
                      [] OTHER                           -> "bitmap"

(***************************************************************************)
(* unset_bit and free++.  f is the frame the address belongs to.           *)
(***************************************************************************)
pmm_free(addr, f) ==
  IF \A k \in DOMAIN zones : ~StopsAt(k, addr)
  THEN UNCHANGED <<zones, damage>>
  ELSE \E k \in DOMAIN zones :
         LET i == GET_OFFSET(zones[k].start, addr)
         IN /\ StopsAt(k, addr)
            /\ zones' = [j \in DOMAIN zones |->
                 [zones[j] EXCEPT
                    !.bits = @ \ {BitIn(j, k, i)},
                    !.free = IF j = k THEN (@ + 1) % ADDRESSES ELSE @]]
            /\ damage' = CASE Cleared(k, i) = {}              -> "wild"
                           [] Cleared(k, i) = {f} /\ f[1] = k -> damage
                           [] OTHER                           -> "bitmap"

Free(f) ==
  /\ Serving
  /\ f \in held
  /\ pmm_free(Address(f), f)
  /\ held' = held \ {f}
  /\ UNCHANGED <<mmap, pc, cursor, ret>>

\* kernel_main frees its first result without a test: it may be NULL.
FreeNull ==
  /\ Serving
  /\ ret \in Nulls
  /\ pmm_free(0, ret)
  /\ UNCHANGED <<mmap, pc, cursor, held, ret>>

-----------------------------------------------------------------------------

\* abort has halted the machine, or it runs on memory that is not modelled.
Stopped ==
  /\ pc \in {"abort", "runaway"} \/ damage = "wild"
  /\ UNCHANGED vars

Next ==
  \/ NoMemoryMap
  \/ SkipSection
  \/ AddZone
  \/ RunAway
  \/ EndScan
  \/ ReserveZone
  \/ EndReserve
  \/ AllocNoZone
  \/ AllocNoWord
  \/ AllocBlock
  \/ \E f \in held : Free(f)
  \/ FreeNull
  \/ Stopped

Spec == Init /\ [][Next]_vars

-----------------------------------------------------------------------------
(***************************************************************************)
(* Properties                                                              *)
(***************************************************************************)

Zone == [start : Nat, end : Nat, length : Nat, free : Nat,
         bitmapWords : Nat, bitmap : Nat, bits : SUBSET Nat]

TypeOK ==
  /\ mmap \in Maps
  /\ zones \in Seq(Zone)
  /\ pc \in {"scan", "reserve", "ready", "abort", "runaway"}
  /\ cursor \in Nat \ {0}
  /\ held \subseteq Nat \X Nat
  /\ ret \in Nat \X Nat
  /\ damage \in {"none", "bitmap", "wild"}

Trusted == pc = "ready" /\ damage = "none"

\* A block that holds part of the kernel or of the zones, or address 0.
Reserved(f) ==
  \/ Address(f) = 0
  \/ /\ Address(f) <= resEnd
     /\ Address(f) + BLOCK_SIZE - 1 >= resStart

(***************************************************************************)
(* The blocks that may be handed out: whole blocks of a zone, apart from   *)
(* the reserved ones.                                                      *)
(***************************************************************************)
Usable ==
  {f \in Frames : f[2] < zones[f[1]].length /\ ~Reserved(f)}

(***************************************************************************)
(* While no call has written outside its own bitmap, the clear bits are    *)
(* exactly the usable blocks nobody holds: no block is handed out twice,   *)
(* no block of the kernel, of the zones or past the end of a section is    *)
(* ever handed out, and no usable block is lost (init_pmm, pmm_alloc and   *)
(* pmm_free together keep this).  A block is named by its zone here; of    *)
(* the bytes of blocks HeldApart speaks.                                   *)
(***************************************************************************)
BitmapExact ==
  Trusted => /\ held \subseteq Usable
             /\ {f \in Frames : f[2] \notin zones[f[1]].bits} = Usable \ held

\* No two available sections of the map share a byte: init_pmm does not test it.
Disjoint ==
  \A m, n \in DOMAIN mmap.sections :
    LET s == mmap.sections[m]
        t == mmap.sections[n]
    IN m # n /\ Available(s) /\ Available(t) =>
         \/ s.base_low + s.length_low <= t.base_low
         \/ t.base_low + t.length_low <= s.base_low

(***************************************************************************)
(* Two blocks that are both handed out share no byte of memory, in one     *)
(* zone or in two, with the partial block at the end of a section that the *)
(* next one follows at once, for every map whose sections are disjoint.    *)
(***************************************************************************)
HeldApart ==
  Trusted /\ Disjoint => \A f, g \in held : f # g =>
    \/ Address(f) + BLOCK_SIZE <= Address(g)
    \/ Address(g) + BLOCK_SIZE <= Address(f)

HeldIn(k) == {f \in held : f[1] = k}

(***************************************************************************)
(* The counter of a zone is its length less the blocks handed out.  It     *)
(* therefore counts the reserved blocks as free (init_pmm never lowers     *)
(* it), never wraps below 0, and is 0 only when the zone has nothing left, *)
(* so that pmm_alloc never passes over a zone that could serve it.         *)
(***************************************************************************)
FreeAccounting ==
  Trusted => \A k \in DOMAIN zones :
    zones[k].free + Cardinality(HeldIn(k)) = zones[k].length

-----------------------------------------------------------------------------
(***************************************************************************)
(* The inductive invariant behind these two, in parts                      *)
(***************************************************************************)

\* A zone lies in the address space and holds its blocks.
Geometry ==
  \A k \in DOMAIN zones :
    /\ zones[k].start <= zones[k].end
    /\ zones[k].end < ADDRESSES
    /\ zones[k].length < ADDRESSES
    /\ zones[k].length * BLOCK_SIZE <= zones[k].end - zones[k].start + 1

\* Nobody calls the allocator before init_pmm has returned.
BeforeReady ==
  pc # "ready" => held = {} /\ ret = NoCall /\ damage # "bitmap"

\* Past the scan, the list has a zone unless memory_zones led astray.
SomeZone ==
  pc \in {"reserve", "ready"} /\ damage # "wild" => zones # <<>>

\* init_pmm has dealt with the kernel's blocks in zone k.
Decided(k) == pc = "ready" \/ (pc = "reserve" /\ k < cursor)

ClearBits(k) == Offsets(zones[k]) \ zones[k].bits

\* The bits of zone k that should be clear at this point.
ExpectedClear(k) ==
  {i \in Offsets(zones[k]) :
     /\ i < zones[k].length
     /\ Address(<<k, i>>) # 0
     /\ Decided(k) => ~Reserved(<<k, i>>)
     /\ <<k, i>> \notin held}

Records ==
  damage = "none" =>
    /\ held \subseteq Usable
    /\ \A k \in DOMAIN zones :
         /\ ClearBits(k) = ExpectedClear(k)
         /\ zones[k].free + Cardinality(HeldIn(k)) = zones[k].length

(***************************************************************************)
(* From the first section of the memory map to the last call of pmm_free:  *)
(* a bit of a zone that init_pmm has dealt with is clear exactly when its  *)
(* block is whole, not reserved and not held, and one of a zone it has yet *)
(* to deal with exactly when its block is whole and not at address 0.      *)
(***************************************************************************)
IInv ==
  /\ TypeOK
  /\ Geometry
  /\ BeforeReady
  /\ SomeZone
  /\ IsFiniteSet(held)
  /\ Records

(***************************************************************************)
(* The abstract allocator, for which the memory map is the only unknown.   *)
(***************************************************************************)
Abstract == INSTANCE FrameAllocator WITH
  open    <- pc = "ready",
  usable  <- IF pc = "ready" THEN Usable ELSE {},
  trusted <- damage = "none",
  Idle    <- NoCall

\* init_pmm, pmm_alloc and pmm_free implement the abstract allocator.
Implements == Abstract!Spec

(***************************************************************************)
(* pmm.c:231 says that pmm_free finds "the zone this address belongs to".  *)
(***************************************************************************)
FreeFindsTheZone ==
  [][\A f \in held : Free(f) => (damage' = damage)]_vars

(***************************************************************************)
(* pmm.c:201 says of the path that finds no word with an unset bit in the  *)
(* zone it chose that it "should never really happen".                     *)
(***************************************************************************)
FreeZoneHasAFreeWord == ret # NoFreeWord

=============================================================================
