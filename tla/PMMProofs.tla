----------------------------- MODULE PMMProofs -----------------------------
(***************************************************************************)
(* Proofs about PMM, for every size of a block, of a word and of the       *)
(* address space, every place of the kernel and every memory map that the  *)
(* assumptions of PMM allow.                                               *)
(***************************************************************************)
EXTENDS PMM, FiniteSetTheorems, SequenceTheorems, TLAPS

-----------------------------------------------------------------------------
(***************************************************************************)
(* Arithmetic                                                              *)
(***************************************************************************)

\* A quotient is the number of whole divisors: what GET_OFFSET relies on.
LEMMA DivType ==
  ASSUME NEW x \in Nat, NEW d \in Nat \ {0}
  PROVE  /\ x \div d \in Nat
         /\ (x \div d) * d <= x
         /\ x < (x \div d) * d + d
  BY SMT

\* Block i starts at or before byte x exactly when i is at most the block of x.
LEMMA DivLower ==
  ASSUME NEW x \in Nat, NEW d \in Nat \ {0}, NEW i \in Nat
  PROVE  i <= x \div d <=> i * d <= x
  BY SMT

\* Block i ends at or after byte x exactly when i is at least the block of x.
LEMMA DivUpper ==
  ASSUME NEW x \in Nat, NEW d \in Nat \ {0}, NEW i \in Nat
  PROVE  x \div d <= i <=> x <= i * d + d - 1
  BY SMT

\* The words of a bitmap are a number.
LEMMA CeilType ==
  ASSUME NEW x \in Nat, NEW d \in Nat \ {0}
  PROVE  CEIL(x, d) \in Nat
  BY SMT DEF CEIL

\* A product of naturals is a natural.
LEMMA ProductType ==
  ASSUME NEW x \in Nat, NEW y \in Nat
  PROVE  x * y \in Nat
  BY SMT

-----------------------------------------------------------------------------
(***************************************************************************)
(* Types                                                                   *)
(***************************************************************************)

\* The fields of an available section, and that it ends below 2^32.
LEMMA SectionType ==
  ASSUME TypeOK, AtSection, Available(mmap.sections[cursor])
  PROVE  /\ mmap.sections[cursor].base_low \in Nat
         /\ mmap.sections[cursor].length_low \in Nat
         /\ mmap.sections[cursor].length_low < ADDRESSES
         /\ mmap.sections[cursor].base_low + mmap.sections[cursor].length_low
              <= ADDRESSES
  <1>1. mmap.sections[cursor] \in Section
    BY MapsAssumption DEF TypeOK, AtSection
  <1>2. QED
    BY <1>1, MapsAssumption, SizesAssumption
    DEF TypeOK, AtSection, Section, uint32

\* The zones take up a number of words.
LEMMA StructureWordsType ==
  ASSUME TypeOK
  PROVE  StructureWords \in Nat
  <1>1. CASE zones = <<>>
    BY <1>1 DEF StructureWords
  <1>2. CASE zones # <<>>
    <2>1. zones[Len(zones)] \in Zone
      BY <1>2 DEF TypeOK
    <2>2. QED
      BY <1>2, <2>1 DEF StructureWords, Zone
  <1>3. QED
    BY <1>1, <1>2

\* Clearing some bits and setting others leaves a set of offsets.
LEMMA NatBits ==
  ASSUME NEW old \in SUBSET Nat, NEW clear, NEW set \in SUBSET Nat
  PROVE  (old \ clear) \cup set \cup {0} \subseteq Nat
  <1>1. 0 \in Nat
    OBVIOUS
  <1>2. QED
    BY <1>1, Zenon

\* What init_pmm writes for a section is a zone.
LEMMA NewZoneType ==
  ASSUME TypeOK, AtSection, Available(mmap.sections[cursor]),
         mmap.sections[cursor].length_low >= BLOCK_SIZE,
         NEW garbage \in SUBSET Nat
  PROVE  NewZone(mmap.sections[cursor], garbage) \in Zone
  <1> DEFINE s == mmap.sections[cursor]
             length == s.length_low \div BLOCK_SIZE
             words == CEIL(length, WORD)
  <1>1. s.base_low \in Nat /\ s.length_low \in Nat
    BY SectionType
  <1>2. length \in Nat
    BY <1>1, DivType, SizesAssumption
  <1>3. words \in Nat
    BY <1>2, CeilType, SizesAssumption
  <1>4. words * WORD - 1 \in Int
    BY <1>3, SizesAssumption
  <1>5. s.base_low + s.length_low - 1 \in Nat
    BY <1>1, SizesAssumption
  <1>6. StructureWords + HEADER_WORDS \in Nat
    BY StructureWordsType, SizesAssumption
  <1> HIDE DEF s, length, words
  <1>7. set_bits(unset_bits(garbage, 0, length - 1), length, words * WORD - 1)
          \cup {0} \subseteq Nat
    <2> DEFINE last == words * WORD - 1
    <2>1. last \in Int
      BY <1>4
    <2> HIDE DEF last
    <2>2. length .. last \subseteq Nat
      BY <1>2, <2>1
    <2>3. (garbage \ (0 .. (length - 1))) \cup (length .. last) \cup {0}
            \subseteq Nat
      BY <2>2, NatBits
    <2>4. QED
      BY <2>3 DEF set_bits, unset_bits, last
  <1>8. QED
    BY <1>2, <1>3, <1>1, <1>5, <1>6, <1>7 DEF NewZone, Zone, s, length, words

(***************************************************************************)
(* init_pmm, pmm_alloc and pmm_free keep every variable in its type: no    *)
(* counter falls below 0 and no bitmap gets a bit of a negative offset.    *)
(***************************************************************************)
LEMMA TypeInit == Init => TypeOK
  BY DEF Init, TypeOK, NoCall

\* A change to the bits and the counters of zones leaves them zones.
LEMMA ZoneUpdate ==
  ASSUME NEW z \in Zone, NEW b \in SUBSET Nat, NEW n \in Nat
  PROVE  /\ [z EXCEPT !.bits = b] \in Zone
         /\ [z EXCEPT !.bits = b, !.free = n] \in Zone
  BY DEF Zone

\* Every action keeps them so.
LEMMA TypeStep == TypeOK /\ [Next]_vars => TypeOK'
  <1> SUFFICES ASSUME TypeOK, [Next]_vars PROVE TypeOK'
    OBVIOUS
  <1>1. CASE NoMemoryMap
    BY <1>1 DEF NoMemoryMap, TypeOK
  <1>2. CASE SkipSection
    BY <1>2 DEF SkipSection, TypeOK
  <1>3. CASE AddZone
    <2>1. PICK garbage \in SUBSET Nat :
            zones' = Append(zones, NewZone(mmap.sections[cursor], garbage))
      <3>1. PICK garbage \in SUBSET (0 .. CEIL(mmap.sections[cursor].length_low
                                        \div BLOCK_SIZE, WORD) * WORD - 1) :
              zones' = Append(zones, NewZone(mmap.sections[cursor], garbage))
        BY <1>3 DEF AddZone
      <3>2. garbage \subseteq Nat
        BY <1>3, SectionType, DivType, CeilType, SizesAssumption DEF AddZone
      <3>3. QED
        BY <3>1, <3>2
    <2>2. NewZone(mmap.sections[cursor], garbage) \in Zone
      BY <1>3, NewZoneType DEF AddZone
    <2>3. zones' \in Seq(Zone)
      BY <2>1, <2>2, AppendProperties DEF TypeOK
    <2>4. QED
      BY <1>3, <2>3 DEF AddZone, TypeOK
  <1>4. CASE RunAway
    BY <1>4 DEF RunAway, TypeOK
  <1>5. CASE EndScan
    BY <1>5 DEF EndScan, TypeOK
  <1>6. CASE ReserveZone
    <2>1. zones' \in Seq(Zone)
      <3> DEFINE z == zones[cursor]
                 startbit == GET_OFFSET(z.start, MAX(z.start, resStart))
                 endbit == GET_OFFSET(z.start, MIN(z.end, resEnd))
                 new == set_bits(z.bits, startbit, endbit) \cap Offsets(z)
      <3>1. z \in Zone /\ cursor \in 1 .. Len(zones)
        BY <1>6 DEF ReserveZone, TypeOK
      <3>2. z.bitmapWords * WORD - 1 \in Int
        BY <3>1, SizesAssumption DEF Zone
      <3>3. new \subseteq Nat
        BY <3>2 DEF Offsets
      <3>4. [z EXCEPT !.bits = new] \in Zone
        BY <3>1, <3>3, ZoneUpdate
      <3>5. CASE Overlaps(z)
        <4>1. zones' = [zones EXCEPT ![cursor] = [z EXCEPT !.bits = new]]
          BY <1>6, <3>5 DEF ReserveZone
        <4>2. QED
          BY <3>1, <3>4, <4>1, ExceptSeq DEF TypeOK
      <3>6. CASE ~Overlaps(z)
        BY <1>6, <3>6 DEF ReserveZone, TypeOK
      <3>7. QED
        BY <3>5, <3>6
    <2>2. QED
      BY <1>6, <2>1 DEF ReserveZone, TypeOK
  <1>7. CASE EndReserve
    BY <1>7 DEF EndReserve, TypeOK
  <1>8. CASE AllocNoZone
    BY <1>8 DEF AllocNoZone, TypeOK, NoFreeZone
  <1>9. CASE AllocNoWord
    BY <1>9 DEF AllocNoWord, TypeOK, NoFreeWord
  <1>10. CASE AllocBlock
    <2>1. PICK k \in DOMAIN zones : \E i \in Offsets(zones[k]) \ zones[k].bits :
            /\ IsFirstFreeZone(k)
            /\ zones' = [zones EXCEPT ![k].bits = @ \cup {i}, ![k].free = @ - 1]
            /\ held' = held \cup {<<k, i>>}
            /\ ret' = <<k, i>>
      BY <1>10 DEF AllocBlock
    <2>2. PICK i \in Offsets(zones[k]) \ zones[k].bits :
            /\ IsFirstFreeZone(k)
            /\ zones' = [zones EXCEPT ![k].bits = @ \cup {i}, ![k].free = @ - 1]
            /\ held' = held \cup {<<k, i>>}
            /\ ret' = <<k, i>>
      BY <2>1
    <2>3. zones[k] \in Zone /\ k \in 1 .. Len(zones)
      BY <2>1 DEF TypeOK
    <2>4. i \in Nat
      BY <2>2, <2>3, SizesAssumption DEF Offsets, Zone
    <2> DEFINE new == [zones[k] EXCEPT !.bits = @ \cup {i}, !.free = @ - 1]
    <2>5. new \in Zone
      BY <2>2, <2>3, <2>4 DEF IsFirstFreeZone, Zone
    <2>6. zones' = [zones EXCEPT ![k] = new]
      BY <2>2, <2>3
    <2>7. zones' \in Seq(Zone)
      BY <2>3, <2>5, <2>6, ExceptSeq DEF TypeOK
    <2>8. QED
      BY <1>10, <2>2, <2>3, <2>4, <2>7 DEF AllocBlock, TypeOK
  <1>11. ASSUME NEW addr, NEW f, pmm_free(addr, f)
         PROVE  zones' \in Seq(Zone) /\ damage' \in {"none", "bitmap", "wild"}
    <2>1. CASE \A k \in DOMAIN zones : ~StopsAt(k, addr)
      BY <1>11, <2>1 DEF pmm_free, TypeOK
    <2>2. CASE ~ \A k \in DOMAIN zones : ~StopsAt(k, addr)
      <3>1. PICK k \in DOMAIN zones :
              LET i == GET_OFFSET(zones[k].start, addr)
              IN /\ zones' = [j \in DOMAIN zones |->
                      [zones[j] EXCEPT
                         !.bits = @ \ {BitIn(j, k, i)},
                         !.free = IF j = k THEN (@ + 1) % ADDRESSES ELSE @]]
                 /\ damage' \in {damage, "bitmap", "wild"}
        BY <1>11, <2>2, Zenon DEF pmm_free
      <3> DEFINE i == GET_OFFSET(zones[k].start, addr)
                 new(j) == [zones[j] EXCEPT
                         !.bits = @ \ {BitIn(j, k, i)},
                         !.free = IF j = k THEN (@ + 1) % ADDRESSES ELSE @]
      <3>2. ASSUME NEW j \in DOMAIN zones PROVE new(j) \in Zone
        <4>1. zones[j] \in Zone
          BY DEF TypeOK
        <4>2. (zones[j].free + 1) % ADDRESSES \in Nat
          BY <4>1, SizesAssumption DEF Zone
        <4> HIDE DEF i
        <4>3. QED
          BY <4>1, <4>2 DEF Zone
      <3>3. Len(zones) \in Nat /\ DOMAIN zones = 1 .. Len(zones)
        BY DEF TypeOK
      <3>4. zones' = [j \in 1 .. Len(zones) |-> new(j)]
        BY <3>1, <3>3, Zenon
      <3> HIDE DEF new
      <3>5. zones' \in Seq(Zone)
        BY <3>2, <3>3, <3>4, SeqDef
      <3>6. QED
        BY <3>1, <3>5 DEF TypeOK
    <2>3. QED
      BY <2>1, <2>2
  <1>12. ASSUME NEW f \in held, Free(f) PROVE TypeOK'
    BY <1>11, <1>12 DEF Free, TypeOK
  <1>13. CASE FreeNull
    BY <1>11, <1>13 DEF FreeNull, TypeOK
  <1>14. CASE Stopped
    BY <1>14 DEF Stopped, vars, TypeOK
  <1>15. CASE UNCHANGED vars
    BY <1>15 DEF vars, TypeOK
  <1>16. QED
    BY <1>1, <1>2, <1>3, <1>4, <1>5, <1>6, <1>7, <1>8, <1>9, <1>10, <1>12,
       <1>13, <1>14, <1>15 DEF Next

\* The type invariant of PMM, for every machine and every memory map.
THEOREM TypeCorrect == Spec => []TypeOK
  BY TypeInit, TypeStep, PTL DEF Spec


-----------------------------------------------------------------------------
(***************************************************************************)
(* Reserving                                                               *)
(***************************************************************************)

\* The zones lie behind the kernel: the reserved range is not empty.
LEMMA ReservedRange ==
  ASSUME TypeOK
  PROVE  resStart \in Nat /\ resEnd \in Nat /\ resStart <= resEnd
  <1>1. StructureWords * WORD_BYTES \in Nat
    BY StructureWordsType, ProductType, SizesAssumption
  <1>2. QED
    BY <1>1, SizesAssumption DEF resStart, resEnd

(***************************************************************************)
(* The bits from startbit to endbit that init_pmm sets in a zone are those *)
(* of exactly the whole blocks that share a byte with the reserved range.  *)
(***************************************************************************)
LEMMA ReserveExact ==
  ASSUME TypeOK, NEW z \in Zone, NEW i \in Nat, i < z.length,
         z.start <= z.end, z.end < ADDRESSES,
         z.length * BLOCK_SIZE <= z.end - z.start + 1
  PROVE  LET startbit == GET_OFFSET(z.start, MAX(z.start, resStart))
             endbit == GET_OFFSET(z.start, MIN(z.end, resEnd))
             first == GET_ADDRESS(z.start, i)
         IN (Overlaps(z) /\ i \in startbit .. endbit)
              <=> (first <= resEnd /\ first + BLOCK_SIZE - 1 >= resStart)
  <1> DEFINE lo == MAX(z.start, resStart) - z.start
             hi == MIN(z.end, resEnd) - z.start
             first == GET_ADDRESS(z.start, i)
  <1>1. /\ z.start \in Nat /\ z.end \in Nat /\ z.length \in Nat
        /\ resStart \in Nat /\ resEnd \in Nat /\ resStart <= resEnd
        /\ BLOCK_SIZE \in Nat \ {0} /\ ADDRESSES \in Nat \ {0}
    BY ReservedRange, SizesAssumption DEF Zone
  <1>2. /\ i * BLOCK_SIZE \in Nat
        /\ i * BLOCK_SIZE + BLOCK_SIZE <= z.end - z.start + 1
    <2>1. i * BLOCK_SIZE + BLOCK_SIZE <= z.length * BLOCK_SIZE
      BY <1>1
    <2>2. QED
      BY <1>1, <2>1, ProductType
  <1>3. first = z.start + i * BLOCK_SIZE
    BY <1>1, <1>2 DEF GET_ADDRESS
  <1>4. CASE Overlaps(z)
    <2>1. lo \in Nat /\ hi \in Nat /\ lo < ADDRESSES /\ hi < ADDRESSES
      BY <1>1, <1>4 DEF Overlaps, MAX, MIN
    <2>2. /\ GET_OFFSET(z.start, MAX(z.start, resStart)) = lo \div BLOCK_SIZE
          /\ GET_OFFSET(z.start, MIN(z.end, resEnd)) = hi \div BLOCK_SIZE
      <3>1. lo % ADDRESSES = lo /\ hi % ADDRESSES = hi
        <4> HIDE DEF lo, hi
        <4> QED BY <1>1, <2>1
      <3>2. QED
        BY <3>1 DEF GET_OFFSET
    <2> HIDE DEF lo, hi
    <2>3. lo \div BLOCK_SIZE <= i <=> lo <= i * BLOCK_SIZE + BLOCK_SIZE - 1
      BY <1>1, <2>1, DivUpper
    <2>4. i <= hi \div BLOCK_SIZE <=> i * BLOCK_SIZE <= hi
      BY <1>1, <2>1, DivLower
    <2>5. lo <= i * BLOCK_SIZE + BLOCK_SIZE - 1
            <=> first + BLOCK_SIZE - 1 >= resStart
      BY <1>1, <1>2, <1>3 DEF lo, MAX
    <2>6. i * BLOCK_SIZE <= hi <=> first <= resEnd
      BY <1>1, <1>2, <1>3 DEF hi, MIN
    <2>7. lo \div BLOCK_SIZE \in Nat /\ hi \div BLOCK_SIZE \in Nat
      BY <1>1, <2>1, DivType
    <2>8. QED
      BY <1>4, <2>2, <2>3, <2>4, <2>5, <2>6, <2>7
  <1>5. CASE ~Overlaps(z)
    BY <1>1, <1>2, <1>3, <1>5 DEF Overlaps
  <1>6. QED
    BY <1>4, <1>5

-----------------------------------------------------------------------------
(***************************************************************************)
(* Frames and zones                                                        *)
(***************************************************************************)

\* A frame is a zone and an offset of its bitmap.
LEMMA FrameForm ==
  ASSUME TypeOK
  PROVE  \A f : f \in Frames <=> \E k \in DOMAIN zones :
                   \E i \in Offsets(zones[k]) : f = <<k, i>>
  BY DEF Frames

\* An offset of a bitmap is a natural number.
LEMMA OffsetType ==
  ASSUME TypeOK, NEW k \in DOMAIN zones, NEW i \in Offsets(zones[k])
  PROVE  i \in Nat
  BY SizesAssumption DEF TypeOK, Zone, Offsets

\* A step that leaves every zone where it is and as long as it is.
SameShape ==
  /\ Len(zones') = Len(zones)
  /\ \A k \in DOMAIN zones :
       /\ zones'[k].start = zones[k].start
       /\ zones'[k].end = zones[k].end
       /\ zones'[k].length = zones[k].length
       /\ zones'[k].bitmapWords = zones[k].bitmapWords
       /\ zones'[k].bitmap = zones[k].bitmap

\* Such a step keeps the frames, their addresses and which are usable.
LEMMA ShapeKept ==
  ASSUME TypeOK, TypeOK', SameShape
  PROVE  /\ DOMAIN zones' = DOMAIN zones
         /\ \A k \in DOMAIN zones : Offsets(zones'[k]) = Offsets(zones[k])
         /\ \A k \in DOMAIN zones : \A i \in Nat :
              /\ Address(<<k, i>>)' = Address(<<k, i>>)
              /\ Reserved(<<k, i>>)' <=> Reserved(<<k, i>>)
         /\ Usable' = Usable
  <1>1. /\ DOMAIN zones' = 1 .. Len(zones) /\ DOMAIN zones = 1 .. Len(zones)
        /\ Len(zones) \in Nat
    BY DEF SameShape, TypeOK
  <1>2. \A k \in DOMAIN zones : Offsets(zones'[k]) = Offsets(zones[k])
    BY DEF SameShape, Offsets
  <1>3. StructureWords' = StructureWords
    <2>1. zones' = <<>> <=> zones = <<>>
      BY <1>1 DEF SameShape, TypeOK
    <2>2. zones # <<>> => Len(zones) \in DOMAIN zones
      BY <1>1 DEF TypeOK
    <2>3. QED
      BY <2>1, <2>2 DEF StructureWords, SameShape
  <1>4. resEnd' = resEnd /\ resStart' = resStart
    BY <1>3 DEF resEnd, resStart
  <1>5. \A k \in DOMAIN zones : \A i \in Nat :
          Address(<<k, i>>)' = Address(<<k, i>>)
    BY DEF Address, GET_ADDRESS, SameShape
  <1>6. \A k \in DOMAIN zones : \A i \in Nat :
          Reserved(<<k, i>>)' <=> Reserved(<<k, i>>)
    BY <1>4, <1>5 DEF Reserved
  <1>7. \A f : f \in Frames => f[1] \in DOMAIN zones /\ f[2] \in Nat
                                /\ f = <<f[1], f[2]>>
    BY FrameForm, OffsetType
  <1>8. Frames' = Frames
    BY <1>1, <1>2 DEF Frames
  <1>9. \A f \in Frames :
          /\ zones'[f[1]].length = zones[f[1]].length
          /\ Reserved(f)' <=> Reserved(f)
    BY <1>6, <1>7 DEF SameShape
  <1>10. Usable' = Usable
    BY <1>8, <1>9 DEF Usable
  <1>11. QED
    BY <1>1, <1>2, <1>5, <1>6, <1>10

-----------------------------------------------------------------------------
(***************************************************************************)
(* The inductive invariant                                                 *)
(***************************************************************************)

\* init_pmm starts with no zone, and IInv says little of none.
LEMMA InvInit == Init => IInv
  <1> SUFFICES ASSUME Init PROVE IInv
    OBVIOUS
  <1>1. TypeOK
    BY TypeInit
  <1>2. DOMAIN zones = {}
    BY DEF Init
  <1>3. Geometry
    BY <1>2 DEF Geometry
  <1>4. BeforeReady /\ SomeZone /\ IsFiniteSet(held)
    BY FS_EmptySet DEF Init, BeforeReady, SomeZone
  <1>5. Records
    BY <1>2 DEF Init, Records
  <1>6. QED
    BY <1>1, <1>3, <1>4, <1>5 DEF IInv

\* A step that leaves zones, held and the phase alone keeps Records.
LEMMA RecordsUnchanged ==
  ASSUME IInv, UNCHANGED <<zones, held, damage>>,
         \A k \in DOMAIN zones : Decided(k)' <=> Decided(k)
  PROVE  Records' /\ Geometry'
  <1>1. /\ Usable' = Usable
        /\ \A k : /\ ClearBits(k)' = ClearBits(k)
                  /\ HeldIn(k)' = HeldIn(k)
    BY DEF Usable, Frames, Offsets, Reserved, resStart, resEnd, Address,
           GET_ADDRESS, StructureWords, ClearBits, HeldIn
  <1>2. \A k \in DOMAIN zones : ExpectedClear(k)' = ExpectedClear(k)
    BY DEF ExpectedClear, Offsets, Reserved, resStart, resEnd, Address,
           GET_ADDRESS, StructureWords
  <1>3. QED
    BY <1>1, <1>2 DEF IInv, Records, Geometry

\* AddZone: a new zone holds its blocks, and only those have a clear bit.
LEMMA AddZoneInv ==
  ASSUME IInv, TypeOK', AddZone
  PROVE  IInv'
  <1> DEFINE s == mmap.sections[cursor]
             length == s.length_low \div BLOCK_SIZE
             words == CEIL(length, WORD)
             n == Len(zones) + 1
  <1>1. PICK garbage : zones' = Append(zones, NewZone(s, garbage))
    BY DEF AddZone
  <1> DEFINE z == NewZone(s, garbage)
  <1>2. /\ s.base_low \in Nat /\ s.length_low \in Nat
        /\ s.length_low < ADDRESSES
        /\ s.base_low + s.length_low <= ADDRESSES
        /\ s.length_low >= BLOCK_SIZE
    BY SectionType DEF IInv, AddZone
  <1>3. length \in Nat /\ length * BLOCK_SIZE <= s.length_low
    BY <1>2, DivType, SizesAssumption
  <1>4. length < ADDRESSES
    <2>1. length <= length * BLOCK_SIZE
      BY <1>3, SizesAssumption
    <2>2. length * BLOCK_SIZE \in Nat
      BY <1>3, ProductType, SizesAssumption
    <2> HIDE DEF length
    <2>3. QED
      BY <1>2, <1>3, <2>1, <2>2, SizesAssumption
  <1>5. /\ Len(zones) \in Nat /\ DOMAIN zones = 1 .. Len(zones)
        /\ DOMAIN zones' = 1 .. n
        /\ \A k \in DOMAIN zones : zones'[k] = zones[k]
        /\ zones'[n] = z
    <2>1. zones \in Seq(Zone) /\ zones \in Seq(Zone \cup {z})
      BY SeqMonotonic DEF IInv, TypeOK
    <2> HIDE DEF z
    <2>2. zones' = Append(zones, z)
      BY <1>1 DEF z
    <2>3. QED
      BY <2>1, <2>2, AppendProperties
  <1> HIDE DEF length
  <1>6. /\ z.start = s.base_low /\ z.end = s.base_low + s.length_low - 1
        /\ z.length = length /\ z.free = length /\ z.bitmapWords = words
    BY DEF NewZone, length
  <1>7. held = {} /\ held' = {} /\ damage' = damage /\ pc' = "scan"
    BY DEF AddZone, AtSection, IInv, BeforeReady
  <1>8. Geometry'
    <2>1. /\ z.start <= z.end /\ z.end < ADDRESSES /\ z.length < ADDRESSES
          /\ z.length * BLOCK_SIZE <= z.end - z.start + 1
      BY <1>2, <1>3, <1>4, <1>6, SizesAssumption
    <2>2. QED
      BY <1>5, <2>1 DEF Geometry, IInv
  <1>9. BeforeReady' /\ SomeZone' /\ IsFiniteSet(held')
    BY <1>7 DEF AddZone, AtSection, IInv, BeforeReady, SomeZone
  <1>10. ASSUME damage = "none", NEW k \in DOMAIN zones'
         PROVE  /\ ClearBits(k)' = ExpectedClear(k)'
                /\ zones'[k].free + Cardinality(HeldIn(k)') = zones'[k].length
    <2>1. Cardinality(HeldIn(k)') = 0 /\ Cardinality(HeldIn(k)) = 0
      <3>1. HeldIn(k)' = {} /\ HeldIn(k) = {}
        BY <1>7 DEF HeldIn
      <3>2. QED
        BY <3>1, FS_EmptySet
    <2>2. ~Decided(k) /\ ~Decided(k)'
      BY <1>7 DEF AddZone, AtSection, Decided
    <2>3. CASE k \in DOMAIN zones
      <3>1. zones'[k] = zones[k]
        BY <1>5, <2>3
      <3>2. ClearBits(k)' = ClearBits(k) /\ ExpectedClear(k)' = ExpectedClear(k)
        BY <1>7, <2>2, <3>1
        DEF ClearBits, ExpectedClear, Offsets, Address, GET_ADDRESS
      <3>3. QED
        BY <1>7, <1>10, <2>1, <2>3, <3>1, <3>2 DEF IInv, Records
    <2>4. CASE k = n
      <3>1. zones'[k] = z
        BY <1>5, <2>4
      <3>2. zones'[k].free + Cardinality(HeldIn(k)') = zones'[k].length
        BY <1>3, <1>6, <2>1, <3>1
      <3>3. words * WORD - 1 \in Int
        BY <1>3, CeilType, SizesAssumption
      <3> DEFINE last == words * WORD - 1
      <3>4. Offsets(z) = 0 .. last
        BY <1>6 DEF Offsets
      <3>5. z.bits = IF s.base_low = 0
                     THEN ((garbage \ (0 .. (length - 1)))
                             \cup (length .. last)) \cup {0}
                     ELSE (garbage \ (0 .. (length - 1)))
                             \cup (length .. last)
        BY DEF NewZone, set_bits, unset_bits, length
      <3> HIDE DEF last, z, s
      <3>6. \A i \in 0 .. last : i \notin z.bits
                 <=> i < length /\ ~(s.base_low = 0 /\ i = 0)
        BY <1>2, <1>3, <3>3, <3>5 DEF last
      <3>7. \A i \in Nat : Address(<<k, i>>)' = 0
                 <=> zones'[k].start = 0 /\ i = 0
        <4>1. \A i \in Nat : i * BLOCK_SIZE \in Nat
                 /\ (i * BLOCK_SIZE = 0 <=> i = 0)
          BY SizesAssumption
        <4>2. QED
          BY <1>2, <1>6, <3>1, <4>1 DEF Address, GET_ADDRESS
      <3>8. \A i \in 0 .. last : i \in Nat
        BY <3>3 DEF last
      <3>9. ClearBits(k)' = ExpectedClear(k)'
        BY <1>6, <1>7, <2>2, <3>1, <3>4, <3>6, <3>7, <3>8
        DEF ClearBits, ExpectedClear
      <3>10. QED
        BY <3>2, <3>9
    <2>5. QED
      BY <1>5, <2>3, <2>4
  <1>11. Records'
    BY <1>7, <1>10 DEF Records
  <1>12. QED
    BY <1>8, <1>9, <1>11 DEF IInv

\* ReserveZone: what it sets in a zone is what Reserved says of its blocks.
LEMMA ReserveZoneInv ==
  ASSUME IInv, TypeOK', ReserveZone
  PROVE  IInv'
  <1> DEFINE z == zones[cursor]
             startbit == GET_OFFSET(z.start, MAX(z.start, resStart))
             endbit == GET_OFFSET(z.start, MIN(z.end, resEnd))
             new == set_bits(z.bits, startbit, endbit) \cap Offsets(z)
  <1>1. TypeOK /\ cursor \in DOMAIN zones /\ z \in Zone
    BY DEF IInv, TypeOK, ReserveZone
  <1>2. /\ held = {} /\ held' = {} /\ pc = "reserve" /\ pc' = "reserve"
        /\ cursor' = cursor + 1
    BY DEF ReserveZone, IInv, BeforeReady
  <1>3. SameShape
    <2>1. CASE Overlaps(z)
      <3>1. zones' = [zones EXCEPT ![cursor].bits = new]
        BY <2>1 DEF ReserveZone
      <3> HIDE DEF new
      <3>2. /\ DOMAIN zones' = DOMAIN zones
            /\ zones'[cursor] = [zones[cursor] EXCEPT !.bits = new]
            /\ \A k \in DOMAIN zones : k # cursor => zones'[k] = zones[k]
        BY <1>1, <3>1
      <3>3. Len(zones') = Len(zones)
        BY <1>1, <3>2, LenProperties DEF TypeOK
      <3>4. z \in Zone => LET w == [z EXCEPT !.bits = new]
                          IN /\ w.start = z.start /\ w.end = z.end
                             /\ w.length = z.length /\ w.bitmap = z.bitmap
                             /\ w.bitmapWords = z.bitmapWords
        BY DEF Zone
      <3>5. QED
        BY <1>1, <3>2, <3>3, <3>4 DEF SameShape
    <2>2. CASE ~Overlaps(z)
      BY <2>2 DEF ReserveZone, SameShape
    <2>3. QED
      BY <2>1, <2>2
  <1>4. Geometry'
    BY <1>1, <1>3, ShapeKept DEF SameShape, Geometry, IInv
  <1>5. /\ \A k \in DOMAIN zones : k # cursor => zones'[k] = zones[k]
        /\ zones'[cursor].free = z.free
        /\ Overlaps(z) => zones'[cursor].bits = new
        /\ ~Overlaps(z) => zones'[cursor].bits = z.bits
    <2>1. CASE Overlaps(z)
      <3>1. zones' = [zones EXCEPT ![cursor].bits = new]
        BY <2>1 DEF ReserveZone
      <3> HIDE DEF new
      <3>2. QED
        BY <1>1, <2>1, <3>1 DEF TypeOK, Zone
    <2>2. CASE ~Overlaps(z)
      BY <2>2 DEF ReserveZone
    <2>3. QED
      BY <2>1, <2>2
  <1>6. damage' = "none" => damage = "none"
    BY DEF ReserveZone
  <1>7. ASSUME damage = "none", NEW k \in DOMAIN zones'
        PROVE  /\ ClearBits(k)' = ExpectedClear(k)'
               /\ zones'[k].free + Cardinality(HeldIn(k)') = zones'[k].length
    <2>1. k \in DOMAIN zones /\ HeldIn(k)' = HeldIn(k)
      BY <1>1, <1>2, <1>3, ShapeKept DEF HeldIn
    <2>2. /\ ClearBits(k) = ExpectedClear(k)
          /\ zones[k].free + Cardinality(HeldIn(k)) = zones[k].length
      BY <1>7, <2>1 DEF IInv, Records
    <2>3. /\ Offsets(zones'[k]) = Offsets(zones[k])
          /\ zones'[k].length = zones[k].length
          /\ zones'[k].free = zones[k].free
          /\ \A i \in Offsets(zones[k]) :
               /\ Address(<<k, i>>)' = Address(<<k, i>>)
               /\ Reserved(<<k, i>>)' <=> Reserved(<<k, i>>)
      BY <1>1, <1>3, <1>5, <2>1, ShapeKept, OffsetType DEF SameShape
    <2>4. CASE k # cursor
      <3>1. Decided(k)' <=> Decided(k)
        BY <1>1, <1>2, <2>1, <2>4 DEF Decided, TypeOK
      <3>2. ClearBits(k)' = ClearBits(k)
        BY <1>5, <2>1, <2>4 DEF ClearBits
      <3>3. ExpectedClear(k)' = ExpectedClear(k)
        BY <1>2, <2>3, <3>1 DEF ExpectedClear
      <3>4. QED
        BY <2>1, <2>2, <2>3, <3>2, <3>3
    <2>5. CASE k = cursor
      <3>1. Decided(k)' /\ ~Decided(k)
        BY <1>1, <1>2, <2>1, <2>5 DEF Decided, TypeOK
      <3>2. ASSUME NEW i \in Offsets(zones[k]), i < zones[k].length,
                   Address(<<k, i>>) # 0
            PROVE  (Overlaps(z) /\ i \in startbit .. endbit)
                      <=> Reserved(<<k, i>>)
        <4>1. /\ i \in Nat /\ z.start <= z.end /\ z.end < ADDRESSES
              /\ z.length * BLOCK_SIZE <= z.end - z.start + 1
          BY <1>1, <2>1, <2>5, OffsetType DEF IInv, Geometry
        <4>2. Address(<<k, i>>) = GET_ADDRESS(z.start, i)
          BY <2>5 DEF Address
        <4> HIDE DEF startbit, endbit, z
        <4>3. (Overlaps(z) /\ i \in startbit .. endbit)
                 <=> /\ GET_ADDRESS(z.start, i) <= resEnd
                     /\ GET_ADDRESS(z.start, i) + BLOCK_SIZE - 1 >= resStart
          BY <1>1, <2>5, <3>2, <4>1, ReserveExact DEF startbit, endbit, z
        <4>4. QED
          BY <3>2, <4>2, <4>3 DEF Reserved
      <3>3. \A i \in Offsets(zones[k]) : i \in ClearBits(k)'
               <=> i \in ClearBits(k) /\ ~(Overlaps(z) /\ i \in startbit .. endbit)
        <4> HIDE DEF startbit, endbit
        <4>1. QED
          BY <1>5, <2>3, <2>5 DEF ClearBits, set_bits
      <3>4. \A i \in Offsets(zones[k]) : i \in ExpectedClear(k)'
               <=> i \in ExpectedClear(k) /\ ~Reserved(<<k, i>>)
        BY <1>2, <2>3, <3>1 DEF ExpectedClear
      <3>5. \A i \in ExpectedClear(k) : /\ i < zones[k].length
                                        /\ Address(<<k, i>>) # 0
        BY DEF ExpectedClear
      <3>6. /\ ClearBits(k)' \subseteq Offsets(zones[k])
            /\ ExpectedClear(k)' \subseteq Offsets(zones[k])
        BY <2>3 DEF ClearBits, ExpectedClear
      <3> HIDE DEF startbit, endbit, z
      <3>7. ClearBits(k)' = ExpectedClear(k)'
        BY <2>2, <3>2, <3>3, <3>4, <3>5, <3>6
      <3>8. QED
        BY <2>1, <2>2, <2>3, <3>7
    <2>6. QED
      BY <2>4, <2>5
  <1>8. Records'
    BY <1>2, <1>6, <1>7 DEF Records
  <1>9. BeforeReady' /\ IsFiniteSet(held')
    BY <1>2, FS_EmptySet DEF ReserveZone, IInv, BeforeReady
  <1>10. SomeZone'
    BY <1>1, <1>3, ShapeKept DEF SomeZone
  <1>11. QED
    BY <1>4, <1>8, <1>9, <1>10 DEF IInv

\* EndScan and EndReserve only move on to the next phase.
LEMMA PhaseInv ==
  ASSUME IInv, TypeOK', EndScan \/ EndReserve
  PROVE  IInv'
  <1>1. TypeOK /\ held = {} /\ held' = {} /\ zones' = zones
    BY DEF IInv, BeforeReady, EndScan, EndReserve
  <1>2. BeforeReady' /\ SomeZone' /\ IsFiniteSet(held')
    BY <1>1, FS_EmptySet
    DEF IInv, BeforeReady, SomeZone, EndScan, EndReserve
  <1>3. CASE damage' # "none"
    <2>1. Geometry'
      BY <1>1 DEF IInv, Geometry
    <2>2. QED
      BY <1>2, <1>3, <2>1 DEF IInv, Records
  <1>4. CASE damage' = "none"
    <2>1. damage' = damage
      BY <1>4 DEF EndScan, EndReserve
    <2>2. ASSUME NEW k \in DOMAIN zones
          PROVE  Decided(k)' <=> Decided(k)
      <3>1. k \in 1 .. Len(zones) /\ Len(zones) \in Nat
        BY <1>1 DEF TypeOK
      <3>2. QED
        BY <1>1, <3>1 DEF EndScan, EndReserve, Decided, TypeOK
    <2>3. Records' /\ Geometry'
      BY <1>1, <2>1, <2>2, RecordsUnchanged
    <2>4. QED
      BY <1>2, <2>3 DEF IInv
  <1>5. QED
    BY <1>3, <1>4

\* A usable frame: its offset lies in the zone and is not reserved.
LEMMA UsableForm ==
  ASSUME TypeOK, NEW k \in DOMAIN zones, NEW i \in Offsets(zones[k])
  PROVE  <<k, i>> \in Usable
           <=> i < zones[k].length /\ ~Reserved(<<k, i>>)
  BY FrameForm DEF Usable

\* AllocBlock: the bit it sets was the bit of a usable block nobody held.
LEMMA AllocBlockInv ==
  ASSUME IInv, TypeOK', AllocBlock
  PROVE  /\ IInv'
         /\ damage = "none" => \E f \in Usable \ held :
              held' = held \cup {f} /\ ret' = f /\ Usable' = Usable
  <1>1. TypeOK /\ pc = "ready" /\ pc' = "ready" /\ damage' = damage
    BY DEF AllocBlock, Serving, IInv
  <1>2. PICK k \in DOMAIN zones : \E i \in Offsets(zones[k]) \ zones[k].bits :
          /\ zones' = [zones EXCEPT ![k].bits = @ \cup {i}, ![k].free = @ - 1]
          /\ held' = held \cup {<<k, i>>}
          /\ ret' = <<k, i>>
    BY DEF AllocBlock
  <1>3. PICK i \in Offsets(zones[k]) \ zones[k].bits :
          /\ zones' = [zones EXCEPT ![k].bits = @ \cup {i}, ![k].free = @ - 1]
          /\ held' = held \cup {<<k, i>>}
          /\ ret' = <<k, i>>
    BY <1>2
  <1>4. /\ DOMAIN zones' = DOMAIN zones
        /\ \A j \in DOMAIN zones : j # k => zones'[j] = zones[j]
        /\ zones'[k].bits = zones[k].bits \cup {i}
        /\ zones'[k].free = zones[k].free - 1
        /\ SameShape
    <2> DEFINE new == [zones[k] EXCEPT !.bits = @ \cup {i}, !.free = @ - 1]
    <2>1. zones' = [zones EXCEPT ![k] = new]
      BY <1>3
    <2>2. zones[k] \in Zone
      BY <1>1 DEF TypeOK
    <2>3. /\ new.bits = zones[k].bits \cup {i}
          /\ new.free = zones[k].free - 1
          /\ new.start = zones[k].start /\ new.end = zones[k].end
          /\ new.length = zones[k].length /\ new.bitmap = zones[k].bitmap
          /\ new.bitmapWords = zones[k].bitmapWords
      BY <2>2 DEF Zone
    <2> HIDE DEF new
    <2>4. /\ DOMAIN zones' = DOMAIN zones
          /\ \A j \in DOMAIN zones : j # k => zones'[j] = zones[j]
          /\ zones'[k] = new
      BY <2>1
    <2>5. Len(zones') = Len(zones)
      BY <1>1, <2>4, LenProperties DEF TypeOK
    <2>6. QED
      BY <2>3, <2>4, <2>5 DEF SameShape
  <1>5. /\ Usable' = Usable
        /\ \A j \in DOMAIN zones :
             /\ Offsets(zones'[j]) = Offsets(zones[j])
             /\ zones'[j].length = zones[j].length
             /\ \A o \in Offsets(zones[j]) :
                  /\ Address(<<j, o>>)' = Address(<<j, o>>)
                  /\ Reserved(<<j, o>>)' <=> Reserved(<<j, o>>)
    BY <1>1, <1>4, ShapeKept, OffsetType DEF SameShape
  <1>6. Geometry'
    BY <1>4 DEF IInv, Geometry, SameShape
  <1>7. BeforeReady' /\ SomeZone' /\ IsFiniteSet(held')
    <2>1. zones' # <<>>
      BY <1>4
    <2>2. IsFiniteSet(held')
      BY <1>3, FS_AddElement DEF IInv
    <2>3. QED
      BY <1>1, <2>1, <2>2 DEF BeforeReady, SomeZone
  <1>8. ASSUME damage = "none"
        PROVE  <<k, i>> \in Usable \ held
    <2>1. i \in ExpectedClear(k)
      BY <1>3, <1>8 DEF IInv, Records, ClearBits
    <2>2. QED
      BY <1>1, <1>3, <2>1, UsableForm DEF ExpectedClear, Decided
  <1>9. ASSUME damage = "none", NEW j \in DOMAIN zones
        PROVE  /\ ClearBits(j)' = ExpectedClear(j)'
               /\ zones'[j].free + Cardinality(HeldIn(j)') = zones'[j].length
    <2>1. /\ ClearBits(j) = ExpectedClear(j)
          /\ zones[j].free + Cardinality(HeldIn(j)) = zones[j].length
      BY <1>9 DEF IInv, Records
    <2>2. CASE j # k
      <3>1. HeldIn(j)' = HeldIn(j)
        BY <1>3, <2>2 DEF HeldIn
      <3>2. ClearBits(j)' = ClearBits(j)
        BY <1>4, <2>2 DEF ClearBits
      <3>3. \A o \in Offsets(zones[j]) :
              <<j, o>> \in held' <=> <<j, o>> \in held
        BY <1>3, <2>2
      <3>4. ExpectedClear(j)' = ExpectedClear(j)
        BY <1>1, <1>5, <3>3 DEF ExpectedClear, Decided
      <3>5. QED
        BY <1>4, <2>1, <2>2, <3>1, <3>2, <3>4
    <2>3. CASE j = k
      <3>1. ClearBits(k)' = ClearBits(k) \ {i}
        BY <1>4, <1>5 DEF ClearBits
      <3>2. \A o \in Offsets(zones[k]) :
              <<k, o>> \in held' <=> <<k, o>> \in held \/ o = i
        BY <1>3
      <3>3. ExpectedClear(k)' = ExpectedClear(k) \ {i}
        BY <1>1, <1>5, <3>2 DEF ExpectedClear, Decided
      <3>4. HeldIn(k)' = HeldIn(k) \cup {<<k, i>>} /\ <<k, i>> \notin HeldIn(k)
        BY <1>3, <1>8, <1>9 DEF HeldIn
      <3>5. IsFiniteSet(HeldIn(k))
        BY FS_Subset DEF HeldIn, IInv
      <3>6. /\ Cardinality(HeldIn(k)) \in Nat
            /\ Cardinality(HeldIn(k)') = Cardinality(HeldIn(k)) + 1
        BY <3>4, <3>5, FS_AddElement, FS_CardinalityType
      <3>7. zones[k].free \in Nat
        <4>1. zones[k] \in Zone
          BY <1>1 DEF TypeOK
        <4>2. QED
          BY <4>1 DEF Zone
      <3>8. QED
        BY <1>4, <1>5, <2>1, <2>3, <3>1, <3>3, <3>6, <3>7
    <2>4. QED
      BY <2>2, <2>3
  <1>10. Records'
    BY <1>1, <1>3, <1>4, <1>5, <1>8, <1>9 DEF Records, IInv
  <1>11. QED
    BY <1>1, <1>3, <1>5, <1>6, <1>7, <1>8, <1>10 DEF IInv

(***************************************************************************)
(* pmm_free moves no zone; and as long as the allocator is still sound it  *)
(* has cleared one bit, that of the frame it was given, and counted it in  *)
(* that frame's zone.                                                      *)
(***************************************************************************)
LEMMA FreeEffect ==
  ASSUME TypeOK, TypeOK', Geometry, NEW addr, NEW f, pmm_free(addr, f)
  PROVE  /\ SameShape
         /\ damage' = "none" => damage = "none"
         /\ damage' = "none" /\ zones # <<>> /\ addr \in Int => \E k \in DOMAIN zones :
              \E i \in Offsets(zones[k]) :
              /\ f = <<k, i>>
              /\ zones'[k].free = (zones[k].free + 1) % ADDRESSES
              /\ \A j \in DOMAIN zones : j # k => zones'[j].free = zones[j].free
              /\ ClearBits(k)' = ClearBits(k) \cup {i}
              /\ \A j \in DOMAIN zones :
                   j # k => ClearBits(j)' = ClearBits(j)
  <1>0. DOMAIN zones = 1 .. Len(zones) /\ Len(zones) \in Nat
    BY DEF TypeOK
  <1>1. CASE \A k \in DOMAIN zones : ~StopsAt(k, addr)
    <2>1. zones' = zones /\ damage' = damage
      BY <1>1 DEF pmm_free
    <2>2. zones # <<>> /\ addr \in Int => FALSE
      <3>1. SUFFICES ASSUME zones # <<>>, addr \in Int PROVE FALSE
        OBVIOUS
      <3>2. 1 \in DOMAIN zones
        BY <1>0, <3>1 DEF TypeOK
      <3>3. zones[1].start \in Nat /\ zones[1].end \in Nat
        <4>1. zones[1] \in Zone
          BY <3>2 DEF TypeOK
        <4>2. QED
          BY <4>1 DEF Zone
      <3>4. StopsAt(1, addr)
        BY <3>1, <3>2, <3>3 DEF StopsAt, Geometry
      <3>5. QED
        BY <1>1, <3>2, <3>4
    <2>3. QED
      BY <2>1, <2>2 DEF SameShape
  <1>2. CASE ~ \A k \in DOMAIN zones : ~StopsAt(k, addr)
    <2>1. PICK k \in DOMAIN zones :
            LET i == GET_OFFSET(zones[k].start, addr)
            IN /\ zones' = [j \in DOMAIN zones |->
                    [zones[j] EXCEPT
                       !.bits = @ \ {BitIn(j, k, i)},
                       !.free = IF j = k THEN (@ + 1) % ADDRESSES ELSE @]]
               /\ damage' = CASE Cleared(k, i) = {}              -> "wild"
                              [] Cleared(k, i) = {f} /\ f[1] = k -> damage
                              [] OTHER                           -> "bitmap"
      BY <1>2, Zenon DEF pmm_free
    <2> DEFINE i == GET_OFFSET(zones[k].start, addr)
    <2>2. ASSUME NEW j \in DOMAIN zones
          PROVE  /\ zones'[j].bits = zones[j].bits \ {BitIn(j, k, i)}
                 /\ zones'[j].free = IF j = k
                                     THEN (zones[j].free + 1) % ADDRESSES
                                     ELSE zones[j].free
                 /\ zones'[j].start = zones[j].start
                 /\ zones'[j].end = zones[j].end
                 /\ zones'[j].length = zones[j].length
                 /\ zones'[j].bitmap = zones[j].bitmap
                 /\ zones'[j].bitmapWords = zones[j].bitmapWords
      <3>1. zones[j] \in Zone
        BY DEF TypeOK
      <3>2. zones'[j] = [zones[j] EXCEPT
                 !.bits = @ \ {BitIn(j, k, i)},
                 !.free = IF j = k THEN (@ + 1) % ADDRESSES ELSE @]
        BY <2>1
      <3> HIDE DEF i
      <3>3. QED
        BY <3>1, <3>2 DEF Zone
    <2>3. DOMAIN zones' = DOMAIN zones
      BY <2>1
    <2>4. SameShape
      <3>1. Len(zones') = Len(zones)
        BY <2>3, LenProperties DEF TypeOK
      <3>2. QED
        BY <2>2, <3>1 DEF SameShape
    <2>5. damage' = "none" =>
            damage = "none" /\ Cleared(k, i) = {f} /\ f[1] = k
      <3> HIDE DEF i
      <3> QED BY <2>1 DEF i
    <2>6. ASSUME damage' = "none"
          PROVE  /\ f = <<k, BitIn(k, k, i)>>
                 /\ BitIn(k, k, i) \in Offsets(zones[k])
                 /\ \A j \in DOMAIN zones : j # k =>
                      BitIn(j, k, i) \notin Offsets(zones[j])
      <3>1. f \in Cleared(k, i) /\ f[1] = k
        BY <2>5, <2>6
      <3>2. PICK j \in DOMAIN zones :
              /\ BitIn(j, k, i) \in Offsets(zones[j])
              /\ f = <<j, BitIn(j, k, i)>>
        BY <3>1, Zenon DEF Cleared
      <3>3. j = k
        BY <3>1, <3>2
      <3>4. ASSUME NEW m \in DOMAIN zones, m # k,
                   BitIn(m, k, i) \in Offsets(zones[m])
            PROVE  FALSE
        <4>1. <<m, BitIn(m, k, i)>> \in Cleared(k, i)
          BY <3>4, Zenon DEF Cleared
        <4>2. <<m, BitIn(m, k, i)>> = f
          BY <2>5, <2>6, <4>1
        <4>3. QED
          BY <3>1, <3>4, <4>2
      <3>5. QED
        BY <3>2, <3>3, <3>4
    <2>7. ASSUME damage' = "none"
          PROVE  /\ ClearBits(k)' = ClearBits(k) \cup {BitIn(k, k, i)}
                 /\ \A j \in DOMAIN zones : j # k =>
                      ClearBits(j)' = ClearBits(j)
      <3>1. \A j \in DOMAIN zones : Offsets(zones'[j]) = Offsets(zones[j])
        BY <2>4, ShapeKept
      <3>2. \A j \in DOMAIN zones : ClearBits(j)'
              = Offsets(zones[j]) \ (zones[j].bits \ {BitIn(j, k, i)})
        BY <2>2, <2>3, <3>1 DEF ClearBits
      <3>3. /\ BitIn(k, k, i) \in Offsets(zones[k])
            /\ \A j \in DOMAIN zones : j # k =>
                 BitIn(j, k, i) \notin Offsets(zones[j])
        BY <2>6, <2>7
      <3> HIDE DEF i
      <3>4. ClearBits(k)' = ClearBits(k) \cup {BitIn(k, k, i)}
        BY <3>2, <3>3 DEF ClearBits
      <3>5. ASSUME NEW j \in DOMAIN zones, j # k
            PROVE  ClearBits(j)' = ClearBits(j)
        BY <3>2, <3>3, <3>5 DEF ClearBits
      <3>6. QED
        BY <3>4, <3>5
    <2> HIDE DEF i
    <2>8. QED
      BY <2>2, <2>4, <2>5, <2>6, <2>7
  <1>3. QED
    BY <1>1, <1>2

\* Free: the bit it clears is that of a usable block, which nobody holds now.
LEMMA FreeInv ==
  ASSUME IInv, TypeOK', NEW f \in held, Free(f)
  PROVE  /\ IInv'
         /\ damage' = "none" => damage = "none" /\ Usable' = Usable
  <1>1. /\ TypeOK /\ Geometry /\ pc = "ready" /\ pc' = "ready"
        /\ held' = held \ {f} /\ pmm_free(Address(f), f)
    BY DEF Free, Serving, IInv
  <1>2. SameShape /\ (damage' = "none" => damage = "none")
    BY <1>1, FreeEffect
  <1>3. /\ DOMAIN zones' = DOMAIN zones
        /\ Usable' = Usable
        /\ \A j \in DOMAIN zones :
             /\ Offsets(zones'[j]) = Offsets(zones[j])
             /\ zones'[j].length = zones[j].length
             /\ \A o \in Offsets(zones[j]) :
                  /\ Address(<<j, o>>)' = Address(<<j, o>>)
                  /\ Reserved(<<j, o>>)' <=> Reserved(<<j, o>>)
    BY <1>1, <1>2, ShapeKept, OffsetType DEF SameShape
  <1>4. Geometry'
    BY <1>1, <1>2, <1>3 DEF Geometry, SameShape
  <1>5. BeforeReady' /\ SomeZone' /\ IsFiniteSet(held')
    BY <1>1, <1>3, FS_RemoveElement DEF BeforeReady, SomeZone, IInv, Free,
       Serving
  <1>6. ASSUME damage' = "none"
        PROVE  /\ held' \subseteq Usable'
               /\ \A j \in DOMAIN zones' :
                    /\ ClearBits(j)' = ExpectedClear(j)'
                    /\ zones'[j].free + Cardinality(HeldIn(j)') = zones'[j].length
    <2>1. /\ held \subseteq Usable
          /\ \A j \in DOMAIN zones :
               /\ ClearBits(j) = ExpectedClear(j)
               /\ zones[j].free + Cardinality(HeldIn(j)) = zones[j].length
      BY <1>2, <1>6 DEF IInv, Records
    <2>2. f \in Usable /\ f \in Frames
      BY <2>1 DEF Usable
    <2>3. PICK m \in DOMAIN zones : \E o \in Offsets(zones[m]) : f = <<m, o>>
      BY <1>1, <2>2, FrameForm
    <2>4. Address(f) \in Int
      <3>1. zones[m] \in Zone /\ f[2] \in Nat /\ f[1] = m
        BY <1>1, <2>3, OffsetType DEF TypeOK
      <3>2. QED
        BY <3>1, ProductType, SizesAssumption DEF Address, GET_ADDRESS, Zone
    <2>5. PICK k \in DOMAIN zones : \E i \in Offsets(zones[k]) :
            /\ f = <<k, i>>
            /\ zones'[k].free = (zones[k].free + 1) % ADDRESSES
            /\ \A j \in DOMAIN zones : j # k => zones'[j].free = zones[j].free
            /\ ClearBits(k)' = ClearBits(k) \cup {i}
            /\ \A j \in DOMAIN zones : j # k => ClearBits(j)' = ClearBits(j)
      <3>1. zones # <<>>
        BY <2>3
      <3>2. QED
        BY <1>1, <1>6, <2>4, <3>1, FreeEffect
    <2>6. PICK i \in Offsets(zones[k]) :
            /\ f = <<k, i>>
            /\ zones'[k].free = (zones[k].free + 1) % ADDRESSES
            /\ \A j \in DOMAIN zones : j # k => zones'[j].free = zones[j].free
            /\ ClearBits(k)' = ClearBits(k) \cup {i}
            /\ \A j \in DOMAIN zones : j # k => ClearBits(j)' = ClearBits(j)
      BY <2>5
    <2>7. ASSUME NEW j \in DOMAIN zones
          PROVE  /\ ClearBits(j)' = ExpectedClear(j)'
                 /\ zones'[j].free + Cardinality(HeldIn(j)') = zones'[j].length
      <3>1. CASE j # k
        <4>1. HeldIn(j)' = HeldIn(j)
          BY <1>1, <2>6, <3>1 DEF HeldIn
        <4>2. \A o \in Offsets(zones[j]) :
                <<j, o>> \in held' <=> <<j, o>> \in held
          BY <1>1, <2>6, <3>1
        <4>3. ExpectedClear(j)' = ExpectedClear(j)
          BY <1>1, <1>3, <4>2 DEF ExpectedClear, Decided
        <4>4. QED
          BY <1>3, <2>1, <2>6, <3>1, <4>1, <4>3
      <3>2. CASE j = k
        <4>1. \A o \in Offsets(zones[k]) :
                <<k, o>> \in held' <=> <<k, o>> \in held /\ o # i
          BY <1>1, <2>6
        <4>2. i < zones[k].length /\ ~Reserved(<<k, i>>) /\ <<k, i>> \in held
          BY <1>1, <2>2, <2>6, UsableForm
        <4>3. Address(<<k, i>>) # 0
          BY <4>2 DEF Reserved
        <4>4. ExpectedClear(k)' = ExpectedClear(k) \cup {i}
          BY <1>1, <1>3, <4>1, <4>2, <4>3 DEF ExpectedClear, Decided
        <4>5. HeldIn(k)' = HeldIn(k) \ {f} /\ f \in HeldIn(k)
          BY <1>1, <2>6 DEF HeldIn
        <4>6. IsFiniteSet(HeldIn(k))
          BY FS_Subset DEF HeldIn, IInv
        <4>7. /\ Cardinality(HeldIn(k)) \in Nat
              /\ Cardinality(HeldIn(k)') \in Nat
              /\ Cardinality(HeldIn(k)') = Cardinality(HeldIn(k)) - 1
          BY <4>5, <4>6, FS_RemoveElement, FS_CardinalityType
        <4>8. zones[k].free \in Nat /\ zones[k].length < ADDRESSES
              /\ zones[k].length \in Nat
          <5>1. zones[k] \in Zone
            BY <1>1 DEF TypeOK
          <5>2. QED
            BY <1>1, <5>1 DEF Zone, Geometry
        <4>9. (zones[k].free + 1) % ADDRESSES = zones[k].free + 1
          <5>1. zones[k].free + Cardinality(HeldIn(k)) = zones[k].length
            BY <2>1
          <5>2. zones[k].free + 1 < ADDRESSES
            BY <4>7, <4>8, <5>1, SizesAssumption
          <5>3. QED
            BY <4>8, <5>2, SizesAssumption
        <4>10. QED
          BY <1>3, <2>1, <2>6, <3>2, <4>4, <4>7, <4>8, <4>9
      <3>3. QED
        BY <3>1, <3>2
    <2>8. QED
      BY <1>1, <1>3, <2>1, <2>7
  <1>7. Records'
    BY <1>6 DEF Records
  <1>8. QED
    BY <1>2, <1>3, <1>4, <1>5, <1>7 DEF IInv

\* FreeNull: NULL is no frame, so the call damages a bitmap or worse.
LEMMA FreeNullInv ==
  ASSUME IInv, TypeOK', FreeNull
  PROVE  IInv' /\ damage' # "none"
  <1>1. /\ TypeOK /\ Geometry /\ pc = "ready" /\ pc' = "ready"
        /\ held' = held /\ pmm_free(0, ret) /\ ret[1] = 0
    BY DEF FreeNull, Serving, IInv, Nulls, NoFreeZone, NoFreeWord
  <1>2. SameShape /\ (damage' = "none" => damage = "none")
    BY <1>1, FreeEffect
  <1>3. Geometry'
    BY <1>1, <1>2, ShapeKept DEF Geometry, SameShape
  <1>4. damage' # "none"
    <2>1. SUFFICES ASSUME damage' = "none" PROVE FALSE
      OBVIOUS
    <2>2. zones # <<>>
      BY DEF FreeNull, Serving, IInv, SomeZone
    <2>3. QED
      <3>1. PICK k \in DOMAIN zones : \E i : ret = <<k, i>>
        BY <1>1, <2>1, <2>2, FreeEffect
      <3>2. k \in Nat \ {0}
        BY <1>1 DEF TypeOK
      <3>3. QED
        BY <1>1, <3>1, <3>2
  <1>5. SomeZone'
    BY <1>1, <1>2, ShapeKept DEF FreeNull, Serving, IInv, SomeZone
  <1>6. QED
    BY <1>1, <1>3, <1>4, <1>5 DEF IInv, Records, BeforeReady

\* Every step of PMM keeps the inductive invariant.
LEMMA InvStep == IInv /\ [Next]_vars => IInv'
  <1> SUFFICES ASSUME IInv, [Next]_vars PROVE IInv'
    OBVIOUS
  <1>1. TypeOK'
    BY TypeStep DEF IInv
  <1>2. ASSUME UNCHANGED <<zones, held, ret, damage>>,
               pc' = pc \/ pc' \in {"abort", "runaway"},
               pc' = pc /\ pc = "reserve" => cursor' = cursor,
               pc' # pc => pc = "scan"
        PROVE  IInv'
    <2>1. \A k \in DOMAIN zones : Decided(k)' <=> Decided(k)
      BY <1>2 DEF Decided
    <2>2. Records' /\ Geometry'
      BY <1>2, <2>1, RecordsUnchanged
    <2>3. BeforeReady' /\ SomeZone' /\ IsFiniteSet(held')
      BY <1>2 DEF BeforeReady, SomeZone, IInv
    <2>4. QED
      BY <1>1, <2>2, <2>3 DEF IInv
  <1>3. CASE NoMemoryMap \/ SkipSection \/ RunAway
    BY <1>2, <1>3 DEF NoMemoryMap, SkipSection, RunAway, AtSection
  <1>4. CASE AddZone
    BY <1>1, <1>4, AddZoneInv
  <1>5. CASE EndScan \/ EndReserve
    BY <1>1, <1>5, PhaseInv
  <1>6. CASE ReserveZone
    BY <1>1, <1>6, ReserveZoneInv
  <1>7. CASE AllocNoZone \/ AllocNoWord
    <2>1. /\ UNCHANGED <<zones, held, damage, pc, cursor>> /\ pc = "ready"
      BY <1>7 DEF AllocNoZone, AllocNoWord, Serving
    <2>2. Records' /\ Geometry'
      BY <2>1, RecordsUnchanged DEF Decided
    <2>3. BeforeReady' /\ SomeZone' /\ IsFiniteSet(held')
      BY <2>1 DEF BeforeReady, SomeZone, IInv
    <2>4. QED
      BY <1>1, <2>2, <2>3 DEF IInv
  <1>8. CASE AllocBlock
    BY <1>1, <1>8, AllocBlockInv
  <1>9. ASSUME NEW f \in held, Free(f) PROVE IInv'
    BY <1>1, <1>9, FreeInv
  <1>10. CASE FreeNull
    BY <1>1, <1>10, FreeNullInv
  <1>11. CASE Stopped \/ UNCHANGED vars
    BY <1>2, <1>11 DEF Stopped, vars
  <1>12. QED
    BY <1>3, <1>4, <1>5, <1>6, <1>7, <1>8, <1>9, <1>10, <1>11 DEF Next

(***************************************************************************)
(* From init_pmm's first section to the last pmm_free, the records of a    *)
(* sound allocator say of every block what is true of it.                  *)
(***************************************************************************)
THEOREM Inductive == Spec => []IInv
  BY InvInit, InvStep, PTL DEF Spec

(***************************************************************************)
(* While no call has written outside its own bitmap, pmm_alloc and         *)
(* pmm_free hand out no block twice, none of the kernel's, and lose none.  *)
(***************************************************************************)
THEOREM BitmapIsExact == Spec => []BitmapExact
  <1>1. IInv => BitmapExact
    <2> SUFFICES ASSUME IInv, Trusted
                 PROVE  /\ held \subseteq Usable
                        /\ {f \in Frames : f[2] \notin zones[f[1]].bits}
                             = Usable \ held
      BY DEF BitmapExact
    <2>1. /\ TypeOK /\ held \subseteq Usable
          /\ \A k \in DOMAIN zones : ClearBits(k) = ExpectedClear(k)
      BY DEF IInv, Records, Trusted
    <2>2. ASSUME NEW k \in DOMAIN zones, NEW i \in Offsets(zones[k])
          PROVE  i \notin zones[k].bits <=> <<k, i>> \in Usable \ held
      <3>1. i \notin zones[k].bits <=> i \in ExpectedClear(k)
        BY <2>1 DEF ClearBits
      <3>2. Decided(k) /\ (Address(<<k, i>>) = 0 => Reserved(<<k, i>>))
        BY DEF Decided, Trusted, Reserved
      <3>3. <<k, i>> \in Usable <=> i < zones[k].length /\ ~Reserved(<<k, i>>)
        BY <2>1, UsableForm
      <3>4. QED
        BY <3>1, <3>2, <3>3 DEF ExpectedClear
    <2>3. \A f \in Frames :
            f[2] \notin zones[f[1]].bits <=> f \in Usable \ held
      BY <2>1, <2>2, FrameForm
    <2>4. Usable \subseteq Frames
      BY DEF Usable
    <2>5. QED
      BY <2>1, <2>3, <2>4
  <1>2. QED
    BY <1>1, Inductive, PTL

(***************************************************************************)
(* The counters of a sound allocator: length less the blocks handed out.   *)
(***************************************************************************)
THEOREM CountersAdd == Spec => []FreeAccounting
  <1>1. IInv => FreeAccounting
    BY DEF IInv, Records, Trusted, FreeAccounting
  <1>2. QED
    BY <1>1, Inductive, PTL

-----------------------------------------------------------------------------
(***************************************************************************)
(* The bytes of the blocks                                                 *)
(***************************************************************************)

\* The zone init_pmm makes of a section covers it.
OfSection(z, s) ==
  /\ Available(s)
  /\ z.start = s.base_low
  /\ z.end = s.base_low + s.length_low - 1

(***************************************************************************)
(* If the sections of the map share no byte, the zones share none.  While  *)
(* the map is read they are those of sections that come before the cursor. *)
(***************************************************************************)
ZonesApart ==
  Disjoint =>
    /\ \A j, k \in DOMAIN zones : j # k =>
         zones[j].end < zones[k].start \/ zones[k].end < zones[j].start
    /\ pc = "scan" => \A k \in DOMAIN zones : \E n \in DOMAIN mmap.sections :
         n < cursor /\ OfSection(zones[k], mmap.sections[n])

\* A step that makes no zone keeps them apart.
LEMMA ApartKept ==
  ASSUME TypeOK, ZonesApart, SameShape \/ zones' = zones, TypeOK',
         mmap' = mmap, pc' = "scan" => pc = "scan" /\ cursor <= cursor'
  PROVE  ZonesApart'
  <1>1. SUFFICES ASSUME Disjoint' PROVE ZonesApart'
    BY DEF ZonesApart
  <1>2. Disjoint
    BY <1>1 DEF Disjoint
  <1>3. /\ DOMAIN zones' = DOMAIN zones
        /\ \A k \in DOMAIN zones : /\ zones'[k].start = zones[k].start
                                   /\ zones'[k].end = zones[k].end
    <2>1. CASE zones' = zones
      BY <2>1
    <2>2. CASE SameShape
      BY <2>2, ShapeKept DEF SameShape
    <2> QED
      BY <2>1, <2>2
  <1>4. \A j, k \in DOMAIN zones' : j # k =>
          zones'[j].end < zones'[k].start \/ zones'[k].end < zones'[j].start
    BY <1>2, <1>3 DEF ZonesApart
  <1>5. ASSUME pc' = "scan", NEW k \in DOMAIN zones'
        PROVE  \E n \in DOMAIN mmap.sections :
                 n < cursor' /\ OfSection(zones'[k], mmap.sections[n])
    <2>1. PICK n \in DOMAIN mmap.sections :
            n < cursor /\ OfSection(zones[k], mmap.sections[n])
      BY <1>2, <1>3, <1>5 DEF ZonesApart
    <2>2. n \in Nat /\ cursor \in Nat /\ cursor' \in Nat
      BY MapsAssumption DEF TypeOK
    <2>3. n < cursor'
      BY <1>5, <2>1, <2>2
    <2>4. OfSection(zones'[k], mmap.sections[n])
      BY <1>3, <1>5, <2>1 DEF OfSection
    <2> QED
      BY <2>3, <2>4
  <1> QED
    BY <1>4, <1>5 DEF ZonesApart

\* AddZone: the new zone's section is none of those the others are of.
LEMMA AddZoneApart ==
  ASSUME TypeOK, ZonesApart, AddZone
  PROVE  ZonesApart'
  <1> DEFINE s == mmap.sections[cursor]
             last == Len(zones) + 1
  <1>1. PICK garbage : zones' = Append(zones, NewZone(s, garbage))
    BY DEF AddZone
  <1> DEFINE z == NewZone(s, garbage)
  <1>2. /\ AtSection /\ Available(s) /\ mmap' = mmap /\ pc = "scan" /\ pc' = "scan"
        /\ cursor' = cursor + 1 /\ cursor \in DOMAIN mmap.sections
        /\ cursor \in Nat /\ s.length_low >= BLOCK_SIZE
    BY DEF AddZone, AtSection, TypeOK
  <1>3. OfSection(z, s)
    BY <1>2 DEF OfSection, NewZone
  <1> HIDE DEF z
  <1>4. /\ DOMAIN zones = 1 .. Len(zones) /\ Len(zones) \in Nat
        /\ DOMAIN zones' = 1 .. last
        /\ zones'[last] = z
        /\ \A k \in DOMAIN zones : zones'[k] = zones[k]
    BY <1>1 DEF TypeOK, z
  <1>5. s.base_low \in Nat /\ s.length_low \in Nat
    BY <1>2, SectionType
  <1>6. SUFFICES ASSUME Disjoint' PROVE ZonesApart'
    BY DEF ZonesApart
  <1>7. Disjoint
    BY <1>2, <1>6 DEF Disjoint
  <1>8. ASSUME NEW k \in DOMAIN zones
        PROVE  /\ \E n \in DOMAIN mmap.sections :
                    n < cursor /\ OfSection(zones'[k], mmap.sections[n])
               /\ zones'[k].end < z.start \/ z.end < zones'[k].start
    <2>1. PICK n \in DOMAIN mmap.sections :
            n < cursor /\ OfSection(zones[k], mmap.sections[n])
      BY <1>2, <1>7 DEF ZonesApart
    <2> DEFINE t == mmap.sections[n]
    <2>2. n # cursor
      BY <1>2, <2>1, MapsAssumption DEF TypeOK
    <2>3. \/ t.base_low + t.length_low <= s.base_low
          \/ s.base_low + s.length_low <= t.base_low
      BY <1>2, <1>7, <2>1, <2>2 DEF Disjoint, OfSection
    <2>4. t.base_low \in Nat /\ t.length_low \in Nat
      <3>1. t \in Section
        BY MapsAssumption DEF TypeOK
      <3> QED
        BY <3>1 DEF Section, uint32
    <2>5. zones'[k] = zones[k]
      BY <1>4
    <2>6. /\ zones[k].start = t.base_low
          /\ zones[k].end = t.base_low + t.length_low - 1
          /\ z.start = s.base_low
          /\ z.end = s.base_low + s.length_low - 1
      BY <1>3, <2>1 DEF OfSection
    <2> HIDE DEF s, t
    <2> QED
      BY <1>5, <2>1, <2>3, <2>4, <2>5, <2>6 DEF t
  <1>9. \A j, k \in DOMAIN zones' : j # k =>
          zones'[j].end < zones'[k].start \/ zones'[k].end < zones'[j].start
    <2>1. \A k \in DOMAIN zones' : k \in DOMAIN zones \/ k = last
      BY <1>4
    <2>2. \A j, k \in DOMAIN zones : j # k =>
            zones'[j].end < zones'[k].start \/ zones'[k].end < zones'[j].start
      BY <1>4, <1>7 DEF ZonesApart
    <2> HIDE DEF last
    <2> QED
      BY <1>4, <1>8, <2>1, <2>2
  <1>10. \A k \in DOMAIN zones' : \E n \in DOMAIN mmap.sections :
           n < cursor + 1 /\ OfSection(zones'[k], mmap.sections[n])
    <2>1. \A n \in DOMAIN mmap.sections : n \in Nat
      BY MapsAssumption DEF TypeOK
    <2>2. ASSUME NEW k \in DOMAIN zones
          PROVE  \E n \in DOMAIN mmap.sections :
                   n < cursor + 1 /\ OfSection(zones'[k], mmap.sections[n])
      <3>1. PICK n \in DOMAIN mmap.sections :
              n < cursor /\ OfSection(zones'[k], mmap.sections[n])
        BY <1>8
      <3>2. n < cursor + 1
        BY <1>2, <2>1, <3>1
      <3> QED
        BY <3>1, <3>2
    <2>3. cursor < cursor + 1 /\ OfSection(zones'[last], mmap.sections[cursor])
      BY <1>2, <1>3, <1>4
    <2>4. \A k \in DOMAIN zones' : k \in DOMAIN zones \/ k = last
      BY <1>4
    <2> HIDE DEF last
    <2> QED
      BY <1>2, <2>2, <2>3, <2>4
  <1> QED
    BY <1>2, <1>9, <1>10 DEF ZonesApart

\* Other bits and another counter leave a zone where it is.
LEMMA SameShapeIf ==
  ASSUME TypeOK, NEW k \in DOMAIN zones, NEW b, NEW n,
         \/ zones' = [zones EXCEPT ![k].bits = b]
         \/ zones' = [zones EXCEPT ![k].bits = b, ![k].free = n]
  PROVE  SameShape
  <1>1. zones[k] \in Zone /\ DOMAIN zones = 1 .. Len(zones) /\ Len(zones) \in Nat
    BY DEF TypeOK
  <1>2. PICK new :
          /\ zones' = [zones EXCEPT ![k] = new]
          /\ new.start = zones[k].start /\ new.end = zones[k].end
          /\ new.length = zones[k].length /\ new.bitmap = zones[k].bitmap
          /\ new.bitmapWords = zones[k].bitmapWords
    <2> DEFINE new1 == [zones[k] EXCEPT !.bits = b]
               new2 == [zones[k] EXCEPT !.bits = b, !.free = n]
    <2>1. \/ zones' = [zones EXCEPT ![k] = new1]
          \/ zones' = [zones EXCEPT ![k] = new2]
      OBVIOUS
    <2>2. /\ new1.start = zones[k].start /\ new1.end = zones[k].end
          /\ new1.length = zones[k].length /\ new1.bitmap = zones[k].bitmap
          /\ new1.bitmapWords = zones[k].bitmapWords
      BY <1>1 DEF Zone
    <2>3. /\ new2.start = zones[k].start /\ new2.end = zones[k].end
          /\ new2.length = zones[k].length /\ new2.bitmap = zones[k].bitmap
          /\ new2.bitmapWords = zones[k].bitmapWords
      BY <1>1 DEF Zone
    <2> HIDE DEF new1, new2
    <2> QED
      BY <2>1, <2>2, <2>3
  <1>3. /\ DOMAIN zones' = DOMAIN zones
        /\ zones'[k] = new
        /\ \A j \in DOMAIN zones : j # k => zones'[j] = zones[j]
    BY <1>2
  <1>4. Len(zones') = Len(zones)
    BY <1>1, <1>2, <1>3, LenProperties DEF TypeOK
  <1> QED
    BY <1>2, <1>3, <1>4 DEF SameShape

\* Every step keeps the zones apart.
LEMMA ApartStep ==
  ASSUME IInv, ZonesApart, [Next]_vars
  PROVE  ZonesApart'
  <1>1. TypeOK /\ TypeOK' /\ Geometry
    BY TypeStep DEF IInv
  <1>2. CASE AddZone
    BY <1>1, <1>2, AddZoneApart
  <1>3. CASE \/ NoMemoryMap \/ SkipSection \/ RunAway \/ EndScan \/ EndReserve
             \/ AllocNoZone \/ AllocNoWord \/ Stopped \/ UNCHANGED vars
    <2>1. /\ zones' = zones /\ mmap' = mmap
          /\ pc' = "scan" => pc = "scan" /\ cursor' \in {cursor, cursor + 1}
      BY <1>3 DEF NoMemoryMap, SkipSection, RunAway, EndScan, EndReserve,
             AllocNoZone, AllocNoWord, Stopped, AtSection, Serving, vars
    <2>2. cursor \in Nat
      BY <1>1 DEF TypeOK
    <2> QED
      BY <1>1, <2>1, <2>2, ApartKept
  <1>4. CASE ReserveZone
    <2>1. SameShape \/ zones' = zones
      <3>1. CASE Overlaps(zones[cursor])
        <4> DEFINE z == zones[cursor]
                   startbit == GET_OFFSET(z.start, MAX(z.start, resStart))
                   endbit == GET_OFFSET(z.start, MIN(z.end, resEnd))
                   new == set_bits(z.bits, startbit, endbit) \cap Offsets(z)
        <4>1. cursor \in DOMAIN zones /\ zones' = [zones EXCEPT ![cursor].bits = new]
          BY <1>4, <3>1 DEF ReserveZone
        <4> HIDE DEF new
        <4> QED
          BY <1>1, <4>1, SameShapeIf
      <3>2. CASE ~Overlaps(zones[cursor])
        BY <1>4, <3>2 DEF ReserveZone
      <3> QED
        BY <3>1, <3>2
    <2>2. mmap' = mmap /\ pc' # "scan"
      BY <1>4 DEF ReserveZone
    <2> QED
      BY <1>1, <2>1, <2>2, ApartKept
  <1>5. CASE AllocBlock
    <2>1. SameShape
      <3>1. PICK k \in DOMAIN zones : \E i :
              zones' = [zones EXCEPT ![k].bits = @ \cup {i}, ![k].free = @ - 1]
        BY <1>5 DEF AllocBlock
      <3>2. PICK i :
              zones' = [zones EXCEPT ![k].bits = @ \cup {i}, ![k].free = @ - 1]
        BY <3>1
      <3> DEFINE b == zones[k].bits \cup {i}
                 n == zones[k].free - 1
      <3>3. zones' = [zones EXCEPT ![k].bits = b, ![k].free = n]
        BY <3>2
      <3> HIDE DEF b, n
      <3> QED
        BY <1>1, <3>3, SameShapeIf
    <2>2. mmap' = mmap /\ pc' # "scan"
      BY <1>5 DEF AllocBlock, Serving
    <2> QED
      BY <1>1, <2>1, <2>2, ApartKept
  <1>6. ASSUME NEW addr, NEW f, pmm_free(addr, f), mmap' = mmap, pc' # "scan"
        PROVE  ZonesApart'
    BY <1>1, <1>6, FreeEffect, ApartKept
  <1>7. ASSUME NEW f \in held, Free(f) PROVE ZonesApart'
    BY <1>6, <1>7 DEF Free, Serving
  <1>8. CASE FreeNull
    BY <1>6, <1>8 DEF FreeNull, Serving
  <1> QED
    BY <1>2, <1>3, <1>4, <1>5, <1>7, <1>8 DEF Next

\* The block of a bit ends within its zone, and after the one before it.
LEMMA BlockInZone ==
  ASSUME TypeOK, Geometry, NEW k \in DOMAIN zones, NEW i \in Nat,
         i < zones[k].length
  PROVE  /\ Address(<<k, i>>) \in Nat
         /\ zones[k].start <= Address(<<k, i>>)
         /\ Address(<<k, i>>) + BLOCK_SIZE - 1 <= zones[k].end
         /\ \A j \in Nat : j < i =>
              Address(<<k, j>>) + BLOCK_SIZE <= Address(<<k, i>>)
  <1> DEFINE z == zones[k]
  <1>1. /\ z.start \in Nat /\ z.end \in Nat /\ z.length \in Nat
        /\ BLOCK_SIZE \in Nat \ {0}
        /\ z.length * BLOCK_SIZE <= z.end - z.start + 1
    <2>1. z \in Zone
      BY DEF TypeOK
    <2> QED
      BY <2>1, SizesAssumption DEF Zone, Geometry
  <1>2. \A j \in Nat : Address(<<k, j>>) = j * BLOCK_SIZE + z.start
    BY DEF Address, GET_ADDRESS
  <1> HIDE DEF z
  <1>3. i < z.length
    BY DEF z
  <1>4. i * BLOCK_SIZE \in Nat
        /\ i * BLOCK_SIZE + BLOCK_SIZE <= z.length * BLOCK_SIZE
    BY <1>1, <1>3
  <1>5. \A j \in Nat : j < i => j * BLOCK_SIZE + BLOCK_SIZE <= i * BLOCK_SIZE
    BY <1>1
  <1>6. \A j \in Nat : j * BLOCK_SIZE \in Nat
    BY <1>1, ProductType
  <1>7. z.start <= Address(<<k, i>>) /\ Address(<<k, i>>) + BLOCK_SIZE - 1 <= z.end
        /\ Address(<<k, i>>) \in Nat
    <2> DEFINE o == i * BLOCK_SIZE
               whole == z.length * BLOCK_SIZE
    <2>1. whole \in Nat
      BY <1>1, ProductType
    <2>2. /\ Address(<<k, i>>) = o + z.start /\ o \in Nat
          /\ o + BLOCK_SIZE <= whole /\ whole <= z.end - z.start + 1
      BY <1>1, <1>2, <1>4
    <2> HIDE DEF o, whole
    <2> QED
      BY <1>1, <2>1, <2>2
  <1>8. ASSUME NEW j \in Nat, j < i
        PROVE  Address(<<k, j>>) + BLOCK_SIZE <= Address(<<k, i>>)
    <2> DEFINE o == i * BLOCK_SIZE
               p == j * BLOCK_SIZE
    <2>1. /\ Address(<<k, i>>) = o + z.start /\ o \in Nat
          /\ Address(<<k, j>>) = p + z.start /\ p \in Nat
          /\ p + BLOCK_SIZE <= o
      BY <1>2, <1>5, <1>6, <1>8
    <2> HIDE DEF o, p
    <2> QED
      BY <1>1, <2>1
  <1> QED
    BY <1>7, <1>8 DEF z

(***************************************************************************)
(* Blocks handed out share no byte of memory, for every map of sections    *)
(* that share none, and every size of a block.                             *)
(***************************************************************************)
THEOREM BlocksApart == Spec => []HeldApart
  <1>1. Init => ZonesApart
    BY DEF Init, ZonesApart
  <1>2. IInv /\ ZonesApart /\ [Next]_vars => ZonesApart'
    BY ApartStep
  <1>3. IInv /\ ZonesApart => HeldApart
    <2> SUFFICES ASSUME IInv, ZonesApart, Trusted, Disjoint,
                        NEW f \in held, NEW g \in held, f # g
                 PROVE  \/ Address(f) + BLOCK_SIZE <= Address(g)
                        \/ Address(g) + BLOCK_SIZE <= Address(f)
      BY DEF HeldApart
    <2>1. TypeOK /\ Geometry /\ held \subseteq Usable
      BY DEF IInv, Records, Trusted
    <2>2. ASSUME NEW h \in held
          PROVE  /\ h = <<h[1], h[2]>> /\ h[1] \in DOMAIN zones /\ h[2] \in Nat
                 /\ h[2] < zones[h[1]].length
      <3>1. h \in Frames /\ h[2] < zones[h[1]].length
        BY <2>1 DEF Usable
      <3>2. PICK k \in DOMAIN zones : \E i \in Offsets(zones[k]) : h = <<k, i>>
        BY <2>1, <3>1, FrameForm
      <3> QED
        BY <2>1, <3>1, <3>2, OffsetType
    <2> DEFINE k == f[1]
               i == f[2]
               l == g[1]
               j == g[2]
    <2>3. /\ f = <<k, i>> /\ k \in DOMAIN zones /\ i \in Nat /\ i < zones[k].length
          /\ g = <<l, j>> /\ l \in DOMAIN zones /\ j \in Nat /\ j < zones[l].length
      BY <2>2
    <2> HIDE DEF k, i, l, j
    <2>4. CASE k = l
      <3>1. i < j \/ j < i
        BY <2>3, <2>4
      <3> QED
        BY <2>1, <2>3, <2>4, <3>1, BlockInZone
    <2>5. CASE k # l
      <3>1. zones[k].end < zones[l].start \/ zones[l].end < zones[k].start
        BY <2>3, <2>5 DEF ZonesApart
      <3>2. /\ Address(f) \in Nat /\ zones[k].start <= Address(f)
            /\ Address(f) + BLOCK_SIZE - 1 <= zones[k].end
            /\ Address(g) \in Nat /\ zones[l].start <= Address(g)
            /\ Address(g) + BLOCK_SIZE - 1 <= zones[l].end
        BY <2>1, <2>3, BlockInZone
      <3>3. /\ zones[k].start \in Nat /\ zones[k].end \in Nat
            /\ zones[l].start \in Nat /\ zones[l].end \in Nat
            /\ BLOCK_SIZE \in Nat
        <4>1. zones[k] \in Zone /\ zones[l] \in Zone
          BY <2>1, <2>3 DEF TypeOK
        <4> QED
          BY <4>1, SizesAssumption DEF Zone
      <3> QED
        BY <3>1, <3>2, <3>3
    <2> QED
      BY <2>4, <2>5
  <1> QED
    BY <1>1, <1>2, <1>3, Inductive, PTL DEF Spec

-----------------------------------------------------------------------------
(***************************************************************************)
(* init_pmm, pmm_alloc and pmm_free implement the abstract allocator.      *)
(***************************************************************************)
THEOREM Refinement == Spec => Implements
  <1>1. Init => Abstract!Init
    BY DEF Init, Abstract!Init
  <1>2. IInv /\ [Next]_vars => [Abstract!Next]_Abstract!vars
    <2> SUFFICES ASSUME IInv, [Next]_vars
                 PROVE  Abstract!Next \/ UNCHANGED Abstract!vars
      OBVIOUS
    <2>1. TypeOK'
      BY TypeStep DEF IInv
    <2>2. CASE damage' # "none"
      BY <2>2 DEF Abstract!Next, Abstract!Break
    <2>3. zones' = zones => Usable' = Usable
      BY DEF Usable, Frames, Offsets, Reserved, resStart, resEnd, Address,
             GET_ADDRESS, StructureWords
    <2>4. ASSUME damage' = damage, pc' # "ready", pc # "ready",
                 UNCHANGED <<held, ret>>
          PROVE  UNCHANGED Abstract!vars
      BY <2>4 DEF Abstract!vars
    <2>5. CASE damage' = "none" /\ EndReserve
      BY <2>5 DEF EndReserve, Abstract!Next, Abstract!Open
    <2>6. CASE damage' = "none" /\ (AllocNoZone \/ AllocNoWord)
      <3>1. /\ pc = "ready" /\ ret' \in Nulls
            /\ UNCHANGED <<zones, pc, held, damage>>
        BY <2>6 DEF AllocNoZone, AllocNoWord, Serving, Nulls
      <3>2. Abstract!Fail
        BY <2>3, <3>1 DEF Abstract!Fail
      <3>3. QED
        BY <3>2 DEF Abstract!Next
    <2>7. CASE damage' = "none" /\ AllocBlock
      <3>1. /\ damage = "none" /\ damage' = "none"
            /\ pc = "ready" /\ pc' = "ready"
        BY <2>7 DEF AllocBlock, Serving
      <3>2. PICK f \in Usable \ held :
              held' = held \cup {f} /\ ret' = f /\ Usable' = Usable
        BY <2>1, <2>7, <3>1, AllocBlockInv
      <3>3. Abstract!Alloc(f)
        BY <3>1, <3>2 DEF Abstract!Alloc
      <3>4. QED
        BY <3>1, <3>2, <3>3 DEF Abstract!Next
    <2>8. ASSUME NEW f \in held, damage' = "none", Free(f)
          PROVE  Abstract!Next
      <3>1. damage = "none" /\ Usable' = Usable
        BY <2>1, <2>8, FreeInv
      <3>2. Abstract!Free(f)
        BY <2>8, <3>1 DEF Free, Serving, Abstract!Free
      <3>3. QED
        BY <3>2 DEF Abstract!Next
    <2>9. CASE damage' = "none" /\ FreeNull
      BY <2>1, <2>9, FreeNullInv
    <2>10. CASE damage' = "none" /\ (ReserveZone \/ EndScan)
      BY <2>4, <2>10 DEF ReserveZone, EndScan
    <2>11. CASE NoMemoryMap \/ SkipSection \/ AddZone \/ RunAway
      BY <2>4, <2>11 DEF NoMemoryMap, SkipSection, AddZone, RunAway, AtSection
    <2>12. CASE Stopped \/ UNCHANGED vars
      BY <2>3, <2>12 DEF Stopped, vars, Abstract!vars
    <2>13. QED
      BY <2>2, <2>5, <2>6, <2>7, <2>8, <2>9, <2>10, <2>11, <2>12 DEF Next
  <1>3. QED
    BY <1>1, <1>2, Inductive, PTL DEF Spec, Implements, Abstract!Spec

=============================================================================
