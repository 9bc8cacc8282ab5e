------------------------------- MODULE MCPMM -------------------------------
(***************************************************************************)
(* Small machines for PMM: blocks of 4 bytes, words of 2 bits that take    *)
(* one byte, headers of 2 words.                                           *)
(***************************************************************************)
EXTENDS PMM

Map(sections) == [valid |-> TRUE, sections |-> sections]

RAM(base, length) ==
  [base_low |-> base, base_high |-> 0, length_low |-> length, type |-> 1]

Hole(base, length) ==
  [base_low |-> base, base_high |-> 0, length_low |-> length, type |-> 2]

\* Memory from 4 GiB up: its low half of the address is 0.
HighRAM == [base_low |-> 0, base_high |-> 1, length_low |-> 8, type |-> 1]

(***************************************************************************)
(* Low memory of three blocks and a partial one, a hole, and the memory    *)
(* the kernel is in: the map a PC reports, to scale.                       *)
(***************************************************************************)
PCMap == Map(<<RAM(0, 14), Hole(14, 2), RAM(16, 28), HighRAM>>)

\* One zone from 0, its block 0 and the kernel's blocks reserved.
FlatMap == Map(<<RAM(0, 40)>>)

\* One zone that starts above 0, off the grid of blocks.
RaisedMap == Map(<<Hole(0, 10), RAM(10, 32)>>)

\* Three zones, the kernel in the middle one.
ThreeZones == Map(<<RAM(4, 8), RAM(16, 20), RAM(40, 12)>>)

\* Two zones without a gap, a partial block of the first in between.
TightMap == Map(<<RAM(2, 10), RAM(12, 26)>>)

TwoZoneMaps == {PCMap, ThreeZones, TightMap}
OneZoneMaps == {FlatMap, RaisedMap}

\* No map, a map without available memory, one with a scrap of a section.
OddMaps ==
  {[valid |-> FALSE, sections |-> <<>>],
   Map(<<Hole(0, 8)>>),
   Map(<<RAM(4, 8), RAM(14, 3), RAM(20, 12)>>)}

AllMaps == TwoZoneMaps \cup OneZoneMaps \cup OddMaps
=============================================================================
