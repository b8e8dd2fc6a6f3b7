------------------------- MODULE SetReservedRegions -------------------------
(***************************************************************************)
(* BitlockerStream.setReservedRegions (bde.go), one step per iteration of  *)
(* its loops: the regions of the volume are filtered into the slice out,   *)
(* out is sorted by start sector, and overlapping or adjacent regions are  *)
(* merged into the slice merged.                                           *)
(*                                                                         *)
(* merged is made by out[:0]: it shares the array of out, so appending to  *)
(* merged overwrites elements of the slice the loop still ranges over.     *)
(* Here out is that one array, merged is its first m elements, and i is    *)
(* the element the range loop reads next.                                  *)
(***************************************************************************)
EXTENDS Regions

CONSTANTS
  Volumes,   \* the parsed volumes a stream may be opened on
  Sectors    \* the sectors the properties speak about

ASSUME VolumesAssumption == Volumes \subseteq Volume
ASSUME SectorsAssumption == Sectors \subseteq Int

VARIABLES
  vol,       \* the volume
  pc,        \* "start", "filter", "merge" or "done"
  regions,   \* the argument, as ReservedRegions returns it
  k,         \* next element of regions to filter
  out,       \* the array shared by out and merged
  i,         \* next element of out to merge
  m,         \* len(merged)
  reserved   \* bs.reserved

vars == <<vol, pc, regions, k, out, i, m, reserved>>

Init ==
  /\ vol \in Volumes
  /\ pc = "start"
  /\ regions = ReservedRegions(vol)
  /\ k = 1
  /\ out = <<>>
  /\ i = 1
  /\ m = 0
  /\ reserved = <<>>

(* len(regions) == 0: the table is nil. *)
NoRegions ==
  /\ pc = "start"
  /\ Len(regions) = 0
  /\ reserved' = <<>>
  /\ pc' = "done"
  /\ UNCHANGED <<vol, regions, k, out, i, m>>

Start ==
  /\ pc = "start"
  /\ Len(regions) # 0
  /\ pc' = "filter"
  /\ UNCHANGED <<vol, regions, k, out, i, m, reserved>>

(* Mutant of FilterSkip: the region after an empty one is skipped too. *)
FilterSkip_two ==
  /\ pc = "filter"
  /\ k <= Len(regions)
  /\ regions[k][2] <= 0
  /\ k' = k + 2
  /\ UNCHANGED <<vol, pc, regions, out, i, m, reserved>>

(* A region without sectors is skipped. *)
FilterSkip ==
  /\ pc = "filter"
  /\ k <= Len(regions)
  /\ regions[k][2] <= 0
  /\ k' = k + 1
  /\ UNCHANGED <<vol, pc, regions, out, i, m, reserved>>

FilterKeep ==
  /\ pc = "filter"
  /\ k <= Len(regions)
  /\ ~(regions[k][2] <= 0)
  /\ out' = Append(out, [startSector |-> regions[k][1],
                         endSector   |-> regions[k][1] + regions[k][2]])
  /\ k' = k + 1
  /\ UNCHANGED <<vol, pc, regions, i, m, reserved>>

(***************************************************************************)
(* sort.Slice by startSector. It is not stable: elements with equal start  *)
(* sectors may end up in any order, so any sorted permutation is possible. *)
(***************************************************************************)
SortedFrom(s, lo) ==
  \A a, b \in lo..Len(s) : a < b => s[a].startSector <= s[b].startSector

Rearrangements(n) ==
  {p \in [1..n -> 1..n] : \A x \in 1..n : \E y \in 1..n : p[y] = x}

SortSlice ==
  /\ pc = "filter"
  /\ k > Len(regions)
  /\ \E p \in Rearrangements(Len(out)) :
        LET s == [j \in 1..Len(out) |-> out[p[j]]]
        IN  /\ SortedFrom(s, 1)
            /\ out' = s
  /\ pc' = "merge"
  /\ i' = 1
  /\ m' = 0
  /\ UNCHANGED <<vol, regions, k, reserved>>

(* len(merged) == 0: the first region is kept as it is. *)
MergeFirst ==
  /\ pc = "merge"
  /\ i <= Len(out)
  /\ m = 0
  /\ out' = [out EXCEPT ![m + 1] = out[i]]
  /\ m' = m + 1
  /\ i' = i + 1
  /\ UNCHANGED <<vol, pc, regions, k, reserved>>

(* Mutant of MergeAppend: a region that touches the last one is appended. *)
MergeAppend_touching ==
  /\ pc = "merge"
  /\ i <= Len(out)
  /\ m # 0
  /\ ~(out[i].startSector < out[m].endSector)
  /\ out' = [out EXCEPT ![m + 1] = out[i]]
  /\ m' = m + 1
  /\ i' = i + 1
  /\ UNCHANGED <<vol, pc, regions, k, reserved>>

(* It starts beyond the end of the last merged region: append it. *)
MergeAppend ==
  /\ pc = "merge"
  /\ i <= Len(out)
  /\ m # 0
  /\ ~(out[i].startSector <= out[m].endSector)
  /\ out' = [out EXCEPT ![m + 1] = out[i]]
  /\ m' = m + 1
  /\ i' = i + 1
  /\ UNCHANGED <<vol, pc, regions, k, reserved>>

(* Mutant of MergeExtend: the end of the merged region is not moved. *)
MergeExtend_keepsEnd ==
  /\ pc = "merge"
  /\ i <= Len(out)
  /\ m # 0
  /\ out[i].startSector <= out[m].endSector
  /\ out[i].endSector > out[m].endSector
  /\ i' = i + 1
  /\ UNCHANGED <<vol, pc, regions, k, out, m, reserved>>

(* It overlaps or touches the last merged region and reaches further. *)
MergeExtend ==
  /\ pc = "merge"
  /\ i <= Len(out)
  /\ m # 0
  /\ out[i].startSector <= out[m].endSector
  /\ out[i].endSector > out[m].endSector
  /\ out' = [out EXCEPT ![m].endSector = out[i].endSector]
  /\ i' = i + 1
  /\ UNCHANGED <<vol, pc, regions, k, m, reserved>>

(* It lies inside the last merged region. *)
MergeAbsorb ==
  /\ pc = "merge"
  /\ i <= Len(out)
  /\ m # 0
  /\ out[i].startSector <= out[m].endSector
  /\ ~(out[i].endSector > out[m].endSector)
  /\ i' = i + 1
  /\ UNCHANGED <<vol, pc, regions, k, out, m, reserved>>

Finish ==
  /\ pc = "merge"
  /\ i > Len(out)
  /\ reserved' = SubSeq(out, 1, m)
  /\ pc' = "done"
  /\ UNCHANGED <<vol, regions, k, out, i, m>>

Next ==
  \/ NoRegions \/ Start
  \/ FilterSkip \/ FilterKeep
  \/ SortSlice
  \/ MergeFirst \/ MergeAppend \/ MergeExtend \/ MergeAbsorb
  \/ Finish

Spec == Init /\ [][Next]_vars

---------------------------------------------------------------------------
(* Types, and the range of the loop indices. *)
TypeOK ==
  /\ vol \in Volumes
  /\ pc \in {"start", "filter", "merge", "done"}
  /\ regions \in Seq(Int \X Int)
  /\ k \in 1..(Len(regions) + 1)
  /\ out \in Seq(Region)
  /\ i \in 1..(Len(out) + 1)
  /\ m \in 0..Len(out)
  /\ reserved \in Seq(Region)

(***************************************************************************)
(* Appending to merged never overtakes the range loop: when the loop reads *)
(* element i, the elements from i on are still the ones that were sorted   *)
(* there, although merged shares their array.                              *)
(***************************************************************************)
NoOvertaking == pc = "merge" => m < i

(***************************************************************************)
(* Between two iterations no sector is lost and none is added: the merged  *)
(* prefix and the elements still to be read cover exactly the regions of   *)
(* the volume, whatever has been overwritten in between.                   *)
(***************************************************************************)
NoSectorLost ==
  pc = "merge" =>
     \A s \in Sectors :
        CoveredByPairs(regions, s)
          <=> \E j \in (1..m) \union (i..Len(out)) : InRegion(out[j], s)

(* The table is sorted, with a gap between any two regions: sort.Search's  *)
(* precondition in isReservedSector and nextUnreservedOffset.              *)
TableSeparated == pc = "done" => Separated(reserved)

(***************************************************************************)
(* isReservedSector answers TRUE for exactly the sectors of the regions    *)
(* that ReservedRegions returned: merging and binary search lose nothing.  *)
(***************************************************************************)
LookupExact ==
  pc = "done" =>
     \A s \in Sectors : isReservedSector(reserved, s) <=> CoveredByPairs(regions, s)

(***************************************************************************)
(* From a reserved sector, nextUnreservedOffset jumps to the first byte    *)
(* after it that is not reserved: everything skipped is metadata and the   *)
(* place it lands on is not.                                               *)
(***************************************************************************)
SkipsExactlyMetadata ==
  pc = "done" =>
     \A s \in Sectors :
        LET off  == s * vol.sectorSize
            next == nextUnreservedOffset(reserved, vol.sectorSize, off) \div vol.sectorSize
        IN  /\ ~CoveredByPairs(regions, next)
            /\ \A t \in Sectors : s <= t /\ t < next => CoveredByPairs(regions, t)

(***************************************************************************)
(* nextReservedStartOffset, asked from an unreserved sector, names the     *)
(* first reserved sector after it: nothing in between is metadata.         *)
(***************************************************************************)
NextMetadataIsNext ==
  pc = "done" =>
     \A s \in Sectors :
        LET next == nextReservedStartOffset(reserved, vol.sectorSize, s * vol.sectorSize)
        IN  ~CoveredByPairs(regions, s) =>
              IF next = -1
                THEN \A t \in Sectors : s <= t => ~CoveredByPairs(regions, t)
                ELSE /\ CoveredByPairs(regions, next \div vol.sectorSize)
                     /\ \A t \in Sectors :
                          s <= t /\ t < next \div vol.sectorSize => ~CoveredByPairs(regions, t)

(***************************************************************************)
(* Metadata that fits into the size ReservedRegions assumes, at aligned    *)
(* offsets, never shows through the decrypted view.                        *)
(***************************************************************************)
AlignedBlocks ==
  \A j \in 1..3 : vol.offsets[j] % vol.sectorSize = 0

SmallMetadataReserved ==
  (/\ pc = "done"
   /\ vol.version >= 1
   /\ AlignedBlocks
   /\ InformationBlockHeaderSize + vol.metadataSize <= 16384) =>
     \A s \in MetadataSectors(vol) : isReservedSector(reserved, s)

(***************************************************************************)
(* "metadata regions are zero-filled" (README.md:9): every sector of every *)
(* metadata block NewInformation accepts is reserved.                      *)
(***************************************************************************)
MetadataReserved ==
  (pc = "done" /\ AcceptedMetadataSize(vol.metadataSize)) =>
     \A s \in MetadataSectors(vol) : isReservedSector(reserved, s)
=============================================================================
