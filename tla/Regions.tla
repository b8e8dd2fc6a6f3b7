------------------------------ MODULE Regions ------------------------------
(***************************************************************************)
(* The geometry of a BitLocker volume: which byte ranges hold BitLocker    *)
(* metadata, which sectors ReservedRegions (bde.go) derives from them, and *)
(* the lookups a BitlockerStream makes in its table of reserved sectors.   *)
(* Pure definitions; SetReservedRegions builds the table, BitlockerStream  *)
(* reads through it.                                                       *)
(***************************************************************************)
EXTENDS Integers, Sequences

(* reservedRegion: startSector is inclusive, endSector exclusive. *)
Region == [startSector : Int, endSector : Int]

InRegion(rr, sector) == sector >= rr.startSector /\ sector < rr.endSector

CoveredBy(rs, sector) == \E j \in 1..Len(rs) : InRegion(rs[j], sector)

(***************************************************************************)
(* A pair <<startSector, numSectors>> as ReservedRegions returns it.       *)
(***************************************************************************)
InPair(r, sector) == sector >= r[1] /\ sector < r[1] + r[2]

CoveredByPairs(pairs, sector) == \E j \in 1..Len(pairs) : InPair(pairs[j], sector)

(***************************************************************************)
(* The shape of a finished table: non-empty regions in ascending order,    *)
(* with at least one unreserved sector between any two of them.            *)
(***************************************************************************)
Separated(rs) ==
  /\ \A j \in 1..Len(rs) : rs[j].startSector < rs[j].endSector
  /\ \A j, k \in 1..Len(rs) : j < k => rs[j].endSector < rs[k].startSector

---------------------------------------------------------------------------
(***************************************************************************)
(* sort.Search(n, f) of the Go library: the number of leading elements     *)
(* for which f is false, that is the 0-based index of the first one for    *)
(* which it is true, and n when there is none. Its contract requires f to  *)
(* be false on a prefix and true on the rest; Separated gives that.        *)
(* Element i - 1 of the 0-based slice is rs[i] here.                       *)
(***************************************************************************)
SearchStartAfter(rs, sector) ==
  CHOOSE i \in 0..Len(rs) :
     /\ \A j \in 1..i : ~(rs[j].startSector > sector)
     /\ i < Len(rs) => rs[i + 1].startSector > sector

SearchEndAfter(rs, sector) ==
  CHOOSE i \in 0..Len(rs) :
     /\ \A j \in 1..i : ~(rs[j].endSector > sector)
     /\ i < Len(rs) => rs[i + 1].endSector > sector

(* Mutant of isReservedSector: the end of a region taken as inclusive. *)
isReservedSector_endInclusive(rs, sector) ==
  LET i == SearchStartAfter(rs, sector)
  IN  /\ Len(rs) # 0 /\ i # 0
      /\ sector >= rs[i].startSector /\ sector <= rs[i].endSector

isReservedSector(rs, sector) ==
  LET i == SearchStartAfter(rs, sector)
  IN  Len(rs) # 0 /\ i # 0 /\ InRegion(rs[i], sector)

(* Mutant of nextUnreservedOffset: only the sector at off is skipped. *)
nextUnreservedOffset_oneSector(rs, sectorSize, off) ==
  LET sector == off \div sectorSize
  IN  IF ~isReservedSector(rs, sector) THEN off ELSE (sector + 1) * sectorSize

(* The byte offset at which a reader standing at off resumes after metadata. *)
nextUnreservedOffset(rs, sectorSize, off) ==
  LET sector == off \div sectorSize
      i      == SearchEndAfter(rs, sector)
  IN  IF ~isReservedSector(rs, sector)
        THEN off
      ELSE IF i < Len(rs) /\ InRegion(rs[i + 1], sector)
        THEN rs[i + 1].endSector * sectorSize
      ELSE (sector + 1) * sectorSize

(* Mutant of nextReservedStartOffset: an off-by-one in the index found. *)
nextReservedStartOffset_skipsOne(rs, sectorSize, off) ==
  LET i == SearchStartAfter(rs, off \div sectorSize)
  IN  IF i + 1 < Len(rs) THEN rs[i + 2].startSector * sectorSize ELSE -1

(* The byte offset of the first region that starts after off, -1 if none. *)
nextReservedStartOffset(rs, sectorSize, off) ==
  LET i == SearchStartAfter(rs, off \div sectorSize)
  IN  IF i < Len(rs) THEN rs[i + 1].startSector * sectorSize ELSE -1

---------------------------------------------------------------------------
(***************************************************************************)
(* A parsed volume, as far as the layout of its metadata is concerned:     *)
(*   version       Version(): the version field of the metadata header     *)
(*   sectorSize, clusterSize    as parseBootSector computes them           *)
(*   offsets       MetadataOffset1..3 of the block header; 0 means absent  *)
(*   metadataSize  the MetadataSize field of the metadata header           *)
(*   eow           <<>> or <<[offset, size]>>, the EOW information         *)
(* parseBootSector takes the cluster size from the boot sector as it is;   *)
(* only power-of-two clusters (all that NTFS and the shift field know) are *)
(* considered, for which x & ^(s - 1) rounds x down to a multiple of s.    *)
(***************************************************************************)
InformationBlockHeaderSize == 64

RoundDown(x, size) == x - (x % size)

SectorSizes == {512, 1024, 2048, 4096}

(* Up to sectors of 2^12 bytes and a SectorsPerClusterShift of 25. *)
ClusterSizes == {x \in Nat \ {0} : \E e \in 9..37 : x = 2^e}

(* What NewInformation accepts (its HeaderSize is the usual 48 bytes). *)
AcceptedMetadataSize(size) == size >= 48 /\ size <= 65536

Volume ==
  [version : Nat, sectorSize : SectorSizes, clusterSize : ClusterSizes,
   offsets : Nat \X Nat \X Nat, metadataSize : Nat,
   eow : Seq([offset : Nat, size : Nat])]

NonZero(off) == IF off # 0 THEN <<off>> ELSE <<>>

InformationOffsets(v) ==
  NonZero(v.offsets[1]) \o NonZero(v.offsets[2]) \o NonZero(v.offsets[3])

(* One less than the block sizes that versions 1 and 2 allow for. *)
BlockMaskV1 == 16383
BlockMaskV2 == 65535

(* Mutant of InformationSectors: the size is rounded down, not up. *)
InformationSectors_roundsDown(v) ==
  IF v.version = 1
    THEN RoundDown(BlockMaskV1, v.clusterSize) \div v.sectorSize
    ELSE RoundDown(BlockMaskV2, v.sectorSize) \div v.sectorSize

(* The number of sectors reserved at every information offset. *)
InformationSectors(v) ==
  IF v.version = 1
    THEN RoundDown(v.clusterSize + BlockMaskV1, v.clusterSize) \div v.sectorSize
    ELSE RoundDown(v.sectorSize + BlockMaskV2, v.sectorSize) \div v.sectorSize

InformationRegions(v) ==
  [j \in 1..Len(InformationOffsets(v)) |->
     <<InformationOffsets(v)[j] \div v.sectorSize, InformationSectors(v)>>]

EowRegions(v) ==
  [j \in 1..Len(v.eow) |->
     <<v.eow[j].offset \div v.sectorSize,
       RoundDown(v.eow[j].size + v.sectorSize - 1, v.sectorSize) \div v.sectorSize>>]

ReservedRegions(v) ==
  CASE v.version = 1 -> InformationRegions(v)
    [] v.version >= 2 -> InformationRegions(v) \o EowRegions(v)
    [] OTHER -> <<>>

(* The sectors in which an information block really has bytes. *)
MetadataSectors(v) ==
  UNION { LET off == InformationOffsets(v)[j]
              last == off + InformationBlockHeaderSize + v.metadataSize - 1
          IN  (off \div v.sectorSize)..(last \div v.sectorSize)
          : j \in 1..Len(InformationOffsets(v)) }
=============================================================================
