------------------------------ MODULE Discovery ------------------------------
(***************************************************************************)
(* How New (bde.go) finds the metadata of a volume: the scans for GUID     *)
(* locators with up to three sector sizes, the offsets in the boot sector, *)
(* the scan of the tail, and the choice among the Information and EOW      *)
(* blocks found. IsBitLockerVolume (detect.go), which has a scan of its    *)
(* own, is an operator.                                                    *)
(*                                                                         *)
(* Offsets count units. A locator is two units: its GUID at position p and *)
(* the offsets that follow it at p + 1. The boot sector is the first       *)
(* Size512 units.                                                          *)
(***************************************************************************)
EXTENDS Integers, Sequences, FiniteSetsExt

CONSTANTS
  Images,          \* the sources New may be given
  ValidSizes,      \* sector sizes that are accepted
  Size512, Size4096,
  ScanSectors,     \* 256: sectors scanned from the start
  TailSectors      \* 8192: sectors scanned at the end

(***************************************************************************)
(* A source:                                                               *)
(*   len          its length                                               *)
(*   size, hasSize  the size argument; what its Size method says (0: none) *)
(*   bpb, shift   sector size in the BPB and in the shift field, 0: invalid*)
(*   perCluster, clusterShift   sectors per cluster, in both encodings     *)
(*   raw          the values at 0x30, 0x38 and 0x40 of the boot sector;    *)
(*                the one at 0x38 is the field InformationLcn              *)
(*   locators     position -> [kind, info, eow], the locators it holds     *)
(*   blocks       position -> "good" or "bad": the places with a signature,*)
(*                good if NewInformation accepts the block                 *)
(*   eows         position -> [size, version]: the places with an EOW      *)
(*                header                                                   *)
(***************************************************************************)
ASSUME DiscoveryAssumption ==
  /\ ValidSizes \subseteq Nat \ {0} /\ {Size512, Size4096} \subseteq ValidSizes
  /\ ScanSectors \in Nat \ {0} /\ TailSectors \in Nat \ {0}
  /\ \A v \in Images :
       /\ v.len \in Nat /\ v.size \in Nat /\ v.hasSize \in Nat
       /\ v.bpb \in Nat /\ v.shift \in Nat
       /\ v.perCluster \in Nat /\ v.clusterShift \in Nat
       /\ v.raw \in Int \X Int \X Int
       /\ \A p \in DOMAIN v.locators :
            /\ p \in Nat
            /\ v.locators[p].info \in Int \X Int \X Int /\ v.locators[p].eow \in Int \X Int
       /\ DOMAIN v.blocks \subseteq 0..(v.len - 1)
       /\ DOMAIN v.eows \subseteq 0..(v.len - 1)

VARIABLES
  img,
  pc,            \* "scan", "raw", "tail", "parse", "eow" or "done"
  passes,        \* the sector sizes still to scan with, the current one first
  sector,        \* tryScan's loop
  infoOffsets, eowOffsets,
  k,             \* index of the loop pc is in
  available,     \* offsets of bde.availableInformation
  availableEow,  \* offsets of bde.availableEowInformation
  information,   \* offset of bde.information: <<>> or <<offset>>
  eowInformation,
  result         \* what New returns

vars == <<img, pc, passes, sector, infoOffsets, eowOffsets, k, available, availableEow,
          information, eowInformation, result>>

---------------------------------------------------------------------------
(* ReadAt of n units at at succeeds in a source that ends at limit. *)
Readable(at, n, limit) == 0 <= at /\ at + n <= limit

HasSignature(v, at) == at \in DOMAIN v.blocks

(* From version 2 on, the header counts its size in 16 bytes. *)
EowSize(header) == IF header.version >= 2 THEN 16 * header.size ELSE header.size

(* NewEowInformation: all of the structure can be read. *)
NewEowInformation(v, at) ==
  at \in DOMAIN v.eows /\ Readable(at, EowSize(v.eows[at]), v.len)

(* parseBootSector: the BPB is preferred to the shift fields. *)
SectorSize(v) ==
  IF v.bpb \in ValidSizes THEN v.bpb
  ELSE IF v.shift \in ValidSizes THEN v.shift ELSE Size512

ClusterSize(v) ==
  IF v.perCluster > 0 THEN SectorSize(v) * v.perCluster
  ELSE IF v.clusterShift > 25 THEN SectorSize(v)
  ELSE SectorSize(v) * 2^v.clusterShift

(* size, or else the reader's Size() *)
EffectiveSize(v) == IF v.size > 0 THEN v.size ELSE v.hasSize

(* An offset of 0 is not kept; one beyond 2^63 becomes a negative int64. *)
NonZero(off) == IF off # 0 THEN <<off>> ELSE <<>>

(***************************************************************************)
(* The position of the locator that a scan sees in a sector, if any: the   *)
(* first with the EOW GUID, or else the first with the standard one.       *)
(***************************************************************************)
LocatorIn(v, base, ss) ==
  LET here == {p \in DOMAIN v.locators : base <= p /\ p < base + ss}
      eow  == {p \in here : v.locators[p].kind = "eow"}
  IN  IF eow # {} THEN {Min(eow)} ELSE IF here # {} THEN {Min(here)} ELSE {}

(* Mutant of SectorReadable: the last sector of the source is not read. *)
SectorReadable_strict(v, base, ss, limit) ==
  /\ base + ss < limit
  /\ \A p \in LocatorIn(v, base, ss) : Readable(p + 1, 1, limit)

(* A sector can be read, and the offsets of its locator too. *)
SectorReadable(v, base, ss, limit) ==
  /\ Readable(base, ss, limit)
  /\ \A p \in LocatorIn(v, base, ss) : Readable(p + 1, 1, limit)

(* What the scans take from a sector: all offsets that are not 0. *)
InfoIn(v, base, ss) ==
  IF LocatorIn(v, base, ss) = {} THEN <<>>
  ELSE LET info == v.locators[Min(LocatorIn(v, base, ss))].info
       IN  NonZero(info[1]) \o NonZero(info[2]) \o NonZero(info[3])

EowIn(v, base, ss) ==
  IF LocatorIn(v, base, ss) = {} THEN <<>>
  ELSE LET locator == v.locators[Min(LocatorIn(v, base, ss))]
       IN  IF locator.kind = "eow" THEN NonZero(locator.eow[1]) \o NonZero(locator.eow[2])
           ELSE <<>>

(***************************************************************************)
(* probeInformationOffsets on the part of the source from start to limit:  *)
(* the offsets of all locators in its first max sectors.                   *)
(***************************************************************************)
ProbeReads(v, start, limit, ss, max) ==
  \A s \in 0..(max - 1) : SectorReadable(v, start + s * ss, ss, limit)

(* What a loop has appended after n sectors, if sector s adds parts[s]. *)
Appended(parts, n) ==
  LET upTo[s \in 0..n] == IF s = 0 THEN <<>> ELSE upTo[s - 1] \o parts[s - 1]
  IN  upTo[n]

probeInformationOffsets(v, start, ss, max) ==
  Appended([s \in Nat |-> InfoIn(v, start + s * ss, ss)], max)

---------------------------------------------------------------------------
(* detect.go *)

deriveSectorSize(v) == IF v.shift \in ValidSizes THEN v.shift ELSE Size512

(* Mutant of ProbedOffsets: the probe scans fewer sectors than New. *)
ProbedOffsets_fewer(v) ==
  probeInformationOffsets(v, 0, deriveSectorSize(v), ScanSectors - 1)

ProbedOffsets(v) == probeInformationOffsets(v, 0, deriveSectorSize(v), ScanSectors)

(* IsBitLockerVolume: the first offset with a signature decides, unless    *)
(* one before it lies behind the end; negative offsets are passed over.    *)
IsBitLockerVolume(v) ==
  LET offsets == ProbedOffsets(v)
      decisive == {j \in 1..Len(offsets) :
                     /\ offsets[j] >= 0
                     /\ HasSignature(v, offsets[j]) \/ ~Readable(offsets[j], 1, v.len)}
  IN  IF HasSignature(v, 0) THEN "yes"
      ELSE IF ~ProbeReads(v, 0, v.len, deriveSectorSize(v), ScanSectors) THEN "error"
      ELSE IF decisive = {} THEN "no"
      ELSE IF HasSignature(v, offsets[Min(decisive)]) THEN "yes"
      ELSE "error"
---------------------------------------------------------------------------
(* parseBootSector has read the boot sector; readGuidBlocks begins. *)
Init ==
  /\ img \in Images
  /\ Readable(0, Size512, img.len)
  /\ pc = "scan"
  /\ passes = <<SectorSize(img)>>
                \o (IF SectorSize(img) # Size512 THEN <<Size512>> ELSE <<>>)
                \o (IF SectorSize(img) # Size4096 THEN <<Size4096>> ELSE <<>>)
  /\ sector = 0
  /\ infoOffsets = <<>> /\ eowOffsets = <<>>
  /\ k = 1
  /\ available = <<>> /\ availableEow = <<>>
  /\ information = <<>> /\ eowInformation = <<>>
  /\ result = "none"

found == <<infoOffsets, eowOffsets>>
parsed == <<available, availableEow, information, eowInformation>>

ScanBase == sector * Head(passes)

Return(e) ==
  /\ result' = e
  /\ pc' = "done"

(* Mutant of ScanSector: one sector too many. *)
ScanSector_oneMore ==
  /\ pc = "scan" /\ sector <= ScanSectors
  /\ SectorReadable(img, ScanBase, Head(passes), img.len)
  /\ infoOffsets' = infoOffsets \o InfoIn(img, ScanBase, Head(passes))
  /\ eowOffsets' = eowOffsets \o EowIn(img, ScanBase, Head(passes))
  /\ sector' = sector + 1
  /\ UNCHANGED <<img, pc, passes, k, parsed, result>>

(* tryScan reads a sector and takes the offsets of the locator in it. *)
ScanSector ==
  /\ pc = "scan" /\ sector < ScanSectors
  /\ SectorReadable(img, ScanBase, Head(passes), img.len)
  /\ infoOffsets' = infoOffsets \o InfoIn(img, ScanBase, Head(passes))
  /\ eowOffsets' = eowOffsets \o EowIn(img, ScanBase, Head(passes))
  /\ sector' = sector + 1
  /\ UNCHANGED <<img, pc, passes, k, parsed, result>>

(* A read error, the end of a short source included, is the end of New. *)
ScanFails ==
  /\ pc = "scan" /\ sector < ScanSectors
  /\ ~SectorReadable(img, ScanBase, Head(passes), img.len)
  /\ Return("readError")
  /\ UNCHANGED <<img, passes, sector, found, k, parsed>>

ScanDone == pc = "scan" /\ sector = ScanSectors

(* Mutant of NothingFound: EOW offsets alone do not end the passes. *)
NothingFound_info == infoOffsets = <<>>

NothingFound == infoOffsets = <<>> /\ eowOffsets = <<>>

(* Locators found, possibly with EOW offsets only: no further pass. *)
ScanSucceeds ==
  /\ ScanDone /\ ~NothingFound
  /\ pc' = IF infoOffsets = <<>> THEN "raw" ELSE "parse"
  /\ UNCHANGED <<img, passes, sector, found, k, parsed, result>>

NextPass ==
  /\ ScanDone /\ NothingFound
  /\ Len(passes) > 1
  /\ passes' = Tail(passes)
  /\ sector' = 0
  /\ UNCHANGED <<img, pc, found, k, parsed, result>>

(* The last resort of readGuidBlocks: the cluster InformationLcn. *)
UseInformationLcn ==
  /\ ScanDone /\ NothingFound
  /\ Len(passes) = 1
  /\ IF img.raw[2] # 0 /\ ClusterSize(img) > 0
        THEN /\ infoOffsets' = <<img.raw[2] * ClusterSize(img)>>
             /\ pc' = "parse"
        ELSE /\ pc' = "raw"
             /\ UNCHANGED infoOffsets
  /\ UNCHANGED <<img, passes, sector, eowOffsets, k, parsed, result>>

(***************************************************************************)
(* tryBootSectorOffsets: each of three values is tried as an offset in     *)
(* bytes, in sectors and in clusters; a place with a signature is kept.    *)
(***************************************************************************)
RawCandidate ==
  LET value == img.raw[((k - 1) \div 3) + 1]
      scale == <<1, SectorSize(img), ClusterSize(img)>>
  IN  value * scale[((k - 1) % 3) + 1]

TryRawOffset ==
  /\ pc = "raw" /\ k <= 9
  /\ LET seen == {infoOffsets[j] : j \in 1..Len(infoOffsets)}
     IN  infoOffsets' = IF /\ RawCandidate > 0
                           /\ RawCandidate \notin seen
                           /\ HasSignature(img, RawCandidate)
                          THEN Append(infoOffsets, RawCandidate) ELSE infoOffsets
  /\ k' = k + 1
  /\ UNCHANGED <<img, pc, passes, sector, eowOffsets, parsed, result>>

RawDone ==
  /\ pc = "raw" /\ k > 9
  /\ k' = 1
  /\ pc' = IF infoOffsets = <<>> /\ EffectiveSize(img) > 0 THEN "tail" ELSE "parse"
  /\ UNCHANGED <<img, passes, sector, found, parsed, result>>

(* Mutant of TryTail: a window replaces what the one before it found. *)
TryTail_overwrites ==
  /\ pc = "tail" /\ k <= 3
  /\ LET ss     == <<SectorSize(img), Size512, Size4096>>[k]
         from   == EffectiveSize(img) - ss * TailSectors
         start  == IF from < 0 THEN 0 ELSE from
         limit  == Min({EffectiveSize(img), img.len})
     IN  infoOffsets' = IF ProbeReads(img, start, limit, ss, TailSectors)
                          THEN probeInformationOffsets(img, start, ss, TailSectors)
                          ELSE <<>>
  /\ k' = k + 1
  /\ UNCHANGED <<img, pc, passes, sector, eowOffsets, parsed, result>>

(* tryTail: a read error in the tail only means that nothing is found. *)
TryTail ==
  /\ pc = "tail" /\ k <= 3
  /\ LET ss     == <<SectorSize(img), Size512, Size4096>>[k]
         from   == EffectiveSize(img) - ss * TailSectors
         start  == IF from < 0 THEN 0 ELSE from
         limit  == Min({EffectiveSize(img), img.len})
     IN  infoOffsets' = IF infoOffsets = <<>> /\ ProbeReads(img, start, limit, ss, TailSectors)
                          THEN probeInformationOffsets(img, start, ss, TailSectors)
                          ELSE infoOffsets
  /\ k' = k + 1
  /\ UNCHANGED <<img, pc, passes, sector, eowOffsets, parsed, result>>

TailDone ==
  /\ pc = "tail" /\ k > 3
  /\ k' = 1
  /\ pc' = "parse"
  /\ UNCHANGED <<img, passes, sector, found, parsed, result>>

(* NewInformation on the next offset; a block it rejects is skipped. *)
ParseInformation ==
  /\ pc = "parse" /\ k <= Len(infoOffsets)
  /\ LET at == infoOffsets[k]
     IN  available' = IF HasSignature(img, at) /\ img.blocks[at] = "good"
                        THEN Append(available, at) ELSE available
  /\ k' = k + 1
  /\ UNCHANGED <<img, pc, passes, sector, found, availableEow, information, eowInformation,
                 result>>

(* Mutant of ChooseInformation: the last block that was parsed is used. *)
ChooseInformation_last ==
  /\ pc = "parse" /\ k > Len(infoOffsets)
  /\ \/ /\ available # <<>>
        /\ information' = <<available[Len(available)]>>
        /\ k' = 1
        /\ pc' = "eow"
        /\ UNCHANGED result
     \/ /\ available = <<>>
        /\ Return("noInformation")
        /\ UNCHANGED <<k, information>>
  /\ UNCHANGED <<img, passes, sector, found, available, availableEow, eowInformation>>

(* IsValid holds of every parsed block: the first one is chosen. *)
ChooseInformation ==
  /\ pc = "parse" /\ k > Len(infoOffsets)
  /\ \/ /\ available # <<>>
        /\ information' = <<Head(available)>>
        /\ k' = 1
        /\ pc' = "eow"
        /\ UNCHANGED result
     \/ /\ available = <<>>
        /\ Return("noInformation")
        /\ UNCHANGED <<k, information>>
  /\ UNCHANGED <<img, passes, sector, found, available, availableEow, eowInformation>>

ParseEow ==
  /\ pc = "eow" /\ k <= Len(eowOffsets)
  /\ availableEow' = IF NewEowInformation(img, eowOffsets[k])
                       THEN Append(availableEow, eowOffsets[k]) ELSE availableEow
  /\ k' = k + 1
  /\ UNCHANGED <<img, pc, passes, sector, found, available, information, eowInformation, result>>

ChooseEow ==
  /\ pc = "eow" /\ k > Len(eowOffsets)
  /\ eowInformation' = IF availableEow = <<>> THEN <<>> ELSE <<Head(availableEow)>>
  /\ Return("nil")
  /\ UNCHANGED <<img, passes, sector, found, k, available, availableEow, information>>

Next ==
  \/ ScanSector \/ ScanFails \/ ScanSucceeds \/ NextPass \/ UseInformationLcn
  \/ TryRawOffset \/ RawDone
  \/ TryTail \/ TailDone
  \/ ParseInformation \/ ChooseInformation
  \/ ParseEow \/ ChooseEow

Spec == Init /\ [][Next]_vars

---------------------------------------------------------------------------
(* Types, and the range of the loops over sectors, candidates and offsets. *)
TypeOK ==
  /\ pc \in {"scan", "raw", "tail", "parse", "eow", "done"}
  /\ passes \in Seq(ValidSizes) /\ Len(passes) \in 1..3
  /\ sector \in 0..ScanSectors
  /\ infoOffsets \in Seq(Int) /\ eowOffsets \in Seq(Int)
  /\ available \in Seq(Int) /\ availableEow \in Seq(Int)
  /\ k \in Nat \ {0}
  /\ pc = "raw" => k <= 10
  /\ pc = "tail" => k <= 4
  /\ pc = "parse" => k <= Len(infoOffsets) + 1
  /\ pc = "eow" => k <= Len(eowOffsets) + 1
  /\ Len(information) <= 1 /\ Len(eowInformation) <= 1
  /\ result \in {"none", "nil", "readError", "noInformation"}

Good(v, at) == HasSignature(v, at) /\ v.blocks[at] = "good"

IsFirst(s, Test(_), x) ==
  \E j \in 1..Len(s) : s[j] = x /\ Test(x) /\ \A l \in 1..(j - 1) : ~Test(s[l])

(***************************************************************************)
(* The volume is read through the first usable block: New returns the      *)
(* first Information (and EOW information) in the order of discovery that  *)
(* parses, and reports "no BitLocker information block found" only if none *)
(* does.                                                                   *)
(***************************************************************************)
FirstGoodWins ==
  /\ result = "nil" =>
       /\ IsFirst(infoOffsets, LAMBDA x : Good(img, x), information[1])
       /\ IF eowInformation # <<>>
            THEN IsFirst(eowOffsets, LAMBDA x : NewEowInformation(img, x), eowInformation[1])
            ELSE \A j \in 1..Len(eowOffsets) : ~NewEowInformation(img, eowOffsets[j])
  /\ result = "noInformation" => \A j \in 1..Len(infoOffsets) : ~Good(img, infoOffsets[j])

(* The sector sizes of New, in the order in which it scans with them. *)
Sizes(v) == <<SectorSize(v), Size512, Size4096>>

(* The offsets that a pass of readGuidBlocks with sector size ss collects. *)
PassOffsets(v, ss) == probeInformationOffsets(v, 0, ss, ScanSectors)
PassEow(v, ss) == Appended([s \in Nat |-> EowIn(v, s * ss, ss)], ScanSectors)

(* What the fallbacks can supply: places with a signature that the boot    *)
(* sector names, and the offsets that a window of the tail shows.          *)
BootSectorPlaces(v) ==
  { x \in {v.raw[n] * scale : n \in 1..3, scale \in {1, SectorSize(v), ClusterSize(v)}} :
      x > 0 /\ HasSignature(v, x) }

TailStart(v, ss) ==
  IF EffectiveSize(v) - ss * TailSectors < 0 THEN 0 ELSE EffectiveSize(v) - ss * TailSectors

TailOffsets(v, ss) == probeInformationOffsets(v, TailStart(v, ss), ss, TailSectors)

(***************************************************************************)
(* The first pass that collects any offset is the last one, and what it    *)
(* collects is all that New uses of the scans: its EOW offsets, and its    *)
(* info offsets if it has any, never with others added. If the locators it *)
(* saw hold EOW offsets only (bde.go:203 takes that for success), a later  *)
(* pass is not made even if it would show info offsets, InformationLcn is  *)
(* not used, and the info offsets are those of the boot sector or of the   *)
(* tail (bde.go:62). No EOW offset comes from anywhere but such a pass.    *)
(***************************************************************************)
LocatorsComeFirst ==
  pc \in {"parse", "eow", "done"} /\ result # "readError" =>
    LET useful == {j \in 1..3 : \/ PassOffsets(img, Sizes(img)[j]) # <<>>
                                \/ PassEow(img, Sizes(img)[j]) # <<>>}
        first == Sizes(img)[Min(useful)]
    IN  IF useful = {} THEN eowOffsets = <<>>
        ELSE /\ eowOffsets = PassEow(img, first)
             /\ IF PassOffsets(img, first) # <<>> THEN infoOffsets = PassOffsets(img, first)
                ELSE \/ \A i \in 1..Len(infoOffsets) : infoOffsets[i] \in BootSectorPlaces(img)
                     \/ \E j \in 1..3 : infoOffsets = TailOffsets(img, Sizes(img)[j])

(* A pass that is followed by the next one: it can be read, and finds      *)
(* nothing.                                                                *)
Quiet(v, ss) ==
  /\ ProbeReads(v, 0, v.len, ss, ScanSectors)
  /\ PassOffsets(v, ss) = <<>> /\ PassEow(v, ss) = <<>>

(***************************************************************************)
(* New does not come to scan with the probe's sector size: no pass has it, *)
(* or one before it ends the scans.                                        *)
(***************************************************************************)
Drifts(v) ==
  \E l \in 1..3 : /\ \A j \in 1..l : Sizes(v)[j] # deriveSectorSize(v)
                  /\ l = 3 \/ ~Quiet(v, Sizes(v)[l])

(***************************************************************************)
(* How far detect.go and bde.go, which scan separately and take the sector *)
(* size from different fields, agree on a source without a signature at    *)
(* its start. If IsBitLockerVolume says yes then New tries exactly the     *)
(* offsets that the probe has seen, unless its passes with other sector    *)
(* sizes keep it from scanning with the probe's. If New opens the volume   *)
(* then IsBitLockerVolume says yes, with three exceptions: such a drift;   *)
(* no locator for the probe, which has no fallback; or an offset behind    *)
(* the end before the block that New uses, at which only the probe stops.  *)
(***************************************************************************)
ProbeAgrees ==
  pc = "done" /\ ~HasSignature(img, 0) =>
    LET offsets == ProbedOffsets(img)
    IN  /\ IsBitLockerVolume(img) = "yes" =>
             Drifts(img) \/ (result # "readError" /\ infoOffsets = offsets)
        /\ result = "nil" =>
             \/ IsBitLockerVolume(img) = "yes"
             \/ Drifts(img)
             \/ offsets = <<>>
             \/ \E j \in 1..Len(offsets) :
                  /\ offsets[j] >= img.len
                  /\ \A i \in 1..j : offsets[i] # information[1]

(***************************************************************************)
(* The tail scan with sector size ss sees position p: its window fits into *)
(* the volume, the volume into the source, and p is in the window.         *)
(***************************************************************************)
InTailWindow(p, ss) ==
  LET end == EffectiveSize(img)
      from == end - ss * TailSectors
  IN  from >= 0 /\ end <= img.len /\ from <= p /\ p + 1 < end

(***************************************************************************)
(* A volume whose only locator points to a good block is rejected only if  *)
(* the boot sector supplies other offsets, or the locator lies beyond all  *)
(* scans of the start and outside of every tail window. On a volume        *)
(* smaller than a tail window, or one said to be larger than its source,   *)
(* that window shows nothing: the scan runs off the end and what it found  *)
(* is dropped.                                                             *)
(***************************************************************************)
LocatorMissedOnlyIf ==
  result = "noInformation" =>
    \A p \in DOMAIN img.locators :
      (/\ DOMAIN img.locators = {p}
       /\ \E j \in 1..3 : img.locators[p].info[j] # 0 /\ Good(img, img.locators[p].info[j])) =>
         \/ infoOffsets # <<>>
         \/ /\ p >= ScanSectors * Size4096
            /\ \A ss \in {SectorSize(img), Size512, Size4096} : ~InTailWindow(p, ss)

(***************************************************************************)
(* New fails with a read error only on a source too short for one of its   *)
(* scans, or one that ends within a locator.                               *)
(***************************************************************************)
ReadErrorMeansShort ==
  result = "readError" =>
    \/ \E ss \in {SectorSize(img), Size512, Size4096} : img.len < ScanSectors * ss
    \/ img.len - 1 \in DOMAIN img.locators

---------------------------------------------------------------------------
(* What the repository says, and the code does not do. *)

(***************************************************************************)
(* "Some BitLocker images store FVE metadata offsets at 0x30, 0x38, 0x40   *)
(* without GUID locators." (bde.go:61): New opens an image without         *)
(* locators in which these three are the byte offsets of good blocks. The  *)
(* value at 0x38 is taken for InformationLcn before they are looked at.    *)
(***************************************************************************)
BootSectorOffsetsUsed ==
  (/\ pc = "done" /\ result # "readError"
   /\ DOMAIN img.locators = {}
   /\ \A j \in 1..3 : Good(img, img.raw[j])) => result = "nil"
=============================================================================
