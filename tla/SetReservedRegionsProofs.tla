---------------------- MODULE SetReservedRegionsProofs ----------------------
(***************************************************************************)
(* Proofs that setReservedRegions builds the table it should, for every    *)
(* volume: any number of regions, any geometry, any order sort.Slice       *)
(* leaves equal elements in.                                               *)
(***************************************************************************)
EXTENDS SetReservedRegions, RegionsProofs

(***************************************************************************)
(* The inductive invariant. While merging, the first m elements of the     *)
(* array are a finished table, the elements from i on are still sorted and *)
(* none of them starts before the last finished region; the two parts      *)
(* together cover what the volume reserves.                                *)
(***************************************************************************)
NonEmpty(rr) == rr.startSector < rr.endSector

FilterInv ==
  pc \in {"start", "filter"} =>
     /\ \A j \in 1..Len(out) : NonEmpty(out[j])
     /\ \A s \in Int :
          CoveredBy(out, s) <=> \E j \in 1..(k - 1) : InPair(regions[j], s)

MergeInv ==
  pc = "merge" =>
     /\ m < i
     /\ \A j \in (1..m) \union (i..Len(out)) : NonEmpty(out[j])
     /\ \A j, l \in 1..m : j < l => out[j].endSector < out[l].startSector
     /\ SortedFrom(out, i)
     /\ \A l \in i..Len(out) : m # 0 => out[m].startSector <= out[l].startSector

CoverInv ==
  pc = "merge" =>
     \A s \in Int :
        CoveredByPairs(regions, s)
          <=> \E j \in (1..m) \union (i..Len(out)) : InRegion(out[j], s)

DoneInv ==
  pc = "done" =>
     /\ Separated(reserved)
     /\ \A s \in Int : CoveredBy(reserved, s) <=> CoveredByPairs(regions, s)

IndInv == TypeOK /\ FilterInv /\ MergeInv /\ CoverInv /\ DoneInv

(* The regions of the encrypt-on-write information of a volume are pairs of sectors. *)
LEMMA EowRegionsType ==
  ASSUME NEW v \in Volume
  PROVE  EowRegions(v) \in Seq(Int \X Int)
<1>1. \A x \in Int, y \in Nat \ {0} : RoundDown(x, y) \in Int /\ x \div y \in Int
  BY DEF RoundDown
<1>2. v.sectorSize \in Nat \ {0} /\ v.eow \in Seq([offset : Nat, size : Nat])
  <2>1. SectorSizes \subseteq Nat \ {0}
    BY DEF SectorSizes
  <2>2. v.sectorSize \in SectorSizes /\ v.eow \in Seq([offset : Nat, size : Nat])
    BY DEF Volume
  <2> QED BY <2>1, <2>2
<1>3. Len(v.eow) \in Nat /\ \A j \in 1..Len(v.eow) : v.eow[j] \in [offset : Nat, size : Nat]
  BY <1>2, ElementOfSeq, LenProperties
<1>4. \A j \in 1..Len(v.eow) : v.eow[j].offset \in Int /\ v.eow[j].size \in Int
  BY <1>3
<1>5. \A j \in 1..Len(v.eow) :
         /\ v.eow[j].offset \div v.sectorSize \in Int
         /\ v.eow[j].size + v.sectorSize - 1 \in Int
  <2>1. \A j \in 1..Len(v.eow) : v.eow[j].offset \div v.sectorSize \in Int
    BY <1>4, <1>1, <1>2
  <2>2. \A x \in Int, y \in Nat \ {0} : x + y - 1 \in Int
    OBVIOUS
  <2> QED BY <2>1, <2>2, <1>4, <1>2
<1>6. \A j \in 1..Len(v.eow) :
         RoundDown(v.eow[j].size + v.sectorSize - 1, v.sectorSize) \div v.sectorSize \in Int
  BY <1>5, <1>1, <1>2
<1> QED BY <1>3, <1>5, <1>6 DEF EowRegions

---------------------------------------------------------------------------
(* ReservedRegions returns a sequence of pairs of integers for every volume. *)
LEMMA ReservedRegionsType ==
  ASSUME NEW v \in Volume
  PROVE  ReservedRegions(v) \in Seq(Int \X Int)
<1>1. \A x \in Int, y \in Nat \ {0} : RoundDown(x, y) \in Int /\ x \div y \in Int
  BY DEF RoundDown
<1>2. /\ v.sectorSize \in Nat \ {0} /\ v.clusterSize \in Nat \ {0}
      /\ v.offsets[1] \in Int /\ v.offsets[2] \in Int /\ v.offsets[3] \in Int
      /\ v.eow \in Seq([offset : Nat, size : Nat])
      /\ v.version \in Nat
  <2>1. ClusterSizes \subseteq Nat \ {0}
    BY DEF ClusterSizes
  <2>2. SectorSizes \subseteq Nat \ {0}
    BY DEF SectorSizes
  <2>3. v.sectorSize \in SectorSizes /\ v.clusterSize \in ClusterSizes
    BY DEF Volume
  <2>4. /\ v.offsets \in Nat \X Nat \X Nat
        /\ v.eow \in Seq([offset : Nat, size : Nat])
        /\ v.version \in Nat
    BY DEF Volume
  <2>5. v.offsets[1] \in Int /\ v.offsets[2] \in Int /\ v.offsets[3] \in Int
    BY <2>4
  <2> QED BY <2>1, <2>2, <2>3, <2>4, <2>5
<1>3. \A x \in Int : NonZero(x) \in Seq(Int)
  BY DEF NonZero
<1>4. InformationOffsets(v) \in Seq(Int)
  <2>1. /\ NonZero(v.offsets[1]) \in Seq(Int)
        /\ NonZero(v.offsets[2]) \in Seq(Int)
        /\ NonZero(v.offsets[3]) \in Seq(Int)
    BY <1>2, <1>3
  <2>2. NonZero(v.offsets[1]) \o NonZero(v.offsets[2]) \in Seq(Int)
    BY <2>1, ConcatProperties
  <2> QED BY <2>1, <2>2, ConcatProperties DEF InformationOffsets
<1>5. InformationSectors(v) \in Int
  <2>1. BlockMaskV1 \in Int /\ BlockMaskV2 \in Int
    BY DEF BlockMaskV1, BlockMaskV2
  <2>2. v.clusterSize + BlockMaskV1 \in Int /\ v.sectorSize + BlockMaskV2 \in Int
    BY <1>2, <2>1
  <2>3. /\ RoundDown(v.clusterSize + BlockMaskV1, v.clusterSize) \div v.sectorSize \in Int
        /\ RoundDown(v.sectorSize + BlockMaskV2, v.sectorSize) \div v.sectorSize \in Int
    BY <1>1, <1>2, <2>2
  <2> QED BY <2>3 DEF InformationSectors
<1>6. InformationRegions(v) \in Seq(Int \X Int)
  <2>1. /\ Len(InformationOffsets(v)) \in Nat
        /\ \A j \in 1..Len(InformationOffsets(v)) : InformationOffsets(v)[j] \in Int
    BY <1>4
  <2>2. \A j \in 1..Len(InformationOffsets(v)) :
           InformationOffsets(v)[j] \div v.sectorSize \in Int
    BY <2>1, <1>1, <1>2
  <2> QED BY <2>1, <2>2, <1>5 DEF InformationRegions
<1>7. EowRegions(v) \in Seq(Int \X Int)
  BY EowRegionsType
<1> QED BY <1>2, <1>6, <1>7 DEF ReservedRegions

(* The invariant holds when setReservedRegions is called.                  *)
LEMMA InitIndInv == Init => IndInv
<1> SUFFICES ASSUME Init PROVE IndInv
  OBVIOUS
<1>1. regions \in Seq(Int \X Int)
  BY VolumesAssumption, ReservedRegionsType DEF Init
<1>2. Len(out) = 0 /\ out \in Seq(Region) /\ reserved \in Seq(Region)
  BY DEF Init
<1>3. TypeOK
  BY <1>1, <1>2, LenProperties DEF Init, TypeOK
<1>4. FilterInv
  BY <1>2 DEF Init, FilterInv, CoveredBy
<1>5. MergeInv /\ CoverInv /\ DoneInv
  BY DEF Init, MergeInv, CoverInv, DoneInv
<1> QED BY <1>3, <1>4, <1>5 DEF IndInv

(* Facts about the types of the state that every step uses. *)
LEMMA TypeFacts ==
  ASSUME TypeOK
  PROVE  /\ Len(regions) \in Nat /\ Len(out) \in Nat
         /\ i \in Nat /\ m \in Nat /\ k \in Nat /\ i >= 1 /\ k >= 1
         /\ k <= Len(regions) + 1 /\ i <= Len(out) + 1 /\ m <= Len(out)
         /\ \A j \in 1..Len(out) : /\ out[j] \in Region
                                   /\ out[j].startSector \in Int
                                   /\ out[j].endSector \in Int
         /\ \A j \in 1..Len(regions) : regions[j][1] \in Int /\ regions[j][2] \in Int
<1>1. out \in Seq(Region) /\ regions \in Seq(Int \X Int)
  BY DEF TypeOK
<1>2. Len(regions) \in Nat /\ \A j \in 1..Len(regions) : regions[j] \in Int \X Int
  BY <1>1, ElementOfSeq, LenProperties
<1>3. Len(out) \in Nat
  BY <1>1, RegionTypes
<1> QED BY <1>1, <1>2, <1>3, RegionTypes, SMTT(30) DEF TypeOK

(* Appending a non-empty region to out preserves the invariant.            *)
LEMMA FilterKeepStep ==
  ASSUME IndInv, FilterKeep
  PROVE  IndInv'
<1> DEFINE r == [startSector |-> regions[k][1],
                 endSector   |-> regions[k][1] + regions[k][2]]
<1>1. TypeOK
  BY DEF IndInv
<1>2. k \in 1..Len(regions) /\ regions[k][1] \in Int /\ regions[k][2] \in Int
  BY <1>1, TypeFacts DEF FilterKeep
<1>3. r \in Region
  BY <1>2 DEF Region
<1>4. /\ out' = Append(out, r) /\ out' \in Seq(Region)
      /\ Len(out') = Len(out) + 1
      /\ \A j \in 1..Len(out) : out'[j] = out[j]
      /\ out'[Len(out) + 1] = r
  BY <1>1, <1>3, AppendProperties DEF FilterKeep, TypeOK
<1>5. TypeOK'
  BY <1>1, <1>2, <1>4, TypeFacts, SMTT(30) DEF FilterKeep, TypeOK
<1>6. FilterInv'
  <2> HIDE DEF r
  <2>1. NonEmpty(r) /\ \A s \in Int : InRegion(r, s) <=> InPair(regions[k], s)
    BY <1>2 DEF r, FilterKeep, NonEmpty, InRegion, InPair
  <2>2. /\ \A j \in 1..Len(out) : NonEmpty(out[j])
        /\ \A s \in Int :
             CoveredBy(out, s) <=> \E j \in 1..(k - 1) : InPair(regions[j], s)
    BY DEF IndInv, FilterInv, FilterKeep
  <2>3. \A j \in 1..Len(out') : NonEmpty(out'[j])
    BY <1>4, <2>1, <2>2, <1>1, TypeFacts
  <2>4. ASSUME NEW s \in Int
        PROVE  CoveredBy(out', s) <=> \E j \in 1..(k' - 1) : InPair(regions'[j], s)
    <3>1. CoveredBy(out', s) <=> CoveredBy(out, s) \/ InRegion(r, s)
      <4>1. 1..Len(out') = (1..Len(out)) \union {Len(out) + 1}
        BY <1>4, <1>1, TypeFacts
      <4> QED BY <4>1, <1>4 DEF CoveredBy
    <3>2. (\E j \in 1..(k' - 1) : InPair(regions'[j], s))
            <=> (\E j \in 1..(k - 1) : InPair(regions[j], s)) \/ InPair(regions[k], s)
      <4>1. k' = k + 1 /\ regions' = regions
        BY DEF FilterKeep
      <4>2. 1..(k' - 1) = (1..(k - 1)) \union {k}
        BY <4>1, <1>2
      <4> QED BY <4>1, <4>2
    <3> QED BY <3>1, <3>2, <2>1, <2>2
  <2> QED BY <2>3, <2>4 DEF FilterInv
<1>7. MergeInv' /\ CoverInv' /\ DoneInv'
  BY DEF FilterKeep, MergeInv, CoverInv, DoneInv
<1> QED BY <1>5, <1>6, <1>7 DEF IndInv

(* Skipping a region without sectors preserves the invariant.              *)
LEMMA FilterSkipStep ==
  ASSUME IndInv, FilterSkip
  PROVE  IndInv'
<1>1. TypeOK
  BY DEF IndInv
<1>2. k \in 1..Len(regions) /\ regions[k][1] \in Int /\ regions[k][2] \in Int
  BY <1>1, TypeFacts DEF FilterSkip
<1>3. TypeOK'
  BY <1>1, <1>2, TypeFacts DEF FilterSkip, TypeOK
<1>4. FilterInv'
  <2>1. ASSUME NEW s \in Int PROVE ~InPair(regions[k], s)
    <3>1. regions[k][2] <= 0
      BY DEF FilterSkip
    <3> QED BY <1>2, <3>1 DEF InPair
  <2>2. 1..(k' - 1) = (1..(k - 1)) \union {k}
    BY <1>2 DEF FilterSkip
  <2> QED BY <2>1, <2>2 DEF IndInv, FilterInv, FilterSkip
<1>5. MergeInv' /\ CoverInv' /\ DoneInv'
  BY DEF FilterSkip, MergeInv, CoverInv, DoneInv
<1> QED BY <1>3, <1>4, <1>5 DEF IndInv

(***************************************************************************)
(* sort.Slice, whichever sorted permutation it gives, preserves the        *)
(* invariant.                                                              *)
(***************************************************************************)
LEMMA SortSliceStep ==
  ASSUME IndInv, SortSlice
  PROVE  IndInv'
<1>1. TypeOK
  BY DEF IndInv
<1>2. PICK p \in Rearrangements(Len(out)) :
         /\ SortedFrom([j \in 1..Len(out) |-> out[p[j]]], 1)
         /\ out' = [j \in 1..Len(out) |-> out[p[j]]]
  BY DEF SortSlice
<1>3. /\ p \in [1..Len(out) -> 1..Len(out)]
      /\ \A x \in 1..Len(out) : \E y \in 1..Len(out) : p[y] = x
  BY DEF Rearrangements
<1>4. /\ out' \in Seq(Region) /\ Len(out') = Len(out)
      /\ \A j \in 1..Len(out) : p[j] \in 1..Len(out) /\ out'[j] = out[p[j]]
  <2>1. Len(out) \in Nat /\ \A j \in 1..Len(out) : out[j] \in Region
    BY <1>1, TypeFacts
  <2>2. \A j \in 1..Len(out) : p[j] \in 1..Len(out)
    BY <1>3
  <2>3. [j \in 1..Len(out) |-> out[p[j]]] \in [1..Len(out) -> Region]
    BY <2>1, <2>2
  <2>4. out' \in Seq(Region) /\ Len(out') = Len(out)
    BY <2>1, <2>3, <1>2
  <2> QED BY <2>2, <2>4, <1>2
<1>5. TypeOK'
  BY <1>1, <1>4, TypeFacts DEF SortSlice, TypeOK
<1>6. k - 1 = Len(regions) /\ m' = 0 /\ i' = 1 /\ regions' = regions
  BY <1>1, TypeFacts DEF SortSlice
<1>7. MergeInv'
  <2>1. \A j \in 1..Len(out) : NonEmpty(out[j])
    BY DEF IndInv, FilterInv, SortSlice
  <2>2. SortedFrom(out', i')
    BY <1>2, <1>6
  <2> QED BY <1>4, <1>6, <2>1, <2>2 DEF MergeInv
<1>8. CoverInv'
  <2>1. \A s \in Int : CoveredBy(out, s) <=> CoveredByPairs(regions, s)
    BY <1>6 DEF IndInv, FilterInv, SortSlice, CoveredByPairs
  <2>2. \A s \in Int :
           CoveredBy(out, s) <=> \E j \in 1..Len(out) : InRegion(out'[j], s)
    BY <1>3, <1>4 DEF CoveredBy
  <2>3. (1..m') \union (i'..Len(out')) = 1..Len(out)
    BY <1>1, <1>4, <1>6, TypeFacts
  <2> QED BY <1>6, <2>1, <2>2, <2>3 DEF CoverInv
<1>9. FilterInv' /\ DoneInv'
  BY DEF SortSlice, FilterInv, DoneInv
<1> QED BY <1>5, <1>7, <1>8, <1>9 DEF IndInv

(***************************************************************************)
(* Appending element i behind the merged prefix: it lands at m + 1 <= i,   *)
(* so no element that is still to be read changes.                         *)
(***************************************************************************)
LEMMA AppendStep ==
  ASSUME IndInv, MergeFirst \/ MergeAppend
  PROVE  IndInv'
<1>1. TypeOK /\ MergeInv /\ CoverInv /\ pc = "merge"
  BY DEF IndInv, MergeFirst, MergeAppend
<1>2. /\ pc' = "merge" /\ i' = i + 1 /\ m' = m + 1
      /\ vol' = vol /\ regions' = regions /\ k' = k /\ reserved' = reserved
      /\ i \in 1..Len(out) /\ m \in 0..Len(out) /\ m < i /\ m + 1 \in 1..Len(out)
  BY <1>1, TypeFacts DEF MergeFirst, MergeAppend, MergeInv
<1>3. out' = [out EXCEPT ![m + 1] = out[i]]
  BY DEF MergeFirst, MergeAppend
<1>4. /\ out' \in Seq(Region) /\ Len(out') = Len(out)
      /\ out'[m + 1] = out[i]
      /\ \A j \in 1..Len(out) : j # m + 1 => out'[j] = out[j]
  <2>1. out \in Seq(Region) /\ out[i] \in Region
    BY <1>1, <1>2, TypeFacts DEF TypeOK
  <2> QED BY <1>2, <1>3, <2>1, ExceptSeq
<1>5. TypeOK'
  BY <1>1, <1>2, <1>4, TypeFacts DEF TypeOK
<1>6. \A j \in 1..m : j \in 1..Len(out) /\ out'[j] = out[j]
  BY <1>2, <1>4
<1>7. \A j \in i'..Len(out') : j \in 1..Len(out) /\ j \in i..Len(out) /\ out'[j] = out[j]
  BY <1>2, <1>4
<1>8. /\ \A j \in (1..m) \union (i..Len(out)) : NonEmpty(out[j])
      /\ \A j, l \in 1..m : j < l => out[j].endSector < out[l].startSector
      /\ \A a, b \in i..Len(out) : a < b => out[a].startSector <= out[b].startSector
      /\ \A l \in i..Len(out) : m # 0 => out[m].startSector <= out[l].startSector
  BY <1>1 DEF MergeInv, SortedFrom
<1>9. MergeInv'
  <2>1. \A j \in (1..m') \union (i'..Len(out')) : NonEmpty(out'[j])
    BY <1>2, <1>4, <1>6, <1>7, <1>8
  <2>2. ASSUME NEW j \in 1..m', NEW l \in 1..m', j < l
        PROVE  out'[j].endSector < out'[l].startSector
    <3>1. CASE l \in 1..m
      BY <1>2, <1>6, <1>8, <2>2, <3>1
    <3>2. CASE l = m + 1
      <4>1. j \in 1..m /\ m # 0 /\ m \in 1..m /\ i \in i..Len(out)
        BY <2>2, <3>2, <1>2
      <4>0. /\ j \in 1..Len(out) /\ m \in 1..Len(out)
            /\ out[j].endSector \in Int /\ out[i].startSector \in Int
            /\ out[m].startSector \in Int /\ out[m].endSector \in Int
        <5>1. j \in 1..Len(out) /\ m \in 1..Len(out)
          BY <4>1, <1>2
        <5> QED BY <5>1, <1>1, <1>2, TypeFacts
      <4>2. out[m].endSector < out[i].startSector
        BY <4>1, <1>1, <1>2, TypeFacts, SMTT(30) DEF MergeFirst, MergeAppend
      <4>3. out[j].endSector <= out[m].endSector
        <5>1. CASE j = m
          BY <5>1, <4>1, <1>2, <1>1, TypeFacts
        <5>2. CASE j < m
          <6>1. out[j].endSector < out[m].startSector /\ NonEmpty(out[m])
            BY <5>2, <4>1, <1>8
          <6> QED BY <6>1, <4>0 DEF NonEmpty
        <5> QED BY <5>1, <5>2, <4>1
      <4>4. out'[j] = out[j] /\ out'[l] = out[i]
        BY <4>1, <1>6, <1>4, <3>2
      <4> QED BY <4>0, <4>2, <4>3, <4>4
    <3> QED BY <3>1, <3>2, <1>2
  <2>3. SortedFrom(out', i')
    BY <1>7, <1>8 DEF SortedFrom
  <2>4. ASSUME NEW l \in i'..Len(out')
        PROVE  out'[m'].startSector <= out'[l].startSector
    <3>1. out'[m'] = out[i] /\ out'[l] = out[l]
      BY <1>2, <1>4, <1>7
    <3>2. i < l /\ l \in i..Len(out) /\ i \in i..Len(out)
      BY <1>2, <1>4
    <3> QED BY <3>1, <3>2, <1>8
  <2>5. m' < i'
    BY <1>2
  <2> QED BY <2>1, <2>2, <2>3, <2>4, <2>5 DEF MergeInv
<1>10. CoverInv'
  <2>1. SUFFICES ASSUME NEW s \in Int
        PROVE (\E j \in (1..m') \union (i'..Len(out')) : InRegion(out'[j], s))
               <=> (\E j \in (1..m) \union (i..Len(out)) : InRegion(out[j], s))
    BY <1>1, <1>2 DEF CoverInv
  <2>2. ASSUME NEW j \in (1..m') \union (i'..Len(out')), InRegion(out'[j], s)
        PROVE  \E l \in (1..m) \union (i..Len(out)) : InRegion(out[l], s)
    <3>1. CASE j = m + 1 /\ j \in 1..m'
      <4>1. out'[j] = out[i] /\ i \in i..Len(out)
        BY <3>1, <1>2, <1>4
      <4> QED BY <4>1, <2>2
    <3>2. CASE j \in 1..m
      BY <3>2, <2>2, <1>6
    <3>3. CASE j \in i'..Len(out')
      BY <3>3, <2>2, <1>7
    <3> QED BY <3>1, <3>2, <3>3, <1>2
  <2>3. ASSUME NEW j \in (1..m) \union (i..Len(out)), InRegion(out[j], s)
        PROVE  \E l \in (1..m') \union (i'..Len(out')) : InRegion(out'[l], s)
    <3>1. CASE j \in 1..m
      BY <3>1, <2>3, <1>2, <1>6
    <3>2. CASE j = i
      <4>1. out'[m + 1] = out[j] /\ m + 1 \in 1..m'
        BY <3>2, <1>2, <1>4
      <4> QED BY <4>1, <2>3
    <3>3. CASE j \in i'..Len(out')
      BY <3>3, <2>3, <1>7
    <3> QED BY <3>1, <3>2, <3>3, <1>2, <1>4
  <2> QED BY <2>2, <2>3
<1>11. FilterInv' /\ DoneInv'
  BY <1>2 DEF FilterInv, DoneInv
<1> QED BY <1>5, <1>9, <1>10, <1>11 DEF IndInv

(***************************************************************************)
(* Element i is folded into the last merged region, which grows to its end *)
(* or stays: between the two there is no gap, so nothing else is covered.  *)
(***************************************************************************)
LEMMA FoldStep ==
  ASSUME IndInv, MergeExtend \/ MergeAbsorb
  PROVE  IndInv'
<1>1. TypeOK /\ MergeInv /\ CoverInv /\ pc = "merge"
  BY DEF IndInv, MergeExtend, MergeAbsorb
<1>2. /\ pc' = "merge" /\ i' = i + 1 /\ m' = m
      /\ vol' = vol /\ regions' = regions /\ k' = k /\ reserved' = reserved
      /\ i \in 1..Len(out) /\ m \in 1..Len(out) /\ m < i
      /\ out[i].startSector <= out[m].endSector
  BY <1>1, TypeFacts DEF MergeExtend, MergeAbsorb, MergeInv
<1>3. /\ out[i].startSector \in Int /\ out[i].endSector \in Int
      /\ out[m].startSector \in Int /\ out[m].endSector \in Int
      /\ out \in Seq(Region) /\ out[m] \in Region
  BY <1>1, <1>2, TypeFacts DEF TypeOK
<1> DEFINE last == [out[m] EXCEPT !.endSector = out[i].endSector]
<1>4. /\ out' \in Seq(Region) /\ Len(out') = Len(out)
      /\ out'[m].startSector = out[m].startSector
      /\ out'[m].endSector = IF out[i].endSector > out[m].endSector
                               THEN out[i].endSector ELSE out[m].endSector
      /\ \A j \in 1..Len(out) : j # m => out'[j] = out[j]
  <2>1. CASE MergeExtend
    <3>1. /\ last \in Region
          /\ last.startSector = out[m].startSector /\ last.endSector = out[i].endSector
      BY <1>3 DEF Region
    <3> HIDE DEF last
    <3>2. out' = [out EXCEPT ![m] = last]
      BY <2>1 DEF MergeExtend, last
    <3>3. /\ out' \in Seq(Region) /\ Len(out') = Len(out)
          /\ out'[m] = last
          /\ \A j \in 1..Len(out) : j # m => out'[j] = out[j]
      BY <3>1, <3>2, <1>2, <1>3, ExceptSeq
    <3> QED BY <3>1, <3>3, <2>1 DEF MergeExtend
  <2>2. CASE MergeAbsorb
    BY <2>2, <1>3 DEF MergeAbsorb
  <2> QED BY <2>1, <2>2
<1>5. TypeOK'
  BY <1>1, <1>2, <1>4, TypeFacts DEF TypeOK
<1>6. /\ \A j \in (1..m) \union (i..Len(out)) : NonEmpty(out[j])
      /\ \A j, l \in 1..m : j < l => out[j].endSector < out[l].startSector
      /\ \A a, b \in i..Len(out) : a < b => out[a].startSector <= out[b].startSector
      /\ \A l \in i..Len(out) : out[m].startSector <= out[l].startSector
  BY <1>1, <1>2 DEF MergeInv, SortedFrom
<1>7. \A j \in 1..m : /\ j \in 1..Len(out) /\ out'[j].startSector = out[j].startSector
                      /\ j # m => out'[j] = out[j]
  <2>1. \A j \in 1..m : j \in 1..Len(out)
    BY <1>2
  <2> QED BY <2>1, <1>4
<1>8. \A j \in i'..Len(out') : j \in i..Len(out) /\ out'[j] = out[j]
  BY <1>2, <1>4
<1>9. MergeInv'
  <2>1. \A j \in (1..m') \union (i'..Len(out')) : NonEmpty(out'[j])
    <3>1. NonEmpty(out'[m])
      <4>1. out[m].startSector < out[m].endSector
        BY <1>2, <1>6 DEF NonEmpty
      <4> QED BY <4>1, <1>3, <1>4 DEF NonEmpty
    <3> QED BY <3>1, <1>2, <1>6, <1>7, <1>8
  <2>2. ASSUME NEW j \in 1..m', NEW l \in 1..m', j < l
        PROVE  out'[j].endSector < out'[l].startSector
    <3>1. j \in 1..m /\ l \in 1..m /\ j # m
      BY <2>2, <1>2
    <3> QED BY <3>1, <2>2, <1>6, <1>7
  <2>3. SortedFrom(out', i')
    BY <1>8, <1>6 DEF SortedFrom
  <2>4. \A l \in i'..Len(out') : out'[m'].startSector <= out'[l].startSector
    BY <1>2, <1>4, <1>6, <1>8
  <2>5. m' < i'
    BY <1>2
  <2> QED BY <2>1, <2>2, <2>3, <2>4, <2>5 DEF MergeInv
<1>10. CoverInv'
  <2>1. SUFFICES ASSUME NEW s \in Int
        PROVE (\E j \in (1..m') \union (i'..Len(out')) : InRegion(out'[j], s))
               <=> (\E j \in (1..m) \union (i..Len(out)) : InRegion(out[j], s))
    BY <1>1, <1>2 DEF CoverInv
  <2>2. InRegion(out'[m], s) <=> InRegion(out[m], s) \/ InRegion(out[i], s)
    <3>1. out[m].startSector <= out[i].startSector
      BY <1>2, <1>6
    <3> QED BY <3>1, <1>2, <1>3, <1>4 DEF InRegion
  <2>3. ASSUME NEW j \in (1..m') \union (i'..Len(out')), InRegion(out'[j], s)
        PROVE  \E l \in (1..m) \union (i..Len(out)) : InRegion(out[l], s)
    <3>1. CASE j = m
      <4>1. m \in 1..m /\ i \in i..Len(out)
        BY <1>2
      <4> QED BY <4>1, <3>1, <2>2, <2>3
    <3>2. CASE j \in 1..m /\ j # m
      BY <3>2, <2>3, <1>7
    <3>3. CASE j \in i'..Len(out')
      BY <3>3, <2>3, <1>8
    <3> QED BY <3>1, <3>2, <3>3, <1>2
  <2>4. ASSUME NEW j \in (1..m) \union (i..Len(out)), InRegion(out[j], s)
        PROVE  \E l \in (1..m') \union (i'..Len(out')) : InRegion(out'[l], s)
    <3>1. CASE j = m \/ j = i
      <4>1. m \in 1..m'
        BY <1>2
      <4> QED BY <4>1, <3>1, <2>2, <2>4
    <3>2. CASE j \in 1..m /\ j # m
      BY <3>2, <2>4, <1>2, <1>7
    <3>3. CASE j \in i'..Len(out')
      BY <3>3, <2>4, <1>8
    <3> QED BY <3>1, <3>2, <3>3, <1>2, <1>4
  <2> QED BY <2>3, <2>4
<1>11. FilterInv' /\ DoneInv'
  BY <1>2 DEF FilterInv, DoneInv
<1> QED BY <1>5, <1>9, <1>10, <1>11 DEF IndInv

(* Storing merged in bs.reserved preserves the invariant.                  *)
LEMMA FinishStep ==
  ASSUME IndInv, Finish
  PROVE  IndInv'
<1>1. TypeOK /\ MergeInv /\ CoverInv /\ pc = "merge"
  BY DEF IndInv, Finish
<1>2. m \in 0..Len(out) /\ m \in Nat /\ i > Len(out)
  BY <1>1, TypeFacts DEF Finish
<1>3. /\ reserved' \in Seq(Region) /\ Len(reserved') = m
      /\ \A j \in 1..m : reserved'[j] = out[j]
  <2>1. \A j \in 1..m : out[j] \in Region
    BY <1>1, <1>2, TypeFacts
  <2> QED BY <1>2, <2>1, SubSeqProperties DEF Finish
<1>4. TypeOK'
  BY <1>1, <1>3 DEF Finish, TypeOK
<1>5. Separated(reserved')
  BY <1>1, <1>3 DEF MergeInv, Separated, NonEmpty
<1>6. \A s \in Int : CoveredBy(reserved', s) <=> CoveredByPairs(regions, s)
  <2>1. (1..m) \union (i..Len(out)) = 1..m
    BY <1>2, <1>1, TypeFacts
  <2> QED BY <1>1, <1>3, <2>1 DEF CoverInv, CoveredBy
<1>7. DoneInv' /\ FilterInv' /\ MergeInv' /\ CoverInv'
  BY <1>5, <1>6 DEF Finish, DoneInv, FilterInv, MergeInv, CoverInv
<1> QED BY <1>4, <1>7 DEF IndInv

(* Returning early without regions preserves the invariant.                *)
LEMMA NoRegionsStep ==
  ASSUME IndInv, NoRegions
  PROVE  IndInv'
<1>1. reserved' \in Seq(Region) /\ Len(reserved') = 0 /\ Len(regions) = 0
  BY DEF NoRegions
<1>2. TypeOK'
  BY <1>1 DEF IndInv, TypeOK, NoRegions
<1>3. DoneInv'
  BY <1>1 DEF NoRegions, DoneInv, Separated, CoveredBy, CoveredByPairs
<1> QED BY <1>2, <1>3 DEF IndInv, NoRegions, FilterInv, MergeInv, CoverInv

(* Every step of setReservedRegions preserves the invariant.               *)
LEMMA NextIndInv == IndInv /\ [Next]_vars => IndInv'
<1> SUFFICES ASSUME IndInv, [Next]_vars PROVE IndInv'
  OBVIOUS
<1>1. CASE NoRegions
  BY <1>1, NoRegionsStep
<1>2. CASE Start
  BY <1>2 DEF Start, IndInv, TypeOK, FilterInv, MergeInv, CoverInv, DoneInv
<1>3. CASE FilterSkip
  BY <1>3, FilterSkipStep
<1>4. CASE FilterKeep
  BY <1>4, FilterKeepStep
<1>5. CASE SortSlice
  BY <1>5, SortSliceStep
<1>6. CASE MergeFirst \/ MergeAppend
  BY <1>6, AppendStep
<1>7. CASE MergeExtend \/ MergeAbsorb
  BY <1>7, FoldStep
<1>8. CASE Finish
  BY <1>8, FinishStep
<1>9. CASE UNCHANGED vars
  BY <1>9 DEF vars, IndInv, TypeOK, FilterInv, MergeInv, CoverInv, DoneInv
<1> QED BY <1>1, <1>2, <1>3, <1>4, <1>5, <1>6, <1>7, <1>8, <1>9 DEF Next

(* The invariant holds in every state of setReservedRegions.               *)
LEMMA Invariance == Spec => []IndInv
  BY InitIndInv, NextIndInv, PTL DEF Spec

(* setReservedRegions keeps its indices in range and its values well typed. *)
THEOREM TypeCorrect == Spec => []TypeOK
<1>1. IndInv => TypeOK
  BY DEF IndInv
<1> QED BY <1>1, Invariance, PTL

(***************************************************************************)
(* The in-place merge: appending to merged never overtakes the range loop, *)
(* and no sector is lost or added between any two iterations.              *)
(***************************************************************************)
THEOREM MergeInPlace == Spec => [](NoOvertaking /\ NoSectorLost)
<1>1. IndInv => NoOvertaking
  BY DEF IndInv, MergeInv, NoOvertaking
<1>2. IndInv => NoSectorLost
  BY SectorsAssumption DEF IndInv, CoverInv, NoSectorLost
<1> QED BY <1>1, <1>2, Invariance, PTL

(* The finished table is sorted and its regions do not touch. *)
THEOREM TableIsSeparated == Spec => []TableSeparated
<1>1. IndInv => TableSeparated
  BY DEF IndInv, DoneInv, TableSeparated
<1> QED BY <1>1, Invariance, PTL

(***************************************************************************)
(* isReservedSector on the finished table answers exactly the regions that *)
(* ReservedRegions returned.                                               *)
(***************************************************************************)
THEOREM LookupIsExact == Spec => []LookupExact
<1>1. ASSUME IndInv, pc = "done", NEW s \in Sectors
      PROVE  isReservedSector(reserved, s) <=> CoveredByPairs(regions, s)
  <2>1. s \in Int
    BY SectorsAssumption
  <2>2. reserved \in Seq(Region) /\ Separated(reserved)
    BY <1>1 DEF IndInv, TypeOK, DoneInv
  <2>3. isReservedSector(reserved, s) <=> CoveredBy(reserved, s)
    BY <2>1, <2>2, LookupIsMembership
  <2> QED BY <1>1, <2>1, <2>3 DEF IndInv, DoneInv
<1>2. IndInv => LookupExact
  BY <1>1 DEF LookupExact
<1> QED BY <1>2, Invariance, PTL

(***************************************************************************)
(* nextUnreservedOffset skips the whole run of metadata it stands in, and  *)
(* nothing else.                                                           *)
(***************************************************************************)
THEOREM SkipCorrect == Spec => []SkipsExactlyMetadata
<1>1. ASSUME IndInv, pc = "done", NEW s \in Sectors
      PROVE  LET off  == s * vol.sectorSize
                 next == nextUnreservedOffset(reserved, vol.sectorSize, off) \div vol.sectorSize
             IN  /\ ~CoveredByPairs(regions, next)
                 /\ \A t \in Sectors : s <= t /\ t < next => CoveredByPairs(regions, t)
  <2>1. s \in Int /\ vol.sectorSize \in Nat \ {0}
    <3>1. s \in Int
      BY SectorsAssumption
    <3>2. vol \in Volume
      BY <1>1, VolumesAssumption DEF IndInv, TypeOK
    <3>3. \A v \in Volume : v.sectorSize \in SectorSizes
      BY DEF Volume
    <3>4. SectorSizes \subseteq Nat \ {0}
      BY DEF SectorSizes
    <3> QED BY <3>1, <3>2, <3>3, <3>4
  <2>2. reserved \in Seq(Region) /\ Separated(reserved)
    BY <1>1 DEF IndInv, TypeOK, DoneInv
  <2>3. \A t \in Int : CoveredBy(reserved, t) <=> CoveredByPairs(regions, t)
    BY <1>1 DEF IndInv, DoneInv
  <2>4. PICK next \in Int :
           /\ nextUnreservedOffset(reserved, vol.sectorSize, s * vol.sectorSize)
                 = next * vol.sectorSize
           /\ ~CoveredBy(reserved, next)
           /\ \A t \in Int : s <= t /\ t < next => CoveredBy(reserved, t)
    BY <2>1, <2>2, SkipIsExact
  <2>5. \A x \in Int, y \in Nat \ {0} : (x * y) \div y = x
    OBVIOUS
  <2>6. (next * vol.sectorSize) \div vol.sectorSize = next
    BY <2>1, <2>5
  <2> QED BY <2>3, <2>4, <2>6, SectorsAssumption
<1>2. IndInv => SkipsExactlyMetadata
  BY <1>1 DEF SkipsExactlyMetadata
<1> QED BY <1>2, Invariance, PTL
---------------------------------------------------------------------------
(***************************************************************************)
(* From an unreserved sector, the search of nextReservedStartOffset finds  *)
(* the first region behind it, and nothing in between is reserved.         *)
(***************************************************************************)
LEMMA NextStartIsNext ==
  ASSUME NEW rs \in Seq(Region), Separated(rs), NEW sector \in Int, ~CoveredBy(rs, sector),
         NEW size \in Nat \ {0}
  PROVE  \/ /\ nextReservedStartOffset(rs, size, sector * size) = -1
            /\ \A t \in Int : sector <= t => ~CoveredBy(rs, t)
         \/ \E next \in Int :
              /\ nextReservedStartOffset(rs, size, sector * size) = next * size
              /\ CoveredBy(rs, next)
              /\ \A t \in Int : sector <= t /\ t < next => ~CoveredBy(rs, t)
<1>1. (sector * size) \div size = sector
  OBVIOUS
<1>2. /\ Len(rs) \in Nat
      /\ \A j \in 1..Len(rs) : rs[j].startSector \in Int /\ rs[j].endSector \in Int
  BY RegionTypes
<1> DEFINE x == SearchStartAfter(rs, sector)
<1>3. /\ x \in 0..Len(rs)
      /\ \A j \in 1..x : rs[j].startSector <= sector
      /\ x < Len(rs) => rs[x + 1].startSector > sector
  BY SearchStartAfterProperty
<1>4. nextReservedStartOffset(rs, size, sector * size)
        = IF x < Len(rs) THEN rs[x + 1].startSector * size ELSE -1
  BY <1>1 DEF nextReservedStartOffset
<1> HIDE DEF x
<1>5. ASSUME NEW j \in 1..x, NEW t \in Int, sector <= t PROVE ~InRegion(rs[j], t)
  <2>1. j \in 1..Len(rs) /\ rs[j].startSector <= sector
    BY <1>2, <1>3
  <2>2. ~InRegion(rs[j], sector)
    BY <2>1 DEF CoveredBy
  <2>3. rs[j].endSector <= sector
    BY <1>2, <2>1, <2>2 DEF InRegion
  <2> QED BY <1>2, <1>5, <2>1, <2>3 DEF InRegion
<1>6. CASE x < Len(rs)
  <2> DEFINE next == rs[x + 1].startSector
  <2>1. x + 1 \in 1..Len(rs) /\ next \in Int
    BY <1>2, <1>3, <1>6
  <2>2. CoveredBy(rs, next)
    <3>1. rs[x + 1].startSector < rs[x + 1].endSector
      BY <2>1 DEF Separated
    <3>2. InRegion(rs[x + 1], next)
      BY <1>2, <2>1, <3>1 DEF InRegion
    <3> QED BY <2>1, <3>2 DEF CoveredBy
  <2>3. ASSUME NEW t \in Int, sector <= t, t < next PROVE ~CoveredBy(rs, t)
    <3> SUFFICES ASSUME NEW j \in 1..Len(rs) PROVE ~InRegion(rs[j], t)
      BY DEF CoveredBy
    <3>1. CASE j <= x
      BY <1>3, <1>5, <2>3, <3>1
    <3>2. CASE j > x
      <4>1. j = x + 1 \/ j > x + 1
        BY <1>3, <3>2
      <4>2. next <= rs[j].startSector
        <5>1. CASE j = x + 1
          BY <2>1, <5>1
        <5>2. CASE j > x + 1
          <6>1. /\ rs[x + 1].startSector < rs[x + 1].endSector
                /\ rs[x + 1].endSector < rs[j].startSector
            BY <2>1, <5>2 DEF Separated
          <6> QED BY <1>2, <2>1, <6>1
        <5> QED BY <4>1, <5>1, <5>2
      <4> QED BY <1>2, <2>1, <2>3, <4>2 DEF InRegion
    <3> QED BY <1>3, <3>1, <3>2
  <2> HIDE DEF next
  <2>4. nextReservedStartOffset(rs, size, sector * size) = next * size
    BY <1>4, <1>6 DEF next
  <2> QED BY <2>1, <2>2, <2>3, <2>4
<1>7. CASE ~(x < Len(rs))
  <2>1. x = Len(rs)
    BY <1>2, <1>3, <1>7
  <2> QED BY <1>4, <1>5, <1>7, <2>1 DEF CoveredBy
<1> QED BY <1>6, <1>7

(* The sector size of a volume. *)
LEMMA SectorSizeOf ==
  ASSUME NEW v \in Volume
  PROVE  v.sectorSize \in SectorSizes /\ v.sectorSize \in Nat \ {0} /\ v.sectorSize > 1
<1>1. v.sectorSize \in SectorSizes
  BY DEF Volume
<1>2. \A x \in SectorSizes : x \in Nat \ {0} /\ x > 1
  BY DEF SectorSizes
<1> QED BY <1>1, <1>2

(***************************************************************************)
(* NextMetadataIsNext for every volume: nextReservedStartOffset names the  *)
(* first reserved sector behind an unreserved one, or says there is none.  *)
(***************************************************************************)
THEOREM NextMetadataFound == Spec => []NextMetadataIsNext
<1>1. ASSUME IndInv, pc = "done", NEW s \in Sectors, ~CoveredByPairs(regions, s)
      PROVE  LET next == nextReservedStartOffset(reserved, vol.sectorSize, s * vol.sectorSize)
             IN  IF next = -1
                   THEN \A t \in Sectors : s <= t => ~CoveredByPairs(regions, t)
                   ELSE /\ CoveredByPairs(regions, next \div vol.sectorSize)
                        /\ \A t \in Sectors :
                             s <= t /\ t < next \div vol.sectorSize => ~CoveredByPairs(regions, t)
  <2> DEFINE next == nextReservedStartOffset(reserved, vol.sectorSize, s * vol.sectorSize)
  <2>1. s \in Int /\ vol.sectorSize \in Nat \ {0} /\ vol.sectorSize > 1
    <3>1. vol \in Volume
      BY <1>1, VolumesAssumption DEF IndInv, TypeOK
    <3> QED BY <3>1, SectorsAssumption, SectorSizeOf
  <2>2. reserved \in Seq(Region) /\ Separated(reserved)
    BY <1>1 DEF IndInv, TypeOK, DoneInv
  <2>3. \A t \in Int : CoveredBy(reserved, t) <=> CoveredByPairs(regions, t)
    BY <1>1 DEF IndInv, DoneInv
  <2>4. ~CoveredBy(reserved, s)
    BY <1>1, <2>1, <2>3
  <2>5. \/ /\ next = -1
           /\ \A t \in Int : s <= t => ~CoveredBy(reserved, t)
        \/ \E first \in Int :
             /\ next = first * vol.sectorSize
             /\ CoveredBy(reserved, first)
             /\ \A t \in Int : s <= t /\ t < first => ~CoveredBy(reserved, t)
    BY <2>1, <2>2, <2>4, NextStartIsNext
  <2> HIDE DEF next
  <2>6. CASE next = -1 /\ \A t \in Int : s <= t => ~CoveredBy(reserved, t)
    BY <2>3, <2>6, SectorsAssumption DEF next
  <2>7. ASSUME NEW first \in Int, next = first * vol.sectorSize, CoveredBy(reserved, first),
               \A t \in Int : s <= t /\ t < first => ~CoveredBy(reserved, t)
        PROVE  /\ next # -1
               /\ CoveredByPairs(regions, next \div vol.sectorSize)
               /\ \A t \in Sectors :
                    s <= t /\ t < next \div vol.sectorSize => ~CoveredByPairs(regions, t)
    <3>1. \A x \in Int, y \in Nat \ {0} : (x * y) \div y = x
      OBVIOUS
    <3>2. next \div vol.sectorSize = first
      BY <2>1, <2>7, <3>1
    <3>3. \A x \in Int, y \in Nat \ {0} : y > 1 => x * y # -1
      <4> SUFFICES ASSUME NEW x \in Int, NEW y \in Nat \ {0}, y > 1, x * y = -1 PROVE FALSE
        OBVIOUS
      <4>1. (x * y) \div y = x
        OBVIOUS
      <4>2. (-1) \div y = -1
        OBVIOUS
      <4>3. x = -1
        BY <4>1, <4>2
      <4> QED BY <4>3
    <3>4. next # -1
      BY <2>1, <2>7, <3>3
    <3> QED BY <2>3, <2>7, <3>2, <3>4, SectorsAssumption
  <2> QED BY <2>5, <2>6, <2>7 DEF next
<1>2. IndInv => NextMetadataIsNext
  BY <1>1 DEF NextMetadataIsNext
<1> QED BY <1>2, Invariance, PTL

---------------------------------------------------------------------------
(* RoundDown(x + size - 1, size), as the code rounds up, is not below x. *)
LEMMA RoundsUp ==
  ASSUME NEW mask \in Nat, NEW size \in Nat \ {0}
  PROVE  RoundDown(size + mask, size) \in Int /\ RoundDown(size + mask, size) > mask
<1>1. (size + mask) % size \in 0..(size - 1)
  OBVIOUS
<1>2. PICK r \in 0..(size - 1) : r = (size + mask) % size
  BY <1>1
<1>3. RoundDown(size + mask, size) = (size + mask) - r
  BY <1>2 DEF RoundDown
<1>4. (size + mask) - r \in Int /\ (size + mask) - r > mask
  OBVIOUS
<1> QED BY <1>3, <1>4

(* At least 16 KiB are reserved at every information offset. *)
LEMMA SectorsSuffice ==
  ASSUME NEW v \in Volume, NEW w \in Nat, w <= BlockMaskV1
  PROVE  w \div v.sectorSize \in Nat /\ InformationSectors(v) \in Int
         /\ w \div v.sectorSize < InformationSectors(v)
<1>1. v.sectorSize \in SectorSizes /\ v.sectorSize \in Nat \ {0} /\ v.clusterSize \in Nat \ {0}
  <2>1. v.clusterSize \in ClusterSizes
    BY DEF Volume
  <2>2. ClusterSizes \subseteq Nat \ {0}
    BY DEF ClusterSizes
  <2> QED BY <2>1, <2>2, SectorSizeOf
<1>2. PICK S \in Nat \ {0} : S = v.sectorSize /\ S \in SectorSizes
  BY <1>1
<1>3. BlockMaskV1 \in Nat /\ BlockMaskV2 \in Nat /\ BlockMaskV1 <= BlockMaskV2
  BY SMT DEF BlockMaskV1, BlockMaskV2
<1>4. PICK R \in Int : R > BlockMaskV1 /\ InformationSectors(v) = R \div S
  <2>1. CASE v.version = 1
    <3>1. /\ RoundDown(v.clusterSize + BlockMaskV1, v.clusterSize) \in Int
          /\ RoundDown(v.clusterSize + BlockMaskV1, v.clusterSize) > BlockMaskV1
      BY <1>1, <1>3, RoundsUp
    <3>2. InformationSectors(v)
            = RoundDown(v.clusterSize + BlockMaskV1, v.clusterSize) \div v.sectorSize
      BY <2>1 DEF InformationSectors
    <3> QED BY <1>2, <3>1, <3>2
  <2>2. CASE v.version # 1
    <3>1. /\ RoundDown(v.sectorSize + BlockMaskV2, v.sectorSize) \in Int
          /\ RoundDown(v.sectorSize + BlockMaskV2, v.sectorSize) > BlockMaskV2
      BY <1>1, <1>3, RoundsUp
    <3>2. InformationSectors(v)
            = RoundDown(v.sectorSize + BlockMaskV2, v.sectorSize) \div v.sectorSize
      BY <2>2 DEF InformationSectors
    <3>3. PICK Q \in Int : Q = RoundDown(v.sectorSize + BlockMaskV2, v.sectorSize)
      BY <3>1
    <3>4. Q > BlockMaskV1
      <4>1. PICK a \in Nat, b \in Nat : a = BlockMaskV1 /\ b = BlockMaskV2
        BY <1>3
      <4>2. Q > b /\ a <= b
        BY <1>3, <3>1, <3>3, <4>1
      <4>3. Q > a
        BY <4>2
      <4> QED BY <4>1, <4>3
    <3> QED BY <1>2, <3>2, <3>3, <3>4
  <2> QED BY <2>1, <2>2
<1>5. PICK u \in Nat : S * u = BlockMaskV1 + 1
  <2>1. CASE S = 512
    <3>1. 512 * 32 = 16383 + 1
      BY SMT
    <3> QED BY <2>1, <3>1, SMT DEF BlockMaskV1
  <2>2. CASE S = 1024
    <3>1. 1024 * 16 = 16383 + 1
      BY SMT
    <3> QED BY <2>2, <3>1, SMT DEF BlockMaskV1
  <2>3. CASE S = 2048
    <3>1. 2048 * 8 = 16383 + 1
      BY SMT
    <3> QED BY <2>3, <3>1, SMT DEF BlockMaskV1
  <2>4. CASE S = 4096
    <3>1. 4096 * 4 = 16383 + 1
      BY SMT
    <3> QED BY <2>4, <3>1, SMT DEF BlockMaskV1
  <2> QED BY <1>2, <2>1, <2>2, <2>3, <2>4, SMT DEF SectorSizes
<1>6. PICK a \in Nat : a = BlockMaskV1
  BY <1>3
<1>7. w <= a /\ R > a /\ S * u = a + 1
  BY <1>4, <1>5, <1>6
<1>8. PICK x \in Int, rx \in 0..(S - 1) : w = S * x + rx /\ x = w \div S
  <2>1. w = S * (w \div S) + (w % S) /\ w \div S \in Int /\ w % S \in 0..(S - 1)
    OBVIOUS
  <2> QED BY <2>1
<1>9. PICK y \in Int, ry \in 0..(S - 1) : R = S * y + ry /\ y = R \div S
  <2>1. R = S * (R \div S) + (R % S) /\ R \div S \in Int /\ R % S \in 0..(S - 1)
    OBVIOUS
  <2> QED BY <2>1
<1>10. x >= 0
  <2> SUFFICES ASSUME x <= -1 PROVE FALSE
    OBVIOUS
  <2>1. S * x <= S * (-1)
    OBVIOUS
  <2> QED BY <1>8, <2>1
<1>11. x < u
  <2> SUFFICES ASSUME x >= u PROVE FALSE
    OBVIOUS
  <2>1. S * x >= S * u
    OBVIOUS
  <2> QED BY <1>7, <1>8, <2>1
<1>12. y >= u
  <2> SUFFICES ASSUME y + 1 <= u PROVE FALSE
    OBVIOUS
  <2>1. S * (y + 1) <= S * u
    OBVIOUS
  <2>2. S * (y + 1) = S * y + S
    OBVIOUS
  <2> QED BY <1>7, <1>9, <2>1, <2>2
<1>13. x < y /\ x \in Nat
  BY <1>10, <1>11, <1>12
<1> QED BY <1>2, <1>4, <1>8, <1>9, <1>13

(* The information offsets of a volume are among its three offset fields. *)
LEMMA OffsetsAreFields ==
  ASSUME NEW v \in Volume
  PROVE  /\ InformationOffsets(v) \in Seq({v.offsets[1], v.offsets[2], v.offsets[3]})
         /\ v.offsets[1] \in Nat /\ v.offsets[2] \in Nat /\ v.offsets[3] \in Nat
<1> DEFINE O == {v.offsets[1], v.offsets[2], v.offsets[3]}
<1>1. NonZero(v.offsets[1]) \in Seq(O) /\ NonZero(v.offsets[2]) \in Seq(O)
      /\ NonZero(v.offsets[3]) \in Seq(O)
  <2>1. ASSUME NEW Q, NEW x \in Q PROVE NonZero(x) \in Seq(Q)
    BY DEF NonZero
  <2>2. v.offsets[1] \in O /\ v.offsets[2] \in O /\ v.offsets[3] \in O
    OBVIOUS
  <2> HIDE DEF O
  <2> QED BY <2>1, <2>2
<1>2. v.offsets \in Nat \X Nat \X Nat
  BY DEF Volume
<1>3. v.offsets[1] \in Nat /\ v.offsets[2] \in Nat /\ v.offsets[3] \in Nat
  BY <1>2
<1> HIDE DEF O
<1>4. NonZero(v.offsets[1]) \o NonZero(v.offsets[2]) \in Seq(O)
  BY <1>1, ConcatProperties
<1>5. InformationOffsets(v) \in Seq(O)
  BY <1>1, <1>4, ConcatProperties DEF InformationOffsets
<1> QED BY <1>3, <1>5 DEF O

(* The argument of setReservedRegions is what ReservedRegions returned. *)
LEMMA ArgumentKept == Spec => [](regions = ReservedRegions(vol))
<1>1. Init => regions = ReservedRegions(vol)
  BY DEF Init
<1>2. regions = ReservedRegions(vol) /\ [Next]_vars => (regions = ReservedRegions(vol))'
  <2> SUFFICES ASSUME regions = ReservedRegions(vol), [Next]_vars
               PROVE  (regions = ReservedRegions(vol))'
    OBVIOUS
  <2>1. regions' = regions /\ vol' = vol
    BY DEF Next, NoRegions, Start, FilterSkip, FilterKeep, SortSlice, MergeFirst, MergeAppend,
       MergeExtend, MergeAbsorb, Finish, vars
  <2> QED BY <2>1
<1> QED BY <1>1, <1>2, PTL DEF Spec

(* The sectors of a small, aligned information block are among the volume's regions. *)
LEMMA SmallBlockCovered ==
  ASSUME NEW v \in Volume, v.version >= 1, \A j \in 1..3 : v.offsets[j] % v.sectorSize = 0,
         InformationBlockHeaderSize + v.metadataSize <= BlockMaskV1 + 1,
         NEW s \in MetadataSectors(v)
  PROVE  s \in Int /\ CoveredByPairs(ReservedRegions(v), s)
<1>1. PICK S \in Nat \ {0} : S = v.sectorSize
  BY SectorSizeOf
<1> DEFINE offs == InformationOffsets(v)
<1>2. PICK j \in 1..Len(offs) :
        LET last == offs[j] + InformationBlockHeaderSize + v.metadataSize - 1
        IN  s \in (offs[j] \div S)..(last \div S)
  BY <1>1 DEF MetadataSectors
<1>3. /\ offs \in Seq({v.offsets[1], v.offsets[2], v.offsets[3]}) /\ Len(offs) \in Nat
      /\ v.offsets[1] \in Nat /\ v.offsets[2] \in Nat /\ v.offsets[3] \in Nat
  BY OffsetsAreFields, LenProperties
<1>4. offs[j] \in {v.offsets[1], v.offsets[2], v.offsets[3]}
  BY <1>3, ElementOfSeq
<1>5. offs[j] \in Nat /\ offs[j] % S = 0
  BY <1>1, <1>3, <1>4
<1>6. PICK o \in Nat : o = offs[j]
  BY <1>5
<1>7. PICK q \in Int : o = S * q + 0 /\ q = o \div S
  <2>1. o = S * (o \div S) + (o % S) /\ o \div S \in Int
    OBVIOUS
  <2> QED BY <1>5, <1>6, <2>1
<1>8. PICK w \in Nat : /\ w <= BlockMaskV1
                       /\ w = InformationBlockHeaderSize + v.metadataSize - 1
  <2>1. v.metadataSize \in Nat
    BY DEF Volume
  <2>2. PICK mask \in Nat : mask = BlockMaskV1
    BY SMT DEF BlockMaskV1
  <2>3. PICK h \in Nat \ {0} : h = InformationBlockHeaderSize
    BY DEF InformationBlockHeaderSize
  <2>4. PICK z \in Nat : z = v.metadataSize
    BY <2>1
  <2>5. h + z <= mask + 1
    BY <2>2, <2>3, <2>4
  <2>6. h + z - 1 \in Nat /\ h + z - 1 <= mask
    BY <2>5
  <2> QED BY <2>2, <2>3, <2>4, <2>6
<1>9. w \div v.sectorSize \in Nat /\ InformationSectors(v) \in Int
      /\ w \div v.sectorSize < InformationSectors(v)
  BY <1>8, SectorsSuffice
<1>10. PICK x \in Nat, c \in Int : x = w \div S /\ c = InformationSectors(v) /\ x < c
  BY <1>1, <1>9
<1>11. s \in q..(q + x)
  <2>1. offs[j] + InformationBlockHeaderSize + v.metadataSize - 1 = o + w
    <3>1. PICK h \in Nat \ {0} : h = InformationBlockHeaderSize
      BY DEF InformationBlockHeaderSize
    <3>2. PICK z \in Nat : z = v.metadataSize
      BY DEF Volume
    <3>3. w = h + z - 1
      BY <1>8, <3>1, <3>2
    <3>4. o + h + z - 1 = o + w
      BY <3>3
    <3> QED BY <1>6, <3>1, <3>2, <3>4
  <2>2. s \in q..((o + w) \div S)
    BY <1>2, <1>6, <1>7, <2>1
  <2>3. (o + w) \div S = q + x
    <3>1. w = S * (w \div S) + (w % S) /\ w % S \in 0..(S - 1)
      OBVIOUS
    <3>2. PICK r \in 0..(S - 1) : w = S * x + r
      BY <1>10, <3>1
    <3>3. o + w = S * (q + x) + r
      <4>1. S * (q + x) = S * q + S * x
        OBVIOUS
      <4> QED BY <1>7, <3>2, <4>1
    <3>4. \A a \in Int, b \in 0..(S - 1) : (S * a + b) \div S = a
      OBVIOUS
    <3>5. q + x \in Int
      OBVIOUS
    <3> QED BY <3>3, <3>4, <3>5
  <2> QED BY <2>2, <2>3
<1>12. s \in Int /\ s >= q /\ s < q + c
  BY <1>10, <1>11
<1> DEFINE info == InformationRegions(v)
<1>13. j \in 1..Len(info) /\ info[j] = <<q, c>> /\ info \in Seq(Int \X Int) /\ Len(info) \in Nat
  <2>1. info = [l \in 1..Len(offs) |-> <<offs[l] \div S, c>>]
    BY <1>1, <1>10 DEF InformationRegions
  <2>2. \A l \in 1..Len(offs) : offs[l] \div S \in Int
    <3>1. \A l \in 1..Len(offs) : offs[l] \in {v.offsets[1], v.offsets[2], v.offsets[3]}
      BY <1>3, ElementOfSeq
    <3>2. \A l \in 1..Len(offs) : offs[l] \in Int
      BY <1>3, <3>1
    <3>3. \A a \in Int : a \div S \in Int
      OBVIOUS
    <3> QED BY <3>2, <3>3
  <2>3. info \in [1..Len(offs) -> Int \X Int]
    BY <2>1, <2>2
  <2>4. info \in Seq(Int \X Int) /\ Len(info) = Len(offs)
    BY <1>3, <2>3
  <2> QED BY <1>3, <1>6, <1>7, <2>1, <2>4
<1>14. InPair(info[j], s)
  BY <1>12, <1>13 DEF InPair
<1>15. j \in 1..Len(ReservedRegions(v)) /\ ReservedRegions(v)[j] = info[j]
  <2>1. v.version \in Nat
    BY DEF Volume
  <2>2. CASE v.version = 1
    BY <1>13, <2>2 DEF ReservedRegions
  <2>3. CASE v.version >= 2
    <3>1. ReservedRegions(v) = info \o EowRegions(v)
      BY <2>1, <2>3 DEF ReservedRegions
    <3>2. EowRegions(v) \in Seq(Int \X Int)
      BY EowRegionsType
    <3> HIDE DEF info
    <3>3. /\ Len(info \o EowRegions(v)) = Len(info) + Len(EowRegions(v))
          /\ \A l \in 1..Len(info) + Len(EowRegions(v)) :
               (info \o EowRegions(v))[l] = IF l <= Len(info) THEN info[l]
                                            ELSE EowRegions(v)[l - Len(info)]
      BY <1>13, <3>2, ConcatProperties
    <3>4. Len(EowRegions(v)) \in Nat
      BY <3>2, LenProperties
    <3>5. j \in 1..Len(info) + Len(EowRegions(v)) /\ j <= Len(info)
      BY <1>13, <3>4
    <3> QED BY <3>1, <3>3, <3>5
  <2>4. v.version = 1 \/ v.version >= 2
    BY <2>1
  <2> QED BY <2>2, <2>3, <2>4
<1> HIDE DEF info
<1> QED BY <1>12, <1>14, <1>15 DEF CoveredByPairs

(***************************************************************************)
(* SmallMetadataReserved for every volume: information blocks of at most   *)
(* 16 KiB at sector-aligned offsets lie wholly in reserved sectors,        *)
(* whichever of the two ways ReservedRegions computes their size.          *)
(***************************************************************************)
THEOREM SmallMetadataIsReserved == Spec => []SmallMetadataReserved
<1>1. ASSUME IndInv, regions = ReservedRegions(vol), pc = "done", vol.version >= 1, AlignedBlocks,
             InformationBlockHeaderSize + vol.metadataSize <= BlockMaskV1 + 1,
             NEW s \in MetadataSectors(vol)
      PROVE  isReservedSector(reserved, s)
  <2>1. vol \in Volume
    BY <1>1, VolumesAssumption DEF IndInv, TypeOK
  <2>2. s \in Int /\ CoveredByPairs(regions, s)
    BY <1>1, <2>1, SmallBlockCovered DEF AlignedBlocks
  <2>3. reserved \in Seq(Region) /\ Separated(reserved)
    BY <1>1 DEF IndInv, TypeOK, DoneInv
  <2>4. CoveredBy(reserved, s)
    BY <1>1, <2>2 DEF IndInv, DoneInv
  <2> QED BY <2>2, <2>3, <2>4, LookupIsMembership
<1>2. BlockMaskV1 + 1 = 16384
  BY SMT DEF BlockMaskV1
<1>3. IndInv /\ regions = ReservedRegions(vol) => SmallMetadataReserved
  BY <1>1, <1>2, SMT DEF SmallMetadataReserved
<1> QED BY <1>3, Invariance, ArgumentKept, PTL
=============================================================================
