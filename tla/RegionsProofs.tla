---------------------------- MODULE RegionsProofs ----------------------------
(***************************************************************************)
(* What the lookups of Regions compute in any table of separated regions.  *)
(***************************************************************************)
EXTENDS Regions, WellFoundedInduction, SequenceTheorems, TLAPS

(***************************************************************************)
(* sort.Search has an answer: of the indices 1..n, those in P have a first *)
(* one, or there is none at all.                                           *)
(***************************************************************************)
LEMMA FirstIndex ==
  ASSUME NEW n \in Nat, NEW P \in SUBSET (1..n)
  PROVE  \E x \in 0..n : /\ \A j \in 1..x : j \notin P
                         /\ x < n => x + 1 \in P
<1> DEFINE T == {x \in Nat : x = n \/ (x < n /\ x + 1 \in P)}
<1>1. T # {} /\ T \subseteq Nat
  OBVIOUS
<1>2. PICK x \in T : \A y \in T : ~(<<y, x>> \in OpToRel(<, Nat))
  BY <1>1, NatLessThanWellFounded, WFMin
<1>3. \A y \in T : ~(y < x)
  BY <1>2 DEF OpToRel
<1>4. x \in 0..n
  OBVIOUS
<1>5. ASSUME NEW j \in 1..x PROVE j \notin P
  <2>1. j - 1 \in Nat /\ j - 1 < x /\ j - 1 < n /\ (j - 1) + 1 = j
    BY <1>4
  <2>2. j \in P => j - 1 \in T
    BY <2>1
  <2> QED BY <2>1, <2>2, <1>3
<1>6. x < n => x + 1 \in P
  OBVIOUS
<1> QED BY <1>4, <1>5, <1>6

(* The elements of a table of reservedRegions have integer fields.         *)
LEMMA RegionTypes ==
  ASSUME NEW rs \in Seq(Region)
  PROVE  /\ Len(rs) \in Nat
         /\ \A j \in 1..Len(rs) : /\ rs[j] \in Region
                                  /\ rs[j].startSector \in Int
                                  /\ rs[j].endSector \in Int
<1>1. Len(rs) \in Nat /\ \A j \in 1..Len(rs) : rs[j] \in Region
  OBVIOUS
<1>2. \A rr \in Region : rr.startSector \in Int /\ rr.endSector \in Int
  BY DEF Region
<1> QED BY <1>1, <1>2

(***************************************************************************)
(* sort.Search over startSector, as isReservedSector calls it, returns an  *)
(* index with its defining property.                                       *)
(***************************************************************************)
LEMMA SearchStartAfterProperty ==
  ASSUME NEW rs \in Seq(Region), NEW sector \in Int
  PROVE  /\ SearchStartAfter(rs, sector) \in 0..Len(rs)
         /\ \A j \in 1..SearchStartAfter(rs, sector) : rs[j].startSector <= sector
         /\ SearchStartAfter(rs, sector) < Len(rs)
              => rs[SearchStartAfter(rs, sector) + 1].startSector > sector
<1> DEFINE P == {j \in 1..Len(rs) : rs[j].startSector > sector}
<1>1. Len(rs) \in Nat /\ \A j \in 1..Len(rs) : rs[j].startSector \in Int
  BY RegionTypes
<1>2. \E x \in 0..Len(rs) : /\ \A j \in 1..x : j \notin P
                            /\ x < Len(rs) => x + 1 \in P
  BY <1>1, FirstIndex, P \in SUBSET (1..Len(rs))
<1>3. \E x \in 0..Len(rs) :
         /\ \A j \in 1..x : ~(rs[j].startSector > sector)
         /\ x < Len(rs) => rs[x + 1].startSector > sector
  BY <1>1, <1>2
<1> DEFINE y == SearchStartAfter(rs, sector)
<1>4. /\ y \in 0..Len(rs)
      /\ \A j \in 1..y : ~(rs[j].startSector > sector)
      /\ y < Len(rs) => rs[y + 1].startSector > sector
  BY <1>3 DEF SearchStartAfter
<1> HIDE DEF y
<1>5. \A j \in 1..y : rs[j].startSector <= sector
  BY <1>1, <1>4
<1> QED BY <1>4, <1>5 DEF y

(* The same for the search over endSector in nextUnreservedOffset.         *)
LEMMA SearchEndAfterProperty ==
  ASSUME NEW rs \in Seq(Region), NEW sector \in Int
  PROVE  /\ SearchEndAfter(rs, sector) \in 0..Len(rs)
         /\ \A j \in 1..SearchEndAfter(rs, sector) : rs[j].endSector <= sector
         /\ SearchEndAfter(rs, sector) < Len(rs)
              => rs[SearchEndAfter(rs, sector) + 1].endSector > sector
<1> DEFINE P == {j \in 1..Len(rs) : rs[j].endSector > sector}
<1>1. Len(rs) \in Nat /\ \A j \in 1..Len(rs) : rs[j].endSector \in Int
  BY RegionTypes
<1>2. \E x \in 0..Len(rs) : /\ \A j \in 1..x : j \notin P
                            /\ x < Len(rs) => x + 1 \in P
  BY <1>1, FirstIndex, P \in SUBSET (1..Len(rs))
<1>3. \E x \in 0..Len(rs) :
         /\ \A j \in 1..x : ~(rs[j].endSector > sector)
         /\ x < Len(rs) => rs[x + 1].endSector > sector
  BY <1>1, <1>2
<1> DEFINE y == SearchEndAfter(rs, sector)
<1>4. /\ y \in 0..Len(rs)
      /\ \A j \in 1..y : ~(rs[j].endSector > sector)
      /\ y < Len(rs) => rs[y + 1].endSector > sector
  BY <1>3 DEF SearchEndAfter
<1> HIDE DEF y
<1>5. \A j \in 1..y : rs[j].endSector <= sector
  BY <1>1, <1>4
<1> QED BY <1>4, <1>5 DEF y

(***************************************************************************)
(* The binary search of isReservedSector finds the region of a sector in   *)
(* any table of separated regions.                                         *)
(***************************************************************************)
LEMMA LookupIsMembership ==
  ASSUME NEW rs \in Seq(Region), Separated(rs), NEW sector \in Int
  PROVE  isReservedSector(rs, sector) <=> CoveredBy(rs, sector)
<1> DEFINE x == SearchStartAfter(rs, sector)
<1>1. /\ x \in 0..Len(rs)
      /\ \A j \in 1..x : rs[j].startSector <= sector
      /\ x < Len(rs) => rs[x + 1].startSector > sector
  BY SearchStartAfterProperty
<1>2. Len(rs) \in Nat /\ \A j \in 1..Len(rs) : rs[j] \in Region
  OBVIOUS
<1> HIDE DEF x
<1>3. ASSUME isReservedSector(rs, sector) PROVE CoveredBy(rs, sector)
  BY <1>1, <1>2, <1>3 DEF isReservedSector, CoveredBy, x
<1>4. ASSUME CoveredBy(rs, sector) PROVE isReservedSector(rs, sector)
  <2>1. PICK j \in 1..Len(rs) : InRegion(rs[j], sector)
    BY <1>4 DEF CoveredBy
  <2>2. rs[j].startSector <= sector /\ sector < rs[j].endSector
    BY <2>1, <1>2 DEF InRegion, Region
  <2>3. j <= x
    <3>1. SUFFICES ASSUME x < j PROVE FALSE
      BY <1>1, <1>2
    <3>2. rs[x + 1].startSector > sector
      BY <1>1, <1>2, <3>1
    <3>3. CASE j = x + 1
      BY <3>2, <3>3, <2>2, <1>2 DEF Region
    <3>4. CASE j > x + 1
      <4>1. /\ x + 1 \in 1..Len(rs)
            /\ rs[x + 1].startSector < rs[x + 1].endSector
            /\ rs[x + 1].endSector < rs[j].startSector
        BY <1>1, <1>2, <3>4 DEF Separated
      <4> QED BY <4>1, <3>2, <2>2, <1>2 DEF Region
    <3> QED BY <3>1, <3>3, <3>4, <1>1
  <2>4. j = x
    <3>1. SUFFICES ASSUME j < x PROVE FALSE
      BY <2>3, <1>1
    <3>2. rs[j].endSector < rs[x].startSector /\ rs[x].startSector <= sector
      BY <1>1, <1>2, <3>1 DEF Separated
    <3> QED BY <3>1, <3>2, <2>2, <1>1, <1>2 DEF Region
  <2> QED BY <2>1, <2>4, <1>1 DEF isReservedSector, x
<1> QED BY <1>3, <1>4 DEF isReservedSector, CoveredBy

(***************************************************************************)
(* From a reserved sector, nextUnreservedOffset lands on the first sector  *)
(* behind the region it is in; separation makes that one unreserved.       *)
(***************************************************************************)
LEMMA SkipIsExact ==
  ASSUME NEW rs \in Seq(Region), Separated(rs), NEW sector \in Int,
         NEW size \in Nat \ {0}
  PROVE  \E next \in Int :
            /\ nextUnreservedOffset(rs, size, sector * size) = next * size
            /\ ~CoveredBy(rs, next)
            /\ \A t \in Int : sector <= t /\ t < next => CoveredBy(rs, t)
<1>1. (sector * size) \div size = sector
  OBVIOUS
<1>2. /\ Len(rs) \in Nat
      /\ \A j \in 1..Len(rs) : rs[j].startSector \in Int /\ rs[j].endSector \in Int
  BY RegionTypes
<1>3. CASE ~CoveredBy(rs, sector)
  BY <1>1, <1>3, LookupIsMembership DEF nextUnreservedOffset
<1>4. CASE CoveredBy(rs, sector)
  <2> DEFINE x == SearchEndAfter(rs, sector)
  <2>1. /\ x \in 0..Len(rs)
        /\ \A j \in 1..x : rs[j].endSector <= sector
        /\ x < Len(rs) => rs[x + 1].endSector > sector
    BY SearchEndAfterProperty
  <2>2. PICK j \in 1..Len(rs) : InRegion(rs[j], sector)
    BY <1>4 DEF CoveredBy
  <2>3. rs[j].startSector <= sector /\ sector < rs[j].endSector
    BY <2>2, <1>2 DEF InRegion
  <2> HIDE DEF x
  <2>4. j > x
    BY <2>1, <2>3, <1>2
  <2>5. j = x + 1
    <3>1. SUFFICES ASSUME x + 1 < j PROVE FALSE
      BY <2>4, <2>1
    <3>2. x + 1 \in 1..Len(rs) /\ x < Len(rs)
      BY <3>1, <2>1, <1>2
    <3>3. rs[x + 1].endSector < rs[j].startSector /\ rs[x + 1].endSector > sector
      BY <3>1, <3>2, <2>1 DEF Separated
    <3> QED BY <3>2, <3>3, <2>3, <1>2
  <2> DEFINE next == rs[j].endSector
  <2>6. next \in Int
    BY <1>2
  <2>7. nextUnreservedOffset(rs, size, sector * size) = next * size
    <3>1. isReservedSector(rs, sector)
      BY <1>4, LookupIsMembership
    <3>2. x < Len(rs) /\ InRegion(rs[x + 1], sector)
      BY <2>1, <2>2, <2>5, <1>2
    <3> QED BY <1>1, <2>5, <3>1, <3>2 DEF nextUnreservedOffset, x
  <2>8. ~CoveredBy(rs, next)
    <3>1. SUFFICES ASSUME NEW l \in 1..Len(rs), InRegion(rs[l], next) PROVE FALSE
      BY DEF CoveredBy
    <3>2. rs[l].startSector <= next /\ next < rs[l].endSector
      BY <3>1, <1>2 DEF InRegion
    <3>3. CASE l = j
      BY <3>2, <3>3, <1>2
    <3>4. CASE l < j
      <4>1. rs[l].endSector < rs[j].startSector /\ rs[j].startSector < rs[j].endSector
        BY <3>4 DEF Separated
      <4> QED BY <4>1, <3>2, <1>2
    <3>5. CASE l > j
      <4>1. rs[j].endSector < rs[l].startSector
        BY <3>5 DEF Separated
      <4> QED BY <4>1, <3>2, <1>2
    <3> QED BY <3>3, <3>4, <3>5, <1>2
  <2>9. ASSUME NEW t \in Int, sector <= t, t < next PROVE CoveredBy(rs, t)
    BY <2>3, <2>9, <1>2 DEF CoveredBy, InRegion
  <2> QED BY <2>6, <2>7, <2>8, <2>9
<1> QED BY <1>3, <1>4
=============================================================================
