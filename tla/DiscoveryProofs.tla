--------------------------- MODULE DiscoveryProofs ---------------------------
(***************************************************************************)
(* What New finds, and in which order, for sources of every length, with   *)
(* any locators and blocks in them and any sizes of sectors and scans.     *)
(***************************************************************************)
EXTENDS Discovery, SetInduction, SequenceTheorems, TLAPS

---------------------------------------------------------------------------
(* The inductive invariant. *)

(* Until a phase begins, what it computes is not there. *)
PhaseInv ==
  /\ pc = "scan" => k = 1
  /\ pc \in {"scan", "raw", "tail"} => available = <<>>
  /\ pc \in {"scan", "raw", "tail", "parse"} =>
       availableEow = <<>> /\ information = <<>> /\ eowInformation = <<>>
  /\ pc = "eow" => eowInformation = <<>>
  /\ pc = "done" <=> result # "none"

(* The passes still to make, and what the ones made have shown. *)
PassInv ==
  pc = "scan" =>
    LET S == SectorSize(img)
    IN  \/ passes = <<S, Size512, Size4096>> /\ S # Size512 /\ S # Size4096
        \/ passes = <<S, Size4096>> /\ S = Size512 /\ S # Size4096
        \/ passes = <<S, Size512>> /\ S # Size512 /\ S = Size4096
        \/ passes = <<S>> /\ S = Size512 /\ S = Size4096
        \/ passes = <<Size512, Size4096>> /\ S # Size512 /\ S # Size4096 /\ Quiet(img, S)
        \/ passes = <<Size512>> /\ S # Size512 /\ S = Size4096 /\ Quiet(img, S)
        \/ passes = <<Size4096>> /\ S # Size4096 /\ Quiet(img, S) /\ Quiet(img, Size512)

(* The EOW offsets of the first n sectors. *)
EowUpTo(v, ss, n) == Appended([s \in Nat |-> EowIn(v, s * ss, ss)], n)

(* Within a pass the offsets are those of the sectors read so far. *)
ScanInv ==
  pc = "scan" =>
    /\ infoOffsets = probeInformationOffsets(img, 0, Head(passes), sector)
    /\ eowOffsets = EowUpTo(img, Head(passes), sector)
    /\ \A s \in 0..(sector - 1) :
         SectorReadable(img, 0 + s * Head(passes), Head(passes), img.len)
    /\ eowOffsets # <<>> =>
         \E s \in 0..(sector - 1) : LocatorIn(img, s * Head(passes), Head(passes)) # {}

(* The j-th pass is the last one, and has been read to its end. *)
LastPass(j) ==
  /\ ProbeReads(img, 0, img.len, Sizes(img)[j], ScanSectors)
  /\ eowOffsets = PassEow(img, Sizes(img)[j])
  /\ \A l \in 1..(j - 1) : Quiet(img, Sizes(img)[l])

(* Without info offsets from the scans, the fallbacks supply them. *)
FromFallback ==
  \/ \A i \in 1..Len(infoOffsets) : infoOffsets[i] \in BootSectorPlaces(img)
  \/ \E j \in 1..3 : infoOffsets = TailOffsets(img, Sizes(img)[j])

(* The scans of the start end in one of three ways. *)
LocatorsFound ==
  /\ pc \in {"parse", "eow", "done"}
  /\ infoOffsets # <<>>
  /\ \E j \in 1..3 : LastPass(j) /\ infoOffsets = PassOffsets(img, Sizes(img)[j])

OnlyEowFound ==
  /\ eowOffsets # <<>>
  /\ FromFallback
  /\ \E j \in 1..3 :
       /\ LastPass(j) /\ PassOffsets(img, Sizes(img)[j]) = <<>>
       /\ \E s \in 0..(ScanSectors - 1) :
            LocatorIn(img, s * Sizes(img)[j], Sizes(img)[j]) # {}

NoLocatorFound ==
  /\ eowOffsets = <<>>
  /\ \A j \in 1..3 : Quiet(img, Sizes(img)[j])

RawInv ==
  pc = "raw" => \A i \in 1..Len(infoOffsets) : infoOffsets[i] \in BootSectorPlaces(img)

FoundInv ==
  pc # "scan" /\ result # "readError" => LocatorsFound \/ OnlyEowFound \/ NoLocatorFound

(* A read fails in a pass that those before it have led to. *)
FailInv ==
  result = "readError" =>
    \E j \in 1..3 : /\ ~ProbeReads(img, 0, img.len, Sizes(img)[j], ScanSectors)
                    /\ \A l \in 1..(j - 1) : Quiet(img, Sizes(img)[l])

(* The tail window for sector size ss shows no offset of a block. *)
TailBlank(v, ss) ==
  \/ EffectiveSize(v) <= 0
  \/ ~ProbeReads(v, TailStart(v, ss), Min({EffectiveSize(v), v.len}), ss, TailSectors)
  \/ probeInformationOffsets(v, TailStart(v, ss), ss, TailSectors) = <<>>

TailInv ==
  /\ pc = "tail" /\ infoOffsets = <<>> => \A j \in 1..(k - 1) : TailBlank(img, Sizes(img)[j])
  /\ (pc \in {"parse", "eow", "done"} /\ result # "readError" /\ infoOffsets = <<>>) =>
       \A j \in 1..3 : TailBlank(img, Sizes(img)[j])

(* kept begins with the first of s[1], ..., s[n] that is in T, if there is one. *)
FirstKept(s, n, T, kept) ==
  IF kept = <<>> THEN \A j \in 1..n : s[j] \notin T
  ELSE \E j \in 1..n : s[j] = kept[1] /\ s[j] \in T /\ \A l \in 1..(j - 1) : s[l] \notin T

GoodOnes == {x \in Int : Good(img, x)}
EowOnes == {x \in Int : NewEowInformation(img, x)}

ChoiceInv ==
  /\ pc = "parse" => FirstKept(infoOffsets, k - 1, GoodOnes, available)
  /\ pc = "eow" \/ result = "nil" =>
       Len(information) = 1 /\ FirstKept(infoOffsets, Len(infoOffsets), GoodOnes, information)
  /\ pc = "eow" => FirstKept(eowOffsets, k - 1, EowOnes, availableEow)
  /\ result = "nil" => FirstKept(eowOffsets, Len(eowOffsets), EowOnes, eowInformation)
  /\ result = "noInformation" => FirstKept(infoOffsets, Len(infoOffsets), GoodOnes, <<>>)

Inv ==
  /\ img \in Images /\ TypeOK
  /\ PhaseInv /\ PassInv /\ ScanInv /\ FoundInv /\ RawInv /\ FailInv /\ TailInv /\ ChoiceInv

---------------------------------------------------------------------------
(* Sectors and what is in them. *)

(* Min picks the least number of a set. *)
LEMMA MinIsLeast ==
  ASSUME NEW T, T \subseteq Nat, T # {}
  PROVE  Min(T) \in T /\ \A y \in T : Min(T) <= y
<1>1. \E x \in T : \A y \in T : x <= y
  BY LeastElement
<1> QED BY <1>1 DEF Min

(* What is assumed of a source. *)
LEMMA ImageFacts ==
  ASSUME NEW v \in Images
  PROVE  /\ v.len \in Nat /\ v.size \in Nat /\ v.hasSize \in Nat
         /\ v.perCluster \in Nat /\ v.clusterShift \in Nat
         /\ v.raw \in Int \X Int \X Int
         /\ \A p \in DOMAIN v.locators :
              /\ p \in Nat
              /\ v.locators[p].info \in Int \X Int \X Int /\ v.locators[p].eow \in Int \X Int
         /\ DOMAIN v.blocks \subseteq 0..(v.len - 1)
  BY DiscoveryAssumption

(* The sector sizes that are tried. *)
LEMMA SizesValid ==
  ASSUME NEW v \in Images
  PROVE  /\ SectorSize(v) \in ValidSizes /\ Size512 \in ValidSizes /\ Size4096 \in ValidSizes
         /\ SectorSize(v) \in Nat \ {0} /\ Size512 \in Nat \ {0} /\ Size4096 \in Nat \ {0}
         /\ Len(Sizes(v)) = 3 /\ Sizes(v)[1] = SectorSize(v)
         /\ Sizes(v)[2] = Size512 /\ Sizes(v)[3] = Size4096
         /\ \A j \in 1..3 : Sizes(v)[j] \in ValidSizes /\ Sizes(v)[j] \in Nat \ {0}
<1>1. ValidSizes \subseteq Nat \ {0} /\ Size512 \in ValidSizes /\ Size4096 \in ValidSizes
  BY DiscoveryAssumption
<1>2. SectorSize(v) \in ValidSizes
  BY <1>1 DEF SectorSize
<1>3. /\ Len(Sizes(v)) = 3 /\ Sizes(v)[1] = SectorSize(v)
      /\ Sizes(v)[2] = Size512 /\ Sizes(v)[3] = Size4096
  BY DEF Sizes
<1>4. \A j \in 1..3 : j = 1 \/ j = 2 \/ j = 3
  OBVIOUS
<1> QED BY <1>1, <1>2, <1>3, <1>4

(* The cluster size is a number. *)
LEMMA ClusterSizeType ==
  ASSUME NEW v \in Images
  PROVE  ClusterSize(v) \in Int
<1>1. SectorSize(v) \in Int /\ v.perCluster \in Int /\ v.clusterShift \in Nat
  BY SizesValid, ImageFacts
<1>2. \A n \in Nat : 2^n \in Int
  BY SMT
<1>3. \A x, y \in Int : x * y \in Int
  OBVIOUS
<1> QED BY <1>1, <1>2, <1>3 DEF ClusterSize

(* The locator seen in a sector is one of those in it; one is seen if any is there. *)
LEMMA LocatorInSector ==
  ASSUME NEW v \in Images, NEW base \in Int, NEW ss \in Int
  PROVE  LET seen == LocatorIn(v, base, ss)
         IN  /\ \A p \in seen : p \in DOMAIN v.locators /\ p \in Nat /\ base <= p /\ p < base + ss
             /\ \A p \in DOMAIN v.locators : base <= p /\ p < base + ss => seen # {}
             /\ seen # {} => Min(seen) \in seen
<1> DEFINE here == {p \in DOMAIN v.locators : base <= p /\ p < base + ss}
           eow  == {p \in here : v.locators[p].kind = "eow"}
<1>1. here \subseteq Nat /\ eow \subseteq here
  BY ImageFacts
<1>2. (here # {} => Min(here) \in here) /\ (eow # {} => Min(eow) \in eow)
  <2> HIDE DEF here, eow
  <2> QED BY <1>1, MinIsLeast
<1>3. LocatorIn(v, base, ss)
        = IF eow # {} THEN {Min(eow)} ELSE IF here # {} THEN {Min(here)} ELSE {}
  BY DEF LocatorIn
<1>4. LocatorIn(v, base, ss) \subseteq here /\ (here # {} => LocatorIn(v, base, ss) # {})
  <2> HIDE DEF here, eow
  <2>1. CASE eow # {}
    <3>1. LocatorIn(v, base, ss) = {Min(eow)} /\ Min(eow) \in eow
      BY <1>2, <1>3, <2>1
    <3>2. Min(eow) \in here
      BY <1>1, <3>1
    <3> QED BY <3>1, <3>2
  <2>2. CASE eow = {} /\ here # {}
    BY <1>2, <1>3, <2>2
  <2>3. CASE eow = {} /\ here = {}
    BY <1>3, <2>3
  <2> QED BY <2>1, <2>2, <2>3
<1>5. LocatorIn(v, base, ss) \subseteq Nat
  BY <1>1, <1>4
<1>6. LocatorIn(v, base, ss) # {} => Min(LocatorIn(v, base, ss)) \in LocatorIn(v, base, ss)
  BY <1>5, MinIsLeast
<1> QED BY <1>1, <1>4, <1>5, <1>6

(* An offset is kept if it is not 0. *)
LEMMA NonZeroType ==
  ASSUME NEW off \in Int
  PROVE  NonZero(off) \in Seq(Int) /\ (off # 0 => NonZero(off) # <<>>)
  BY DEF NonZero

(* A concatenation is empty only if both parts are. *)
LEMMA EmptyConcat ==
  ASSUME NEW s \in Seq(Int), NEW t \in Seq(Int)
  PROVE  s \o t \in Seq(Int) /\ (s \o t = <<>> <=> s = <<>> /\ t = <<>>)
<1>1. s \o t \in Seq(Int) /\ Len(s \o t) = Len(s) + Len(t)
  BY ConcatProperties
<1>2. Len(s) \in Nat /\ Len(t) \in Nat
  BY LenProperties
<1>3. \A u \in Seq(Int) : u = <<>> <=> Len(u) = 0
  BY EmptySeq
<1> QED BY <1>1, <1>2, <1>3

(* What a sector contributes. *)
LEMMA InfoInType ==
  ASSUME NEW v \in Images, NEW base \in Int, NEW ss \in Int
  PROVE  /\ InfoIn(v, base, ss) \in Seq(Int) /\ EowIn(v, base, ss) \in Seq(Int)
         /\ EowIn(v, base, ss) # <<>> => LocatorIn(v, base, ss) # {}
         /\ \A p \in DOMAIN v.locators, j \in 1..3 :
              (LocatorIn(v, base, ss) = {p} /\ v.locators[p].info[j] # 0) =>
                 InfoIn(v, base, ss) # <<>>
<1> DEFINE seen == LocatorIn(v, base, ss)
<1>1. CASE seen = {}
  BY <1>1 DEF InfoIn, EowIn
<1>2. CASE seen # {}
  <2>1. Min(seen) \in seen /\ Min(seen) \in DOMAIN v.locators
    BY <1>2, LocatorInSector
  <2> DEFINE info == v.locators[Min(seen)].info
             eow  == v.locators[Min(seen)].eow
  <2>2. info \in Int \X Int \X Int /\ eow \in Int \X Int
    BY <2>1, ImageFacts
  <2>3. /\ InfoIn(v, base, ss) = NonZero(info[1]) \o NonZero(info[2]) \o NonZero(info[3])
        /\ \/ EowIn(v, base, ss) = NonZero(eow[1]) \o NonZero(eow[2])
           \/ EowIn(v, base, ss) = <<>>
    BY <1>2 DEF InfoIn, EowIn
  <2> HIDE DEF info, eow
  <2>4. info[1] \in Int /\ info[2] \in Int /\ info[3] \in Int /\ eow[1] \in Int /\ eow[2] \in Int
    BY <2>2
  <2>5. /\ NonZero(info[1]) \in Seq(Int) /\ NonZero(info[2]) \in Seq(Int)
        /\ NonZero(info[3]) \in Seq(Int) /\ NonZero(eow[1]) \in Seq(Int)
        /\ NonZero(eow[2]) \in Seq(Int)
    BY <2>4, NonZeroType
  <2>6. /\ NonZero(info[1]) \o NonZero(info[2]) \in Seq(Int)
        /\ InfoIn(v, base, ss) \in Seq(Int) /\ EowIn(v, base, ss) \in Seq(Int)
    <3>1. <<>> \in Seq(Int)
      OBVIOUS
    <3>2. /\ NonZero(info[1]) \o NonZero(info[2]) \in Seq(Int)
          /\ NonZero(eow[1]) \o NonZero(eow[2]) \in Seq(Int)
      BY <2>5, EmptyConcat
    <3>3. InfoIn(v, base, ss) \in Seq(Int)
      BY <2>3, <2>5, <3>2, EmptyConcat
    <3> QED BY <2>3, <3>1, <3>2, <3>3, Zenon
  <2>7. InfoIn(v, base, ss) = <<>> =>
          NonZero(info[1]) = <<>> /\ NonZero(info[2]) = <<>> /\ NonZero(info[3]) = <<>>
    <3> DEFINE both == NonZero(info[1]) \o NonZero(info[2])
    <3> HIDE DEF both
    <3>0. both \in Seq(Int) /\ InfoIn(v, base, ss) = both \o NonZero(info[3])
      BY <2>3, <2>6 DEF both
    <3>1. InfoIn(v, base, ss) = <<>> => both = <<>> /\ NonZero(info[3]) = <<>>
      BY <2>5, <3>0, EmptyConcat
    <3>2. both = <<>> => NonZero(info[1]) = <<>> /\ NonZero(info[2]) = <<>>
      BY <2>5, EmptyConcat DEF both
    <3> QED BY <3>1, <3>2
  <2>8. \A j \in 1..3 : info[j] # 0 => InfoIn(v, base, ss) # <<>>
    <3>1. \A j \in 1..3 : j = 1 \/ j = 2 \/ j = 3
      OBVIOUS
    <3> QED BY <2>4, <2>7, <3>1, NonZeroType
  <2>9. \A p \in DOMAIN v.locators : seen = {p} => info = v.locators[p].info
    BY <2>1 DEF info
  <2> QED BY <1>2, <2>6, <2>8, <2>9
<1> QED BY <1>1, <1>2

---------------------------------------------------------------------------
(* What the scans collect, by induction over the sectors. *)

(* g[s] is what the first s sectors contribute, for s up to n. *)
Collects(g, parts, n) ==
  g = [s \in 0..n |-> IF s = 0 THEN <<>> ELSE g[s - 1] \o parts[s - 1]]

(* There is such a table for every number of sectors. *)
LEMMA CollectsExists ==
  ASSUME NEW parts, NEW n \in Nat
  PROVE  \E g : Collects(g, parts, n)
<1> DEFINE S == {m \in Nat : \E g : Collects(g, parts, m)}
<1>1. 0 \in S
  <2>1. Collects([s \in 0..0 |-> <<>>], parts, 0)
    BY DEF Collects
  <2> QED BY <2>1
<1>2. ASSUME NEW m \in Nat, m \in S PROVE m + 1 \in S
  <2>1. PICK g : Collects(g, parts, m)
    BY <1>2
  <2> DEFINE h == [s \in 0..(m + 1) |-> IF s = m + 1 THEN g[m] \o parts[m] ELSE g[s]]
  <2>2. ASSUME NEW s \in 0..(m + 1)
        PROVE  h[s] = IF s = 0 THEN <<>> ELSE h[s - 1] \o parts[s - 1]
    <3>1. CASE s = m + 1
      <4>1. h[m + 1] = g[m] \o parts[m] /\ h[m] = g[m]
        OBVIOUS
      <4>2. (m + 1) - 1 = m /\ m + 1 # 0
        OBVIOUS
      <4> HIDE DEF h
      <4> QED BY <3>1, <4>1, <4>2
    <3>2. CASE s # m + 1
      <4>1. s \in 0..m /\ h[s] = g[s] /\ (s # 0 => h[s - 1] = g[s - 1])
        BY <3>2
      <4> HIDE DEF h
      <4> QED BY <2>1, <4>1 DEF Collects
    <3> QED BY <3>1, <3>2
  <2>3. h = [s \in 0..(m + 1) |-> h[s]]
    OBVIOUS
  <2> HIDE DEF h
  <2>4. Collects(h, parts, m + 1)
    BY <2>2, <2>3 DEF Collects
  <2> QED BY <2>4
<1> HIDE DEF S
<1>3. Nat \subseteq S
  BY <1>1, <1>2, Induction
<1> QED BY <1>3 DEF S

(* Two such tables agree as far as both go. *)
LEMMA CollectsAgree ==
  ASSUME NEW parts, NEW n \in Nat, NEW g, NEW h,
         Collects(g, parts, n), Collects(h, parts, n + 1)
  PROVE  g[n] = h[n]
<1> DEFINE S == {s \in Nat : s <= n => g[s] = h[s]}
<1>1. 0 \in S
  BY DEF Collects
<1>2. ASSUME NEW s \in Nat, s \in S PROVE s + 1 \in S
  <2> SUFFICES ASSUME s + 1 <= n PROVE g[s + 1] = h[s + 1]
    OBVIOUS
  <2>0. s + 1 \in 0..n /\ s + 1 \in 0..(n + 1) /\ (s + 1) - 1 = s /\ s + 1 # 0
    OBVIOUS
  <2>1. g[s + 1] = g[s] \o parts[(s + 1) - 1]
    BY <2>0 DEF Collects
  <2>2. h[s + 1] = h[s] \o parts[(s + 1) - 1]
    BY <2>0 DEF Collects
  <2>3. g[s] = h[s]
    BY <1>2
  <2> QED BY <2>1, <2>2, <2>3
<1> HIDE DEF S
<1>3. Nat \subseteq S
  BY <1>1, <1>2, Induction
<1> QED BY <1>3 DEF S

(* Appended returns the last entry of the table. *)
LEMMA AppendedIsTable ==
  ASSUME NEW parts, NEW n \in Nat
  PROVE  \E g : Collects(g, parts, n) /\ Appended(parts, n) = g[n]
<1> DEFINE g == CHOOSE f : Collects(f, parts, n)
<1>1. Collects(g, parts, n)
  BY CollectsExists
<1>2. Appended(parts, n) = g[n]
  BY DEF Appended, Collects
<1> QED BY <1>1, <1>2

(* A scan of no sectors finds nothing; each sector adds what is in it. *)
LEMMA AppendedStep ==
  ASSUME NEW parts
  PROVE  /\ Appended(parts, 0) = <<>>
         /\ \A n \in Nat : Appended(parts, n + 1) = Appended(parts, n) \o parts[n]
<1>1. Appended(parts, 0) = <<>>
  <2>1. PICK g : Collects(g, parts, 0) /\ Appended(parts, 0) = g[0]
    BY AppendedIsTable
  <2> QED BY <2>1 DEF Collects
<1>2. ASSUME NEW n \in Nat
      PROVE  Appended(parts, n + 1) = Appended(parts, n) \o parts[n]
  <2>1. PICK g : Collects(g, parts, n) /\ Appended(parts, n) = g[n]
    BY AppendedIsTable
  <2>2. PICK h : Collects(h, parts, n + 1) /\ Appended(parts, n + 1) = h[n + 1]
    BY AppendedIsTable
  <2>3. g[n] = h[n]
    BY <2>1, <2>2, CollectsAgree
  <2>4. n + 1 \in 0..(n + 1) /\ (n + 1) - 1 = n /\ n + 1 # 0
    OBVIOUS
  <2>5. h[n + 1] = h[n] \o parts[(n + 1) - 1]
    BY <2>2, <2>4 DEF Collects
  <2> QED BY <2>1, <2>2, <2>3, <2>4, <2>5
<1> QED BY <1>1, <1>2

(* The same of probeInformationOffsets. *)
LEMMA ProbeStep ==
  ASSUME NEW v, NEW start, NEW ss
  PROVE  /\ probeInformationOffsets(v, start, ss, 0) = <<>>
         /\ \A n \in Nat : probeInformationOffsets(v, start, ss, n + 1)
                             = probeInformationOffsets(v, start, ss, n)
                                 \o InfoIn(v, start + n * ss, ss)
<1> DEFINE parts == [s \in Nat |-> InfoIn(v, start + s * ss, ss)]
<1>1. \A n \in Nat : parts[n] = InfoIn(v, start + n * ss, ss)
  OBVIOUS
<1>2. \A n : probeInformationOffsets(v, start, ss, n) = Appended(parts, n)
  BY Zenon DEF probeInformationOffsets
<1> HIDE DEF parts
<1>3. Appended(parts, 0) = <<>>
      /\ \A n \in Nat : Appended(parts, n + 1) = Appended(parts, n) \o parts[n]
  BY AppendedStep
<1> QED BY <1>1, <1>2, <1>3

(* And of the EOW offsets. *)
LEMMA EowStep ==
  ASSUME NEW v, NEW ss
  PROVE  /\ EowUpTo(v, ss, 0) = <<>>
         /\ \A n \in Nat : EowUpTo(v, ss, n + 1) = EowUpTo(v, ss, n) \o EowIn(v, n * ss, ss)
<1> DEFINE parts == [s \in Nat |-> EowIn(v, s * ss, ss)]
<1>1. \A n \in Nat : parts[n] = EowIn(v, n * ss, ss)
  OBVIOUS
<1>2. \A n : EowUpTo(v, ss, n) = Appended(parts, n)
  BY Zenon DEF EowUpTo
<1> HIDE DEF parts
<1>3. Appended(parts, 0) = <<>>
      /\ \A n \in Nat : Appended(parts, n + 1) = Appended(parts, n) \o parts[n]
  BY AppendedStep
<1> QED BY <1>1, <1>2, <1>3

(* A scan returns offsets, and none only if no sector has one. *)
LEMMA ProbeProperties ==
  ASSUME NEW v \in Images, NEW start \in Int, NEW ss \in Int, NEW n \in Nat
  PROVE  /\ probeInformationOffsets(v, start, ss, n) \in Seq(Int)
         /\ probeInformationOffsets(v, start, ss, n) = <<>> =>
              \A s \in 0..(n - 1) : InfoIn(v, start + s * ss, ss) = <<>>
<1> DEFINE P(m) == probeInformationOffsets(v, start, ss, m)
           In(m) == InfoIn(v, start + m * ss, ss)
           S == {m \in Nat : P(m) \in Seq(Int) /\ (P(m) = <<>> => \A s \in 0..(m - 1) : In(s) = <<>>)}
<1>0. P(0) = <<>> /\ \A m \in Nat : P(m + 1) = P(m) \o In(m)
  BY ProbeStep
<1>1. \A m \in Nat : In(m) \in Seq(Int)
  <2>1. \A m \in Nat : start + m * ss \in Int
    OBVIOUS
  <2> QED BY <2>1, InfoInType
<1> HIDE DEF P, In
<1>2. 0 \in S
  <2>1. <<>> \in Seq(Int)
    OBVIOUS
  <2>2. \A s \in 0..(0 - 1) : FALSE
    OBVIOUS
  <2> QED BY <1>0, <2>1, <2>2
<1>3. ASSUME NEW m \in Nat, m \in S PROVE m + 1 \in S
  <2>1. P(m) \in Seq(Int) /\ (P(m) = <<>> => \A s \in 0..(m - 1) : In(s) = <<>>)
    BY <1>3
  <2>2. /\ P(m + 1) = P(m) \o In(m) /\ P(m + 1) \in Seq(Int)
        /\ P(m + 1) = <<>> => P(m) = <<>> /\ In(m) = <<>>
    <3>1. P(m + 1) = P(m) \o In(m) /\ In(m) \in Seq(Int)
      BY <1>0, <1>1
    <3> QED BY <2>1, <3>1, EmptyConcat
  <2>3. \A s \in 0..((m + 1) - 1) : s = m \/ s \in 0..(m - 1)
    OBVIOUS
  <2>4. P(m + 1) = <<>> => \A s \in 0..((m + 1) - 1) : In(s) = <<>>
    BY <2>1, <2>2, <2>3
  <2> QED BY <2>2, <2>4
<1> HIDE DEF S
<1>4. Nat \subseteq S
  BY <1>2, <1>3, Induction
<1> QED BY <1>4 DEF S, P, In

---------------------------------------------------------------------------
(* The scans of the start. *)

(* The size of the current pass: all before it have been blank. *)
LEMMA CurrentPass ==
  ASSUME Inv, pc = "scan"
  PROVE  /\ Head(passes) \in ValidSizes /\ Head(passes) \in Nat \ {0}
         /\ \E j \in 1..3 : /\ Head(passes) = Sizes(img)[j]
                            /\ \A l \in 1..(j - 1) : Quiet(img, Sizes(img)[l])
         /\ Len(passes) = 1 /\ Quiet(img, Head(passes)) => \A j \in 1..3 : Quiet(img, Sizes(img)[j])
<1> DEFINE S == SectorSize(img)
           B(j) == Quiet(img, Sizes(img)[j])
<1>1. /\ S \in ValidSizes /\ Size512 \in ValidSizes /\ Size4096 \in ValidSizes
      /\ ValidSizes \subseteq Nat \ {0}
      /\ Sizes(img)[1] = S /\ Sizes(img)[2] = Size512 /\ Sizes(img)[3] = Size4096
  BY SizesValid, DiscoveryAssumption DEF Inv
<1>2. /\ \A l \in 1..(1 - 1) : FALSE
      /\ \A l \in 1..(2 - 1) : l = 1
      /\ \A l \in 1..(3 - 1) : l = 1 \/ l = 2
      /\ \A l \in 1..3 : l = 1 \/ l = 2 \/ l = 3
      /\ 1 \in 1..3 /\ 2 \in 1..3 /\ 3 \in 1..3
  OBVIOUS
<1>3. /\ B(1) <=> Quiet(img, S)
      /\ B(2) <=> Quiet(img, Size512)
      /\ B(3) <=> Quiet(img, Size4096)
  BY <1>1
<1> DEFINE Goal == /\ \E j \in 1..3 : Head(passes) = Sizes(img)[j] /\ \A l \in 1..(j - 1) : B(l)
                   /\ Len(passes) = 1 /\ Quiet(img, Head(passes)) => \A j \in 1..3 : B(j)
<1>4. ASSUME Head(passes) = S, Len(passes) # 1 \/ (S = Size512 /\ S = Size4096)
      PROVE  Goal
  <2>1. \E j \in 1..3 : Head(passes) = Sizes(img)[j] /\ \A l \in 1..(j - 1) : B(l)
    BY <1>1, <1>2, <1>4
  <2>2. Len(passes) = 1 /\ Quiet(img, Head(passes)) => B(1) /\ B(2) /\ B(3)
    BY <1>3, <1>4
  <2> HIDE DEF B
  <2> QED BY <1>2, <2>1, <2>2
<1>5. ASSUME Head(passes) = Size512, Quiet(img, S), Len(passes) # 1 \/ S = Size4096
      PROVE  Goal
  <2>0. B(1)
    BY <1>3, <1>5
  <2>1. \E j \in 1..3 : Head(passes) = Sizes(img)[j] /\ \A l \in 1..(j - 1) : B(l)
    <3> HIDE DEF B
    <3> QED BY <1>1, <1>2, <1>5, <2>0
  <2>2. Len(passes) = 1 /\ Quiet(img, Head(passes)) => B(1) /\ B(2) /\ B(3)
    BY <1>3, <1>5
  <2> HIDE DEF B
  <2> QED BY <1>2, <2>1, <2>2
<1>6. ASSUME Head(passes) = Size4096, Quiet(img, S), Quiet(img, Size512)
      PROVE  Goal
  <2>0. B(1) /\ B(2)
    BY <1>3, <1>6
  <2>1. \E j \in 1..3 : Head(passes) = Sizes(img)[j] /\ \A l \in 1..(j - 1) : B(l)
    <3> HIDE DEF B
    <3> QED BY <1>1, <1>2, <1>6, <2>0
  <2>2. Len(passes) = 1 /\ Quiet(img, Head(passes)) => B(1) /\ B(2) /\ B(3)
    BY <1>3, <1>6
  <2> HIDE DEF B
  <2> QED BY <1>2, <2>1, <2>2
<1>7. \/ Head(passes) = S /\ (Len(passes) # 1 \/ (S = Size512 /\ S = Size4096))
      \/ Head(passes) = Size512 /\ Quiet(img, S) /\ (Len(passes) # 1 \/ S = Size4096)
      \/ Head(passes) = Size4096 /\ Quiet(img, S) /\ Quiet(img, Size512)
  <2> HIDE DEF B
  <2> QED BY DEF Inv, PassInv
<1>8. Goal
  BY <1>4, <1>5, <1>6, <1>7
<1>9. Head(passes) \in ValidSizes /\ Head(passes) \in Nat \ {0}
  BY <1>1, <1>7
<1> QED BY <1>8, <1>9

(* Short sequences put together. *)
LEMMA TupleConcat ==
  /\ \A a, b, c : <<a>> \o <<b>> \o <<c>> = <<a, b, c>>
  /\ \A a, b : <<a>> \o <<b>> \o <<>> = <<a, b>> /\ <<a>> \o <<>> \o <<b>> = <<a, b>>
  /\ \A a : <<a>> \o <<>> \o <<>> = <<a>>
<1>1. ASSUME NEW a, NEW b PROVE <<a>> \o <<b>> = <<a, b>>
  <2> DEFINE T == {a, b}
             s == <<a>> \o <<b>>
  <2>1. <<a>> \in Seq(T) /\ <<b>> \in Seq(T) /\ <<a, b>> \in Seq(T)
    OBVIOUS
  <2>2. /\ s \in Seq(T) /\ Len(s) = Len(<<a>>) + Len(<<b>>)
        /\ \A j \in 1..Len(<<a>>) + Len(<<b>>) :
             s[j] = IF j <= Len(<<a>>) THEN <<a>>[j] ELSE <<b>>[j - Len(<<a>>)]
    <3> HIDE DEF T
    <3> QED BY <2>1, ConcatProperties
  <2> HIDE DEF s
  <2>3. Len(s) = 2 /\ s[1] = a /\ s[2] = b
    BY <2>2
  <2>4. \A j \in 1..Len(s) : s[j] = <<a, b>>[j]
    BY <2>3
  <2>5. s = <<a, b>>
    <3> HIDE DEF T
    <3> QED BY <2>1, <2>2, <2>3, <2>4, SeqEqual
  <2> QED BY <2>5 DEF s
<1>2. ASSUME NEW a, NEW b, NEW c PROVE <<a, b>> \o <<c>> = <<a, b, c>>
  <2> DEFINE T == {a, b, c}
             s == <<a, b>> \o <<c>>
  <2>1. <<a, b>> \in Seq(T) /\ <<c>> \in Seq(T) /\ <<a, b, c>> \in Seq(T)
    OBVIOUS
  <2>2. /\ s \in Seq(T) /\ Len(s) = Len(<<a, b>>) + Len(<<c>>)
        /\ \A j \in 1..Len(<<a, b>>) + Len(<<c>>) :
             s[j] = IF j <= Len(<<a, b>>) THEN <<a, b>>[j] ELSE <<c>>[j - Len(<<a, b>>)]
    <3> HIDE DEF T
    <3> QED BY <2>1, ConcatProperties
  <2> HIDE DEF s
  <2>3. Len(s) = 3 /\ s[1] = a /\ s[2] = b /\ s[3] = c
    BY <2>2
  <2>4. \A j \in 1..Len(s) : s[j] = <<a, b, c>>[j]
    BY <2>3
  <2>5. s = <<a, b, c>>
    <3> HIDE DEF T
    <3> QED BY <2>1, <2>2, <2>3, <2>4, SeqEqual
  <2> QED BY <2>5 DEF s
<1>3. ASSUME NEW a, NEW b PROVE <<a, b>> \o <<>> = <<a, b>> /\ <<a>> \o <<>> = <<a>>
  <2>1. <<a, b>> \in Seq({a, b}) /\ <<a>> \in Seq({a, b})
    OBVIOUS
  <2> QED BY <2>1, ConcatEmptySeq
<1>4. ASSUME NEW a, NEW b, NEW c PROVE <<a>> \o <<b>> \o <<c>> = <<a, b, c>>
  <2>1. <<a>> \o <<b>> = <<a, b>>
    BY <1>1
  <2>2. <<a>> \o <<b>> \o <<c>> = <<a, b>> \o <<c>>
    BY ONLY <2>1, Zenon
  <2>3. <<a, b>> \o <<c>> = <<a, b, c>>
    BY <1>2
  <2> QED BY ONLY <2>2, <2>3, Zenon
<1>5. ASSUME NEW a, NEW b
      PROVE  <<a>> \o <<b>> \o <<>> = <<a, b>> /\ <<a>> \o <<>> \o <<b>> = <<a, b>>
  <2>1. <<a>> \o <<b>> = <<a, b>>
    BY <1>1
  <2>2. <<a, b>> \o <<>> = <<a, b>> /\ <<a>> \o <<>> = <<a>>
    BY <1>3
  <2> QED BY ONLY <2>1, <2>2, Zenon
<1>6. ASSUME NEW a PROVE <<a>> \o <<>> \o <<>> = <<a>>
  <2>1. <<a>> \o <<>> = <<a>>
    BY <1>3
  <2> QED BY ONLY <2>1, Zenon
<1> QED BY <1>4, <1>5, <1>6, Zenon

(* Init establishes the invariant. *)
LEMMA InitInv == Init => Inv
<1> SUFFICES ASSUME Init PROVE Inv
  OBVIOUS
<1>1. /\ img \in Images /\ pc = "scan" /\ sector = 0 /\ infoOffsets = <<>> /\ eowOffsets = <<>>
      /\ k = 1 /\ available = <<>> /\ availableEow = <<>> /\ information = <<>>
      /\ eowInformation = <<>> /\ result = "none"
  BY DEF Init
<1>2. /\ SectorSize(img) \in ValidSizes /\ Size512 \in ValidSizes /\ Size4096 \in ValidSizes
  BY <1>1, SizesValid
<1> DEFINE S == SectorSize(img)
<1>3. \/ passes = <<S, Size512, Size4096>> /\ S # Size512 /\ S # Size4096
      \/ passes = <<S, Size4096>> /\ S = Size512 /\ S # Size4096
      \/ passes = <<S, Size512>> /\ S # Size512 /\ S = Size4096
      \/ passes = <<S>> /\ S = Size512 /\ S = Size4096
  <2>1. /\ \A a, b, c : <<a>> \o <<b>> \o <<c>> = <<a, b, c>>
        /\ \A a, b : <<a>> \o <<b>> \o <<>> = <<a, b>> /\ <<a>> \o <<>> \o <<b>> = <<a, b>>
        /\ \A a : <<a>> \o <<>> \o <<>> = <<a>>
    BY TupleConcat
  <2>2. passes = <<S>> \o (IF S # Size512 THEN <<Size512>> ELSE <<>>)
                      \o (IF S # Size4096 THEN <<Size4096>> ELSE <<>>)
    BY DEF Init
  <2> QED BY <2>1, <2>2
<1>4. passes \in Seq(ValidSizes) /\ Len(passes) \in 1..3
  <2>1. /\ \A a, b, c \in ValidSizes : <<a, b, c>> \in Seq(ValidSizes) /\ Len(<<a, b, c>>) = 3
        /\ \A a, b \in ValidSizes : <<a, b>> \in Seq(ValidSizes) /\ Len(<<a, b>>) = 2
        /\ \A a \in ValidSizes : <<a>> \in Seq(ValidSizes) /\ Len(<<a>>) = 1
    OBVIOUS
  <2>2. CASE passes = <<S, Size512, Size4096>>
    BY <1>2, <2>1, <2>2
  <2>3. CASE passes = <<S, Size4096>>
    BY <1>2, <2>1, <2>3
  <2>4. CASE passes = <<S, Size512>>
    BY <1>2, <2>1, <2>4
  <2>5. CASE passes = <<S>>
    BY <1>2, <2>1, <2>5
  <2> QED BY <1>3, <2>2, <2>3, <2>4, <2>5
<1>5. TypeOK
  <2>1. 0 \in 0..ScanSectors
    BY DiscoveryAssumption
  <2> QED BY <1>1, <1>4, <2>1 DEF TypeOK
<1>6. PassInv
  BY <1>3 DEF PassInv
<1>7. ScanInv
  <2>1. \A s \in 0..(0 - 1) : FALSE
    OBVIOUS
  <2> QED BY <1>1, <2>1, ProbeStep, EowStep DEF ScanInv
<1> QED BY <1>1, <1>5, <1>6, <1>7 DEF Inv, PhaseInv, FoundInv, RawInv, FailInv, TailInv, ChoiceInv

(* A sector that is read adds its offsets. *)
LEMMA ScanSectorStep ==
  ASSUME Inv, ScanSector
  PROVE  Inv'
<1> DEFINE ss == Head(passes)
<1>1. /\ pc = "scan" /\ pc' = "scan" /\ img' = img /\ passes' = passes /\ k' = k
      /\ available' = available /\ availableEow' = availableEow
      /\ information' = information /\ eowInformation' = eowInformation /\ result' = result
      /\ sector < ScanSectors /\ sector' = sector + 1
      /\ infoOffsets' = infoOffsets \o InfoIn(img, sector * ss, ss)
      /\ eowOffsets' = eowOffsets \o EowIn(img, sector * ss, ss)
      /\ SectorReadable(img, sector * ss, ss, img.len)
  BY DEF ScanSector, ScanBase, parsed
<1>2. TypeOK /\ img \in Images /\ PhaseInv /\ PassInv /\ ScanInv
  BY DEF Inv
<1>3. ss \in Int /\ sector \in Nat /\ sector * ss \in Int /\ ScanSectors \in Nat
  BY <1>1, <1>2, CurrentPass, DiscoveryAssumption, SMTT(30) DEF TypeOK
<1>4. InfoIn(img, sector * ss, ss) \in Seq(Int) /\ EowIn(img, sector * ss, ss) \in Seq(Int)
  BY <1>2, <1>3, InfoInType
<1>5. TypeOK'
  <2>1. infoOffsets' \in Seq(Int) /\ eowOffsets' \in Seq(Int)
    BY <1>1, <1>2, <1>4, EmptyConcat DEF TypeOK
  <2>2. sector' \in 0..ScanSectors
    BY <1>1, <1>3
  <2> QED BY <1>1, <1>2, <2>1, <2>2 DEF TypeOK
<1>6. ScanInv'
  <2>1. infoOffsets' = probeInformationOffsets(img, 0, ss, sector + 1)
    <3>1. infoOffsets = probeInformationOffsets(img, 0, ss, sector)
      BY <1>1, <1>2 DEF ScanInv
    <3>2. probeInformationOffsets(img, 0, ss, sector + 1)
            = probeInformationOffsets(img, 0, ss, sector) \o InfoIn(img, 0 + sector * ss, ss)
      BY <1>3, ProbeStep
    <3>3. 0 + sector * ss = sector * ss
      BY <1>3
    <3> QED BY <1>1, <3>1, <3>2, <3>3
  <2>2. ASSUME eowOffsets' # <<>>
        PROVE  \E s \in 0..sector : LocatorIn(img, s * ss, ss) # {}
    <3>1. CASE eowOffsets # <<>>
      <4>1. PICK s \in 0..(sector - 1) : LocatorIn(img, s * ss, ss) # {}
        BY <1>1, <1>2, <3>1 DEF ScanInv
      <4>2. s \in 0..sector
        BY <1>3
      <4> QED BY <4>1, <4>2
    <3>2. CASE eowOffsets = <<>>
      <4>1. EowIn(img, sector * ss, ss) # <<>>
        BY <1>1, <1>2, <1>4, <2>2, <3>2, EmptyConcat DEF TypeOK
      <4>2. LocatorIn(img, sector * ss, ss) # {}
        BY <1>2, <1>3, <4>1, InfoInType
      <4>3. sector \in 0..sector
        BY <1>3
      <4> QED BY <4>2, <4>3
    <3> QED BY <3>1, <3>2
  <2>3. sector' - 1 = sector
    BY <1>1, <1>3
  <2>4. eowOffsets' = EowUpTo(img, ss, sector + 1)
    <3>1. eowOffsets = EowUpTo(img, ss, sector)
      BY <1>1, <1>2 DEF ScanInv
    <3>2. EowUpTo(img, ss, sector + 1) = EowUpTo(img, ss, sector) \o EowIn(img, sector * ss, ss)
      BY <1>3, EowStep
    <3> QED BY <1>1, <3>1, <3>2
  <2>5. ASSUME NEW s \in 0..sector PROVE SectorReadable(img, 0 + s * ss, ss, img.len)
    <3>1. CASE s = sector
      <4>1. 0 + sector * ss = sector * ss
        BY <1>3
      <4> QED BY <1>1, <3>1, <4>1
    <3>2. CASE s # sector
      <4>1. s \in 0..(sector - 1)
        BY <1>3, <3>2
      <4> QED BY <1>1, <1>2, <4>1 DEF ScanInv
    <3> QED BY <3>1, <3>2
  <2> QED BY <1>1, <2>1, <2>2, <2>3, <2>4, <2>5 DEF ScanInv
<1>7. PhaseInv' /\ PassInv'
  BY <1>1, <1>2 DEF PhaseInv, PassInv
<1> QED BY <1>1, <1>2, <1>5, <1>6, <1>7
        DEF Inv, PhaseInv, FoundInv, RawInv, FailInv, TailInv, ChoiceInv

(* A read that fails ends New. *)
LEMMA ScanFailsStep ==
  ASSUME Inv, ScanFails
  PROVE  Inv'
<1> DEFINE ss == Head(passes)
<1>1. /\ pc = "scan" /\ pc' = "done" /\ result' = "readError" /\ img' = img
      /\ passes' = passes /\ sector' = sector /\ infoOffsets' = infoOffsets
      /\ eowOffsets' = eowOffsets /\ k' = k
      /\ available' = available /\ availableEow' = availableEow
      /\ information' = information /\ eowInformation' = eowInformation
      /\ sector < ScanSectors
      /\ ~SectorReadable(img, sector * ss, ss, img.len)
  BY DEF ScanFails, Return, ScanBase, parsed, found
<1>2. TypeOK /\ img \in Images /\ PhaseInv
  BY DEF Inv
<1>3. ss \in Int /\ sector \in Nat /\ sector * ss \in Int /\ ScanSectors \in Nat
  BY <1>1, <1>2, CurrentPass, DiscoveryAssumption DEF TypeOK
<1>4. TypeOK'
  BY <1>1, <1>2 DEF TypeOK
<1>5. ~ProbeReads(img, 0, img.len, ss, ScanSectors)
  <2>1. sector \in 0..(ScanSectors - 1) /\ 0 + sector * ss = sector * ss
    BY <1>1, <1>3
  <2> QED BY <1>1, <2>1 DEF ProbeReads
<1>6. PICK j \in 1..3 : ss = Sizes(img)[j] /\ \A l \in 1..(j - 1) : Quiet(img, Sizes(img)[l])
  BY <1>1, CurrentPass
<1>8. FailInv'
  BY <1>1, <1>5, <1>6 DEF FailInv
<1> QED BY <1>1, <1>2, <1>4, <1>8
        DEF Inv, PhaseInv, PassInv, ScanInv, FoundInv, RawInv, TailInv, ChoiceInv

(* A pass that has found a locator is the last one. *)
LEMMA ScanSucceedsStep ==
  ASSUME Inv, ScanSucceeds
  PROVE  Inv'
<1> DEFINE ss == Head(passes)
<1>1. /\ pc = "scan" /\ sector = ScanSectors /\ ~(infoOffsets = <<>> /\ eowOffsets = <<>>)
      /\ pc' = (IF infoOffsets = <<>> THEN "raw" ELSE "parse")
      /\ img' = img /\ passes' = passes /\ sector' = sector
      /\ infoOffsets' = infoOffsets /\ eowOffsets' = eowOffsets /\ k' = k
      /\ available' = available /\ availableEow' = availableEow
      /\ information' = information /\ eowInformation' = eowInformation /\ result' = result
  BY DEF ScanSucceeds, ScanDone, NothingFound, parsed, found
<1>2. TypeOK /\ img \in Images /\ PhaseInv /\ ScanInv
  BY DEF Inv
<1>3. /\ k = 1 /\ available = <<>> /\ availableEow = <<>> /\ information = <<>>
      /\ eowInformation = <<>> /\ result = "none"
  BY <1>1, <1>2 DEF PhaseInv
<1>4. TypeOK'
  <2>1. Len(infoOffsets) \in Nat
    BY <1>2, LenProperties DEF TypeOK
  <2> QED BY <1>1, <1>2, <1>3, <2>1 DEF TypeOK
<1>5. PICK j \in 1..3 : ss = Sizes(img)[j] /\ \A l \in 1..(j - 1) : Quiet(img, Sizes(img)[l])
  BY <1>1, CurrentPass
<1>6. infoOffsets = PassOffsets(img, Sizes(img)[j])
  BY <1>1, <1>2, <1>5 DEF ScanInv, PassOffsets
<1>6a. LastPass(j)
  <2>1. eowOffsets = PassEow(img, ss)
    BY <1>1, <1>2 DEF ScanInv, EowUpTo, PassEow
  <2>2. ProbeReads(img, 0, img.len, ss, ScanSectors)
    BY <1>1, <1>2 DEF ScanInv, ProbeReads
  <2> QED BY <1>5, <2>1, <2>2 DEF LastPass
<1>6b. LastPass(j)'
  BY <1>1, <1>6a DEF LastPass
<1>7. FoundInv'
  <2>1. CASE infoOffsets # <<>>
    <3>1. LocatorsFound'
      BY <1>1, <1>6, <1>6b, <2>1 DEF LocatorsFound
    <3> QED BY <3>1 DEF FoundInv
  <2>2. CASE infoOffsets = <<>>
    <3>1. \E s \in 0..(ScanSectors - 1) : LocatorIn(img, s * Sizes(img)[j], Sizes(img)[j]) # {}
      BY <1>1, <1>2, <1>5, <2>2 DEF ScanInv
    <3>2. FromFallback'
      <4>1. Len(<<>>) = 0 /\ \A i \in 1..0 : FALSE
        OBVIOUS
      <4> QED BY <1>1, <2>2, <4>1 DEF FromFallback
    <3>3. OnlyEowFound'
      BY <1>1, <1>6, <1>6b, <2>2, <3>1, <3>2 DEF OnlyEowFound
    <3> QED BY <3>3 DEF FoundInv
  <2> QED BY <2>1, <2>2
<1>7a. RawInv'
  <2>1. Len(<<>>) = 0 /\ \A i \in 1..0 : FALSE
    OBVIOUS
  <2> QED BY <1>1, <2>1 DEF RawInv
<1>8. TailInv'
  BY <1>1, <1>3 DEF TailInv
<1>9. ChoiceInv'
  <2>1. \A n \in 1..(k' - 1) : FALSE
    BY <1>1, <1>3
  <2> QED BY <1>1, <1>3, <2>1 DEF ChoiceInv, FirstKept
<1> QED BY <1>1, <1>2, <1>3, <1>4, <1>7, <1>7a, <1>8, <1>9
        DEF Inv, PhaseInv, PassInv, ScanInv, FailInv

(* A pass that has found nothing is followed by the next one. *)
LEMMA NextPassStep ==
  ASSUME Inv, NextPass
  PROVE  Inv'
<1>1. /\ pc = "scan" /\ pc' = "scan" /\ sector = ScanSectors
      /\ infoOffsets = <<>> /\ eowOffsets = <<>>
      /\ Len(passes) > 1 /\ passes' = Tail(passes) /\ sector' = 0
      /\ img' = img /\ infoOffsets' = infoOffsets /\ eowOffsets' = eowOffsets /\ k' = k
      /\ available' = available /\ availableEow' = availableEow
      /\ information' = information /\ eowInformation' = eowInformation /\ result' = result
  BY DEF NextPass, ScanDone, NothingFound, parsed, found
<1>2. TypeOK /\ img \in Images /\ PhaseInv /\ ScanInv /\ PassInv
  BY DEF Inv
<1>3. Quiet(img, Head(passes))
  <2>1. infoOffsets = PassOffsets(img, Head(passes)) /\ eowOffsets = PassEow(img, Head(passes))
    BY <1>1, <1>2 DEF ScanInv, EowUpTo, PassEow, PassOffsets
  <2>2. ProbeReads(img, 0, img.len, Head(passes), ScanSectors)
    BY <1>1, <1>2 DEF ScanInv, ProbeReads
  <2> QED BY <1>1, <2>1, <2>2 DEF Quiet
<1>4. TypeOK'
  <2>1. passes' \in Seq(ValidSizes) /\ Len(passes') = Len(passes) - 1
    BY <1>1, <1>2 DEF TypeOK
  <2>2. Len(passes') \in 1..3
    BY <1>1, <1>2, <2>1 DEF TypeOK
  <2>3. 0 \in 0..ScanSectors
    BY DiscoveryAssumption
  <2> QED BY <1>1, <1>2, <2>1, <2>2, <2>3 DEF TypeOK
<1>5. PassInv'
  <2> DEFINE S == SectorSize(img)
  <2>1. CASE passes = <<S, Size512, Size4096>> /\ S # Size512 /\ S # Size4096
    <3>1. passes' = <<Size512, Size4096>> /\ Head(passes) = S
      BY <1>1, <2>1
    <3> QED BY <1>1, <1>3, <2>1, <3>1 DEF PassInv
  <2>2. CASE passes = <<S, Size4096>> /\ S = Size512 /\ S # Size4096
    <3>1. passes' = <<Size4096>> /\ Head(passes) = S
      BY <1>1, <2>2
    <3> QED BY <1>1, <1>3, <2>2, <3>1 DEF PassInv
  <2>3. CASE passes = <<S, Size512>> /\ S # Size512 /\ S = Size4096
    <3>1. passes' = <<Size512>> /\ Head(passes) = S
      BY <1>1, <2>3
    <3> QED BY <1>1, <1>3, <2>3, <3>1 DEF PassInv
  <2>4. CASE passes = <<Size512, Size4096>> /\ S # Size512 /\ S # Size4096 /\ Quiet(img, S)
    <3>1. passes' = <<Size4096>> /\ Head(passes) = Size512
      BY <1>1, <2>4
    <3> QED BY <1>1, <1>3, <2>4, <3>1 DEF PassInv
  <2>5. \A a : Len(<<a>>) = 1
    OBVIOUS
  <2> QED BY <1>1, <1>2, <2>1, <2>2, <2>3, <2>4, <2>5 DEF PassInv
<1>6. ScanInv'
  <2>1. \A s \in 0..(0 - 1) : FALSE
    OBVIOUS
  <2> QED BY <1>1, <2>1, ProbeStep, EowStep DEF ScanInv
<1> QED BY <1>1, <1>2, <1>4, <1>5, <1>6
        DEF Inv, PhaseInv, FoundInv, RawInv, FailInv, TailInv, ChoiceInv

(* After the last pass, InformationLcn is used if it is there. *)
LEMMA UseInformationLcnStep ==
  ASSUME Inv, UseInformationLcn
  PROVE  Inv'
<1> DEFINE lcn == img.raw[2] * ClusterSize(img)
           given == img.raw[2] # 0 /\ ClusterSize(img) > 0
<1>1. /\ pc = "scan" /\ sector = ScanSectors /\ infoOffsets = <<>> /\ eowOffsets = <<>>
      /\ Len(passes) = 1
      /\ pc' = (IF given THEN "parse" ELSE "raw")
      /\ infoOffsets' = (IF given THEN <<lcn>> ELSE infoOffsets)
      /\ img' = img /\ passes' = passes /\ sector' = sector /\ eowOffsets' = eowOffsets /\ k' = k
      /\ available' = available /\ availableEow' = availableEow
      /\ information' = information /\ eowInformation' = eowInformation /\ result' = result
  BY DEF UseInformationLcn, ScanDone, NothingFound, parsed
<1>2. TypeOK /\ img \in Images /\ PhaseInv /\ ScanInv
  BY DEF Inv
<1>3. /\ k = 1 /\ available = <<>> /\ availableEow = <<>> /\ information = <<>>
      /\ eowInformation = <<>> /\ result = "none"
  BY <1>1, <1>2 DEF PhaseInv
<1>4. TypeOK'
  <2>1. lcn \in Int
    <3>1. img.raw[2] \in Int /\ ClusterSize(img) \in Int
      BY <1>2, ImageFacts, ClusterSizeType
    <3>2. \A x, y \in Int : x * y \in Int
      OBVIOUS
    <3> QED BY <3>1, <3>2
  <2> HIDE DEF lcn, given
  <2>2. infoOffsets' \in Seq(Int) /\ Len(infoOffsets') \in Nat
    BY <1>1, <2>1
  <2> QED BY <1>1, <1>2, <1>3, <2>2 DEF TypeOK
<1>5. Quiet(img, Head(passes))
  <2>1. infoOffsets = PassOffsets(img, Head(passes)) /\ eowOffsets = PassEow(img, Head(passes))
    BY <1>1, <1>2 DEF ScanInv, EowUpTo, PassEow, PassOffsets
  <2>2. ProbeReads(img, 0, img.len, Head(passes), ScanSectors)
    BY <1>1, <1>2 DEF ScanInv, ProbeReads
  <2> QED BY <1>1, <2>1, <2>2 DEF Quiet
<1>6. NoLocatorFound
  BY <1>1, <1>5, CurrentPass DEF NoLocatorFound
<1>7. FoundInv'
  BY <1>1, <1>6 DEF FoundInv, NoLocatorFound
<1>7a. RawInv'
  <2>1. Len(<<>>) = 0 /\ \A i \in 1..0 : FALSE
    OBVIOUS
  <2> HIDE DEF lcn, given
  <2> QED BY <1>1, <2>1 DEF RawInv
<1>8. TailInv'
  <2> HIDE DEF lcn, given
  <2>1. <<lcn>> # <<>>
    OBVIOUS
  <2> QED BY <1>1, <2>1 DEF TailInv
<1>9. ChoiceInv'
  <2>1. \A n \in 1..(k' - 1) : FALSE
    BY <1>1, <1>3
  <2> QED BY <1>1, <1>3, <2>1 DEF ChoiceInv, FirstKept
<1> QED BY <1>1, <1>2, <1>3, <1>4, <1>7, <1>7a, <1>8, <1>9
        DEF Inv, PhaseInv, PassInv, ScanInv, FailInv

---------------------------------------------------------------------------
(* The boot sector's offsets, and the tail. *)

(* Before any offset is known, only the second and third outcome are left. *)
LEMMA NotFoundYet ==
  ASSUME Inv, pc \in {"raw", "tail"}
  PROVE  OnlyEowFound \/ NoLocatorFound
  BY DEF Inv, PhaseInv, FoundInv, LocatorsFound

(* One of the nine candidates of tryBootSectorOffsets. *)
LEMMA TryRawOffsetStep ==
  ASSUME Inv, TryRawOffset
  PROVE  Inv'
<1>1. /\ pc = "raw" /\ pc' = "raw" /\ k <= 9 /\ k' = k + 1
      /\ \/ /\ RawCandidate > 0 /\ HasSignature(img, RawCandidate)
            /\ infoOffsets' = Append(infoOffsets, RawCandidate)
         \/ infoOffsets' = infoOffsets
      /\ img' = img /\ passes' = passes /\ sector' = sector /\ eowOffsets' = eowOffsets
      /\ available' = available /\ availableEow' = availableEow
      /\ information' = information /\ eowInformation' = eowInformation /\ result' = result
  BY DEF TryRawOffset, parsed
<1>2. TypeOK /\ img \in Images /\ PhaseInv
  BY DEF Inv
<1>3. RawCandidate \in Int /\ RawCandidate \in {img.raw[n] * scale : n \in 1..3,
                                    scale \in {1, SectorSize(img), ClusterSize(img)}}
  <2>1. k \in 1..9
    BY <1>1, <1>2 DEF TypeOK
  <2>2. PICK n \in 1..3 : n = ((k - 1) \div 3) + 1
    BY <2>1
  <2>3. PICK l \in 1..3 : l = ((k - 1) % 3) + 1
    BY <2>1
  <2> DEFINE scales == <<1, SectorSize(img), ClusterSize(img)>>
  <2>4. RawCandidate = img.raw[n] * scales[l]
    BY <2>2, <2>3 DEF RawCandidate
  <2>5. SectorSize(img) \in Int /\ ClusterSize(img) \in Int
    BY <1>2, SizesValid, ClusterSizeType
  <2>6. scales[l] \in Int /\ scales[l] \in {1, SectorSize(img), ClusterSize(img)}
    <3>1. l = 1 \/ l = 2 \/ l = 3
      OBVIOUS
    <3> QED BY <2>5, <3>1
  <2>7. img.raw[n] \in Int
    <3>1. img.raw \in Int \X Int \X Int
      BY <1>2, ImageFacts
    <3>2. n = 1 \/ n = 2 \/ n = 3
      OBVIOUS
    <3> QED BY <3>1, <3>2
  <2> HIDE DEF scales
  <2>8. \A x, y \in Int : x * y \in Int
    OBVIOUS
  <2>9. RawCandidate \in Int
    BY <2>4, <2>6, <2>7, <2>8
  <2>10. RawCandidate \in {img.raw[m] * scale : m \in 1..3,
                                    scale \in {1, SectorSize(img), ClusterSize(img)}}
    BY <2>4, <2>6
  <2> QED BY <2>9, <2>10
<1>4. TypeOK'
  <2>1. infoOffsets' \in Seq(Int)
    <3>1. Append(infoOffsets, RawCandidate) \in Seq(Int) /\ infoOffsets \in Seq(Int)
      BY <1>2, <1>3, AppendProperties DEF TypeOK
    <3> QED BY <1>1, <3>1
  <2>2. k' \in Nat \ {0} /\ k' <= 10
    BY <1>1, <1>2 DEF TypeOK
  <2> QED BY <1>1, <1>2, <2>1, <2>2 DEF TypeOK
<1>5. RawInv'
  <2> SUFFICES ASSUME NEW i \in 1..Len(infoOffsets')
               PROVE  infoOffsets'[i] \in BootSectorPlaces(img)
    BY <1>1 DEF RawInv
  <2>1. \A l \in 1..Len(infoOffsets) : infoOffsets[l] \in BootSectorPlaces(img)
    BY <1>1 DEF Inv, RawInv
  <2>2. CASE infoOffsets' = infoOffsets
    BY <2>1, <2>2
  <2>3. CASE /\ infoOffsets' = Append(infoOffsets, RawCandidate)
             /\ RawCandidate > 0 /\ HasSignature(img, RawCandidate)
    <3>1. RawCandidate \in BootSectorPlaces(img)
      BY <1>3, <2>3 DEF BootSectorPlaces
    <3>2. /\ i \in 1..Len(infoOffsets) => infoOffsets'[i] = infoOffsets[i]
          /\ i \in 1..Len(infoOffsets) \/ infoOffsets'[i] = RawCandidate
      BY <1>2, <2>3 DEF TypeOK
    <3> QED BY <2>1, <3>1, <3>2
  <2> QED BY <1>1, <2>2, <2>3
<1>6. FoundInv'
  <2>1. OnlyEowFound \/ NoLocatorFound
    BY <1>1, NotFoundYet
  <2>2. FromFallback'
    BY <1>1, <1>5 DEF RawInv, FromFallback
  <2> QED BY <1>1, <2>1, <2>2 DEF FoundInv, OnlyEowFound, NoLocatorFound, LastPass
<1> QED BY <1>1, <1>2, <1>4, <1>5, <1>6
        DEF Inv, PhaseInv, PassInv, ScanInv, FailInv, TailInv, ChoiceInv

(* Without offsets, and with a size, the tail is next. *)
LEMMA RawDoneStep ==
  ASSUME Inv, RawDone
  PROVE  Inv'
<1> DEFINE empty == infoOffsets = <<>> /\ EffectiveSize(img) > 0
<1>1. /\ pc = "raw" /\ k > 9 /\ k' = 1 /\ pc' = (IF empty THEN "tail" ELSE "parse")
      /\ infoOffsets' = infoOffsets /\ eowOffsets' = eowOffsets
      /\ img' = img /\ passes' = passes /\ sector' = sector
      /\ available' = available /\ availableEow' = availableEow
      /\ information' = information /\ eowInformation' = eowInformation /\ result' = result
  BY DEF RawDone, parsed, found
<1>2. TypeOK /\ img \in Images /\ PhaseInv
  BY DEF Inv
<1>3. /\ available = <<>> /\ availableEow = <<>> /\ information = <<>>
      /\ eowInformation = <<>> /\ result = "none"
  BY <1>1, <1>2 DEF PhaseInv
<1>4. TypeOK'
  <2>1. Len(infoOffsets) \in Nat
    BY <1>2, LenProperties DEF TypeOK
  <2> HIDE DEF empty
  <2> QED BY <1>1, <1>2, <1>3, <2>1 DEF TypeOK
<1>5. FoundInv'
  <2>1. OnlyEowFound \/ NoLocatorFound
    BY <1>1, NotFoundYet
  <2> QED BY <1>1, <2>1
          DEF FoundInv, OnlyEowFound, NoLocatorFound, LastPass, FromFallback
<1>6. TailInv'
  <2>1. \A n \in 1..(k' - 1) : FALSE
    BY <1>1
  <2>2. ~empty /\ infoOffsets = <<>> => \A j \in 1..3 : TailBlank(img, Sizes(img)[j])
    <3>1. EffectiveSize(img) \in Nat
      BY <1>2, ImageFacts DEF EffectiveSize
    <3> QED BY <3>1 DEF TailBlank
  <2> HIDE DEF empty
  <2> QED BY <1>1, <2>1, <2>2 DEF TailInv
<1>7. ChoiceInv'
  <2>1. \A n \in 1..(k' - 1) : FALSE
    BY <1>1
  <2> HIDE DEF empty
  <2> QED BY <1>1, <1>3, <2>1 DEF ChoiceInv, FirstKept
<1> HIDE DEF empty
<1> QED BY <1>1, <1>2, <1>3, <1>4, <1>5, <1>6, <1>7
        DEF Inv, PhaseInv, PassInv, ScanInv, RawInv, FailInv

(* The window of the tail begins within the volume. *)
LEMMA TailStartType ==
  ASSUME NEW v \in Images, NEW ss \in Nat \ {0}
  PROVE  TailStart(v, ss) \in Int /\ EffectiveSize(v) \in Nat /\ TailSectors \in Nat
<1>1. EffectiveSize(v) \in Nat /\ TailSectors \in Nat
  BY ImageFacts, DiscoveryAssumption DEF EffectiveSize
<1>2. \A x, y, z \in Nat : x - y * z \in Int
  OBVIOUS
<1>3. EffectiveSize(v) - ss * TailSectors \in Int
  BY <1>1, <1>2
<1> QED BY <1>1, <1>3 DEF TailStart

(* tryTail with the k-th sector size. *)
LEMMA TryTailStep ==
  ASSUME Inv, TryTail
  PROVE  Inv'
<1> DEFINE ss == Sizes(img)[k]
           start == TailStart(img, ss)
           limit == Min({EffectiveSize(img), img.len})
           reads == ProbeReads(img, start, limit, ss, TailSectors)
           probed == probeInformationOffsets(img, start, ss, TailSectors)
<1>1. /\ pc = "tail" /\ pc' = "tail" /\ k <= 3 /\ k' = k + 1
      /\ infoOffsets' = (IF infoOffsets = <<>> /\ reads THEN probed ELSE infoOffsets)
      /\ img' = img /\ passes' = passes /\ sector' = sector /\ eowOffsets' = eowOffsets
      /\ available' = available /\ availableEow' = availableEow
      /\ information' = information /\ eowInformation' = eowInformation /\ result' = result
  BY DEF TryTail, parsed, Sizes, TailStart
<1>2. TypeOK /\ img \in Images /\ PhaseInv /\ TailInv
  BY DEF Inv
<1>3. k \in 1..3 /\ ss \in Nat \ {0}
  <2>1. k \in 1..3
    BY <1>1, <1>2 DEF TypeOK
  <2> QED BY <1>2, <2>1, SizesValid
<1>4. probed \in Seq(Int)
  <2>1. start \in Int /\ ss \in Int /\ TailSectors \in Nat
    BY <1>2, <1>3, TailStartType
  <2> QED BY <1>2, <2>1, ProbeProperties
<1>5. TailBlank(img, ss) <=> EffectiveSize(img) <= 0 \/ ~reads \/ probed = <<>>
  BY DEF TailBlank
<1> HIDE DEF ss, reads, probed
<1>6. TypeOK'
  <2>1. infoOffsets' \in Seq(Int)
    BY <1>1, <1>2, <1>4 DEF TypeOK
  <2>2. k' \in Nat \ {0} /\ k' <= 4
    BY <1>1, <1>3
  <2> QED BY <1>1, <1>2, <2>1, <2>2 DEF TypeOK
<1>7. TailInv'
  <2> SUFFICES ASSUME infoOffsets' = <<>>, NEW j \in 1..(k' - 1) PROVE TailBlank(img, Sizes(img)[j])
    BY <1>1 DEF TailInv
  <2>1. infoOffsets = <<>>
    BY <1>1
  <2>2. CASE j = k
    BY <1>1, <1>5, <2>1, <2>2 DEF ss
  <2>3. CASE j # k
    <3>1. j \in 1..(k - 1)
      BY <1>1, <1>3, <2>3
    <3> QED BY <1>1, <1>2, <2>1, <3>1 DEF TailInv
  <2> QED BY <2>2, <2>3
<1>8. FoundInv'
  <2>1. OnlyEowFound \/ NoLocatorFound
    BY <1>1, NotFoundYet
  <2>2. OnlyEowFound => FromFallback'
    <3>1. CASE infoOffsets' = infoOffsets
      BY <1>1, <3>1 DEF OnlyEowFound, FromFallback
    <3>2. CASE infoOffsets' = probed
      <4>1. probed = TailOffsets(img, Sizes(img)[k])
        BY DEF probed, ss, TailOffsets
      <4> QED BY <1>1, <1>3, <3>2, <4>1 DEF FromFallback
    <3> QED BY <1>1, <3>1, <3>2
  <2> QED BY <1>1, <2>1, <2>2 DEF FoundInv, OnlyEowFound, NoLocatorFound, LastPass
<1> QED BY <1>1, <1>2, <1>6, <1>7, <1>8
        DEF Inv, PhaseInv, PassInv, ScanInv, RawInv, FailInv, ChoiceInv

(* The three windows have been looked at. *)
LEMMA TailDoneStep ==
  ASSUME Inv, TailDone
  PROVE  Inv'
<1>1. /\ pc = "tail" /\ k > 3 /\ k' = 1 /\ pc' = "parse"
      /\ infoOffsets' = infoOffsets /\ eowOffsets' = eowOffsets
      /\ img' = img /\ passes' = passes /\ sector' = sector
      /\ available' = available /\ availableEow' = availableEow
      /\ information' = information /\ eowInformation' = eowInformation /\ result' = result
  BY DEF TailDone, parsed, found
<1>2. TypeOK /\ img \in Images /\ PhaseInv /\ TailInv
  BY DEF Inv
<1>3. /\ available = <<>> /\ availableEow = <<>> /\ information = <<>>
      /\ eowInformation = <<>> /\ result = "none"
  BY <1>1, <1>2 DEF PhaseInv
<1>4. TypeOK'
  <2>1. Len(infoOffsets) \in Nat
    BY <1>2, LenProperties DEF TypeOK
  <2> QED BY <1>1, <1>2, <1>3, <2>1 DEF TypeOK
<1>5. FoundInv'
  <2>1. OnlyEowFound \/ NoLocatorFound
    BY <1>1, NotFoundYet
  <2> QED BY <1>1, <2>1
          DEF FoundInv, OnlyEowFound, NoLocatorFound, LastPass, FromFallback
<1>6. TailInv'
  <2>1. \A j \in 1..3 : j \in 1..(k - 1)
    BY <1>1, <1>2 DEF TypeOK
  <2> QED BY <1>1, <1>2, <2>1 DEF TailInv
<1>7. ChoiceInv'
  <2>1. \A n \in 1..(k' - 1) : FALSE
    BY <1>1
  <2> QED BY <1>1, <1>3, <2>1 DEF ChoiceInv, FirstKept
<1> QED BY <1>1, <1>2, <1>3, <1>4, <1>5, <1>6, <1>7
        DEF Inv, PhaseInv, PassInv, ScanInv, RawInv, FailInv

---------------------------------------------------------------------------
(* The choice among the blocks. *)

(* The next element is kept if it is in T: kept still begins with the first. *)
LEMMA FirstKeptNext ==
  ASSUME NEW s \in Seq(Int), NEW n \in Nat, n < Len(s), NEW T, NEW kept \in Seq(Int),
         FirstKept(s, n, T, kept)
  PROVE  FirstKept(s, n + 1, T, IF s[n + 1] \in T THEN Append(kept, s[n + 1]) ELSE kept)
<1>1. \A j \in 1..(n + 1) : j \in 1..n \/ j = n + 1
  OBVIOUS
<1>2. CASE kept = <<>> /\ s[n + 1] \in T
  <2>1. Append(kept, s[n + 1]) = <<s[n + 1]>>
    BY <1>2
  <2>2. n + 1 \in 1..(n + 1) /\ (n + 1) - 1 = n
    OBVIOUS
  <2>3. \A l \in 1..((n + 1) - 1) : s[l] \notin T
    BY <1>2, <2>2 DEF FirstKept
  <2>4. <<s[n + 1]>> # <<>> /\ <<s[n + 1]>>[1] = s[n + 1]
    OBVIOUS
  <2> QED BY <1>2, <2>1, <2>2, <2>3, <2>4 DEF FirstKept
<1>3. CASE kept = <<>> /\ s[n + 1] \notin T
  BY <1>1, <1>3 DEF FirstKept
<1>4. CASE kept # <<>>
  <2>1. PICK j \in 1..n : s[j] = kept[1] /\ s[j] \in T /\ \A l \in 1..(j - 1) : s[l] \notin T
    BY <1>4 DEF FirstKept
  <2>2. j \in 1..(n + 1)
    OBVIOUS
  <2>3. ASSUME s[n + 1] \in T
        PROVE  Append(kept, s[n + 1]) # <<>> /\ Append(kept, s[n + 1])[1] = kept[1]
    <3>1. n + 1 \in 1..Len(s)
      BY LenProperties
    <3>2. s[n + 1] \in Int
      BY <3>1, ElementOfSeq
    <3>3. Len(kept) \in Nat /\ Len(kept) # 0
      BY <1>4, EmptySeq, LenProperties
    <3>4. /\ Append(kept, s[n + 1]) \in Seq(Int)
          /\ Len(Append(kept, s[n + 1])) = Len(kept) + 1
          /\ \A i \in 1..Len(kept) : Append(kept, s[n + 1])[i] = kept[i]
      BY <3>2, AppendProperties
    <3>5. 1 \in 1..Len(kept) /\ Len(kept) + 1 # 0
      BY <3>3
    <3> QED BY <3>4, <3>5, EmptySeq
  <2> QED BY <1>4, <2>1, <2>2, <2>3 DEF FirstKept
<1> QED BY <1>2, <1>3, <1>4

(* The head of what was kept is the first one. *)
LEMMA FirstKeptHead ==
  ASSUME NEW s, NEW n, NEW T, NEW kept \in Seq(Int), kept # <<>>, FirstKept(s, n, T, kept)
  PROVE  FirstKept(s, n, T, <<Head(kept)>>)
<1>1. Head(kept) = kept[1] /\ <<Head(kept)>> # <<>> /\ <<Head(kept)>>[1] = Head(kept)
  OBVIOUS
<1> QED BY <1>1 DEF FirstKept

(* NewInformation on one offset. *)
LEMMA ParseInformationStep ==
  ASSUME Inv, ParseInformation
  PROVE  Inv'
<1> DEFINE at == infoOffsets[k]
<1>1. /\ pc = "parse" /\ pc' = "parse" /\ k <= Len(infoOffsets) /\ k' = k + 1
      /\ available' = (IF Good(img, at) THEN Append(available, at) ELSE available)
      /\ infoOffsets' = infoOffsets /\ eowOffsets' = eowOffsets
      /\ img' = img /\ passes' = passes /\ sector' = sector
      /\ availableEow' = availableEow /\ information' = information
      /\ eowInformation' = eowInformation /\ result' = result
  BY DEF ParseInformation, found, Good
<1>2. TypeOK /\ img \in Images /\ PhaseInv /\ TailInv /\ FoundInv /\ ChoiceInv
  BY DEF Inv
<1>3. /\ infoOffsets \in Seq(Int) /\ available \in Seq(Int) /\ Len(infoOffsets) \in Nat
      /\ k \in Nat \ {0}
  BY <1>2, LenProperties DEF TypeOK
<1>4. at \in Int
  <2>1. k \in 1..Len(infoOffsets)
    BY <1>1, <1>3
  <2> QED BY <1>3, <2>1, ElementOfSeq
<1>5. Good(img, at) <=> at \in GoodOnes
  BY <1>4 DEF GoodOnes
<1>6. TypeOK'
  <2>1. available' \in Seq(Int)
    BY <1>1, <1>3, <1>4, AppendProperties
  <2>2. k' \in Nat \ {0} /\ k' <= Len(infoOffsets) + 1
    BY <1>1, <1>3
  <2> QED BY <1>1, <1>2, <2>1, <2>2 DEF TypeOK
<1>7. FirstKept(infoOffsets, k' - 1, GoodOnes, available')
  <2>1. k - 1 \in Nat /\ k - 1 < Len(infoOffsets) /\ (k - 1) + 1 = k /\ k' - 1 = k
    BY <1>1, <1>3
  <2>2. FirstKept(infoOffsets, k - 1, GoodOnes, available)
    BY <1>1, <1>2 DEF ChoiceInv
  <2>3. FirstKept(infoOffsets, (k - 1) + 1, GoodOnes,
                  IF infoOffsets[(k - 1) + 1] \in GoodOnes
                    THEN Append(available, infoOffsets[(k - 1) + 1]) ELSE available)
    BY <1>3, <2>1, <2>2, FirstKeptNext
  <2> QED BY <1>1, <1>5, <2>1, <2>3
<1>8. ChoiceInv'
  <2>1. result' = "none" /\ GoodOnes' = GoodOnes
    BY <1>1, <1>2 DEF PhaseInv, GoodOnes
  <2> QED BY <1>1, <1>7, <2>1 DEF ChoiceInv
<1>9. FoundInv' /\ TailInv'
  BY <1>1, <1>2 DEF FoundInv, LocatorsFound, OnlyEowFound, NoLocatorFound, LastPass, FromFallback, TailInv
<1> QED BY <1>1, <1>2, <1>6, <1>8, <1>9 DEF Inv, PhaseInv, PassInv, ScanInv, RawInv, FailInv

(* The first block that was parsed is chosen, or there is none. *)
LEMMA ChooseInformationStep ==
  ASSUME Inv, ChooseInformation
  PROVE  Inv'
<1>1. /\ pc = "parse" /\ k > Len(infoOffsets)
      /\ infoOffsets' = infoOffsets /\ eowOffsets' = eowOffsets /\ img' = img
      /\ passes' = passes /\ sector' = sector
      /\ available' = available /\ availableEow' = availableEow
      /\ eowInformation' = eowInformation
  BY DEF ChooseInformation, found
<1>2. TypeOK /\ img \in Images /\ PhaseInv /\ TailInv /\ FoundInv /\ ChoiceInv
  BY DEF Inv
<1>3. /\ infoOffsets \in Seq(Int) /\ available \in Seq(Int) /\ Len(infoOffsets) \in Nat
      /\ k \in Nat \ {0} /\ k - 1 = Len(infoOffsets)
  <2>1. Len(infoOffsets) \in Nat
    BY <1>2, LenProperties DEF TypeOK
  <2> QED BY <1>1, <1>2, <2>1 DEF TypeOK
<1>4. /\ availableEow = <<>> /\ information = <<>> /\ eowInformation = <<>> /\ result = "none"
  BY <1>1, <1>2 DEF PhaseInv
<1>5. /\ FirstKept(infoOffsets, Len(infoOffsets), GoodOnes, available)
      /\ GoodOnes' = GoodOnes
  BY <1>1, <1>2, <1>3 DEF ChoiceInv, GoodOnes
<1>6. CASE /\ available # <<>> /\ information' = <<Head(available)>> /\ k' = 1
           /\ pc' = "eow" /\ result' = result
  <2>1. Len(information') = 1
    BY <1>6
  <2>2. TypeOK'
    <3>1. Len(eowOffsets) \in Nat
      BY <1>2, LenProperties DEF TypeOK
    <3> QED BY <1>1, <1>2, <1>4, <1>6, <2>1, <3>1 DEF TypeOK
  <2>3. FirstKept(infoOffsets, Len(infoOffsets), GoodOnes, information')
    BY <1>3, <1>5, <1>6, FirstKeptHead
  <2>4. ChoiceInv'
    <3>1. \A n \in 1..(k' - 1) : FALSE
      BY <1>6
    <3> QED BY <1>1, <1>4, <1>5, <1>6, <2>1, <2>3, <3>1 DEF ChoiceInv, FirstKept
  <2>5. FoundInv' /\ TailInv'
    BY <1>1, <1>2, <1>6 DEF FoundInv, LocatorsFound, OnlyEowFound, NoLocatorFound, LastPass, FromFallback, TailInv
  <2> QED BY <1>1, <1>2, <1>4, <1>6, <2>2, <2>4, <2>5
          DEF Inv, PhaseInv, PassInv, ScanInv, RawInv, FailInv
<1>7. CASE /\ available = <<>> /\ result' = "noInformation" /\ pc' = "done"
           /\ k' = k /\ information' = information
  <2>1. TypeOK'
    BY <1>1, <1>2, <1>7 DEF TypeOK
  <2>2. ChoiceInv'
    BY <1>1, <1>5, <1>7 DEF ChoiceInv
  <2>3. FoundInv' /\ TailInv'
    BY <1>1, <1>2, <1>4, <1>7 DEF FoundInv, LocatorsFound, OnlyEowFound, NoLocatorFound, LastPass, FromFallback, TailInv
  <2> QED BY <1>1, <1>2, <1>4, <1>7, <2>1, <2>2, <2>3
          DEF Inv, PhaseInv, PassInv, ScanInv, RawInv, FailInv
<1> QED BY <1>6, <1>7 DEF ChooseInformation, Return

(* NewEowInformation on one offset. *)
LEMMA ParseEowStep ==
  ASSUME Inv, ParseEow
  PROVE  Inv'
<1> DEFINE at == eowOffsets[k]
<1>1. /\ pc = "eow" /\ pc' = "eow" /\ k <= Len(eowOffsets) /\ k' = k + 1
      /\ availableEow' = (IF NewEowInformation(img, at) THEN Append(availableEow, at)
                          ELSE availableEow)
      /\ infoOffsets' = infoOffsets /\ eowOffsets' = eowOffsets
      /\ img' = img /\ passes' = passes /\ sector' = sector
      /\ available' = available /\ information' = information
      /\ eowInformation' = eowInformation /\ result' = result
  BY DEF ParseEow, found
<1>2. TypeOK /\ img \in Images /\ PhaseInv /\ TailInv /\ FoundInv /\ ChoiceInv
  BY DEF Inv
<1>3. /\ eowOffsets \in Seq(Int) /\ availableEow \in Seq(Int) /\ Len(eowOffsets) \in Nat
      /\ k \in Nat \ {0}
  BY <1>2, LenProperties DEF TypeOK
<1>4. at \in Int
  <2>1. k \in 1..Len(eowOffsets)
    BY <1>1, <1>3
  <2> QED BY <1>3, <2>1, ElementOfSeq
<1>5. NewEowInformation(img, at) <=> at \in EowOnes
  BY <1>4 DEF EowOnes
<1>6. TypeOK'
  <2>1. availableEow' \in Seq(Int)
    BY <1>1, <1>3, <1>4, AppendProperties
  <2>2. k' \in Nat \ {0} /\ k' <= Len(eowOffsets) + 1
    BY <1>1, <1>3
  <2> QED BY <1>1, <1>2, <2>1, <2>2 DEF TypeOK
<1>7. FirstKept(eowOffsets, k' - 1, EowOnes, availableEow')
  <2>1. k - 1 \in Nat /\ k - 1 < Len(eowOffsets) /\ (k - 1) + 1 = k /\ k' - 1 = k
    BY <1>1, <1>3
  <2>2. FirstKept(eowOffsets, k - 1, EowOnes, availableEow)
    BY <1>1, <1>2 DEF ChoiceInv
  <2>3. FirstKept(eowOffsets, (k - 1) + 1, EowOnes,
                  IF eowOffsets[(k - 1) + 1] \in EowOnes
                    THEN Append(availableEow, eowOffsets[(k - 1) + 1]) ELSE availableEow)
    BY <1>3, <2>1, <2>2, FirstKeptNext
  <2> QED BY <1>1, <1>5, <2>1, <2>3
<1>8. ChoiceInv'
  <2>1. result' = "none" /\ GoodOnes' = GoodOnes /\ EowOnes' = EowOnes
    BY <1>1, <1>2 DEF PhaseInv, GoodOnes, EowOnes
  <2>2. Len(information) = 1 /\ FirstKept(infoOffsets, Len(infoOffsets), GoodOnes, information)
    BY <1>1, <1>2 DEF ChoiceInv
  <2> QED BY <1>1, <1>7, <2>1, <2>2 DEF ChoiceInv
<1>9. FoundInv' /\ TailInv'
  BY <1>1, <1>2 DEF FoundInv, LocatorsFound, OnlyEowFound, NoLocatorFound, LastPass, FromFallback, TailInv
<1> QED BY <1>1, <1>2, <1>6, <1>8, <1>9 DEF Inv, PhaseInv, PassInv, ScanInv, RawInv, FailInv

(* The first EOW information that was parsed is chosen, if there is one. *)
LEMMA ChooseEowStep ==
  ASSUME Inv, ChooseEow
  PROVE  Inv'
<1>1. /\ pc = "eow" /\ k > Len(eowOffsets) /\ pc' = "done" /\ result' = "nil"
      /\ eowInformation' = (IF availableEow = <<>> THEN <<>> ELSE <<Head(availableEow)>>)
      /\ infoOffsets' = infoOffsets /\ eowOffsets' = eowOffsets /\ img' = img
      /\ passes' = passes /\ sector' = sector /\ k' = k
      /\ available' = available /\ availableEow' = availableEow /\ information' = information
  BY DEF ChooseEow, Return, found
<1>2. TypeOK /\ img \in Images /\ PhaseInv /\ TailInv /\ FoundInv /\ ChoiceInv
  BY DEF Inv
<1>3. availableEow \in Seq(Int) /\ k - 1 = Len(eowOffsets) /\ result = "none"
  <2>1. Len(eowOffsets) \in Nat
    BY <1>2, LenProperties DEF TypeOK
  <2> QED BY <1>1, <1>2, <2>1, SMTT(30) DEF TypeOK, PhaseInv
<1>4. TypeOK'
  <2>1. Len(eowInformation') <= 1
    BY <1>1
  <2> QED BY <1>1, <1>2, <2>1 DEF TypeOK
<1>5. ChoiceInv'
  <2>1. /\ FirstKept(eowOffsets, Len(eowOffsets), EowOnes, availableEow)
        /\ Len(information) = 1 /\ FirstKept(infoOffsets, Len(infoOffsets), GoodOnes, information)
        /\ GoodOnes' = GoodOnes /\ EowOnes' = EowOnes
    BY <1>1, <1>2, <1>3 DEF ChoiceInv, GoodOnes, EowOnes
  <2>2. FirstKept(eowOffsets, Len(eowOffsets), EowOnes, eowInformation')
    BY <1>1, <1>3, <2>1, FirstKeptHead
  <2> QED BY <1>1, <2>1, <2>2 DEF ChoiceInv
<1>6. FoundInv' /\ TailInv'
  BY <1>1, <1>2, <1>3 DEF FoundInv, LocatorsFound, OnlyEowFound, NoLocatorFound, LastPass, FromFallback, TailInv
<1> QED BY <1>1, <1>2, <1>4, <1>5, <1>6 DEF Inv, PhaseInv, PassInv, ScanInv, RawInv, FailInv

---------------------------------------------------------------------------
(* Every step of New preserves the invariant. *)
LEMMA NextInv == Inv /\ [Next]_vars => Inv'
<1> SUFFICES ASSUME Inv, [Next]_vars PROVE Inv'
  OBVIOUS
<1>1. CASE UNCHANGED vars
  <2> USE <1>1 DEF vars
  <2>1. (img \in Images)' /\ TypeOK' /\ PhaseInv'
    BY DEF Inv, TypeOK, PhaseInv
  <2>2. PassInv' /\ ScanInv'
    BY DEF Inv, PassInv, ScanInv
  <2>3. FoundInv'
    BY DEF Inv, FoundInv, LocatorsFound, OnlyEowFound, NoLocatorFound, LastPass, FromFallback
  <2>4. RawInv' /\ FailInv' /\ TailInv'
    BY DEF Inv, RawInv, FailInv, TailInv
  <2>5. ChoiceInv'
    BY DEF Inv, ChoiceInv, GoodOnes, EowOnes
  <2> QED BY <2>1, <2>2, <2>3, <2>4, <2>5 DEF Inv
<1>2. CASE Next
  BY <1>2, ScanSectorStep, ScanFailsStep, ScanSucceedsStep, NextPassStep, UseInformationLcnStep,
     TryRawOffsetStep, RawDoneStep, TryTailStep, TailDoneStep, ParseInformationStep,
     ChooseInformationStep, ParseEowStep, ChooseEowStep DEF Next
<1> QED BY <1>1, <1>2

(* The invariant holds in every state of New. *)
LEMMA Invariance == Spec => []Inv
  BY InitInv, NextInv, PTL DEF Spec

(* New keeps its loops in range and its values well typed. *)
THEOREM TypeCorrect == Spec => []TypeOK
<1>1. Inv => TypeOK
  BY DEF Inv
<1> QED BY <1>1, Invariance, PTL

(***************************************************************************)
(* FirstGoodWins for every source: the volume is read through the first    *)
(* Information that NewInformation accepts, in the order of discovery, and *)
(* likewise the EOW information; New gives up only if there is none.       *)
(***************************************************************************)
THEOREM FirstGoodIsUsed == Spec => []FirstGoodWins
<1>1. ASSUME Inv PROVE FirstGoodWins
  <2>0. infoOffsets \in Seq(Int) /\ eowOffsets \in Seq(Int)
    BY <1>1 DEF Inv, TypeOK
  <2>1. \A j \in 1..Len(infoOffsets) : infoOffsets[j] \in GoodOnes <=> Good(img, infoOffsets[j])
    <3>1. \A j \in 1..Len(infoOffsets) : infoOffsets[j] \in Int
      BY <2>0, ElementOfSeq
    <3> QED BY <3>1 DEF GoodOnes
  <2>2. \A j \in 1..Len(eowOffsets) :
           eowOffsets[j] \in EowOnes <=> NewEowInformation(img, eowOffsets[j])
    <3>1. \A j \in 1..Len(eowOffsets) : eowOffsets[j] \in Int
      BY <2>0, ElementOfSeq
    <3> QED BY <3>1 DEF EowOnes
  <2>3. ASSUME NEW s \in Seq(Int), NEW j \in 1..Len(s), NEW l \in 1..(j - 1)
        PROVE  l \in 1..Len(s)
    BY LenProperties
  <2>4. ASSUME result = "nil"
        PROVE  IsFirst(infoOffsets, LAMBDA x : Good(img, x), information[1])
    <3>1. Len(information) = 1 /\ FirstKept(infoOffsets, Len(infoOffsets), GoodOnes, information)
      BY <1>1, <2>4 DEF Inv, ChoiceInv
    <3>2. information # <<>>
      BY <3>1
    <3>3. PICK j \in 1..Len(infoOffsets) :
             /\ infoOffsets[j] = information[1] /\ infoOffsets[j] \in GoodOnes
             /\ \A l \in 1..(j - 1) : infoOffsets[l] \notin GoodOnes
      BY <3>1, <3>2 DEF FirstKept
    <3>4. Good(img, information[1]) /\ \A l \in 1..(j - 1) : ~Good(img, infoOffsets[l])
      BY <2>0, <2>1, <2>3, <3>3
    <3> QED BY <3>3, <3>4 DEF IsFirst
  <2>5. ASSUME result = "nil", eowInformation # <<>>
        PROVE  IsFirst(eowOffsets, LAMBDA x : NewEowInformation(img, x), eowInformation[1])
    <3>1. FirstKept(eowOffsets, Len(eowOffsets), EowOnes, eowInformation)
      BY <1>1, <2>5 DEF Inv, ChoiceInv
    <3>3. PICK j \in 1..Len(eowOffsets) :
             /\ eowOffsets[j] = eowInformation[1] /\ eowOffsets[j] \in EowOnes
             /\ \A l \in 1..(j - 1) : eowOffsets[l] \notin EowOnes
      BY <2>5, <3>1 DEF FirstKept
    <3>4. /\ NewEowInformation(img, eowInformation[1])
          /\ \A l \in 1..(j - 1) : ~NewEowInformation(img, eowOffsets[l])
      BY <2>0, <2>2, <2>3, <3>3
    <3> QED BY <3>3, <3>4 DEF IsFirst
  <2>6. ASSUME result = "nil", eowInformation = <<>>
        PROVE  \A j \in 1..Len(eowOffsets) : ~NewEowInformation(img, eowOffsets[j])
    BY <1>1, <2>2, <2>6 DEF Inv, ChoiceInv, FirstKept
  <2>7. ASSUME result = "noInformation"
        PROVE  \A j \in 1..Len(infoOffsets) : ~Good(img, infoOffsets[j])
    BY <1>1, <2>1, <2>7 DEF Inv, ChoiceInv, FirstKept
  <2> QED BY <2>4, <2>5, <2>6, <2>7 DEF FirstGoodWins
<1> QED BY <1>1, Invariance, PTL

(***************************************************************************)
(* ReadErrorMeansShort for every source: the only read errors are those of *)
(* a source that ends before a scan does, or in the middle of a locator.   *)
(***************************************************************************)
THEOREM ReadErrorsExplained == Spec => []ReadErrorMeansShort
<1>1. ASSUME Inv PROVE ReadErrorMeansShort
  <2> SUFFICES ASSUME result = "readError"
               PROVE  \/ \E ss \in {SectorSize(img), Size512, Size4096} : img.len < ScanSectors * ss
                      \/ img.len - 1 \in DOMAIN img.locators
    BY DEF ReadErrorMeansShort
  <2>1. PICK j \in 1..3 : ~ProbeReads(img, 0, img.len, Sizes(img)[j], ScanSectors)
    BY <1>1 DEF Inv, FailInv
  <2>2. img \in Images /\ img.len \in Nat /\ ScanSectors \in Nat
    BY <1>1, ImageFacts, DiscoveryAssumption DEF Inv
  <2>3. PICK ss \in Nat \ {0} : /\ ss = Sizes(img)[j]
                                /\ ss \in {SectorSize(img), Size512, Size4096}
    <3>1. j = 1 \/ j = 2 \/ j = 3
      OBVIOUS
    <3> QED BY <2>2, <3>1, SizesValid
  <2>4. PICK s \in 0..(ScanSectors - 1) : ~SectorReadable(img, 0 + s * ss, ss, img.len)
    BY <2>1, <2>3 DEF ProbeReads
  <2>5. PICK base \in Nat : base = 0 + s * ss
    OBVIOUS
  <2>6. base + ss <= ScanSectors * ss
    <3>1. s + 1 <= ScanSectors
      BY <2>2
    <3>2. (s + 1) * ss <= ScanSectors * ss
      BY <2>2, <3>1
    <3>3. (s + 1) * ss = s * ss + ss
      OBVIOUS
    <3> QED BY <2>5, <3>2, <3>3
  <2>7. CASE ~(base + ss <= img.len)
    <3>1. img.len < ScanSectors * ss
      <4>1. PICK a \in Nat, b \in Int : a = img.len /\ b = ScanSectors * ss
        BY <2>2
      <4> QED BY <2>6, <2>7, <4>1
    <3> QED BY <2>3, <3>1
  <2>8. CASE base + ss <= img.len
    <3>1. PICK p \in LocatorIn(img, base, ss) : ~Readable(p + 1, 1, img.len)
      BY <2>4, <2>5, <2>8 DEF SectorReadable, Readable
    <3>2. p \in DOMAIN img.locators /\ p \in Nat /\ p < base + ss
      BY <2>2, LocatorInSector
    <3>3. p = img.len - 1
      BY <2>2, <2>8, <3>1, <3>2 DEF Readable
    <3> QED BY <3>2, <3>3
  <2> QED BY <2>7, <2>8
<1> QED BY <1>1, Invariance, PTL

(***************************************************************************)
(* LocatorsComeFirst for every source, those with EOW offsets included:    *)
(* the first pass that collects any offset decides; its EOW offsets and,   *)
(* if it has any, its info offsets are used and no others with them; if it *)
(* has EOW offsets only, the boot sector or the tail supplies the rest.    *)
(***************************************************************************)
THEOREM LocatorsAreFirst == Spec => []LocatorsComeFirst
<1>1. ASSUME Inv PROVE LocatorsComeFirst
  <2> DEFINE useful == {j \in 1..3 : \/ PassOffsets(img, Sizes(img)[j]) # <<>>
                                     \/ PassEow(img, Sizes(img)[j]) # <<>>}
             first == Sizes(img)[Min(useful)]
  <2> SUFFICES ASSUME pc \in {"parse", "eow", "done"}, result # "readError"
               PROVE  IF useful = {} THEN eowOffsets = <<>>
                      ELSE /\ eowOffsets = PassEow(img, first)
                           /\ IF PassOffsets(img, first) # <<>>
                                THEN infoOffsets = PassOffsets(img, first)
                                ELSE FromFallback
    BY Zenon DEF LocatorsComeFirst, FromFallback
  <2>1. LocatorsFound \/ OnlyEowFound \/ NoLocatorFound
    BY <1>1 DEF Inv, FoundInv
  <2>2. ASSUME NEW j \in 1..3, j \in useful, LastPass(j)
        PROVE  useful # {} /\ first = Sizes(img)[j]
    <3>1. \A l \in 1..(j - 1) : l \notin useful
      BY <2>2 DEF LastPass, Quiet
    <3>2. useful \subseteq 1..3 /\ useful \subseteq Nat /\ useful # {}
      BY <2>2
    <3> HIDE DEF useful
    <3>3. Min(useful) \in useful /\ Min(useful) <= j
      BY <2>2, <3>2, MinIsLeast
    <3>4. PICK x \in 1..3 : x = Min(useful)
      BY <3>2, <3>3
    <3>5. x = j
      BY <3>1, <3>3, <3>4
    <3> QED BY <3>2, <3>4, <3>5
  <2>3. CASE LocatorsFound
    <3>1. PICK j \in 1..3 : LastPass(j) /\ infoOffsets = PassOffsets(img, Sizes(img)[j])
      BY <2>3 DEF LocatorsFound
    <3>2. infoOffsets # <<>> /\ eowOffsets = PassEow(img, Sizes(img)[j])
      BY <2>3, <3>1 DEF LocatorsFound, LastPass
    <3>3. j \in useful
      BY <3>1, <3>2
    <3> HIDE DEF useful
    <3>4. useful # {} /\ first = Sizes(img)[j]
      BY <2>2, <3>1, <3>3
    <3> HIDE DEF first
    <3> QED BY <3>1, <3>2, <3>4, Zenon
  <2>4. CASE OnlyEowFound
    <3>1. PICK j \in 1..3 : LastPass(j) /\ PassOffsets(img, Sizes(img)[j]) = <<>>
      BY <2>4 DEF OnlyEowFound
    <3>2. FromFallback /\ eowOffsets # <<>> /\ eowOffsets = PassEow(img, Sizes(img)[j])
      BY <2>4, <3>1 DEF OnlyEowFound, LastPass
    <3>3. j \in useful
      BY <3>2
    <3> HIDE DEF useful
    <3>4. useful # {} /\ first = Sizes(img)[j]
      BY <2>2, <3>1, <3>3
    <3> HIDE DEF first
    <3> QED BY <3>1, <3>2, <3>4, Zenon
  <2>5. CASE NoLocatorFound
    <3>1. useful = {}
      BY <2>5 DEF NoLocatorFound, Quiet
    <3> HIDE DEF useful
    <3> QED BY <2>5, <3>1 DEF NoLocatorFound
  <2> QED BY <2>1, <2>3, <2>4, <2>5
<1> QED BY <1>1, Invariance, PTL

(* Without a drift New has scanned with the probe's sector size, or read it in vain. *)
LEMMA NoDrift ==
  ASSUME Inv, ~Drifts(img)
  PROVE  \E j \in 1..3 : /\ Sizes(img)[j] = deriveSectorSize(img)
                         /\ \A l \in 1..(j - 1) : Quiet(img, Sizes(img)[l])
<1> DEFINE d == deriveSectorSize(img)
           At(j) == Sizes(img)[j] = d
           Q(j) == Quiet(img, Sizes(img)[j])
<1>1. \A l \in 1..3 : (\A j \in 1..l : ~At(j)) => l # 3 /\ Q(l)
  BY DEF Drifts
<1> HIDE DEF d, At, Q
<1>2. /\ \A j \in 1..1 : j = 1
      /\ \A j \in 1..2 : j = 1 \/ j = 2
      /\ \A j \in 1..3 : j = 1 \/ j = 2 \/ j = 3
      /\ 1 \in 1..3 /\ 2 \in 1..3 /\ 3 \in 1..3
      /\ \A j \in 1..(1 - 1) : FALSE
      /\ \A j \in 1..(2 - 1) : j = 1
      /\ \A j \in 1..(3 - 1) : j = 1 \/ j = 2
  OBVIOUS
<1>3. At(1) \/ At(2) \/ At(3)
  BY <1>1, <1>2
<1>4. ~At(1) => Q(1)
  BY <1>1, <1>2
<1>5. ~At(1) /\ ~At(2) => Q(2)
  BY <1>1, <1>2
<1>6. \E j \in 1..3 : At(j) /\ \A l \in 1..(j - 1) : Q(l)
  <2>1. CASE At(1)
    BY <1>2, <2>1
  <2>2. CASE ~At(1) /\ At(2)
    BY <1>2, <1>4, <2>2
  <2>3. CASE ~At(1) /\ ~At(2)
    BY <1>2, <1>3, <1>4, <1>5, <2>3
  <2> QED BY <2>1, <2>2, <2>3
<1> QED BY <1>6 DEF d, At, Q

(***************************************************************************)
(* Where New has an outcome other than a read error, and the probe's pass  *)
(* would show an offset, that pass was made and its offsets are used.      *)
(***************************************************************************)
LEMMA ProbedAreUsed ==
  ASSUME Inv, pc = "done", result # "readError", ~Drifts(img), ProbedOffsets(img) # <<>>
  PROVE  /\ infoOffsets = ProbedOffsets(img)
         /\ ProbeReads(img, 0, img.len, deriveSectorSize(img), ScanSectors)
<1>1. PICK j \in 1..3 : /\ Sizes(img)[j] = deriveSectorSize(img)
                        /\ \A l \in 1..(j - 1) : Quiet(img, Sizes(img)[l])
  BY NoDrift
<1>2. PassOffsets(img, Sizes(img)[j]) = ProbedOffsets(img)
  BY <1>1 DEF PassOffsets, ProbedOffsets
<1>3. ~Quiet(img, Sizes(img)[j])
  BY <1>2 DEF Quiet
<1>4. LocatorsFound \/ OnlyEowFound
  BY <1>3 DEF Inv, FoundInv, NoLocatorFound
<1>5. PICK i \in 1..3 :
        /\ LastPass(i)
        /\ \/ infoOffsets # <<>> /\ infoOffsets = PassOffsets(img, Sizes(img)[i])
           \/ eowOffsets # <<>> /\ PassOffsets(img, Sizes(img)[i]) = <<>>
  BY <1>4 DEF LocatorsFound, OnlyEowFound
<1>6. ~Quiet(img, Sizes(img)[i])
  BY <1>5 DEF LastPass, Quiet
<1>7. i = j
  <2>1. i \in 1..(j - 1) \/ i = j \/ j \in 1..(i - 1)
    OBVIOUS
  <2>2. i \notin 1..(j - 1)
    BY <1>1, <1>6
  <2>3. j \notin 1..(i - 1)
    BY <1>3, <1>5 DEF LastPass
  <2> QED BY <2>1, <2>2, <2>3
<1> QED BY <1>1, <1>2, <1>5, <1>7 DEF LastPass

(***************************************************************************)
(* ProbeAgrees for every source, whatever its two sector sizes are: a yes  *)
(* of IsBitLockerVolume means that New tries the probe's offsets, a volume *)
(* that New opens gets a yes, and the exceptions to both are those listed. *)
(***************************************************************************)
THEOREM ProbeAndNewAgree == Spec => []ProbeAgrees
<1>1. ASSUME Inv PROVE ProbeAgrees
  <2> DEFINE d == deriveSectorSize(img)
             offsets == ProbedOffsets(img)
             decisive == {j \in 1..Len(offsets) :
                            /\ offsets[j] >= 0
                            /\ HasSignature(img, offsets[j]) \/ ~Readable(offsets[j], 1, img.len)}
             reads == ProbeReads(img, 0, img.len, d, ScanSectors)
             stopped == \E j \in 1..Len(offsets) : /\ offsets[j] >= img.len
                                                   /\ \A i \in 1..j : offsets[i] # information[1]
  <2> SUFFICES ASSUME pc = "done", ~HasSignature(img, 0), ~Drifts(img)
               PROVE  /\ IsBitLockerVolume(img) = "yes" =>
                           result # "readError" /\ infoOffsets = offsets
                      /\ result = "nil" =>
                           IsBitLockerVolume(img) = "yes" \/ offsets = <<>> \/ stopped
    BY Zenon DEF ProbeAgrees
  <2>1. IsBitLockerVolume(img) = IF ~reads THEN "error"
                                 ELSE IF decisive = {} THEN "no"
                                 ELSE IF HasSignature(img, offsets[Min(decisive)]) THEN "yes"
                                 ELSE "error"
    BY DEF IsBitLockerVolume
  <2>2. ASSUME IsBitLockerVolume(img) = "yes"
        PROVE  result # "readError" /\ infoOffsets = offsets
    <3>1. reads /\ decisive # {}
      BY <2>1, <2>2
    <3>2. offsets # <<>>
      <4>1. Len(<<>>) = 0 /\ 1..0 = {}
        OBVIOUS
      <4> QED BY <3>1, <4>1
    <3>3. result # "readError"
      <4> SUFFICES ASSUME result = "readError" PROVE FALSE
        OBVIOUS
      <4>1. PICK j \in 1..3 : /\ ~ProbeReads(img, 0, img.len, Sizes(img)[j], ScanSectors)
                              /\ \A l \in 1..(j - 1) : Quiet(img, Sizes(img)[l])
        BY <1>1 DEF Inv, FailInv
      <4>2. PICK i \in 1..3 : /\ Sizes(img)[i] = d
                              /\ \A l \in 1..(i - 1) : Quiet(img, Sizes(img)[l])
        BY <1>1, NoDrift
      <4>3. ~Quiet(img, Sizes(img)[i])
        BY <3>2, <4>2 DEF Quiet, PassOffsets, ProbedOffsets
      <4>4. ~Quiet(img, Sizes(img)[j])
        BY <4>1 DEF Quiet
      <4>5. i \in 1..(j - 1) \/ i = j \/ j \in 1..(i - 1)
        OBVIOUS
      <4> QED BY <3>1, <4>1, <4>2, <4>3, <4>4, <4>5
    <3> QED BY <1>1, <3>2, <3>3, ProbedAreUsed
  <2>3. ASSUME result = "nil", IsBitLockerVolume(img) # "yes", offsets # <<>> PROVE stopped
    <3>1. infoOffsets = offsets /\ reads
      BY <1>1, <2>3, ProbedAreUsed
    <3>2. PICK j \in 1..Len(offsets) : /\ offsets[j] = information[1] /\ offsets[j] \in GoodOnes
                                       /\ \A l \in 1..(j - 1) : offsets[l] \notin GoodOnes
      <4>1. Len(information) = 1 /\ FirstKept(infoOffsets, Len(infoOffsets), GoodOnes, information)
        BY <1>1, <2>3 DEF Inv, ChoiceInv
      <4>2. information # <<>>
        BY <4>1
      <4> QED BY <3>1, <4>1, <4>2 DEF FirstKept
    <3>3. offsets \in Seq(Int) /\ img.len \in Nat /\ DOMAIN img.blocks \subseteq 0..(img.len - 1)
      BY <1>1, <3>1, ImageFacts, DiscoveryAssumption DEF Inv, TypeOK
    <3>4. HasSignature(img, offsets[j]) /\ offsets[j] >= 0
      <4>1. HasSignature(img, offsets[j])
        BY <3>2 DEF GoodOnes, Good
      <4> QED BY <3>3, <4>1 DEF HasSignature
    <3>5. j \in decisive /\ decisive \subseteq Nat
      BY <3>4
    <3> PICK m \in decisive : m = Min(decisive) /\ \A y \in decisive : m <= y
      BY <3>5, MinIsLeast
    <3>6. ~HasSignature(img, offsets[m])
      BY <2>1, <2>3, <3>1, <3>5
    <3>7. m \in 1..Len(offsets) /\ offsets[m] >= 0 /\ ~Readable(offsets[m], 1, img.len)
      BY <3>6
    <3>8. offsets[m] >= img.len
      BY <3>3, <3>7 DEF Readable
    <3>9. ASSUME NEW i \in 1..m PROVE offsets[i] # information[1]
      <4> SUFFICES ASSUME offsets[i] = information[1] PROVE FALSE
        OBVIOUS
      <4>1. HasSignature(img, offsets[i]) /\ offsets[i] >= 0
        BY <3>2, <3>4
      <4>2. i \in decisive
        BY <3>3, <3>7, <4>1
      <4>3. i = m
        BY <3>7, <4>2
      <4> QED BY <3>6, <4>1, <4>3
    <3> QED BY <3>7, <3>8, <3>9
  <2> QED BY <2>2, <2>3
<1> QED BY <1>1, Invariance, PTL

(***************************************************************************)
(* A scan of n sectors from start that covers the only locator of a source *)
(* finds the offsets in it.                                                *)
(***************************************************************************)
LEMMA OnlyLocatorSeen ==
  ASSUME NEW v \in Images, NEW p \in DOMAIN v.locators, DOMAIN v.locators = {p},
         NEW j \in 1..3, v.locators[p].info[j] # 0,
         NEW start \in Nat, NEW ss \in Nat \ {0}, NEW n \in Nat,
         start <= p, p < start + n * ss
  PROVE  probeInformationOffsets(v, start, ss, n) # <<>>
<1>1. p \in Nat
  BY ImageFacts
<1>2. PICK d \in Nat : d = p - start
  BY <1>1
<1>3. PICK s \in Int, r \in 0..(ss - 1) : d = ss * s + r
  <2>1. d = ss * (d \div ss) + (d % ss) /\ d \div ss \in Int /\ d % ss \in 0..(ss - 1)
    OBVIOUS
  <2> QED BY <2>1
<1>4. s \in 0..(n - 1)
  <2>1. s >= 0
    <3> SUFFICES ASSUME s <= -1 PROVE FALSE
      OBVIOUS
    <3>1. ss * s <= ss * (-1)
      OBVIOUS
    <3> QED BY <1>3, <3>1
  <2>2. s < n
    <3> SUFFICES ASSUME s >= n PROVE FALSE
      OBVIOUS
    <3>1. ss * s >= ss * n /\ ss * n = n * ss
      OBVIOUS
    <3> QED BY <1>1, <1>2, <1>3, <3>1
  <2> QED BY <2>1, <2>2
<1>5. PICK base \in Int : base = start + s * ss
  OBVIOUS
<1>6. base <= p /\ p < base + ss
  <2>1. ss * s = s * ss
    OBVIOUS
  <2> QED BY <1>1, <1>2, <1>3, <1>5, <2>1
<1>7. LocatorIn(v, base, ss) = {p}
  <2> DEFINE seen == LocatorIn(v, base, ss)
  <2>1. /\ \A q \in seen : q \in DOMAIN v.locators
        /\ \A q \in DOMAIN v.locators : base <= q /\ q < base + ss => seen # {}
    <3>1. ss \in Int
      OBVIOUS
    <3> QED BY ONLY <3>1, v \in Images, base \in Int, LocatorInSector
  <2>2. seen # {}
    BY <1>6, <2>1
  <2> QED BY <2>1, <2>2
<1>8. InfoIn(v, start + s * ss, ss) # <<>>
  BY <1>5, <1>7, InfoInType
<1>9. probeInformationOffsets(v, start, ss, n) = <<>> =>
        \A l \in 0..(n - 1) : InfoIn(v, start + l * ss, ss) = <<>>
  <2>1. start \in Int /\ ss \in Int
    OBVIOUS
  <2> QED BY ONLY <2>1, v \in Images, n \in Nat, ProbeProperties
<1> QED BY <1>4, <1>8, <1>9

(***************************************************************************)
(* LocatorMissedOnlyIf for every source: the only locator of a volume is   *)
(* missed only where no scan of the start and no window of the tail can    *)
(* see it.                                                                 *)
(***************************************************************************)
THEOREM LocatorsAreFound == Spec => []LocatorMissedOnlyIf
<1>1. ASSUME Inv, result = "noInformation", NEW p \in DOMAIN img.locators,
             DOMAIN img.locators = {p}, NEW j \in 1..3, img.locators[p].info[j] # 0,
             infoOffsets = <<>>
      PROVE  /\ p >= ScanSectors * Size4096
             /\ \A ss \in {SectorSize(img), Size512, Size4096} : ~InTailWindow(p, ss)
  <2>1. /\ img \in Images /\ img.len \in Nat /\ p \in Nat /\ pc = "done"
        /\ ScanSectors \in Nat /\ TailSectors \in Nat /\ EffectiveSize(img) \in Nat
    BY <1>1, ImageFacts, DiscoveryAssumption, SizesValid, TailStartType DEF Inv, PhaseInv
  <2>2. \A l \in 1..3 : Sizes(img)[l] \in Nat \ {0}
    BY <2>1, SizesValid
  <2>3. ASSUME NEW ss \in Nat \ {0}, PassOffsets(img, ss) = <<>> PROVE p >= ScanSectors * ss
    <3>1. PICK e \in Int : e = ScanSectors * ss
      BY <2>1
    <3> SUFFICES ASSUME p < e PROVE FALSE
      BY <2>1, <3>1
    <3>2. 0 <= p /\ p < 0 + ScanSectors * ss
      BY <2>1, <3>1
    <3>3. probeInformationOffsets(img, 0, ss, ScanSectors) # <<>>
      BY <1>1, <2>1, <3>2, OnlyLocatorSeen
    <3> QED BY <2>3, <3>3 DEF PassOffsets
  <2>4. ~LocatorsFound
    BY <1>1 DEF LocatorsFound
  <2>5. ~OnlyEowFound
    <3> SUFFICES ASSUME NEW l \in 1..3, PassOffsets(img, Sizes(img)[l]) = <<>>,
                        NEW s \in 0..(ScanSectors - 1),
                        LocatorIn(img, s * Sizes(img)[l], Sizes(img)[l]) # {}
                 PROVE  FALSE
      BY DEF OnlyEowFound
    <3>1. PICK ss \in Nat \ {0} : ss = Sizes(img)[l]
      BY <2>2
    <3>2. p >= ScanSectors * ss
      BY <2>3, <3>1
    <3>3. PICK base \in Int : base = s * ss
      BY <3>1
    <3>4. PICK q \in LocatorIn(img, base, ss) : TRUE
      BY <3>1, <3>3
    <3>5. q = p /\ q < base + ss
      BY <1>1, <2>1, <3>4, LocatorInSector
    <3>6. base + ss <= ScanSectors * ss
      <4>1. s + 1 <= ScanSectors
        BY <2>1
      <4>2. (s + 1) * ss <= ScanSectors * ss
        BY <2>1, <4>1
      <4>3. (s + 1) * ss = s * ss + ss
        OBVIOUS
      <4> QED BY <3>3, <4>2, <4>3
    <3>7. PICK e \in Int : e = ScanSectors * ss
      BY <2>1
    <3> QED BY <2>1, <3>2, <3>5, <3>6, <3>7
  <2>6. p >= ScanSectors * Size4096
    <3>1. NoLocatorFound
      BY <1>1, <2>1, <2>4, <2>5 DEF Inv, FoundInv
    <3>2. PassOffsets(img, Size4096) = <<>> /\ Size4096 \in Nat \ {0}
      BY <2>1, <3>1, SizesValid DEF NoLocatorFound, Quiet
    <3> QED BY <2>3, <3>2
  <2>7. ASSUME NEW ss \in Nat \ {0}, TailBlank(img, ss), InTailWindow(p, ss) PROVE FALSE
    <3>1. PICK end \in Nat : end = EffectiveSize(img)
      BY <2>1
    <3>2. PICK window \in Nat : window = ss * TailSectors
      BY <2>1
    <3>3. PICK from \in Nat : from = end - window /\ end <= img.len /\ from <= p /\ p + 1 < end
      BY <2>7, <3>1, <3>2 DEF InTailWindow
    <3>4. TailStart(img, ss) = from
      BY <3>1, <3>2, <3>3 DEF TailStart
    <3>5. Min({EffectiveSize(img), img.len}) = end
      <4>1. {end, img.len} \subseteq Nat /\ {end, img.len} # {}
        BY <2>1
      <4>2. Min({end, img.len}) \in {end, img.len} /\ \A y \in {end, img.len} : Min({end, img.len}) <= y
        BY <4>1, MinIsLeast
      <4>3. Min({end, img.len}) \in Nat /\ Min({end, img.len}) <= end
        BY <4>1, <4>2
      <4>4. Min({end, img.len}) = end
        BY <2>1, <3>3, <4>2, <4>3
      <4> QED BY <3>1, <4>4
    <3>6. ASSUME NEW s \in 0..(TailSectors - 1) PROVE SectorReadable(img, from + s * ss, ss, end)
      <4>1. PICK base \in Nat : base = from + s * ss
        OBVIOUS
      <4>2. base + ss <= end
        <5>1. s + 1 <= TailSectors
          BY <2>1
        <5>2. ss * (s + 1) <= ss * TailSectors
          BY <2>1, <5>1
        <5>3. ss * (s + 1) = s * ss + ss
          OBVIOUS
        <5>4. PICK q \in Nat : q = s * ss
          OBVIOUS
        <5> QED BY <3>2, <3>3, <4>1, <5>2, <5>3, <5>4
      <4>3. ASSUME NEW q \in LocatorIn(img, base, ss) PROVE Readable(q + 1, 1, end)
        <5>1. q = p
          BY <1>1, <2>1, LocatorInSector
        <5> QED BY <2>1, <3>3, <5>1 DEF Readable
      <4> QED BY <4>1, <4>2, <4>3 DEF SectorReadable, Readable
    <3>7. ProbeReads(img, from, end, ss, TailSectors)
      BY <3>6 DEF ProbeReads
    <3>8. probeInformationOffsets(img, from, ss, TailSectors) # <<>>
      <4>1. from <= p /\ p < from + TailSectors * ss
        <5>1. TailSectors * ss = ss * TailSectors
          BY <2>1
        <5> QED BY <2>1, <3>2, <3>3, <5>1
      <4> QED BY <1>1, <2>1, <4>1, OnlyLocatorSeen
    <3>9. ~(EffectiveSize(img) <= 0)
      BY <2>1, <3>1, <3>3
    <3> QED BY <2>7, <3>4, <3>5, <3>7, <3>8, <3>9 DEF TailBlank
  <2>8. \A ss \in {SectorSize(img), Size512, Size4096} : TailBlank(img, ss) /\ ss \in Nat \ {0}
    <3>1. \A l \in 1..3 : TailBlank(img, Sizes(img)[l])
      BY <1>1, <2>1 DEF Inv, TailInv
    <3> QED BY <2>1, <3>1, SizesValid
  <2> QED BY <2>6, <2>7, <2>8
<1>2. Inv => LocatorMissedOnlyIf
  BY <1>1 DEF LocatorMissedOnlyIf
<1> QED BY <1>2, Invariance, PTL
=============================================================================
