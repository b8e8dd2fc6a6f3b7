------------------------ MODULE BitlockerStreamProofs ------------------------
(***************************************************************************)
(* Proofs about BitlockerStream, for any number of concurrent callers and  *)
(* buffers, any sector size and any layout of metadata and volume header.  *)
(***************************************************************************)
EXTENDS BitlockerStreamRefinement, RegionsProofs

---------------------------------------------------------------------------
(* Division with remainder determines quotient and remainder. *)
LEMMA DivUnique ==
  ASSUME NEW s \in Nat \ {0}, NEW q \in Int, NEW r \in 0..(s - 1)
  PROVE  (s * q + r) \div s = q
OBVIOUS

(* Every number is quotient times divisor plus remainder. *)
LEMMA DivMod ==
  ASSUME NEW s \in Nat \ {0}, NEW a \in Int
  PROVE  /\ a \div s \in Int
         /\ a - s * (a \div s) \in 0..(s - 1)
         /\ a % s = a - s * (a \div s)
OBVIOUS

(***************************************************************************)
(* Go's division and remainder (sector, inSector): what they add up to,    *)
(* and the range of the remainder for either sign of the offset.           *)
(***************************************************************************)
LEMMA GoDivMod ==
  ASSUME NEW s \in Nat \ {0}, NEW a \in Int
  PROVE  /\ GoDiv(a, s) \in Int /\ GoMod(a, s) \in Int
         /\ a = s * GoDiv(a, s) + GoMod(a, s)
         /\ a >= 0 => /\ GoDiv(a, s) = a \div s /\ GoDiv(a, s) >= 0
                      /\ GoMod(a, s) \in 0..(s - 1)
         /\ a < 0 => GoDiv(a, s) <= 0
         /\ GoMod(a, s) < s
         /\ a < 0 => GoMod(a, s) <= 0
<1>1. CASE a >= 0
  <2>1. a \div s >= 0
    BY <1>1
  <2> QED BY <1>1, <2>1, DivMod DEF GoDiv, GoMod
<1>2. CASE a < 0
  <2>1. -a \in Nat /\ (-a) \div s \in Int /\ (-a) - s * ((-a) \div s) \in 0..(s - 1)
    BY <1>2, DivMod
  <2>2. (-a) \div s >= 0
    BY <1>2
  <2> QED BY <1>2, <2>1, <2>2 DEF GoDiv, GoMod
<1> QED BY <1>1, <1>2

(* All units of an iteration lie in the sector it computed. *)
LEMMA SameSector ==
  ASSUME NEW a \in Nat, NEW x \in Nat, GoMod(a, SectorSize) + x < SectorSize
  PROVE  (a + x) \div SectorSize = GoDiv(a, SectorSize)
<1>1. SectorSize \in Nat \ {0}
  BY LayoutAssumption
<1> DEFINE q == GoDiv(a, SectorSize)
           r == GoMod(a, SectorSize)
<1>2. q \in Int /\ r \in 0..(SectorSize - 1) /\ a = SectorSize * q + r
  BY <1>1, GoDivMod
<1> HIDE DEF q, r
<1>3. r + x \in 0..(SectorSize - 1) /\ a + x = SectorSize * q + (r + x)
  BY <1>1, <1>2 DEF r
<1>4. (SectorSize * q + (r + x)) \div SectorSize = q
  BY <1>1, <1>2, <1>3, DivUnique
<1> QED BY <1>3, <1>4 DEF q

(* An iteration that starts at a negative offset is not in a reserved sector. *)
LEMMA NegativeNotReserved ==
  ASSUME NEW a \in Int, a < 0
  PROVE  ~isReservedSector(Reserved, GoDiv(a, SectorSize))
<1>1. SectorSize \in Nat \ {0} /\ Reserved \in Seq(Region) /\ Separated(Reserved)
      /\ \A j \in 1..Len(Reserved) : Reserved[j].startSector > 0
  BY LayoutAssumption
<1>2. GoDiv(a, SectorSize) \in Int /\ GoDiv(a, SectorSize) <= 0
  BY <1>1, GoDivMod
<1>3. ~CoveredBy(Reserved, GoDiv(a, SectorSize))
  BY <1>1, <1>2, RegionTypes DEF CoveredBy, InRegion
<1> QED BY <1>1, <1>2, <1>3, LookupIsMembership

(* Where readAtInternal reads the sector of offset a from. *)
SourceOf(a) ==
  IF HeaderMapped(GoDiv(a, SectorSize))
    THEN HeaderOffset + GoDiv(a, SectorSize) * SectorSize
    ELSE a - GoMod(a, SectorSize)

(***************************************************************************)
(* The sector of offset a is stored at SourceOf(a), a multiple of the      *)
(* sector size.                                                            *)
(***************************************************************************)
LEMMA PhysicalSector ==
  ASSUME NEW a \in Nat, NEW x \in Nat, GoMod(a, SectorSize) + x < SectorSize
  PROVE  /\ (a + x) \div SectorSize = GoDiv(a, SectorSize)
         /\ Physical(a + x) = SourceOf(a) + (GoMod(a, SectorSize) + x)
         /\ \E t \in Nat : /\ SourceOf(a) = SectorSize * t
                         /\ Physical(a + x) \div SectorSize = t
                         /\ GoDiv(SourceOf(a), SectorSize) = t
<1>1. SectorSize \in Nat \ {0} /\ HeaderOffset \in Nat /\ HeaderOffset % SectorSize = 0
  BY LayoutAssumption
<1> DEFINE q == GoDiv(a, SectorSize)
           r == GoMod(a, SectorSize)
           p == SourceOf(a)
           h == HeaderOffset \div SectorSize
<1>2. q \in Int /\ r \in 0..(SectorSize - 1) /\ a = SectorSize * q + r /\ q >= 0
  <2>1. a \in Int /\ a >= 0
    OBVIOUS
  <2> HIDE DEF h, p
  <2> QED BY <2>1, <1>1, GoDivMod
<1>3. (a + x) \div SectorSize = q
  BY SameSector
<1>4. h \in Int /\ h >= 0 /\ HeaderOffset = SectorSize * h
  <2>1. h \in Int /\ HeaderOffset % SectorSize = HeaderOffset - SectorSize * h
    <3>1. HeaderOffset \in Int
      BY <1>1
    <3> QED BY <3>1, <1>1, DivMod, Zenon
  <2>2. h >= 0
    BY <1>1
  <2> QED BY <1>1, <2>1, <2>2
<1> HIDE DEF q, r, h
<1>5. Physical(a + x) = p + (r + x)
  <2>1. CASE HeaderMapped(q)
    <3>1. Physical(a + x) = HeaderOffset + (a + x)
      BY <2>1, <1>3 DEF Physical
    <3>2. p = HeaderOffset + q * SectorSize
      BY <2>1 DEF SourceOf, q
    <3> QED BY <3>1, <3>2, <1>1, <1>2
  <2>2. CASE ~HeaderMapped(q)
    <3>1. Physical(a + x) = a + x
      BY <2>2, <1>3 DEF Physical
    <3>2. p = a - r
      BY <2>2 DEF SourceOf, q, r
    <3> QED BY <3>1, <3>2, <1>2
  <2> QED BY <2>1, <2>2
<1>6. \E t \in Nat : p = SectorSize * t
  <2>1. CASE HeaderMapped(q)
    <3>1. p = HeaderOffset + q * SectorSize
      BY <2>1 DEF SourceOf, q
    <3>2. p = SectorSize * (h + q) /\ h + q \in Nat
      BY <3>1, <1>1, <1>2, <1>4
    <3> QED BY <3>2
  <2>2. CASE ~HeaderMapped(q)
    <3>1. p = a - r
      BY <2>2 DEF SourceOf, q, r
    <3>2. p = SectorSize * q /\ q \in Nat
      BY <3>1, <1>1, <1>2
    <3> QED BY <3>2
  <2> QED BY <2>1, <2>2
<1>7. PICK t \in Nat : p = SectorSize * t
  BY <1>6
<1>8. r + x \in 0..(SectorSize - 1)
  BY <1>1, <1>2 DEF r
<1>9. (p + (r + x)) \div SectorSize = t
  <2>1. t \in Int
    OBVIOUS
  <2>2. (SectorSize * t + (r + x)) \div SectorSize = t
    BY <2>1, <1>1, <1>8, DivUnique, Zenon
  <2> QED BY <2>2, <1>7, Zenon
<1>10. GoDiv(p, SectorSize) = t
  <2>1. SectorSize * t >= 0 /\ SectorSize * t + 0 = SectorSize * t /\ 0 \in 0..(SectorSize - 1)
    BY <1>1
  <2>2. (SectorSize * t) \div SectorSize = t
    BY <1>1, <2>1, DivUnique
  <2> QED BY <1>7, <2>1, <2>2 DEF GoDiv
<1>11. Physical(a + x) \div SectorSize = t
  BY <1>5, <1>9, Zenon
<1> QED BY <1>3, <1>5, <1>7, <1>10, <1>11 DEF q, r

(***************************************************************************)
(* The view of an unreserved sector of an encrypted volume is the sector   *)
(* at SourceOf, decrypted with that sector's number.                       *)
(***************************************************************************)
LEMMA ViewDecrypted ==
  ASSUME NEW a \in Nat, NEW x \in Nat, GoMod(a, SectorSize) + x < SectorSize,
         ~passthrough, ~isReservedSector(Reserved, GoDiv(a, SectorSize))
  PROVE  View(a + x, passthrough) = Dec(SourceOf(a) + (GoMod(a, SectorSize) + x),
                           GoDiv(SourceOf(a), SectorSize))
BY PhysicalSector DEF View

(* The offset at which readAtInternal reads a sector is an integer. *)
LEMMA SourceOfType ==
  ASSUME NEW a \in Int
  PROVE  SourceOf(a) \in Int
<1>1. SectorSize \in Nat \ {0} /\ HeaderOffset \in Nat
  BY LayoutAssumption
<1>2. GoDiv(a, SectorSize) \in Int /\ GoMod(a, SectorSize) \in Int
  BY <1>1, GoDivMod
<1> QED BY <1>1, <1>2 DEF SourceOf

---------------------------------------------------------------------------
(***************************************************************************)
(* The inductive invariant. A call knows where it is (CallInv); between    *)
(* Get and Put it holds a buffer that contains exactly its sector          *)
(* (SectorInv); what it has delivered, and what it has copied but not yet  *)
(* counted, is the view (DataInv). SectorInv survives the other calls only *)
(* because of BufferExclusive.                                             *)
(***************************************************************************)
CallInv(c) ==
  /\ n[c] <= len[c]
  /\ cur[c] = off[c] + n[c]
  /\ pc[c] = "idle" => n[c] = 0
  /\ op[c] = "Read" => off[c] >= 0
  /\ off[c] < 0 => n[c] = 0 /\ pc[c] # "put"

SectorInv(c) ==
  /\ pc[c] \in {"fill", "decrypt", "copy", "put"} =>
       /\ bp[c] \in Bufs
       /\ Remaining(c) > 0
       /\ ~passthrough
       /\ ~isReservedSector(Reserved, Sector(c))
  /\ pc[c] \in {"idle", "loop", "return", "done"} => bp[c] = NoBuf
  /\ pc[c] \in {"decrypt", "copy"} => SourceOf(cur[c]) >= 0
  /\ pc[c] = "decrypt" =>
       \A x \in Slots : buf[bp[c]][x] = Raw(SourceOf(cur[c]) + x)
  /\ pc[c] = "copy" =>
       \A x \in Slots : buf[bp[c]][x] = Dec(SourceOf(cur[c]) + x,
                                            GoDiv(SourceOf(cur[c]), SectorSize))

DataInv(c) ==
  /\ \A x \in 0..(n[c] - 1) : dst[c][x] = View(off[c] + x, passthrough)
  /\ pc[c] = "put" =>
       \A x \in 0..(n[c] + ToDo(c) - 1) : dst[c][x] = View(off[c] + x, passthrough)

ClientInv(c) == CallInv(c) /\ SectorInv(c) /\ DataInv(c)

PoolInv ==
  /\ BufferExclusive
  /\ \A b \in Bufs \ free : \E c \in Clients : bp[c] = b

IndInv == TypeOK /\ PoolInv /\ \A c \in Clients : ClientInv(c)

(* The types of one client's variables, in the form the steps use. *)
LEMMA TypeAt ==
  ASSUME TypeOK, NEW c \in Clients
  PROVE  /\ off[c] \in Int /\ len[c] \in Nat /\ cur[c] \in Int /\ n[c] \in Nat
         /\ dst[c] \in [0..(len[c] - 1) -> Val]
         /\ bp[c] \in Bufs \union {NoBuf} /\ err[c] \in Errors
         /\ SectorSize \in Nat \ {0}
         /\ Sector(c) \in Int /\ InSector(c) \in Int /\ InSector(c) < SectorSize
         /\ cur[c] >= 0 => InSector(c) >= 0
         /\ SrcOffset(c) = SourceOf(cur[c]) /\ SrcOffset(c) \in Int
<1>1. SectorSize \in Nat \ {0}
  BY LayoutAssumption
<1>2. /\ off[c] \in Int /\ len[c] \in Nat /\ cur[c] \in Int /\ n[c] \in Nat
      /\ dst[c] \in [0..(len[c] - 1) -> Val]
      /\ bp[c] \in Bufs \union {NoBuf} /\ err[c] \in Errors
  BY DEF TypeOK
<1>3. /\ Sector(c) \in Int /\ InSector(c) \in Int /\ InSector(c) < SectorSize
      /\ cur[c] >= 0 => InSector(c) >= 0
  <2>1. PICK a \in Int : a = cur[c]
    BY <1>2
  <2>2. /\ GoDiv(a, SectorSize) \in Int /\ GoMod(a, SectorSize) \in Int
        /\ GoMod(a, SectorSize) < SectorSize
        /\ a >= 0 => GoMod(a, SectorSize) \in 0..(SectorSize - 1)
    BY <1>1, GoDivMod
  <2>3. a >= 0 => GoMod(a, SectorSize) >= 0
    BY <1>1, <2>2
  <2> QED BY <2>1, <2>2, <2>3 DEF Sector, InSector
<1>4. SrcOffset(c) = SourceOf(cur[c])
  BY DEF SrcOffset, SourceOf, Sector, InSector
<1> QED BY <1>1, <1>2, <1>3, <1>4, SourceOfType

(* How much an iteration does: at least one unit, within sector and slice. *)
LEMMA ToDoBounds ==
  ASSUME TypeOK, NEW c \in Clients, Remaining(c) > 0
  PROVE  /\ ToDo(c) \in Nat /\ ToDo(c) > 0
         /\ ToDo(c) <= len[c] - n[c]
         /\ InSector(c) + ToDo(c) <= SectorSize
BY TypeAt DEF ToDo, Remaining

(* A call keeps its invariant while others move, if its buffer is left alone. *)
LEMMA Frame ==
  ASSUME NEW d \in Clients, ClientInv(d), passthrough' = passthrough,
         pc'[d] = pc[d], op'[d] = op[d], off'[d] = off[d], len'[d] = len[d],
         cur'[d] = cur[d], n'[d] = n[d], dst'[d] = dst[d], bp'[d] = bp[d],
         pc[d] \in {"decrypt", "copy"} => buf'[bp[d]] = buf[bp[d]]
  PROVE  ClientInv(d)'
<1>1. CallInv(d)'
  BY DEF ClientInv, CallInv
<1>2. SectorInv(d)'
  BY DEF ClientInv, SectorInv, Remaining, Sector
<1>3. DataInv(d)'
  <2>1. ToDo(d)' = ToDo(d)
    BY DEF ToDo, Remaining, InSector
  <2> QED BY <2>1 DEF ClientInv, DataInv
<1> QED BY <1>1, <1>2, <1>3 DEF ClientInv

---------------------------------------------------------------------------
(* The calls begin knowing nothing and owning nothing. *)
LEMMA InitIndInv == Init => IndInv
<1> SUFFICES ASSUME Init PROVE IndInv
  OBVIOUS
<1>1. SectorSize \in Nat \ {0} /\ NoBuf \notin Bufs
  BY LayoutAssumption, StreamAssumption
<1>2. AllJunk \in [Slots -> Val] /\ Blank(0) \in [0..(0 - 1) -> Val]
  BY DEF AllJunk, Blank, Val, Junk
<1>3. TypeOK
  BY <1>1, <1>2 DEF Init, TypeOK, Errors
<1>4. PoolInv
  BY <1>1 DEF Init, PoolInv, BufferExclusive, Holding
<1>5. \A c \in Clients : ClientInv(c)
  BY <1>1 DEF Init, ClientInv, CallInv, SectorInv, DataInv
<1> QED BY <1>3, <1>4, <1>5 DEF IndInv

(* A new call: nothing delivered, no buffer. *)
LEMMA BeginStep ==
  ASSUME IndInv, NEW c \in Clients, NEW o \in {"Read", "ReadAt"}, NEW at \in Int,
         NEW l \in Nat, o = "Read" => at >= 0, Begin(c, o, at, l)
  PROVE  IndInv'
<1>0. TypeOK /\ PoolInv /\ \A d \in Clients : ClientInv(d)
  BY DEF IndInv
<1>1. TypeOK'
  <2>1. Blank(l) \in [0..(l - 1) -> Val]
    BY DEF Blank, Val, Junk
  <2>2. len' = [len EXCEPT ![c] = l] /\ dst' = [dst EXCEPT ![c] = Blank(l)]
    BY DEF Begin
  <2>3. DOMAIN dst' = Clients /\ \A d \in Clients : dst'[d] \in [0..(len'[d] - 1) -> Val]
    BY <1>0, <2>1, <2>2 DEF TypeOK
  <2> QED BY <1>0, <2>3 DEF TypeOK, Begin, shared, pool, Errors
<1>2. PoolInv'
  BY <1>0 DEF PoolInv, BufferExclusive, Holding, Begin, shared, pool
<1>3. \A d \in Clients \ {c} : ClientInv(d)'
  <2> SUFFICES ASSUME NEW d \in Clients \ {c} PROVE ClientInv(d)'
    OBVIOUS
  <2>1. /\ pc'[d] = pc[d] /\ op'[d] = op[d] /\ off'[d] = off[d] /\ len'[d] = len[d]
        /\ cur'[d] = cur[d] /\ n'[d] = n[d] /\ dst'[d] = dst[d] /\ bp'[d] = bp[d]
        /\ buf' = buf /\ passthrough' = passthrough
    BY <1>0 DEF Begin, TypeOK, shared, pool
  <2> QED BY <1>0, <2>1, Frame
<1>4. ClientInv(c)'
  <2>1. /\ pc'[c] = "loop" /\ op'[c] = o /\ off'[c] = at /\ len'[c] = l /\ cur'[c] = at
        /\ n'[c] = 0 /\ bp'[c] = bp[c] /\ bp[c] = NoBuf
    BY <1>0 DEF Begin, TypeOK, ClientInv, SectorInv
  <2> QED BY <2>1 DEF ClientInv, CallInv, SectorInv, DataInv
<1> QED BY <1>1, <1>2, <1>3, <1>4 DEF IndInv

(* Steps that move only the program counter and the error of a call. *)
LEMMA ControlStep ==
  ASSUME IndInv, NEW c \in Clients,
         LoopEnds(c) \/ NoCipher(c) \/ DecryptPanics(c) \/ CopyPanics(c) \/ Return(c)
  PROVE  IndInv'
<1>0. TypeOK /\ PoolInv /\ \A d \in Clients : ClientInv(d)
  BY DEF IndInv
<1>a. /\ op' = op /\ off' = off /\ len' = len /\ cur' = cur /\ n' = n /\ dst' = dst
      /\ bp' = bp /\ free' = free /\ buf' = buf /\ cipherSet' = cipherSet
      /\ passthrough' = passthrough
      /\ \A d \in Clients \ {c} : pc'[d] = pc[d]
      /\ pc'[c] \in {"return", "panic", "done"}
      /\ pc'[c] # "panic" => pc[c] \in {"loop", "return"}
  BY <1>0 DEF TypeOK, LoopEnds, NoCipher, DecryptPanics, CopyPanics, Return,
     NeedsSector, shared, pool, args
<1>1. TypeOK'
  <2>1. pc' \in [Clients -> {"idle", "loop", "fill", "decrypt", "copy", "put",
                            "return", "done", "panic"}]
    BY <1>0 DEF TypeOK, LoopEnds, NoCipher, DecryptPanics, CopyPanics, Return, NeedsSector
  <2>2. err' \in [Clients -> Errors]
    BY <1>0 DEF TypeOK, LoopEnds, NoCipher, DecryptPanics, CopyPanics, Return, Errors
  <2>3. offset' \in Nat
    <3>1. CASE offset' = offset
      BY <3>1, <1>0 DEF TypeOK
    <3>2. CASE op[c] = "Read" /\ offset' = cur[c]
      <4>1. off[c] \in Int /\ n[c] \in Nat /\ off[c] >= 0 /\ cur[c] = off[c] + n[c]
        BY <1>0, <3>2, TypeAt DEF ClientInv, CallInv
      <4> QED BY <4>1, <3>2
    <3> QED BY <3>1, <3>2 DEF LoopEnds, NoCipher, DecryptPanics, CopyPanics, Return, shared
  <2> QED BY <1>0, <1>a, <2>1, <2>2, <2>3 DEF TypeOK
<1>2. PoolInv'
  BY <1>0, <1>a DEF PoolInv, BufferExclusive, Holding
<1>3. \A d \in Clients \ {c} : ClientInv(d)'
  <2> SUFFICES ASSUME NEW d \in Clients \ {c} PROVE ClientInv(d)'
    OBVIOUS
  <2> QED BY <1>0, <1>a, Frame
<1>4. ClientInv(c)'
  BY <1>0, <1>a DEF ClientInv, CallInv, SectorInv, DataInv
<1> QED BY <1>1, <1>2, <1>3, <1>4 DEF IndInv

(* A byte slice of length l, and one whose first k units are the view at at. *)
Slice(l) == [0..(l - 1) -> Val]
Shows(p, count, at) == \A x \in 0..(count - 1) : p[x] = View(at + x, passthrough)

(***************************************************************************)
(* A slice that shows the view keeps showing it when the view of what      *)
(* follows is copied behind what is there.                                 *)
(***************************************************************************)
LEMMA PrefixGrows ==
  ASSUME NEW l \in Nat, NEW p \in Slice(l), NEW start \in Nat, NEW k \in Nat,
         start + k <= l, NEW src \in Slice(k), NEW at \in Int,
         Shows(p, start, at), Shows(src, k, at + start)
  PROVE  /\ Overwrite(p, start, src) \in Slice(l)
         /\ Shows(Overwrite(p, start, src), start + k, at)
<1>1. DOMAIN p = 0..(l - 1) /\ DOMAIN src = 0..(k - 1)
  BY DEF Slice
<1>2. Overwrite(p, start, src) \in Slice(l)
  <2>1. ASSUME NEW x \in 0..(l - 1) PROVE p[x] \in Val
    BY DEF Slice
  <2>2. ASSUME NEW x \in 0..(k - 1) PROVE src[x] \in Val
    BY DEF Slice
  <2> QED BY <1>1, <2>1, <2>2 DEF Overwrite, Slice
<1>3. ASSUME NEW x \in 0..(start + k - 1)
      PROVE  Overwrite(p, start, src)[x] = View(at + x, passthrough)
  <2>1. x \in 0..(l - 1)
    OBVIOUS
  <2>2. CASE x < start
    <3>1. x - start \notin DOMAIN src /\ x \in 0..(start - 1)
      BY <2>2, <1>1
    <3>2. Overwrite(p, start, src)[x] = p[x]
      BY <2>1, <3>1, <1>1 DEF Overwrite
    <3> QED BY <3>1, <3>2 DEF Shows
  <2>3. CASE x >= start
    <3>1. x - start \in 0..(k - 1) /\ (at + start) + (x - start) = at + x
      BY <2>3
    <3>2. src[x - start] = View((at + start) + (x - start), passthrough)
      BY <3>1 DEF Shows
    <3>3. Overwrite(p, start, src)[x] = src[x - start]
      BY <2>1, <3>1, <1>1 DEF Overwrite
    <3> QED BY <3>1, <3>2, <3>3
  <2> QED BY <2>2, <2>3
<1> QED BY <1>2, <1>3 DEF Shows

(* What readAtInternal's loop does to dst, n and cur of call c when it has   *)
(* k more units, src.                                                       *)
Delivers(c, k, src) ==
  /\ dst'[c] = Overwrite(dst[c], n[c], src)
  /\ n'[c] = n[c] + k
  /\ cur'[c] = cur[c] + k
  /\ off'[c] = off[c] /\ len'[c] = len[c] /\ op'[c] = op[c] /\ bp'[c] = bp[c]
  /\ pc'[c] \in {"loop", "return"} /\ passthrough' = passthrough

(* Data that is copied behind what was delivered, and counted at once. *)
LEMMA DeliverMore ==
  ASSUME TypeOK, NEW c \in Clients, ClientInv(c), pc[c] = "loop",
         NEW k \in Nat, k <= len[c] - n[c], NEW src \in Slice(k),
         off[c] < 0 => k = 0, Shows(src, k, cur[c]), Delivers(c, k, src)
  PROVE  ClientInv(c)' /\ dst'[c] \in Slice(len[c])
<1>1. /\ off[c] \in Int /\ len[c] \in Nat /\ cur[c] \in Int /\ n[c] \in Nat
      /\ dst[c] \in Slice(len[c])
  BY TypeAt DEF Slice
<1>2. /\ cur[c] = off[c] + n[c] /\ n[c] <= len[c]
      /\ op[c] = "Read" => off[c] >= 0
      /\ off[c] < 0 => n[c] = 0
      /\ bp[c] = NoBuf
      /\ Shows(dst[c], n[c], off[c])
  BY DEF ClientInv, CallInv, SectorInv, DataInv, Shows
<1>3. n[c] + k <= len[c]
  BY <1>1
<1>4. /\ Overwrite(dst[c], n[c], src) \in Slice(len[c])
      /\ Shows(Overwrite(dst[c], n[c], src), n[c] + k, off[c])
  BY <1>1, <1>2, <1>3, PrefixGrows
<1>5. DataInv(c)'
  <2>1. pc'[c] # "put"
    BY DEF Delivers
  <2>2. Shows(dst'[c], n'[c], off'[c]) /\ passthrough' = passthrough
    BY <1>4 DEF Delivers
  <2> QED BY <2>1, <2>2 DEF DataInv, Shows
<1>6. CallInv(c)'
  <2>1. /\ n'[c] = n[c] + k /\ cur'[c] = cur[c] + k /\ off'[c] = off[c]
        /\ len'[c] = len[c] /\ op'[c] = op[c] /\ pc'[c] \in {"loop", "return"}
    BY DEF Delivers
  <2>2. n'[c] <= len'[c] /\ cur'[c] = off'[c] + n'[c]
    BY <1>1, <1>2, <1>3, <2>1
  <2>3. off'[c] < 0 => n'[c] = 0
    BY <1>1, <1>2, <2>1
  <2> QED BY <1>2, <2>1, <2>2, <2>3 DEF CallInv
<1>7. SectorInv(c)'
  BY <1>2 DEF SectorInv, Delivers
<1> QED BY <1>4, <1>5, <1>6, <1>7 DEF ClientInv, Delivers

(* The other calls keep their invariant when c touches no buffer but its own. *)
LEMMA Others ==
  ASSUME IndInv, NEW c \in Clients, passthrough' = passthrough,
         \A d \in Clients \ {c} :
            /\ pc'[d] = pc[d] /\ op'[d] = op[d] /\ off'[d] = off[d] /\ len'[d] = len[d]
            /\ cur'[d] = cur[d] /\ n'[d] = n[d] /\ dst'[d] = dst[d] /\ bp'[d] = bp[d],
         \A b \in Bufs : b # bp[c] => buf'[b] = buf[b]
  PROVE  \A d \in Clients \ {c} : ClientInv(d)'
<1> SUFFICES ASSUME NEW d \in Clients \ {c} PROVE ClientInv(d)'
  OBVIOUS
<1>1. ClientInv(d) /\ BufferExclusive /\ NoBuf \notin Bufs
  BY StreamAssumption DEF IndInv, PoolInv
<1>2. pc[d] \in {"decrypt", "copy"} => buf'[bp[d]] = buf[bp[d]]
  <2>1. SUFFICES ASSUME pc[d] \in {"decrypt", "copy"} PROVE bp[d] \in Bufs /\ bp[d] # bp[c]
    OBVIOUS
  <2>2. bp[d] \in Bufs
    BY <1>1, <2>1 DEF ClientInv, SectorInv
  <2> QED BY <1>1, <2>2 DEF BufferExclusive, Holding
<1> QED BY <1>1, <1>2, Frame

(* Zero-filling a reserved sector delivers the view. *)
LEMMA ZeroFillStep ==
  ASSUME IndInv, NEW c \in Clients, ZeroFill(c)
  PROVE  IndInv'
<1>0. TypeOK /\ PoolInv /\ ClientInv(c)
  BY DEF IndInv
<1> DEFINE k == ToDo(c)
           zeros == [x \in 0..(k - 1) |-> Zero]
<1>1. /\ off[c] \in Int /\ cur[c] \in Int /\ n[c] \in Nat /\ cur[c] = off[c] + n[c]
      /\ off[c] < 0 => n[c] = 0
  BY <1>0, TypeAt DEF ClientInv, CallInv
<1>2. cur[c] >= 0
  BY <1>1, NegativeNotReserved DEF ZeroFill, Sector
<1>3. k \in Nat /\ k <= len[c] - n[c] /\ InSector(c) + k <= SectorSize
  BY <1>0, ToDoBounds DEF ZeroFill
<1> HIDE DEF k
<1>4. zeros \in Slice(k)
  BY DEF Slice, Zero, Val
<1>5. Shows(zeros, k, cur[c])
  <2> SUFFICES ASSUME NEW x \in 0..(k - 1) PROVE View(cur[c] + x, passthrough) = Zero
    BY DEF Shows
  <2>1. x \in Nat /\ cur[c] \in Nat /\ GoMod(cur[c], SectorSize) + x < SectorSize
    BY <1>0, <1>1, <1>2, <1>3, TypeAt DEF InSector
  <2>2. (cur[c] + x) \div SectorSize = Sector(c)
    BY <2>1, SameSector DEF Sector
  <2> QED BY <2>2 DEF View, ZeroFill
<1>6. Delivers(c, k, zeros)
  BY <1>0 DEF Delivers, ZeroFill, TypeOK, args, shared, k
<1>7. off[c] < 0 => k = 0
  BY <1>1, <1>2
<1>8. ClientInv(c)' /\ dst'[c] \in Slice(len[c])
  BY <1>0, <1>3, <1>4, <1>5, <1>6, <1>7, DeliverMore DEF ZeroFill
<1>9. \A d \in Clients \ {c} : ClientInv(d)'
  BY <1>0, Others DEF ZeroFill, TypeOK, shared, args, pool
<1>10. TypeOK'
  <2>1. DOMAIN dst' = Clients /\ \A d \in Clients : dst'[d] \in [0..(len'[d] - 1) -> Val]
    BY <1>0, <1>8 DEF ZeroFill, TypeOK, Slice, args
  <2>2. n' \in [Clients -> Nat] /\ cur' \in [Clients -> Int]
    <3>1. n[c] + ToDo(c) \in Nat /\ cur[c] + ToDo(c) \in Int
      BY <1>1, <1>3 DEF k
    <3> QED BY <1>0, <3>1 DEF TypeOK, ZeroFill
  <2> QED BY <1>0, <2>1, <2>2 DEF TypeOK, ZeroFill, shared, pool, args
<1>11. PoolInv'
  BY <1>0 DEF PoolInv, BufferExclusive, Holding, ZeroFill, pool
<1> QED BY <1>8, <1>9, <1>10, <1>11 DEF IndInv

(* Reading a decrypted volume straight into dst delivers the view. *)
LEMMA ReadThroughStep ==
  ASSUME IndInv, NEW c \in Clients, ReadThrough(c)
  PROVE  IndInv'
<1>0. TypeOK /\ PoolInv /\ ClientInv(c)
  BY DEF IndInv
<1>1. /\ off[c] \in Int /\ cur[c] \in Int /\ n[c] \in Nat /\ cur[c] = off[c] + n[c]
      /\ off[c] < 0 => n[c] = 0
  BY <1>0, TypeAt DEF ClientInv, CallInv
<1>2. PICK k \in 0..ToDo(c), e \in {"nil", "eof", "io"} :
        /\ SourceReturns(cur[c], ToDo(c), k, e)
        /\ LET source == [x \in 0..(k - 1) |-> Raw(cur[c] + x)]
           IN  dst' = [dst EXCEPT ![c] = Overwrite(dst[c], n[c], source)]
        /\ n' = [n EXCEPT ![c] = n[c] + k]
        /\ cur' = [cur EXCEPT ![c] = cur[c] + k]
        /\ LET result == IF e = "nil" /\ k < ToDo(c) THEN "eof" ELSE e
           IN  /\ err' = [err EXCEPT ![c] = result]
               /\ pc' = [pc EXCEPT ![c] = IF result = "nil" THEN "loop" ELSE "return"]
  BY DEF ReadThrough
<1> DEFINE source == [x \in 0..(k - 1) |-> Raw(cur[c] + x)]
<1>3. /\ ToDo(c) \in Nat /\ ToDo(c) > 0 /\ ToDo(c) <= len[c] - n[c]
      /\ InSector(c) + ToDo(c) <= SectorSize
  BY <1>0, ToDoBounds DEF ReadThrough
<1>4. k \in Nat /\ k <= len[c] - n[c] /\ InSector(c) + k <= SectorSize
  BY <1>0, <1>1, <1>3, TypeAt
<1>5. cur[c] < 0 => k = 0
  BY <1>1, <1>2, <1>3 DEF SourceReturns, ReadsFully
<1>6. source \in Slice(k)
  BY <1>1 DEF Slice, Raw, Val
<1>7. Shows(source, k, cur[c])
  <2> SUFFICES ASSUME NEW x \in 0..(k - 1) PROVE View(cur[c] + x, passthrough) = Raw(cur[c] + x)
    BY DEF Shows
  <2>1. x \in Nat /\ cur[c] \in Nat /\ GoMod(cur[c], SectorSize) + x < SectorSize
    BY <1>0, <1>1, <1>4, <1>5, TypeAt DEF InSector
  <2>2. (cur[c] + x) \div SectorSize = Sector(c)
    BY <2>1, SameSector DEF Sector
  <2> QED BY <2>2 DEF View, ReadThrough
<1>8. Delivers(c, k, source)
  BY <1>0, <1>2 DEF Delivers, ReadThrough, TypeOK, args, shared
<1>9. off[c] < 0 => k = 0
  BY <1>1, <1>5
<1> HIDE DEF source
<1>10. ClientInv(c)' /\ dst'[c] \in Slice(len[c])
  BY <1>0, <1>4, <1>6, <1>7, <1>8, <1>9, DeliverMore DEF ReadThrough
<1>11. \A d \in Clients \ {c} : ClientInv(d)'
  BY <1>0, <1>2, Others DEF ReadThrough, TypeOK, shared, args, pool
<1>12. TypeOK'
  <2>1. DOMAIN dst' = Clients /\ \A d \in Clients : dst'[d] \in [0..(len'[d] - 1) -> Val]
    BY <1>0, <1>2, <1>10 DEF ReadThrough, TypeOK, Slice, args
  <2>2. /\ n' \in [Clients -> Nat] /\ cur' \in [Clients -> Int]
    BY <1>0, <1>1, <1>2, <1>4 DEF TypeOK
  <2>3. pc' \in [Clients -> {"idle", "loop", "fill", "decrypt", "copy", "put",
                            "return", "done", "panic"}]
    BY <1>0, <1>2 DEF TypeOK
  <2>4. err' \in [Clients -> Errors]
    BY <1>0, <1>2 DEF TypeOK, Errors
  <2> QED BY <1>0, <2>1, <2>2, <2>3, <2>4 DEF TypeOK, ReadThrough, shared, pool, args
<1>13. PoolInv'
  BY <1>0 DEF PoolInv, BufferExclusive, Holding, ReadThrough, pool
<1> QED BY <1>10, <1>11, <1>12, <1>13 DEF IndInv

(* Taking a buffer from the pool: it was nobody's. *)
LEMMA GetBufStep ==
  ASSUME IndInv, NEW c \in Clients, GetBuf(c)
  PROVE  IndInv'
<1>0. TypeOK /\ PoolInv /\ ClientInv(c) /\ NoBuf \notin Bufs
  BY StreamAssumption DEF IndInv
<1>1. PICK b \in free : bp' = [bp EXCEPT ![c] = b] /\ free' = free \ {b}
  BY DEF GetBuf
<1>2. b \in Bufs /\ b # NoBuf /\ bp[c] = NoBuf
  BY <1>0, <1>1 DEF TypeOK, GetBuf, NeedsSector, ClientInv, SectorInv
<1>3. TypeOK'
  BY <1>0, <1>1, <1>2 DEF TypeOK, GetBuf, shared, args
<1>4. PoolInv'
  <2>1. \A d \in Clients \ {c} : bp'[d] = bp[d] /\ bp[d] # b
    BY <1>0, <1>1, <1>2 DEF PoolInv, BufferExclusive, Holding, TypeOK
  <2>2. bp'[c] = b
    BY <1>0, <1>1 DEF TypeOK
  <2>3. BufferExclusive'
    BY <1>0, <1>1, <2>1, <2>2 DEF PoolInv, BufferExclusive, Holding
  <2>4. ASSUME NEW a \in Bufs \ free' PROVE \E d \in Clients : bp'[d] = a
    <3>1. CASE a = b
      BY <3>1, <2>2
    <3>2. CASE a # b
      <4>1. PICK d \in Clients : bp[d] = a
        BY <1>0, <1>1, <2>4, <3>2 DEF PoolInv
      <4>2. d # c
        BY <4>1, <1>0, <1>2, <2>4
      <4> QED BY <4>1, <4>2, <2>1
    <3> QED BY <3>1, <3>2
  <2> QED BY <2>3, <2>4 DEF PoolInv
<1>5. \A d \in Clients \ {c} : ClientInv(d)'
  BY <1>0, <1>1, Others DEF GetBuf, TypeOK, shared, args
<1>6. ClientInv(c)'
  <2>1. /\ pc'[c] = "fill" /\ op'[c] = op[c] /\ off'[c] = off[c] /\ len'[c] = len[c]
        /\ cur'[c] = cur[c] /\ n'[c] = n[c] /\ dst'[c] = dst[c] /\ bp'[c] = b
        /\ passthrough' = passthrough
    BY <1>0, <1>1 DEF GetBuf, TypeOK, args, shared
  <2>2. Remaining(c) > 0 /\ ~isReservedSector(Reserved, Sector(c)) /\ ~passthrough
    BY DEF GetBuf, NeedsSector
  <2>3. CallInv(c)'
    BY <1>0, <2>1 DEF ClientInv, CallInv
  <2>4. SectorInv(c)'
    BY <1>2, <2>1, <2>2 DEF SectorInv, Remaining, Sector
  <2>5. DataInv(c)'
    BY <1>0, <2>1 DEF ClientInv, DataInv
  <2> QED BY <2>3, <2>4, <2>5 DEF ClientInv
<1> QED BY <1>3, <1>4, <1>5, <1>6 DEF IndInv

(* The buffer holds the ciphertext of the call's sector. *)
LEMMA FillBufStep ==
  ASSUME IndInv, NEW c \in Clients, FillBuf(c)
  PROVE  IndInv'
<1>0. TypeOK /\ PoolInv /\ ClientInv(c)
  BY DEF IndInv
<1>1. /\ bp[c] \in Bufs /\ Remaining(c) > 0 /\ ~passthrough
      /\ ~isReservedSector(Reserved, Sector(c))
  BY <1>0 DEF FillBuf, ClientInv, SectorInv
<1>2. SrcOffset(c) = SourceOf(cur[c]) /\ SrcOffset(c) \in Int /\ SectorSize \in Nat \ {0}
  BY <1>0, TypeAt
<1>3. SrcOffset(c) >= 0
  BY <1>2 DEF FillBuf, SourceReturns, ReadsFully
<1> DEFINE raw == [x \in Slots |-> Raw(SrcOffset(c) + x)]
<1>4. raw \in [Slots -> Val]
  BY <1>2 DEF Slots, Raw, Val
<1>5. buf' = [buf EXCEPT ![bp[c]] = raw]
  BY DEF FillBuf
<1> HIDE DEF raw
<1>6. TypeOK'
  <2>1. buf' \in [Bufs -> [Slots -> Val]]
    BY <1>0, <1>1, <1>4, <1>5 DEF TypeOK
  <2> QED BY <1>0, <2>1 DEF TypeOK, FillBuf, shared, args
<1>7. PoolInv'
  BY <1>0 DEF PoolInv, BufferExclusive, Holding, FillBuf
<1>8. \A d \in Clients \ {c} : ClientInv(d)'
  <2>1. \A b \in Bufs : b # bp[c] => buf'[b] = buf[b]
    BY <1>0, <1>5 DEF TypeOK
  <2> QED BY <1>0, <2>1, Others DEF FillBuf, TypeOK, shared, args
<1>9. ClientInv(c)'
  <2>1. /\ pc'[c] = "decrypt" /\ op'[c] = op[c] /\ off'[c] = off[c] /\ len'[c] = len[c]
        /\ cur'[c] = cur[c] /\ n'[c] = n[c] /\ dst'[c] = dst[c] /\ bp'[c] = bp[c]
        /\ passthrough' = passthrough
    BY <1>0 DEF FillBuf, TypeOK, args, shared
  <2>2. \A x \in Slots : buf'[bp[c]][x] = Raw(SourceOf(cur[c]) + x)
    BY <1>0, <1>1, <1>2, <1>5 DEF TypeOK, raw
  <2>3. CallInv(c)'
    BY <1>0, <2>1 DEF ClientInv, CallInv
  <2>4. SectorInv(c)'
    BY <1>1, <1>2, <1>3, <2>1, <2>2 DEF SectorInv, Remaining, Sector
  <2>5. DataInv(c)'
    BY <1>0, <2>1 DEF ClientInv, DataInv
  <2> QED BY <2>3, <2>4, <2>5 DEF ClientInv
<1> QED BY <1>6, <1>7, <1>8, <1>9 DEF IndInv

(* Decrypting in place, with the number of the sector that was read. *)
LEMMA DecryptBufStep ==
  ASSUME IndInv, NEW c \in Clients, DecryptBuf(c)
  PROVE  IndInv'
<1>0. TypeOK /\ PoolInv /\ ClientInv(c)
  BY DEF IndInv
<1>1. /\ bp[c] \in Bufs /\ Remaining(c) > 0 /\ ~passthrough
      /\ ~isReservedSector(Reserved, Sector(c)) /\ SourceOf(cur[c]) >= 0
      /\ \A x \in Slots : buf[bp[c]][x] = Raw(SourceOf(cur[c]) + x)
  BY <1>0 DEF DecryptBuf, ClientInv, SectorInv
<1>2. SrcOffset(c) = SourceOf(cur[c]) /\ SrcOffset(c) \in Int /\ SectorSize \in Nat \ {0}
  BY <1>0, TypeAt
<1> DEFINE tweak == GoDiv(SourceOf(cur[c]), SectorSize)
           plain == [x \in Slots |-> DecryptUnit(buf[bp[c]][x], tweak)]
<1>3. tweak \in Int
  BY <1>2, GoDivMod
<1>4. buf' = [buf EXCEPT ![bp[c]] = plain]
  BY <1>2 DEF DecryptBuf
<1> HIDE DEF tweak
<1>5. \A x \in Slots : plain[x] = Dec(SourceOf(cur[c]) + x, tweak)
  <2> SUFFICES ASSUME NEW x \in Slots
               PROVE  DecryptUnit(buf[bp[c]][x], tweak) = Dec(SourceOf(cur[c]) + x, tweak)
    OBVIOUS
  <2>1. buf[bp[c]][x] = Raw(SourceOf(cur[c]) + x)
    BY <1>1
  <2>2. /\ Raw(SourceOf(cur[c]) + x).kind = "raw"
        /\ Raw(SourceOf(cur[c]) + x).unit = SourceOf(cur[c]) + x
    BY DEF Raw
  <2> QED BY <2>1, <2>2 DEF DecryptUnit
<1>6. plain \in [Slots -> Val]
  <2>1. ASSUME NEW x \in Slots PROVE Dec(SourceOf(cur[c]) + x, tweak) \in Val
    BY <1>2, <1>3 DEF Slots, Dec, Val
  <2> QED BY <1>5, <2>1
<1> HIDE DEF plain
<1>7. TypeOK'
  <2>1. buf' \in [Bufs -> [Slots -> Val]]
    BY <1>0, <1>1, <1>4, <1>6 DEF TypeOK
  <2> QED BY <1>0, <2>1 DEF TypeOK, DecryptBuf, shared, args
<1>8. PoolInv'
  BY <1>0 DEF PoolInv, BufferExclusive, Holding, DecryptBuf
<1>9. \A d \in Clients \ {c} : ClientInv(d)'
  <2>1. \A b \in Bufs : b # bp[c] => buf'[b] = buf[b]
    BY <1>0, <1>4 DEF TypeOK
  <2> QED BY <1>0, <2>1, Others DEF DecryptBuf, TypeOK, shared, args
<1>10. ClientInv(c)'
  <2>1. /\ pc'[c] = "copy" /\ op'[c] = op[c] /\ off'[c] = off[c] /\ len'[c] = len[c]
        /\ cur'[c] = cur[c] /\ n'[c] = n[c] /\ dst'[c] = dst[c] /\ bp'[c] = bp[c]
        /\ passthrough' = passthrough
    BY <1>0 DEF DecryptBuf, TypeOK, args, shared
  <2>2. \A x \in Slots : buf'[bp[c]][x] = Dec(SourceOf(cur[c]) + x, tweak)
    BY <1>0, <1>1, <1>4, <1>5 DEF TypeOK
  <2>3. CallInv(c)'
    BY <1>0, <2>1 DEF ClientInv, CallInv
  <2>4. SectorInv(c)'
    BY <1>1, <2>1, <2>2 DEF SectorInv, Remaining, Sector, tweak
  <2>5. DataInv(c)'
    BY <1>0, <2>1 DEF ClientInv, DataInv
  <2> QED BY <2>3, <2>4, <2>5 DEF ClientInv
<1> QED BY <1>7, <1>8, <1>9, <1>10 DEF IndInv

(* A call at a negative offset never gets past the copy. *)
LEMMA NegativeNotCopied ==
  ASSUME NEW a \in Int, a < 0, GoMod(a, SectorSize) >= 0
  PROVE  SourceOf(a) < 0
<1>1. SectorSize \in Nat \ {0}
  BY LayoutAssumption
<1> DEFINE q == GoDiv(a, SectorSize)
           r == GoMod(a, SectorSize)
<1>2. q \in Int /\ r \in Int /\ a = SectorSize * q + r /\ r <= 0
  BY <1>1, GoDivMod
<1>3. r = 0
  BY <1>2
<1> HIDE DEF q, r
<1>4. q < 0
  BY <1>1, <1>2, <1>3
<1>5. ~HeaderMapped(q)
  BY <1>2, <1>4 DEF HeaderMapped
<1> QED BY <1>3, <1>5 DEF SourceOf, q, r

(* Copying out the decrypted part: it is the view, though not yet counted. *)
LEMMA CopyOutStep ==
  ASSUME IndInv, NEW c \in Clients, CopyOut(c)
  PROVE  IndInv'
<1>0. TypeOK /\ PoolInv /\ ClientInv(c)
  BY DEF IndInv
<1>1. /\ bp[c] \in Bufs /\ Remaining(c) > 0 /\ ~passthrough
      /\ ~isReservedSector(Reserved, Sector(c)) /\ SourceOf(cur[c]) >= 0
      /\ \A x \in Slots : buf[bp[c]][x] = Dec(SourceOf(cur[c]) + x,
                                              GoDiv(SourceOf(cur[c]), SectorSize))
  BY <1>0 DEF CopyOut, ClientInv, SectorInv
<1>2. /\ off[c] \in Int /\ len[c] \in Nat /\ cur[c] \in Int /\ n[c] \in Nat
      /\ dst[c] \in Slice(len[c]) /\ SectorSize \in Nat \ {0} /\ InSector(c) \in Int
      /\ SourceOf(cur[c]) \in Int
  BY <1>0, TypeAt DEF Slice
<1>3. /\ n[c] <= len[c] /\ cur[c] = off[c] + n[c] /\ (op[c] = "Read" => off[c] >= 0)
      /\ off[c] < 0 => n[c] = 0
      /\ Shows(dst[c], n[c], off[c])
  BY <1>0 DEF ClientInv, CallInv, DataInv, Shows
<1> DEFINE k == ToDo(c)
           part == [x \in 0..(k - 1) |-> buf[bp[c]][InSector(c) + x]]
<1>4. k \in Nat /\ k <= len[c] - n[c] /\ InSector(c) + k <= SectorSize
  BY <1>0, <1>1, ToDoBounds
<1>5. InSector(c) >= 0
  BY DEF CopyOut
<1> HIDE DEF k
<1>6. \A x \in 0..(k - 1) : InSector(c) + x \in Slots
  BY <1>2, <1>4, <1>5 DEF Slots
<1>7. part \in Slice(k)
  BY <1>0, <1>1, <1>6 DEF TypeOK, Slice
<1>8. cur[c] >= 0
  BY <1>1, <1>2, <1>5, NegativeNotCopied DEF InSector
<1>9. Shows(part, k, cur[c])
  <2> SUFFICES ASSUME NEW x \in 0..(k - 1)
               PROVE  buf[bp[c]][InSector(c) + x] = View(cur[c] + x, passthrough)
    BY DEF Shows
  <2>1. x \in Nat /\ cur[c] \in Nat /\ GoMod(cur[c], SectorSize) + x < SectorSize
    BY <1>2, <1>4, <1>8 DEF InSector
  <2>2. View(cur[c] + x, passthrough) = Dec(SourceOf(cur[c]) + (InSector(c) + x),
                               GoDiv(SourceOf(cur[c]), SectorSize))
    BY <1>1, <2>1, ViewDecrypted DEF InSector, Sector
  <2> QED BY <1>1, <1>6, <2>2
<1>10. /\ Overwrite(dst[c], n[c], part) \in Slice(len[c])
       /\ Shows(Overwrite(dst[c], n[c], part), n[c] + k, off[c])
  <2>1. n[c] + k <= len[c]
    BY <1>2, <1>4
  <2> HIDE DEF part
  <2> QED BY <1>2, <1>3, <1>4, <1>7, <1>9, <2>1, PrefixGrows
<1>11. /\ pc'[c] = "put" /\ op'[c] = op[c] /\ off'[c] = off[c] /\ len'[c] = len[c]
       /\ cur'[c] = cur[c] /\ n'[c] = n[c] /\ bp'[c] = bp[c]
       /\ dst'[c] = Overwrite(dst[c], n[c], part) /\ passthrough' = passthrough
  BY <1>0 DEF CopyOut, TypeOK, args, shared, k
<1> HIDE DEF part
<1>12. TypeOK'
  <2>1. DOMAIN dst' = Clients /\ \A d \in Clients : dst'[d] \in [0..(len'[d] - 1) -> Val]
    BY <1>0, <1>10, <1>11 DEF CopyOut, TypeOK, Slice, args
  <2> QED BY <1>0, <2>1 DEF TypeOK, CopyOut, shared, pool, args
<1>13. PoolInv'
  BY <1>0 DEF PoolInv, BufferExclusive, Holding, CopyOut, pool
<1>14. \A d \in Clients \ {c} : ClientInv(d)'
  BY <1>0, Others DEF CopyOut, TypeOK, shared, args, pool
<1>15. ClientInv(c)'
  <2>1. CallInv(c)'
    <3>1. off[c] >= 0
      BY <1>2, <1>3, <1>8
    <3> QED BY <1>2, <1>3, <1>11, <3>1 DEF CallInv
  <2>2. SectorInv(c)'
    BY <1>1, <1>11 DEF SectorInv, Remaining, Sector
  <2>3. DataInv(c)'
    <3>1. ToDo(c)' = k
      BY <1>11 DEF ToDo, Remaining, InSector, k
    <3>2. \A x \in 0..(n'[c] + k - 1) : dst'[c][x] = View(off'[c] + x, passthrough)
      <4>1. \A x \in 0..((n[c] + k) - 1) : Overwrite(dst[c], n[c], part)[x] = View(off[c] + x, passthrough)
        BY <1>10 DEF Shows
      <4>2. ASSUME NEW x \in 0..(n'[c] + k - 1) PROVE dst'[c][x] = View(off'[c] + x, passthrough)
        <5>1. x \in 0..((n[c] + k) - 1)
          BY <4>2, <1>2, <1>4, <1>11
        <5>2. Overwrite(dst[c], n[c], part)[x] = View(off[c] + x, passthrough)
          BY <4>1, <5>1
        <5> QED BY <5>2, <1>11
      <4> QED BY <4>2
    <3>3. \A x \in 0..(n'[c] - 1) : dst'[c][x] = View(off'[c] + x, passthrough)
      BY <3>2, <1>2, <1>4, <1>11
    <3> QED BY <1>11, <3>1, <3>2, <3>3 DEF DataInv
  <2> QED BY <2>1, <2>2, <2>3 DEF ClientInv
<1> QED BY <1>12, <1>13, <1>14, <1>15 DEF IndInv

(* Putting the buffer back leaves it, blank, to whoever takes it next. *)
LEMMA PutBufPool ==
  ASSUME IndInv, NEW c \in Clients, bp[c] \in Bufs, PutBuf(c)
  PROVE  /\ PoolInv'
         /\ free' \subseteq Bufs /\ buf' \in [Bufs -> [Slots -> Val]]
         /\ bp' \in [Clients -> Bufs \union {NoBuf}] /\ bp'[c] = NoBuf
         /\ \A d \in Clients \ {c} : bp'[d] = bp[d]
         /\ \A b \in Bufs : b # bp[c] => buf'[b] = buf[b]
<1>0. TypeOK /\ PoolInv /\ NoBuf \notin Bufs
  BY StreamAssumption DEF IndInv
<1>1. AllJunk \in [Slots -> Val]
  BY DEF AllJunk, Val, Junk
<1>2. free' \subseteq Bufs /\ buf' \in [Bufs -> [Slots -> Val]]
  BY <1>0, <1>1 DEF TypeOK, PutBuf
<1>3. /\ bp' \in [Clients -> Bufs \union {NoBuf}] /\ bp'[c] = NoBuf
      /\ \A d \in Clients \ {c} : bp'[d] = bp[d]
      /\ \A b \in Bufs : b # bp[c] => buf'[b] = buf[b]
      /\ free' = free \union {bp[c]}
  BY <1>0 DEF TypeOK, PutBuf
<1>4. BufferExclusive'
  BY <1>0, <1>3 DEF PoolInv, BufferExclusive, Holding
<1>5. ASSUME NEW a \in Bufs \ free' PROVE \E d \in Clients : bp'[d] = a
  <2>1. PICK d \in Clients : bp[d] = a
    BY <1>0, <1>3, <1>5 DEF PoolInv
  <2>2. d # c
    BY <1>3, <1>5, <2>1
  <2> QED BY <1>3, <2>1, <2>2
<1> QED BY <1>2, <1>3, <1>4, <1>5 DEF PoolInv

(* A failed read of the sector: the call returns what it had. *)
LEMMA FillFailsStep ==
  ASSUME IndInv, NEW c \in Clients, FillFails(c)
  PROVE  IndInv'
<1>0. TypeOK /\ PoolInv /\ ClientInv(c)
  BY DEF IndInv
<1>1. bp[c] \in Bufs /\ PutBuf(c)
  BY <1>0 DEF FillFails, ClientInv, SectorInv
<1>2. PoolInv'
  BY <1>1, PutBufPool
<1>3. TypeOK'
  <2>1. PICK e \in {"eof", "io"} : err' = [err EXCEPT ![c] = e]
    BY DEF FillFails
  <2>2. err' \in [Clients -> Errors]
    BY <1>0, <2>1 DEF TypeOK, Errors
  <2>3. /\ free' \subseteq Bufs /\ buf' \in [Bufs -> [Slots -> Val]]
        /\ bp' \in [Clients -> Bufs \union {NoBuf}]
    BY <1>1, PutBufPool
  <2> QED BY <1>0, <2>2, <2>3 DEF TypeOK, FillFails, shared, args
<1>4. \A d \in Clients \ {c} : ClientInv(d)'
  <2>1. \A d \in Clients \ {c} :
            /\ pc'[d] = pc[d] /\ op'[d] = op[d] /\ off'[d] = off[d] /\ len'[d] = len[d]
            /\ cur'[d] = cur[d] /\ n'[d] = n[d] /\ dst'[d] = dst[d] /\ bp'[d] = bp[d]
    BY <1>0, <1>1, PutBufPool DEF FillFails, TypeOK, args
  <2>2. passthrough' = passthrough
    BY DEF FillFails, shared
  <2> QED BY <2>1, <2>2, <1>1, PutBufPool, Others
<1>5. ClientInv(c)'
  <2>1. /\ pc'[c] = "return" /\ op'[c] = op[c] /\ off'[c] = off[c] /\ len'[c] = len[c]
        /\ cur'[c] = cur[c] /\ n'[c] = n[c] /\ dst'[c] = dst[c] /\ bp'[c] = NoBuf
        /\ passthrough' = passthrough
    BY <1>0, <1>1, PutBufPool DEF FillFails, TypeOK, args, shared
  <2> QED BY <1>0, <2>1 DEF ClientInv, CallInv, SectorInv, DataInv
<1> QED BY <1>2, <1>3, <1>4, <1>5 DEF IndInv

(* The copied part is counted and the buffer goes back. *)
LEMMA NextSectorStep ==
  ASSUME IndInv, NEW c \in Clients, NextSector(c)
  PROVE  IndInv'
<1>0. TypeOK /\ PoolInv /\ ClientInv(c)
  BY DEF IndInv
<1>1. bp[c] \in Bufs /\ PutBuf(c) /\ Remaining(c) > 0
  BY <1>0 DEF NextSector, ClientInv, SectorInv
<1>2. PoolInv'
  BY <1>1, PutBufPool
<1>3. /\ ToDo(c) \in Nat /\ ToDo(c) <= len[c] - n[c] /\ n[c] \in Nat /\ cur[c] \in Int
      /\ len[c] \in Nat /\ off[c] \in Int
  BY <1>0, <1>1, ToDoBounds, TypeAt
<1>4. TypeOK'
  <2>1. n' \in [Clients -> Nat] /\ cur' \in [Clients -> Int]
    <3>1. n[c] + ToDo(c) \in Nat /\ cur[c] + ToDo(c) \in Int
      BY <1>3
    <3> QED BY <1>0, <3>1 DEF TypeOK, NextSector
  <2>2. /\ free' \subseteq Bufs /\ buf' \in [Bufs -> [Slots -> Val]]
        /\ bp' \in [Clients -> Bufs \union {NoBuf}]
    BY <1>1, PutBufPool
  <2> QED BY <1>0, <2>1, <2>2 DEF TypeOK, NextSector, shared, args
<1>5. \A d \in Clients \ {c} : ClientInv(d)'
  <2>1. \A d \in Clients \ {c} :
            /\ pc'[d] = pc[d] /\ op'[d] = op[d] /\ off'[d] = off[d] /\ len'[d] = len[d]
            /\ cur'[d] = cur[d] /\ n'[d] = n[d] /\ dst'[d] = dst[d] /\ bp'[d] = bp[d]
    BY <1>0, <1>1, PutBufPool DEF NextSector, TypeOK, args
  <2>2. passthrough' = passthrough
    BY DEF NextSector, shared
  <2> QED BY <2>1, <2>2, <1>1, PutBufPool, Others
<1>6. ClientInv(c)'
  <2>1. /\ pc'[c] = "loop" /\ op'[c] = op[c] /\ off'[c] = off[c] /\ len'[c] = len[c]
        /\ cur'[c] = cur[c] + ToDo(c) /\ n'[c] = n[c] + ToDo(c) /\ dst'[c] = dst[c]
        /\ bp'[c] = NoBuf
        /\ passthrough' = passthrough
    BY <1>0, <1>1, PutBufPool DEF NextSector, TypeOK, args, shared
  <2>2. /\ n[c] <= len[c] /\ cur[c] = off[c] + n[c] /\ (op[c] = "Read" => off[c] >= 0)
        /\ off[c] >= 0
        /\ Shows(dst[c], n[c] + ToDo(c), off[c])
    BY <1>0, <1>3 DEF NextSector, ClientInv, CallInv, DataInv, Shows
  <2>3. CallInv(c)'
    BY <1>3, <2>1, <2>2 DEF CallInv
  <2>4. SectorInv(c)'
    BY <2>1 DEF SectorInv
  <2>5. DataInv(c)'
    BY <2>1, <2>2 DEF DataInv, Shows
  <2> QED BY <2>3, <2>4, <2>5 DEF ClientInv
<1> QED BY <1>2, <1>4, <1>5, <1>6 DEF IndInv

(* Collecting a result, Seek and Close disturb no call in progress. *)
LEMMA CallerStep ==
  ASSUME IndInv, (\E c \in Clients : Collect(c)) \/ CallSeek \/ Close
  PROVE  IndInv'
<1>0. TypeOK /\ PoolInv /\ \A d \in Clients : ClientInv(d)
  BY DEF IndInv
<1>1. ASSUME NEW c \in Clients, Collect(c) PROVE IndInv'
  <2>1. Blank(0) \in [0..(0 - 1) -> Val]
    BY DEF Blank, Val, Junk
  <2>2. DOMAIN dst' = Clients /\ \A d \in Clients : dst'[d] \in [0..(len'[d] - 1) -> Val]
    <3>1. len' = [len EXCEPT ![c] = 0] /\ dst' = [dst EXCEPT ![c] = Blank(0)]
      BY <1>1 DEF Collect
    <3> QED BY <1>0, <2>1, <3>1 DEF TypeOK
  <2>3. TypeOK'
    BY <1>0, <1>1, <2>2 DEF TypeOK, Collect, shared, pool, Errors
  <2>4. PoolInv'
    BY <1>0, <1>1 DEF PoolInv, BufferExclusive, Holding, Collect, pool
  <2>5. \A d \in Clients \ {c} : ClientInv(d)'
    BY <1>0, <1>1, Others DEF Collect, TypeOK, pool, shared
  <2>6. /\ pc'[c] = "idle" /\ op'[c] = "ReadAt" /\ off'[c] = 0 /\ len'[c] = 0 /\ cur'[c] = 0
        /\ n'[c] = 0 /\ bp'[c] = bp[c] /\ bp[c] = NoBuf
    BY <1>0, <1>1 DEF Collect, TypeOK, ClientInv, SectorInv
  <2>7. ClientInv(c)'
    BY <2>6 DEF ClientInv, CallInv, SectorInv, DataInv
  <2> QED BY <2>3, <2>4, <2>5, <2>7 DEF IndInv
<1>2. ASSUME CallSeek \/ Close PROVE IndInv'
  <2>1. /\ pc' = pc /\ op' = op /\ off' = off /\ len' = len /\ cur' = cur /\ n' = n
        /\ dst' = dst /\ bp' = bp /\ err' = err /\ free' = free /\ buf' = buf
        /\ passthrough' = passthrough
    BY <1>2 DEF CallSeek, Seek, Close, pool, args
  <2>2. cipherSet' \in BOOLEAN
    BY <1>0, <1>2 DEF CallSeek, Seek, Close, TypeOK
  <2>3. offset' \in Nat
    <3>1. CASE Close
      BY <1>0, <3>1 DEF Close, TypeOK
    <3>2. CASE CallSeek
      <4>1. PICK whence \in {"SeekStart", "SeekCurrent", "SeekEnd"}, o \in Offsets : Seek(whence, o)
        BY <3>2 DEF CallSeek
      <4>2. o \in Int /\ offset \in Nat
        BY <1>0, StreamAssumption DEF TypeOK
      <4> QED BY <4>1, <4>2 DEF Seek
    <3> QED BY <1>2, <3>1, <3>2
  <2>4. TypeOK'
    BY <1>0, <2>1, <2>2, <2>3 DEF TypeOK
  <2>5. PoolInv'
    BY <1>0, <2>1 DEF PoolInv, BufferExclusive, Holding
  <2>6. ASSUME NEW d \in Clients PROVE ClientInv(d)'
    BY <1>0, <2>1, Frame
  <2> QED BY <2>4, <2>5, <2>6 DEF IndInv
<1> QED BY <1>1, <1>2

(* Every step of every client preserves the inductive invariant. *)
LEMMA NextIndInv ==
  ASSUME IndInv, Next
  PROVE  IndInv'
<1>1. ASSUME NEW c \in Clients, Step(c) PROVE IndInv'
  BY <1>1, ControlStep, ZeroFillStep, ReadThroughStep, GetBufStep, FillBufStep,
     FillFailsStep, DecryptBufStep, CopyOutStep, NextSectorStep DEF Step
<1>2. ASSUME NEW c \in Clients, CallReadAt(c) PROVE IndInv'
  <2>1. PICK at \in Offsets, l \in Lengths : Begin(c, "ReadAt", at, l)
    BY <1>2 DEF CallReadAt
  <2>2. at \in Int /\ l \in Nat
    BY StreamAssumption
  <2> QED BY <2>1, <2>2, BeginStep
<1>3. ASSUME NEW c \in Clients, CallRead(c) PROVE IndInv'
  <2>1. PICK l \in Lengths : Begin(c, "Read", offset, l)
    BY <1>3 DEF CallRead
  <2>2. offset \in Nat /\ l \in Nat
    BY StreamAssumption DEF IndInv, TypeOK
  <2> QED BY <2>1, <2>2, BeginStep
<1> QED BY <1>1, <1>2, <1>3, CallerStep DEF Next

(* The inductive invariant holds in every reachable state. *)
THEOREM Invariance == Spec => []IndInv
<1>1. IndInv /\ UNCHANGED vars => IndInv'
  BY DEF vars, IndInv, TypeOK, PoolInv, BufferExclusive, Holding, ClientInv, CallInv,
     SectorInv, DataInv, Remaining, Sector, InSector, ToDo
<1> QED BY InitIndInv, NextIndInv, <1>1, PTL DEF Spec

---------------------------------------------------------------------------
(***************************************************************************)
(* The variables of readAtInternal, the pool and the stream have their     *)
(* types in every reachable state.                                         *)
(***************************************************************************)
THEOREM TypeCorrect == Spec => []TypeOK
<1>1. IndInv => TypeOK
  BY DEF IndInv
<1> QED BY Invariance, <1>1, PTL

(***************************************************************************)
(* Concurrent readAtInternal calls never share a pooled buffer: no two of  *)
(* them hold the same one and none that is held is in sectorBufPool.       *)
(***************************************************************************)
THEOREM ExclusiveBuffers == Spec => []BufferExclusive
<1>1. IndInv => BufferExclusive
  BY DEF IndInv, PoolInv
<1> QED BY Invariance, <1>1, PTL

(***************************************************************************)
(* Whatever the interleaving of ReadAt, Read, Seek and Close, everything   *)
(* readAtInternal has delivered to a caller is the decrypted view.         *)
(***************************************************************************)
THEOREM DeliveryCorrect == Spec => []DeliveredIsView
<1>1. IndInv => DeliveredIsView
  BY DEF IndInv, ClientInv, DataInv, DeliveredIsView
<1> QED BY Invariance, <1>1, PTL

(***************************************************************************)
(* No return path of readAtInternal, the failing ones included, leaks its  *)
(* pooled buffer.                                                          *)
(***************************************************************************)
THEOREM BuffersReturned == Spec => []NoLeak
<1>1. IndInv => NoLeak
  <2> SUFFICES ASSUME IndInv PROVE NoLeak
    OBVIOUS
  <2>1. ASSUME NEW c \in Clients, Holding(c)
        PROVE  pc[c] \in {"fill", "decrypt", "copy", "put", "panic"}
    <3>1. SectorInv(c) /\ pc[c] \in {"idle", "loop", "fill", "decrypt", "copy", "put",
                                     "return", "done", "panic"}
      BY DEF IndInv, ClientInv, TypeOK
    <3> QED BY <2>1, <3>1 DEF SectorInv, Holding
  <2> QED BY <2>1 DEF IndInv, PoolInv, NoLeak
<1> QED BY Invariance, <1>1, PTL

(* Whoever may call Close is not between its check of the cipher and its use. *)
OwnerHasCipher == pc[Owner] \in {"fill", "decrypt"} => cipherSet

(***************************************************************************)
(* readAtInternal panics only if the call was given a negative offset or   *)
(* another goroutine has closed the stream (it stays closed).              *)
(***************************************************************************)
THEOREM PanicsExplained == Spec => []PanicHasCause
<1> DEFINE Inv == OwnerHasCipher /\ PanicHasCause
<1>1. Init => Inv
  BY StreamAssumption DEF Init, OwnerHasCipher, PanicHasCause
<1>2. IndInv /\ Inv /\ [Next]_vars => Inv'
  <2> SUFFICES ASSUME IndInv, OwnerHasCipher, PanicHasCause, [Next]_vars PROVE Inv'
    OBVIOUS
  <2>0. TypeOK /\ (\A c \in Clients : ClientInv(c)) /\ Owner \in Clients
    BY StreamAssumption DEF IndInv
  <2>1. cipherSet' => cipherSet
    BY ZenonT(40) DEF Next, vars, Step, CallReadAt, CallRead, Begin, LoopEnds, ZeroFill, ReadThrough,
       NoCipher, GetBuf, FillBuf, FillFails, DecryptBuf, DecryptPanics, CopyOut, CopyPanics,
       NextSector, Return, Collect, CallSeek, Seek, Close, shared
  <2>2. pc \in [Clients -> {"idle", "loop", "fill", "decrypt", "copy", "put",
                           "return", "done", "panic"}]
    BY <2>0 DEF TypeOK
  <2>3. ASSUME NEW c \in Clients, Step(c)
        PROVE  /\ \A a \in Clients \ {c} : pc'[a] = pc[a]
               /\ cipherSet' = cipherSet /\ off' = off
               /\ pc'[c] \in {"fill", "decrypt"} => SeesCipher(c) \/ pc[c] = "fill"
               /\ pc[c] # "panic"
               /\ pc'[c] # "panic" \/ DecryptPanics(c) \/ CopyPanics(c)
    BY <2>2, <2>3 DEF Step, LoopEnds, ZeroFill, ReadThrough, NoCipher, NeedsSector, GetBuf,
       FillBuf, FillFails, DecryptBuf, DecryptPanics, CopyOut, CopyPanics, NextSector, Return,
       shared, args
  <2>4. ASSUME NEW c \in Clients, CallReadAt(c) \/ CallRead(c) \/ Collect(c)
        PROVE  /\ \A a \in Clients \ {c} : pc'[a] = pc[a] /\ off'[a] = off[a]
               /\ cipherSet' = cipherSet /\ pc'[c] \in {"loop", "idle"}
    BY <2>0, <2>2, <2>4 DEF TypeOK, CallReadAt, CallRead, Begin, Collect, shared
  <2>5. ASSUME CallSeek \/ Close \/ UNCHANGED vars
        PROVE  /\ pc' = pc /\ off' = off
               /\ cipherSet' = cipherSet \/ pc[Owner] = "idle"
    BY <2>5 DEF CallSeek, Seek, Close, vars, args
  <2>6. OwnerHasCipher'
    <3>1. ASSUME NEW c \in Clients, Step(c) PROVE OwnerHasCipher'
      BY <2>0, <2>3, <3>1 DEF OwnerHasCipher, SeesCipher
    <3>2. ASSUME NEW c \in Clients, CallReadAt(c) \/ CallRead(c) \/ Collect(c)
          PROVE  OwnerHasCipher'
      BY <2>0, <2>4, <3>2 DEF OwnerHasCipher
    <3>3. ASSUME CallSeek \/ Close \/ UNCHANGED vars PROVE OwnerHasCipher'
      BY <2>5, <3>3 DEF OwnerHasCipher
    <3> QED BY <3>1, <3>2, <3>3 DEF Next
  <2>7. PanicHasCause'
    <3> SUFFICES ASSUME NEW d \in Clients, pc'[d] = "panic"
                 PROVE  off'[d] < 0 \/ (~cipherSet' /\ d # Owner)
      BY DEF PanicHasCause
    <3>1. CASE pc[d] = "panic"
      <4>1. off'[d] = off[d]
        BY <2>3, <2>4, <2>5, <3>1 DEF Next
      <4> QED BY <2>1, <3>1, <4>1 DEF PanicHasCause
    <3>2. CASE pc[d] # "panic"
      <4>1. DecryptPanics(d) \/ CopyPanics(d)
        BY <2>3, <2>4, <2>5, <3>2 DEF Next
      <4>2. CASE DecryptPanics(d)
        BY <2>0, <2>1, <4>2 DEF DecryptPanics, OwnerHasCipher
      <4>3. CASE CopyPanics(d)
        <5>1. /\ off[d] \in Int /\ n[d] \in Nat /\ cur[d] \in Int
              /\ (cur[d] >= 0 => InSector(d) >= 0) /\ InSector(d) \in Int
          BY <2>0, TypeAt
        <5>2. cur[d] = off[d] + n[d] /\ InSector(d) < 0 /\ off' = off
          BY <2>0, <4>3 DEF ClientInv, CallInv, CopyPanics, args
        <5> QED BY <5>1, <5>2
      <4> QED BY <4>1, <4>2, <4>3
    <3> QED BY <3>1, <3>2
  <2> QED BY <2>6, <2>7
<1>3. Inv => PanicHasCause
  OBVIOUS
<1> HIDE DEF Inv
<1> QED BY Invariance, <1>1, <1>2, <1>3, PTL DEF Spec

---------------------------------------------------------------------------
(* Where calls end. *)

(***************************************************************************)
(* When io.EOF means the end of the view: the source reports its end       *)
(* lazily; or no metadata starts behind the end of the source, and the     *)
(* volume is decrypted or its source does not end with a whole sector.     *)
(***************************************************************************)
EndIsTold ==
  \/ ~EagerEOF
  \/ /\ passthrough \/ DiskLen % SectorSize # 0
     /\ \A j \in 1..Len(Reserved) : Reserved[j].startSector * SectorSize < DiskLen

(* Behind a decrypted volume's last unreserved unit there is nothing. *)
LEMMA EndOfSource ==
  ASSUME EndIsTold, NEW a \in Nat, NEW want \in Nat \ {0}, NEW got \in Nat, got <= want,
         GoMod(a, SectorSize) + want <= SectorSize, passthrough,
         ~isReservedSector(Reserved, GoDiv(a, SectorSize)), SourceReturns(a, want, got, "eof")
  PROVE  ~Available(a + got, passthrough)
<1>1. SectorSize \in Nat \ {0} /\ DiskLen \in Nat /\ Reserved \in Seq(Region)
      /\ Separated(Reserved) /\ EagerEOF \in BOOLEAN
  BY LayoutAssumption, StreamAssumption
<1>2. PICK q \in Int, r \in Int : q = GoDiv(a, SectorSize) /\ r = GoMod(a, SectorSize)
                                  /\ r >= 0 /\ r < SectorSize /\ a = SectorSize * q + r /\ q >= 0
  <2>1. a \in Int /\ a >= 0
    OBVIOUS
  <2>2. GoDiv(a, SectorSize) \in Int /\ GoMod(a, SectorSize) \in 0..(SectorSize - 1)
        /\ a = SectorSize * GoDiv(a, SectorSize) + GoMod(a, SectorSize) /\ GoDiv(a, SectorSize) >= 0
    BY <1>1, <2>1, GoDivMod
  <2>3. PICK q \in Int, r \in 0..(SectorSize - 1) : q = GoDiv(a, SectorSize) /\ r = GoMod(a, SectorSize)
    BY <2>2
  <2>4. r \in Int /\ r >= 0 /\ r < SectorSize
    BY <1>1
  <2> QED BY <2>2, <2>3, <2>4
<1>3. a + got >= DiskLen
  BY <1>1 DEF SourceReturns, ReadsFully
<1>4. ~isReservedSector(Reserved, (a + got) \div SectorSize)
  <2>1. CASE r + got < SectorSize
    <3>1. GoMod(a, SectorSize) + got < SectorSize
      BY <1>2, <2>1
    <3> QED BY <3>1, SameSector
  <2>2. CASE ~(r + got < SectorSize)
    <3>1. r + got = SectorSize /\ got = want
      BY <1>1, <1>2, <2>2, SMTT(30)
    <3>2. EagerEOF /\ a + want = DiskLen
      BY <1>1, <3>1 DEF SourceReturns, ReadsFully
    <3>3. a + got = SectorSize * (q + 1) + 0
      <4>1. SectorSize * (q + 1) = SectorSize * q + SectorSize /\ SectorSize * q \in Int
        BY <1>1
      <4> QED BY <1>1, <1>2, <3>1, <4>1
    <3>4. (a + got) \div SectorSize = q + 1
      <4>1. 0 \in 0..(SectorSize - 1) /\ q + 1 \in Int
        BY <1>1
      <4>2. (SectorSize * (q + 1) + 0) \div SectorSize = q + 1
        BY <1>1, <4>1, DivUnique
      <4> QED BY <3>3, <4>2
    <3>5. ~CoveredBy(Reserved, q + 1)
      <4> SUFFICES ASSUME NEW j \in 1..Len(Reserved), InRegion(Reserved[j], q + 1) PROVE FALSE
        BY DEF CoveredBy
      <4>1. PICK s \in Int : s = Reserved[j].startSector
        BY <1>1, RegionTypes
      <4>2. s * SectorSize < DiskLen
        BY <3>2, <4>1 DEF EndIsTold
      <4>3. DiskLen = SectorSize * (q + 1)
        BY <1>1, <3>1, <3>2, <3>3
      <4>4. s < q + 1
        <5> SUFFICES ASSUME s >= q + 1 PROVE FALSE
          BY <1>2
        <5>1. PICK w \in Nat : s = q + 1 + w
          <6>1. s - (q + 1) \in Nat /\ s = q + 1 + (s - (q + 1))
            OBVIOUS
          <6> QED BY <6>1
        <5>2. s * SectorSize = SectorSize * (q + 1) + w * SectorSize /\ w * SectorSize >= 0
          BY <1>1, <5>1
        <5> QED BY <1>1, <4>2, <4>3, <5>2
      <4>5. InRegion(Reserved[j], q)
        <5>1. Reserved[j].endSector \in Int
          BY <1>1, RegionTypes
        <5> QED BY <4>1, <4>4, <5>1 DEF InRegion
      <4>6. CoveredBy(Reserved, q)
        BY <4>5 DEF CoveredBy
      <4> QED BY <1>1, <1>2, <4>6, LookupIsMembership
    <3> QED BY <1>1, <3>4, <3>5, LookupIsMembership
  <2> QED BY <2>1, <2>2
<1>5. ~(a + got < DiskLen)
  BY <1>1, <1>3
<1> QED BY <1>4, <1>5 DEF Available

(* An encrypted sector whose read ends with io.EOF is not in the view. *)
LEMMA EndOfSectors ==
  ASSUME EndIsTold, NEW a \in Nat, NEW got \in Nat, ~passthrough,
         ~isReservedSector(Reserved, GoDiv(a, SectorSize)),
         SourceReturns(SourceOf(a), SectorSize, got, "eof")
  PROVE  ~Available(a, passthrough)
<1>1. SectorSize \in Nat \ {0} /\ DiskLen \in Nat /\ EagerEOF \in BOOLEAN
  BY LayoutAssumption, StreamAssumption
<1>2. GoMod(a, SectorSize) + 0 < SectorSize /\ a + 0 = a
  <2>1. a \in Int /\ a >= 0
    OBVIOUS
  <2>2. GoMod(a, SectorSize) \in 0..(SectorSize - 1)
    BY <1>1, <2>1, GoDivMod
  <2>3. PICK r \in 0..(SectorSize - 1) : r = GoMod(a, SectorSize)
    BY <2>2
  <2>4. r + 0 < SectorSize
    BY <1>1
  <2> QED BY <2>3, <2>4
<1>3. a \div SectorSize = GoDiv(a, SectorSize)
      /\ \E t \in Nat : SourceOf(a) = SectorSize * t /\ Physical(a) \div SectorSize = t
  <2>1. 0 \in Nat
    OBVIOUS
  <2>2. /\ (a + 0) \div SectorSize = GoDiv(a, SectorSize)
        /\ \E t \in Nat : /\ SourceOf(a) = SectorSize * t
                          /\ Physical(a + 0) \div SectorSize = t
    BY <1>2, <2>1, PhysicalSector
  <2> QED BY <1>2, <2>2
<1>4. PICK t \in Nat : SourceOf(a) = SectorSize * t /\ Physical(a) \div SectorSize = t
  BY <1>3
<1>5. PICK p \in Int : p = SourceOf(a)
  BY SourceOfType
<1>6. (t + 1) * SectorSize = p + SectorSize
  BY <1>1, <1>4, <1>5
<1>7. ~ReadsFully(p, SectorSize) /\ p >= 0
  <2>1. CASE ~EagerEOF
    BY <1>1, <1>5, <2>1 DEF SourceReturns
  <2>2. CASE EagerEOF
    <3>1. DiskLen % SectorSize # 0
      BY <2>2 DEF EndIsTold
    <3>2. p + SectorSize # DiskLen
      <4> SUFFICES ASSUME DiskLen = SectorSize * (t + 1) + 0 PROVE FALSE
        BY <1>1, <1>6
      <4>1. 0 \in 0..(SectorSize - 1) /\ t + 1 \in Int
        BY <1>1
      <4>2. DiskLen \div SectorSize = t + 1
        BY <1>1, <4>1, DivUnique
      <4>3. DiskLen % SectorSize = DiskLen - SectorSize * (t + 1)
        <5>1. DiskLen \in Int
          BY <1>1
        <5> QED BY <1>1, <4>2, <5>1, DivMod
      <4>4. PICK w \in Int : w = SectorSize * (t + 1)
        BY <1>1
      <4> QED BY <3>1, <4>3, <4>4
    <3> QED BY <1>1, <1>5, <2>2, <3>2 DEF SourceReturns, ReadsFully
  <2> QED BY <1>1, <2>1, <2>2
<1>8. ~((t + 1) * SectorSize <= DiskLen)
  BY <1>1, <1>6, <1>7 DEF ReadsFully
<1> QED BY <1>3, <1>4, <1>8 DEF Available

(* How a call may come to return. *)
Outcome(c) ==
  \/ err[c] = "nil" /\ n[c] = len[c]
  \/ /\ err[c] = "eof" /\ (n[c] > 0 \/ n[c] < len[c])
     /\ n[c] < len[c] /\ off[c] >= 0 => ~Available(off[c] + n[c], passthrough)
  \/ err[c] = "io" /\ n[c] < len[c] /\ (SourceFaults \/ off[c] < 0)
  \/ err[c] = "uninitialized" /\ n[c] < len[c] /\ ~cipherSet

(***************************************************************************)
(* What a call knows about its end: no error before it returns, then one   *)
(* of the outcomes; and a Read, which only the owner calls, still starts   *)
(* at the stream's offset.                                                 *)
(***************************************************************************)
EndInv(c) ==
  /\ pc[c] \in {"loop", "fill", "decrypt", "copy", "put"} => err[c] = "nil"
  /\ pc[c] = "return" => Outcome(c)
  /\ op[c] = "Read" => c = Owner /\ (pc[c] \notin {"done", "panic"} => offset = off[c])
  /\ pc[c] = "idle" => op[c] = "ReadAt"
  /\ pc[c] = "done" /\ off[c] >= 0 /\ err[c] \in {"nil", "eof"} /\ n[c] < len[c] =>
       ~Available(off[c] + n[c], passthrough)

EndsKnown == \A c \in Clients : EndInv(c)

(* A call's knowledge of its end survives the steps of others. *)
LEMMA EndFrame ==
  ASSUME NEW d \in Clients, EndInv(d),
         pc'[d] = pc[d], op'[d] = op[d], off'[d] = off[d], len'[d] = len[d],
         n'[d] = n[d], err'[d] = err[d], cipherSet' => cipherSet, passthrough' = passthrough,
         offset' = offset \/ op[d] # "Read"
  PROVE  EndInv(d)'
<1>1. pc[d] = "return" => Outcome(d)'
  BY DEF EndInv, Outcome
<1> QED BY <1>1 DEF EndInv

(* What a step of one call leaves alone. *)
LEMMA StepFrame ==
  ASSUME TypeOK, NEW c \in Clients, EndInv(c), Step(c)
  PROVE  /\ \A d \in Clients \ {c} :
              /\ pc'[d] = pc[d] /\ op'[d] = op[d] /\ off'[d] = off[d] /\ len'[d] = len[d]
              /\ n'[d] = n[d] /\ err'[d] = err[d]
         /\ op' = op /\ off' = off /\ len' = len /\ cipherSet' = cipherSet /\ passthrough' = passthrough
         /\ offset' = offset \/ (Return(c) /\ c = Owner)
<1>0. /\ pc \in [Clients -> {"idle", "loop", "fill", "decrypt", "copy", "put",
                         "return", "done", "panic"}]
      /\ n \in [Clients -> Nat] /\ err \in [Clients -> Errors]
  BY DEF TypeOK
<1>1. CASE LoopEnds(c) \/ NoCipher(c) \/ GetBuf(c) \/ FillBuf(c) \/ FillFails(c) \/ DecryptBuf(c)
           \/ DecryptPanics(c) \/ CopyOut(c) \/ CopyPanics(c)
  BY <1>0, <1>1 DEF LoopEnds, NoCipher, GetBuf, FillBuf, FillFails, DecryptBuf, DecryptPanics,
     CopyOut, CopyPanics, shared, args
<1>2. CASE ZeroFill(c) \/ ReadThrough(c) \/ NextSector(c)
  BY <1>0, <1>2 DEF ZeroFill, ReadThrough, NextSector, shared, args
<1>3. CASE Return(c)
  <2>1. op[c] = "Read" => c = Owner
    BY DEF EndInv
  <2> QED BY <1>0, <1>3, <2>1 DEF Return, args
<1> QED BY <1>1, <1>2, <1>3 DEF Step

(* Only a full delivery ends the loop without an error. *)
LEMMA LoopEndsEnds ==
  ASSUME IndInv, NEW c \in Clients, EndInv(c), LoopEnds(c)
  PROVE  EndInv(c)'
<1>1. n[c] \in Nat /\ len[c] \in Nat
  BY TypeAt DEF IndInv
<1>2. /\ pc'[c] = "return" /\ err'[c] = "nil" /\ n'[c] = n[c] /\ len'[c] = len[c]
      /\ op'[c] = op[c] /\ off'[c] = off[c] /\ offset' = offset /\ len[c] - n[c] = 0
      /\ pc[c] = "loop"
  BY DEF IndInv, TypeOK, LoopEnds, EndInv, Remaining, shared, args
<1>3. Outcome(c)'
  BY <1>1, <1>2 DEF Outcome
<1> QED BY <1>2, <1>3 DEF EndInv

(* Steps inside an iteration. *)
LEMMA InnerEnds ==
  ASSUME IndInv, NEW c \in Clients, EndInv(c),
         \/ ZeroFill(c) \/ GetBuf(c) \/ FillBuf(c) \/ DecryptBuf(c) \/ DecryptPanics(c)
         \/ CopyOut(c) \/ CopyPanics(c) \/ NextSector(c)
  PROVE  EndInv(c)'
<1>1. /\ pc[c] \in {"loop", "fill", "decrypt", "copy", "put"}
      /\ pc'[c] \in {"loop", "fill", "decrypt", "copy", "put", "panic"}
      /\ err'[c] = err[c] /\ op'[c] = op[c] /\ off'[c] = off[c] /\ offset' = offset
  BY DEF IndInv, TypeOK, ZeroFill, GetBuf, NeedsSector, FillBuf, DecryptBuf, DecryptPanics,
     CopyOut, CopyPanics, NextSector, shared, args
<1> QED BY <1>1 DEF EndInv

(* A closed stream: the call ends with an error. *)
LEMMA NoCipherEnds ==
  ASSUME IndInv, NEW c \in Clients, EndInv(c), NoCipher(c)
  PROVE  EndInv(c)'
<1>1. n[c] \in Nat /\ len[c] \in Nat
  BY TypeAt DEF IndInv
<1>2. /\ pc'[c] = "return" /\ err'[c] = "uninitialized" /\ n'[c] = n[c] /\ len'[c] = len[c]
      /\ op'[c] = op[c] /\ off'[c] = off[c] /\ offset' = offset /\ len[c] - n[c] > 0
      /\ pc[c] = "loop" /\ ~cipherSet /\ cipherSet' = cipherSet /\ passthrough' = passthrough
  BY DEF IndInv, TypeOK, NoCipher, NeedsSector, EndInv, Remaining, shared, args
<1>3. Outcome(c)'
  BY <1>1, <1>2 DEF Outcome
<1> QED BY <1>2, <1>3 DEF EndInv

(* A sector that cannot be read whole ends the call where the view ends, or with an error. *)
LEMMA FillFailsEnds ==
  ASSUME EndIsTold, IndInv, NEW c \in Clients, EndInv(c), FillFails(c)
  PROVE  EndInv(c)'
<1>1. /\ n[c] \in Nat /\ len[c] \in Nat /\ off[c] \in Int /\ cur[c] \in Int
      /\ SectorSize \in Nat \ {0} /\ SrcOffset(c) = SourceOf(cur[c]) /\ SrcOffset(c) \in Int
  BY TypeAt DEF IndInv
<1>2. ClientInv(c)
  BY DEF IndInv
<1>3. /\ pc[c] = "fill" /\ pc'[c] = "return" /\ n'[c] = n[c] /\ len'[c] = len[c]
      /\ op'[c] = op[c] /\ off'[c] = off[c] /\ offset' = offset /\ cipherSet' = cipherSet /\ passthrough' = passthrough
  BY DEF IndInv, TypeOK, FillFails, shared, args
<1>4. PICK got \in 0..SectorSize, e \in {"eof", "io"} :
         SourceReturns(SourceOf(cur[c]), SectorSize, got, e) /\ err'[c] = e
  BY <1>1 DEF IndInv, TypeOK, FillFails
<1>5. /\ len[c] - n[c] > 0 /\ ~passthrough /\ cur[c] = off[c] + n[c]
      /\ ~isReservedSector(Reserved, GoDiv(cur[c], SectorSize))
  BY <1>2, <1>3 DEF ClientInv, CallInv, SectorInv, Remaining, Sector
<1>6. n[c] < len[c]
  BY <1>1, <1>5
<1>7. Outcome(c)'
  <2>1. CASE e = "eof"
    <3>1. off[c] >= 0 => ~Available(off[c] + n[c], passthrough)
      <4> SUFFICES ASSUME off[c] >= 0 PROVE ~Available(cur[c], passthrough)
        BY <1>5
      <4>1. cur[c] \in Nat /\ got \in Nat
        BY <1>1, <1>5
      <4> QED BY <1>4, <1>5, <2>1, <4>1, EndOfSectors
    <3> QED BY <1>3, <1>4, <1>6, <2>1, <3>1 DEF Outcome
  <2>2. CASE e = "io"
    <3>1. SourceFaults \/ SourceOf(cur[c]) < 0
      BY <1>4, <2>2 DEF SourceReturns
    <3>2. off[c] >= 0 => SourceOf(cur[c]) >= 0
      <4> SUFFICES ASSUME off[c] >= 0 PROVE SourceOf(cur[c]) >= 0
        OBVIOUS
      <4>1. cur[c] \in Nat /\ cur[c] \in Int /\ cur[c] >= 0
        BY <1>1, <1>5
      <4>2. GoMod(cur[c], SectorSize) \in 0..(SectorSize - 1)
        BY <1>1, <4>1, GoDivMod
      <4>3. PICK r \in 0..(SectorSize - 1) : r = GoMod(cur[c], SectorSize)
        BY <4>2
      <4>4. r + 0 < SectorSize /\ 0 \in Nat
        BY <1>1
      <4>5. \E t \in Nat : SourceOf(cur[c]) = SectorSize * t
        BY <4>1, <4>3, <4>4, PhysicalSector
      <4>6. \A t \in Nat : SectorSize * t >= 0
        BY <1>1
      <4> QED BY <4>5, <4>6
    <3>3. SourceFaults \/ off[c] < 0
      BY <1>1, <3>1, <3>2
    <3> QED BY <1>3, <1>4, <1>6, <2>2, <3>3 DEF Outcome
  <2> QED BY <2>1, <2>2
<1> QED BY <1>3, <1>7 DEF EndInv

(* A read of a decrypted volume that stops short stops where the view ends, or with an error. *)
LEMMA ReadThroughEnds ==
  ASSUME EndIsTold, IndInv, NEW c \in Clients, EndInv(c), ReadThrough(c)
  PROVE  EndInv(c)'
<1>0. TypeOK /\ ClientInv(c)
  BY DEF IndInv
<1>1. /\ n[c] \in Nat /\ len[c] \in Nat /\ off[c] \in Int /\ cur[c] \in Int
      /\ SectorSize \in Nat \ {0}
  BY <1>0, TypeAt
<1>2. /\ pc[c] = "loop" /\ len'[c] = len[c] /\ passthrough /\ Remaining(c) > 0
      /\ op'[c] = op[c] /\ off'[c] = off[c] /\ offset' = offset /\ cipherSet' = cipherSet /\ passthrough' = passthrough
      /\ ~isReservedSector(Reserved, GoDiv(cur[c], SectorSize))
  BY DEF ReadThrough, shared, args, Sector
<1>3. PICK want \in Nat \ {0} : /\ want = ToDo(c) /\ want <= len[c] - n[c]
                                /\ InSector(c) + want <= SectorSize
  BY <1>0, <1>2, ToDoBounds
<1>4. PICK got \in 0..want, e \in {"nil", "eof", "io"} :
        /\ SourceReturns(cur[c], want, got, e) /\ n'[c] = n[c] + got
        /\ err'[c] = (IF e = "nil" /\ got < want THEN "eof" ELSE e)
        /\ pc'[c] = (IF err'[c] = "nil" THEN "loop" ELSE "return")
  BY <1>0, <1>3 DEF ReadThrough, TypeOK
<1>5. got \in Nat /\ got <= want /\ ~(e = "nil" /\ got < want)
  BY <1>3, <1>4 DEF SourceReturns
<1>6. err'[c] = e /\ pc'[c] = IF e = "nil" THEN "loop" ELSE "return"
  BY <1>4, <1>5
<1>7. cur[c] = off[c] + n[c]
  BY <1>0 DEF ClientInv, CallInv
<1>8. e # "nil" => Outcome(c)'
  <2>1. CASE e = "eof"
    <3>1. cur[c] >= 0
      BY <1>4, <2>1 DEF SourceReturns, ReadsFully
    <3>2. ~Available(cur[c] + got, passthrough)
      <4>1. cur[c] \in Nat /\ GoMod(cur[c], SectorSize) + want <= SectorSize
        BY <1>1, <1>3, <3>1 DEF InSector
      <4> QED BY <1>2, <1>3, <1>4, <1>5, <2>1, <4>1, EndOfSource
    <3>3. off[c] + (n[c] + got) = cur[c] + got
      BY <1>1, <1>5, <1>7
    <3>4. n[c] + got > 0 \/ n[c] + got < len[c]
      BY <1>1, <1>3, <1>5
    <3> QED BY <1>2, <1>4, <1>6, <2>1, <3>2, <3>3, <3>4 DEF Outcome
  <2>2. CASE e = "io"
    <3>1. got < want /\ (SourceFaults \/ cur[c] < 0)
      BY <1>3, <1>4, <2>2 DEF SourceReturns
    <3>2. n[c] + got < len[c] /\ (SourceFaults \/ off[c] < 0)
      BY <1>1, <1>3, <1>5, <1>7, <3>1
    <3> QED BY <1>2, <1>4, <1>6, <2>2, <3>2 DEF Outcome
  <2> QED BY <2>1, <2>2
<1> QED BY <1>2, <1>6, <1>8 DEF EndInv

(* Read and ReadAt hide io.EOF behind data, and only where the view ends. *)
LEMMA ReturnEnds ==
  ASSUME IndInv, NEW c \in Clients, EndInv(c), Return(c)
  PROVE  EndInv(c)'
<1>0. TypeOK /\ Outcome(c)
  BY DEF IndInv, Return, EndInv
<1>1. n[c] \in Nat /\ len[c] \in Nat
  BY <1>0, TypeAt
<1>2. /\ pc'[c] = "done" /\ n'[c] = n[c] /\ len'[c] = len[c] /\ op'[c] = op[c] /\ off'[c] = off[c]
      /\ err'[c] = (IF n[c] > 0 /\ err[c] = "eof" THEN "nil" ELSE err[c]) /\ passthrough' = passthrough
  BY <1>0 DEF TypeOK, Return, args
<1>3. off[c] >= 0 /\ err'[c] \in {"nil", "eof"} /\ n[c] < len[c] => ~Available(off[c] + n[c], passthrough)
  BY <1>0, <1>1, <1>2 DEF Outcome
<1> QED BY <1>2, <1>3 DEF EndInv

(* EndInv is inductive. *)
LEMMA NextEndInv ==
  ASSUME EndIsTold, IndInv, EndsKnown, [Next]_vars
  PROVE  EndsKnown'
<1>0. TypeOK /\ Owner \in Clients /\ \A c \in Clients : EndInv(c)
  BY StreamAssumption DEF IndInv, EndsKnown
<1>1. ASSUME NEW c \in Clients, Step(c) PROVE \A d \in Clients : EndInv(d)'
  <2>1. EndInv(c)'
    BY <1>0, <1>1, LoopEndsEnds, InnerEnds, NoCipherEnds, FillFailsEnds, ReadThroughEnds, ReturnEnds
       DEF Step
  <2>2. ASSUME NEW d \in Clients \ {c} PROVE EndInv(d)'
    <3>1. /\ pc'[d] = pc[d] /\ op'[d] = op[d] /\ off'[d] = off[d] /\ len'[d] = len[d]
          /\ n'[d] = n[d] /\ err'[d] = err[d] /\ cipherSet' = cipherSet /\ passthrough' = passthrough
          /\ offset' = offset \/ (Return(c) /\ c = Owner)
      BY <1>0, <1>1, StepFrame
    <3>2. op[d] = "Read" => d = Owner
      BY <1>0 DEF EndInv
    <3> QED BY <1>0, <3>1, <3>2, EndFrame
  <2> QED BY <2>1, <2>2
<1>2. ASSUME NEW c \in Clients, CallReadAt(c) \/ CallRead(c) \/ Collect(c)
      PROVE  \A d \in Clients : EndInv(d)'
  <2>1. ASSUME NEW d \in Clients \ {c} PROVE EndInv(d)'
    <3>1. /\ pc'[d] = pc[d] /\ op'[d] = op[d] /\ off'[d] = off[d] /\ len'[d] = len[d]
          /\ n'[d] = n[d] /\ err'[d] = err[d] /\ cipherSet' = cipherSet /\ passthrough' = passthrough /\ offset' = offset
      BY <1>0, <1>2 DEF TypeOK, CallReadAt, CallRead, Begin, Collect, shared
    <3> QED BY <1>0, <3>1, EndFrame
  <2>2. CASE Collect(c)
    <3>1. pc'[c] = "idle" /\ op'[c] = "ReadAt"
      BY <1>0, <2>2 DEF TypeOK, Collect
    <3> QED BY <2>1, <3>1 DEF EndInv
  <2>3. CASE CallReadAt(c)
    <3>1. pc'[c] = "loop" /\ op'[c] = "ReadAt" /\ err'[c] = "nil"
      BY <1>0, <2>3 DEF TypeOK, CallReadAt, Begin
    <3>2. EndInv(c)'
      BY <3>1 DEF EndInv
    <3> QED BY <2>1, <3>2
  <2>4. CASE CallRead(c)
    <3>1. pc'[c] = "loop" /\ c = Owner /\ err'[c] = "nil" /\ off'[c] = offset /\ offset' = offset
      BY <1>0, <2>4 DEF TypeOK, CallRead, Begin, shared
    <3>2. EndInv(c)'
      BY <3>1 DEF EndInv
    <3> QED BY <2>1, <3>2
  <2> QED BY <1>2, <2>2, <2>3, <2>4
<1>3. ASSUME CallSeek \/ Close \/ UNCHANGED vars PROVE \A d \in Clients : EndInv(d)'
  <2>1. /\ pc' = pc /\ op' = op /\ off' = off /\ len' = len /\ n' = n /\ err' = err
        /\ cipherSet' => cipherSet
        /\ passthrough' = passthrough
        /\ offset' = offset \/ pc[Owner] = "idle"
    BY <1>3 DEF CallSeek, Seek, Close, vars, args
  <2>2. ASSUME NEW d \in Clients PROVE EndInv(d)'
    <3>1. offset' = offset \/ op[d] # "Read"
      BY <1>0, <2>1 DEF EndInv
    <3> QED BY <1>0, <2>1, <3>1, EndFrame
  <2> QED BY <2>2
<1> QED BY <1>1, <1>2, <1>3 DEF Next, EndsKnown

(* The calls know how they end in every reachable state. *)
THEOREM EndsAreKnown == Spec /\ []EndIsTold => []EndsKnown
<1>1. Init => EndsKnown
  BY DEF Init, EndInv, EndsKnown
<1>2. EndIsTold /\ IndInv /\ EndsKnown /\ [Next]_vars => EndsKnown'
  BY NextEndInv
<1> QED BY Invariance, <1>1, <1>2, PTL DEF Spec

(***************************************************************************)
(* ShortMeansEnd for every layout and any number of callers:               *)
(* readAtInternal returns less than asked without an error, or io.EOF,     *)
(* only where the decrypted view ends, as long as EndIsTold.               *)
(***************************************************************************)
THEOREM ShortReadsEnd == Spec /\ []EndIsTold => []ShortMeansEnd
<1>1. EndsKnown => ShortMeansEnd
  BY DEF EndInv, EndsKnown, ShortMeansEnd
<1> QED BY EndsAreKnown, <1>1, PTL

---------------------------------------------------------------------------
(* The refinement of DecryptedView. *)

(* The entries of the abstract state that belong to one client. *)
PhaseOf(p) == CASE p = "idle" -> "idle" [] p = "done" -> "done" [] p = "panic" -> "crashed"
                [] OTHER -> "busy"
Reply(k, d, e) == [n |-> k, data |-> [x \in 0..(k - 1) |-> d[x]], err |-> e]
ReplyOf(p, k, d, e) ==
  LET count == IF p = "done" THEN k ELSE 0
  IN  [n |-> count, data |-> [x \in 0..(count - 1) |-> d[x]],
       err |-> IF p = "done" THEN e ELSE "nil"]

(* A call has a reply once it is done. *)
LEMMA ReplyIs ==
  ASSUME NEW p, NEW k, NEW d, NEW e
  PROVE  /\ p = "done" => ReplyOf(p, k, d, e) = Reply(k, d, e)
         /\ p # "done" => ReplyOf(p, k, d, e) = DV!NoReply
<1>1. Reply(0, d, "nil") = DV!NoReply
  <2>1. 0..(0 - 1) = {}
    OBVIOUS
  <2>2. [x \in 0..(0 - 1) |-> d[x]] = [x \in 0..(0 - 1) |-> Junk]
    BY <2>1
  <2> QED BY <2>2 DEF Reply, DV!NoReply, Junk, DV!Junk
<1> QED BY <1>1 DEF Reply, ReplyOf

(* The abstract state of one client, before and after a step of readAtInternal. *)
LEMMA BarsAt ==
  ASSUME NEW c \in Clients
  PROVE  /\ phaseBar[c] = PhaseOf(pc[c]) /\ phaseBar'[c] = PhaseOf(pc'[c])
         /\ reqBar[c] = [op |-> op[c], off |-> off[c], len |-> len[c]]
         /\ reqBar'[c] = [op |-> op'[c], off |-> off'[c], len |-> len'[c]]
         /\ repBar[c] = ReplyOf(pc[c], n[c], dst[c], err[c])
         /\ repBar'[c] = ReplyOf(pc'[c], n'[c], dst'[c], err'[c])
BY DEF phaseBar, reqBar, repBar, PhaseOf, ReplyOf

(* A step of one client changes the entries of that client only. *)
LEMMA BarsFrame ==
  ASSUME NEW c \in Clients,
         \A d \in Clients \ {c} :
            /\ pc'[d] = pc[d] /\ op'[d] = op[d] /\ off'[d] = off[d] /\ len'[d] = len[d]
            /\ n'[d] = n[d] /\ dst'[d] = dst[d] /\ err'[d] = err[d]
  PROVE  /\ phaseBar' = [phaseBar EXCEPT ![c] = phaseBar'[c]]
         /\ reqBar' = [reqBar EXCEPT ![c] = reqBar'[c]]
         /\ repBar' = [repBar EXCEPT ![c] = repBar'[c]]
<1>1. /\ DOMAIN phaseBar = Clients /\ DOMAIN phaseBar' = Clients
      /\ DOMAIN reqBar = Clients /\ DOMAIN reqBar' = Clients
      /\ DOMAIN repBar = Clients /\ DOMAIN repBar' = Clients
  BY DEF phaseBar, reqBar, repBar
<1>2. \A d \in Clients \ {c} : phaseBar'[d] = phaseBar[d]
  BY DEF phaseBar
<1>3. \A d \in Clients \ {c} : reqBar'[d] = reqBar[d]
  BY DEF reqBar
<1>4. \A d \in Clients \ {c} : repBar'[d] = repBar[d]
  BY DEF repBar
<1>8. /\ phaseBar = [d \in Clients |-> phaseBar[d]] /\ repBar = [d \in Clients |-> repBar[d]]
      /\ phaseBar' = [d \in Clients |-> phaseBar'[d]] /\ repBar' = [d \in Clients |-> repBar'[d]]
  BY Zenon DEF phaseBar, repBar
<1>5. phaseBar' = [phaseBar EXCEPT ![c] = phaseBar'[c]]
  BY <1>1, <1>2, <1>8
<1>6. reqBar' = [reqBar EXCEPT ![c] = reqBar'[c]]
  BY <1>1, <1>3 DEF reqBar
<1>7. repBar' = [repBar EXCEPT ![c] = repBar'[c]]
  BY <1>1, <1>4, <1>8
<1> QED BY <1>5, <1>6, <1>7

(* A new stream is a new view. *)
LEMMA InitRefines == Init => DV!Init
<1> SUFFICES ASSUME Init PROVE DV!Init
  OBVIOUS
<1>1. \A c \in Clients : pc[c] = "idle" /\ op[c] = "ReadAt" /\ off[c] = 0 /\ len[c] = 0
  BY DEF Init
<1>2. phaseBar = [c \in Clients |-> "idle"]
  BY <1>1 DEF phaseBar
<1>3. reqBar = [c \in Clients |-> DV!NoRequest]
  BY <1>1 DEF reqBar, DV!NoRequest
<1>4. repBar = [c \in Clients |-> DV!NoReply]
  <2>1. \A c \in Clients : repBar[c] = DV!NoReply
    <3> SUFFICES ASSUME NEW c \in Clients PROVE repBar[c] = DV!NoReply
      OBVIOUS
    <3>1. repBar[c] = ReplyOf(pc[c], n[c], dst[c], err[c])
      BY BarsAt
    <3>2. pc[c] # "done"
      BY <1>1
    <3>3. ReplyOf(pc[c], n[c], dst[c], err[c]) = DV!NoReply
      BY <3>2, ReplyIs
    <3> QED BY <3>1, <3>3
  <2> QED BY <2>1 DEF repBar
<1> QED BY <1>2, <1>3, <1>4 DEF Init, DV!Init

(* Where a call of readAtInternal can be between its beginning and its return. *)
Busy == {"loop", "fill", "decrypt", "copy", "put", "return"}

(* The phases of a call of readAtInternal. *)
LEMMA PhaseOfBusy ==
  ASSUME NEW p
  PROVE  /\ p \in Busy => PhaseOf(p) = "busy"
         /\ p = "idle" => PhaseOf(p) = "idle"
         /\ p = "done" => PhaseOf(p) = "done"
         /\ p = "panic" => PhaseOf(p) = "crashed"
BY DEF Busy, PhaseOf

(* What a step of one call leaves alone in the slices of the others. *)
LEMMA StepBars ==
  ASSUME IndInv, NEW c \in Clients, EndInv(c), Step(c)
  PROVE  /\ phaseBar' = [phaseBar EXCEPT ![c] = phaseBar'[c]]
         /\ reqBar' = reqBar
         /\ repBar' = [repBar EXCEPT ![c] = repBar'[c]]
<1>0. TypeOK
  BY DEF IndInv
<1>1. \A d \in Clients \ {c} : dst'[d] = dst[d]
  <2>1. CASE ZeroFill(c) \/ ReadThrough(c) \/ CopyOut(c)
    BY <1>0, <2>1 DEF TypeOK, ZeroFill, ReadThrough, CopyOut
  <2>2. CASE ~(ZeroFill(c) \/ ReadThrough(c) \/ CopyOut(c))
    BY <2>2 DEF Step, LoopEnds, NoCipher, GetBuf, FillBuf, FillFails, DecryptBuf, DecryptPanics,
       CopyPanics, NextSector, Return
  <2> QED BY <2>1, <2>2
<1>2. \A d \in Clients \ {c} :
         /\ pc'[d] = pc[d] /\ op'[d] = op[d] /\ off'[d] = off[d] /\ len'[d] = len[d]
         /\ n'[d] = n[d] /\ err'[d] = err[d]
  BY <1>0, StepFrame
<1>3. op' = op /\ off' = off /\ len' = len
  BY <1>0, StepFrame
<1>4. reqBar' = reqBar
  BY <1>3 DEF reqBar
<1> QED BY <1>1, <1>2, <1>4, BarsFrame

(* Everything between the call and Return is invisible. *)
LEMMA InnerRefines ==
  ASSUME IndInv, NEW c \in Clients, EndInv(c), Step(c), ~Return(c), ~DecryptPanics(c), ~CopyPanics(c)
  PROVE  UNCHANGED DV!vars
<1>0. TypeOK
  BY DEF IndInv
<1>1. pc[c] \in Busy /\ pc'[c] \in Busy
  <2>1. pc \in [Clients -> {"idle", "loop", "fill", "decrypt", "copy", "put",
                            "return", "done", "panic"}]
    BY <1>0 DEF TypeOK
  <2>2. CASE ReadThrough(c)
    BY <2>1, <2>2 DEF ReadThrough, Busy
  <2>3. CASE ~ReadThrough(c)
    BY <2>1, <2>3 DEF Step, LoopEnds, ZeroFill, NoCipher, NeedsSector, GetBuf, FillBuf,
       FillFails, DecryptBuf, CopyOut, NextSector, Busy
  <2> QED BY <2>2, <2>3
<1>2. offset' = offset /\ cipherSet' = cipherSet /\ passthrough' = passthrough
  BY <1>0, StepFrame
<1>3. phaseBar'[c] = phaseBar[c]
  <2>1. phaseBar[c] = PhaseOf(pc[c])
    BY BarsAt
  <2>2. phaseBar'[c] = PhaseOf(pc'[c])
    BY BarsAt
  <2>3. PhaseOf(pc[c]) = "busy" /\ PhaseOf(pc'[c]) = "busy"
    BY <1>1, PhaseOfBusy
  <2> QED BY <2>1, <2>2, <2>3
<1>4. repBar'[c] = repBar[c]
  <2>1. pc[c] # "done" /\ pc'[c] # "done"
    BY <1>1 DEF Busy
  <2>2. repBar[c] = ReplyOf(pc[c], n[c], dst[c], err[c])
    BY BarsAt
  <2>3. repBar'[c] = ReplyOf(pc'[c], n'[c], dst'[c], err'[c])
    BY BarsAt
  <2>4. ReplyOf(pc[c], n[c], dst[c], err[c]) = DV!NoReply
    BY <2>1, ReplyIs
  <2>5. ReplyOf(pc'[c], n'[c], dst'[c], err'[c]) = DV!NoReply
    BY <2>1, ReplyIs
  <2> QED BY <2>2, <2>3, <2>4, <2>5
<1>5. phaseBar = [d \in Clients |-> phaseBar[d]] /\ repBar = [d \in Clients |-> repBar[d]]
  BY Zenon DEF phaseBar, repBar
<1>6. [phaseBar EXCEPT ![c] = phaseBar[c]] = phaseBar /\ [repBar EXCEPT ![c] = repBar[c]] = repBar
  BY <1>5
<1> QED BY <1>2, <1>3, <1>4, <1>6, StepBars DEF DV!vars

(* DecryptedView speaks of the same view. *)
LEMMA SameView ==
  ASSUME NEW u
  PROVE  DV!View(u, passthrough) = View(u, passthrough) /\ (DV!Available(u, passthrough) <=> Available(u, passthrough))
<1>1. \A s : DV!isReservedSector(Reserved, s) <=> isReservedSector(Reserved, s)
  BY DEF DV!isReservedSector, isReservedSector, DV!SearchStartAfter,
     SearchStartAfter, DV!InRegion, InRegion
<1>2. DV!Physical(u) = Physical(u)
  BY DEF DV!Physical, Physical, DV!HeaderMapped, HeaderMapped
<1> QED BY <1>1, <1>2 DEF DV!View, View, DV!Available, Available, DV!Zero, Zero, DV!Raw, Raw, DV!Dec, Dec

(* The phase of one client, before and after a step. *)
LEMMA PhaseAt ==
  ASSUME NEW c \in Clients
  PROVE  /\ pc[c] \in Busy => phaseBar[c] = "busy"
         /\ pc[c] = "idle" => phaseBar[c] = "idle"
         /\ pc[c] = "done" => phaseBar[c] = "done"
         /\ pc'[c] \in Busy => phaseBar'[c] = "busy"
         /\ pc'[c] = "idle" => phaseBar'[c] = "idle"
         /\ pc'[c] = "done" => phaseBar'[c] = "done"
         /\ pc'[c] = "panic" => phaseBar'[c] = "crashed"
<1>1. phaseBar[c] = PhaseOf(pc[c])
  BY BarsAt
<1>2. phaseBar'[c] = PhaseOf(pc'[c])
  BY BarsAt
<1>3. /\ pc[c] \in Busy => PhaseOf(pc[c]) = "busy"
      /\ pc[c] = "idle" => PhaseOf(pc[c]) = "idle"
      /\ pc[c] = "done" => PhaseOf(pc[c]) = "done"
  BY PhaseOfBusy
<1>4. /\ pc'[c] \in Busy => PhaseOf(pc'[c]) = "busy"
      /\ pc'[c] = "idle" => PhaseOf(pc'[c]) = "idle"
      /\ pc'[c] = "done" => PhaseOf(pc'[c]) = "done"
      /\ pc'[c] = "panic" => PhaseOf(pc'[c]) = "crashed"
  BY PhaseOfBusy
<1> QED BY <1>1, <1>2, <1>3, <1>4

(* The reply to one client, before and after a step. *)
LEMMA ReplyAt ==
  ASSUME NEW c \in Clients
  PROVE  /\ pc[c] # "done" => repBar[c] = DV!NoReply
         /\ pc'[c] # "done" => repBar'[c] = DV!NoReply
         /\ pc'[c] = "done" => repBar'[c] = Reply(n'[c], dst'[c], err'[c])
<1>1. repBar[c] = ReplyOf(pc[c], n[c], dst[c], err[c])
  BY BarsAt
<1>2. repBar'[c] = ReplyOf(pc'[c], n'[c], dst'[c], err'[c])
  BY BarsAt
<1>3. pc[c] # "done" => ReplyOf(pc[c], n[c], dst[c], err[c]) = DV!NoReply
  BY ReplyIs
<1>4. /\ pc'[c] # "done" => ReplyOf(pc'[c], n'[c], dst'[c], err'[c]) = DV!NoReply
      /\ pc'[c] = "done" =>
           ReplyOf(pc'[c], n'[c], dst'[c], err'[c]) = Reply(n'[c], dst'[c], err'[c])
  BY ReplyIs
<1> QED BY <1>1, <1>2, <1>3, <1>4

(* The entries of a client that a step leaves alone. *)
LEMMA Unmoved ==
  ASSUME NEW c \in Clients
  PROVE  /\ [phaseBar EXCEPT ![c] = phaseBar[c]] = phaseBar
         /\ [reqBar EXCEPT ![c] = reqBar[c]] = reqBar
         /\ [repBar EXCEPT ![c] = repBar[c]] = repBar
<1>1. /\ phaseBar = [d \in Clients |-> phaseBar[d]] /\ reqBar = [d \in Clients |-> reqBar[d]]
      /\ repBar = [d \in Clients |-> repBar[d]]
  BY Zenon DEF phaseBar, reqBar, repBar
<1> QED BY <1>1

(* A panic is a crash that the view allows: after Close or at a negative offset. *)
LEMMA PanicRefines ==
  ASSUME IndInv, NEW c \in Clients, EndInv(c), DecryptPanics(c) \/ CopyPanics(c)
  PROVE  DV!Crash(c)
<1>0. TypeOK /\ ClientInv(c) /\ Step(c)
  BY DEF IndInv, Step
<1>1. /\ pc[c] \in Busy /\ pc'[c] = "panic" /\ offset' = offset /\ cipherSet' = cipherSet /\ passthrough' = passthrough
  BY <1>0 DEF TypeOK, DecryptPanics, CopyPanics, Busy, shared
<1>2. ~cipherSet \/ off[c] < 0
  <2>1. CASE DecryptPanics(c)
    BY <2>1 DEF DecryptPanics
  <2>2. CASE CopyPanics(c)
    <3>1. /\ off[c] \in Int /\ n[c] \in Nat /\ cur[c] \in Int
          /\ (cur[c] >= 0 => InSector(c) >= 0) /\ InSector(c) \in Int
      BY <1>0, TypeAt
    <3>2. cur[c] = off[c] + n[c] /\ InSector(c) < 0
      BY <1>0, <2>2 DEF ClientInv, CallInv, CopyPanics
    <3> QED BY <3>1, <3>2
  <2> QED BY <2>1, <2>2
<1>3. phaseBar[c] = "busy" /\ phaseBar'[c] = "crashed"
  BY <1>1, PhaseAt
<1>4. repBar'[c] = repBar[c]
  BY <1>1, ReplyAt DEF Busy
<1>5. reqBar[c].off = off[c]
  BY DEF reqBar
<1>6. /\ phaseBar' = [phaseBar EXCEPT ![c] = phaseBar'[c]] /\ reqBar' = reqBar
      /\ repBar' = [repBar EXCEPT ![c] = repBar'[c]]
  BY <1>0, StepBars
<1>7. repBar' = repBar
  BY <1>4, <1>6, Unmoved
<1> QED BY <1>1, <1>2, <1>3, <1>5, <1>6, <1>7 DEF DV!Crash

(* Return is the response: the delivered prefix of the view, and an outcome it permits. *)
LEMMA ReturnRefines ==
  ASSUME IndInv, NEW c \in Clients, EndInv(c), Return(c)
  PROVE  DV!Respond(c)
<1>0. TypeOK /\ ClientInv(c) /\ Step(c)
  BY DEF IndInv, Step
<1>1. n[c] \in Nat /\ len[c] \in Nat /\ off[c] \in Int /\ cur[c] = off[c] + n[c] /\ n[c] <= len[c]
      /\ (off[c] < 0 => n[c] = 0)
  BY <1>0, TypeAt DEF ClientInv, CallInv
<1> DEFINE e == IF n[c] > 0 /\ err[c] = "eof" THEN "nil" ELSE err[c]
           k == n[c]
<1>2. /\ pc[c] = "return" /\ pc'[c] = "done" /\ n'[c] = k /\ dst'[c] = dst[c] /\ err'[c] = e
      /\ cipherSet' = cipherSet /\ passthrough' = passthrough
      /\ offset' = (IF op[c] = "Read" /\ n[c] > 0 THEN cur[c] ELSE offset)
  BY <1>0 DEF TypeOK, Return
<1>3. DV!Permitted(off[c], len[c], k, e)
  <2>1. Outcome(c)
    BY <1>2 DEF EndInv
  <2>2. DV!Available(off[c] + n[c], passthrough) => Available(off[c] + n[c], passthrough)
    BY SameView
  <2>3. n[c] = 0 => off[c] + n[c] = off[c]
    BY <1>1
  <2>4. CASE err[c] = "nil"
    BY <2>1, <2>4 DEF Outcome, DV!Permitted
  <2>5. CASE err[c] = "eof" /\ n[c] > 0
    <3>1. e = "nil" /\ off[c] >= 0
      BY <1>1, <2>5
    <3>2. n[c] = len[c] \/ n[c] < len[c]
      BY <1>1
    <3> QED BY <2>1, <2>2, <2>5, <3>1, <3>2 DEF Outcome, DV!Permitted
  <2>6. CASE err[c] = "eof" /\ n[c] = 0
    <3>1. e = "eof" /\ n[c] < len[c] /\ (off[c] < 0 \/ off[c] >= 0)
      BY <1>1, <2>1, <2>6 DEF Outcome
    <3> QED BY <2>1, <2>2, <2>3, <2>6, <3>1 DEF Outcome, DV!Permitted
  <2>7. CASE err[c] = "io"
    <3>1. e = "io"
      BY <2>7
    <3> QED BY <1>1, <2>1, <2>7, <3>1 DEF Outcome, DV!Permitted
  <2>8. CASE err[c] = "uninitialized"
    <3>1. e = "uninitialized"
      BY <2>8
    <3> QED BY <2>1, <2>8, <3>1 DEF Outcome, DV!Permitted
  <2>9. n[c] = 0 \/ n[c] > 0
    BY <1>1
  <2> QED BY <2>1, <2>4, <2>5, <2>6, <2>7, <2>8, <2>9 DEF Outcome
<1>4. [x \in 0..(k - 1) |-> dst[c][x]] = [x \in 0..(k - 1) |-> DV!View(off[c] + x, passthrough)]
  <2>1. \A x \in 0..(k - 1) : dst[c][x] = DV!View(off[c] + x, passthrough)
    BY <1>0, SameView DEF ClientInv, DataInv
  <2> QED BY <2>1
<1>5. repBar'[c] = [n |-> k, data |-> [x \in 0..(k - 1) |-> DV!View(off[c] + x, passthrough)], err |-> e]
  <2>1. repBar'[c] = Reply(k, dst[c], e)
    BY <1>2, ReplyAt
  <2> QED BY <1>4, <2>1 DEF Reply
<1>6. /\ phaseBar' = [phaseBar EXCEPT ![c] = phaseBar'[c]] /\ reqBar' = reqBar
      /\ repBar' = [repBar EXCEPT ![c] = repBar'[c]]
  BY <1>0, StepBars
<1>7. phaseBar[c] = "busy" /\ phaseBar'[c] = "done"
  BY <1>2, PhaseAt DEF Busy
<1>8. reqBar[c].off = off[c] /\ reqBar[c].len = len[c] /\ reqBar[c].op = op[c]
  BY DEF reqBar
<1>9. offset' = IF op[c] = "Read" /\ k > 0 THEN offset + k ELSE offset
  BY <1>1, <1>2 DEF EndInv
<1>10. k \in 0..len[c] /\ e \in {"nil", "eof", "io", "uninitialized"}
  <2>1. err[c] \in {"nil", "eof", "io", "uninitialized"}
    BY <1>0, TypeAt DEF Errors
  <2> QED BY <1>1, <2>1
<1> HIDE DEF e, k
<1> QED BY <1>2, <1>3, <1>5, <1>6, <1>7, <1>8, <1>9, <1>10 DEF DV!Respond

(* Begin is the request. *)
LEMMA BeginRefines ==
  ASSUME IndInv, NEW c \in Clients, NEW o, NEW at, NEW l, Begin(c, o, at, l)
  PROVE  DV!Request(c, o, at, l)
<1>0. TypeOK
  BY DEF IndInv
<1>1. \A d \in Clients \ {c} :
         /\ pc'[d] = pc[d] /\ op'[d] = op[d] /\ off'[d] = off[d] /\ len'[d] = len[d]
         /\ n'[d] = n[d] /\ dst'[d] = dst[d] /\ err'[d] = err[d]
  BY <1>0 DEF TypeOK, Begin
<1>2. /\ pc[c] = "idle" /\ pc'[c] = "loop" /\ op'[c] = o /\ off'[c] = at /\ len'[c] = l
      /\ offset' = offset /\ cipherSet' = cipherSet /\ passthrough' = passthrough
  BY <1>0 DEF TypeOK, Begin, shared
<1>3. /\ phaseBar' = [phaseBar EXCEPT ![c] = phaseBar'[c]]
      /\ reqBar' = [reqBar EXCEPT ![c] = reqBar'[c]]
      /\ repBar' = [repBar EXCEPT ![c] = repBar'[c]]
  BY <1>1, BarsFrame
<1>4. phaseBar[c] = "idle" /\ phaseBar'[c] = "busy"
  BY <1>2, PhaseAt DEF Busy
<1>5. reqBar'[c] = [op |-> o, off |-> at, len |-> l]
  <2>1. reqBar'[c] = [op |-> op'[c], off |-> off'[c], len |-> len'[c]]
    BY BarsAt
  <2> QED BY <1>2, <2>1
<1>6. repBar' = repBar
  <2>1. repBar'[c] = repBar[c]
    BY <1>2, ReplyAt
  <2> QED BY <1>3, <2>1, Unmoved
<1> QED BY <1>2, <1>3, <1>4, <1>5, <1>6 DEF DV!Request

(* The caller looks at the reply. *)
LEMMA CollectRefines ==
  ASSUME IndInv, NEW c \in Clients, Collect(c)
  PROVE  DV!Collect(c)
<1>0. TypeOK
  BY DEF IndInv
<1>1. \A d \in Clients \ {c} :
         /\ pc'[d] = pc[d] /\ op'[d] = op[d] /\ off'[d] = off[d] /\ len'[d] = len[d]
         /\ n'[d] = n[d] /\ dst'[d] = dst[d] /\ err'[d] = err[d]
  BY <1>0 DEF TypeOK, Collect
<1>2. /\ pc[c] = "done" /\ pc'[c] = "idle" /\ op'[c] = "ReadAt" /\ off'[c] = 0 /\ len'[c] = 0
      /\ offset' = offset /\ cipherSet' = cipherSet /\ passthrough' = passthrough
  BY <1>0 DEF TypeOK, Collect, shared
<1>3. /\ phaseBar' = [phaseBar EXCEPT ![c] = phaseBar'[c]]
      /\ reqBar' = [reqBar EXCEPT ![c] = reqBar'[c]]
      /\ repBar' = [repBar EXCEPT ![c] = repBar'[c]]
  BY <1>1, BarsFrame
<1>4. phaseBar[c] = "done" /\ phaseBar'[c] = "idle"
  BY <1>2, PhaseAt
<1>5. reqBar'[c] = DV!NoRequest
  <2>1. reqBar'[c] = [op |-> op'[c], off |-> off'[c], len |-> len'[c]]
    BY BarsAt
  <2> QED BY <1>2, <2>1 DEF DV!NoRequest
<1>6. repBar'[c] = DV!NoReply
  BY <1>2, ReplyAt
<1> QED BY <1>2, <1>3, <1>4, <1>5, <1>6 DEF DV!Collect

(* Seek and Close are one step in both. *)
LEMMA CallerRefines ==
  ASSUME IndInv, CallSeek \/ Close
  PROVE  DV!Seek \/ DV!Close \/ UNCHANGED DV!vars
<1>0. TypeOK /\ Owner \in Clients
  BY StreamAssumption DEF IndInv
<1>1. /\ pc' = pc /\ op' = op /\ off' = off /\ len' = len /\ n' = n /\ dst' = dst /\ err' = err
      /\ pc[Owner] = "idle" /\ passthrough' = passthrough
  BY DEF CallSeek, Seek, Close, args
<1>2. phaseBar' = phaseBar /\ reqBar' = reqBar /\ repBar' = repBar
  BY <1>1 DEF phaseBar, reqBar, repBar
<1>3. phaseBar[Owner] = "idle"
  BY <1>0, <1>1, PhaseAt
<1>4. CASE Close
  BY <1>1, <1>2, <1>3, <1>4 DEF Close, DV!Close
<1>5. CASE CallSeek
  <2>1. PICK whence \in {"SeekStart", "SeekCurrent", "SeekEnd"}, o \in Offsets : Seek(whence, o)
    BY <1>5 DEF CallSeek
  <2>2. o \in Int /\ offset \in Nat /\ MaxOffset \in Nat
    BY <1>0, StreamAssumption DEF TypeOK
  <2>3. cipherSet' = cipherSet /\ passthrough' = passthrough
    BY <2>1 DEF Seek
  <2>4. CASE offset' = offset
    BY <1>2, <2>3, <2>4 DEF DV!vars
  <2>5. CASE offset' # offset
    <3>1. offset' \in {o, offset + o} /\ offset' \in 0..MaxOffset
      BY <2>1, <2>2, <2>5 DEF Seek
    <3> QED BY <1>2, <1>3, <2>3, <3>1 DEF DV!Seek
  <2> QED BY <2>4, <2>5
<1> QED BY <1>4, <1>5

(* Every step of the stream is a step of the view, or none. *)
LEMMA NextRefines ==
  ASSUME IndInv, EndsKnown, [Next]_vars
  PROVE  [DV!Next]_(DV!vars)
<1>0. \A c \in Clients : EndInv(c)
  BY DEF EndsKnown
<1>1. ASSUME NEW c \in Clients, Step(c) PROVE [DV!Next]_(DV!vars)
  <2>1. CASE Return(c)
    <3>1. DV!Respond(c)
      BY <1>0, <2>1, ReturnRefines
    <3> QED BY <3>1 DEF DV!Next
  <2>2. CASE DecryptPanics(c) \/ CopyPanics(c)
    <3>1. DV!Crash(c)
      BY <1>0, <2>2, PanicRefines
    <3> QED BY <3>1 DEF DV!Next
  <2>3. CASE ~Return(c) /\ ~DecryptPanics(c) /\ ~CopyPanics(c)
    BY <1>0, <1>1, <2>3, InnerRefines
  <2> QED BY <2>1, <2>2, <2>3
<1>2. ASSUME NEW c \in Clients, CallReadAt(c) PROVE DV!Next
  <2>1. PICK at \in Offsets, l \in Lengths : Begin(c, "ReadAt", at, l)
    BY <1>2 DEF CallReadAt
  <2>2. DV!Request(c, "ReadAt", at, l)
    BY <2>1, BeginRefines
  <2> QED BY <2>2 DEF DV!Next
<1>3. ASSUME NEW c \in Clients, CallRead(c) PROVE DV!Next
  <2>1. PICK l \in Lengths : Begin(c, "Read", offset, l)
    BY <1>3 DEF CallRead
  <2>2. DV!Request(c, "Read", offset, l)
    BY <2>1, BeginRefines
  <2>3. c = Owner
    BY <1>3 DEF CallRead
  <2> QED BY <2>2, <2>3 DEF DV!Next
<1>4. ASSUME NEW c \in Clients, Collect(c) PROVE DV!Next
  BY <1>4, CollectRefines DEF DV!Next
<1>5. ASSUME CallSeek \/ Close PROVE [DV!Next]_(DV!vars)
  BY <1>5, CallerRefines DEF DV!Next
<1>6. CASE UNCHANGED vars
  BY <1>6 DEF vars, DV!vars, phaseBar, reqBar, repBar
<1> QED BY <1>1, <1>2, <1>3, <1>4, <1>5, <1>6 DEF Next

(***************************************************************************)
(* BitlockerStream implements DecryptedView for every layout, any number   *)
(* of callers and any interleaving of ReadAt, Read, Seek and Close: each   *)
(* call of readAtInternal is one atomic read of the decrypted view, as     *)
(* long as EndIsTold.                                                      *)
(***************************************************************************)
THEOREM ViewImplemented == Spec /\ []EndIsTold => ImplementsView
<1>1. IndInv /\ EndsKnown /\ [Next]_vars => [DV!Next]_(DV!vars)
  BY NextRefines
<1> QED BY Invariance, EndsAreKnown, InitRefines, <1>1, PTL DEF Spec, ImplementsView, DV!Spec
=============================================================================
