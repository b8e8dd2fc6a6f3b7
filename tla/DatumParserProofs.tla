-------------------------- MODULE DatumParserProofs --------------------------
(***************************************************************************)
(* The invariants of DatumParser hold for metadata of every length, with   *)
(* datums nested to every depth, whatever sizes the headers claim.         *)
(*                                                                         *)
(* The inductive invariant Inv says of every depth what the properties say *)
(* of the top level: the reader stands where the datums read so far end    *)
(* (InStepDeep), and each header read is accounted for (OnlyLastLost). It  *)
(* sums over the stack, so the first lemmas are about SumTo, by induction. *)
(***************************************************************************)
EXTENDS DatumParser, SetInduction, SequenceTheorems, TLAPS

---------------------------------------------------------------------------
(* Sums. *)

(* g is the table of the partial sums of w up to n. *)
Table(g, w, n) == g = [j \in 0..n |-> IF j = 0 THEN 0 ELSE g[j - 1] + w[j]]

(* Partial sums exist for every length. *)
LEMMA TableExists ==
  ASSUME NEW w, NEW n \in Nat
  PROVE  \E g : Table(g, w, n)
<1> DEFINE S == {m \in Nat : \E g : Table(g, w, m)}
<1>1. 0 \in S
  <2>1. Table([j \in 0..0 |-> 0], w, 0)
    BY DEF Table
  <2> QED BY <2>1
<1>2. ASSUME NEW m \in Nat, m \in S PROVE m + 1 \in S
  <2>1. PICK g : Table(g, w, m)
    BY <1>2
  <2> DEFINE h == [j \in 0..(m + 1) |-> IF j = m + 1 THEN g[m] + w[m + 1] ELSE g[j]]
  <2>2. Table(h, w, m + 1)
    <3>1. ASSUME NEW j \in 0..(m + 1)
          PROVE  h[j] = IF j = 0 THEN 0 ELSE h[j - 1] + w[j]
      <4>1. CASE j = m + 1
        BY <4>1
      <4>2. CASE j # m + 1
        <5>1. j \in 0..m /\ h[j] = g[j] /\ (j # 0 => h[j - 1] = g[j - 1])
          BY <4>2
        <5> QED BY <2>1, <5>1 DEF Table
      <4> QED BY <4>1, <4>2
    <3>2. h = [j \in 0..(m + 1) |-> h[j]]
      OBVIOUS
    <3> HIDE DEF h
    <3> QED BY <3>1, <3>2 DEF Table
  <2> QED BY <2>2
<1> HIDE DEF S
<1>3. Nat \subseteq S
  BY <1>1, <1>2, Induction
<1> QED BY <1>3 DEF S

(* Where two functions agree, so do their partial sums. *)
LEMMA TablesAgree ==
  ASSUME NEW w, NEW v, NEW n \in Nat, NEW m \in Nat, n <= m, NEW g, NEW h,
         \A j \in 1..n : w[j] = v[j], Table(g, w, n), Table(h, v, m)
  PROVE  \A j \in 0..n : g[j] = h[j]
<1> DEFINE S == {j \in Nat : j \in 0..n => g[j] = h[j]}
<1>1. 0 \in S
  BY DEF Table
<1>2. ASSUME NEW j \in Nat, j \in S PROVE j + 1 \in S
  <2> SUFFICES ASSUME j + 1 \in 0..n PROVE g[j + 1] = h[j + 1]
    OBVIOUS
  <2>1. g[j] = h[j] /\ w[j + 1] = v[j + 1]
    BY <1>2
  <2>2. g[j + 1] = g[j] + w[j + 1]
    BY DEF Table
  <2>3. h[j + 1] = h[j] + v[j + 1]
    BY DEF Table
  <2> QED BY <2>1, <2>2, <2>3
<1> HIDE DEF S
<1>3. Nat \subseteq S
  BY <1>1, <1>2, Induction
<1> QED BY <1>3 DEF S

(* SumTo is the last of the partial sums. *)
LEMMA SumIsTable ==
  ASSUME NEW w, NEW n \in Nat
  PROVE  \E g : Table(g, w, n) /\ SumTo(w, n) = g[n]
<1> DEFINE g == CHOOSE f : Table(f, w, n)
<1>1. Table(g, w, n)
  BY TableExists
<1>2. SumTo(w, n) = g[n]
  BY DEF SumTo, Table
<1> QED BY <1>1, <1>2

(* The sum of nothing is 0. *)
LEMMA SumZero == ASSUME NEW w PROVE SumTo(w, 0) = 0
<1>1. PICK g : Table(g, w, 0) /\ SumTo(w, 0) = g[0]
  BY SumIsTable
<1> QED BY <1>1 DEF Table

(* The sum changes by the element that is added. *)
LEMMA SumSucc ==
  ASSUME NEW w, NEW v, NEW n \in Nat, \A j \in 1..n : w[j] = v[j]
  PROVE  SumTo(w, n + 1) = SumTo(v, n) + w[n + 1]
<1>1. PICK g : Table(g, w, n + 1) /\ SumTo(w, n + 1) = g[n + 1]
  BY SumIsTable
<1>2. PICK h : Table(h, v, n) /\ SumTo(v, n) = h[n]
  BY SumIsTable
<1>3. h[n] = g[n]
  BY <1>1, <1>2, TablesAgree
<1>4. g[n + 1] = g[n] + w[n + 1]
  BY <1>1 DEF Table
<1> QED BY <1>1, <1>2, <1>3, <1>4

(* The sum of integers is an integer. *)
LEMMA SumType ==
  ASSUME NEW w, NEW n \in Nat, \A j \in 1..n : w[j] \in Int
  PROVE  SumTo(w, n) \in Int
<1> DEFINE S == {j \in Nat : j <= n => SumTo(w, j) \in Int}
<1>1. 0 \in S
  BY SumZero
<1>2. ASSUME NEW j \in Nat, j \in S PROVE j + 1 \in S
  <2> SUFFICES ASSUME j + 1 <= n PROVE SumTo(w, j + 1) \in Int
    OBVIOUS
  <2>1. SumTo(w, j + 1) = SumTo(w, j) + w[j + 1]
    BY SumSucc
  <2> QED BY <1>2, <2>1
<1> HIDE DEF S
<1>3. Nat \subseteq S
  BY <1>1, <1>2, Induction
<1> QED BY <1>3 DEF S

(* The structures behind a header; those that have properties take 4 bytes or more. *)
LEMMA StructSizes ==
  /\ \A t \in Types : StructSize[t] \in Nat
  /\ Complex \subseteq Types
  /\ \A t \in Complex : StructSize[t] >= 4
<1>1. Types = {"Key", "StretchKey", "UseKey", "AesCcmEncryptedKey", "Unicode",
               "VolumeMasterKeyInfo", "ExternalInfo", "VirtualizationInfo", "Other"}
  BY DEF Types, StructSize
<1>2. /\ StructSize["Key"] = 4 /\ StructSize["StretchKey"] = 20 /\ StructSize["UseKey"] = 4
      /\ StructSize["AesCcmEncryptedKey"] = 28 /\ StructSize["Unicode"] = 0
      /\ StructSize["VolumeMasterKeyInfo"] = 28 /\ StructSize["ExternalInfo"] = 24
      /\ StructSize["VirtualizationInfo"] = 16 /\ StructSize["Other"] = 0
  BY DEF StructSize
<1> QED BY <1>1, <1>2 DEF Complex

(* What is left of a stack when its top is popped. *)
LEMMA FrontLemma ==
  ASSUME NEW S, NEW s \in Seq(S), s # <<>>
  PROVE  /\ Front(s) \in Seq(S)
         /\ Len(Front(s)) = Len(s) - 1
         /\ \A j \in 1..(Len(s) - 1) : Front(s)[j] = s[j]
<1>1. Len(s) \in Nat /\ Len(s) > 0
  BY EmptySeq
<1>2. Front(s) = SubSeq(s, 1, Len(s) - 1)
  BY DEF Front
<1>3. \A i \in 1..(Len(s) - 1) : s[i] \in S
  BY <1>1, ElementOfSeq
<1> DEFINE m == 1  n == Len(s) - 1
<1>4. m \in Int /\ n \in Int /\ \A i \in m..n : s[i] \in S
  BY <1>1, <1>3
<1>5. /\ SubSeq(s, m, n) \in Seq(S)
      /\ Len(SubSeq(s, m, n)) = IF m <= n THEN n - m + 1 ELSE 0
      /\ \A i \in 1..(n - m + 1) : SubSeq(s, m, n)[i] = s[m + i - 1]
  <2> HIDE DEF m, n
  <2> QED BY <1>4, SubSeqProperties
<1>6. Front(s) \in Seq(S)
  BY <1>2, <1>5
<1>7. Len(Front(s)) = Len(s) - 1
  <2>1. n \in Nat /\ m = 1
    BY <1>1
  <2>2. (IF m <= n THEN n - m + 1 ELSE 0) = n
    <3> HIDE DEF m, n
    <3> QED BY <2>1
  <2>3. Front(s) = SubSeq(s, m, n)
    BY <1>2
  <2>4. Len(Front(s)) = n
    <3> HIDE DEF m, n
    <3> QED BY <1>5, <2>2, <2>3
  <2> QED BY <2>4
<1>8. ASSUME NEW j \in 1..(Len(s) - 1) PROVE Front(s)[j] = s[j]
  <2>1. j \in 1..(n - m + 1) /\ m + j - 1 = j
    BY <1>1
  <2> QED BY <1>2, <1>5, <2>1
<1> QED BY <1>6, <1>7, <1>8

---------------------------------------------------------------------------
(* Stacks. *)

Frame == [size : Nat, left : Int, inner : Nat]

(* What the datums of a stack have been given: datums, and bytes. *)
Datums(s) == SumTo([j \in 1..Len(s) |-> 1 + s[j].inner], Len(s))
Bytes(s) == SumTo([j \in 1..Len(s) |-> s[j].size - s[j].left], Len(s))

(* The datums and the bytes of a stack are numbers. *)
LEMMA SumsAreIntegers ==
  ASSUME NEW s \in Seq(Frame)
  PROVE  Datums(s) \in Int /\ Bytes(s) \in Int
<1>1. Len(s) \in Nat /\ \A j \in 1..Len(s) : s[j] \in Frame
  BY ElementOfSeq
<1> DEFINE w == [j \in 1..Len(s) |-> 1 + s[j].inner]
           v == [j \in 1..Len(s) |-> s[j].size - s[j].left]
<1>2. \A j \in 1..Len(s) : w[j] \in Int /\ v[j] \in Int
  BY <1>1 DEF Frame
<1> HIDE DEF w, v
<1>3. SumTo(w, Len(s)) \in Int /\ SumTo(v, Len(s)) \in Int
  BY <1>1, <1>2, SumType
<1> QED BY <1>3 DEF w, v, Datums, Bytes

(* An empty stack holds nothing. *)
LEMMA SumsOfEmpty == Datums(<<>>) = 0 /\ Bytes(<<>>) = 0
<1> DEFINE s == <<>>
<1>1. Len(s) = 0
  OBVIOUS
<1> HIDE DEF s
<1>2. Datums(s) = 0 /\ Bytes(s) = 0
  BY <1>1, SumZero DEF Datums, Bytes
<1> QED BY <1>2 DEF s

(* A frame on top of a stack adds what it holds. *)
LEMMA SumsOfTop ==
  ASSUME NEW c \in Seq(Frame), NEW d \in Seq(Frame), Len(d) = Len(c) + 1,
         \A j \in 1..Len(c) : d[j] = c[j]
  PROVE  /\ Datums(d) = Datums(c) + (1 + d[Len(d)].inner)
         /\ Bytes(d) = Bytes(c) + (d[Len(d)].size - d[Len(d)].left)
<1>1. Len(c) \in Nat /\ Len(d) \in 1..Len(d) /\ d[Len(d)] \in Frame
  BY ElementOfSeq
<1> DEFINE wc == [j \in 1..Len(c) |-> 1 + c[j].inner]
           vc == [j \in 1..Len(c) |-> c[j].size - c[j].left]
           wd == [j \in 1..Len(d) |-> 1 + d[j].inner]
           vd == [j \in 1..Len(d) |-> d[j].size - d[j].left]
<1>2. \A j \in 1..Len(c) : wd[j] = wc[j] /\ vd[j] = vc[j]
  BY <1>1
<1>3. wd[Len(c) + 1] = 1 + d[Len(d)].inner /\ vd[Len(c) + 1] = d[Len(d)].size - d[Len(d)].left
  BY <1>1
<1> HIDE DEF wc, vc, wd, vd
<1>4. SumTo(wd, Len(c) + 1) = SumTo(wc, Len(c)) + wd[Len(c) + 1]
  BY <1>1, <1>2, SumSucc
<1>5. SumTo(vd, Len(c) + 1) = SumTo(vc, Len(c)) + vd[Len(c) + 1]
  BY <1>1, <1>2, SumSucc
<1>6. /\ Datums(d) = SumTo(wd, Len(c) + 1) /\ Datums(c) = SumTo(wc, Len(c))
      /\ Bytes(d) = SumTo(vd, Len(c) + 1) /\ Bytes(c) = SumTo(vc, Len(c))
  BY DEF Datums, Bytes, wc, vc, wd, vd
<1> QED BY <1>3, <1>4, <1>5, <1>6

(* Popping the innermost datum takes away what it holds. *)
LEMMA SumsOfFront ==
  ASSUME NEW s \in Seq(Frame), s # <<>>
  PROVE  /\ s[Len(s)] \in Frame
         /\ Datums(s) = Datums(Front(s)) + (1 + s[Len(s)].inner)
         /\ Bytes(s) = Bytes(Front(s)) + (s[Len(s)].size - s[Len(s)].left)
<1>1. Len(s) \in Nat /\ Len(s) > 0
  BY EmptySeq
<1>2. s[Len(s)] \in Frame
  BY <1>1, ElementOfSeq
<1>3. /\ Front(s) \in Seq(Frame) /\ Len(s) = Len(Front(s)) + 1
      /\ \A j \in 1..Len(Front(s)) : s[j] = Front(s)[j]
  BY <1>1, FrontLemma
<1> QED BY <1>2, <1>3, SumsOfTop

(* What ReturnDatum does to the datum that called it. *)
Deducted(c, size, inner) ==
  [c EXCEPT ![Len(c)] =
     [size |-> @.size, left |-> @.left - size, inner |-> @.inner + 1 + inner]]

(* readProperties gains the datum returned to it, and its size. *)
LEMMA DeductedSums ==
  ASSUME NEW c \in Seq(Frame), c # <<>>, NEW size \in Nat, NEW inner \in Nat, NEW d,
         d = Deducted(c, size, inner)
  PROVE  /\ d \in Seq(Frame) /\ Len(d) = Len(c)
         /\ \A j \in 1..Len(c) : d[j].size = c[j].size
         /\ Datums(d) = Datums(c) + (1 + inner)
         /\ Bytes(d) = Bytes(c) + size
<1> DEFINE n == Len(c)
           f == [size |-> c[Len(c)].size, left |-> c[Len(c)].left - size,
                 inner |-> c[Len(c)].inner + 1 + inner]
<1>1. n \in Nat /\ n > 0 /\ n \in 1..n
  BY EmptySeq
<1>2. c[n] \in Frame
  BY <1>1, ElementOfSeq
<1>3. /\ f \in Frame
      /\ f.size = c[n].size /\ f.left = c[n].left - size /\ f.inner = c[n].inner + 1 + inner
  BY <1>2 DEF Frame
<1>4. d = [c EXCEPT ![n] = f]
  BY DEF Deducted
<1> HIDE DEF f
<1>5. /\ d \in Seq(Frame) /\ Len(d) = n
      /\ \A j \in 1..n : d[j] = IF j = n THEN f ELSE c[j]
  BY <1>1, <1>3, <1>4, ExceptSeq
<1>6. d[n].size = c[n].size /\ d[n].left = c[n].left - size /\ d[n].inner = c[n].inner + 1 + inner
  BY <1>1, <1>3, <1>5
<1>7. \A j \in 1..(n - 1) : d[j] = c[j]
  <2> HIDE DEF n
  <2> QED BY <1>1, <1>5
<1>8. /\ Front(c) \in Seq(Frame) /\ Len(Front(c)) = n - 1
      /\ \A j \in 1..(n - 1) : Front(c)[j] = c[j]
  BY FrontLemma
<1>9. /\ Datums(d) = Datums(Front(c)) + (1 + d[n].inner)
      /\ Bytes(d) = Bytes(Front(c)) + (d[n].size - d[n].left)
  <2>1. Len(d) = Len(Front(c)) + 1 /\ \A j \in 1..Len(Front(c)) : d[j] = Front(c)[j]
    BY <1>1, <1>5, <1>7, <1>8
  <2> QED BY <1>5, <1>8, <2>1, SumsOfTop
<1>10. /\ Datums(c) = Datums(Front(c)) + (1 + c[n].inner)
       /\ Bytes(c) = Bytes(Front(c)) + (c[n].size - c[n].left)
  BY SumsOfFront
<1>11. Datums(Front(c)) \in Int /\ Bytes(Front(c)) \in Int
  BY <1>8, SumsAreIntegers
<1>12. c[n].inner \in Int /\ c[n].size \in Int /\ c[n].left \in Int
  BY <1>2 DEF Frame
<1>13. Datums(d) = Datums(c) + (1 + inner)
  <2> DEFINE a == Datums(Front(c))  b == c[n].inner
  <2>1. a \in Int /\ b \in Int
    BY <1>11, <1>12
  <2>2. Datums(d) = a + (1 + (b + 1 + inner)) /\ Datums(c) = a + (1 + b)
    BY <1>6, <1>9, <1>10
  <2> HIDE DEF a, b
  <2>3. a + (1 + (b + 1 + inner)) = (a + (1 + b)) + (1 + inner)
    BY <2>1
  <2> QED BY <2>2, <2>3
<1>14. Bytes(d) = Bytes(c) + size
  BY <1>6, <1>9, <1>10, <1>11, <1>12
<1>15. ASSUME NEW j \in 1..Len(c) PROVE d[j].size = c[j].size
  <2>1. CASE j = n
    BY <1>6, <2>1
  <2>2. CASE j # n
    BY <1>1, <1>5, <2>2
  <2> QED BY <2>1, <2>2
<1> QED BY <1>5, <1>13, <1>14, <1>15
---------------------------------------------------------------------------
(* What a source that was accepted is, and the inductive invariant. *)

(* A source has the types assumed, and its datums a length once NewDataset accepts it. *)
LEMMA SourceType ==
  ASSUME src \in Sources
  PROVE  /\ src.metadataSize \in Nat /\ src.headerSize \in Nat /\ src.available \in Int
         /\ DatasetError = "nil" => Total \in Nat
<1>1. src.metadataSize \in Nat /\ src.headerSize \in Nat /\ src.available \in Int
  BY ParserAssumption DEF ParserAssumption
<1>2. ASSUME DatasetError = "nil" PROVE Total \in Nat
  <2> DEFINE m == src.metadataSize  h == src.headerSize
  <2>1. m \in Nat /\ h \in Nat /\ ~(h > m)
    BY <1>1, <1>2 DEF DatasetError
  <2>2. m - h \in Nat
    <3> HIDE DEF m, h
    <3> QED BY <2>1
  <2> QED BY <2>2 DEF Total
<1> QED BY <1>1, <1>2

(* What ReadDatum takes from the reader for a header: the claimed size unless it is flawed. *)
LEMMA HeaderType ==
  ASSUME NEW h \in Headers
  PROVE  /\ h.size \in Nat /\ h.type \in Types /\ StructSize[h.type] \in Nat
         /\ DataSize(h) = h.size - 8 - StructSize[h.type] /\ DataSize(h) \in Int
         /\ Consumed(h) \in Nat /\ Consumed(h) >= 8
         /\ HasProperties(h) => /\ Consumed(h) = 8 + StructSize[h.type] /\ Consumed(h) >= 12
                                /\ h.size >= 12 /\ Consumed(h) = h.size - DataSize(h)
         /\ ~HasProperties(h) /\ SizeFlaws(h) = {} => Consumed(h) = h.size
<1>1. h.size \in Nat /\ h.type \in Types
  BY ParserAssumption DEF ParserAssumption
<1>2. StructSize[h.type] \in Nat
  BY <1>1, StructSizes
<1>3. DataSize(h) = h.size - 8 - StructSize[h.type]
  BY DEF DataSize, FveDatumSize
<1> DEFINE s == StructSize[h.type]  z == h.size  d == DataSize(h)
<1>4. s \in Nat /\ z \in Nat /\ d = z - 8 - s /\ d \in Int
  BY <1>1, <1>2, <1>3
<1>5. Consumed(h) = 8 + s + (IF h.type \in WithPayload /\ d > 0 THEN d ELSE 0)
  BY DEF Consumed, FveDatumSize
<1>6. HasProperties(h) <=> h.type \in Complex /\ d > 0
  BY DEF HasProperties
<1>7. h.type \in Complex => s >= 4 /\ h.type \notin WithPayload
  BY StructSizes DEF Complex, WithPayload
<1>8. SizeFlaws(h) = {} => ~(d < 0) /\ ~(h.type = "VirtualizationInfo" /\ d > 0)
  BY DEF SizeFlaws
<1>9. h.type \in WithPayload \/ h.type \in Complex \/ h.type = "VirtualizationInfo"
  BY <1>1 DEF Types, StructSize, WithPayload, Complex
<1> HIDE DEF s, z, d
<1>10. Consumed(h) \in Nat /\ Consumed(h) >= 8
  BY <1>4, <1>5
<1>11. ASSUME HasProperties(h)
       PROVE  Consumed(h) = 8 + s /\ Consumed(h) >= 12 /\ z >= 12 /\ Consumed(h) = z - d
  BY <1>4, <1>5, <1>6, <1>7, <1>11
<1>12. ASSUME ~HasProperties(h), SizeFlaws(h) = {} PROVE Consumed(h) = z
  <2>1. ~(d < 0) /\ (h.type \in WithPayload \/ d = 0)
    BY <1>4, <1>6, <1>8, <1>9, <1>12
  <2> QED BY <1>4, <1>5, <2>1
<1> QED BY <1>1, <1>2, <1>3, <1>4, <1>10, <1>11, <1>12 DEF s, z, d
(* Every complex datum claims its header and its structure at least. *)
SizesHold == \A j \in 1..Len(stack) : stack[j].size >= 12

(* What a source passed before it was parsed, and what is read until then. *)
Gate ==
  /\ pc \in {"parse", "done"} => DatasetError = "nil"
  /\ pc \notin {"parse", "done"} => stack = <<>> /\ pos = 0 /\ headers = 0 /\ kept = 0

(* InStepUnlessFlawed at every depth. *)
InStepDeep ==
  pc \in {"parse", "done"} /\ flaws = {} => pos = Total - remaining + Bytes(stack)

(* The inductive invariant. *)
Inv ==
  /\ TypeOK /\ SizesHold /\ Gate /\ InStepDeep
  /\ OnlyLastLost /\ DepthBounded /\ SecondCheckAgrees

(* ReturnDatum hands a datum on without loss, unless its size ends the parse. *)
LEMMA ReturnDatumEffect ==
  ASSUME NEW size \in Nat, NEW inner \in Nat, NEW callers \in Seq(Frame),
         \A j \in 1..Len(callers) : callers[j].size >= 12,
         kept \in Nat, remaining \in Int, pc = "parse",
         ReturnDatum(size, inner, callers)
  PROVE  /\ stack' \in Seq(Frame) /\ Len(stack') = Len(callers)
         /\ \A j \in 1..Len(stack') : stack'[j].size >= 12
         /\ kept' \in Nat /\ remaining' \in Int /\ pc' \in {"parse", "done"}
         /\ size >= 8 \/ callers # <<>> =>
              /\ kept' + Datums(stack') = kept + Datums(callers) + 1 + inner
              /\ Bytes(stack') - remaining' = Bytes(callers) - remaining + size
         /\ size < 8 /\ callers = <<>> =>
              pc' = "done" /\ kept' + Datums(stack') = kept + Datums(callers)
<1>1. CASE callers = <<>> /\ size >= 8
  <2>1. /\ kept' = kept + 1 + inner /\ remaining' = remaining - size
        /\ stack' = callers /\ pc' = pc
    BY <1>1 DEF ReturnDatum
  <2>2. Datums(callers) = 0 /\ Bytes(callers) = 0
    BY <1>1, SumsOfEmpty
  <2>3. kept' \in Nat /\ remaining' \in Int
    BY <2>1
  <2>4. kept' + Datums(stack') = kept + Datums(callers) + 1 + inner
    BY <2>1, <2>2
  <2>5. Bytes(stack') - remaining' = Bytes(callers) - remaining + size
    BY <2>1, <2>2
  <2> QED BY <1>1, <2>1, <2>3, <2>4, <2>5
<1>2. CASE callers = <<>> /\ size < 8
  <2>1. /\ stack' = callers /\ pc' = "done"
        /\ kept' = kept /\ remaining' = remaining
    BY <1>2 DEF ReturnDatum
  <2>2. ~(size >= 8 \/ callers # <<>>)
    BY <1>2
  <2> QED BY <2>1, <2>2
<1>3. CASE callers # <<>>
  <2>1. /\ stack' = Deducted(callers, size, inner)
        /\ kept' = kept /\ remaining' = remaining /\ pc' = pc
    BY <1>3 DEF ReturnDatum, Deducted
  <2>2. /\ stack' \in Seq(Frame) /\ Len(stack') = Len(callers)
        /\ \A j \in 1..Len(callers) : stack'[j].size = callers[j].size
        /\ Datums(stack') = Datums(callers) + (1 + inner)
        /\ Bytes(stack') = Bytes(callers) + size
    BY <1>3, <2>1, DeductedSums
  <2>3. Datums(callers) \in Int /\ Bytes(callers) \in Int
    BY SumsAreIntegers
  <2> DEFINE a == Datums(callers)  b == Bytes(callers)
  <2>4. kept' + Datums(stack') = kept + a + 1 + inner
    <3>1. kept' + Datums(stack') = kept + (a + (1 + inner)) /\ a \in Int
      BY <2>1, <2>2, <2>3
    <3> HIDE DEF a
    <3> QED BY <3>1
  <2>5. Bytes(stack') - remaining' = b - remaining + size
    <3>1. Bytes(stack') - remaining' = (b + size) - remaining /\ b \in Int
      BY <2>1, <2>2, <2>3
    <3> HIDE DEF b
    <3> QED BY <3>1
  <2> QED BY <1>3, <2>1, <2>2, <2>4, <2>5
<1> QED BY <1>1, <1>2, <1>3
---------------------------------------------------------------------------
(* The steps. *)

(* Before anything is read. *)
LEMMA InitInv == Init => Inv
<1> SUFFICES ASSUME Init PROVE Inv
  OBVIOUS
<1> USE DEF Init
<1>1. src \in Sources
  OBVIOUS
<1>2. stack \in Seq(Frame) /\ Len(stack) = 0
  BY EmptySeq
<1>3. Datums(stack) = 0
  BY SumsOfEmpty
<1>4. TypeOK
  BY <1>2 DEF TypeOK, Frame
<1>5. BeingRead = 0
  BY <1>3 DEF BeingRead, Datums
<1>6. OnlyLastLost
  BY <1>5 DEF OnlyLastLost
<1>7. SizesHold /\ Gate /\ InStepDeep /\ DepthBounded /\ SecondCheckAgrees
  BY <1>2 DEF SizesHold, Gate, InStepDeep, DepthBounded, SecondCheckAgrees
<1> QED BY <1>4, <1>6, <1>7 DEF Inv

(* Nothing that is only about the source changes. *)
LEMMA SameSource ==
  ASSUME src' = src
  PROVE  Total' = Total /\ DatasetError' = DatasetError /\ BlockError' = BlockError
BY DEF Total, DatasetError, BlockError

(* BeingRead is the number of datums on the stack. *)
LEMMA BeingReadIs ==
  /\ BeingRead = Datums(stack) /\ BeingRead' = Datums(stack')
BY DEF BeingRead, Datums

(* NewInformation's checks. *)
LEMMA CheckBlockStep == Inv /\ CheckBlock => Inv'
<1> SUFFICES ASSUME Inv, CheckBlock PROVE Inv'
  OBVIOUS
<1>1. /\ pc = "block" /\ err' = BlockError /\ src' = src
      /\ pc' = IF BlockError = "nil" THEN "dataset" ELSE "failed"
      /\ pos' = pos /\ remaining' = remaining /\ stack' = stack
      /\ headers' = headers /\ kept' = kept /\ flaws' = flaws
  BY DEF CheckBlock, parser
<1>2. BlockError' = BlockError /\ BeingRead' = BeingRead
  BY <1>1, SameSource, BeingReadIs
<1>3. BlockError \in {"nil", "eof", "signature", "headerSize", "metadataSize"}
  BY DEF BlockError
<1>4. pc' \in {"dataset", "failed"} /\ (pc' = "failed" => BlockError # "nil")
  BY <1>1
<1>5. TypeOK'
  BY <1>1, <1>3, <1>4 DEF Inv, TypeOK
<1>6. SizesHold' /\ Gate' /\ InStepDeep' /\ DepthBounded' /\ SecondCheckAgrees'
  BY <1>1, <1>2, <1>4
     DEF Inv, SizesHold, Gate, InStepDeep, DepthBounded, SecondCheckAgrees
<1>7. OnlyLastLost'
  <2>1. headers = 0 /\ kept = 0 /\ BeingRead = 0
    BY <1>1, BeingReadIs, SumsOfEmpty DEF Inv, Gate
  <2> QED BY <1>1, <1>2, <2>1 DEF OnlyLastLost
<1> QED BY <1>5, <1>6, <1>7 DEF Inv

(* A range NewInformation accepts is one that NewDataset accepts. *)
LEMMA RangesAgree ==
  ASSUME src \in Sources, BlockError = "nil", DatasetError # "nil"
  PROVE  DatasetError = "eof" /\ src.available < src.metadataSize
<1> DEFINE a == src.available  m == src.metadataSize  h == src.headerSize
<1>1. a \in Int /\ m \in Nat /\ h \in Nat
  BY SourceType
<1>2. ~(a < 48) /\ ~(h < 48) /\ ~(h > 4096) /\ ~(m < h) /\ ~(m > 65536)
  BY DEF BlockError, FveMetadataHeaderSize
<1>3. DatasetError = IF a < 48 THEN "eof"
                     ELSE IF m < 48 \/ m > 67108864 THEN "metadataSize"
                     ELSE IF h < 48 \/ h > m THEN "headerSize"
                     ELSE IF a < m THEN "eof" ELSE "nil"
  BY DEF DatasetError, FveMetadataHeaderSize
<1> HIDE DEF a, m, h
<1>4. ~(m < 48 \/ m > 67108864) /\ ~(h < 48 \/ h > m)
  BY <1>1, <1>2
<1>5. DatasetError = "eof" /\ a < m
  BY <1>2, <1>3, <1>4
<1> QED BY <1>5 DEF a, m

(* NewDataset's checks. *)
LEMMA NewDatasetStep == Inv /\ NewDataset => Inv'
<1> SUFFICES ASSUME Inv, NewDataset PROVE Inv'
  OBVIOUS
<1>1. /\ pc = "dataset" /\ err' = DatasetError /\ src' = src
      /\ pc' = IF DatasetError = "nil" THEN "parse" ELSE "failed"
      /\ remaining' = IF DatasetError = "nil" THEN Total ELSE 0
      /\ pos' = pos /\ stack' = stack
      /\ headers' = headers /\ kept' = kept /\ flaws' = flaws
  BY DEF NewDataset
<1>2. /\ BlockError' = BlockError /\ DatasetError' = DatasetError /\ Total' = Total
      /\ BeingRead' = BeingRead
  BY <1>1, SameSource, BeingReadIs
<1>3. DatasetError \in {"nil", "eof", "headerSize", "metadataSize"}
  BY DEF DatasetError
<1>4. /\ src \in Sources /\ stack = <<>> /\ pos = 0 /\ headers = 0 /\ kept = 0
      /\ DatasetError = "nil" => Total \in Nat
  BY <1>1, SourceType DEF Inv, TypeOK, Gate
<1>5. pc' \in {"parse", "failed"} /\ (pc' = "parse" <=> DatasetError = "nil")
  BY <1>1
<1>6. TypeOK'
  BY <1>1, <1>2, <1>3, <1>4, <1>5 DEF Inv, TypeOK
<1>7. BeingRead = 0 /\ Bytes(stack) = 0 /\ Len(stack) = 0
  BY <1>4, BeingReadIs, SumsOfEmpty
<1>8. SizesHold' /\ Gate' /\ DepthBounded'
  BY <1>1, <1>2, <1>4, <1>5, <1>7 DEF Inv, SizesHold, Gate, DepthBounded
<1>9. InStepDeep'
  BY <1>1, <1>2, <1>4, <1>5, <1>7 DEF InStepDeep
<1>10. OnlyLastLost'
  BY <1>1, <1>2, <1>4, <1>7 DEF OnlyLastLost
<1>11. SecondCheckAgrees'
  BY <1>1, <1>2, <1>4, <1>5, RangesAgree DEF SecondCheckAgrees
<1> QED BY <1>6, <1>8, <1>9, <1>10, <1>11 DEF Inv

(* What the invariant says while datums are read. *)
LEMMA InParse ==
  ASSUME Inv, pc = "parse"
  PROVE  /\ src \in Sources /\ DatasetError = "nil" /\ Total \in Nat
         /\ pos \in Nat /\ headers \in Nat /\ kept \in Nat /\ remaining \in Int
         /\ pos <= Total /\ 12 * Len(stack) <= pos
         /\ stack \in Seq(Frame) /\ Len(stack) \in Nat
         /\ Datums(stack) \in Int /\ Bytes(stack) \in Int
         /\ flaws = {} => pos = Total - remaining + Bytes(stack)
         /\ headers - kept - Datums(stack) \in {0, 1}
         /\ pos < Total => headers - kept - Datums(stack) = 0
<1>1. /\ src \in Sources /\ DatasetError = "nil" /\ Total \in Nat
      /\ pos \in Nat /\ headers \in Nat /\ kept \in Nat /\ remaining \in Int
      /\ pos <= Total /\ 12 * Len(stack) <= pos
  BY SourceType DEF Inv, TypeOK, Gate, DepthBounded
<1>2. stack \in Seq(Frame)
  BY DEF Inv, TypeOK, Frame
<1>3. Len(stack) \in Nat /\ Datums(stack) \in Int /\ Bytes(stack) \in Int
  BY <1>2, SumsAreIntegers, LenProperties
<1>4. flaws = {} => pos = Total - remaining + Bytes(stack)
  BY DEF Inv, InStepDeep
<1>5. /\ headers - kept - Datums(stack) \in {0, 1}
      /\ headers - kept - Datums(stack) = 1 => pos = Total
  BY BeingReadIs DEF Inv, OnlyLastLost
<1>6. pos < Total => headers - kept - Datums(stack) = 0
  BY <1>1, <1>5
<1> QED BY <1>1, <1>2, <1>3, <1>4, <1>5, <1>6

(* What a step of the parse has to establish. *)
LEMMA ParseStep ==
  ASSUME Inv, pc = "parse", src' = src, err' = err,
         pc' \in {"parse", "done"},
         pos' \in Nat, headers' \in Nat, kept' \in Nat, remaining' \in Int,
         pos' <= Total, 12 * Len(stack') <= pos',
         stack' \in Seq(Frame), \A j \in 1..Len(stack') : stack'[j].size >= 12,
         flaws' \subseteq {"small", "unread", "padding", "overrun", "cut"},
         flaws' = {} => pos' = Total - remaining' + Bytes(stack'),
         headers' - kept' - Datums(stack') \in {0, 1},
         headers' - kept' - Datums(stack') = 1 => pos' = Total \/ pc' = "done"
  PROVE  Inv'
<1>1. Total' = Total /\ DatasetError' = DatasetError
  BY SameSource
<1>2. TypeOK'
  BY <1>1 DEF Inv, TypeOK, Frame
<1>3. SizesHold'
  BY DEF SizesHold
<1>4. Gate' /\ SecondCheckAgrees'
  BY <1>1, InParse DEF Gate, SecondCheckAgrees
<1>5. InStepDeep'
  BY <1>1 DEF InStepDeep
<1>6. OnlyLastLost'
  BY <1>1, BeingReadIs DEF OnlyLastLost
<1>7. DepthBounded'
  BY DEF DepthBounded
<1> QED BY <1>2, <1>3, <1>4, <1>5, <1>6, <1>7 DEF Inv

(* ReadDatum of a datum without properties. *)
LEMMA ReadSimpleStep ==
  ASSUME Inv, NEW h \in Headers, ReadSimple(h)
  PROVE  Inv'
<1>1. /\ pc = "parse" /\ ~HasProperties(h)
      /\ pos + Consumed(h) <= Total /\ pos' = pos + Consumed(h)
      /\ headers' = headers + 1 /\ flaws' = flaws \union SizeFlaws(h)
      /\ ReturnDatum(h.size, 0, stack) /\ src' = src /\ err' = err
  BY DEF ReadSimple, WantsDatum
<1>2. /\ src \in Sources /\ DatasetError = "nil" /\ Total \in Nat
      /\ pos \in Nat /\ headers \in Nat /\ kept \in Nat /\ remaining \in Int
      /\ pos <= Total /\ 12 * Len(stack) <= pos
      /\ stack \in Seq(Frame) /\ Len(stack) \in Nat
      /\ Datums(stack) \in Int /\ Bytes(stack) \in Int
      /\ flaws = {} => pos = Total - remaining + Bytes(stack)
      /\ pos < Total => headers - kept - Datums(stack) = 0
  BY <1>1, InParse
<1>3. /\ h.size \in Nat /\ Consumed(h) \in Nat /\ Consumed(h) >= 8
      /\ SizeFlaws(h) = {} => Consumed(h) = h.size
  BY <1>1, HeaderType
<1>4. \A j \in 1..Len(stack) : stack[j].size >= 12
  BY DEF Inv, SizesHold
<1>5. /\ stack' \in Seq(Frame) /\ Len(stack') = Len(stack)
      /\ \A j \in 1..Len(stack') : stack'[j].size >= 12
      /\ kept' \in Nat /\ remaining' \in Int /\ pc' \in {"parse", "done"}
      /\ h.size >= 8 \/ stack # <<>> =>
           /\ kept' + Datums(stack') = kept + Datums(stack) + 1 + 0
           /\ Bytes(stack') - remaining' = Bytes(stack) - remaining + h.size
      /\ h.size < 8 /\ stack = <<>> =>
           pc' = "done" /\ kept' + Datums(stack') = kept + Datums(stack)
  <2>1. 0 \in Nat
    OBVIOUS
  <2>2. h.size \in Nat /\ stack \in Seq(Frame) /\ kept \in Nat /\ remaining \in Int
    BY <1>2, <1>3
  <2>3. pc = "parse" /\ ReturnDatum(h.size, 0, stack)
    BY <1>1
  <2> QED BY <1>4, <2>1, <2>2, <2>3, ReturnDatumEffect, Zenon
<1>6. Datums(stack') \in Int /\ Bytes(stack') \in Int
  BY <1>5, SumsAreIntegers
<1>7. /\ pos' \in Nat /\ headers' \in Nat /\ pos' <= Total /\ 12 * Len(stack') <= pos'
  BY <1>1, <1>2, <1>3, <1>5, SMTT(30)
<1> PICK e \in Int, c \in Int, r \in Int, k \in Nat :
         e = Datums(stack') /\ c = Bytes(stack') /\ r = remaining' /\ k = kept'
  BY <1>5, <1>6
<1> DEFINE d == Datums(stack)  b == Bytes(stack)  z == h.size  u == Consumed(h)
<1>8. flaws' \subseteq {"small", "unread", "padding", "overrun", "cut"}
  BY <1>1 DEF Inv, TypeOK, SizeFlaws
<1>9. ASSUME flaws' = {} PROVE pos' = Total - r + c
  <2>1. flaws = {} /\ SizeFlaws(h) = {}
    BY <1>1, <1>9
  <2>2. u = z /\ z >= 8 /\ z \in Nat /\ pos = Total - remaining + b /\ pos' = pos + u
    BY <1>1, <1>2, <1>3, <2>1
  <2>3. c - r = b - remaining + z
    BY <1>5, <2>2
  <2>4. b \in Int /\ remaining \in Int /\ Total \in Int
    BY <1>2, <1>5, <1>6
  <2> HIDE DEF b, z, u
  <2> QED BY <2>2, <2>3, <2>4
<1>10. /\ headers' - k - e \in {0, 1}
       /\ headers' - k - e = 1 => pc' = "done"
  <2>1. headers - kept - d = 0
    BY <1>1, <1>2, <1>3, SMTT(30)
  <2>2. \/ k + e = kept + d + 1
        \/ pc' = "done" /\ k + e = kept + d
    <3>1. CASE h.size >= 8 \/ stack # <<>>
      <4>1. kept' + Datums(stack') = kept + Datums(stack) + 1 + 0
        BY <1>5, <3>1
      <4>2. k + e = kept + d + 1 + 0
        BY <4>1
      <4>3. d \in Int /\ kept \in Int
        BY <1>2
      <4> HIDE DEF d
      <4> QED BY <4>2, <4>3
    <3>2. CASE h.size < 8 /\ stack = <<>>
      BY <1>5, <3>2
    <3> QED BY <1>3, <3>1, <3>2
  <2>3. d \in Int
    BY <1>2, <1>6
  <2>4. headers' = headers + 1 /\ headers \in Nat /\ kept \in Nat
    BY <1>1, <1>2
  <2> HIDE DEF d
  <2> QED BY <2>1, <2>2, <2>3, <2>4
<1> QED BY <1>1, <1>5, <1>7, <1>8, <1>9, <1>10, ParseStep

(* ReadDatum of a complex datum, up to its properties. *)
LEMMA ReadComplexStep ==
  ASSUME Inv, NEW h \in Headers, ReadComplex(h)
  PROVE  Inv'
<1> DEFINE f == [size |-> h.size, left |-> DataSize(h), inner |-> 0]
<1>1. /\ pc = "parse" /\ HasProperties(h)
      /\ pos + Consumed(h) <= Total /\ pos' = pos + Consumed(h)
      /\ headers' = headers + 1 /\ stack' = Append(stack, f)
      /\ src' = src /\ pc' = pc /\ err' = err
      /\ remaining' = remaining /\ kept' = kept /\ flaws' = flaws
  BY DEF ReadComplex, WantsDatum
<1>2. /\ src \in Sources /\ DatasetError = "nil" /\ Total \in Nat
      /\ pos \in Nat /\ headers \in Nat /\ kept \in Nat /\ remaining \in Int
      /\ pos <= Total /\ 12 * Len(stack) <= pos
      /\ stack \in Seq(Frame) /\ Len(stack) \in Nat
      /\ Datums(stack) \in Int /\ Bytes(stack) \in Int
      /\ flaws = {} => pos = Total - remaining + Bytes(stack)
      /\ pos < Total => headers - kept - Datums(stack) = 0
  BY <1>1, InParse
<1>3. /\ h.size \in Nat /\ DataSize(h) \in Int /\ Consumed(h) \in Nat /\ Consumed(h) >= 12
      /\ h.size >= 12 /\ Consumed(h) = h.size - DataSize(h)
  BY <1>1, HeaderType
<1>4. f \in Frame /\ f.inner = 0 /\ f.size = h.size /\ f.left = DataSize(h)
  BY <1>3 DEF Frame
<1> HIDE DEF f
<1>5. /\ stack' \in Seq(Frame) /\ Len(stack') = Len(stack) + 1
      /\ \A j \in 1..Len(stack) : stack'[j] = stack[j]
      /\ stack'[Len(stack')] = f
  BY <1>1, <1>2, <1>4, AppendProperties
<1>6. /\ Datums(stack') = Datums(stack) + (1 + f.inner)
      /\ Bytes(stack') = Bytes(stack) + (f.size - f.left)
  BY <1>2, <1>5, SumsOfTop
<1>7. \A j \in 1..Len(stack') : stack'[j].size >= 12
  <2> SUFFICES ASSUME NEW j \in 1..Len(stack') PROVE stack'[j].size >= 12
    OBVIOUS
  <2>1. CASE j = Len(stack')
    BY <1>3, <1>4, <1>5, <2>1
  <2>2. CASE j # Len(stack')
    <3>1. j \in 1..Len(stack)
      BY <1>2, <1>5, <2>2
    <3> QED BY <1>5, <3>1 DEF Inv, SizesHold
  <2> QED BY <2>1, <2>2
<1> DEFINE d == Datums(stack)  b == Bytes(stack)  n == Len(stack)  u == Consumed(h)
<1>8. pos' \in Nat /\ headers' \in Nat /\ pos' <= Total /\ 12 * Len(stack') <= pos'
  <2>1. 12 * n <= pos /\ pos' = pos + u /\ u >= 12 /\ u \in Nat /\ n \in Nat /\ pos \in Nat
    BY <1>1, <1>2, <1>3
  <2>2. 12 * (n + 1) <= pos'
    <3> HIDE DEF n, u
    <3> QED BY <2>1
  <2> QED BY <1>1, <1>2, <1>5, <2>1, <2>2
<1>9. ASSUME flaws' = {} PROVE pos' = Total - remaining' + Bytes(stack')
  <2>1. pos = Total - remaining + b /\ pos' = pos + u /\ Bytes(stack') = b + u
    BY <1>1, <1>2, <1>3, <1>4, <1>6, <1>9
  <2>2. b \in Int /\ u \in Int /\ remaining' = remaining /\ remaining \in Int /\ Total \in Int
    BY <1>1, <1>2, <1>3
  <2> HIDE DEF b, u
  <2> QED BY <2>1, <2>2
<1>10. headers' - kept' - Datums(stack') = 0
  <2>a. PICK c \in Nat : c = Consumed(h) /\ c >= 12
    BY <1>3
  <2>b. pos < Total
    BY <1>1, <1>2, <2>a
  <2>c. Datums(stack') = d + (1 + 0)
    BY <1>4, <1>6
  <2>1. headers - kept - d = 0 /\ Datums(stack') = d + (1 + 0) /\ headers' = headers + 1
    BY <1>1, <1>2, <2>b, <2>c
  <2>2. d \in Int /\ kept' = kept /\ kept \in Nat /\ headers \in Nat
    BY <1>1, <1>2
  <2> HIDE DEF d
  <2> QED BY <2>1, <2>2
<1>11. flaws' \subseteq {"small", "unread", "padding", "overrun", "cut"}
  BY <1>1 DEF Inv, TypeOK
<1>12. pc' \in {"parse", "done"} /\ kept' \in Nat /\ remaining' \in Int
  BY <1>1, <1>2
<1>13. headers' - kept' - Datums(stack') \in {0, 1} /\ headers' - kept' - Datums(stack') # 1
  BY <1>10
<1> QED BY <1>1, <1>5, <1>7, <1>8, <1>9, <1>11, <1>12, <1>13, ParseStep

(* A complex datum is returned: its datums and its bytes move to the caller. *)
LEMMA PopEffect ==
  ASSUME Inv, pc = "parse", stack # <<>>, ReturnDatum(Top.size, Top.inner, Front(stack))
  PROVE  /\ stack' \in Seq(Frame) /\ Len(stack') = Len(stack) - 1
         /\ \A j \in 1..Len(stack') : stack'[j].size >= 12
         /\ kept' \in Nat /\ remaining' \in Int /\ pc' \in {"parse", "done"}
         /\ kept' + Datums(stack') = kept + Datums(stack)
         /\ Top.left \in Int
         /\ Bytes(stack') - remaining' = Bytes(stack) + Top.left - remaining
<1>1. /\ kept \in Nat /\ remaining \in Int /\ stack \in Seq(Frame) /\ Len(stack) \in Nat
      /\ Datums(stack) \in Int /\ Bytes(stack) \in Int
  BY InParse
<1> DEFINE c == Front(stack)  f == Top
<1>2. /\ c \in Seq(Frame) /\ Len(c) = Len(stack) - 1
      /\ \A j \in 1..(Len(stack) - 1) : c[j] = stack[j]
  BY <1>1, FrontLemma
<1>3. /\ f \in Frame
      /\ Datums(stack) = Datums(c) + (1 + f.inner)
      /\ Bytes(stack) = Bytes(c) + (f.size - f.left)
  BY <1>1, SumsOfFront DEF Top
<1>4. Len(stack) \in 1..Len(stack)
  BY <1>1, EmptySeq
<1>5. f.size >= 12
  BY <1>4 DEF Inv, SizesHold, Top
<1>6. \A j \in 1..Len(c) : c[j].size >= 12
  <2> SUFFICES ASSUME NEW j \in 1..Len(c) PROVE c[j].size >= 12
    OBVIOUS
  <2>1. j \in 1..(Len(stack) - 1) /\ j \in 1..Len(stack)
    BY <1>1, <1>2
  <2>2. c[j] = stack[j]
    BY <1>2, <2>1
  <2>3. stack[j].size >= 12
    BY <2>1 DEF Inv, SizesHold
  <2> QED BY <2>2, <2>3
<1>7. Datums(c) \in Int /\ Bytes(c) \in Int
  BY <1>2, SumsAreIntegers
<1>8. f.size \in Nat /\ f.inner \in Nat /\ f.left \in Int
  BY <1>3 DEF Frame
<1>9. ReturnDatum(f.size, f.inner, c)
  OBVIOUS
<1> HIDE DEF c, f
<1>10. /\ stack' \in Seq(Frame) /\ Len(stack') = Len(c)
       /\ \A j \in 1..Len(stack') : stack'[j].size >= 12
       /\ kept' \in Nat /\ remaining' \in Int /\ pc' \in {"parse", "done"}
       /\ f.size >= 8 \/ c # <<>> =>
            /\ kept' + Datums(stack') = kept + Datums(c) + 1 + f.inner
            /\ Bytes(stack') - remaining' = Bytes(c) - remaining + f.size
  BY <1>1, <1>2, <1>6, <1>8, <1>9, ReturnDatumEffect
<1>11. f.size >= 8
  BY <1>5, <1>8
<1>12. kept' + Datums(stack') = kept + Datums(stack)
  <2>1. kept' + Datums(stack') = kept + Datums(c) + 1 + f.inner
    BY <1>10, <1>11
  <2> PICK dc \in Int, i \in Nat : dc = Datums(c) /\ i = f.inner
    BY <1>7, <1>8
  <2>2. kept + dc + 1 + i = kept + (dc + (1 + i))
    BY <1>1
  <2> QED BY <1>3, <2>1, <2>2
<1>13. Bytes(stack') - remaining' = Bytes(stack) + f.left - remaining
  <2>1. Bytes(stack') - remaining' = Bytes(c) - remaining + f.size
    BY <1>10, <1>11
  <2>2. PICK bc \in Int, z \in Nat, l \in Int : bc = Bytes(c) /\ z = f.size /\ l = f.left
    BY <1>7, <1>8
  <2>3. remaining \in Int
    BY <1>1
  <2>4. bc - remaining + z = (bc + (z - l)) + l - remaining
    BY <2>3
  <2> QED BY <1>3, <2>1, <2>2, <2>4
<1> QED BY <1>2, <1>8, <1>10, <1>12, <1>13 DEF f

(* readProperties has no room for another property. *)
LEMMA LeaveComplexStep == Inv /\ LeaveComplex => Inv'
<1> SUFFICES ASSUME Inv, LeaveComplex PROVE Inv'
  OBVIOUS
<1>1. /\ pc = "parse" /\ stack # <<>>
      /\ flaws' = flaws \union (IF Top.left > 0 THEN {"padding"} ELSE {})
                        \union (IF Top.left < 0 THEN {"overrun"} ELSE {})
      /\ ReturnDatum(Top.size, Top.inner, Front(stack))
      /\ src' = src /\ err' = err /\ pos' = pos /\ headers' = headers
  BY DEF LeaveComplex
<1>2. /\ Total \in Nat
      /\ pos \in Nat /\ headers \in Nat /\ kept \in Nat /\ remaining \in Int
      /\ pos <= Total /\ 12 * Len(stack) <= pos /\ Len(stack) \in Nat
      /\ stack \in Seq(Frame)
      /\ Datums(stack) \in Int /\ Bytes(stack) \in Int
      /\ flaws = {} => pos = Total - remaining + Bytes(stack)
      /\ headers - kept - Datums(stack) \in {0, 1}
      /\ pos < Total => headers - kept - Datums(stack) = 0
  BY <1>1, InParse
<1>3. /\ stack' \in Seq(Frame) /\ Len(stack') = Len(stack) - 1
      /\ \A j \in 1..Len(stack') : stack'[j].size >= 12
      /\ kept' \in Nat /\ remaining' \in Int /\ pc' \in {"parse", "done"}
      /\ kept' + Datums(stack') = kept + Datums(stack)
      /\ Top.left \in Int
      /\ Bytes(stack') - remaining' = Bytes(stack) + Top.left - remaining
  BY <1>1, PopEffect
<1>4. Datums(stack') \in Int /\ Bytes(stack') \in Int
  BY <1>3, SumsAreIntegers
<1>5. /\ pos' \in Nat /\ headers' \in Nat /\ pos' <= Total /\ 12 * Len(stack') <= pos'
  BY <1>1, <1>2, <1>3
<1>6. flaws' \subseteq {"small", "unread", "padding", "overrun", "cut"}
  BY <1>1 DEF Inv, TypeOK
<1>7. ASSUME flaws' = {} PROVE pos' = Total - remaining' + Bytes(stack')
  <2>1. PICK b \in Int, c \in Int, r \in Int, l \in Int, m \in Int :
               /\ b = Bytes(stack) /\ c = Bytes(stack') /\ r = remaining'
               /\ l = Top.left /\ m = Total
    <3>1. /\ Bytes(stack) \in Int /\ Bytes(stack') \in Int /\ remaining' \in Int
          /\ Top.left \in Int /\ Total \in Int
      BY <1>2, <1>3, <1>4
    <3> QED BY <3>1
  <2>2. flaws = {} /\ ~(l > 0) /\ ~(l < 0)
    BY <1>1, <1>7, <2>1
  <2>3. /\ pos = m - remaining + b /\ c - r = b + l - remaining
        /\ l = 0 /\ remaining \in Int /\ pos \in Int
    <3>1. pos = Total - remaining + Bytes(stack)
      BY <1>2, <2>2
    <3>2. Bytes(stack') - remaining' = Bytes(stack) + Top.left - remaining
      BY <1>3
    <3>3. remaining \in Int /\ pos \in Int
      BY <1>2
    <3>4. l = 0
      BY <2>2
    <3> QED BY <2>1, <3>1, <3>2, <3>3, <3>4
  <2>4. pos = m - r + c
    BY <2>3
  <2> QED BY <1>1, <2>1, <2>4
<1>8. headers' - kept' - Datums(stack') = headers - kept - Datums(stack)
  <2>1. PICK d \in Int, e \in Int, k \in Nat :
               d = Datums(stack) /\ e = Datums(stack') /\ k = kept'
    BY <1>2, <1>3, <1>4
  <2>2. k + e = kept + d /\ kept \in Nat /\ headers \in Nat
    BY <1>2, <1>3, <2>1
  <2>3. headers - k - e = headers - kept - d
    BY <2>2
  <2> QED BY <1>1, <2>1, <2>3
<1>9. /\ headers' - kept' - Datums(stack') \in {0, 1}
      /\ headers' - kept' - Datums(stack') = 1 => pos' = Total
  BY <1>1, <1>2, <1>8
<1> QED BY <1>1, <1>3, <1>5, <1>6, <1>7, <1>9, ParseStep

(* The end of the reader, with or without a header read before it. *)
LEMMA ReaderEndsStep ==
  ASSUME Inv, pc = "parse", ReaderEnds, NEW u \in {0, 1}, headers' = headers + u,
         u = 1 => pos < Total
  PROVE  Inv'
<1>1. pos' = Total /\ flaws' = flaws \union {"cut"} /\ src' = src /\ err' = err
  BY DEF ReaderEnds
<1>2. /\ Total \in Nat
      /\ pos \in Nat /\ headers \in Nat /\ kept \in Nat /\ remaining \in Int
      /\ pos <= Total /\ 12 * Len(stack) <= pos /\ Len(stack) \in Nat
      /\ stack \in Seq(Frame)
      /\ Datums(stack) \in Int
      /\ headers - kept - Datums(stack) \in {0, 1}
      /\ pos < Total => headers - kept - Datums(stack) = 0
  BY InParse
<1>3. /\ pos' \in Nat /\ pos' <= Total /\ headers' \in Nat
  BY <1>1, <1>2
<1>4. flaws' \subseteq {"small", "unread", "padding", "overrun", "cut"} /\ flaws' # {}
  BY <1>1 DEF Inv, TypeOK
<1>5. headers' - kept - Datums(stack) \in {0, 1}
  <2> PICK d \in Int : d = Datums(stack)
    BY <1>2
  <2>1. headers - kept - d \in {0, 1} /\ (u = 1 => headers - kept - d = 0)
    BY <1>2
  <2>2. (headers + u) - kept - d \in {0, 1}
    BY <1>2, <2>1
  <2> QED BY <2>2
<1>6. CASE stack = <<>>
  <2>1. pc' = "done" /\ remaining' = remaining /\ kept' = kept /\ stack' = stack
    BY <1>6 DEF ReaderEnds
  <2>2. \A j \in 1..Len(stack') : stack'[j].size >= 12
    BY <2>1 DEF Inv, SizesHold
  <2>3. 12 * Len(stack') <= pos'
    BY <1>1, <1>2, <2>1
  <2> QED BY <1>1, <1>2, <1>3, <1>4, <1>5, <2>1, <2>2, <2>3, ParseStep
<1>7. CASE stack # <<>>
  <2>1. ReturnDatum(Top.size, Top.inner, Front(stack))
    BY <1>7 DEF ReaderEnds
  <2>2. /\ stack' \in Seq(Frame) /\ Len(stack') = Len(stack) - 1
        /\ \A j \in 1..Len(stack') : stack'[j].size >= 12
        /\ kept' \in Nat /\ remaining' \in Int /\ pc' \in {"parse", "done"}
        /\ kept' + Datums(stack') = kept + Datums(stack)
    BY <1>7, <2>1, PopEffect
  <2>3. 12 * Len(stack') <= pos'
    BY <1>1, <1>2, <2>2
  <2>4. headers' - kept' - Datums(stack') = headers' - kept - Datums(stack)
    <3>1. PICK d \in Int, e \in Int, k \in Nat, h \in Nat :
                 d = Datums(stack) /\ e = Datums(stack') /\ k = kept' /\ h = headers'
      BY <1>2, <1>3, <2>2, SumsAreIntegers
    <3>2. k + e = kept + d /\ kept \in Nat
      BY <1>2, <2>2, <3>1
    <3>3. h - k - e = h - kept - d
      BY <3>2
    <3> QED BY <3>1, <3>3
  <2> QED BY <1>1, <1>3, <1>4, <1>5, <2>2, <2>3, <2>4, ParseStep
<1> QED BY <1>6, <1>7

(* The reader ends in a header. *)
LEMMA NoHeaderStep == Inv /\ NoHeader => Inv'
<1> SUFFICES ASSUME Inv, NoHeader PROVE Inv'
  OBVIOUS
<1>1. pc = "parse" /\ headers' = headers /\ ReaderEnds
  BY DEF NoHeader, WantsDatum
<1>2. 0 \in {0, 1} /\ headers' = headers + 0
  BY <1>1, InParse
<1> QED BY <1>1, <1>2, ReaderEndsStep

(* The reader ends behind a header. *)
LEMMA CutDatumStep ==
  ASSUME Inv, NEW h \in Headers, CutDatum(h)
  PROVE  Inv'
<1>1. pc = "parse" /\ headers' = headers + 1 /\ ReaderEnds /\ pos + 8 <= Total
  BY DEF CutDatum, WantsDatum, FveDatumSize
<1>2. 1 \in {0, 1} /\ pos < Total
  BY <1>1, InParse
<1> QED BY <1>1, <1>2, ReaderEndsStep

(* readData's loop ends. *)
LEMMA StopStep == Inv /\ Stop => Inv'
<1> SUFFICES ASSUME Inv, Stop PROVE Inv'
  OBVIOUS
<1>1. /\ pc = "parse" /\ pc' = "done" /\ src' = src /\ err' = err
      /\ pos' = pos /\ remaining' = remaining /\ stack' = stack
      /\ headers' = headers /\ kept' = kept /\ flaws' = flaws
  BY DEF Stop, parser
<1>2. /\ pos \in Nat /\ headers \in Nat /\ kept \in Nat /\ remaining \in Int
      /\ pos <= Total /\ 12 * Len(stack) <= pos /\ stack \in Seq(Frame)
      /\ flaws = {} => pos = Total - remaining + Bytes(stack)
      /\ headers - kept - Datums(stack) \in {0, 1}
  BY <1>1, InParse
<1>3. /\ \A j \in 1..Len(stack) : stack[j].size >= 12
      /\ flaws \subseteq {"small", "unread", "padding", "overrun", "cut"}
  BY DEF Inv, SizesHold, TypeOK
<1> QED BY <1>1, <1>2, <1>3, ParseStep

(* A step that changes nothing. *)
LEMMA StutterStep == Inv /\ UNCHANGED vars => Inv'
BY DEF vars, Inv, TypeOK, SizesHold, Gate, InStepDeep, OnlyLastLost, DepthBounded,
       SecondCheckAgrees, Total, DatasetError, BlockError, BeingRead, Bytes

(* The inductive invariant holds throughout a parse by NewInformation or NewDataset. *)
THEOREM ParserInvariant == Spec => []Inv
<1>1. Inv /\ [Next]_vars => Inv'
  <2> SUFFICES ASSUME Inv, [Next]_vars PROVE Inv'
    OBVIOUS
  <2>1. CASE CheckBlock
    BY <2>1, CheckBlockStep
  <2>2. CASE NewDataset
    BY <2>2, NewDatasetStep
  <2>3. ASSUME NEW h \in Headers, ReadSimple(h) PROVE Inv'
    BY <2>3, ReadSimpleStep
  <2>4. ASSUME NEW h \in Headers, ReadComplex(h) PROVE Inv'
    BY <2>4, ReadComplexStep
  <2>5. ASSUME NEW h \in Headers, CutDatum(h) PROVE Inv'
    BY <2>5, CutDatumStep
  <2>6. CASE NoHeader
    BY <2>6, NoHeaderStep
  <2>7. CASE LeaveComplex
    BY <2>7, LeaveComplexStep
  <2>8. CASE Stop
    BY <2>8, StopStep
  <2>9. CASE UNCHANGED vars
    BY <2>9, StutterStep
  <2> QED BY <2>1, <2>2, <2>3, <2>4, <2>5, <2>6, <2>7, <2>8, <2>9 DEF Next
<1> QED BY InitInv, <1>1, PTL DEF Spec
---------------------------------------------------------------------------
(* The properties. *)

(* The parser's variables have their types, and the reader never leaves    *)
(* the bytes NewDataset has read.                                          *)
THEOREM TypeCorrect == Spec => []TypeOK
<1>1. Inv => TypeOK
  BY DEF Inv
<1> QED BY ParserInvariant, <1>1, PTL

(* InStepUnlessFlawed: for metadata of any size and datums nested to any   *)
(* depth, the sizes readData and readProperties subtract are the bytes     *)
(* ReadDatum has taken from the reader, unless a datum is flawed.          *)
THEOREM ParsesInStep == Spec => []InStepUnlessFlawed
<1>1. Inv => InStepUnlessFlawed
  <2> SUFFICES ASSUME Inv, AtTopLevel, flaws = {} PROVE InStep
    BY DEF InStepUnlessFlawed
  <2>1. pos = Total - remaining + Bytes(stack) /\ stack = <<>>
    BY DEF Inv, InStepDeep, AtTopLevel
  <2>2. Bytes(stack) = 0
    BY <2>1, SumsOfEmpty
  <2>3. Total \in Int /\ remaining \in Int
    BY SourceType DEF Inv, TypeOK, Gate, AtTopLevel
  <2> QED BY <2>1, <2>2, <2>3 DEF InStep
<1> QED BY ParserInvariant, <1>1, PTL

(* OnlyLastLost: ReadDatum loses no datum but the last one whose header it *)
(* read, whatever sizes the metadata claims.                               *)
THEOREM LosesOnlyTheLast == Spec => []OnlyLastLost
<1>1. Inv => OnlyLastLost
  BY DEF Inv
<1> QED BY ParserInvariant, <1>1, PTL

(* DepthBounded: the recursion of ReadDatum and readProperties is no       *)
(* deeper than a twelfth of the bytes read.                                *)
THEOREM DepthIsBounded == Spec => []DepthBounded
<1>1. Inv => DepthBounded
  BY DEF Inv
<1> QED BY ParserInvariant, <1>1, PTL

(* SecondCheckAgrees: NewDataset rejects no block NewInformation accepted, *)
(* but for a source that ends before its metadata.                         *)
THEOREM SecondCheckPasses == Spec => []SecondCheckAgrees
<1>1. Inv => SecondCheckAgrees
  BY DEF Inv
<1> QED BY ParserInvariant, <1>1, PTL
===============================================================================
