----------------------------- MODULE DatumParser -----------------------------
(***************************************************************************)
(* NewInformation, NewDataset, readData, ReadDatum and readProperties      *)
(* (information.go): the checks of the two headers, then the datums of the *)
(* metadata, read recursively from one bytes.Reader. ReadDatum and         *)
(* readProperties call each other; their activations are the stack.        *)
(*                                                                         *)
(* Sizes and positions are bytes. The reader only moves forward and every  *)
(* byte is read once, so the contents of the metadata are chosen when they *)
(* are read: a header is any element of Headers.                           *)
(***************************************************************************)
EXTENDS Integers, Sequences, SequencesExt

CONSTANTS
  Sources,   \* the places NewInformation or NewDataset may be called on
  Headers    \* the datum headers the bytes may decode to

(* The structures behind a datum header and their binary.Size. *)
StructSize ==
  [Key |-> 4, StretchKey |-> 20, UseKey |-> 4, AesCcmEncryptedKey |-> 28, Unicode |-> 0,
   VolumeMasterKeyInfo |-> 28, ExternalInfo |-> 24, VirtualizationInfo |-> 16, Other |-> 0]

Types == DOMAIN StructSize
Complex == {"StretchKey", "UseKey", "VolumeMasterKeyInfo", "ExternalInfo"}
WithPayload == {"Key", "AesCcmEncryptedKey", "Unicode", "Other"}

FveDatumSize == 8
FveMetadataHeaderSize == 48

(***************************************************************************)
(* A source: who parses it, whether the block has the signature, the two   *)
(* fields of its metadata header, and how many bytes the source still has  *)
(* from that header on (-1: not even the block header before it).          *)
(***************************************************************************)
ASSUME ParserAssumption ==
  /\ Sources \subseteq [caller : {"NewInformation", "NewDataset"}, signature : BOOLEAN,
                        metadataSize : Nat, headerSize : Nat, available : Nat \union {-1}]
  /\ Headers \subseteq [type : Types, size : Nat]
  /\ \A h \in Headers : h.size < 65536

VARIABLES
  src,
  pc,         \* "block", "dataset", "parse", "done" or "failed"
  err,        \* why the source was rejected
  pos,        \* position of the bytes.Reader
  remaining,  \* readData's remaining
  stack,      \* the complex datums being read, the outermost first
  headers,    \* history: datum headers read
  kept,       \* datums in ds.data, their properties included
  flaws       \* history: what in the datums does not fit together

vars == <<src, pc, err, pos, remaining, stack, headers, kept, flaws>>
parser == <<pos, remaining, stack, headers, kept, flaws>>

(* len(ds.buf[start:end]), the bytes of the datums. *)
Total == src.metadataSize - src.headerSize

Init ==
  /\ src \in Sources
  /\ pc = IF src.caller = "NewInformation" THEN "block" ELSE "dataset"
  /\ err = "nil"
  /\ pos = 0 /\ remaining = 0
  /\ stack = <<>>
  /\ headers = 0 /\ kept = 0
  /\ flaws = {}

---------------------------------------------------------------------------
(* The headers. *)

(* NewInformation's own checks. *)
BlockError ==
  IF src.available < 0 THEN "eof"
  ELSE IF ~src.signature THEN "signature"
  ELSE IF src.available < FveMetadataHeaderSize THEN "eof"
  ELSE IF src.headerSize < 48 \/ src.headerSize > 4096 THEN "headerSize"
  ELSE IF src.metadataSize < src.headerSize \/ src.metadataSize > 65536 THEN "metadataSize"
  ELSE "nil"

CheckBlock ==
  /\ pc = "block"
  /\ err' = BlockError
  /\ pc' = IF BlockError = "nil" THEN "dataset" ELSE "failed"
  /\ UNCHANGED <<src, parser>>

(* Mutant of DatasetError: the header must be smaller than the metadata. *)
DatasetError_strict ==
  IF src.available < FveMetadataHeaderSize THEN "eof"
  ELSE IF \/ src.metadataSize < FveMetadataHeaderSize
          \/ src.metadataSize > 67108864 THEN "metadataSize"
  ELSE IF \/ src.headerSize < FveMetadataHeaderSize
          \/ src.headerSize >= src.metadataSize THEN "headerSize"
  ELSE IF src.available < src.metadataSize THEN "eof"
  ELSE "nil"

(* NewDataset reads the header again, checks it and reads all of it. *)
DatasetError ==
  IF src.available < FveMetadataHeaderSize THEN "eof"
  ELSE IF \/ src.metadataSize < FveMetadataHeaderSize
          \/ src.metadataSize > 67108864 THEN "metadataSize"
  ELSE IF \/ src.headerSize < FveMetadataHeaderSize
          \/ src.headerSize > src.metadataSize THEN "headerSize"
  ELSE IF src.available < src.metadataSize THEN "eof"
  ELSE "nil"

NewDataset ==
  /\ pc = "dataset"
  /\ err' = DatasetError
  /\ pc' = IF DatasetError = "nil" THEN "parse" ELSE "failed"
  /\ remaining' = IF DatasetError = "nil" THEN Total ELSE 0
  /\ UNCHANGED <<src, pos, stack, headers, kept, flaws>>

---------------------------------------------------------------------------
(* The datums. *)

Top == stack[Len(stack)]

(* readData's loop, or readProperties' in the innermost complex datum. *)
WantsDatum ==
  /\ pc = "parse"
  /\ IF stack = <<>> THEN remaining >= 8 ELSE Top.left >= 8

(* What is left of a datum for its payload or its properties. *)
DataSize(h) == h.size - FveDatumSize - StructSize[h.type]

(* Mutant of Consumed: the structure is decoded without being read past. *)
Consumed_peeks(h) ==
  FveDatumSize
    + (IF h.type \in WithPayload /\ DataSize(h) > 0 THEN DataSize(h) ELSE 0)

(* The bytes ReadDatum itself takes from the reader. *)
Consumed(h) ==
  FveDatumSize + StructSize[h.type]
    + (IF h.type \in WithPayload /\ DataSize(h) > 0 THEN DataSize(h) ELSE 0)

HasProperties(h) == h.type \in Complex /\ DataSize(h) > 0

(* History: a size that does not fit the structure read. *)
SizeFlaws(h) ==
  (IF DataSize(h) < 0 THEN {"small"} ELSE {})
    \union (IF h.type = "VirtualizationInfo" /\ DataSize(h) > 0 THEN {"unread"} ELSE {})

(***************************************************************************)
(* ReadDatum returns a datum, with inner datums among its properties, to   *)
(* the loop that called it: readProperties of the last datum of callers,   *)
(* or readData, which stops at a size below 8.                             *)
(***************************************************************************)
ReturnDatum(size, inner, callers) ==
  \/ /\ callers = <<>> /\ size >= 8
     /\ kept' = kept + 1 + inner
     /\ remaining' = remaining - size
     /\ stack' = <<>>
     /\ pc' = pc
  \/ /\ callers = <<>> /\ size < 8
     /\ stack' = <<>>
     /\ pc' = "done"
     /\ UNCHANGED <<kept, remaining>>
  \/ /\ callers # <<>>
     /\ stack' = [callers EXCEPT ![Len(callers)] =
                   [size |-> @.size, left |-> @.left - size, inner |-> @.inner + 1 + inner]]
     /\ UNCHANGED <<kept, remaining, pc>>

(* Mutant of ReadSimple: the payload is not checked against the end. *)
ReadSimple_unchecked(h) ==
  /\ WantsDatum
  /\ ~HasProperties(h)
  /\ pos + FveDatumSize + StructSize[h.type] <= Total
  /\ pos' = pos + Consumed(h)
  /\ headers' = headers + 1
  /\ flaws' = flaws \union SizeFlaws(h)
  /\ ReturnDatum(h.size, 0, stack)
  /\ UNCHANGED <<src, err>>

(* A datum without properties. *)
ReadSimple(h) ==
  /\ WantsDatum
  /\ ~HasProperties(h)
  /\ pos + Consumed(h) <= Total
  /\ pos' = pos + Consumed(h)
  /\ headers' = headers + 1
  /\ flaws' = flaws \union SizeFlaws(h)
  /\ ReturnDatum(h.size, 0, stack)
  /\ UNCHANGED <<src, err>>

(* A complex datum: readProperties begins. *)
ReadComplex(h) ==
  /\ WantsDatum
  /\ HasProperties(h)
  /\ pos + Consumed(h) <= Total
  /\ pos' = pos + Consumed(h)
  /\ headers' = headers + 1
  /\ stack' = Append(stack, [size |-> h.size, left |-> DataSize(h), inner |-> 0])
  /\ UNCHANGED <<src, pc, err, remaining, kept, flaws>>

(* Mutant of LeaveComplex: the rest of the datum is counted as read. *)
LeaveComplex_onlyRead ==
  /\ pc = "parse" /\ stack # <<>>
  /\ Top.left < 8
  /\ flaws' = flaws \union (IF Top.left > 0 THEN {"padding"} ELSE {})
                    \union (IF Top.left < 0 THEN {"overrun"} ELSE {})
  /\ ReturnDatum(Top.size - FveDatumSize, Top.inner, Front(stack))
  /\ UNCHANGED <<src, err, pos, headers>>

(* Mutant of LeaveComplex: the properties are not handed on. *)
LeaveComplex_forgets ==
  /\ pc = "parse" /\ stack # <<>>
  /\ Top.left < 8
  /\ flaws' = flaws \union (IF Top.left > 0 THEN {"padding"} ELSE {})
                    \union (IF Top.left < 0 THEN {"overrun"} ELSE {})
  /\ ReturnDatum(Top.size, 0, Front(stack))
  /\ UNCHANGED <<src, err, pos, headers>>

(* readProperties returns: too little is left for another property. *)
LeaveComplex ==
  /\ pc = "parse" /\ stack # <<>>
  /\ Top.left < 8
  /\ flaws' = flaws \union (IF Top.left > 0 THEN {"padding"} ELSE {})
                    \union (IF Top.left < 0 THEN {"overrun"} ELSE {})
  /\ ReturnDatum(Top.size, Top.inner, Front(stack))
  /\ UNCHANGED <<src, err, pos, headers>>

(* Mutant of ReaderEnds: readProperties tries again. *)
ReaderEnds_retries ==
  /\ pos' = Total
  /\ flaws' = flaws \union {"cut"}
  /\ \/ /\ stack = <<>>
        /\ pc' = "done"
        /\ UNCHANGED <<remaining, kept, stack>>
     \/ /\ stack # <<>>
        /\ UNCHANGED <<remaining, kept, stack, pc>>
  /\ UNCHANGED <<src, err>>

(***************************************************************************)
(* The reader ends, in the header of a datum or behind it: io.EOF or       *)
(* io.ErrUnexpectedEOF. readData stops; readProperties returns nil with    *)
(* the properties read so far, and its datum is returned as if complete.   *)
(***************************************************************************)
ReaderEnds ==
  /\ pos' = Total
  /\ flaws' = flaws \union {"cut"}
  /\ \/ /\ stack = <<>>
        /\ pc' = "done"
        /\ UNCHANGED <<remaining, kept, stack>>
     \/ /\ stack # <<>>
        /\ ReturnDatum(Top.size, Top.inner, Front(stack))
  /\ UNCHANGED <<src, err>>

NoHeader ==
  /\ WantsDatum
  /\ pos + FveDatumSize > Total
  /\ UNCHANGED headers
  /\ ReaderEnds

CutDatum(h) ==
  /\ WantsDatum
  /\ pos + FveDatumSize <= Total
  /\ pos + Consumed(h) > Total
  /\ headers' = headers + 1
  /\ ReaderEnds

(* readData's loop ends. *)
Stop ==
  /\ pc = "parse" /\ stack = <<>>
  /\ remaining < 8
  /\ pc' = "done"
  /\ UNCHANGED <<src, err, parser>>

Next ==
  \/ CheckBlock \/ NewDataset
  \/ \E h \in Headers : ReadSimple(h) \/ ReadComplex(h) \/ CutDatum(h)
  \/ NoHeader \/ LeaveComplex \/ Stop

(* Fairness: the parser is sequential code that reads from memory. *)
Spec == Init /\ [][Next]_vars /\ WF_vars(Next)

---------------------------------------------------------------------------
(* Types; the reader stays within the metadata. *)
TypeOK ==
  /\ src \in Sources
  /\ pc \in {"block", "dataset", "parse", "done", "failed"}
  /\ err \in {"nil", "eof", "signature", "headerSize", "metadataSize"}
  /\ pos \in Nat /\ headers \in Nat /\ kept \in Nat
  /\ pc \in {"parse", "done"} => pos <= Total
  /\ remaining \in Int
  /\ stack \in Seq([size : Nat, left : Int, inner : Nat])
  /\ flaws \subseteq {"small", "unread", "padding", "overrun", "cut"}

AtTopLevel == pc \in {"parse", "done"} /\ stack = <<>>
InStep == pos = Total - remaining

(***************************************************************************)
(* The sizes readData subtracts are what ReadDatum has really read: after  *)
(* every datum, however deep its properties, the reader stands where the   *)
(* next one begins, unless a size is below that of its structure, a        *)
(* VirtualizationInfo has more than its structure, the properties of a     *)
(* datum do not fill it exactly, or the metadata ends too early.           *)
(***************************************************************************)
InStepUnlessFlawed == AtTopLevel /\ flaws = {} => InStep

(***************************************************************************)
(* Whatever the sizes say, no datum that could be read is lost: each of    *)
(* the headers read belongs to a datum in the dataset, to one being read,  *)
(* or to the single one that was cut off or whose size ended the parse,    *)
(* and after that one nothing is read any more.                            *)
(***************************************************************************)
SumTo(w, n) ==
  LET upTo[j \in 0..n] == IF j = 0 THEN 0 ELSE upTo[j - 1] + w[j] IN upTo[n]

BeingRead == SumTo([j \in 1..Len(stack) |-> 1 + stack[j].inner], Len(stack))

OnlyLastLost ==
  LET lost == headers - kept - BeingRead
  IN  /\ lost \in {0, 1}
      /\ lost = 1 => pos = Total \/ pc = "done"

(***************************************************************************)
(* The recursion is as deep as the metadata is long: every activation of   *)
(* ReadDatum has read its own header and structure, also where the sizes   *)
(* claim that a datum contains one larger than itself.                     *)
(***************************************************************************)
DepthBounded == pc \in {"parse", "done"} => 12 * Len(stack) <= pos

(***************************************************************************)
(* NewDataset's range checks accept whatever NewInformation's accepted: a  *)
(* block passes the second reading of its header unless the source ends    *)
(* before its metadata does.                                               *)
(***************************************************************************)
SecondCheckAgrees ==
  src.caller = "NewInformation" /\ BlockError = "nil" /\ pc = "failed" =>
    err = "eof" /\ src.available < src.metadataSize

(* The parse ends, also where a property claims the size 0. *)
Terminates == <>(pc \in {"done", "failed"})
=============================================================================
