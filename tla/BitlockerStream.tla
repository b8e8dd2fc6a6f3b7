--------------------------- MODULE BitlockerStream ---------------------------
(***************************************************************************)
(* BitlockerStream (bde.go): readAtInternal, Read, ReadAt, Seek and Close, *)
(* called by several goroutines on one stream. The goroutines share the    *)
(* stream's offset and cipher fields and the global sectorBufPool; each    *)
(* iteration of readAtInternal's loop takes a buffer from the pool, fills  *)
(* it from the source, decrypts it in place, copies the requested part out *)
(* and puts the buffer back, and other goroutines run between any two of   *)
(* these steps.                                                            *)
(*                                                                         *)
(* One client, Owner, uses the methods that change the stream (Read, Seek, *)
(* Close); every client may use ReadAt.                                    *)
(***************************************************************************)
EXTENDS StreamLayout

CONSTANTS
  Clients,      \* goroutines
  Owner,        \* the one that calls Read, Seek and Close
  Bufs,         \* the buffers sectorBufPool may hand out
  NoBuf,        \* bp when no buffer is held
  Offsets,      \* arguments of ReadAt and Seek
  Lengths,      \* len(p)
  MaxOffset,    \* bound: Seek does not move beyond
  SourceFaults, \* TRUE: the source may fail with an I/O error
  EagerEOF      \* TRUE: a read that ends exactly at the end of the source
                \* returns all its data together with io.EOF

ASSUME StreamAssumption ==
  /\ Owner \in Clients
  /\ NoBuf \notin Bufs
  /\ Offsets \subseteq Int
  /\ Lengths \subseteq Nat
  /\ MaxOffset \in Nat
  /\ SourceFaults \in BOOLEAN /\ EagerEOF \in BOOLEAN

VARIABLES
  passthrough, \* bs.passthrough, which NewBitlockerStream sets
  offset,    \* bs.offset
  cipherSet, \* bs.cipher # nil
  free,      \* buffers in sectorBufPool (or not allocated yet)
  buf,       \* buf[b][x]: unit x of buffer b
  pc,        \* where each client is
  op,        \* "Read" or "ReadAt"
  off,       \* argument of the call: where it starts
  len,       \* len(p)
  cur,       \* readAtInternal's cur
  n,         \* readAtInternal's n; dst is p[n:]
  dst,       \* dst[c][x]: unit x of the caller's slice p
  bp,        \* the buffer held, or NoBuf
  err        \* the error to return

shared == <<passthrough, offset, cipherSet>>
pool == <<free, buf>>
args == <<op, off, len>>
vars == <<passthrough, offset, cipherSet, free, buf, pc, op, off, len, cur, n, dst, bp, err>>

Errors == {"nil", "eof", "io", "uninitialized"}
Slots == 0..(SectorSize - 1)

AllJunk == [x \in Slots |-> Junk]
Blank(l) == [x \in 0..(l - 1) |-> Junk]

---------------------------------------------------------------------------
(* The local variables of an iteration. *)

Sector(c) == GoDiv(cur[c], SectorSize)
InSector(c) == GoMod(cur[c], SectorSize)
Remaining(c) == len[c] - n[c]

ToDo(c) ==
  LET remainInSector == SectorSize - InSector(c)
  IN  IF Remaining(c) > remainInSector THEN remainInSector ELSE Remaining(c)

SrcOffset(c) ==
  IF HeaderMapped(Sector(c))
    THEN HeaderOffset + Sector(c) * SectorSize
    ELSE cur[c] - InSector(c)

(***************************************************************************)
(* The source's ReadAt(p, at) with len(p) = want. It reads everything, or  *)
(* stops at the end of the source with io.EOF, or fails after got units;   *)
(* io.ReaderAt allows io.EOF with a read that just reaches the end.        *)
(***************************************************************************)
ReadsFully(at, want) == at >= 0 /\ at + want <= DiskLen

SourceReturns(at, want, got, e) ==
  \/ /\ ReadsFully(at, want)
     /\ got = want
     /\ e = IF EagerEOF /\ at + want = DiskLen THEN "eof" ELSE "nil"
  \/ /\ at >= 0 /\ ~ReadsFully(at, want)
     /\ got = IF at < DiskLen THEN DiskLen - at ELSE 0
     /\ e = "eof"
  \/ at < 0 /\ got = 0 /\ e = "io"
  \/ /\ SourceFaults /\ at >= 0
     /\ got < want /\ (got = 0 \/ at + got <= DiskLen)
     /\ e = "io"

(* p after copy(p[start:], src). *)
Overwrite(p, start, src) ==
  [x \in DOMAIN p |-> IF x - start \in DOMAIN src THEN src[x - start] ELSE p[x]]

---------------------------------------------------------------------------
Init ==
  /\ offset = 0
  /\ passthrough \in BOOLEAN
  /\ cipherSet = ~passthrough
  /\ free = Bufs
  /\ buf = [b \in Bufs |-> AllJunk]
  /\ pc = [c \in Clients |-> "idle"]
  /\ op = [c \in Clients |-> "ReadAt"]
  /\ off = [c \in Clients |-> 0]
  /\ len = [c \in Clients |-> 0]
  /\ cur = [c \in Clients |-> 0]
  /\ n = [c \in Clients |-> 0]
  /\ dst = [c \in Clients |-> Blank(0)]
  /\ bp = [c \in Clients |-> NoBuf]
  /\ err = [c \in Clients |-> "nil"]

(* A client calls Read or ReadAt; both enter readAtInternal. *)
Begin(c, o, at, l) ==
  /\ pc[c] = "idle"
  /\ pc' = [pc EXCEPT ![c] = "loop"]
  /\ op' = [op EXCEPT ![c] = o]
  /\ off' = [off EXCEPT ![c] = at]
  /\ len' = [len EXCEPT ![c] = l]
  /\ cur' = [cur EXCEPT ![c] = at]
  /\ n' = [n EXCEPT ![c] = 0]
  /\ dst' = [dst EXCEPT ![c] = Blank(l)]
  /\ err' = [err EXCEPT ![c] = "nil"]
  /\ UNCHANGED <<shared, pool, bp>>

CallReadAt(c) == \E at \in Offsets, l \in Lengths : Begin(c, "ReadAt", at, l)

CallRead(c) == c = Owner /\ \E l \in Lengths : Begin(c, "Read", offset, l)

(* len(dst) == 0: the loop ends. *)
LoopEnds(c) ==
  /\ pc[c] = "loop"
  /\ Remaining(c) = 0
  /\ pc' = [pc EXCEPT ![c] = "return"]
  /\ UNCHANGED <<shared, pool, args, cur, n, dst, bp, err>>

(* Mutant of ZeroFill: the zeros do not count as read. *)
ZeroFill_staysPut(c) ==
  /\ pc[c] = "loop"
  /\ Remaining(c) > 0
  /\ isReservedSector(Reserved, Sector(c))
  /\ LET zeros == [x \in 0..(ToDo(c) - 1) |-> Zero]
     IN  dst' = [dst EXCEPT ![c] = Overwrite(dst[c], n[c], zeros)]
  /\ UNCHANGED <<shared, pool, args, pc, cur, n, bp, err>>

(* Zero-fill a reserved metadata sector. *)
ZeroFill(c) ==
  /\ pc[c] = "loop"
  /\ Remaining(c) > 0
  /\ isReservedSector(Reserved, Sector(c))
  /\ LET zeros == [x \in 0..(ToDo(c) - 1) |-> Zero]
     IN  dst' = [dst EXCEPT ![c] = Overwrite(dst[c], n[c], zeros)]
  /\ n' = [n EXCEPT ![c] = n[c] + ToDo(c)]
  /\ cur' = [cur EXCEPT ![c] = cur[c] + ToDo(c)]
  /\ UNCHANGED <<shared, pool, args, pc, bp, err>>

(* A decrypted volume: read straight into dst. *)
ReadThrough(c) ==
  /\ pc[c] = "loop"
  /\ Remaining(c) > 0
  /\ ~isReservedSector(Reserved, Sector(c))
  /\ passthrough
  /\ \E got \in 0..ToDo(c), e \in {"nil", "eof", "io"} :
       /\ SourceReturns(cur[c], ToDo(c), got, e)
       /\ LET source == [x \in 0..(got - 1) |-> Raw(cur[c] + x)]
          IN  dst' = [dst EXCEPT ![c] = Overwrite(dst[c], n[c], source)]
       /\ n' = [n EXCEPT ![c] = n[c] + got]
       /\ cur' = [cur EXCEPT ![c] = cur[c] + got]
       /\ LET result == IF e = "nil" /\ got < ToDo(c) THEN "eof" ELSE e
          IN  /\ err' = [err EXCEPT ![c] = result]
              /\ pc' = [pc EXCEPT ![c] = IF result = "nil" THEN "loop" ELSE "return"]
  /\ UNCHANGED <<shared, pool, args, bp>>

(***************************************************************************)
(* What a read of the field bs.cipher may give. Close writes it without    *)
(* synchronisation: after Close, a goroutine other than the one that       *)
(* called it may see nil or still the cipher, at each read anew.           *)
(***************************************************************************)
SeesCipher(c) == cipherSet \/ c # Owner

NeedsSector(c) ==
  /\ pc[c] = "loop"
  /\ Remaining(c) > 0
  /\ ~isReservedSector(Reserved, Sector(c))
  /\ ~passthrough

(* bs.cipher == nil: the stream was closed. *)
NoCipher(c) ==
  /\ NeedsSector(c)
  /\ ~cipherSet
  /\ err' = [err EXCEPT ![c] = "uninitialized"]
  /\ pc' = [pc EXCEPT ![c] = "return"]
  /\ UNCHANGED <<shared, pool, args, cur, n, dst, bp>>

(* Mutant of GetBuf: the buffer stays in the pool. *)
GetBuf_shares(c) ==
  /\ NeedsSector(c)
  /\ SeesCipher(c)
  /\ \E b \in free : bp' = [bp EXCEPT ![c] = b]
  /\ pc' = [pc EXCEPT ![c] = "fill"]
  /\ UNCHANGED <<shared, pool, args, cur, n, dst, err>>

(* Mutant of GetBuf: the cipher is not checked first. *)
GetBuf_unchecked(c) ==
  /\ NeedsSector(c)
  /\ \E b \in free : /\ bp' = [bp EXCEPT ![c] = b]
                     /\ free' = free \ {b}
  /\ pc' = [pc EXCEPT ![c] = "fill"]
  /\ UNCHANGED <<shared, buf, args, cur, n, dst, err>>

(* sectorBufPool.Get: any buffer nobody holds. *)
GetBuf(c) ==
  /\ NeedsSector(c)
  /\ SeesCipher(c)
  /\ \E b \in free : /\ bp' = [bp EXCEPT ![c] = b]
                     /\ free' = free \ {b}
  /\ pc' = [pc EXCEPT ![c] = "fill"]
  /\ UNCHANGED <<shared, buf, args, cur, n, dst, err>>

(* bs.r.ReadAt of the whole sector succeeds. *)
FillBuf(c) ==
  /\ pc[c] = "fill"
  /\ SourceReturns(SrcOffset(c), SectorSize, SectorSize, "nil")
  /\ buf' = [buf EXCEPT ![bp[c]] = [x \in Slots |-> Raw(SrcOffset(c) + x)]]
  /\ pc' = [pc EXCEPT ![c] = "decrypt"]
  /\ UNCHANGED <<shared, free, args, cur, n, dst, bp, err>>

(* What a buffer in the pool holds is nobody's business: it is Junk. *)
PutBuf(c) ==
  /\ free' = free \union {bp[c]}
  /\ buf' = [buf EXCEPT ![bp[c]] = AllJunk]
  /\ bp' = [bp EXCEPT ![c] = NoBuf]

(* Mutant of FillFails: the error path forgets sectorBufPool.Put. *)
FillFails_leaks(c) ==
  /\ pc[c] = "fill"
  /\ \E got \in 0..SectorSize, e \in {"eof", "io"} :
       /\ SourceReturns(SrcOffset(c), SectorSize, got, e)
       /\ err' = [err EXCEPT ![c] = e]
  /\ bp' = [bp EXCEPT ![c] = NoBuf]
  /\ pc' = [pc EXCEPT ![c] = "return"]
  /\ UNCHANGED <<shared, pool, args, cur, n, dst>>

(* It returns an error, however much it read: the buffer goes back. *)
FillFails(c) ==
  /\ pc[c] = "fill"
  /\ \E got \in 0..SectorSize, e \in {"eof", "io"} :
       /\ SourceReturns(SrcOffset(c), SectorSize, got, e)
       /\ err' = [err EXCEPT ![c] = e]
  /\ PutBuf(c)
  /\ pc' = [pc EXCEPT ![c] = "return"]
  /\ UNCHANGED <<shared, args, cur, n, dst>>

(* Mutant of DecryptBuf: the number of the requested sector as tweak. *)
DecryptBuf_requestedSector(c) ==
  /\ pc[c] = "decrypt"
  /\ SeesCipher(c)
  /\ buf' = [buf EXCEPT ![bp[c]] = [x \in Slots |-> DecryptUnit(buf[bp[c]][x], Sector(c))]]
  /\ pc' = [pc EXCEPT ![c] = "copy"]
  /\ UNCHANGED <<shared, free, args, cur, n, dst, bp, err>>

(* bs.cipher.decryptSector: the field is read again, without a lock. *)
DecryptBuf(c) ==
  /\ pc[c] = "decrypt"
  /\ SeesCipher(c)
  /\ LET tweak == GoDiv(SrcOffset(c), SectorSize)
     IN  buf' = [buf EXCEPT ![bp[c]] = [x \in Slots |-> DecryptUnit(buf[bp[c]][x], tweak)]]
  /\ pc' = [pc EXCEPT ![c] = "copy"]
  /\ UNCHANGED <<shared, free, args, cur, n, dst, bp, err>>

(* A method call on the nil interface. *)
DecryptPanics(c) ==
  /\ pc[c] = "decrypt"
  /\ ~cipherSet
  /\ pc' = [pc EXCEPT ![c] = "panic"]
  /\ UNCHANGED <<shared, pool, args, cur, n, dst, bp, err>>

(* copy(dst[:toDo], sectorBuf[inSector:inSector+toDo]) *)
CopyOut(c) ==
  /\ pc[c] = "copy"
  /\ InSector(c) >= 0
  /\ LET part == [x \in 0..(ToDo(c) - 1) |-> buf[bp[c]][InSector(c) + x]]
     IN  dst' = [dst EXCEPT ![c] = Overwrite(dst[c], n[c], part)]
  /\ pc' = [pc EXCEPT ![c] = "put"]
  /\ UNCHANGED <<shared, pool, args, cur, n, bp, err>>

(* A slice expression with a negative index. *)
CopyPanics(c) ==
  /\ pc[c] = "copy"
  /\ InSector(c) < 0
  /\ pc' = [pc EXCEPT ![c] = "panic"]
  /\ UNCHANGED <<shared, pool, args, cur, n, dst, bp, err>>

(* sectorBufPool.Put, and on to the next iteration. *)
NextSector(c) ==
  /\ pc[c] = "put"
  /\ PutBuf(c)
  /\ n' = [n EXCEPT ![c] = n[c] + ToDo(c)]
  /\ cur' = [cur EXCEPT ![c] = cur[c] + ToDo(c)]
  /\ pc' = [pc EXCEPT ![c] = "loop"]
  /\ UNCHANGED <<shared, args, dst, err>>

(* Mutant of Return: every error is hidden behind the data. *)
Return_hidesErrors(c) ==
  /\ pc[c] = "return"
  /\ offset' = IF op[c] = "Read" /\ n[c] > 0 THEN cur[c] ELSE offset
  /\ err' = [err EXCEPT ![c] = IF n[c] > 0 THEN "nil" ELSE @]
  /\ pc' = [pc EXCEPT ![c] = "done"]
  /\ UNCHANGED <<passthrough, cipherSet, pool, args, cur, n, dst, bp>>

(* Mutant of Return: Read advances by len(p) whatever it read. *)
Return_advancesByLen(c) ==
  /\ pc[c] = "return"
  /\ offset' = IF op[c] = "Read" /\ n[c] > 0 THEN off[c] + len[c] ELSE offset
  /\ err' = [err EXCEPT ![c] = IF n[c] > 0 /\ @ = "eof" THEN "nil" ELSE @]
  /\ pc' = [pc EXCEPT ![c] = "done"]
  /\ UNCHANGED <<passthrough, cipherSet, pool, args, cur, n, dst, bp>>

(***************************************************************************)
(* Read stores the new offset if it read anything; both hide io.EOF behind *)
(* the data they return.                                                   *)
(***************************************************************************)
Return(c) ==
  /\ pc[c] = "return"
  /\ offset' = IF op[c] = "Read" /\ n[c] > 0 THEN cur[c] ELSE offset
  /\ err' = [err EXCEPT ![c] = IF n[c] > 0 /\ @ = "eof" THEN "nil" ELSE @]
  /\ pc' = [pc EXCEPT ![c] = "done"]
  /\ UNCHANGED <<passthrough, cipherSet, pool, args, cur, n, dst, bp>>

(* The caller has looked at the result. *)
Collect(c) ==
  /\ pc[c] = "done"
  /\ pc' = [pc EXCEPT ![c] = "idle"]
  /\ op' = [op EXCEPT ![c] = "ReadAt"]
  /\ off' = [off EXCEPT ![c] = 0]
  /\ len' = [len EXCEPT ![c] = 0]
  /\ cur' = [cur EXCEPT ![c] = 0]
  /\ n' = [n EXCEPT ![c] = 0]
  /\ dst' = [dst EXCEPT ![c] = Blank(0)]
  /\ err' = [err EXCEPT ![c] = "nil"]
  /\ UNCHANGED <<shared, pool, bp>>

(* Mutant of Seek: a negative offset is stored. *)
Seek_negative(whence, o) ==
  LET newOffset == IF whence = "SeekStart" THEN o ELSE offset + o
  IN  /\ pc[Owner] = "idle"
      /\ newOffset <= MaxOffset
      /\ offset' = IF whence \in {"SeekStart", "SeekCurrent"} THEN newOffset ELSE offset
      /\ UNCHANGED <<passthrough, cipherSet, pool, pc, args, cur, n, dst, bp, err>>

(* SeekEnd and unknown whences are rejected, and so is a negative offset. *)
Seek(whence, o) ==
  LET newOffset == IF whence = "SeekStart" THEN o ELSE offset + o
  IN  /\ pc[Owner] = "idle"
      /\ newOffset <= MaxOffset
      /\ offset' = IF whence \in {"SeekStart", "SeekCurrent"} /\ newOffset >= 0
                     THEN newOffset ELSE offset
      /\ UNCHANGED <<passthrough, cipherSet, pool, pc, args, cur, n, dst, bp, err>>

CallSeek ==
  \E whence \in {"SeekStart", "SeekCurrent", "SeekEnd"}, o \in Offsets : Seek(whence, o)

(* Close does not wait for the calls in progress. *)
Close ==
  /\ pc[Owner] = "idle"
  /\ cipherSet' = FALSE
  /\ UNCHANGED <<passthrough, offset, pool, pc, args, cur, n, dst, bp, err>>

(* The steps of a call once it has begun. *)
Step(c) ==
  \/ LoopEnds(c) \/ ZeroFill(c) \/ ReadThrough(c) \/ NoCipher(c)
  \/ GetBuf(c) \/ FillBuf(c) \/ FillFails(c)
  \/ DecryptBuf(c) \/ DecryptPanics(c)
  \/ CopyOut(c) \/ CopyPanics(c) \/ NextSector(c)
  \/ Return(c)

Next ==
  \/ \E c \in Clients : Step(c) \/ CallReadAt(c) \/ CallRead(c) \/ Collect(c)
  \/ CallSeek
  \/ Close

(***************************************************************************)
(* Fairness: the Go scheduler runs every goroutine that can run, and the   *)
(* source's ReadAt returns. Nobody is obliged to call a method.            *)
(***************************************************************************)
Spec == Init /\ [][Next]_vars /\ \A c \in Clients : WF_vars(Step(c))

---------------------------------------------------------------------------
Holding(c) == bp[c] # NoBuf

(***************************************************************************)
(* Types. They include that the stream's offset is never negative: Seek    *)
(* and Read, the methods that store it, keep it so.                        *)
(***************************************************************************)
TypeOK ==
  /\ passthrough \in BOOLEAN
  /\ offset \in Nat
  /\ cipherSet \in BOOLEAN
  /\ free \subseteq Bufs
  /\ buf \in [Bufs -> [Slots -> Val]]
  /\ pc \in [Clients -> {"idle", "loop", "fill", "decrypt", "copy", "put",
                         "return", "done", "panic"}]
  /\ op \in [Clients -> {"Read", "ReadAt"}]
  /\ off \in [Clients -> Int]
  /\ len \in [Clients -> Nat]
  /\ cur \in [Clients -> Int]
  /\ n \in [Clients -> Nat]
  /\ DOMAIN dst = Clients
  /\ \A c \in Clients : dst[c] \in [0..(len[c] - 1) -> Val]
  /\ bp \in [Clients -> Bufs \union {NoBuf}]
  /\ err \in [Clients -> Errors]

(***************************************************************************)
(* A pooled buffer has one user at a time: no two calls hold the same one, *)
(* and none that is held can be handed out. This is what makes concurrent  *)
(* ReadAt calls safe although they decrypt in place.                       *)
(***************************************************************************)
BufferExclusive ==
  \A c \in Clients : Holding(c) =>
     /\ bp[c] \notin free
     /\ \A d \in Clients : d # c => bp[d] # bp[c]

(***************************************************************************)
(* No path through readAtInternal leaks its buffer: a buffer outside the   *)
(* pool is in the hands of a call that is between Get and Put (or died     *)
(* there).                                                                 *)
(***************************************************************************)
NoLeak ==
  /\ \A b \in Bufs \ free : \E c \in Clients : bp[c] = b
  /\ \A c \in Clients : Holding(c) => pc[c] \in {"fill", "decrypt", "copy", "put", "panic"}

(***************************************************************************)
(* What a call has delivered is the decrypted view at its offset: zeros    *)
(* for metadata, the relocated volume header, every other sector decrypted *)
(* with the number of the sector it is stored in; whatever the other       *)
(* calls, Seek and Close do meanwhile.                                     *)
(***************************************************************************)
DeliveredIsView ==
  \A c \in Clients : \A x \in 0..(n[c] - 1) : dst[c][x] = View(off[c] + x, passthrough)

(***************************************************************************)
(* A call dies only of a negative offset, or of a Close that another       *)
(* goroutine made while it ran: whoever closes the stream and goes on      *)
(* using it gets an error, never a panic.                                  *)
(***************************************************************************)
PanicHasCause ==
  \A c \in Clients : pc[c] = "panic" => off[c] < 0 \/ (~cipherSet /\ c # Owner)

(***************************************************************************)
(* A result without error that is shorter than asked, and io.EOF, both     *)
(* mean that the view ends there, also with a source that returns its last *)
(* bytes together with io.EOF: on a decrypted volume, and on an encrypted  *)
(* one whose source does not end with a whole sector (a whole encrypted    *)
(* sector that arrives together with io.EOF is dropped).                   *)
(***************************************************************************)
ShortMeansEnd ==
  \A c \in Clients :
     (pc[c] = "done" /\ off[c] >= 0 /\ err[c] \in {"nil", "eof"} /\ n[c] < len[c])
        => ~Available(off[c] + n[c], passthrough)

(* Every call returns to its caller (or panics). *)
CallsReturn ==
  \A c \in Clients : (pc[c] = "loop") ~> (pc[c] \in {"done", "panic"})

---------------------------------------------------------------------------
(* What the repository says, and the code does not do. *)

(* "Library should return error instead of panicking" (negative offset).   *)
NegativeOffsetNoPanic == \A c \in Clients : pc[c] = "panic" => off[c] >= 0

(***************************************************************************)
(* "ReadAt implements io.ReaderAt": when ReadAt returns n < len(p), it     *)
(* returns a non-nil error.                                                *)
(***************************************************************************)
ReaderAtContract ==
  \A c \in Clients :
     (pc[c] = "done" /\ op[c] = "ReadAt" /\ n[c] < len[c]) => err[c] # "nil"
=============================================================================
