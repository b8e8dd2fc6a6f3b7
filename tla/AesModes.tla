------------------------------ MODULE AesModes ------------------------------
(***************************************************************************)
(* The modes of operation that the repository implements itself: decrypting *)
(* a sector in XTS (xts.go) and CBC (cbc.go), and opening a box in CCM      *)
(* (ccm.go), block by block.                                               *)
(*                                                                         *)
(* A block has Width places. A place holds a formal sum modulo 2 of atoms, *)
(* as the set of them, so that xor is the symmetric difference and 0 the   *)
(* empty set. An atom is a place of a text, a number, or a place of what   *)
(* AES makes of a block under a key; AES is an ideal cipher, of which only *)
(* Decrypt(k, Encrypt(k, b)) = b is known, and the reverse. Places are     *)
(* bits, in bytes of ByteBits, for XTS and CBC, and bytes for CCM.         *)
(***************************************************************************)
EXTENDS Integers, Sequences

CONSTANTS
  Width,        \* 16 bytes
  ByteBits,     \* 8
  Reduction,    \* the bits of 0x87: {0, 1, 2, 7}
  ByteBase,     \* 256
  WordBytes,    \* 8, of a uint64
  MinNonce, MaxNonce, \* 7 and 13
  SectorCalls,  \* calls of decryptSector
  CcmCalls      \* calls of ccmDecrypt, with the box the arguments come from

ASSUME ModesAssumption ==
  /\ Width \in Nat \ {0} /\ ByteBits \in Nat \ {0} /\ Width % ByteBits = 0
  /\ Reduction \subseteq 0..(ByteBits - 1)    \* 0x87 fits into the low byte
  /\ ByteBase \in Nat \ {0, 1} /\ WordBytes \in Nat \ {0}
  /\ MinNonce \in 1..MaxNonce /\ MaxNonce \in 1..(Width - 3)   \* 2 <= L

(* The calls: sectors of whole blocks, and boxes made of sequences of places. *)
IsString(s) == Len(s) \in Nat /\ s = [i \in 1..Len(s) |-> s[i]]

ASSUME CallsAssumption ==
  /\ \A c \in SectorCalls :
       /\ c.kind \in {"xts", "cbc"} /\ c.inPlace \in BOOLEAN
       /\ c.sector \in Nat /\ c.size \in Nat \ {0} /\ c.blocks \in Nat \ {0}
  /\ \A c \in CcmCalls :
       /\ c.kind = "ccm" /\ IsString(c.text)
       /\ IsString(c.given.nonce) /\ IsString(c.given.ciphertext)
       /\ IsString(c.given.tag) /\ IsString(c.given.aad)
       /\ c.given = [key |-> c.given.key, nonce |-> c.given.nonce, aad |-> c.given.aad,
                     ciphertext |-> c.given.ciphertext, tag |-> c.given.tag]

VARIABLES
  call,
  pc,
  src, dst,  \* decryptSector's arguments, as sequences of blocks
  chain,     \* tweak, prev or x: what one block hands on to the next
  k,         \* the block the loop is at
  plain,     \* ccmDecrypt's plain, a sequence of places
  err

vars == <<call, pc, src, dst, chain, k, plain, err>>

Places == 0..(Width - 1)
ZeroBlock == [i \in Places |-> {}]

Sum(a, b) == (a \ b) \union (b \ a)
Xor(a, b) == [i \in Places |-> Sum(a[i], b[i])]

Num(v) == IF v = 0 THEN {} ELSE {<<"num", v>>}

(* PutUint64(block[:8], v) *)
LittleEndian(v) == [i \in Places |-> IF i = 0 THEN Num(v) ELSE {}]

---------------------------------------------------------------------------
(* crypto/aes *)

Image(dir, key, block) == [i \in Places |-> {<<dir, i, key, block>>}]

AES(dir, inverse, key, block) ==
  LET undone == { a[4] : a \in {u \in block[0] : u[1] = inverse /\ u[3] = key} }
      origin == { b \in undone : block = Image(inverse, key, b) }
  IN  IF origin # {} THEN CHOOSE b \in origin : TRUE ELSE Image(dir, key, block)

Encrypt(key, block) == AES("E", "D", key, block)
Decrypt(key, block) == AES("D", "E", key, block)

---------------------------------------------------------------------------
(* What the standards say: how the data was encrypted. *)

Text(j) == [i \in Places |-> {<<"text", j, i>>}]
Plaintext(n) == [j \in 1..n |-> Text(j)]

(* Multiplication by x modulo the polynomial of the field. *)
TimesX(t) ==
  [i \in Places |-> Sum(IF i = 0 THEN {} ELSE t[i - 1],
                        IF i \in Reduction THEN t[Width - 1] ELSE {})]

XtsEncrypted(sector, n) ==
  LET tweak[j \in 1..n] ==
        IF j = 1 THEN Encrypt("tweakKey", LittleEndian(sector)) ELSE TimesX(tweak[j - 1])
  IN  [j \in 1..n |-> Xor(Encrypt("dataKey", Xor(Text(j), tweak[j])), tweak[j])]

(* The initialisation vector is the encrypted byte offset of the sector. *)
CbcEncrypted(sector, size, n) ==
  LET c[j \in 0..n] ==
        IF j = 0 THEN Encrypt("fvek", LittleEndian(sector * size))
                 ELSE Encrypt("fvek", Xor(Text(j), c[j - 1]))
  IN  [j \in 1..n |-> c[j]]

(* The number of values of e bytes. *)
Power[e \in Nat] == IF e = 0 THEN 1 ELSE ByteBase * Power[e - 1]

(* CCM: a block with flags, the nonce, and a number in what is left. *)
Formatted(flags, nonce, number) ==
  [i \in Places |-> IF i = 0 THEN Num(flags)
                    ELSE IF i <= Len(nonce) THEN nonce[i]
                    ELSE Num((number \div Power[Width - 1 - i]) % ByteBase)]

Blocks(data) == (Len(data) + Width - 1) \div Width
Block(data, j) ==
  [i \in Places |-> IF (j - 1) * Width + i < Len(data) THEN data[(j - 1) * Width + i + 1]
                    ELSE {}]

Pad(data) == [i \in 1..(Blocks(data) * Width) |-> IF i <= Len(data) THEN data[i] ELSE {}]
HeadOf(block, n) == [i \in 1..n |-> block[i - 1]]

(* The frame of the associated data has the standard's form for fewer than 2^16 - 2^8 bytes. *)
Seal(key, nonce, text, aad, tagLen) ==
  LET L == Width - 1 - Len(nonce)
      S(counter) == Encrypt(key, Formatted(L - 1, nonce, counter))
      flags == L - 1 + 8 * ((tagLen - 2) \div 2) + (IF aad = <<>> THEN 0 ELSE 64)
      n == Len(aad)
      framed == IF aad = <<>> THEN <<>>
                ELSE Pad(<<Num((n \div ByteBase) % ByteBase), Num(n % ByteBase)>> \o aad)
      input == framed \o text
      X[j \in 0..Blocks(input)] ==
        IF j = 0 THEN Encrypt(key, Formatted(flags, nonce, Len(text)))
                 ELSE Encrypt(key, Xor(X[j - 1], Block(input, j)))
  IN  [key |-> key, nonce |-> nonce, aad |-> aad,
       ciphertext |-> [i \in 1..Len(text) |->
                         Sum(text[i], S((i - 1) \div Width + 1)[(i - 1) % Width])],
       tag |-> HeadOf(Xor(X[Blocks(input)], S(0)), tagLen)]

(* Every box was sealed by the standard, within its limits. *)
ASSUME SealedAssumption ==
  \A c \in CcmCalls :
    /\ c.box = Seal(c.box.key, c.box.nonce, c.text, c.box.aad, Len(c.box.tag))
    /\ c.box.key # "wrongSize"
    /\ Len(c.box.nonce) \in MinNonce..MaxNonce
    /\ Len(c.box.tag) \in 4..Width /\ (Len(c.box.tag) = Width \/ Len(c.box.tag) % 2 = 0)
    /\ Len(c.text) < Power[Width - 1 - Len(c.box.nonce)]

(* In bytes: the flags have three bits for L - 1 and three for the length of the tag. *)
ASSUME BytesAssumption ==
  CcmCalls # {} => Width <= 16 /\ Width % 2 = 0 /\ Width - 1 - MinNonce <= 8

(* What AES made of s comes from t. *)
AddsNoAes(s, t) ==
  \A i \in 1..Len(s) : \A u \in s[i] : u[1] = "E" => \E j \in 1..Len(t) : u \in t[j]

(* What was sealed holds nothing that AES made, and whoever changes a box cannot  *)
(* use AES: the ciphertext and the tag given hold of it only what the box holds.  *)
(* The associated data is short enough for its two bytes of length.               *)
ASSUME ChangesAssumption ==
  \A c \in CcmCalls :
    /\ AddsNoAes(c.text, <<>>)
    /\ AddsNoAes(c.box.aad, <<>>) /\ AddsNoAes(c.given.aad, <<>>)
    /\ AddsNoAes(c.given.ciphertext, c.box.ciphertext)
    /\ AddsNoAes(c.given.tag, c.box.tag)
    /\ Len(c.box.aad) < ByteBase * ByteBase /\ Len(c.given.aad) < ByteBase * ByteBase
    /\ IsString(c.box.nonce) /\ IsString(c.box.aad)

---------------------------------------------------------------------------
(* A call begins. *)
Init ==
  /\ k = 1 /\ plain = <<>> /\ err = "nil"
  /\ \/ /\ call \in SectorCalls
        /\ pc = call.kind
        /\ src = IF call.kind = "xts" THEN XtsEncrypted(call.sector, call.blocks)
                 ELSE CbcEncrypted(call.sector, call.size, call.blocks)
        /\ dst = IF call.inPlace THEN src ELSE [j \in 1..call.blocks |-> ZeroBlock]
        /\ chain = IF call.kind = "xts" THEN Encrypt("tweakKey", LittleEndian(call.sector))
                   ELSE Encrypt("fvek", LittleEndian(call.sector * call.size))
     \/ /\ call \in CcmCalls
        /\ pc = "check"
        /\ src = <<>> /\ dst = <<>>
        /\ chain = ZeroBlock

(* A block is written to dst; in place, src is the same memory. *)
WriteBlock(b) ==
  /\ dst' = [dst EXCEPT ![k] = b]
  /\ src' = IF call.inPlace THEN dst' ELSE src

SectorDone ==
  /\ pc \in {"xts", "cbc"} /\ k > Len(src)
  /\ pc' = "done"
  /\ UNCHANGED <<call, src, dst, chain, k, plain, err>>

(* Mutant of gfMulX: no carry from one byte to the next. *)
gfMulX_noCarry(t) ==
  LET carry == t[Width - 1]
      shifted == [i \in Places |-> IF i % ByteBits # 0 THEN t[i - 1] ELSE {}]
  IN  [i \in Places |-> IF i \in Reduction THEN Sum(shifted[i], carry) ELSE shifted[i]]

(* Byte by byte: the carry of a byte is its highest bit. *)
gfMulX(t) ==
  LET carry[b \in 0..(Width \div ByteBits)] == IF b = 0 THEN {} ELSE t[b * ByteBits - 1]
      shifted == [i \in Places |-> IF i % ByteBits # 0 THEN t[i - 1] ELSE carry[i \div ByteBits]]
      last == carry[Width \div ByteBits]
  IN  [i \in Places |-> IF i \in Reduction THEN Sum(shifted[i], last) ELSE shifted[i]]

XtsBlock ==
  /\ pc = "xts" /\ k <= Len(src)
  /\ WriteBlock(Xor(Decrypt("dataKey", Xor(src[k], chain)), chain))
  /\ chain' = gfMulX(chain)
  /\ k' = k + 1
  /\ UNCHANGED <<call, pc, plain, err>>

(* decryptSector panics on a buffer that is not a sector long. *)
CbcPanics ==
  /\ pc = "cbc" /\ call.blocks # call.size
  /\ pc' = "panic"
  /\ UNCHANGED <<call, src, dst, chain, k, plain, err>>

(* Mutant of CbcBlock: prev is taken from src after dst was written. *)
CbcBlock_noCopy ==
  /\ pc = "cbc" /\ call.blocks = call.size /\ k <= Len(src)
  /\ WriteBlock(Xor(Decrypt("fvek", src[k]), chain))
  /\ chain' = src'[k]
  /\ k' = k + 1
  /\ UNCHANGED <<call, pc, plain, err>>

(* prev is the copy of the ciphertext made before dst is written. *)
CbcBlock ==
  /\ pc = "cbc" /\ call.blocks = call.size /\ k <= Len(src)
  /\ WriteBlock(Xor(Decrypt("fvek", src[k]), chain))
  /\ chain' = src[k]
  /\ k' = k + 1
  /\ UNCHANGED <<call, pc, plain, err>>

---------------------------------------------------------------------------
(* ccmDecrypt *)

nonce == call.given.nonce
ciphertext == call.given.ciphertext
tag == call.given.tag
aad == call.given.aad
L == Width - 1 - Len(nonce)

(* uint64(1) << (8 * L): shifted out of the word, it is 0. *)
MessageLimit == IF L >= WordBytes THEN 0 ELSE Power[L]

(* Mutant of CcmError: no limit on the length of the message. *)
CcmError_unlimited ==
  IF Len(nonce) < MinNonce \/ Len(nonce) > MaxNonce THEN "invalidNonceLen"
  ELSE IF Len(tag) # Width /\ (Len(tag) < 4 \/ Len(tag) > Width \/ Len(tag) % 2 # 0)
         THEN "invalidTagLen"
  ELSE IF call.given.key = "wrongSize" THEN "invalidKeySize"
  ELSE "nil"

CcmError ==
  IF Len(nonce) < MinNonce \/ Len(nonce) > MaxNonce THEN "invalidNonceLen"
  ELSE IF Len(tag) # Width /\ (Len(tag) < 4 \/ Len(tag) > Width \/ Len(tag) % 2 # 0)
         THEN "invalidTagLen"
  ELSE IF Len(ciphertext) >= MessageLimit THEN "messageTooLarge"
  ELSE IF call.given.key = "wrongSize" THEN "invalidKeySize"
  ELSE "nil"

CcmCheck ==
  /\ pc = "check"
  /\ err' = CcmError
  /\ pc' = IF CcmError = "nil" THEN "ctr" ELSE "done"
  /\ UNCHANGED <<call, src, dst, chain, k, plain>>

makeCCMIV(counter) == Formatted(L - 1, nonce, counter)

(* Mutant of CtrBlock: the keystream begins with counter 0. *)
CtrBlock_fromZero ==
  /\ pc = "ctr" /\ k <= Blocks(ciphertext)
  /\ LET key == Encrypt(call.given.key, makeCCMIV(k - 1))
         rest == Len(ciphertext) - Len(plain)
     IN  plain' = plain \o HeadOf(Xor(Block(ciphertext, k), key),
                                  IF rest < Width THEN rest ELSE Width)
  /\ k' = k + 1
  /\ UNCHANGED <<call, pc, src, dst, chain, err>>

(* cipher.NewCTR with counter 1; XORKeyStream. *)
CtrBlock ==
  /\ pc = "ctr" /\ k <= Blocks(ciphertext)
  /\ LET key == Encrypt(call.given.key, makeCCMIV(k))
         rest == Len(ciphertext) - Len(plain)
     IN  plain' = plain \o HeadOf(Xor(Block(ciphertext, k), key),
                                  IF rest < Width THEN rest ELSE Width)
  /\ k' = k + 1
  /\ UNCHANGED <<call, pc, src, dst, chain, err>>

(* ccmMac's b0. *)
FirstMacBlock ==
  Formatted((L - 1) + (IF aad = <<>> THEN 0 ELSE 64) + 8 * ((Len(tag) - 2) \div 2),
            nonce, Len(plain))

CtrDone ==
  /\ pc = "ctr" /\ k > Blocks(ciphertext)
  /\ chain' = Encrypt(call.given.key, FirstMacBlock)
  /\ k' = 1
  /\ pc' = "mac"
  /\ UNCHANGED <<call, src, dst, plain, err>>

(* The length in two bytes, the data, and zeros up to a full block. *)
formatAAD ==
  Pad(<<Num((Len(aad) \div ByteBase) % ByteBase), Num(Len(aad) % ByteBase)>> \o aad)

MacInput == (IF aad = <<>> THEN <<>> ELSE formatAAD) \o plain

(* One round of ccmCbcMacUpdate. *)
MacBlock ==
  /\ pc = "mac" /\ k <= Blocks(MacInput)
  /\ chain' = Encrypt(call.given.key, Xor(Block(MacInput, k), chain))
  /\ k' = k + 1
  /\ UNCHANGED <<call, pc, src, dst, plain, err>>

(* Mutant of Compare: four bytes of the tag are compared. *)
Compare_prefix ==
  /\ pc = "mac" /\ k > Blocks(MacInput)
  /\ LET s0 == Encrypt(call.given.key, makeCCMIV(0))
         authentic == HeadOf(Xor(chain, s0), 4) = SubSeq(tag, 1, 4)
     IN  /\ err' = IF authentic THEN "nil" ELSE "authFailed"
         /\ plain' = IF authentic THEN plain ELSE <<>>
  /\ pc' = "done"
  /\ UNCHANGED <<call, src, dst, chain, k>>

(* The tag decides; without it the plaintext is not returned. *)
Compare ==
  /\ pc = "mac" /\ k > Blocks(MacInput)
  /\ LET s0 == Encrypt(call.given.key, makeCCMIV(0))
         authentic == HeadOf(Xor(chain, s0), Len(tag)) = tag
     IN  /\ err' = IF authentic THEN "nil" ELSE "authFailed"
         /\ plain' = IF authentic THEN plain ELSE <<>>
  /\ pc' = "done"
  /\ UNCHANGED <<call, src, dst, chain, k>>

Next ==
  \/ XtsBlock \/ CbcBlock \/ CbcPanics \/ SectorDone
  \/ CcmCheck \/ CtrBlock \/ CtrDone \/ MacBlock \/ Compare

Spec == Init /\ [][Next]_vars

---------------------------------------------------------------------------
(***************************************************************************)
(* decryptSector gives back the plaintext of the sector: gfMulX yields the *)
(* same tweaks as the multiplication in the field, the CBC chain uses the  *)
(* ciphertext also where dst overwrites it, and a buffer other than dst is *)
(* left as it was.                                                         *)
(***************************************************************************)
SectorRecovered ==
  pc = "done" /\ call.kind # "ccm" =>
    /\ dst = Plaintext(call.blocks)
    /\ ~call.inPlace => src = IF call.kind = "xts" THEN XtsEncrypted(call.sector, call.blocks)
                              ELSE CbcEncrypted(call.sector, call.size, call.blocks)

(***************************************************************************)
(* A box opens with its own key, nonce and associated data and gives the   *)
(* text sealed in it, for every length, also 0 and parts of a block. The   *)
(* nonce is one whose limit on the length fits into the word, 8 to 13      *)
(* bytes long; the shortest one is the matter of NonceLengthsSupported.    *)
(***************************************************************************)
GenuineOpens ==
  pc = "done" /\ call.kind = "ccm" /\ call.given = call.box /\ L < WordBytes =>
    err = "nil" /\ plain = call.text

(***************************************************************************)
(* Nothing else opens: with another key or nonce, other associated data, a *)
(* ciphertext changed, cut or lengthened, or a tag changed or shortened,   *)
(* ccmDecrypt returns an error and no plaintext.                           *)
(***************************************************************************)
ForgedRejected ==
  pc = "done" /\ call.kind = "ccm" /\ call.given # call.box =>
    err # "nil" /\ plain = <<>>

(***************************************************************************)
(* The counter of the keystream stays within its L bytes: the limit on the *)
(* length of the message keeps the increment of cipher.NewCTR, which knows *)
(* no such boundary, out of the nonce.                                     *)
(***************************************************************************)
CounterInRange == pc = "ctr" /\ k <= Blocks(ciphertext) => k < Power[L]

---------------------------------------------------------------------------
(* What the repository says, and the code does not do. *)

(***************************************************************************)
(* "nonce lengths 7..13 bytes (as per CCM spec)" are supported (ccm.go:20),*)
(* with any text of at most 2^(8L)-1 bytes (ccm.go:22): every box sealed   *)
(* within these limits opens. With a 7-byte nonce L is 8, 1 << (8*L) is    *)
(* shifted out of the uint64 (ccm.go:34), and no text is shorter than 0.   *)
(***************************************************************************)
NonceLengthsSupported ==
  pc = "done" /\ call.kind = "ccm" /\ call.given = call.box =>
    err = "nil" /\ plain = call.text
=============================================================================
