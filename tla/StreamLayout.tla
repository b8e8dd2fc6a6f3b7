---------------------------- MODULE StreamLayout ----------------------------
(***************************************************************************)
(* What a BitlockerStream shows at every offset, said without reference to *)
(* how it reads: the fields that NewBitlockerStream fixes once and for     *)
(* all, the contents of the source, and the decrypted view they define.    *)
(*                                                                         *)
(* The unit of data is abstract: a sector has SectorSize units and unit u  *)
(* of the source has its own symbolic contents. Decryption is symbolic     *)
(* too: it records which unit was decrypted and with which sector number   *)
(* (the XTS tweak, or the CBC initialisation vector).                      *)
(***************************************************************************)
EXTENDS Regions

CONSTANTS
  SectorSize,     \* bs.sectorSize
  Reserved,       \* bs.reserved, as setReservedRegions leaves it
  HeaderOffset,   \* bs.headerOffset
  HeaderSectors,  \* bs.headerSectors
  DiskLen         \* length of the source

ASSUME LayoutAssumption ==
  /\ SectorSize \in Nat \ {0}
  /\ Reserved \in Seq(Region)
  /\ Separated(Reserved)
  /\ \A j \in 1..Len(Reserved) : Reserved[j].startSector > 0   \* not the boot sector
  /\ HeaderOffset \in Nat /\ HeaderOffset % SectorSize = 0
  /\ HeaderSectors \in Nat
  /\ DiskLen \in Nat

(***************************************************************************)
(* Contents of one unit: zero, ciphertext or plain data of unit u of the   *)
(* source, unit u decrypted with a tweak, or whatever was there before.    *)
(***************************************************************************)
Val == [kind : {"zero", "raw", "dec", "junk"}, unit : Int, tweak : Int]

Zero == [kind |-> "zero", unit |-> 0, tweak |-> 0]
Junk == [kind |-> "junk", unit |-> 0, tweak |-> 0]
Raw(u) == [kind |-> "raw", unit |-> u, tweak |-> 0]
Dec(u, t) == [kind |-> "dec", unit |-> u, tweak |-> t]

(* decryptSector on one unit of a buffer: only ciphertext becomes data. *)
DecryptUnit(v, t) == IF v.kind = "raw" THEN Dec(v.unit, t) ELSE Junk

(* Go's integer division truncates towards zero. *)
GoDiv(a, b) == IF a >= 0 THEN a \div b ELSE -((-a) \div b)
GoMod(a, b) == a - b * GoDiv(a, b)

(***************************************************************************)
(* The volume header is stored, encrypted, at HeaderOffset; the first      *)
(* HeaderSectors sectors are served from there.                            *)
(***************************************************************************)
HeaderMapped(sector) ==
  HeaderOffset > 0 /\ HeaderSectors > 0 /\ sector >= 0 /\ sector < HeaderSectors

---------------------------------------------------------------------------
(* The view; through: the volume is decrypted and read as it is. *)

Physical(u) == IF HeaderMapped(u \div SectorSize) THEN HeaderOffset + u ELSE u

View(u, through) ==
  IF isReservedSector(Reserved, u \div SectorSize) THEN Zero
  ELSE IF through THEN Raw(u)
  ELSE Dec(Physical(u), Physical(u) \div SectorSize)

(* Unit u can be had: an encrypted sector needs all of its ciphertext. *)
Available(u, through) ==
  \/ isReservedSector(Reserved, u \div SectorSize)
  \/ through /\ u < DiskLen
  \/ ~through /\ (Physical(u) \div SectorSize + 1) * SectorSize <= DiskLen
=============================================================================
