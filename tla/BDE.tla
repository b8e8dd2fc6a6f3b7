--------------------------------- MODULE BDE ---------------------------------
(***************************************************************************)
(* The key state of a BDE (bde.go): the ways to unlock a volume, from a    *)
(* credential through the VMK datums of the metadata to the FVEK, and Open *)
(* which turns the stored FVEK into a stream. A BDE is used by one         *)
(* goroutine; its calls come in any order and as often as the caller likes.*)
(*                                                                         *)
(* Cryptography is symbolic. A key is a tuple that says where it comes     *)
(* from; a box (an AES-CCM encrypted datum) names the key it is sealed     *)
(* under and the key container inside, and opens under no other key: the   *)
(* MAC rejects it.                                                         *)
(***************************************************************************)
EXTENDS RecoveryPassword

CONSTANTS
  Volumes,        \* [dataset, method, sectorSize] of the volumes considered
  Passphrases,    \* arguments of UnlockWithPassphrase
  RecoveryPasswords, \* arguments of UnlockWithRecoveryPassword, split into blocks
  VmkKeys,        \* arguments of Unlock
  Identifiers,    \* GUID strings of VMKs, and NoIdentifier
  Beks            \* datasets of BEK files

ASSUME BDEAssumption ==
  /\ RecoveryPasswords \subseteq Seq(Seq(0..Letter))
  /\ \A v \in Volumes : /\ v.method \in Nat /\ v.sectorSize \in Nat
                          /\ v.dataset \in Seq({v.dataset[j] : j \in DOMAIN v.dataset})

VARIABLES
  vol,       \* the volume New has parsed
  fvek,      \* b.fvek and b.fvekType, or NoKey
  pc,        \* "idle", or "try" inside unlockWithUserKey's loop
  call,      \* the locals of unlockWithUserKey and its caller
  result,    \* what the last unlock call returned
  streams,   \* the streams Open has returned
  offered,   \* history: the keys the caller's credentials amount to
  succeeded  \* history: {"nil"} once an unlock call has returned nil, else {}

vars == <<vol, fvek, pc, call, result, streams, offered, succeeded>>

---------------------------------------------------------------------------
(* Datums. *)

NoKey == [type |-> "nil", data |-> <<>>, len |-> 0]
Short == [type |-> "Short", data |-> <<>>, len |-> 0]  \* less than a container

(* The elements at the indices J, as a loop with append collects them. *)
Collect(s, J) ==
  LET upTo[n \in 0..Len(s)] ==
        IF n = 0 THEN <<>> ELSE IF n \in J THEN Append(upTo[n - 1], s[n]) ELSE upTo[n - 1]
  IN  upTo[Len(s)]

FindDatum(ds, role, type) ==
  Collect(ds, {j \in 1..Len(ds) : ds[j].role = role /\ ds[j].type = type})

FindFvek(ds) == FindDatum(ds, "FullVolumeEncryptionKey", "AesCcmEncryptedKey")

FveKeyProtectorClear == 0
FveKeyProtectorExternal == 512
FveKeyProtectorRecoveryPassword == 2048
FveKeyProtectorPassphrase == 8192

(* priority & mask, for the masks 0x0000 and 0xFF00. *)
Masked(priority, mask) == IF mask = 65280 THEN priority - (priority % 256) ELSE 0

FindVmk(ds, protectorType, minPriority, maxPriority, mask) ==
  LET vmks == FindDatum(ds, "VolumeMasterKeyInfo", "VolumeMasterKeyInfo")
      Matches(d) ==
        /\ d.protector >= minPriority /\ d.protector <= maxPriority
        /\ protectorType = 0 \/ Masked(d.protector, mask) = protectorType
  IN  Collect(vmks, {j \in 1..Len(vmks) : Matches(vmks[j])})

FindClearVmk(ds) == FindVmk(ds, FveKeyProtectorClear, 0, 255, 0)
FindExternalVmk(ds) == FindVmk(ds, FveKeyProtectorExternal, 0, 32767, 65280)
FindRecoveryVmk(ds) == FindVmk(ds, FveKeyProtectorRecoveryPassword, 0, 32767, 65280)
FindPassphraseVmk(ds) == FindVmk(ds, FveKeyProtectorPassphrase, 0, 32767, 65280)

FindProperty(d, type) ==
  LET ps == d.properties
  IN  Collect(ps, {j \in 1..Len(ps) : ps[j].role = "Property" /\ ps[j].type = type})

---------------------------------------------------------------------------
(* Keys and boxes. *)

DeriveUserKey(passphrase) == <<"passphrase", passphrase>>
DeriveRecoveryKey(password) == <<"recovery", KeyWords(password)>>
Stretch(key, salt) == <<key[1], key[2], salt>>

Failed(e) == [err |-> e, key |-> NoKey]

(* Mutant of Unbox: the MAC is not compared. *)
Unbox_noMac(d, key) ==
  IF d.box.holds = Short THEN Failed("invalidKeyContainerPlaintext")
  ELSE [err |-> "nil", key |-> d.box.holds]

Unbox(d, key) ==
  IF d.box.under # key THEN Failed("authenticationFailed")
  ELSE IF d.box.holds = Short THEN Failed("invalidKeyContainerPlaintext")
  ELSE [err |-> "nil", key |-> d.box.holds]

decryptVmkWithUserKey(vmk, userKey) ==
  LET stretchKeys == FindProperty(vmk, "StretchKey")
      encryptedKeys == FindProperty(vmk, "AesCcmEncryptedKey")
  IN  IF stretchKeys = <<>> THEN Failed("stretchKeyNotFound")
      ELSE IF encryptedKeys = <<>> THEN Failed("encryptedKeyNotFound")
      ELSE LET stretchedKey == Stretch(userKey, Head(stretchKeys).salt)
               unboxed == Unbox(Head(encryptedKeys), stretchedKey)
           IN  IF unboxed.err = "nil" /\ unboxed.key.type # "Vmk"
                 THEN Failed("unexpectedKeyType") ELSE unboxed

CipherMap == {"Aes128Diffuser", "Aes256Diffuser", "Aes128", "Aes256", "AesXts128", "AesXts256"}

(* Mutant of UnlockOutcome: b.fvek is cleared when the box does not open. *)
UnlockOutcome_clears(key) ==
  LET datums == FindFvek(vol.dataset)
  IN  IF datums = <<>> THEN [err |-> "FVEKNotFound", key |-> NoKey]
      ELSE LET unboxed == Unbox(Head(datums), key)
           IN  [err |-> unboxed.err, key |-> unboxed.key]

(***************************************************************************)
(* Unlock(key): its error, and what it leaves in b.fvek. CheckIntegrity    *)
(* accepts every key, because NewInformation reads no Validation. The FVEK *)
(* is stored before the test for a supported cipher.                       *)
(***************************************************************************)
UnlockOutcome(key) ==
  LET datums == FindFvek(vol.dataset)
  IN  IF datums = <<>> THEN [err |-> "FVEKNotFound", key |-> fvek]
      ELSE LET unboxed == Unbox(Head(datums), key)
           IN  IF unboxed.err # "nil" THEN [err |-> unboxed.err, key |-> fvek]
               ELSE [err |-> IF unboxed.key.type \in CipherMap
                               THEN "nil" ELSE "unsupportedCipherType",
                     key |-> unboxed.key]

(* One candidate: decrypt the VMK, then Unlock with it. *)
Attempt(vmk, userKey) ==
  LET decrypted == decryptVmkWithUserKey(vmk, userKey)
  IN  IF decrypted.err # "nil" THEN [err |-> decrypted.err, key |-> fvek]
      ELSE UnlockOutcome(decrypted.key.data)

---------------------------------------------------------------------------
NoIdentifier == "none"  \* identifier == "": any VMK will do
NoCall == [vmks |-> <<>>, key |-> <<>>, identifier |-> NoIdentifier, i |-> 0, lastErr |-> "nil"]

Init ==
  /\ vol \in Volumes
  /\ fvek = NoKey
  /\ pc = "idle"
  /\ call = NoCall
  /\ result = "none"
  /\ streams = {}
  /\ offered = {}
  /\ succeeded = {}

(* An unlock call returns e. *)
ReturnWith(e) ==
  /\ result' = e
  /\ pc' = "idle"
  /\ succeeded' = succeeded \union ({e} \intersect {"nil"})

Decrypted == vol.method = 0
Unlocked == fvek # NoKey \/ Decrypted

(* Unlock(key), called directly with a VMK. *)
Unlock(key) ==
  /\ pc = "idle"
  /\ fvek' = UnlockOutcome(key).key
  /\ ReturnWith(UnlockOutcome(key).err)
  /\ call' = NoCall
  /\ offered' = offered \union {key}
  /\ UNCHANGED <<vol, streams>>

(* unlockWithUserKey begins. *)
unlockWithUserKey(vmks, userKey, identifier) ==
  /\ pc = "idle"
  /\ pc' = "try"
  /\ call' = [vmks |-> vmks, key |-> userKey, identifier |-> identifier, i |-> 1,
              lastErr |-> "nil"]
  /\ result' = "none"
  /\ offered' = offered \union {userKey}
  /\ UNCHANGED <<vol, fvek, streams, succeeded>>

WellFormed == { p \in RecoveryPasswords : CheckRecoveryPassword(p) = "nil" }

UnlockWithPassphrase(passphrase, identifier) ==
  unlockWithUserKey(FindPassphraseVmk(vol.dataset), DeriveUserKey(passphrase), identifier)

UnlockWithRecoveryPassword(password, identifier) ==
  /\ password \in WellFormed
  /\ unlockWithUserKey(FindRecoveryVmk(vol.dataset), DeriveRecoveryKey(password), identifier)

(* A call that ends before it has touched the key state. *)
Refuse(e) ==
  /\ pc = "idle"
  /\ ReturnWith(e)
  /\ call' = NoCall
  /\ UNCHANGED <<vol, fvek, streams, offered>>

RejectRecoveryPassword(password) ==
  password \notin WellFormed /\ Refuse("invalidRecoveryPassword")

UnlockWithClearKey ==
  Refuse(IF FindClearVmk(vol.dataset) = <<>> THEN "clearVMKNotFound" ELSE "notImplemented")

UnlockWithExternalKey(bek) ==
  LET startupKeys == FindDatum(bek, "StartupKey", "ExternalInfo")
      vmks == FindExternalVmk(vol.dataset)
      matching == {j \in 1..Len(vmks) : vmks[j].guid = Head(startupKeys).guid}
  IN  Refuse(IF startupKeys = <<>> THEN "startupKeyNotFoundInBEKDataset"
             ELSE IF matching = {} THEN "noMatchingVMKFound"
             ELSE "notImplemented")

Candidate == call.vmks[call.i]
Selected == call.identifier = NoIdentifier \/ Candidate.guid = call.identifier

(* Mutant of SkipVmk: the candidate after the wrong one is skipped too. *)
SkipVmk_two ==
  /\ pc = "try" /\ call.i <= Len(call.vmks)
  /\ ~Selected
  /\ call' = [call EXCEPT !.i = @ + 2]
  /\ UNCHANGED <<vol, fvek, pc, result, streams, offered, succeeded>>

(* The identifier rules this candidate out. *)
SkipVmk ==
  /\ pc = "try" /\ call.i <= Len(call.vmks)
  /\ ~Selected
  /\ call' = [call EXCEPT !.i = @ + 1]
  /\ UNCHANGED <<vol, fvek, pc, result, streams, offered, succeeded>>

(* Mutant of TryVmk: the first failure ends the call. *)
TryVmk_once ==
  /\ pc = "try" /\ call.i <= Len(call.vmks)
  /\ Selected
  /\ fvek' = Attempt(Candidate, call.key).key
  /\ ReturnWith(Attempt(Candidate, call.key).err)
  /\ UNCHANGED <<vol, call, streams, offered>>

(***************************************************************************)
(* A candidate is tried. Success ends the call; failure ends it too if an  *)
(* identifier named the candidate, and is remembered otherwise.            *)
(***************************************************************************)
TryVmk ==
  /\ pc = "try" /\ call.i <= Len(call.vmks)
  /\ Selected
  /\ LET outcome == Attempt(Candidate, call.key)
     IN  /\ fvek' = outcome.key
         /\ \/ /\ outcome.err = "nil" \/ call.identifier # NoIdentifier
               /\ ReturnWith(outcome.err)
               /\ UNCHANGED call
            \/ /\ outcome.err # "nil" /\ call.identifier = NoIdentifier
               /\ call' = [call EXCEPT !.i = @ + 1, !.lastErr = outcome.err]
               /\ UNCHANGED <<pc, result, succeeded>>
  /\ UNCHANGED <<vol, streams, offered>>

(* No candidate is left. *)
GiveUp ==
  /\ pc = "try" /\ call.i > Len(call.vmks)
  /\ ReturnWith(IF call.identifier # NoIdentifier THEN "noMatchingVMK"
                ELSE IF call.lastErr # "nil" THEN call.lastErr
                ELSE "noCompatibleVMKFound")
  /\ UNCHANGED <<vol, fvek, call, streams, offered>>

(***************************************************************************)
(* NewBitlockerStream: the cipher for the key, or none.                    *)
(***************************************************************************)
CipherFor(key, sectorSize) ==
  IF key.type \in {"AesXts128", "AesXts256"} /\ key.len \in {32, 64} THEN "xts"
  ELSE IF key.type \in {"Aes128", "Aes256"} /\ key.len \in {16, 32}
          /\ sectorSize > 0 /\ sectorSize % 16 = 0 THEN "cbc"
  ELSE "nil"

NewBitlockerStream ==
  [passthrough |-> Decrypted,
   cipher |-> IF Decrypted THEN "nil" ELSE CipherFor(fvek, vol.sectorSize),
   key |-> IF Decrypted THEN NoKey ELSE fvek]

(* Mutant of Open: Unlocked() is taken as proof that there is a cipher. *)
Open_unchecked ==
  /\ pc = "idle"
  /\ Unlocked
  /\ streams' = streams \union {NewBitlockerStream}
  /\ UNCHANGED <<vol, fvek, pc, call, result, offered, succeeded>>

Open ==
  /\ pc = "idle"
  /\ Unlocked
  /\ NewBitlockerStream.passthrough \/ NewBitlockerStream.cipher # "nil"
  /\ streams' = streams \union {NewBitlockerStream}
  /\ UNCHANGED <<vol, fvek, pc, call, result, offered, succeeded>>

Next ==
  \/ \E key \in VmkKeys : Unlock(key)
  \/ \E p \in Passphrases, g \in Identifiers : UnlockWithPassphrase(p, g)
  \/ \E r \in RecoveryPasswords :
       \/ \E g \in Identifiers : UnlockWithRecoveryPassword(r, g)
       \/ RejectRecoveryPassword(r)
  \/ UnlockWithClearKey
  \/ \E bek \in Beks : UnlockWithExternalKey(bek)
  \/ SkipVmk \/ TryVmk \/ GiveUp
  \/ Open

Spec == Init /\ [][Next]_vars

---------------------------------------------------------------------------
(* Types, and that unlockWithUserKey's loop stays within its candidates.   *)
TypeOK ==
  /\ vol \in Volumes
  /\ pc \in {"idle", "try"}
  /\ pc = "try" => call.i \in 1..(Len(call.vmks) + 1)
  /\ succeeded \subseteq {"nil"}
  /\ \A s \in streams : s.passthrough \in BOOLEAN /\ s.cipher \in {"xts", "cbc", "nil"}

(* The VMK that a VMK datum gives to the holder of a user key. *)
Gives(d, userKey, v) ==
  LET stretchKeys == FindProperty(d, "StretchKey")
      encryptedKeys == FindProperty(d, "AesCcmEncryptedKey")
  IN  /\ stretchKeys # <<>> /\ encryptedKeys # <<>>
      /\ Head(encryptedKeys).box.under = Stretch(userKey, Head(stretchKeys).salt)
      /\ Head(encryptedKeys).box.holds.type = "Vmk"
      /\ Head(encryptedKeys).box.holds.data = v

(* The protector that a user key belongs to. *)
ProtectorOf(userKey) ==
  IF userKey[1] = "passphrase" THEN FveKeyProtectorPassphrase
                               ELSE FveKeyProtectorRecoveryPassword

(***************************************************************************)
(* The only key a BDE ever stores is the one in the volume's first FVEK    *)
(* datum, and it has it only if the caller has offered the VMK that seals  *)
(* it, or a credential whose stretched key opens a VMK datum of its own    *)
(* kind of protector with that VMK inside.                                 *)
(***************************************************************************)
KeyIsJustified ==
  fvek # NoKey =>
    LET box == Head(FindFvek(vol.dataset)).box
    IN  /\ FindFvek(vol.dataset) # <<>>
        /\ fvek = box.holds
        /\ \/ box.under \in offered
           \/ \E userKey \in offered, j \in 1..Len(vol.dataset) :
                LET d == vol.dataset[j]
                IN  /\ d.type = "VolumeMasterKeyInfo"
                    /\ d.protector - (d.protector % 256) = ProtectorOf(userKey)
                    /\ Gives(d, userKey, box.under)

(* A VMK datum with which a user key unlocks the volume completely. *)
Works(d, userKey) ==
  /\ FindFvek(vol.dataset) # <<>>
  /\ Head(FindFvek(vol.dataset)).box.holds.type \in CipherMap
  /\ Gives(d, userKey, Head(FindFvek(vol.dataset)).box.under)

(***************************************************************************)
(* An unlock call with a credential returns nil exactly if the credential  *)
(* is good: for some VMK of its kind, whatever precedes it in the          *)
(* metadata; with an identifier, for the first VMK with that GUID.         *)
(***************************************************************************)
OutcomeDeserved ==
  (pc = "idle" /\ call # NoCall) =>
    LET named == {j \in 1..Len(call.vmks) :
                    call.identifier = NoIdentifier \/ call.vmks[j].guid = call.identifier}
        eligible == IF call.identifier = NoIdentifier THEN named
                    ELSE {j \in named : \A k \in named : j <= k}
    IN  (result = "nil") <=> \E j \in eligible : Works(call.vmks[j], call.key)

(***************************************************************************)
(* A key once obtained is never lost nor replaced, however many unlock     *)
(* calls with wrong credentials follow.                                    *)
(***************************************************************************)
KeyNeverLost == [][fvek # NoKey => fvek' = fvek]_vars

(***************************************************************************)
(* Every stream can read: it passes data through on a decrypted volume, or *)
(* has a cipher keyed with the key the BDE still has. On an encrypted      *)
(* volume there is none before an unlock call has succeeded, although a    *)
(* failed call may leave an unsupported key behind.                        *)
(***************************************************************************)
StreamsUsable ==
  \A s \in streams :
     \/ s.passthrough /\ Decrypted
     \/ ~s.passthrough /\ s.cipher # "nil" /\ s.key = fvek /\ fvek # NoKey
        /\ "nil" \in succeeded

(* What a recovery password is, independently of how it is checked: eight  *)
(* blocks of six digits, each eleven times a 16-bit word of the key.       *)
SixDigitBlock(b) == Len(b) = 6 /\ \A i \in 1..6 : b[i] \in 0..9

ValueOf(b) ==
  100000 * b[1] + 10000 * b[2] + 1000 * b[3] + 100 * b[4] + 10 * b[5] + b[6]

IsRecoveryPassword(p) ==
  /\ Len(p) = 8
  /\ \A j \in 1..8 : /\ SixDigitBlock(p[j])
                     /\ ValueOf(p[j]) % 11 = 0
                     /\ ValueOf(p[j]) \div 11 \in 0..(Uint16Size - 1)

Genuine == { p \in RecoveryPasswords : IsRecoveryPassword(p) }
Unsigned == { p \in RecoveryPasswords :
                \A j \in 1..Len(p) : \A i \in 1..Len(p[j]) : p[j][i] # Plus }
Numbers(p) == [j \in 1..Len(p) |-> Atoi(p[j])]

(* The passwords that an unlock call which begins may have been given. *)
Begun == { p \in RecoveryPasswords : \E g \in Identifiers : UnlockWithRecoveryPassword(p, g) }

(***************************************************************************)
(* Among the passwords without a plus sign UnlockWithRecoveryPassword goes *)
(* on with exactly the genuine ones: the checksum digit, the sign of its   *)
(* remainder and the order of the checks neither let a wrong block through *)
(* nor refuse a right one. Any two passwords, signed or not, lead to the   *)
(* same key only if they are the same numbers, so no block is truncated.   *)
(* What becomes of signed blocks is the question of OnlySixDigitBlocks.    *)
(***************************************************************************)
UnsignedPasswordsExact ==
  [][/\ pc = "idle" /\ pc' = "try" =>
          /\ Begun \intersect Unsigned \subseteq Genuine
          /\ \A p, q \in Begun : Numbers(p) = Numbers(q)
     /\ \A p \in Genuine : ~RejectRecoveryPassword(p)]_vars

(***************************************************************************)
(* An unlock call goes on with genuine recovery passwords only: "Must be   *)
(* numeric" (keys.go:96) and "each block must be 6 digits" (keys.go:119).  *)
(* The code lets a plus sign stand for the first digit of a block, because *)
(* strconv.Atoi takes a sign and the error of Atoi for a single character  *)
(* is dropped (keys.go:115), which leaves the digit 0.                     *)
(***************************************************************************)
OnlySixDigitBlocks == [][pc = "idle" /\ pc' = "try" => Begun \subseteq Genuine]_vars
=============================================================================
