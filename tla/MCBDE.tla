-------------------------------- MODULE MCBDE --------------------------------
(* Small volumes for BDE: no VMK or any one of eleven with any FVEK, and     *)
(* pairs of VMKs that hold a key.                                            *)
EXTENDS BDE

Container(type, data, len) == [type |-> type, data |-> data, len |-> len]
Box(under, holds) == [under |-> under, holds |-> holds]

StretchKey(salt) == [role |-> "Property", type |-> "StretchKey", salt |-> salt]
Encrypted(role, box) == [role |-> role, type |-> "AesCcmEncryptedKey", box |-> box]
Vmk(protector, guid, properties) ==
  [role |-> "VolumeMasterKeyInfo", type |-> "VolumeMasterKeyInfo", protector |-> protector,
   guid |-> guid, properties |-> properties]

V1 == <<"vmk", "1">>
V2 == <<"vmk", "2">>

(* A VMK sealed for a user key. *)
For(protector, guid, userKey, v) ==
  Vmk(protector, guid,
      << StretchKey("s"), Encrypted("Property", Box(Stretch(userKey, "s"), Container("Vmk", v, 32))) >>)

(* Recovery passwords: a block of six digits, a good password, and others    *)
(* that differ from it in one respect.                                      *)
SixDigits(n) == [j \in 1..6 |-> (n \div 10^(6 - j)) % 10]

MCPassword == << SixDigits(0), SixDigits(11), SixDigits(90904), SixDigits(720885),
                 SixDigits(616209), SixDigits(80905), SixDigits(209), SixDigits(500500) >>

MCBlocks ==
  { SixDigits(22), <<Plus, 0, 0, 0, 1, 1>>, SixDigits(12), SixDigits(720896),
    <<0, 0, 0, 1, 1>>, <<0, 0, 0, 0, 0, 1, 1>>, <<Plus>>, <<Letter, 0, 0, 0, 1, 1>> }

MCRecoveryPasswords ==
  { MCPassword, SubSeq(MCPassword, 1, 7), Append(MCPassword, SixDigits(0)) }
    \union { [MCPassword EXCEPT ![2] = block] : block \in MCBlocks }

(* Only passwords that are not genuine, one of them with a plus sign. *)
MCOddPasswords ==
  { [MCPassword EXCEPT ![2] = block] : block \in MCBlocks \ {SixDigits(22)} }

MCVmks ==
  { For(8192, "g1", DeriveUserKey("p"), V1),
    For(8193, "g2", DeriveUserKey("q"), V1),
    For(8192, "g1", DeriveUserKey("p"), V2),               \* another volume's VMK
    For(2048, "g2", DeriveRecoveryKey(MCPassword), V1),
    For(40960, "g1", DeriveUserKey("p"), V1),              \* beyond the last priority
    For(2048, "g1", DeriveUserKey("p"), V1),               \* filed under the wrong protector
    Vmk(512, "g2", <<>>),                                   \* external key
    Vmk(0, "g1", <<>>),                                     \* clear key
    Vmk(8192, "g2", << StretchKey("s") >>),
    Vmk(8192, "g1", << Encrypted("Property", Box(Stretch(DeriveUserKey("p"), "s"),
                                                 Container("Vmk", V1, 32))) >>),
    Vmk(8192, "g2", << StretchKey("s"),
                       Encrypted("Property", Box(Stretch(DeriveUserKey("p"), "s"),
                                                 Container("ExternKey", V1, 32))) >>) }

MCFveks ==
  { <<>> } \union
  { << Encrypted("FullVolumeEncryptionKey", Box(V1, k)) >> :
      k \in { Container("AesXts128", <<"fvek">>, 32), Container("AesXts128", <<"fvek">>, 16),
              Container("Aes256", <<"fvek">>, 32), Container("Aes128Diffuser", <<"fvek">>, 16),
              Container("Hash256", <<"fvek">>, 32), Short } }

Datasets(vmks, l, fveks) == { v \o f : v \in [1..l -> vmks], f \in fveks }

(* For pairs: the VMKs that hold some key, and good, odd and wrong FVEKs. *)
MCBoxed == { v \in MCVmks : v.protector \in {2048, 8192, 8193} /\ Len(v.properties) = 2 }
MCPairFveks == { f \in MCFveks : f # <<>> /\ f[1].box.holds.type \in {"AesXts128", "Hash256"} }

MCVolumes ==
  [dataset : Datasets(MCVmks, 0, MCFveks), method : {0, 32772}, sectorSize : {512}]
    \union [dataset : Datasets(MCVmks, 1, MCFveks) \union Datasets(MCBoxed, 2, MCPairFveks),
            method : {32772}, sectorSize : {512}]

(* A volume that MCPassword unlocks. *)
MCRecoveryVolumes ==
  [dataset : { << For(2048, "g2", DeriveRecoveryKey(MCPassword), V1),
                  Encrypted("FullVolumeEncryptionKey",
                            Box(V1, Container("AesXts128", <<"fvek">>, 32))) >> },
   method : {32772}, sectorSize : {512}]

MCBeks == { <<>>, << [role |-> "StartupKey", type |-> "ExternalInfo", guid |-> "g2"] >> }
MCVmkKeys == { V1, V2 }
=============================================================================
