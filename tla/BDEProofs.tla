------------------------------ MODULE BDEProofs ------------------------------
(***************************************************************************)
(* Proofs about BDE, for every volume: any number of VMK datums, any       *)
(* nesting of keys and any sequence of unlock and Open calls.              *)
(***************************************************************************)
EXTENDS BDE, SetInduction, SequenceTheorems, TLAPS

(* The container in the first FVEK datum: the one key Unlock can store. *)
HeldKey == Head(FindFvek(vol.dataset)).box.holds

(***************************************************************************)
(* The inductive invariant. The stored key is the volume's; if its cipher  *)
(* is in CipherMap the call that stored it succeeded; and the streams hold *)
(* the stored key.                                                         *)
(***************************************************************************)
KeyInv == fvek # NoKey => fvek = HeldKey /\ (fvek.type \in CipherMap => "nil" \in succeeded)

IndInv == KeyInv /\ StreamsUsable

(* Unlock leaves b.fvek alone or stores the volume's key. *)
LEMMA OutcomeKey ==
  ASSUME NEW key
  PROVE  \/ /\ UnlockOutcome(key).key = fvek
            /\ UnlockOutcome(key).err # "nil"
         \/ /\ UnlockOutcome(key).key = HeldKey
            /\ HeldKey.type \in CipherMap => UnlockOutcome(key).err = "nil"
<1> DEFINE unboxed == Unbox(Head(FindFvek(vol.dataset)), key)
<1>1. unboxed.err # "nil" \/ unboxed.key = HeldKey
  BY DEF Unbox, Failed, HeldKey
<1>2. FindFvek(vol.dataset) = <<>> => UnlockOutcome(key) = [err |-> "FVEKNotFound", key |-> fvek]
  BY DEF UnlockOutcome
<1>3. FindFvek(vol.dataset) # <<>> =>
        UnlockOutcome(key) =
          IF unboxed.err # "nil" THEN [err |-> unboxed.err, key |-> fvek]
          ELSE [err |-> IF unboxed.key.type \in CipherMap
                          THEN "nil" ELSE "unsupportedCipherType",
                key |-> unboxed.key]
  BY DEF UnlockOutcome
<1> HIDE DEF unboxed
<1>4. CASE FindFvek(vol.dataset) = <<>>
  BY <1>2, <1>4
<1>5. CASE FindFvek(vol.dataset) # <<>> /\ unboxed.err # "nil"
  BY <1>3, <1>5
<1>6. CASE FindFvek(vol.dataset) # <<>> /\ unboxed.err = "nil"
  <2>1. UnlockOutcome(key).key = unboxed.key
    BY <1>3, <1>6
  <2>2. unboxed.key.type \in CipherMap => UnlockOutcome(key).err = "nil"
    BY <1>3, <1>6
  <2> QED BY <1>1, <1>6, <2>1, <2>2
<1> QED BY <1>4, <1>5, <1>6

(* So does an attempt with a candidate VMK. *)
LEMMA AttemptKey ==
  ASSUME NEW vmk, NEW userKey
  PROVE  \/ /\ Attempt(vmk, userKey).key = fvek
            /\ Attempt(vmk, userKey).err # "nil"
         \/ /\ Attempt(vmk, userKey).key = HeldKey
            /\ HeldKey.type \in CipherMap => Attempt(vmk, userKey).err = "nil"
<1> DEFINE decrypted == decryptVmkWithUserKey(vmk, userKey)
<1>1. Attempt(vmk, userKey) = IF decrypted.err # "nil" THEN [err |-> decrypted.err, key |-> fvek]
                              ELSE UnlockOutcome(decrypted.key.data)
  BY DEF Attempt
<1> HIDE DEF decrypted
<1>2. CASE decrypted.err # "nil"
  BY <1>1, <1>2
<1>3. CASE decrypted.err = "nil"
  BY <1>1, <1>3, OutcomeKey
<1> QED BY <1>2, <1>3

(* What a step does to the key state: nothing, or it stores the volume's key. *)
LEMMA KeyStep ==
  ASSUME Next
  PROVE  /\ vol' = vol
         /\ "nil" \in succeeded => "nil" \in succeeded'
         /\ \/ fvek' = fvek
            \/ fvek' = HeldKey /\ (HeldKey.type \in CipherMap => "nil" \in succeeded')
<1>1. ASSUME NEW key, Unlock(key)
      PROVE  /\ vol' = vol /\ ("nil" \in succeeded => "nil" \in succeeded')
             /\ \/ fvek' = fvek
                \/ fvek' = HeldKey /\ (HeldKey.type \in CipherMap => "nil" \in succeeded')
  BY <1>1, OutcomeKey DEF Unlock, ReturnWith
<1>2. ASSUME TryVmk
      PROVE  /\ vol' = vol /\ ("nil" \in succeeded => "nil" \in succeeded')
             /\ \/ fvek' = fvek
                \/ fvek' = HeldKey /\ (HeldKey.type \in CipherMap => "nil" \in succeeded')
  <2> DEFINE outcome == Attempt(Candidate, call.key)
  <2>1. /\ fvek' = outcome.key /\ vol' = vol
        /\ \/ succeeded' = succeeded \union ({outcome.err} \intersect {"nil"})
           \/ outcome.err # "nil" /\ succeeded' = succeeded
    BY <1>2 DEF TryVmk, ReturnWith
  <2>2. \/ outcome.key = fvek
        \/ outcome.key = HeldKey /\ (HeldKey.type \in CipherMap => outcome.err = "nil")
    BY AttemptKey
  <2> HIDE DEF outcome
  <2> QED BY <2>1, <2>2
<1>3. ASSUME \/ \E p \in Passphrases, g \in Identifiers : UnlockWithPassphrase(p, g)
             \/ \E r \in RecoveryPasswords : \/ \E g \in Identifiers : UnlockWithRecoveryPassword(r, g)
                                            \/ RejectRecoveryPassword(r)
             \/ UnlockWithClearKey \/ (\E bek \in Beks : UnlockWithExternalKey(bek))
             \/ SkipVmk \/ GiveUp \/ Open
      PROVE  vol' = vol /\ ("nil" \in succeeded => "nil" \in succeeded') /\ fvek' = fvek
  BY <1>3 DEF UnlockWithPassphrase, UnlockWithRecoveryPassword, unlockWithUserKey,
     RejectRecoveryPassword, UnlockWithClearKey, UnlockWithExternalKey, Refuse, ReturnWith,
     SkipVmk, GiveUp, Open
<1> QED BY <1>1, <1>2, <1>3 DEF Next

(* A stream is added only by Open, with the key the BDE has. *)
LEMMA StreamStep ==
  ASSUME Next, KeyInv, NEW s \in streams', s \notin streams
  PROVE  /\ fvek' = fvek
         /\ \/ s.passthrough /\ Decrypted
            \/ ~s.passthrough /\ s.cipher # "nil" /\ s.key = fvek /\ fvek # NoKey
               /\ "nil" \in succeeded
<1>1. Open
  BY DEF Next, Unlock, UnlockWithPassphrase, UnlockWithRecoveryPassword, unlockWithUserKey,
     RejectRecoveryPassword, UnlockWithClearKey, UnlockWithExternalKey, Refuse,
     SkipVmk, TryVmk, GiveUp
<1>2. /\ fvek' = fvek /\ s = NewBitlockerStream /\ Unlocked
      /\ NewBitlockerStream.passthrough \/ NewBitlockerStream.cipher # "nil"
  BY <1>1 DEF Open
<1>3. CASE Decrypted
  <2>1. NewBitlockerStream = [passthrough |-> TRUE, cipher |-> "nil", key |-> NoKey]
    BY <1>3 DEF NewBitlockerStream
  <2> QED BY <1>2, <1>3, <2>1
<1>4. CASE ~Decrypted
  <2>1. NewBitlockerStream = [passthrough |-> FALSE, cipher |-> CipherFor(fvek, vol.sectorSize),
                              key |-> fvek]
    BY <1>4 DEF NewBitlockerStream, Decrypted
  <2>a. ~NewBitlockerStream.passthrough
    <3>1. NewBitlockerStream.passthrough = FALSE
      BY <2>1
    <3> QED BY <3>1
  <2>b. NewBitlockerStream.cipher = CipherFor(fvek, vol.sectorSize)
    BY <2>1
  <2>2. CipherFor(fvek, vol.sectorSize) # "nil" /\ fvek # NoKey
    BY <1>2, <1>4, <2>a, <2>b DEF Unlocked
  <2>3. fvek.type \in CipherMap
    BY <2>2 DEF CipherFor, CipherMap
  <2> QED BY <1>2, <2>1, <2>a, <2>b, <2>2, <2>3 DEF KeyInv
<1> QED BY <1>3, <1>4

(* The inductive invariant holds in every reachable state. *)
THEOREM Invariance == Spec => []IndInv
<1>1. Init => IndInv
  BY DEF Init, IndInv, KeyInv, StreamsUsable
<1>2. IndInv /\ [Next]_vars => IndInv'
  <2> SUFFICES ASSUME IndInv, [Next]_vars PROVE IndInv'
    OBVIOUS
  <2>1. CASE UNCHANGED vars
    BY <2>1 DEF vars, IndInv, KeyInv, StreamsUsable, HeldKey, Decrypted
  <2>2. CASE Next
    <3>1. /\ vol' = vol
          /\ "nil" \in succeeded => "nil" \in succeeded'
          /\ \/ fvek' = fvek
             \/ fvek' = HeldKey /\ (HeldKey.type \in CipherMap => "nil" \in succeeded')
      BY <2>2, KeyStep
    <3>2. HeldKey' = HeldKey
      BY <3>1 DEF HeldKey
    <3>3. KeyInv'
      BY <3>1, <3>2 DEF IndInv, KeyInv
    <3>4. fvek # NoKey => fvek' = fvek
      BY <3>1 DEF IndInv, KeyInv
    <3>5. ASSUME NEW s \in streams'
          PROVE  \/ s.passthrough /\ Decrypted'
                 \/ ~s.passthrough /\ s.cipher # "nil" /\ s.key = fvek' /\ fvek' # NoKey
                    /\ "nil" \in succeeded'
      <4>1. Decrypted' = Decrypted
        BY <3>1 DEF Decrypted
      <4>2. CASE s \in streams
        <5>1. \/ s.passthrough /\ Decrypted
              \/ ~s.passthrough /\ s.cipher # "nil" /\ s.key = fvek /\ fvek # NoKey
               /\ "nil" \in succeeded
          BY <4>2 DEF IndInv, StreamsUsable
        <5> QED BY <5>1, <3>1, <3>4, <4>1
      <4>3. CASE s \notin streams
        BY <2>2, <3>1, <3>5, <4>1, <4>3, StreamStep DEF IndInv
      <4> QED BY <4>2, <4>3
    <3>6. StreamsUsable'
      BY <3>5 DEF StreamsUsable
    <3> QED BY <3>3, <3>6 DEF IndInv
  <2> QED BY <2>1, <2>2
<1> QED BY <1>1, <1>2, PTL DEF Spec

(***************************************************************************)
(* However many unlock calls follow, with whatever credentials, b.fvek is  *)
(* neither lost nor replaced once Unlock has stored it.                    *)
(***************************************************************************)
THEOREM KeyKept == Spec => KeyNeverLost
<1>1. IndInv /\ [Next]_vars => [fvek # NoKey => fvek' = fvek]_vars
  <2> SUFFICES ASSUME IndInv, [Next]_vars, fvek # NoKey PROVE fvek' = fvek
    OBVIOUS
  <2>1. CASE Next
    BY <2>1, KeyStep DEF IndInv, KeyInv
  <2>2. CASE UNCHANGED vars
    BY <2>2 DEF vars
  <2> QED BY <2>1, <2>2
<1> QED BY Invariance, <1>1, PTL DEF Spec, KeyNeverLost

(***************************************************************************)
(* Every stream Open has returned passes a decrypted volume through or has *)
(* a cipher with the key the BDE still has, and an unlock call that        *)
(* returned nil came before it.                                            *)
(***************************************************************************)
THEOREM StreamsHaveKeys == Spec => []StreamsUsable
<1>1. IndInv => StreamsUsable
  BY DEF IndInv
<1> QED BY Invariance, <1>1, PTL

---------------------------------------------------------------------------
(* Lookups. *)

(* g is what Collect has collected after each of the first n elements. *)
Collecting(g, s, J, n) ==
  g = [j \in 0..n |-> IF j = 0 THEN <<>> ELSE IF j \in J THEN Append(g[j - 1], s[j]) ELSE g[j - 1]]

(* The loop of FindDatum over any dataset is well defined after each of its steps. *)
LEMMA CollectingExists ==
  ASSUME NEW s, NEW J, NEW n \in Nat
  PROVE  \E g : Collecting(g, s, J, n)
<1> DEFINE S == {m \in Nat : \E g : Collecting(g, s, J, m)}
<1>1. 0 \in S
  <2>1. Collecting([j \in 0..0 |-> <<>>], s, J, 0)
    BY DEF Collecting
  <2> QED BY <2>1
<1>2. ASSUME NEW m \in Nat, m \in S PROVE m + 1 \in S
  <2>1. PICK g : Collecting(g, s, J, m)
    BY <1>2
  <2> DEFINE new == IF m + 1 \in J THEN Append(g[m], s[m + 1]) ELSE g[m]
             h == [j \in 0..(m + 1) |-> IF j = m + 1 THEN new ELSE g[j]]
  <2>2. Collecting(h, s, J, m + 1)
    <3>1. ASSUME NEW j \in 0..(m + 1)
          PROVE  h[j] = IF j = 0 THEN <<>>
                        ELSE IF j \in J THEN Append(h[j - 1], s[j]) ELSE h[j - 1]
      <4>1. CASE j = m + 1
        <5>1. h[j] = new /\ h[j - 1] = g[m] /\ j # 0
          BY <4>1
        <5> QED BY <4>1, <5>1
      <4>2. CASE j # m + 1
        <5>1. j \in 0..m /\ h[j] = g[j] /\ (j # 0 => h[j - 1] = g[j - 1])
          BY <4>2
        <5> QED BY <2>1, <5>1 DEF Collecting
      <4> QED BY <4>1, <4>2
    <3>2. h = [j \in 0..(m + 1) |-> h[j]]
      OBVIOUS
    <3> HIDE DEF h
    <3> QED BY <3>1, <3>2 DEF Collecting
  <2> QED BY <2>2
<1> HIDE DEF S
<1>3. Nat \subseteq S
  BY <1>1, <1>2, Induction
<1> QED BY <1>3 DEF S

(* A lookup returns a sequence of datums of the dataset that match, and no others. *)
LEMMA CollectElements ==
  ASSUME NEW S, NEW s \in Seq(S), NEW J
  PROVE  /\ Collect(s, J) \in Seq(S)
         /\ \A k \in 1..Len(Collect(s, J)) : \E j \in 1..Len(s) : j \in J /\ Collect(s, J)[k] = s[j]
<1>1. Len(s) \in Nat
  BY LenProperties
<1> DEFINE g == CHOOSE f : Collecting(f, s, J, Len(s))
<1>2. Collecting(g, s, J, Len(s))
  BY <1>1, CollectingExists
<1>3. Collect(s, J) = g[Len(s)]
  BY DEF Collect, Collecting
<1> HIDE DEF g
<1> DEFINE Good(c) == c \in Seq(S) /\ \A k \in 1..Len(c) : \E j \in 1..Len(s) : j \in J /\ c[k] = s[j]
           I == {n \in Nat : n <= Len(s) => Good(g[n])}
<1>4. 0 \in I
  <2>1. g[0] = <<>>
    BY <1>1, <1>2 DEF Collecting
  <2>2. Good(<<>>)
    BY EmptySeq
  <2> QED BY <2>1, <2>2
<1>5. ASSUME NEW n \in Nat, n \in I PROVE n + 1 \in I
  <2> SUFFICES ASSUME n + 1 <= Len(s) PROVE Good(g[n + 1])
    OBVIOUS
  <2>1. Good(g[n])
    BY <1>1, <1>5
  <2>2. g[n + 1] = IF n + 1 \in J THEN Append(g[n], s[n + 1]) ELSE g[n]
    <3> DEFINE m == n + 1
    <3>1. m \in 0..Len(s) /\ m # 0 /\ m - 1 = n
      BY <1>1
    <3> HIDE DEF m
    <3>2. g[m] = IF m \in J THEN Append(g[m - 1], s[m]) ELSE g[m - 1]
      BY <1>2, <3>1 DEF Collecting
    <3> QED BY <3>1, <3>2 DEF m
  <2>3. CASE n + 1 \in J
    <3>1. n + 1 \in 1..Len(s) /\ s[n + 1] \in S
      BY <1>1, ElementOfSeq
    <3> DEFINE c == g[n]  e == s[n + 1]
    <3>2. c \in Seq(S) /\ e \in S /\ g[n + 1] = Append(c, e)
      BY <2>1, <2>2, <2>3, <3>1
    <3>3. /\ Append(c, e) \in Seq(S) /\ Len(Append(c, e)) = Len(c) + 1 /\ Len(c) \in Nat
          /\ \A k \in 1..Len(c) : Append(c, e)[k] = c[k]
          /\ Append(c, e)[Len(c) + 1] = e
      <4> HIDE DEF c, e
      <4> QED BY <3>2, AppendProperties, LenProperties
    <3>4. ASSUME NEW k \in 1..(Len(c) + 1)
          PROVE  \E j \in 1..Len(s) : j \in J /\ Append(c, e)[k] = s[j]
      <4>1. CASE k = Len(c) + 1
        BY <2>3, <3>1, <3>3, <4>1
      <4>2. CASE k # Len(c) + 1
        <5>1. k \in 1..Len(c)
          BY <3>3, <4>2
        <5>2. \E j \in 1..Len(s) : j \in J /\ c[k] = s[j]
          BY <2>1, <5>1
        <5> QED BY <3>3, <5>1, <5>2
      <4> QED BY <4>1, <4>2
    <3> QED BY <3>2, <3>3, <3>4
  <2>4. CASE n + 1 \notin J
    BY <2>1, <2>2, <2>4
  <2> QED BY <2>3, <2>4
<1>6. Nat \subseteq I
  <2> HIDE DEF I
  <2> QED BY <1>4, <1>5, Induction
<1> QED BY <1>1, <1>3, <1>6
(* A VMK datum of the volume, filed under the protector of a user key. *)
Belongs(d, userKey) ==
  \E j \in 1..Len(vol.dataset) :
     /\ d = vol.dataset[j]
     /\ d.type = "VolumeMasterKeyInfo"
     /\ d.protector - (d.protector % 256) = ProtectorOf(userKey)

(* The dataset of an opened volume is a sequence of datums. *)
LEMMA DatasetIsSequence ==
  ASSUME vol \in Volumes
  PROVE  \E S : vol.dataset \in Seq(S)
BY BDEAssumption DEF BDEAssumption

(* priority & 0xFF00 drops the low byte. *)
LEMMA MaskedDropsLowByte ==
  ASSUME NEW x
  PROVE  Masked(x, 65280) = x - (x % 256)
BY SMT DEF Masked

(* FindVmk returns only VMK datums of the protector it is asked for. *)
LEMMA VmksBelong ==
  ASSUME vol \in Volumes, NEW userKey, NEW found, ProtectorOf(userKey) \in Nat \ {0},
         NEW max, NEW mask, \A x : Masked(x, mask) = x - (x % 256),
         found = FindVmk(vol.dataset, ProtectorOf(userKey), 0, max, mask)
  PROVE  Len(found) \in Nat /\ \A k \in 1..Len(found) : Belongs(found[k], userKey)
<1> DEFINE ds == vol.dataset
           protector == ProtectorOf(userKey)
           role == "VolumeMasterKeyInfo"
           J == {j \in 1..Len(ds) : ds[j].role = role /\ ds[j].type = role}
           all == Collect(ds, J)
           K == {j \in 1..Len(all) :
                   /\ all[j].protector >= 0 /\ all[j].protector <= max
                   /\ protector = 0 \/ Masked(all[j].protector, mask) = protector}
           vmks == Collect(all, K)
<1>1. PICK S : ds \in Seq(S)
  BY DatasetIsSequence
<1>2. vmks = found
  BY DEF FindVmk, FindDatum
<1>3. \A j \in J : ds[j].type = role
  OBVIOUS
<1>4. \A j \in K : all[j].protector - (all[j].protector % 256) = protector
  <2> HIDE DEF all, protector
  <2>1. protector # 0
    BY DEF protector
  <2>2. \A j \in K : Masked(all[j].protector, mask) = protector
    BY <2>1, Zenon
  <2> QED BY <2>2, Zenon
<1> HIDE DEF J, K
<1>5. /\ all \in Seq(S)
      /\ \A k \in 1..Len(all) : \E j \in 1..Len(ds) : j \in J /\ all[k] = ds[j]
  BY <1>1, CollectElements
<1> HIDE DEF all
<1>6. /\ vmks \in Seq(S)
      /\ \A k \in 1..Len(vmks) : \E j \in 1..Len(all) : j \in K /\ vmks[k] = all[j]
  BY <1>5, CollectElements
<1> HIDE DEF vmks
<1>7. Len(vmks) \in Nat
  BY <1>6, LenProperties
<1>8. ASSUME NEW k \in 1..Len(vmks)
      PROVE  \E j \in 1..Len(ds) :
               /\ vmks[k] = ds[j] /\ vmks[k].type = role
               /\ vmks[k].protector - (vmks[k].protector % 256) = protector
  <2>1. PICK i \in 1..Len(all) : i \in K /\ vmks[k] = all[i]
    BY <1>6
  <2>2. PICK j \in 1..Len(ds) : j \in J /\ all[i] = ds[j]
    BY <1>5
  <2> QED BY <1>3, <1>4, <2>1, <2>2
<1> QED BY <1>2, <1>7, <1>8 DEF Belongs

---------------------------------------------------------------------------
(* What an unlock call finds. *)

(* decryptVmkWithUserKey succeeds exactly on a VMK that the credential opens, and
   gives the key that this VMK holds. *)
LEMMA DecryptGives ==
  ASSUME NEW d, NEW k
  PROVE  /\ decryptVmkWithUserKey(d, k).err = "nil" =>
              Gives(d, k, decryptVmkWithUserKey(d, k).key.data)
         /\ \A v : Gives(d, k, v) => /\ decryptVmkWithUserKey(d, k).err = "nil"
                                     /\ decryptVmkWithUserKey(d, k).key.data = v
<1> DEFINE sk == FindProperty(d, "StretchKey")
           ek == FindProperty(d, "AesCcmEncryptedKey")
           stretched == Stretch(k, Head(sk).salt)
           box == Head(ek).box
           unboxed == Unbox(Head(ek), stretched)
           out == decryptVmkWithUserKey(d, k)
<1>1. out = IF sk = <<>> THEN Failed("stretchKeyNotFound")
            ELSE IF ek = <<>> THEN Failed("encryptedKeyNotFound")
            ELSE IF unboxed.err = "nil" /\ unboxed.key.type # "Vmk"
                   THEN Failed("unexpectedKeyType") ELSE unboxed
  BY DEF decryptVmkWithUserKey
<1>2. \A v : Gives(d, k, v) <=> /\ sk # <<>> /\ ek # <<>> /\ box.under = stretched
                                /\ box.holds.type = "Vmk" /\ box.holds.data = v
  BY DEF Gives
<1>3. unboxed = IF box.under # stretched THEN Failed("authenticationFailed")
                ELSE IF box.holds = Short THEN Failed("invalidKeyContainerPlaintext")
                ELSE [err |-> "nil", key |-> box.holds]
  BY DEF Unbox
<1>4. \A e : Failed(e).err = e
  BY DEF Failed
<1>5. box.holds.type = "Vmk" => box.holds # Short
  BY DEF Short
<1> HIDE DEF sk, ek, stretched, box, unboxed, out
<1>6. unboxed.err = "nil" <=> box.under = stretched /\ box.holds # Short
  BY <1>3, <1>4
<1>7. unboxed.err = "nil" => unboxed.key = box.holds
  BY <1>3, <1>6
<1>8. out.err = "nil" <=> /\ sk # <<>> /\ ek # <<>> /\ unboxed.err = "nil"
                          /\ unboxed.key.type = "Vmk"
  BY <1>1, <1>4
<1>9. out.err = "nil" => out.key = unboxed.key
  BY <1>1, <1>8
<1>10. ASSUME out.err = "nil" PROVE Gives(d, k, out.key.data)
  BY <1>2, <1>6, <1>7, <1>8, <1>9, <1>10
<1>11. ASSUME NEW v, Gives(d, k, v) PROVE out.err = "nil" /\ out.key.data = v
  BY <1>2, <1>5, <1>6, <1>7, <1>8, <1>9, <1>11
<1> QED BY <1>10, <1>11 DEF out

(* The key Unlock needs. *)
Seal == Head(FindFvek(vol.dataset)).box.under

(* Unlock succeeds exactly with the key that seals the FVEK of a cipher in CipherMap,
   and stores the volume's key or leaves b.fvek alone. *)
LEMMA UnlockExact ==
  ASSUME NEW key
  PROVE  /\ UnlockOutcome(key).err = "nil" <=>
              FindFvek(vol.dataset) # <<>> /\ HeldKey.type \in CipherMap /\ Seal = key
         /\ \/ UnlockOutcome(key).key = fvek
            \/ FindFvek(vol.dataset) # <<>> /\ Seal = key /\ UnlockOutcome(key).key = HeldKey
<1> DEFINE ds == FindFvek(vol.dataset)
           unboxed == Unbox(Head(ds), key)
           out == UnlockOutcome(key)
<1>1. out = IF ds = <<>> THEN [err |-> "FVEKNotFound", key |-> fvek]
            ELSE IF unboxed.err # "nil" THEN [err |-> unboxed.err, key |-> fvek]
            ELSE [err |-> IF unboxed.key.type \in CipherMap
                            THEN "nil" ELSE "unsupportedCipherType",
                  key |-> unboxed.key]
  BY DEF UnlockOutcome
<1>2. unboxed = IF Seal # key THEN Failed("authenticationFailed")
                ELSE IF HeldKey = Short THEN Failed("invalidKeyContainerPlaintext")
                ELSE [err |-> "nil", key |-> HeldKey]
  BY DEF Unbox, Seal, HeldKey
<1>3. \A e : Failed(e).err = e
  BY DEF Failed
<1>4. HeldKey.type \in CipherMap => HeldKey # Short
  BY DEF Short, CipherMap
<1> HIDE DEF ds, unboxed, out
<1>5. unboxed.err = "nil" <=> Seal = key /\ HeldKey # Short
  BY <1>2, <1>3
<1>6. unboxed.err = "nil" => unboxed.key = HeldKey
  BY <1>2, <1>5
<1>7. out.err = "nil" <=> ds # <<>> /\ unboxed.err = "nil" /\ unboxed.key.type \in CipherMap
  BY <1>1
<1>8. out.key = fvek \/ (ds # <<>> /\ unboxed.err = "nil" /\ out.key = unboxed.key)
  BY <1>1
<1>9. out.err = "nil" <=> ds # <<>> /\ HeldKey.type \in CipherMap /\ Seal = key
  BY <1>4, <1>5, <1>6, <1>7
<1>10. out.key = fvek \/ (ds # <<>> /\ Seal = key /\ out.key = HeldKey)
  BY <1>5, <1>6, <1>8
<1> QED BY <1>9, <1>10 DEF ds, out

(* One round of the loop of unlockWithUserKey succeeds exactly on a VMK that works. *)
LEMMA AttemptExact ==
  ASSUME NEW d, NEW k
  PROVE  /\ Attempt(d, k).err = "nil" <=> Works(d, k)
         /\ \/ Attempt(d, k).key = fvek
            \/ /\ FindFvek(vol.dataset) # <<>> /\ Attempt(d, k).key = HeldKey
               /\ Gives(d, k, Seal)
<1> DEFINE decrypted == decryptVmkWithUserKey(d, k)
           out == Attempt(d, k)
<1>1. out = IF decrypted.err # "nil" THEN [err |-> decrypted.err, key |-> fvek]
            ELSE UnlockOutcome(decrypted.key.data)
  BY DEF Attempt
<1>2. /\ decrypted.err = "nil" => Gives(d, k, decrypted.key.data)
      /\ \A v : Gives(d, k, v) => decrypted.err = "nil" /\ decrypted.key.data = v
  BY DecryptGives
<1>3. Works(d, k) <=> /\ FindFvek(vol.dataset) # <<>> /\ HeldKey.type \in CipherMap
                      /\ Gives(d, k, Seal)
  BY DEF Works, Seal, HeldKey
<1> HIDE DEF decrypted, out
<1>4. CASE decrypted.err # "nil"
  <2>1. out.err # "nil" /\ out.key = fvek
    BY <1>1, <1>4
  <2>2. ~Works(d, k)
    BY <1>2, <1>3, <1>4
  <2> QED BY <2>1, <2>2 DEF out
<1>5. CASE decrypted.err = "nil"
  <2>1. out = UnlockOutcome(decrypted.key.data)
    BY <1>1, <1>5
  <2>2. Gives(d, k, Seal) <=> Seal = decrypted.key.data
    BY <1>2, <1>5
  <2>3. /\ out.err = "nil" <=> FindFvek(vol.dataset) # <<>> /\ HeldKey.type \in CipherMap
                                 /\ Seal = decrypted.key.data
        /\ \/ out.key = fvek
           \/ FindFvek(vol.dataset) # <<>> /\ Seal = decrypted.key.data /\ out.key = HeldKey
    BY <2>1, UnlockExact
  <2> QED BY <1>3, <2>2, <2>3 DEF out
<1> QED BY <1>4, <1>5
---------------------------------------------------------------------------
(* The loop over the candidates. *)

(***************************************************************************)
(* What unlockWithUserKey knows between two candidates: they are the VMKs  *)
(* of the credential's protector, and none before the current one would    *)
(* have ended the call well.                                               *)
(***************************************************************************)
CallInv ==
  pc = "try" =>
    /\ \E vs, uk, g, n, e :
         call = [vmks |-> vs, key |-> uk, identifier |-> g, i |-> n, lastErr |-> e]
    /\ Len(call.vmks) \in Nat /\ call.i \in 1..(Len(call.vmks) + 1)
    /\ call.key \in offered
    /\ \A j \in 1..Len(call.vmks) : Belongs(call.vmks[j], call.key)
    /\ \A j \in 1..(call.i - 1) :
         IF call.identifier = NoIdentifier THEN ~Works(call.vmks[j], call.key)
                                           ELSE call.vmks[j].guid # call.identifier

LoopInv == TypeOK /\ CallInv /\ KeyIsJustified /\ OutcomeDeserved

(* The two ways to have come by the key. *)
Earned(keys) ==
  \/ Seal \in keys
  \/ \E userKey \in keys : \E d : Belongs(d, userKey) /\ Gives(d, userKey, Seal)

(* KeyIsJustified in terms of HeldKey and Earned. *)
LEMMA JustifiedIsEarned ==
  KeyIsJustified <=> (fvek # NoKey => /\ FindFvek(vol.dataset) # <<>> /\ fvek = HeldKey
                                      /\ Earned(offered))
<1>1. Earned(offered) <=>
        \/ Seal \in offered
        \/ \E userKey \in offered, j \in 1..Len(vol.dataset) :
             /\ vol.dataset[j].type = "VolumeMasterKeyInfo"
             /\ vol.dataset[j].protector - (vol.dataset[j].protector % 256) = ProtectorOf(userKey)
             /\ Gives(vol.dataset[j], userKey, Seal)
  BY DEF Earned, Belongs
<1> QED BY <1>1 DEF KeyIsJustified, Seal, HeldKey

(* A step keeps the key or earns it. *)
LEMMA JustifiedStep ==
  ASSUME KeyIsJustified, vol' = vol, offered \subseteq offered',
         \/ fvek' = fvek
         \/ FindFvek(vol.dataset) # <<>> /\ fvek' = HeldKey /\ Earned(offered')
  PROVE  KeyIsJustified'
<1>1. Seal' = Seal /\ HeldKey' = HeldKey
  BY DEF Seal, HeldKey
<1>2. Earned(offered) => Earned(offered')
  BY DEF Earned
<1>3. fvek' # NoKey => /\ FindFvek(vol.dataset) # <<>> /\ fvek' = HeldKey /\ Earned(offered')
  BY <1>2, JustifiedIsEarned
<1>4. Earned(offered') <=>
        \/ Seal \in offered'
        \/ \E userKey \in offered', j \in 1..Len(vol.dataset) :
             /\ vol.dataset[j].type = "VolumeMasterKeyInfo"
             /\ vol.dataset[j].protector - (vol.dataset[j].protector % 256) = ProtectorOf(userKey)
             /\ Gives(vol.dataset[j], userKey, Seal)
  BY DEF Earned, Belongs
<1> QED BY <1>1, <1>3, <1>4 DEF KeyIsJustified, Seal, HeldKey

(* A call that ends without a candidate, or an Unlock with a VMK. *)
LEMMA ShortCallStep ==
  ASSUME LoopInv, vol' = vol, streams' = streams, pc' = "idle", call' = NoCall,
         succeeded' \subseteq {"nil"}, KeyIsJustified'
  PROVE  LoopInv'
<1>1. TypeOK'
  BY DEF LoopInv, TypeOK
<1>2. CallInv' /\ OutcomeDeserved'
  BY DEF CallInv, OutcomeDeserved, NoCall
<1> QED BY <1>1, <1>2 DEF LoopInv

(* Unlock called with a key keeps the invariant. *)
LEMMA UnlockStep ==
  ASSUME LoopInv, NEW key, Unlock(key)
  PROVE  LoopInv'
<1>1. /\ vol' = vol /\ streams' = streams /\ pc' = "idle" /\ call' = NoCall
      /\ fvek' = UnlockOutcome(key).key /\ offered' = offered \union {key}
      /\ succeeded' \subseteq succeeded \union {"nil"}
  BY DEF Unlock, ReturnWith
<1>2. \/ fvek' = fvek
      \/ FindFvek(vol.dataset) # <<>> /\ fvek' = HeldKey /\ Earned(offered')
  BY <1>1, UnlockExact DEF Earned
<1>3. KeyIsJustified'
  BY <1>1, <1>2, JustifiedStep DEF LoopInv
<1>4. succeeded' \subseteq {"nil"}
  BY <1>1 DEF LoopInv, TypeOK
<1> QED BY <1>1, <1>3, <1>4, ShortCallStep

(* A call that ends before it tries a key keeps the invariant. *)
LEMMA RefuseStep ==
  ASSUME LoopInv, NEW e, Refuse(e)
  PROVE  LoopInv'
<1>1. /\ vol' = vol /\ streams' = streams /\ pc' = "idle" /\ call' = NoCall
      /\ fvek' = fvek /\ offered' = offered
      /\ succeeded' \subseteq succeeded \union {"nil"}
  BY DEF Refuse, ReturnWith
<1>2. KeyIsJustified'
  BY <1>1, JustifiedStep DEF LoopInv
<1>3. succeeded' \subseteq {"nil"}
  BY <1>1 DEF LoopInv, TypeOK
<1> QED BY <1>1, <1>2, <1>3, ShortCallStep

(* Entering unlockWithUserKey with the VMKs of the credential's protector keeps the
   invariant. *)
LEMMA BeginStep ==
  ASSUME LoopInv, NEW vmks, NEW userKey, NEW g, unlockWithUserKey(vmks, userKey, g),
         Len(vmks) \in Nat, \A j \in 1..Len(vmks) : Belongs(vmks[j], userKey)
  PROVE  LoopInv'
<1>1. /\ vol' = vol /\ streams' = streams /\ pc' = "try" /\ fvek' = fvek
      /\ call' = [vmks |-> vmks, key |-> userKey, identifier |-> g, i |-> 1, lastErr |-> "nil"]
      /\ offered' = offered \union {userKey} /\ succeeded' = succeeded
  BY DEF unlockWithUserKey
<1>2. KeyIsJustified'
  BY <1>1, JustifiedStep DEF LoopInv
<1>3. call'.vmks = vmks /\ call'.key = userKey /\ call'.i = 1 /\ call'.identifier = g
  BY <1>1
<1>4. 1 \in 1..(Len(vmks) + 1) /\ 1..(1 - 1) = {}
  OBVIOUS
<1>5. TypeOK'
  BY <1>1, <1>3, <1>4 DEF LoopInv, TypeOK
<1>6. CallInv'
  <2>1. \A j \in 1..Len(call'.vmks) : Belongs(call.vmks[j], call.key)'
    BY <1>1, <1>3 DEF Belongs
  <2>2. \E vs, uk, h, n, e :
          call' = [vmks |-> vs, key |-> uk, identifier |-> h, i |-> n, lastErr |-> e]
    BY <1>1
  <2> QED BY <1>1, <1>3, <1>4, <2>1, <2>2 DEF CallInv
<1>7. OutcomeDeserved'
  BY <1>1 DEF OutcomeDeserved
<1> QED BY <1>2, <1>5, <1>6, <1>7 DEF LoopInv

(* UnlockWithPassphrase enters the loop with the VMKs of its protector. *)
LEMMA PassphraseStep ==
  ASSUME LoopInv, NEW p, NEW g, UnlockWithPassphrase(p, g)
  PROVE  LoopInv'
<1> DEFINE vmks == FindPassphraseVmk(vol.dataset)
           userKey == DeriveUserKey(p)
<1>1. unlockWithUserKey(vmks, userKey, g)
  BY DEF UnlockWithPassphrase
<1>2. vol \in Volumes
  BY DEF LoopInv, TypeOK
<1>3. ProtectorOf(userKey) = 8192
  BY DEF ProtectorOf, DeriveUserKey, FveKeyProtectorPassphrase
<1>4. vmks = FindVmk(vol.dataset, ProtectorOf(userKey), 0, 32767, 65280)
  BY <1>3 DEF FindPassphraseVmk, FveKeyProtectorPassphrase
<1> HIDE DEF vmks, userKey
<1>5. Len(vmks) \in Nat /\ \A j \in 1..Len(vmks) : Belongs(vmks[j], userKey)
  BY <1>2, <1>3, <1>4, MaskedDropsLowByte, VmksBelong
<1> QED BY <1>1, <1>5, BeginStep

(* UnlockWithRecoveryPassword enters the loop with the VMKs of its protector. *)
LEMMA RecoveryStep ==
  ASSUME LoopInv, NEW p, NEW g, UnlockWithRecoveryPassword(p, g)
  PROVE  LoopInv'
<1> DEFINE vmks == FindRecoveryVmk(vol.dataset)
           userKey == DeriveRecoveryKey(p)
<1>1. unlockWithUserKey(vmks, userKey, g)
  BY DEF UnlockWithRecoveryPassword
<1>2. vol \in Volumes
  BY DEF LoopInv, TypeOK
<1>3. ProtectorOf(userKey) = 2048
  BY DEF ProtectorOf, DeriveRecoveryKey, FveKeyProtectorRecoveryPassword
<1>4. vmks = FindVmk(vol.dataset, ProtectorOf(userKey), 0, 32767, 65280)
  BY <1>3 DEF FindRecoveryVmk, FveKeyProtectorRecoveryPassword
<1> HIDE DEF vmks, userKey
<1>5. Len(vmks) \in Nat /\ \A j \in 1..Len(vmks) : Belongs(vmks[j], userKey)
  BY <1>2, <1>3, <1>4, MaskedDropsLowByte, VmksBelong
<1> QED BY <1>1, <1>5, BeginStep

(* The facts about the current call that its steps use. *)
LEMMA InCall ==
  ASSUME LoopInv, pc = "try"
  PROVE  /\ \E vs, uk, g, n, e :
              call = [vmks |-> vs, key |-> uk, identifier |-> g, i |-> n, lastErr |-> e]
         /\ Len(call.vmks) \in Nat /\ call.i \in 1..(Len(call.vmks) + 1)
         /\ call.key \in offered
         /\ \A j \in 1..Len(call.vmks) : Belongs(call.vmks[j], call.key)
         /\ \A j \in 1..(call.i - 1) :
              IF call.identifier = NoIdentifier THEN ~Works(call.vmks[j], call.key)
                                                ELSE call.vmks[j].guid # call.identifier
BY DEF LoopInv, CallInv

(* The loop goes on: the candidate was not one that ends the call. *)
LEMMA GoOnStep ==
  ASSUME LoopInv, pc = "try", call.i <= Len(call.vmks),
         IF call.identifier = NoIdentifier THEN ~Works(Candidate, call.key)
                                           ELSE Candidate.guid # call.identifier,
         vol' = vol, streams' = streams, offered' = offered, pc' = pc, succeeded' = succeeded,
         KeyIsJustified', NEW e,
         call' = [vmks |-> call.vmks, key |-> call.key, identifier |-> call.identifier,
                  i |-> call.i + 1, lastErr |-> e]
  PROVE  LoopInv'
<1>1. /\ Len(call.vmks) \in Nat /\ call.i \in 1..(Len(call.vmks) + 1)
      /\ call.key \in offered
      /\ \A j \in 1..Len(call.vmks) : Belongs(call.vmks[j], call.key)
      /\ \A j \in 1..(call.i - 1) :
           IF call.identifier = NoIdentifier THEN ~Works(call.vmks[j], call.key)
                                             ELSE call.vmks[j].guid # call.identifier
  BY InCall
<1>2. /\ call'.vmks = call.vmks /\ call'.key = call.key
      /\ call'.identifier = call.identifier /\ call'.i = call.i + 1
  OBVIOUS
<1>3. call'.i \in 1..(Len(call'.vmks) + 1)
  BY <1>1, <1>2
<1>4. TypeOK'
  BY <1>3 DEF LoopInv, TypeOK
<1>5. OutcomeDeserved'
  BY DEF OutcomeDeserved
<1>6. ASSUME NEW j \in 1..(call'.i - 1)
      PROVE  IF call.identifier = NoIdentifier THEN ~Works(call.vmks[j], call.key)
                                               ELSE call.vmks[j].guid # call.identifier
  <2>1. j = call.i \/ j \in 1..(call.i - 1)
    BY <1>1, <1>2
  <2> QED BY <1>1, <2>1 DEF Candidate
<1>7. CallInv'
  <2>1. \A j \in 1..Len(call'.vmks) : Belongs(call.vmks[j], call.key)'
    BY <1>1, <1>2, ZenonT(30) DEF Belongs
  <2>2. \E vs, uk, h, n, er :
          call' = [vmks |-> vs, key |-> uk, identifier |-> h, i |-> n, lastErr |-> er]
    OBVIOUS
  <2>3. \A j \in 1..(call'.i - 1) :
           IF call'.identifier = NoIdentifier THEN ~Works(call.vmks[j], call.key)'
                                              ELSE call'.vmks[j].guid # call'.identifier
    BY <1>2, <1>6 DEF Works
  <2> QED BY <1>1, <1>2, <1>3, <2>1, <2>2, <2>3 DEF CallInv
<1> QED BY <1>4, <1>5, <1>7 DEF LoopInv

(* Passing over a VMK of another identifier keeps the invariant. *)
LEMMA SkipStep == LoopInv /\ SkipVmk => LoopInv'
<1> SUFFICES ASSUME LoopInv, SkipVmk PROVE LoopInv'
  OBVIOUS
<1>1. /\ pc = "try" /\ call.i <= Len(call.vmks) /\ ~Selected
      /\ call' = [call EXCEPT !.i = @ + 1]
      /\ vol' = vol /\ fvek' = fvek /\ pc' = pc /\ streams' = streams
      /\ offered' = offered /\ succeeded' = succeeded
  BY DEF SkipVmk
<1>2. call.identifier # NoIdentifier /\ Candidate.guid # call.identifier
  BY <1>1 DEF Selected
<1>3. PICK vs, uk, g, n, e :
        call = [vmks |-> vs, key |-> uk, identifier |-> g, i |-> n, lastErr |-> e]
  BY <1>1, InCall
<1>4. call' = [vmks |-> call.vmks, key |-> call.key, identifier |-> call.identifier,
               i |-> call.i + 1, lastErr |-> e]
  BY <1>1, <1>3
<1>5. KeyIsJustified'
  BY <1>1, JustifiedStep DEF LoopInv
<1> QED BY <1>1, <1>2, <1>4, <1>5, GoOnStep

(* The call ends with an error exactly if no eligible candidate works. *)
LEMMA EndStep ==
  ASSUME LoopInv, pc = "try", vol' = vol, streams' = streams, pc' = "idle", call' = call,
         succeeded' \subseteq {"nil"}, KeyIsJustified',
         LET named == {j \in 1..Len(call.vmks) :
                         call.identifier = NoIdentifier \/ call.vmks[j].guid = call.identifier}
             eligible == IF call.identifier = NoIdentifier THEN named
                         ELSE {j \in named : \A l \in named : j <= l}
         IN  (result' = "nil") <=> \E j \in eligible : Works(call.vmks[j], call.key)
  PROVE  LoopInv'
<1>1. TypeOK' /\ CallInv'
  BY DEF LoopInv, TypeOK, CallInv
<1>2. OutcomeDeserved'
  BY DEF OutcomeDeserved, Works
<1> QED BY <1>1, <1>2 DEF LoopInv

(* The error after the loop is deserved: no eligible VMK worked. *)
LEMMA GiveUpStep == LoopInv /\ GiveUp => LoopInv'
<1> SUFFICES ASSUME LoopInv, GiveUp PROVE LoopInv'
  OBVIOUS
<1>1. /\ pc = "try" /\ call.i > Len(call.vmks) /\ pc' = "idle"
      /\ vol' = vol /\ fvek' = fvek /\ call' = call /\ streams' = streams /\ offered' = offered
      /\ succeeded' \subseteq succeeded \union {"nil"}
      /\ result' = IF call.identifier # NoIdentifier THEN "noMatchingVMK"
                   ELSE IF call.lastErr # "nil" THEN call.lastErr ELSE "noCompatibleVMKFound"
  BY DEF GiveUp, ReturnWith
<1>2. result' # "nil"
  BY <1>1
<1>3. Len(call.vmks) \in Nat /\ call.i = Len(call.vmks) + 1
  BY <1>1, InCall
<1>4. \A j \in 1..Len(call.vmks) :
        IF call.identifier = NoIdentifier THEN ~Works(call.vmks[j], call.key)
                                          ELSE call.vmks[j].guid # call.identifier
  BY <1>1, <1>3, InCall
<1> DEFINE named == {j \in 1..Len(call.vmks) :
                       call.identifier = NoIdentifier \/ call.vmks[j].guid = call.identifier}
           eligible == IF call.identifier = NoIdentifier THEN named
                       ELSE {j \in named : \A l \in named : j <= l}
<1>5. ~ \E j \in eligible : Works(call.vmks[j], call.key)
  BY <1>4
<1>6. KeyIsJustified'
  BY <1>1, JustifiedStep DEF LoopInv
<1>7. succeeded' \subseteq {"nil"}
  BY <1>1 DEF LoopInv, TypeOK
<1> QED BY <1>1, <1>2, <1>5, <1>6, <1>7, EndStep

(* Trying a VMK keeps the invariant: the call ends well exactly if it works, and goes
   on past a failure only when no identifier was given. *)
LEMMA TryStep == LoopInv /\ TryVmk => LoopInv'
<1> SUFFICES ASSUME LoopInv, TryVmk PROVE LoopInv'
  OBVIOUS
<1> DEFINE out == Attempt(Candidate, call.key)
<1>1. /\ pc = "try" /\ call.i <= Len(call.vmks) /\ Selected /\ fvek' = out.key
      /\ vol' = vol /\ streams' = streams /\ offered' = offered
      /\ \/ /\ out.err = "nil" \/ call.identifier # NoIdentifier
            /\ ReturnWith(out.err) /\ call' = call
         \/ /\ out.err # "nil" /\ call.identifier = NoIdentifier
            /\ call' = [call EXCEPT !.i = @ + 1, !.lastErr = out.err]
            /\ pc' = pc /\ result' = result /\ succeeded' = succeeded
  BY DEF TryVmk
<1>2. /\ Len(call.vmks) \in Nat /\ call.i \in 1..Len(call.vmks)
      /\ call.key \in offered
      /\ Belongs(Candidate, call.key)
      /\ \A j \in 1..(call.i - 1) :
           IF call.identifier = NoIdentifier THEN ~Works(call.vmks[j], call.key)
                                             ELSE call.vmks[j].guid # call.identifier
  <2>1. Len(call.vmks) \in Nat /\ call.i \in 1..Len(call.vmks)
    BY <1>1, InCall
  <2> QED BY <1>1, <2>1, InCall DEF Candidate
<1>3. /\ out.err = "nil" <=> Works(Candidate, call.key)
      /\ \/ out.key = fvek
         \/ FindFvek(vol.dataset) # <<>> /\ out.key = HeldKey /\ Gives(Candidate, call.key, Seal)
  BY AttemptExact
<1> HIDE DEF out
<1>4. KeyIsJustified'
  <2>1. \/ fvek' = fvek
        \/ FindFvek(vol.dataset) # <<>> /\ fvek' = HeldKey /\ Earned(offered')
    BY <1>1, <1>2, <1>3 DEF Earned
  <2> QED BY <1>1, <2>1, JustifiedStep DEF LoopInv
<1>5. CASE /\ out.err # "nil" /\ call.identifier = NoIdentifier
           /\ call' = [call EXCEPT !.i = @ + 1, !.lastErr = out.err]
           /\ pc' = pc /\ result' = result /\ succeeded' = succeeded
  <2>1. PICK vs, uk, g, n, e :
          call = [vmks |-> vs, key |-> uk, identifier |-> g, i |-> n, lastErr |-> e]
    BY <1>1, InCall
  <2>2. call' = [vmks |-> call.vmks, key |-> call.key, identifier |-> call.identifier,
                 i |-> call.i + 1, lastErr |-> out.err]
    BY <1>5, <2>1
  <2>3. ~Works(Candidate, call.key) /\ call.identifier = NoIdentifier
    BY <1>3, <1>5
  <2> QED BY <1>1, <1>4, <1>5, <2>2, <2>3, GoOnStep
<1>6. CASE /\ out.err = "nil" \/ call.identifier # NoIdentifier
           /\ ReturnWith(out.err) /\ call' = call
  <2>1. /\ result' = out.err /\ pc' = "idle"
        /\ succeeded' \subseteq succeeded \union {"nil"}
    BY <1>6 DEF ReturnWith
  <2>2. succeeded' \subseteq {"nil"}
    BY <2>1 DEF LoopInv, TypeOK
  <2> DEFINE named == {j \in 1..Len(call.vmks) :
                         call.identifier = NoIdentifier \/ call.vmks[j].guid = call.identifier}
             eligible == IF call.identifier = NoIdentifier THEN named
                         ELSE {j \in named : \A l \in named : j <= l}
  <2>3. call.i \in named
    BY <1>1, <1>2 DEF Selected, Candidate
  <2>4. (result' = "nil") <=> \E j \in eligible : Works(call.vmks[j], call.key)
    <3>1. CASE call.identifier = NoIdentifier
      <4>1. out.err = "nil" /\ eligible = named
        BY <1>6, <3>1
      <4>2. Works(call.vmks[call.i], call.key)
        BY <1>3, <4>1 DEF Candidate
      <4> QED BY <2>1, <2>3, <4>1, <4>2
    <3>2. CASE call.identifier # NoIdentifier
      <4>1. \A l \in named : call.i <= l
        <5> SUFFICES ASSUME NEW l \in named, ~(call.i <= l) PROVE FALSE
          OBVIOUS
        <5>1. l \in 1..(call.i - 1)
          BY <1>2
        <5>2. call.vmks[l].guid # call.identifier
          BY <1>2, <3>2, <5>1
        <5> QED BY <3>2, <5>2
      <4>2. eligible = {j \in named : \A l \in named : j <= l}
        BY <3>2
      <4>3. call.i \in eligible
        BY <2>3, <4>1, <4>2
      <4>4. \A j \in eligible : j = call.i
        <5> SUFFICES ASSUME NEW j \in eligible PROVE j = call.i
          OBVIOUS
        <5>1. j <= call.i /\ call.i <= j /\ j \in Int /\ call.i \in Int
          BY <1>2, <2>3, <4>1, <4>2
        <5> QED BY <5>1
      <4> QED BY <1>3, <2>1, <4>3, <4>4 DEF Candidate
    <3> QED BY <3>1, <3>2
  <2> QED BY <1>1, <1>4, <1>6, <2>1, <2>2, <2>4, EndStep
<1> QED BY <1>1, <1>5, <1>6

(* Open keeps the invariant. *)
LEMMA OpenStep == LoopInv /\ Open => LoopInv'
<1> SUFFICES ASSUME LoopInv, Open PROVE LoopInv'
  OBVIOUS
<1>1. /\ pc = "idle" /\ streams' = streams \union {NewBitlockerStream}
      /\ vol' = vol /\ fvek' = fvek /\ pc' = pc /\ call' = call /\ result' = result
      /\ offered' = offered /\ succeeded' = succeeded
  BY DEF Open
<1>2. /\ NewBitlockerStream.passthrough \in BOOLEAN
      /\ NewBitlockerStream.cipher \in {"xts", "cbc", "nil"}
  BY DEF NewBitlockerStream, CipherFor, Decrypted
<1>3. TypeOK'
  BY <1>1, <1>2 DEF LoopInv, TypeOK
<1>4. CallInv'
  BY <1>1 DEF CallInv
<1>5. KeyIsJustified'
  BY <1>1, JustifiedStep DEF LoopInv
<1>6. OutcomeDeserved'
  BY <1>1 DEF LoopInv, OutcomeDeserved, Works
<1> QED BY <1>3, <1>4, <1>5, <1>6 DEF LoopInv

(***************************************************************************)
(* LoopInv holds between any two steps of any sequence of unlock and Open  *)
(* calls, on every volume.                                                 *)
(***************************************************************************)
THEOREM LoopInvariance == Spec => []LoopInv
<1>1. Init => LoopInv
  BY DEF Init, LoopInv, TypeOK, CallInv, KeyIsJustified, OutcomeDeserved
<1>2. LoopInv /\ [Next]_vars => LoopInv'
  <2> SUFFICES ASSUME LoopInv, [Next]_vars PROVE LoopInv'
    OBVIOUS
  <2>1. ASSUME NEW key \in VmkKeys, Unlock(key) PROVE LoopInv'
    BY <2>1, UnlockStep
  <2>2. ASSUME NEW p \in Passphrases, NEW g \in Identifiers, UnlockWithPassphrase(p, g)
        PROVE  LoopInv'
    BY <2>2, PassphraseStep
  <2>3. ASSUME NEW r \in RecoveryPasswords, NEW g \in Identifiers, UnlockWithRecoveryPassword(r, g)
        PROVE  LoopInv'
    BY <2>3, RecoveryStep
  <2>4. ASSUME \/ \E r \in RecoveryPasswords : RejectRecoveryPassword(r)
               \/ UnlockWithClearKey
               \/ \E bek \in Beks : UnlockWithExternalKey(bek)
        PROVE  LoopInv'
    <3>1. \E e : Refuse(e)
      BY <2>4 DEF RejectRecoveryPassword, UnlockWithClearKey, UnlockWithExternalKey
    <3> QED BY <3>1, RefuseStep
  <2>5. CASE SkipVmk
    BY <2>5, SkipStep
  <2>6. CASE TryVmk
    BY <2>6, TryStep
  <2>7. CASE GiveUp
    BY <2>7, GiveUpStep
  <2>8. CASE Open
    BY <2>8, OpenStep
  <2>9. CASE UNCHANGED vars
    <3>1. vol' = vol /\ fvek' = fvek /\ pc' = pc /\ call' = call /\ result' = result
          /\ streams' = streams /\ offered' = offered /\ succeeded' = succeeded
      BY <2>9 DEF vars
    <3>2. TypeOK' /\ CallInv' /\ OutcomeDeserved'
      BY <3>1 DEF LoopInv, TypeOK, CallInv, Belongs, OutcomeDeserved, Works
    <3> QED BY <3>1, <3>2, JustifiedStep DEF LoopInv
  <2> QED BY <2>1, <2>2, <2>3, <2>4, <2>5, <2>6, <2>7, <2>8, <2>9 DEF Next
<1> QED BY <1>1, <1>2, PTL DEF Spec

(***************************************************************************)
(* The type invariant of the key state, for every volume and every         *)
(* credential.                                                             *)
(***************************************************************************)
THEOREM TypeCorrect == Spec => []TypeOK
BY LoopInvariance, PTL DEF LoopInv

(***************************************************************************)
(* KeyIsJustified for every volume: b.fvek is only ever the key in the     *)
(* first FVEK datum, and a caller who had it stored offered the VMK itself *)
(* or a credential that opens a VMK of that credential's own protector.    *)
(***************************************************************************)
THEOREM KeyJustified == Spec => []KeyIsJustified
BY LoopInvariance, PTL DEF LoopInv

(***************************************************************************)
(* OutcomeDeserved for any number of VMK datums, duplicates and failures   *)
(* among them: a call of unlockWithUserKey reports success exactly if an   *)
(* eligible VMK opens the volume.                                          *)
(***************************************************************************)
THEOREM OutcomesDeserved == Spec => []OutcomeDeserved
BY LoopInvariance, PTL DEF LoopInv

---------------------------------------------------------------------------
(* Recovery passwords. *)

(* g holds strconv.Atoi of the first characters of a block. *)
Rolling(g, b, n) == g = [j \in 0..n |-> IF j = 0 THEN 0 ELSE 10 * g[j - 1] + Digit(b[j])]

(* strconv.Atoi reads any prefix of a block. *)
LEMMA RollingExists ==
  ASSUME NEW b, NEW n \in Nat
  PROVE  \E g : Rolling(g, b, n)
<1> DEFINE S == {m \in Nat : \E g : Rolling(g, b, m)}
<1>1. 0 \in S
  <2>1. Rolling([j \in 0..0 |-> 0], b, 0)
    BY DEF Rolling
  <2> QED BY <2>1
<1>2. ASSUME NEW m \in Nat, m \in S PROVE m + 1 \in S
  <2>1. PICK g : Rolling(g, b, m)
    BY <1>2
  <2> DEFINE h == [j \in 0..(m + 1) |-> IF j = m + 1 THEN 10 * g[m] + Digit(b[m + 1]) ELSE g[j]]
  <2>2. Rolling(h, b, m + 1)
    <3>1. ASSUME NEW j \in 0..(m + 1)
          PROVE  h[j] = IF j = 0 THEN 0 ELSE 10 * h[j - 1] + Digit(b[j])
      <4>1. CASE j = m + 1
        BY <4>1
      <4>2. CASE j # m + 1
        <5>1. j \in 0..m /\ h[j] = g[j] /\ (j # 0 => h[j - 1] = g[j - 1])
          BY <4>2
        <5> QED BY <2>1, <5>1 DEF Rolling
      <4> QED BY <4>1, <4>2
    <3>2. h = [j \in 0..(m + 1) |-> h[j]]
      OBVIOUS
    <3> HIDE DEF h
    <3> QED BY <3>1, <3>2 DEF Rolling
  <2> QED BY <2>2
<1> HIDE DEF S
<1>3. Nat \subseteq S
  BY <1>1, <1>2, Induction
<1> QED BY <1>3 DEF S

(* The number a block of six characters stands for. *)
LEMMA AtoiOfSix ==
  ASSUME NEW b, Len(b) = 6
  PROVE  /\ \A j \in 1..6 : Digit(b[j]) \in 0..9
         /\ Atoi(b) = 100000 * Digit(b[1]) + 10000 * Digit(b[2]) + 1000 * Digit(b[3])
                      + 100 * Digit(b[4]) + 10 * Digit(b[5]) + Digit(b[6])
<1>1. \A j \in 1..6 : Digit(b[j]) \in 0..9
  BY DEF Digit
<1> DEFINE g == CHOOSE f : Rolling(f, b, 6)
           d(j) == Digit(b[j])
<1>2. Rolling(g, b, 6)
  BY RollingExists
<1>3. Atoi(b) = g[6]
  BY DEF Atoi, Rolling
<1> HIDE DEF g
<1>4. \A j \in 1..6 : g[j] = 10 * g[j - 1] + d(j)
  BY <1>2 DEF Rolling
<1>5. g[0] = 0
  BY <1>2 DEF Rolling
<1>6. \A j \in 1..6 : d(j) \in Int
  BY <1>1
<1> HIDE DEF d
<1>7. g[1] = d(1)
  BY <1>4, <1>5, <1>6
<1>8. g[2] = 10 * d(1) + d(2)
  BY <1>4, <1>6, <1>7
<1>9. g[3] = 100 * d(1) + 10 * d(2) + d(3)
  BY <1>4, <1>6, <1>8
<1>10. g[4] = 1000 * d(1) + 100 * d(2) + 10 * d(3) + d(4)
  BY <1>4, <1>6, <1>9
<1>11. g[5] = 10000 * d(1) + 1000 * d(2) + 100 * d(3) + 10 * d(4) + d(5)
  BY <1>4, <1>6, <1>10
<1>12. g[6] = 100000 * d(1) + 10000 * d(2) + 1000 * d(3) + 100 * d(4) + 10 * d(5) + d(6)
  BY <1>4, <1>6, <1>11
<1> QED BY <1>1, <1>3, <1>12 DEF d

(* The checksum digit of CheckRecoveryPassword, the sign correction of Go's remainder
   included, is the one digit that completes a multiple of 11. *)
LEMMA Elevens ==
  ASSUME NEW f \in 0..9, NEW s \in -18..27, NEW m \in Int, f - s = 11 * m
  PROVE  LET r == IF s >= 0 THEN s % 11 ELSE -((-s) % 11)
         IN  (IF r < 0 THEN r + 11 ELSE r) = f
<1>4. f - s = 11 * m
  OBVIOUS
<1>5. CASE s >= 0
  <2>1. PICK u \in Int : s = 11 * u + (s % 11) /\ s % 11 \in 0..10
    <3>1. s = 11 * (s \div 11) + (s % 11) /\ s \div 11 \in Int /\ s % 11 \in 0..10
      OBVIOUS
    <3> QED BY <3>1
  <2> PICK r \in 0..10 : r = s % 11
    BY <2>1
  <2>2. f - r = 11 * (m + u)
    BY <1>4, <2>1
  <2>3. f = r
    BY <2>2
  <2> QED BY <1>5, <2>3
<1>6. CASE ~(s >= 0)
  <2>1. PICK u \in Int, r \in 0..10 : -s = 11 * u + r /\ r = (-s) % 11
    <3> DEFINE v == -s
    <3>1. v \in Int /\ v = 11 * (v \div 11) + (v % 11) /\ v \div 11 \in Int /\ v % 11 \in 0..10
      OBVIOUS
    <3> HIDE DEF v
    <3>2. \E u \in Int, r \in 0..10 : v = 11 * u + r /\ r = v % 11
      BY <3>1
    <3> QED BY <3>2 DEF v
  <2>2. f + r = 11 * (m - u)
    BY <1>4, <2>1
  <2>3. f = IF -r < 0 THEN -r + 11 ELSE -r
    BY <2>2
  <2> QED BY <1>6, <2>1, <2>3
<1> QED BY <1>5, <1>6

(* The limit of CheckRecoveryPassword is 11 times the number of uint16. *)
LEMMA LimitIsWords == Uint16Size \in Nat /\ BlockLimit = 11 * Uint16Size
BY SMT DEF BlockLimit, Uint16Size

(* A block is accepted exactly if it is six characters of a multiple of 11 whose
   quotient is a uint16: the checksum test refuses nothing more. *)
LEMMA BlockExact ==
  ASSUME NEW b
  PROVE  BlockAccepted(b) <=> /\ AtoiAccepts(b) /\ Len(b) = 6 /\ Atoi(b) % 11 = 0
                              /\ Atoi(b) \div 11 \in 0..(Uint16Size - 1)
<1> SUFFICES ASSUME Len(b) = 6
             PROVE  BlockAccepted(b) <=> /\ AtoiAccepts(b) /\ Atoi(b) % 11 = 0
                                         /\ Atoi(b) \div 11 \in 0..(Uint16Size - 1)
  BY Zenon DEF BlockAccepted
<1>1. /\ \A j \in 1..6 : Digit(b[j]) \in 0..9
      /\ Atoi(b) = 100000 * Digit(b[1]) + 10000 * Digit(b[2]) + 1000 * Digit(b[3])
                   + 100 * Digit(b[4]) + 10 * Digit(b[5]) + Digit(b[6])
  BY AtoiOfSix, SMT
<1>2. PICK d1 \in 0..9, d2 \in 0..9, d3 \in 0..9, d4 \in 0..9, d5 \in 0..9, d6 \in 0..9 :
         /\ d1 = Digit(b[1]) /\ d2 = Digit(b[2]) /\ d3 = Digit(b[3])
         /\ d4 = Digit(b[4]) /\ d5 = Digit(b[5]) /\ d6 = Digit(b[6])
  <2>1. /\ Digit(b[1]) \in 0..9 /\ Digit(b[2]) \in 0..9 /\ Digit(b[3]) \in 0..9
        /\ Digit(b[4]) \in 0..9 /\ Digit(b[5]) \in 0..9 /\ Digit(b[6]) \in 0..9
    BY <1>1, SMT
  <2> QED BY <2>1, Zenon
<1>3. PICK n \in Nat : n = Atoi(b)
  <2>1. Atoi(b) = 100000 * d1 + 10000 * d2 + 1000 * d3 + 100 * d4 + 10 * d5 + d6
    BY <1>1, <1>2, SMT
  <2> QED BY <2>1, SMT
<1>4. n = 100000 * d1 + 10000 * d2 + 1000 * d3 + 100 * d4 + 10 * d5 + d6
  BY <1>1, <1>2, <1>3, SMT
<1>5. ASSUME n % 11 = 0 PROVE Checksum(b) = Digit(b[6])
  <2>1. PICK s \in -18..27 : s = d1 - d2 + d3 - d4 + d5
    OBVIOUS
  <2>5. PICK q \in Int : n = 11 * q
    <3>1. n = 11 * (n \div 11) + (n % 11) /\ n \div 11 \in Int
      OBVIOUS
    <3> QED BY <1>5, <3>1
  <2>6. PICK k \in Int : k = 9091 * d1 + 909 * d2 + 91 * d3 + 9 * d4 + d5
    BY SMT
  <2>7. n = 11 * k - s + d6
    BY <1>4, <2>1, <2>6, SMT
  <2>8. d6 - s = 11 * (q - k)
    BY <2>5, <2>7
  <2>9. PICK m \in Int : d6 - s = 11 * m
    BY <2>8
  <2>2. (LET r == IF s >= 0 THEN s % 11 ELSE -((-s) % 11)
         IN  (IF r < 0 THEN r + 11 ELSE r)) = d6
    BY <2>9, Elevens
  <2>3. s = Digit(b[1]) - Digit(b[2]) + Digit(b[3]) - Digit(b[4]) + Digit(b[5])
    BY <1>2, <2>1
  <2>4. Checksum(b) = LET r == IF s >= 0 THEN s % 11 ELSE -((-s) % 11)
                      IN  IF r < 0 THEN r + 11 ELSE r
    BY <2>3, Zenon DEF Checksum
  <2> QED BY <1>2, <2>2, <2>4, Zenon
<1>6. n % 11 = 0 => (n < BlockLimit <=> n \div 11 \in 0..(Uint16Size - 1))
  <2>1. PICK u \in Nat, q \in Nat : u = Uint16Size /\ q = n \div 11
    BY LimitIsWords
  <2>2. n % 11 = 0 => n = 11 * q
    BY <2>1
  <2>3. BlockLimit = 11 * u
    BY <2>1, LimitIsWords
  <2>4. n = 11 * q => (n < 11 * u <=> q \in 0..(u - 1))
    OBVIOUS
  <2> QED BY <2>1, <2>2, <2>3, <2>4, Zenon
<1> QED BY <1>3, <1>5, <1>6, Zenon DEF BlockAccepted

(* What CheckRecoveryPassword accepts, by number. *)
AcceptedForm(p) ==
  /\ Len(p) = 8
  /\ \A j \in 1..8 : /\ AtoiAccepts(p[j]) /\ Len(p[j]) = 6 /\ Atoi(p[j]) % 11 = 0
                     /\ Atoi(p[j]) \div 11 \in 0..(Uint16Size - 1)

LEMMA PasswordForm ==
  ASSUME NEW p
  PROVE  CheckRecoveryPassword(p) = "nil" <=> AcceptedForm(p)
<1>1. CheckRecoveryPassword(p) = "nil" <=> /\ Len(p) = 8
                                           /\ \A j \in 1..Len(p) : BlockAccepted(p[j])
  BY DEF CheckRecoveryPassword, RecoveryBlocks
<1>2. CheckRecoveryPassword(p) = "nil" <=> /\ Len(p) = 8
                                           /\ \A j \in 1..8 : BlockAccepted(p[j])
  BY <1>1
<1> QED BY <1>2, BlockExact, Zenon DEF AcceptedForm

(* Of six digits strconv.Atoi makes their value. *)
LEMMA DigitsHaveValue ==
  ASSUME NEW b, SixDigitBlock(b)
  PROVE  AtoiAccepts(b) /\ Atoi(b) = ValueOf(b)
<1>1. Len(b) = 6 /\ \A i \in 1..6 : b[i] \in 0..9
  BY Zenon DEF SixDigitBlock
<1>2. ASSUME NEW i \in 1..6 PROVE Digit(b[i]) = b[i]
  <2>1. b[i] \in 0..9
    BY <1>1
  <2> QED BY <2>1 DEF Digit
<1>3. Digit(b[1]) = b[1] /\ Digit(b[2]) = b[2] /\ Digit(b[3]) = b[3]
      /\ Digit(b[4]) = b[4] /\ Digit(b[5]) = b[5] /\ Digit(b[6]) = b[6]
  <2>1. 1 \in 1..6 /\ 2 \in 1..6 /\ 3 \in 1..6 /\ 4 \in 1..6 /\ 5 \in 1..6 /\ 6 \in 1..6
    OBVIOUS
  <2> QED BY <1>2, <2>1, Zenon
<1>4. Atoi(b) = 100000 * Digit(b[1]) + 10000 * Digit(b[2]) + 1000 * Digit(b[3])
                + 100 * Digit(b[4]) + 10 * Digit(b[5]) + Digit(b[6])
  BY <1>1, AtoiOfSix
<1>5. Atoi(b) = ValueOf(b)
  <2>1. Atoi(b) = 100000 * b[1] + 10000 * b[2] + 1000 * b[3] + 100 * b[4] + 10 * b[5] + b[6]
    BY ONLY <1>3, <1>4, SMT
  <2> QED BY ONLY <2>1 DEF ValueOf
<1>6. AtoiAccepts(b)
  <2>1. 1 \in 1..6
    BY SMT
  <2> QED BY <1>1, <2>1, Zenon DEF AtoiAccepts
<1> QED BY <1>5, <1>6

(* Every genuine password is accepted. *)
LEMMA GenuineAccepted ==
  ASSUME NEW p, IsRecoveryPassword(p)
  PROVE  CheckRecoveryPassword(p) = "nil"
<1>1. ASSUME NEW j \in 1..8
      PROVE  /\ AtoiAccepts(p[j]) /\ Len(p[j]) = 6 /\ Atoi(p[j]) % 11 = 0
             /\ Atoi(p[j]) \div 11 \in 0..(Uint16Size - 1)
  <2>1. SixDigitBlock(p[j]) /\ ValueOf(p[j]) % 11 = 0
        /\ ValueOf(p[j]) \div 11 \in 0..(Uint16Size - 1)
    BY Zenon DEF IsRecoveryPassword
  <2>2. AtoiAccepts(p[j]) /\ Atoi(p[j]) = ValueOf(p[j])
    BY <2>1, DigitsHaveValue
  <2> QED BY <2>1, <2>2, Zenon DEF SixDigitBlock
<1> QED BY <1>1, PasswordForm, Zenon DEF IsRecoveryPassword, AcceptedForm

(* An accepted password without a sign is genuine. *)
LEMMA UnsignedGenuine ==
  ASSUME NEW p, CheckRecoveryPassword(p) = "nil",
         \A j \in 1..Len(p) : \A i \in 1..Len(p[j]) : p[j][i] # Plus
  PROVE  IsRecoveryPassword(p)
<1>1. AcceptedForm(p)
  BY PasswordForm
<1>2. Len(p) = 8
  BY <1>1, Zenon DEF AcceptedForm
<1>3. ASSUME NEW j \in 1..8
      PROVE  /\ SixDigitBlock(p[j]) /\ ValueOf(p[j]) % 11 = 0
             /\ ValueOf(p[j]) \div 11 \in 0..(Uint16Size - 1)
  <2>1. /\ AtoiAccepts(p[j]) /\ Len(p[j]) = 6 /\ Atoi(p[j]) % 11 = 0
        /\ Atoi(p[j]) \div 11 \in 0..(Uint16Size - 1)
    BY <1>1, Zenon DEF AcceptedForm
  <2>2. \A i \in 1..6 : p[j][i] # Plus
    BY <1>2, <2>1, Zenon
  <2>3. SixDigitBlock(p[j])
    BY <2>1, <2>2, Zenon DEF AtoiAccepts, SixDigitBlock
  <2> QED BY <2>1, <2>3, DigitsHaveValue, Zenon
<1> QED BY <1>2, <1>3, Zenon DEF IsRecoveryPassword

(* The words of a key determine the numbers they come from. *)
LEMMA WordsDetermineNumbers ==
  ASSUME NEW p, NEW q, AcceptedForm(p), AcceptedForm(q), KeyWords(p) = KeyWords(q)
  PROVE  Numbers(p) = Numbers(q)
<1>1. Len(p) = 8 /\ Len(q) = 8
  BY Zenon DEF AcceptedForm
<1>2. ASSUME NEW j \in 1..8 PROVE Atoi(p[j]) = Atoi(q[j])
  <2>1. /\ Atoi(p[j]) % 11 = 0 /\ Atoi(p[j]) \div 11 \in 0..(Uint16Size - 1) /\ Len(p[j]) = 6
        /\ Atoi(q[j]) % 11 = 0 /\ Atoi(q[j]) \div 11 \in 0..(Uint16Size - 1) /\ Len(q[j]) = 6
    BY Zenon DEF AcceptedForm
  <2>2. (Atoi(p[j]) \div 11) % Uint16Size = (Atoi(q[j]) \div 11) % Uint16Size
    <3>1. KeyWords(p)[j] = KeyWords(q)[j]
      BY Zenon
    <3> QED BY <1>1, <3>1, Zenon DEF KeyWords
  <2>3. PICK m \in Int : m = Atoi(p[j])
    <3>1. \A i \in 1..6 : Digit(p[j][i]) \in Int
      BY DEF Digit
    <3> QED BY <2>1, <3>1, AtoiOfSix, SMT
  <2>4. PICK n \in Int : n = Atoi(q[j])
    <3>1. \A i \in 1..6 : Digit(q[j][i]) \in Int
      BY DEF Digit
    <3> QED BY <2>1, <3>1, AtoiOfSix, SMT
  <2>5. /\ m % 11 = 0 /\ n % 11 = 0
        /\ m \div 11 \in 0..(Uint16Size - 1) /\ n \div 11 \in 0..(Uint16Size - 1)
        /\ (m \div 11) % Uint16Size = (n \div 11) % Uint16Size
    BY <2>1, <2>2, <2>3, <2>4, Zenon
  <2>6. PICK u \in Int, v \in Int : u = m \div 11 /\ v = n \div 11
    BY SMT
  <2>7. u % Uint16Size = u /\ v % Uint16Size = v
    <3>1. u \in 0..(Uint16Size - 1) /\ v \in 0..(Uint16Size - 1)
      BY <2>5, <2>6
    <3>2. PICK w \in Nat : w = Uint16Size
      BY LimitIsWords
    <3>3. u \in 0..(w - 1) /\ v \in 0..(w - 1)
      BY <3>1, <3>2
    <3>4. u % w = u /\ v % w = v
      BY <3>3
    <3> QED BY <3>2, <3>4
  <2>8. u = v
    BY <2>5, <2>6, <2>7
  <2>9. m = 11 * u + (m % 11) /\ n = 11 * v + (n % 11)
    BY <2>6
  <2>10. m = n
    BY <2>5, <2>8, <2>9
  <2> QED BY <2>3, <2>4, <2>10
<1> QED BY <1>1, <1>2, Zenon DEF Numbers

(***************************************************************************)
(* UnsignedPasswordsExact for every set of recovery passwords: without a   *)
(* plus sign CheckRecoveryPassword accepts eight blocks of six digits that *)
(* are multiples of 11 below 720896 and nothing else; it accepts every     *)
(* such password; and DeriveRecoveryKey loses nothing of what is accepted. *)
(***************************************************************************)
THEOREM PasswordsExact == Spec => UnsignedPasswordsExact
<1>1. pc = "idle" /\ pc' = "try" =>
        /\ Begun \intersect Unsigned \subseteq Genuine
        /\ \A p, q \in Begun : Numbers(p) = Numbers(q)
  <2>1. ASSUME NEW p \in Begun
        PROVE  /\ p \in RecoveryPasswords /\ CheckRecoveryPassword(p) = "nil"
               /\ call'.key = <<"recovery", KeyWords(p)>>
    <3>1. PICK g \in Identifiers : UnlockWithRecoveryPassword(p, g)
      BY <2>1 DEF Begun
    <3>2. p \in RecoveryPasswords /\ CheckRecoveryPassword(p) = "nil"
      BY <3>1 DEF UnlockWithRecoveryPassword, WellFormed
    <3>3. call'.key = DeriveRecoveryKey(p)
      BY <3>1 DEF UnlockWithRecoveryPassword, unlockWithUserKey
    <3> QED BY <3>2, <3>3 DEF DeriveRecoveryKey
  <2>2. ASSUME NEW p \in Begun \intersect Unsigned PROVE p \in Genuine
    BY <2>1, UnsignedGenuine, Zenon DEF Genuine, Unsigned
  <2>3. ASSUME NEW p \in Begun, NEW q \in Begun PROVE Numbers(p) = Numbers(q)
    <3>1. KeyWords(p) = KeyWords(q)
      BY <2>1
    <3> QED BY <2>1, <3>1, PasswordForm, WordsDetermineNumbers
  <2> QED BY <2>2, <2>3
<1>2. \A p \in Genuine : ~RejectRecoveryPassword(p)
  BY GenuineAccepted DEF Genuine, RejectRecoveryPassword, WellFormed
<1> QED BY <1>1, <1>2, PTL DEF UnsignedPasswordsExact
=============================================================================
