--------------------------- MODULE AesModesProofs ---------------------------
(***************************************************************************)
(* decryptSector and ccmDecrypt undo what the standards do, for blocks and *)
(* bytes of every size, sectors of every length and messages of every      *)
(* length that ccmDecrypt accepts; and ccmDecrypt opens nothing else.      *)
(*                                                                         *)
(* The argument for the last: AES puts a block apart that holds the key    *)
(* and the block it was made of. The blocks of the authentication code     *)
(* begin with flags that no counter block has, so that of the two blocks   *)
(* summed up in a tag it is known which is the code. The code determines   *)
(* the blocks fed into it, from the last to the first, and these the       *)
(* nonce, the length of the tag, the associated data and the text.         *)
(***************************************************************************)
EXTENDS AesModes, SetInduction, SequenceTheorems, TLAPS

---------------------------------------------------------------------------
(* Blocks, xor and AES. *)

IsBlock(b) == b = [i \in Places |-> b[i]]

(* A block has a first place. *)
LEMMA WidthFacts ==
  /\ Width \in Nat \ {0} /\ ByteBits \in Nat \ {0} /\ Width % ByteBits = 0
  /\ Places = 0..(Width - 1) /\ 0 \in Places
  BY ModesAssumption DEF Places

(* The same block added twice cancels. *)
LEMMA XorCancels ==
  ASSUME NEW a, NEW b, IsBlock(a)
  PROVE  Xor(Xor(a, b), b) = a
<1>1. \A x, y : Sum(Sum(x, y), y) = x
  BY DEF Sum
<1>2. Xor(Xor(a, b), b) = [i \in Places |-> Sum(Sum(a[i], b[i]), b[i])]
  BY DEF Xor
<1> QED BY <1>1, <1>2 DEF IsBlock

(* Sums and images are blocks. *)
LEMMA AreBlocks ==
  /\ \A a, b : IsBlock(Xor(a, b))
  /\ \A dir, key, b : IsBlock(Image(dir, key, b))
  /\ \A j : IsBlock(Text(j))
  BY DEF IsBlock, Xor, Image, Text

(* A block that AES has not decrypted is encrypted to a new image. *)
LEMMA EncryptIsImage ==
  ASSUME NEW key, NEW b, \A x : b # Image("D", key, x)
  PROVE  Encrypt(key, b) = Image("E", key, b)
  BY DEF Encrypt, AES

(* Decryption undoes that. *)
LEMMA DecryptOfImage ==
  ASSUME NEW key, NEW b
  PROVE  Decrypt(key, Image("E", key, b)) = b
<1> DEFINE c == Image("E", key, b)
           undone == { a[4] : a \in {u \in c[0] : u[1] = "E" /\ u[3] = key} }
           origin == { x \in undone : c = Image("E", key, x) }
<1>1. c[0] = {<<"E", 0, key, b>>}
  BY WidthFacts DEF Image
<1>2. undone = {b}
  <2> HIDE DEF c
  <2> DEFINE u == <<"E", 0, key, b>>
  <2>1. u[1] = "E" /\ u[3] = key /\ u[4] = b
    OBVIOUS
  <2> HIDE DEF u
  <2>2. {w \in {u} : w[1] = "E" /\ w[3] = key} = {u}
    BY <2>1
  <2>3. {w[4] : w \in {u}} = {u[4]}
    BY Zenon
  <2> QED BY <1>1, <2>1, <2>2, <2>3, Zenon DEF u
<1>3. origin = {b}
  BY <1>2
<1>4. Decrypt(key, c) = IF origin # {} THEN CHOOSE x \in origin : TRUE ELSE Image("D", key, c)
  BY DEF Decrypt, AES
<1> HIDE DEF origin
<1> QED BY <1>3, <1>4

(* A block with an atom at its first place that does not come from AES is no image. *)
LEMMA NotDecrypted ==
  ASSUME NEW b, NEW u \in b[0], u[1] # "D", NEW key, NEW x
  PROVE  b # Image("D", key, x)
<1>1. Image("D", key, x)[0] = {<<"D", 0, key, x>>}
  BY WidthFacts DEF Image
<1>2. \A w \in Image("D", key, x)[0] : w[1] = "D"
  BY <1>1
<1> QED BY <1>2

(* A block all of whose atoms AES has made by encrypting. *)
Encrypted(b) == IsBlock(b) /\ \A i \in Places : \A u \in b[i] : u[1] = "E"

(* A text with such a block added to it was not decrypted. *)
LEMMA TextIsNew ==
  ASSUME NEW t, Encrypted(t), NEW j, NEW key
  PROVE  /\ Encrypt(key, Xor(Text(j), t)) = Image("E", key, Xor(Text(j), t))
         /\ Decrypt(key, Encrypt(key, Xor(Text(j), t))) = Xor(Text(j), t)
<1> DEFINE b == Xor(Text(j), t)
           u == <<"text", j, 0>>
<1>1. b[0] = Sum({u}, t[0])
  BY WidthFacts DEF Xor, Text
<1>2. u \notin t[0]
  BY WidthFacts DEF Encrypted
<1>3. u \in b[0] /\ u[1] # "D"
  BY <1>1, <1>2 DEF Sum
<1> HIDE DEF b, u
<1>4. \A x : b # Image("D", key, x)
  BY <1>3, NotDecrypted
<1>5. Encrypt(key, b) = Image("E", key, b)
  BY <1>4, EncryptIsImage
<1> QED BY <1>5, DecryptOfImage DEF b

(* A number is encrypted to a new image. *)
LEMMA NumberIsNew ==
  ASSUME NEW v, NEW key
  PROVE  /\ Encrypt(key, LittleEndian(v)) = Image("E", key, LittleEndian(v))
         /\ Encrypted(Encrypt(key, LittleEndian(v)))
<1> DEFINE b == LittleEndian(v)
<1>1. b[0] = {} \/ b[0] = {<<"num", v>>}
  BY WidthFacts DEF LittleEndian, Num
<1> HIDE DEF b
<1>2. ASSUME NEW x PROVE b # Image("D", key, x)
  <2>1. Image("D", key, x)[0] = {<<"D", 0, key, x>>}
    BY WidthFacts DEF Image
  <2>2. <<"D", 0, key, x>> # <<"num", v>>
    OBVIOUS
  <2> QED BY <1>1, <2>1, <2>2
<1>3. Encrypt(key, b) = Image("E", key, b)
  BY <1>2, EncryptIsImage
<1>4. Encrypted(Image("E", key, b))
  BY AreBlocks DEF Encrypted, Image
<1> QED BY <1>3, <1>4 DEF b

---------------------------------------------------------------------------
(* XTS: the tweaks. *)

(* A sequence of n blocks has length n. *)
LEMMA LengthOf ==
  ASSUME NEW n \in Nat, NEW f, f = [j \in 1..n |-> f[j]]
  PROVE  Len(f) = n
<1>1. f \in [1..n -> {f[j] : j \in 1..n}]
  OBVIOUS
<1>2. f \in Seq({f[j] : j \in 1..n})
  BY <1>1
<1>3. DOMAIN f = 1..n /\ DOMAIN f = 1..Len(f) /\ Len(f) \in Nat
  BY <1>1, <1>2, LenProperties
<1> QED BY <1>3

(* The carry of a byte is the bit before the next byte: gfMulX multiplies by x. *)
LEMMA MultipliesByX ==
  ASSUME NEW t
  PROVE  gfMulX(t) = TimesX(t)
<1> DEFINE carry == [b \in 0..(Width \div ByteBits) |-> IF b = 0 THEN {} ELSE t[b * ByteBits - 1]]
           shifted == [i \in Places |-> IF i % ByteBits # 0 THEN t[i - 1] ELSE carry[i \div ByteBits]]
           last == carry[Width \div ByteBits]
<1>1. ASSUME NEW i \in Nat, i % ByteBits = 0
      PROVE  (i \div ByteBits) * ByteBits = i /\ i \div ByteBits \in Nat
  <2>1. PICK w \in Nat \ {0} : w = ByteBits
    BY WidthFacts
  <2> QED BY <1>1, <2>1
<1>2. ASSUME NEW i \in Places
      PROVE  shifted[i] = IF i = 0 THEN {} ELSE t[i - 1]
  <2>0. i \in Nat /\ i <= Width - 1
    BY WidthFacts
  <2>1. CASE i % ByteBits # 0
    <3>1. i # 0
      BY <2>1, WidthFacts
    <3> QED BY <2>1, <3>1
  <2>2. CASE i % ByteBits = 0
    <3>1. (i \div ByteBits) * ByteBits = i /\ i \div ByteBits \in Nat
      BY <2>0, <2>2, <1>1
    <3>2. (Width \div ByteBits) * ByteBits = Width /\ Width \div ByteBits \in Nat
      BY WidthFacts, <1>1
    <3>3. i \div ByteBits \in 0..(Width \div ByteBits)
      <4>1. PICK w \in Nat \ {0}, x \in Nat, y \in Nat :
               w = ByteBits /\ x = i \div ByteBits /\ y = Width \div ByteBits
        BY <3>1, <3>2, WidthFacts
      <4>2. x * w <= y * w
        BY <2>0, <3>1, <3>2, <4>1, WidthFacts
      <4>3. x <= y
        BY <4>2
      <4> QED BY <4>1, <4>3
    <3>4. (i \div ByteBits = 0) <=> (i = 0)
      BY <3>1, WidthFacts
    <3>5. shifted[i] = carry[i \div ByteBits]
      BY <2>2
    <3>6. carry[i \div ByteBits] = IF i \div ByteBits = 0 THEN {} ELSE t[(i \div ByteBits) * ByteBits - 1]
      BY <3>3
    <3> QED BY <3>1, <3>4, <3>5, <3>6
  <2> QED BY <2>1, <2>2
<1>3. last = t[Width - 1]
  <2>1. (Width \div ByteBits) * ByteBits = Width /\ Width \div ByteBits \in Nat
    BY WidthFacts, <1>1
  <2>2. Width \div ByteBits # 0
    BY <2>1, WidthFacts
  <2>3. Width \div ByteBits \in 0..(Width \div ByteBits)
    BY <2>1
  <2> HIDE DEF carry
  <2>4. carry[Width \div ByteBits] = t[(Width \div ByteBits) * ByteBits - 1]
    BY <2>2, <2>3 DEF carry
  <2> QED BY <2>1, <2>4
<1>4. gfMulX(t) = [i \in Places |-> IF i \in Reduction THEN Sum(shifted[i], last) ELSE shifted[i]]
  BY DEF gfMulX
<1> HIDE DEF shifted, last
<1>5. ASSUME NEW x PROVE Sum(x, {}) = x
  BY DEF Sum
<1> QED BY <1>2, <1>3, <1>4, <1>5 DEF TimesX

(* Multiplication by x makes no new atoms. *)
LEMMA TimesXEncrypted ==
  ASSUME NEW t, Encrypted(t)
  PROVE  Encrypted(TimesX(t))
<1>1. IsBlock(TimesX(t))
  BY DEF IsBlock, TimesX
<1>2. ASSUME NEW i \in Places, NEW u \in TimesX(t)[i]
      PROVE  u[1] = "E"
  <2> DEFINE a == IF i = 0 THEN {} ELSE t[i - 1]
             b == IF i \in Reduction THEN t[Width - 1] ELSE {}
  <2>1. TimesX(t)[i] = Sum(a, b)
    BY DEF TimesX
  <2>2. u \in a \/ u \in b
    BY <2>1 DEF Sum
  <2>3. (i # 0 => i - 1 \in Places) /\ Width - 1 \in Places
    BY WidthFacts
  <2>4. (i # 0 /\ u \in t[i - 1]) \/ u \in t[Width - 1]
    BY <2>2
  <2> QED BY <2>3, <2>4 DEF Encrypted
<1> QED BY <1>1, <1>2 DEF Encrypted

(* The tweaks of the first n blocks of a sector. *)
IsTweaks(g, sector, n) ==
  g = [j \in 1..n |-> IF j = 1 THEN Encrypt("tweakKey", LittleEndian(sector))
                      ELSE TimesX(g[j - 1])]

Tweaks(sector, n) == CHOOSE g : IsTweaks(g, sector, n)

(* There are such tweaks for every number of blocks. *)
LEMMA TweaksExist ==
  ASSUME NEW sector, NEW n \in Nat
  PROVE  \E g : IsTweaks(g, sector, n)
<1> DEFINE first == Encrypt("tweakKey", LittleEndian(sector))
           S == {m \in Nat : \E g : IsTweaks(g, sector, m)}
<1>1. 0 \in S
  <2>1. IsTweaks([j \in 1..0 |-> {}], sector, 0)
    BY DEF IsTweaks
  <2> QED BY <2>1
<1>2. ASSUME NEW m \in Nat, m \in S PROVE m + 1 \in S
  <2>1. PICK g : IsTweaks(g, sector, m)
    BY <1>2
  <2> DEFINE h == [j \in 1..(m + 1) |->
                     IF j <= m THEN g[j] ELSE IF m = 0 THEN first ELSE TimesX(g[m])]
  <2>2. ASSUME NEW j \in 1..(m + 1)
        PROVE  h[j] = IF j = 1 THEN first ELSE TimesX(h[j - 1])
    <3> HIDE DEF first
    <3>1. CASE j <= m
      <4>1. j \in 1..m /\ (j # 1 => j - 1 \in 1..(m + 1) /\ j - 1 <= m)
        BY <3>1
      <4>2. h[j] = g[j] /\ (j # 1 => h[j - 1] = g[j - 1])
        BY <3>1, <4>1
      <4>3. g[j] = IF j = 1 THEN first ELSE TimesX(g[j - 1])
        BY <2>1, <4>1 DEF IsTweaks, first
      <4> QED BY <4>2, <4>3
    <3>2. CASE ~(j <= m)
      <4>1. j = m + 1 /\ (m # 0 => m \in 1..(m + 1) /\ j # 1 /\ j - 1 = m) /\ (m = 0 => j = 1)
        BY <3>2
      <4>2. h[j] = IF m = 0 THEN first ELSE TimesX(g[m])
        BY <3>2
      <4>3. m # 0 => h[m] = g[m]
        BY <4>1
      <4> HIDE DEF h
      <4> QED BY <4>1, <4>2, <4>3
    <3> QED BY <3>1, <3>2
  <2>3. h = [j \in 1..(m + 1) |-> h[j]]
    OBVIOUS
  <2> HIDE DEF h
  <2>4. IsTweaks(h, sector, m + 1)
    BY <2>2, <2>3 DEF IsTweaks
  <2> QED BY <2>4
<1> HIDE DEF S
<1>3. Nat \subseteq S
  BY <1>1, <1>2, Induction
<1> QED BY <1>3 DEF S

(* How the tweaks follow one another, and what was encrypted with them. *)
LEMMA TweaksProperties ==
  ASSUME NEW sector, NEW n \in Nat
  PROVE  /\ n # 0 => Tweaks(sector, n)[1] = Encrypt("tweakKey", LittleEndian(sector))
         /\ \A j \in 1..(n - 1) : Tweaks(sector, n)[j + 1] = TimesX(Tweaks(sector, n)[j])
         /\ \A j \in 1..n : Encrypted(Tweaks(sector, n)[j])
         /\ XtsEncrypted(sector, n) =
              [j \in 1..n |-> Xor(Encrypt("dataKey", Xor(Text(j), Tweaks(sector, n)[j])),
                                  Tweaks(sector, n)[j])]
<1> DEFINE g == Tweaks(sector, n)
           first == Encrypt("tweakKey", LittleEndian(sector))
           S == {m \in Nat : m \in 1..n => Encrypted(g[m])}
<1>1. IsTweaks(g, sector, n)
  BY TweaksExist DEF Tweaks
<1>2. XtsEncrypted(sector, n) =
        [j \in 1..n |-> Xor(Encrypt("dataKey", Xor(Text(j), g[j])), g[j])]
  BY DEF XtsEncrypted, Tweaks, IsTweaks
<1> HIDE DEF g
<1>3. \A j \in 1..n : g[j] = IF j = 1 THEN first ELSE TimesX(g[j - 1])
  BY <1>1 DEF IsTweaks
<1>4. n # 0 => g[1] = first
  BY <1>3
<1>5. \A j \in 1..(n - 1) : g[j + 1] = TimesX(g[j])
  <2> TAKE j \in 1..(n - 1)
  <2>1. j + 1 \in 1..n /\ j + 1 # 1 /\ (j + 1) - 1 = j
    OBVIOUS
  <2> QED BY <1>3, <2>1
<1>6. 0 \in S
  OBVIOUS
<1>7. ASSUME NEW m \in Nat, m \in S PROVE m + 1 \in S
  <2> SUFFICES ASSUME m + 1 \in 1..n PROVE Encrypted(g[m + 1])
    OBVIOUS
  <2>1. CASE m = 0
    <3>1. g[m + 1] = first
      BY <1>4, <2>1
    <3> QED BY <3>1, NumberIsNew
  <2>2. CASE m # 0
    <3>1. m \in 1..(n - 1) /\ m \in 1..n
      BY <2>2
    <3>2. g[m + 1] = TimesX(g[m]) /\ Encrypted(g[m])
      BY <1>5, <1>7, <3>1
    <3> QED BY <3>2, TimesXEncrypted
  <2> QED BY <2>1, <2>2
<1> HIDE DEF S
<1>8. Nat \subseteq S
  BY <1>6, <1>7, Induction
<1>9. \A j \in 1..n : Encrypted(g[j])
  BY <1>8 DEF S
<1> QED BY <1>2, <1>4, <1>5, <1>9 DEF g

(* A block of the sector with the right tweak decrypts to its text. *)
LEMMA XtsUndone ==
  ASSUME NEW sector, NEW n \in Nat, NEW j \in 1..n
  PROVE  LET t == Tweaks(sector, n)[j]
         IN  Xor(Decrypt("dataKey", Xor(XtsEncrypted(sector, n)[j], t)), t) = Text(j)
<1> DEFINE t == Tweaks(sector, n)[j]
           c == Encrypt("dataKey", Xor(Text(j), t))
<1>1. Encrypted(t) /\ XtsEncrypted(sector, n)[j] = Xor(c, t)
  BY TweaksProperties
<1> HIDE DEF t
<1>2. IsBlock(c)
  <2>1. c = Image("E", "dataKey", Xor(Text(j), t))
    BY <1>1, TextIsNew
  <2> QED BY <2>1, AreBlocks
<1>3. Xor(Xor(c, t), t) = c
  BY <1>2, XorCancels
<1>4. Decrypt("dataKey", c) = Xor(Text(j), t)
  BY <1>1, TextIsNew
<1>5. Xor(Xor(Text(j), t), t) = Text(j)
  BY AreBlocks, XorCancels
<1> HIDE DEF c
<1> QED BY <1>1, <1>3, <1>4, <1>5 DEF t

---------------------------------------------------------------------------
(* CBC: the chain. *)

(* The initialisation vector and the first n blocks of the ciphertext. *)
IsChain(g, v, n) ==
  g = [j \in 0..n |-> IF j = 0 THEN Encrypt("fvek", LittleEndian(v))
                      ELSE Encrypt("fvek", Xor(Text(j), g[j - 1]))]

Chain(v, n) == CHOOSE g : IsChain(g, v, n)

(* There is such a chain for every number of blocks. *)
LEMMA ChainExists ==
  ASSUME NEW v, NEW n \in Nat
  PROVE  \E g : IsChain(g, v, n)
<1> DEFINE first == Encrypt("fvek", LittleEndian(v))
           Link(g, j) == Encrypt("fvek", Xor(Text(j), g[j - 1]))
           S == {m \in Nat : \E g : IsChain(g, v, m)}
<1>1. 0 \in S
  <2>1. IsChain([j \in 0..0 |-> first], v, 0)
    <3>1. \A j \in 0..0 : j = 0
      OBVIOUS
    <3> QED BY <3>1 DEF IsChain
  <2> QED BY <2>1
<1>2. ASSUME NEW m \in Nat, m \in S PROVE m + 1 \in S
  <2>1. PICK g : IsChain(g, v, m)
    BY <1>2
  <2> DEFINE h == [j \in 0..(m + 1) |-> IF j <= m THEN g[j] ELSE Link(g, m + 1)]
  <2>2. ASSUME NEW j \in 0..(m + 1)
        PROVE  h[j] = IF j = 0 THEN first ELSE Link(h, j)
    <3> HIDE DEF first
    <3>0. j # 0 => j - 1 \in 0..(m + 1) /\ j - 1 <= m
      OBVIOUS
    <3>1. j # 0 => h[j - 1] = g[j - 1]
      BY <3>0
    <3>2. CASE j <= m
      <4>1. j \in 0..m
        BY <3>2
      <4>2. h[j] = g[j]
        BY <3>2
      <4>3. g[j] = IF j = 0 THEN first ELSE Link(g, j)
        BY <2>1, <4>1 DEF IsChain, first
      <4> HIDE DEF h
      <4> QED BY <3>1, <4>2, <4>3
    <3>3. CASE ~(j <= m)
      <4>1. j = m + 1 /\ j # 0
        BY <3>3
      <4>2. h[j] = Link(g, j)
        BY <3>3, <4>1
      <4> HIDE DEF h
      <4> QED BY <3>1, <4>1, <4>2
    <3> QED BY <3>2, <3>3
  <2>3. h = [j \in 0..(m + 1) |-> h[j]]
    OBVIOUS
  <2> HIDE DEF h
  <2>4. IsChain(h, v, m + 1)
    BY <2>2, <2>3 DEF IsChain
  <2> QED BY <2>4
<1> HIDE DEF S
<1>3. Nat \subseteq S
  BY <1>1, <1>2, Induction
<1> QED BY <1>3 DEF S

(* How the blocks of the chain follow one another. *)
LEMMA ChainProperties ==
  ASSUME NEW sector, NEW size, NEW n \in Nat
  PROVE  LET g == Chain(sector * size, n)
         IN  /\ g[0] = Encrypt("fvek", LittleEndian(sector * size))
             /\ \A j \in 1..n : g[j] = Encrypt("fvek", Xor(Text(j), g[j - 1]))
             /\ \A j \in 0..n : Encrypted(g[j])
             /\ CbcEncrypted(sector, size, n) = [j \in 1..n |-> g[j]]
<1> DEFINE v == sector * size
           g == Chain(v, n)
           first == Encrypt("fvek", LittleEndian(v))
           S == {m \in Nat : m \in 0..n => Encrypted(g[m])}
<1>1. IsChain(g, v, n)
  BY ChainExists DEF Chain
<1>2. CbcEncrypted(sector, size, n) = [j \in 1..n |-> g[j]]
  BY DEF CbcEncrypted, Chain, IsChain
<1> HIDE DEF g, v
<1>3. \A j \in 0..n : g[j] = IF j = 0 THEN first ELSE Encrypt("fvek", Xor(Text(j), g[j - 1]))
  BY <1>1 DEF IsChain
<1>4. g[0] = first
  BY <1>3
<1>5. \A j \in 1..n : g[j] = Encrypt("fvek", Xor(Text(j), g[j - 1]))
  BY <1>3
<1>6. 0 \in S
  BY <1>4, NumberIsNew
<1>7. ASSUME NEW m \in Nat, m \in S PROVE m + 1 \in S
  <2> SUFFICES ASSUME m + 1 \in 0..n PROVE Encrypted(g[m + 1])
    OBVIOUS
  <2>1. m + 1 \in 1..n /\ m \in 0..n /\ (m + 1) - 1 = m
    OBVIOUS
  <2>2. Encrypted(g[m]) /\ g[m + 1] = Encrypt("fvek", Xor(Text(m + 1), g[m]))
    BY <1>5, <1>7, <2>1
  <2>3. g[m + 1] = Image("E", "fvek", Xor(Text(m + 1), g[m]))
    BY <2>2, TextIsNew
  <2>4. \A b : Encrypted(Image("E", "fvek", b))
    BY AreBlocks DEF Encrypted, Image
  <2> QED BY <2>3, <2>4
<1> HIDE DEF S
<1>8. Nat \subseteq S
  BY <1>6, <1>7, Induction
<1>9. \A j \in 0..n : Encrypted(g[j])
  BY <1>8 DEF S
<1> QED BY <1>2, <1>4, <1>5, <1>9 DEF g, v

(* A block of the ciphertext and the one before it decrypt to its text. *)
LEMMA CbcUndone ==
  ASSUME NEW sector, NEW size, NEW n \in Nat, NEW j \in 1..n
  PROVE  LET g == Chain(sector * size, n)
         IN  /\ CbcEncrypted(sector, size, n)[j] = g[j]
             /\ Xor(Decrypt("fvek", g[j]), g[j - 1]) = Text(j)
<1> DEFINE g == Chain(sector * size, n)
<1>0. j \in 0..n /\ j - 1 \in 0..n
  OBVIOUS
<1>1. /\ g[j] = Encrypt("fvek", Xor(Text(j), g[j - 1]))
      /\ CbcEncrypted(sector, size, n) = [i \in 1..n |-> g[i]]
  BY ChainProperties
<1>2. Encrypted(g[j - 1])
  BY <1>0, ChainProperties
<1> HIDE DEF g
<1>3. Decrypt("fvek", g[j]) = Xor(Text(j), g[j - 1])
  BY <1>1, <1>2, TextIsNew
<1>4. Xor(Xor(Text(j), g[j - 1]), g[j - 1]) = Text(j)
  BY AreBlocks, XorCancels
<1> QED BY <1>1, <1>3, <1>4 DEF g

---------------------------------------------------------------------------
(* The loop over the blocks of a sector. *)

(* The sector that a call decrypts, and what the loop brings to block j. *)
Sector(c) ==
  IF c.kind = "xts" THEN XtsEncrypted(c.sector, c.blocks)
  ELSE CbcEncrypted(c.sector, c.size, c.blocks)

LinkAt(c, j) ==
  IF c.kind = "xts" THEN Tweaks(c.sector, c.blocks)[j]
  ELSE Chain(c.sector * c.size, c.blocks)[j - 1]

(* The blocks before k are text, those from k on are still encrypted. *)
SectorInv ==
  call.kind # "ccm" =>
    /\ call \in SectorCalls
    /\ pc \in {call.kind, "done", "panic"}
    /\ k \in 1..(call.blocks + 1)
    /\ dst = [j \in 1..call.blocks |-> IF j < k THEN Text(j) ELSE dst[j]]
    /\ src = [j \in 1..call.blocks |-> IF call.inPlace /\ j < k THEN Text(j) ELSE Sector(call)[j]]
    /\ call.inPlace => dst = src
    /\ pc = call.kind /\ k <= call.blocks => chain = LinkAt(call, k)
    /\ pc = "done" => k = call.blocks + 1

(* A sector is a sequence of blocks. *)
LEMMA SectorIsBlocks ==
  ASSUME NEW c \in SectorCalls
  PROVE  /\ c.blocks \in Nat \ {0} /\ c.kind \in {"xts", "cbc"} /\ c.inPlace \in BOOLEAN
         /\ Sector(c) = [j \in 1..c.blocks |-> Sector(c)[j]]
<1>1. c.blocks \in Nat \ {0} /\ c.kind \in {"xts", "cbc"} /\ c.inPlace \in BOOLEAN
  BY CallsAssumption
<1>2. CASE c.kind = "xts"
  <2>1. Sector(c) = XtsEncrypted(c.sector, c.blocks)
    BY <1>2 DEF Sector
  <2>2. XtsEncrypted(c.sector, c.blocks) =
          [j \in 1..c.blocks |-> Xor(Encrypt("dataKey", Xor(Text(j), Tweaks(c.sector, c.blocks)[j])),
                                     Tweaks(c.sector, c.blocks)[j])]
    BY <1>1, TweaksProperties
  <2> QED BY <1>1, <2>1, <2>2
<1>3. CASE c.kind = "cbc"
  <2>1. Sector(c) = CbcEncrypted(c.sector, c.size, c.blocks)
    BY <1>3 DEF Sector
  <2>2. CbcEncrypted(c.sector, c.size, c.blocks) =
          [j \in 1..c.blocks |-> Chain(c.sector * c.size, c.blocks)[j]]
    BY <1>1, ChainProperties
  <2> QED BY <1>1, <2>1, <2>2
<1> QED BY <1>1, <1>2, <1>3

(* The loop begins with an encrypted sector. *)
LEMMA SectorBegins ==
  ASSUME Init
  PROVE  SectorInv
<1> SUFFICES ASSUME call.kind # "ccm" PROVE SectorInv
  BY DEF SectorInv
<1>0. call \notin CcmCalls
  BY CallsAssumption
<1>1. /\ call \in SectorCalls /\ k = 1 /\ pc = call.kind
      /\ src = Sector(call)
      /\ dst = IF call.inPlace THEN src ELSE [j \in 1..call.blocks |-> ZeroBlock]
      /\ chain = IF call.kind = "xts" THEN Encrypt("tweakKey", LittleEndian(call.sector))
                 ELSE Encrypt("fvek", LittleEndian(call.sector * call.size))
  BY <1>0 DEF Init, Sector
<1>2. /\ call.blocks \in Nat \ {0} /\ call.kind \in {"xts", "cbc"}
      /\ Sector(call) = [j \in 1..call.blocks |-> Sector(call)[j]]
  BY <1>1, SectorIsBlocks
<1>3. k \in 1..(call.blocks + 1) /\ \A j \in 1..call.blocks : ~(j < k)
  BY <1>1, <1>2
<1>4. src = [j \in 1..call.blocks |-> IF call.inPlace /\ j < k THEN Text(j) ELSE Sector(call)[j]]
  BY <1>1, <1>2, <1>3
<1>5. dst = [j \in 1..call.blocks |-> dst[j]]
  BY <1>1, <1>2
<1>6. dst = [j \in 1..call.blocks |-> IF j < k THEN Text(j) ELSE dst[j]]
  BY <1>3, <1>5
<1>7. chain = LinkAt(call, k)
  <2>1. CASE call.kind = "xts"
    <3>1. Tweaks(call.sector, call.blocks)[1] = Encrypt("tweakKey", LittleEndian(call.sector))
      BY <1>2, TweaksProperties
    <3> QED BY <1>1, <2>1, <3>1 DEF LinkAt
  <2>2. CASE call.kind = "cbc"
    <3>1. Chain(call.sector * call.size, call.blocks)[0]
            = Encrypt("fvek", LittleEndian(call.sector * call.size))
      BY <1>2, ChainProperties
    <3> QED BY <1>1, <2>2, <3>1 DEF LinkAt
  <2> QED BY <1>2, <2>1, <2>2
<1> QED BY <1>1, <1>2, <1>3, <1>4, <1>6, <1>7 DEF SectorInv

(* Writing the text of block k. *)
LEMMA SectorBlockWritten ==
  ASSUME SectorInv, pc \in {"xts", "cbc"}, pc = call.kind, k <= call.blocks,
         WriteBlock(Text(k)), k' = k + 1, call' = call, pc' = pc,
         k + 1 <= call.blocks => chain' = LinkAt(call, k + 1)
  PROVE  SectorInv'
<1>0. /\ call \in SectorCalls /\ call.blocks \in Nat \ {0} /\ k \in 1..call.blocks
      /\ call.kind # "ccm" /\ call.kind # "done" /\ call.inPlace \in BOOLEAN
  BY SectorIsBlocks DEF SectorInv
<1>1. /\ dst = [j \in 1..call.blocks |-> IF j < k THEN Text(j) ELSE dst[j]]
      /\ src = [j \in 1..call.blocks |-> IF call.inPlace /\ j < k THEN Text(j) ELSE Sector(call)[j]]
      /\ call.inPlace => dst = src
  BY <1>0 DEF SectorInv
<1> DEFINE n == call.blocks
<1>2. PICK d : d = dst'
  OBVIOUS
<1>3. d = [dst EXCEPT ![k] = Text(k)] /\ src' = IF call.inPlace THEN d ELSE src
  BY <1>2 DEF WriteBlock
<1>4. d = [j \in 1..n |-> IF j = k THEN Text(j) ELSE dst[j]]
  <2>1. DOMAIN dst = 1..n
    BY <1>1
  <2> QED BY <2>1, <1>3
<1>5. \A j \in 1..n : j < k + 1 <=> (j < k \/ j = k)
  BY <1>0
<1>6. d = [j \in 1..n |-> IF j < k + 1 THEN Text(j) ELSE d[j]]
  <2>1. \A j \in 1..n : j < k => dst[j] = Text(j)
    BY <1>1
  <2>2. \A j \in 1..n : j < k + 1 => d[j] = Text(j)
    BY <1>4, <1>5, <2>1
  <2> QED BY <1>4, <2>2
<1>7. src' = [j \in 1..n |-> IF call.inPlace /\ j < k + 1 THEN Text(j) ELSE Sector(call)[j]]
  <2>1. CASE call.inPlace
    <3>1. \A j \in 1..n : ~(j < k) => dst[j] = Sector(call)[j]
      BY <1>1, <2>1
    <3>2. \A j \in 1..n : ~(j < k + 1) => d[j] = Sector(call)[j]
      BY <1>4, <1>5, <3>1, <1>0
    <3>3. d = [j \in 1..n |-> IF j < k + 1 THEN Text(j) ELSE Sector(call)[j]]
      BY <1>6, <3>2
    <3> QED BY <1>3, <2>1, <3>3
  <2>2. CASE ~call.inPlace
    <3>1. src = [j \in 1..n |-> Sector(call)[j]]
      BY <1>1, <2>2
    <3> QED BY <1>3, <2>2, <3>1
  <2> QED BY <1>0, <2>1, <2>2
<1>8. call.inPlace => d = src'
  BY <1>3
<1>9. k + 1 \in 1..(n + 1)
  BY <1>0
<1>10. /\ dst' = [j \in 1..call'.blocks |-> IF j < k' THEN Text(j) ELSE dst'[j]]
       /\ src' = [j \in 1..call'.blocks |-> IF call'.inPlace /\ j < k' THEN Text(j) ELSE Sector(call')[j]]
       /\ call'.inPlace => dst' = src'
       /\ k' \in 1..(call'.blocks + 1)
  BY <1>2, <1>6, <1>7, <1>8, <1>9
<1>11. pc' \in {call'.kind, "done", "panic"} /\ pc' # "done" /\ call' \in SectorCalls
  BY <1>0
<1>12. pc' = call'.kind /\ k' <= call'.blocks => chain' = LinkAt(call', k')
  OBVIOUS
<1> QED BY <1>10, <1>11, <1>12 DEF SectorInv, Sector, LinkAt

(* decryptSector keeps it. *)
LEMMA SectorKept ==
  ASSUME SectorInv, call.kind # "ccm", Next
  PROVE  SectorInv'
<1>0. /\ call \in SectorCalls /\ call.blocks \in Nat \ {0} /\ k \in 1..(call.blocks + 1)
      /\ call.kind \in {"xts", "cbc"} /\ call.inPlace \in BOOLEAN
      /\ pc \in {call.kind, "done", "panic"}
  BY SectorIsBlocks DEF SectorInv
<1>1. src = [j \in 1..call.blocks |-> IF call.inPlace /\ j < k THEN Text(j) ELSE Sector(call)[j]]
  BY <1>0 DEF SectorInv
<1>2. Len(src) = call.blocks
  <2>1. src = [j \in 1..call.blocks |-> src[j]]
    BY <1>1
  <2> QED BY <1>0, <2>1, LengthOf
<1>3. k <= call.blocks => k \in 1..call.blocks /\ src[k] = Sector(call)[k]
  BY <1>0, <1>1
<1>4. CASE XtsBlock
  <2>1. /\ pc = "xts" /\ k <= call.blocks /\ k' = k + 1 /\ call' = call /\ pc' = pc
        /\ WriteBlock(Xor(Decrypt("dataKey", Xor(src[k], chain)), chain))
        /\ chain' = gfMulX(chain)
    BY <1>2, <1>4 DEF XtsBlock
  <2>2. call.kind = "xts"
    BY <1>0, <2>1
  <2>3. chain = Tweaks(call.sector, call.blocks)[k] /\ src[k] = XtsEncrypted(call.sector, call.blocks)[k]
    BY <1>0, <1>3, <2>1, <2>2 DEF SectorInv, LinkAt, Sector
  <2>4. Xor(Decrypt("dataKey", Xor(src[k], chain)), chain) = Text(k)
    BY <1>0, <1>3, <2>1, <2>3, XtsUndone
  <2>5. WriteBlock(Text(k))
    BY <2>1, <2>4
  <2>6. ASSUME k + 1 <= call.blocks
        PROVE  chain' = LinkAt(call, k + 1)
    <3>1. k \in 1..(call.blocks - 1)
      BY <1>0, <2>6
    <3>2. Tweaks(call.sector, call.blocks)[k + 1] = TimesX(Tweaks(call.sector, call.blocks)[k])
      BY <1>0, <3>1, TweaksProperties
    <3> QED BY <2>1, <2>2, <2>3, <3>2, MultipliesByX DEF LinkAt
  <2> QED BY <2>1, <2>2, <2>5, <2>6, SectorBlockWritten
<1>5. CASE CbcBlock
  <2>1. /\ pc = "cbc" /\ k <= call.blocks /\ k' = k + 1 /\ call' = call /\ pc' = pc
        /\ WriteBlock(Xor(Decrypt("fvek", src[k]), chain))
        /\ chain' = src[k]
    BY <1>2, <1>5 DEF CbcBlock
  <2>2. call.kind = "cbc"
    BY <1>0, <2>1
  <2> DEFINE g == Chain(call.sector * call.size, call.blocks)
  <2>3. chain = g[k - 1] /\ src[k] = CbcEncrypted(call.sector, call.size, call.blocks)[k]
    BY <1>0, <1>3, <2>1, <2>2 DEF SectorInv, LinkAt, Sector
  <2>4. CbcEncrypted(call.sector, call.size, call.blocks)[k] = g[k]
        /\ Xor(Decrypt("fvek", g[k]), g[k - 1]) = Text(k)
    BY <1>0, <1>3, <2>1, CbcUndone
  <2>5. WriteBlock(Text(k))
    BY <2>1, <2>3, <2>4
  <2>6. chain' = LinkAt(call, k + 1)
    <3>1. (k + 1) - 1 = k
      BY <1>0
    <3> QED BY <2>1, <2>2, <2>3, <2>4, <3>1 DEF LinkAt
  <2> QED BY <2>1, <2>2, <2>5, <2>6, SectorBlockWritten
<1>6. CASE CbcPanics
  BY <1>0, <1>6 DEF CbcPanics, SectorInv, Sector, LinkAt
<1>7. CASE SectorDone
  <2>1. k = call.blocks + 1 /\ pc' = "done" /\ UNCHANGED <<call, src, dst, chain, k>>
    BY <1>0, <1>2, <1>7 DEF SectorDone
  <2> QED BY <1>0, <2>1 DEF SectorInv, Sector, LinkAt
<1>8. ~(CcmCheck \/ CtrBlock \/ CtrDone \/ MacBlock \/ Compare)
  BY <1>0 DEF CcmCheck, CtrBlock, CtrDone, MacBlock, Compare
<1> QED BY <1>4, <1>5, <1>6, <1>7, <1>8 DEF Next

---------------------------------------------------------------------------
(* Powers of the base, and the digits of a number. *)

IsPowers(g, m) == g = [e \in 0..m |-> IF e = 0 THEN 1 ELSE ByteBase * g[e - 1]]
Powers(m) == CHOOSE g : IsPowers(g, m)

(* There are powers up to every exponent. *)
LEMMA PowersExist ==
  ASSUME NEW n \in Nat
  PROVE  \E g : IsPowers(g, n)
<1> DEFINE S == {m \in Nat : \E g : IsPowers(g, m)}
<1>1. 0 \in S
  <2>1. \A e \in 0..0 : e = 0
    OBVIOUS
  <2>2. IsPowers([e \in 0..0 |-> 1], 0)
    BY <2>1 DEF IsPowers
  <2> QED BY <2>2
<1>2. ASSUME NEW m \in Nat, m \in S PROVE m + 1 \in S
  <2>1. PICK g : IsPowers(g, m)
    BY <1>2
  <2> DEFINE h == [e \in 0..(m + 1) |-> IF e <= m THEN g[e] ELSE ByteBase * g[m]]
  <2>2. ASSUME NEW e \in 0..(m + 1)
        PROVE  h[e] = IF e = 0 THEN 1 ELSE ByteBase * h[e - 1]
    <3>1. e # 0 => h[e - 1] = g[e - 1]
      OBVIOUS
    <3>2. CASE e <= m
      <4>1. h[e] = g[e] /\ e \in 0..m
        BY <3>2
      <4>2. g[e] = IF e = 0 THEN 1 ELSE ByteBase * g[e - 1]
        BY <2>1, <4>1 DEF IsPowers
      <4> HIDE DEF h
      <4> QED BY <3>1, <4>1, <4>2
    <3>3. CASE ~(e <= m)
      <4>1. h[e] = ByteBase * g[m] /\ e # 0 /\ e - 1 = m
        BY <3>3
      <4> HIDE DEF h
      <4> QED BY <3>1, <4>1
    <3> QED BY <3>2, <3>3
  <2>3. h = [e \in 0..(m + 1) |-> h[e]]
    OBVIOUS
  <2> HIDE DEF h
  <2>4. IsPowers(h, m + 1)
    BY <2>2, <2>3 DEF IsPowers
  <2> QED BY <2>4
<1> HIDE DEF S
<1>3. Nat \subseteq S
  BY <1>1, <1>2, Induction
<1> QED BY <1>3 DEF S

(* They are the same up to whatever exponent. *)
LEMMA PowersAgree ==
  ASSUME NEW n \in Nat, NEW m \in 0..n
  PROVE  Powers(n)[m] = Powers(m)[m]
<1> DEFINE g == Powers(n)
           h == Powers(m)
           S == {e \in Nat : e <= m => g[e] = h[e]}
<1>1. IsPowers(g, n) /\ IsPowers(h, m)
  BY PowersExist DEF Powers
<1> HIDE DEF g, h
<1>2. /\ \A e \in 0..n : g[e] = IF e = 0 THEN 1 ELSE ByteBase * g[e - 1]
      /\ \A e \in 0..m : h[e] = IF e = 0 THEN 1 ELSE ByteBase * h[e - 1]
  BY <1>1 DEF IsPowers
<1>3. 0 \in S
  BY <1>2
<1>4. ASSUME NEW e \in Nat, e \in S PROVE e + 1 \in S
  <2> SUFFICES ASSUME e + 1 <= m PROVE g[e + 1] = h[e + 1]
    OBVIOUS
  <2>1. g[e] = h[e] /\ e + 1 \in 0..n /\ e + 1 \in 0..m /\ e + 1 # 0 /\ (e + 1) - 1 = e
    BY <1>4
  <2> QED BY <1>2, <2>1
<1> HIDE DEF S
<1>5. Nat \subseteq S
  BY <1>3, <1>4, Induction
<1> QED BY <1>5 DEF S, g, h

(* The powers are what one expects. *)
LEMMA PowerFacts ==
  /\ Power[0] = 1
  /\ \A e \in Nat : Power[e] \in Nat \ {0} /\ Power[e + 1] = ByteBase * Power[e]
<1> DEFINE f == [e \in Nat |-> Powers(e)[e]]
<1>1. ASSUME NEW e \in Nat PROVE f[e] = IF e = 0 THEN 1 ELSE ByteBase * f[e - 1]
  <2>1. IsPowers(Powers(e), e)
    BY PowersExist DEF Powers
  <2>2. Powers(e)[e] = IF e = 0 THEN 1 ELSE ByteBase * Powers(e)[e - 1]
    <3>1. e \in 0..e
      OBVIOUS
    <3> HIDE DEF f
    <3> QED BY <2>1, <3>1 DEF IsPowers
  <2>3. e # 0 => Powers(e)[e - 1] = Powers(e - 1)[e - 1]
    BY PowersAgree
  <2>4. e # 0 => f[e - 1] = Powers(e - 1)[e - 1]
    OBVIOUS
  <2> QED BY <2>2, <2>3, <2>4
<1>2. f = [e \in Nat |-> f[e]]
  OBVIOUS
<1> HIDE DEF f
<1>3. f = [e \in Nat |-> IF e = 0 THEN 1 ELSE ByteBase * f[e - 1]]
  BY <1>1, <1>2
<1>4. Power = [e \in Nat |-> IF e = 0 THEN 1 ELSE ByteBase * Power[e - 1]]
  <2>1. Power = CHOOSE g : g = [e \in Nat |-> IF e = 0 THEN 1 ELSE ByteBase * g[e - 1]]
    BY DEF Power
  <2> QED BY <1>3, <2>1
<1>5. PICK g : g = Power
  OBVIOUS
<1>6. \A e \in Nat : g[e] = IF e = 0 THEN 1 ELSE ByteBase * g[e - 1]
  BY <1>4, <1>5
<1>7. ASSUME NEW e \in Nat PROVE g[e + 1] = ByteBase * g[e]
  <2>1. e + 1 \in Nat /\ e + 1 # 0 /\ (e + 1) - 1 = e
    OBVIOUS
  <2> QED BY <1>6, <2>1
<1> DEFINE S == {e \in Nat : g[e] \in Nat \ {0}}
<1>8. 0 \in S
  BY <1>6
<1>9. ASSUME NEW e \in Nat, e \in S PROVE e + 1 \in S
  <2>1. PICK x \in Nat \ {0}, b \in Nat \ {0} : x = g[e] /\ b = ByteBase
    BY <1>9, ModesAssumption
  <2>2. b * x \in Nat \ {0}
    OBVIOUS
  <2> QED BY <1>7, <2>1, <2>2
<1> HIDE DEF S
<1>10. Nat \subseteq S
  BY <1>8, <1>9, Induction
<1> QED BY <1>5, <1>6, <1>7, <1>10 DEF S
---------------------------------------------------------------------------
(* CCM: lengths and strings. *)

(* The place of an element in its block. *)
LEMMA DivMod ==
  ASSUME NEW w \in Nat \ {0}, NEW q \in Nat, NEW r \in 0..(w - 1)
  PROVE  (q * w + r) \div w = q /\ (q * w + r) % w = r
<1>1. PICK a \in Nat : a = q * w + r
  OBVIOUS
<1>2. PICK x \in Int, y \in Int : x = a \div w /\ y = a % w
  OBVIOUS
<1>3. a = x * w + y /\ y \in 0..(w - 1)
  BY <1>1, <1>2
<1>4. ~(x < q)
  <2> SUFFICES ASSUME x < q PROVE FALSE
    OBVIOUS
  <2>1. (q - x) * w >= w
    BY SMT
  <2>2. (q - x) * w = y - r
    BY <1>1, <1>3
  <2> QED BY <1>3, <2>1, <2>2
<1>5. ~(q < x)
  <2> SUFFICES ASSUME q < x PROVE FALSE
    OBVIOUS
  <2>1. (x - q) * w >= w
    BY SMT
  <2>2. (x - q) * w = r - y
    BY <1>1, <1>3
  <2> QED BY <1>3, <2>1, <2>2
<1>6. x = q /\ y = r
  BY <1>1, <1>3, <1>4, <1>5
<1> QED BY <1>1, <1>2, <1>6

(* The remainder of a product of two divisors. *)
LEMMA RemainderOfProduct ==
  ASSUME NEW x \in Nat, NEW p \in Nat \ {0}, NEW d \in Nat \ {0}
  PROVE  x % (d * p) = p * ((x \div p) % d) + (x % p)
<1>1. PICK q \in Nat, r \in 0..(p - 1) : q = x \div p /\ r = x % p /\ x = p * q + r
  OBVIOUS
<1>2. PICK s \in Nat, t \in 0..(d - 1) : s = q \div d /\ t = q % d /\ q = d * s + t
  OBVIOUS
<1>3. PICK w \in Nat \ {0} : w = d * p
  OBVIOUS
<1>4. PICK y \in Nat : y = p * t + r
  OBVIOUS
<1>5. y <= w - 1
  <2>1. p * t <= p * (d - 1)
    BY <1>2
  <2>2. p * (d - 1) = w - p
    BY <1>3
  <2>3. PICK u \in Int, v \in Int : u = p * t /\ v = p * (d - 1)
    OBVIOUS
  <2>4. u <= w - p
    BY <2>1, <2>2, <2>3
  <2> QED BY <1>1, <1>4, <2>3, <2>4
<1>6. x = s * w + y
  <2>1. p * q = p * (d * s) + p * t
    BY <1>2
  <2>2. p * (d * s) = s * w
    BY <1>3
  <2>3. PICK u \in Int, v \in Int, z \in Int : u = p * t /\ v = s * w /\ z = p * q
    OBVIOUS
  <2>4. z = v + u
    BY <2>1, <2>2, <2>3
  <2>5. x = z + r /\ y = u + r
    BY <1>1, <1>4, <2>3
  <2>6. x = v + y
    BY ONLY <2>3, <2>4, <2>5, x \in Nat, y \in Nat, r \in 0..(p - 1), p \in Nat
  <2> QED BY <2>3, <2>6
<1>7. (s * w + y) % w = y
  BY <1>5, DivMod
<1> QED BY <1>1, <1>2, <1>3, <1>4, <1>6, <1>7

(* A number below a power is determined by its digits. *)
LEMMA DigitsDetermine ==
  ASSUME NEW m \in Nat, NEW a \in Nat, NEW b \in Nat, a < Power[m], b < Power[m],
         \A e \in 0..(m - 1) : (a \div Power[e]) % ByteBase = (b \div Power[e]) % ByteBase
  PROVE  a = b
<1> DEFINE S == {e \in Nat : e <= m => a % Power[e] = b % Power[e]}
<1>1. 0 \in S
  <2>1. a % 1 = 0 /\ b % 1 = 0
    OBVIOUS
  <2> QED BY <2>1, PowerFacts
<1>2. ASSUME NEW e \in Nat, e \in S PROVE e + 1 \in S
  <2> SUFFICES ASSUME e + 1 <= m PROVE a % Power[e + 1] = b % Power[e + 1]
    OBVIOUS
  <2>1. PICK p \in Nat \ {0}, d \in Nat \ {0} :
           p = Power[e] /\ d = ByteBase /\ Power[e + 1] = d * p
    BY PowerFacts, ModesAssumption
  <2>2. a % p = b % p /\ (a \div p) % d = (b \div p) % d
    BY <1>2, <2>1
  <2>3. a % (d * p) = p * ((a \div p) % d) + (a % p) /\ b % (d * p) = p * ((b \div p) % d) + (b % p)
    BY RemainderOfProduct
  <2> QED BY <2>1, <2>2, <2>3
<1> HIDE DEF S
<1>3. Nat \subseteq S
  BY <1>1, <1>2, Induction
<1>4. PICK p \in Nat \ {0} : p = Power[m]
  BY PowerFacts
<1>5. a % p = b % p
  BY <1>3, <1>4 DEF S
<1>6. a % p = a /\ b % p = b
  BY <1>4
<1> QED BY <1>5, <1>6
(* The blocks of n bytes: all begin within the bytes, and together hold them. *)
LEMMA BlocksFacts ==
  ASSUME NEW data, Len(data) \in Nat
  PROVE  /\ Blocks(data) \in 0..Len(data)
         /\ Len(data) <= Blocks(data) * Width
         /\ \A j \in 1..Blocks(data) : (j - 1) * Width < Len(data)
<1>1. PICK w \in Nat \ {0}, n \in Nat : w = Width /\ n = Len(data)
  BY WidthFacts
<1>2. PICK a \in Nat : a = n + w - 1
  OBVIOUS
<1>3. PICK x \in Int, y \in Int : x = a \div w /\ y = a % w
  BY <1>2
<1>4. a = x * w + y /\ y \in 0..(w - 1) /\ x \in Nat
  BY <1>3
<1>5. Blocks(data) = x
  BY <1>1, <1>2, <1>3 DEF Blocks
<1>6. n <= x * w
  BY <1>2, <1>4
<1>7. ASSUME NEW j \in 1..x PROVE (j - 1) * w < n
  <2>1. (j - 1) * w <= (x - 1) * w
    BY <1>4, <1>7
  <2>2. (x - 1) * w = x * w - w
    BY <1>4
  <2> QED BY <1>2, <1>4, <2>1, <2>2
<1>8. x <= n
  <2> SUFFICES ASSUME x > n PROVE FALSE
    BY <1>4
  <2>1. x \in 1..x
    BY <1>4
  <2>2. (x - 1) * w < n
    BY <1>7, <2>1
  <2>3. (x - 1) * w >= x - 1
    BY <1>4, <2>1
  <2> QED BY <1>4, <2>2, <2>3
<1> QED BY <1>1, <1>4, <1>5, <1>6, <1>7, <1>8

(* Functions on 1..n are strings of length n. *)
LEMMA StringOf ==
  ASSUME NEW n \in Nat, NEW f, f = [j \in 1..n |-> f[j]]
  PROVE  IsString(f) /\ Len(f) = n
  BY LengthOf DEF IsString

(* Strings one after the other. *)
LEMMA StringConcat ==
  ASSUME NEW a, NEW b, IsString(a), IsString(b)
  PROVE  /\ Len(a \o b) = Len(a) + Len(b)
         /\ IsString(a \o b)
         /\ \A i \in 1..(Len(a) + Len(b)) : (a \o b)[i] = IF i <= Len(a) THEN a[i] ELSE b[i - Len(a)]
<1> DEFINE S == {a[i] : i \in 1..Len(a)} \union {b[i] : i \in 1..Len(b)}
<1>1. a \in Seq(S)
  <2>1. a \in [1..Len(a) -> S] /\ Len(a) \in Nat
    BY DEF IsString
  <2> QED BY <2>1
<1>2. b \in Seq(S)
  <2>1. b \in [1..Len(b) -> S] /\ Len(b) \in Nat
    BY DEF IsString
  <2> QED BY <2>1
<1> HIDE DEF S
<1>3. /\ a \o b \in Seq(S)
      /\ Len(a \o b) = Len(a) + Len(b)
      /\ \A i \in 1..(Len(a) + Len(b)) : (a \o b)[i] = IF i <= Len(a) THEN a[i] ELSE b[i - Len(a)]
  BY <1>1, <1>2, ConcatProperties
<1>4. IsString(a \o b)
  <2>1. a \o b \in [1..Len(a \o b) -> S] /\ Len(a \o b) \in Nat
    BY <1>3, LenProperties
  <2> QED BY <2>1 DEF IsString
<1> QED BY <1>3, <1>4

---------------------------------------------------------------------------
(* CCM: what was sealed. *)

(* The message authentication code, block by block. *)
IsMac(g, key, first, input, m) ==
  g = [j \in 0..m |-> IF j = 0 THEN first ELSE Encrypt(key, Xor(g[j - 1], Block(input, j)))]

Mac(key, first, input, m) == CHOOSE g : IsMac(g, key, first, input, m)

(* There is one for every number of blocks. *)
LEMMA MacExists ==
  ASSUME NEW key, NEW first, NEW input, NEW n \in Nat
  PROVE  \E g : IsMac(g, key, first, input, n)
<1> DEFINE Link(g, j) == Encrypt(key, Xor(g[j - 1], Block(input, j)))
           S == {m \in Nat : \E g : IsMac(g, key, first, input, m)}
<1>1. 0 \in S
  <2>1. IsMac([j \in 0..0 |-> first], key, first, input, 0)
    <3>1. \A j \in 0..0 : j = 0
      OBVIOUS
    <3> QED BY <3>1 DEF IsMac
  <2> QED BY <2>1
<1>2. ASSUME NEW m \in Nat, m \in S PROVE m + 1 \in S
  <2>1. PICK g : IsMac(g, key, first, input, m)
    BY <1>2
  <2> DEFINE h == [j \in 0..(m + 1) |-> IF j <= m THEN g[j] ELSE Link(g, m + 1)]
  <2>2. ASSUME NEW j \in 0..(m + 1)
        PROVE  h[j] = IF j = 0 THEN first ELSE Link(h, j)
    <3>0. j # 0 => j - 1 \in 0..(m + 1) /\ j - 1 <= m
      OBVIOUS
    <3>1. j # 0 => h[j - 1] = g[j - 1]
      BY <3>0
    <3>2. CASE j <= m
      <4>1. j \in 0..m
        BY <3>2
      <4>2. h[j] = g[j]
        BY <3>2
      <4>3. g[j] = IF j = 0 THEN first ELSE Link(g, j)
        BY <2>1, <4>1 DEF IsMac
      <4> HIDE DEF h
      <4> QED BY <3>1, <4>2, <4>3
    <3>3. CASE ~(j <= m)
      <4>1. j = m + 1 /\ j # 0
        BY <3>3
      <4>2. h[j] = Link(g, j)
        BY <3>3, <4>1
      <4> HIDE DEF h
      <4> QED BY <3>1, <4>1, <4>2
    <3> QED BY <3>2, <3>3
  <2>3. h = [j \in 0..(m + 1) |-> h[j]]
    OBVIOUS
  <2> HIDE DEF h
  <2>4. IsMac(h, key, first, input, m + 1)
    BY <2>2, <2>3 DEF IsMac
  <2> QED BY <2>4
<1> HIDE DEF S
<1>3. Nat \subseteq S
  BY <1>1, <1>2, Induction
<1> QED BY <1>3 DEF S

(* Its first block and how the others follow. *)
LEMMA MacProperties ==
  ASSUME NEW key, NEW first, NEW input, NEW n \in Nat
  PROVE  /\ Mac(key, first, input, n)[0] = first
         /\ \A j \in 1..n : Mac(key, first, input, n)[j]
                              = Encrypt(key, Xor(Mac(key, first, input, n)[j - 1], Block(input, j)))
<1> DEFINE g == Mac(key, first, input, n)
<1>1. IsMac(g, key, first, input, n)
  BY MacExists DEF Mac
<1> HIDE DEF g
<1>2. \A j \in 0..n : g[j] = IF j = 0 THEN first ELSE Encrypt(key, Xor(g[j - 1], Block(input, j)))
  BY <1>1 DEF IsMac
<1> QED BY <1>2 DEF g

---------------------------------------------------------------------------
(* The authentication code of a message that AES had no hand in. *)

(* AES made it of a counter block: flags of three bits, not 0. *)
OfCounter(x) == \E v \in 1..7 : x[0] = {<<"num", v>>}

(* The first block of the code has larger flags. *)
OfLength(x) == \E v \in Nat : v > 7 /\ x[0] = {<<"num", v>>}

(* Y are the blocks that AES is fed with, X what it makes of them; of what AES *)
(* made, the message holds at most pieces of the keystream.                    *)
Authenticates(X, Y, key, input, n) ==
  /\ n \in Nat
  /\ \A j \in 0..n : X[j] = Encrypt(key, Y[j])
  /\ \A j \in 1..n : Y[j] = Xor(X[j - 1], Block(input, j))
  /\ OfLength(Y[0])
  /\ \A j \in 1..n : \A u \in Block(input, j)[0] : u[1] = "E" => OfCounter(u[4])

(* What AES makes of a block that is not the image of one. *)
LEMMA NewImage ==
  ASSUME NEW b, NEW u \in b[0], u[1] # "D", NEW key
  PROVE  /\ Encrypt(key, b) = Image("E", key, b)
         /\ Image("E", key, b)[0] = {<<"E", 0, key, b>>}
<1>1. \A x : b # Image("D", key, x)
  BY NotDecrypted
<1>2. Encrypt(key, b) = Image("E", key, b)
  BY <1>1, EncryptIsImage
<1>3. Image("E", key, b)[0] = {<<"E", 0, key, b>>}
  BY WidthFacts DEF Image
<1> QED BY <1>2, <1>3

(* A block of numbers at its first place. *)
LEMMA NumberImage ==
  ASSUME NEW b, NEW v, b[0] = {<<"num", v>>}, NEW key
  PROVE  /\ Encrypt(key, b) = Image("E", key, b)
         /\ Image("E", key, b)[0] = {<<"E", 0, key, b>>}
         /\ \A u \in b[0] : u[1] # "E"
<1> DEFINE u == <<"num", v>>
<1>1. u \in b[0] /\ u[1] = "num"
  OBVIOUS
<1> HIDE DEF u
<1>2. u[1] # "D"
  BY <1>1
<1>3. \A w \in b[0] : w[1] # "E"
  <2>1. b[0] = {u}
    BY DEF u
  <2> QED BY <1>1, <2>1
<1> QED BY <1>1, <1>2, <1>3, NewImage

(* Every block of the code holds the image of the one before it, and none is a counter block. *)
LEMMA CodeHoldsImages ==
  ASSUME NEW X, NEW Y, NEW key, NEW input, NEW n, Authenticates(X, Y, key, input, n)
  PROVE  /\ \A j \in 0..n : ~OfCounter(Y[j]) /\ X[j] = Image("E", key, Y[j])
         /\ \A j \in 1..n : <<"E", 0, key, Y[j - 1]>> \in Y[j][0]
<1> DEFINE u(j) == <<"E", 0, key, Y[j]>>
           Good(j) == /\ ~OfCounter(Y[j]) /\ X[j] = Image("E", key, Y[j])
                      /\ X[j][0] = {u(j)}
           S == {j \in Nat : j <= n => Good(j)}
<1>0. n \in Nat
  BY DEF Authenticates
<1>1. Good(0)
  <2>1. PICK f \in Nat : f > 7 /\ Y[0][0] = {<<"num", f>>}
    BY DEF Authenticates, OfLength
  <2>2. ASSUME NEW v \in 1..7, Y[0][0] = {<<"num", v>>} PROVE FALSE
    <3>1. <<"num", v>> = <<"num", f>>
      BY <2>1, <2>2
    <3>2. v = f
      BY <3>1
    <3> QED BY <2>1, <3>2
  <2>3. X[0] = Encrypt(key, Y[0])
    BY <1>0 DEF Authenticates
  <2>4. Encrypt(key, Y[0]) = Image("E", key, Y[0]) /\ Image("E", key, Y[0])[0] = {u(0)}
    BY <2>1, NumberImage
  <2> QED BY <2>2, <2>3, <2>4 DEF OfCounter
<1>2. ASSUME NEW j \in 1..n, Good(j - 1)
      PROVE  Good(j) /\ u(j - 1) \in Y[j][0]
  <2>1. /\ X[j] = Encrypt(key, Y[j]) /\ Y[j] = Xor(X[j - 1], Block(input, j))
        /\ \A w \in Block(input, j)[0] : w[1] = "E" => OfCounter(w[4])
    BY <1>0 DEF Authenticates
  <2> DEFINE w == u(j - 1)
  <2>2. w[1] = "E" /\ w[4] = Y[j - 1]
    OBVIOUS
  <2>3. X[j - 1][0] = {w} /\ ~OfCounter(Y[j - 1])
    BY <1>2
  <2> HIDE DEF w
  <2>4. Y[j][0] = Sum({w}, Block(input, j)[0])
    BY <2>1, <2>3, WidthFacts DEF Xor
  <2>5. w \notin Block(input, j)[0]
    BY <2>1, <2>2, <2>3
  <2>6. w \in Y[j][0]
    BY <2>4, <2>5 DEF Sum
  <2>7. ~OfCounter(Y[j])
    <3> SUFFICES ASSUME NEW v \in 1..7, Y[j][0] = {<<"num", v>>} PROVE FALSE
      BY DEF OfCounter
    <3>1. \A z \in Y[j][0] : z[1] # "E"
      BY NumberImage
    <3> QED BY <2>2, <2>6, <3>1
  <2>8. Encrypt(key, Y[j]) = Image("E", key, Y[j]) /\ Image("E", key, Y[j])[0] = {u(j)}
    <3>1. w[1] # "D"
      BY <2>2
    <3> QED BY <2>6, <3>1, NewImage
  <2>9. Good(j)
    BY <2>1, <2>7, <2>8
  <2> QED BY <2>6, <2>9 DEF w
<1> HIDE DEF Good
<1>3. 0 \in S
  BY <1>1
<1>4. ASSUME NEW j \in Nat, j \in S PROVE j + 1 \in S
  <2> SUFFICES ASSUME j + 1 <= n PROVE Good(j + 1)
    OBVIOUS
  <2>1. j + 1 \in 1..n /\ (j + 1) - 1 = j /\ Good(j)
    BY <1>0, <1>4
  <2> QED BY <1>2, <2>1
<1> HIDE DEF S
<1>5. Nat \subseteq S
  BY <1>3, <1>4, Induction
<1>6. \A j \in 0..n : Good(j)
  BY <1>0, <1>5 DEF S
<1>7. ASSUME NEW j \in 1..n
      PROVE  u(j - 1) \in Y[j][0]
  <2>1. Good(j - 1)
    BY <1>0, <1>6
  <2> QED BY <1>2, <2>1
<1> QED BY <1>6, <1>7 DEF Good

(* Equal blocks of two codes follow equal blocks and hold equal blocks of the messages. *)
LEMMA CodeUnwinds ==
  ASSUME NEW X, NEW Y, NEW key, NEW input, NEW n, Authenticates(X, Y, key, input, n),
         NEW X2, NEW Y2, NEW key2, NEW input2, NEW n2, Authenticates(X2, Y2, key2, input2, n2),
         NEW i \in 1..n, NEW j \in 1..n2, Y[i] = Y2[j]
  PROVE  Y[i - 1] = Y2[j - 1] /\ Block(input, i) = Block(input2, j)
<1>0. n \in Nat /\ n2 \in Nat
  BY DEF Authenticates
<1> DEFINE u == <<"E", 0, key, Y[i - 1]>>
           v == <<"E", 0, key2, Y2[j - 1]>>
<1>1. /\ u \in Y[i][0] /\ ~OfCounter(Y[i - 1]) /\ X[i - 1] = Image("E", key, Y[i - 1])
      /\ Y[i] = Xor(X[i - 1], Block(input, i))
  <2>1. i - 1 \in 0..n
    BY <1>0
  <2>2. ~OfCounter(Y[i - 1]) /\ X[i - 1] = Image("E", key, Y[i - 1])
    BY <2>1, CodeHoldsImages
  <2>3. u \in Y[i][0]
    BY CodeHoldsImages
  <2>4. Y[i] = Xor(X[i - 1], Block(input, i))
    BY DEF Authenticates
  <2> QED BY <2>2, <2>3, <2>4
<1>2. /\ Y2[j][0] = Sum({v}, Block(input2, j)[0]) /\ X2[j - 1] = Image("E", key2, Y2[j - 1])
      /\ Y2[j] = Xor(X2[j - 1], Block(input2, j))
      /\ \A w \in Block(input2, j)[0] : w[1] = "E" => OfCounter(w[4])
  <2>1. j - 1 \in 0..n2
    BY <1>0
  <2>2. X2[j - 1] = Image("E", key2, Y2[j - 1])
    BY <2>1, CodeHoldsImages
  <2>4. /\ Y2[j] = Xor(X2[j - 1], Block(input2, j))
        /\ \A w \in Block(input2, j)[0] : w[1] = "E" => OfCounter(w[4])
    BY DEF Authenticates
  <2>3. X2[j - 1][0] = {v}
    BY <2>2, WidthFacts DEF Image
  <2>5. Y2[j][0] = Sum({v}, Block(input2, j)[0])
    BY <2>3, <2>4, WidthFacts DEF Xor
  <2> QED BY <2>2, <2>4, <2>5
<1>3. u[1] = "E" /\ u[4] = Y[i - 1]
  OBVIOUS
<1>4. u = v
  <2> HIDE DEF u, v
  <2>1. u \notin Block(input2, j)[0]
    BY <1>1, <1>2, <1>3
  <2> QED BY <1>1, <1>2, <2>1 DEF Sum
<1>5. key = key2 /\ Y[i - 1] = Y2[j - 1]
  BY <1>4
<1>6. PICK x : x = X[i - 1] /\ x = X2[j - 1]
  BY <1>1, <1>2, <1>5
<1>7. Xor(x, Block(input, i)) = Xor(x, Block(input2, j))
  BY <1>1, <1>2, <1>6
<1>8. \A a, b : Xor(a, b) = Xor(b, a)
  BY DEF Xor, Sum
<1>9. IsBlock(Block(input, i)) /\ IsBlock(Block(input2, j))
  BY DEF IsBlock, Block
<1>10. Xor(Block(input, i), x) = Xor(Block(input2, j), x)
  BY <1>7, <1>8, Zenon
<1>11. Xor(Xor(Block(input, i), x), x) = Block(input, i)
  BY <1>9, XorCancels
<1>12. Xor(Xor(Block(input2, j), x), x) = Block(input2, j)
  BY <1>9, XorCancels
<1> QED BY <1>5, <1>10, <1>11, <1>12

(* Codes with the same last block are codes of the same blocks. *)
LEMMA CodeDetermines ==
  ASSUME NEW X, NEW Y, NEW key, NEW input, NEW n, Authenticates(X, Y, key, input, n),
         NEW X2, NEW Y2, NEW key2, NEW input2, NEW n2, Authenticates(X2, Y2, key2, input2, n2),
         Y[n] = Y2[n2]
  PROVE  n = n2 /\ Y[0] = Y2[0] /\ \A j \in 1..n : Block(input, j) = Block(input2, j)
<1>0. n \in Nat /\ n2 \in Nat
  BY DEF Authenticates
<1> DEFINE S == {m \in Nat : m <= n /\ m <= n2 =>
                   /\ Y[n - m] = Y2[n2 - m]
                   /\ \A i \in 0..(m - 1) : Block(input, n - i) = Block(input2, n2 - i)}
<1>1. 0 \in S
  BY <1>0
<1>2. ASSUME NEW m \in Nat, m \in S PROVE m + 1 \in S
  <2> SUFFICES ASSUME m + 1 <= n, m + 1 <= n2
               PROVE  /\ Y[n - (m + 1)] = Y2[n2 - (m + 1)]
                      /\ \A i \in 0..((m + 1) - 1) : Block(input, n - i) = Block(input2, n2 - i)
    OBVIOUS
  <2>1. /\ Y[n - m] = Y2[n2 - m]
        /\ \A i \in 0..(m - 1) : Block(input, n - i) = Block(input2, n2 - i)
    BY <1>0, <1>2
  <2>2. /\ n - m \in 1..n /\ n2 - m \in 1..n2
        /\ (n - m) - 1 = n - (m + 1) /\ (n2 - m) - 1 = n2 - (m + 1)
    BY <1>0
  <2>3. /\ Y[(n - m) - 1] = Y2[(n2 - m) - 1]
        /\ Block(input, n - m) = Block(input2, n2 - m)
    BY <2>1, <2>2, CodeUnwinds
  <2>4. \A i \in 0..((m + 1) - 1) : i \in 0..(m - 1) \/ i = m
    OBVIOUS
  <2> QED BY <2>1, <2>2, <2>3, <2>4
<1> HIDE DEF S
<1>3. Nat \subseteq S
  BY <1>1, <1>2, Induction
<1>4. \A m \in Nat : m <= n /\ m <= n2 =>
        /\ Y[n - m] = Y2[n2 - m]
        /\ \A i \in 0..(m - 1) : Block(input, n - i) = Block(input2, n2 - i)
  BY <1>3 DEF S
<1>5. PICK f, g : Y[0][0] = {<<"num", f>>} /\ Y2[0][0] = {<<"num", g>>}
  BY DEF Authenticates, OfLength
<1>6. (\A u \in Y[0][0] : u[1] # "E") /\ (\A u \in Y2[0][0] : u[1] # "E")
  BY <1>5, NumberImage
<1>7. ~(n < n2)
  <2> SUFFICES ASSUME n < n2 PROVE FALSE
    OBVIOUS
  <2>1. n - n = 0 /\ n2 - n \in 1..n2
    BY <1>0
  <2>2. Y[0] = Y2[n2 - n]
    BY <1>0, <1>4, <2>1
  <2> DEFINE u == <<"E", 0, key2, Y2[(n2 - n) - 1]>>
  <2>3. u \in Y2[n2 - n][0] /\ u[1] = "E"
    BY <2>1, CodeHoldsImages
  <2> HIDE DEF u
  <2> QED BY <1>6, <2>2, <2>3
<1>8. ~(n2 < n)
  <2> SUFFICES ASSUME n2 < n PROVE FALSE
    OBVIOUS
  <2>1. n2 - n2 = 0 /\ n - n2 \in 1..n
    BY <1>0
  <2>2. Y[n - n2] = Y2[0]
    BY <1>0, <1>4, <2>1
  <2> DEFINE u == <<"E", 0, key, Y[(n - n2) - 1]>>
  <2>3. u \in Y[n - n2][0] /\ u[1] = "E"
    BY <2>1, CodeHoldsImages
  <2> HIDE DEF u
  <2> QED BY <1>6, <2>2, <2>3
<1>9. n = n2 /\ n - n = 0
  BY <1>0, <1>7, <1>8
<1>10. /\ Y[0] = Y2[0]
       /\ \A i \in 0..(n - 1) : Block(input, n - i) = Block(input2, n - i)
  BY <1>0, <1>4, <1>9
<1>11. ASSUME NEW j \in 1..n PROVE Block(input, j) = Block(input2, j)
  <2>1. n - j \in 0..(n - 1) /\ n - (n - j) = j
    BY <1>0
  <2>2. Block(input, n - (n - j)) = Block(input2, n - (n - j))
    BY <1>10, <2>1
  <2> QED BY <2>1, <2>2
<1> QED BY <1>9, <1>10, <1>11

(* Strings of the same length and the same blocks are the same. *)
LEMMA BlocksDetermine ==
  ASSUME NEW s, NEW t, IsString(s), IsString(t), Len(s) = Len(t),
         \A j \in 1..Blocks(s) : Block(s, j) = Block(t, j)
  PROVE  s = t
<1>1. PICK w \in Nat \ {0}, n \in Nat : w = Width /\ n = Len(s) /\ n = Len(t)
  BY WidthFacts DEF IsString
<1>2. PICK b \in Nat : b = Blocks(s) /\ n <= b * w
  BY <1>1, BlocksFacts
<1>3. ASSUME NEW i \in 1..n PROVE s[i] = t[i]
  <2>1. PICK q \in Nat, r \in 0..(w - 1) : i - 1 = q * w + r
    <3>1. (i - 1) = ((i - 1) \div w) * w + ((i - 1) % w) /\ (i - 1) \div w \in Nat /\ (i - 1) % w \in 0..(w - 1)
      OBVIOUS
    <3> QED BY <3>1
  <2>2. q + 1 \in 1..b
    <3> SUFFICES ASSUME b <= q PROVE FALSE
      BY <1>2
    <3>1. b * w <= q * w
      OBVIOUS
    <3>2. PICK x \in Int, y \in Int : x = b * w /\ y = q * w
      OBVIOUS
    <3> QED BY <1>2, <2>1, <3>1, <3>2
  <2>3. r \in Places /\ ((q + 1) - 1) * Width + r = i - 1 /\ (i - 1) + 1 = i /\ i - 1 < n
    <3>1. (q + 1) - 1 = q
      OBVIOUS
    <3> QED BY <1>1, <2>1, <3>1, WidthFacts
  <2>4. Block(s, q + 1)[r] = s[i] /\ Block(t, q + 1)[r] = t[i]
    <3>1. PICK m \in Int : m = ((q + 1) - 1) * Width + r /\ m < n /\ m + 1 = i
      BY <2>3
    <3> QED BY <1>1, <2>3, <3>1 DEF Block
  <2> QED BY <1>2, <2>2, <2>4
<1> QED BY <1>1, <1>3 DEF IsString

---------------------------------------------------------------------------
(* CCM: what is authenticated, for the arguments b and a text p. *)

LengthBytes(b) == Width - 1 - Len(b.nonce)
CounterBlock(b, counter) == Formatted(LengthBytes(b) - 1, b.nonce, counter)
Keystream(b, counter) == Encrypt(b.key, CounterBlock(b, counter))

Flags(b) == LengthBytes(b) - 1 + 8 * ((Len(b.tag) - 2) \div 2) + (IF b.aad = <<>> THEN 0 ELSE 64)
FirstBlock(b, p) == Formatted(Flags(b), b.nonce, Len(p))

WithLength(a) == <<Num((Len(a) \div ByteBase) % ByteBase), Num(Len(a) % ByteBase)>> \o a
Framed(a) == IF a = <<>> THEN <<>> ELSE Pad(WithLength(a))
Input(b, p) == Framed(b.aad) \o p

Macs(b, p) == Mac(b.key, Encrypt(b.key, FirstBlock(b, p)), Input(b, p), Blocks(Input(b, p)))
Fed(b, p) ==
  [j \in 0..Blocks(Input(b, p)) |->
     IF j = 0 THEN FirstBlock(b, p) ELSE Xor(Macs(b, p)[j - 1], Block(Input(b, p), j))]
TagOf(b, p) == HeadOf(Xor(Macs(b, p)[Blocks(Input(b, p))], Keystream(b, 0)), Len(b.tag))

(* Of what AES made, a string holds at most pieces of a keystream. *)
OnlyKeystream(s) == \A i \in 1..Len(s) : \A u \in s[i] : u[1] = "E" => OfCounter(u[4])

(* The empty string is a string. *)
LEMMA EmptyString == IsString(<<>>) /\ Len(<<>>) = 0
<1>1. <<>> = [j \in 1..0 |-> <<>>[j]]
  OBVIOUS
<1> QED BY <1>1, StringOf

(* Associated data behind its length. *)
LEMMA WithLengthFacts ==
  ASSUME NEW a, IsString(a)
  PROVE  /\ IsString(WithLength(a)) /\ Len(WithLength(a)) = Len(a) + 2
         /\ WithLength(a)[1] = Num((Len(a) \div ByteBase) % ByteBase)
         /\ WithLength(a)[2] = Num(Len(a) % ByteBase)
         /\ \A i \in 1..Len(a) : WithLength(a)[i + 2] = a[i]
<1> DEFINE x == Num((Len(a) \div ByteBase) % ByteBase)
           y == Num(Len(a) % ByteBase)
<1> HIDE DEF x, y
<1>1. PICK h : h = <<x, y>>
  OBVIOUS
<1>2. h = [j \in 1..2 |-> h[j]] /\ h[1] = x /\ h[2] = y
  BY <1>1
<1>3. IsString(h) /\ Len(h) = 2
  BY <1>2, StringOf
<1>4. PICK n \in Nat : n = Len(a)
  BY DEF IsString
<1>5. /\ Len(h \o a) = 2 + n /\ IsString(h \o a)
      /\ \A i \in 1..(2 + n) : (h \o a)[i] = IF i <= 2 THEN h[i] ELSE a[i - 2]
  <2>1. /\ Len(h \o a) = Len(h) + Len(a) /\ IsString(h \o a)
        /\ \A i \in 1..(Len(h) + Len(a)) :
             (h \o a)[i] = IF i <= Len(h) THEN h[i] ELSE a[i - Len(h)]
    BY <1>3, StringConcat
  <2> QED BY <1>3, <1>4, <2>1
<1>6. WithLength(a) = h \o a
  BY <1>1 DEF WithLength, x, y
<1>7. (h \o a)[1] = x /\ (h \o a)[2] = y
  <2>1. 1 \in 1..(2 + n) /\ 2 \in 1..(2 + n)
    OBVIOUS
  <2> QED BY <1>2, <1>5, <2>1
<1>8. ASSUME NEW i \in 1..n PROVE (h \o a)[i + 2] = a[i]
  <2>1. i + 2 \in 1..(2 + n) /\ ~(i + 2 <= 2) /\ (i + 2) - 2 = i
    OBVIOUS
  <2> QED BY <1>5, <2>1
<1> QED BY <1>4, <1>5, <1>6, <1>7, <1>8 DEF x, y

(* Padded to whole blocks. *)
LEMMA PadFacts ==
  ASSUME NEW d, IsString(d)
  PROVE  /\ IsString(Pad(d)) /\ Len(Pad(d)) = Blocks(d) * Width /\ Len(d) <= Len(Pad(d))
         /\ \A i \in 1..Len(Pad(d)) : Pad(d)[i] = IF i <= Len(d) THEN d[i] ELSE {}
<1>1. PICK n \in Nat, m \in Nat : n = Len(d) /\ m = Blocks(d) * Width /\ n <= m
  <2>1. Len(d) \in Nat
    BY DEF IsString
  <2>2. Blocks(d) \in Nat /\ Width \in Nat /\ Len(d) <= Blocks(d) * Width
    BY <2>1, BlocksFacts, WidthFacts
  <2> QED BY <2>1, <2>2
<1>2. Pad(d) = [i \in 1..m |-> IF i <= n THEN d[i] ELSE {}]
  BY <1>1 DEF Pad
<1>3. Pad(d) = [i \in 1..m |-> Pad(d)[i]]
  BY <1>2
<1>4. IsString(Pad(d)) /\ Len(Pad(d)) = m
  BY <1>3, StringOf
<1> QED BY <1>1, <1>2, <1>4

(* The frame is a string of whole blocks that begins with the length and the data. *)
LEMMA FramedFacts ==
  ASSUME NEW a, IsString(a)
  PROVE  /\ IsString(Framed(a))
         /\ a = <<>> => Framed(a) = <<>>
         /\ a # <<>> => /\ Len(a) + 2 <= Len(Framed(a))
                        /\ Len(Framed(a)) = Blocks(WithLength(a)) * Width
                        /\ \A i \in 1..(Len(a) + 2) : Framed(a)[i] = WithLength(a)[i]
                        /\ \A i \in 1..Len(Framed(a)) : Len(a) + 2 < i => Framed(a)[i] = {}
<1>1. CASE a = <<>>
  BY <1>1, EmptyString DEF Framed
<1>2. CASE a # <<>>
  <2>1. PICK d : d = WithLength(a)
    OBVIOUS
  <2>2. IsString(d) /\ Len(d) = Len(a) + 2
    BY <2>1, WithLengthFacts
  <2>3. PICK n \in Nat : n = Len(a)
    BY DEF IsString
  <2>4. Framed(a) = Pad(d)
    BY <1>2, <2>1 DEF Framed
  <2>5. /\ IsString(Pad(d)) /\ Len(Pad(d)) = Blocks(d) * Width /\ Len(d) <= Len(Pad(d))
        /\ \A i \in 1..Len(Pad(d)) : Pad(d)[i] = IF i <= Len(d) THEN d[i] ELSE {}
    BY <2>2, PadFacts
  <2>6. PICK m \in Nat : m = Len(Pad(d))
    BY <2>5 DEF IsString
  <2>7. \A i \in 1..(n + 2) : Pad(d)[i] = d[i]
    BY <2>2, <2>3, <2>5, <2>6
  <2>8. \A i \in 1..m : n + 2 < i => Pad(d)[i] = {}
    BY <2>2, <2>3, <2>5, <2>6
  <2> QED BY <1>2, <2>1, <2>2, <2>3, <2>4, <2>5, <2>6, <2>7, <2>8
<1> QED BY <1>1, <1>2

(* The number of blocks depends on the length only. *)
LEMMA BlocksOfLength ==
  ASSUME NEW s, NEW t, Len(s) = Len(t)
  PROVE  Blocks(s) = Blocks(t)
  BY DEF Blocks

(* What is authenticated holds at most pieces of a keystream if the text does. *)
LEMMA InputOnlyKeystream ==
  ASSUME NEW b, NEW p, IsString(b.aad), IsString(p), AddsNoAes(b.aad, <<>>), OnlyKeystream(p)
  PROVE  /\ IsString(Input(b, p)) /\ Blocks(Input(b, p)) \in Nat
         /\ Len(Input(b, p)) = Len(Framed(b.aad)) + Len(p)
         /\ \A i \in 1..(Len(Framed(b.aad)) + Len(p)) :
              Input(b, p)[i] = IF i <= Len(Framed(b.aad)) THEN Framed(b.aad)[i]
                               ELSE p[i - Len(Framed(b.aad))]
         /\ OnlyKeystream(Input(b, p))
         /\ \A j \in 1..Blocks(Input(b, p)) : \A u \in Block(Input(b, p), j)[0] :
              u[1] = "E" => OfCounter(u[4])
<1>1. PICK a, f : a = b.aad /\ f = Framed(a)
  OBVIOUS
<1>2. IsString(f)
  BY <1>1, FramedFacts
<1>3. PICK m \in Nat, n \in Nat, l \in Nat : m = Len(f) /\ n = Len(p) /\ l = Len(a)
  BY <1>1, <1>2 DEF IsString
<1>4. PICK s : s = Input(b, p)
  OBVIOUS
<1>5. /\ IsString(s) /\ Len(s) = m + n
      /\ \A i \in 1..(m + n) : s[i] = IF i <= m THEN f[i] ELSE p[i - m]
  BY <1>1, <1>2, <1>3, <1>4, StringConcat DEF Input
<1>6. ASSUME NEW i \in 1..m, NEW u \in f[i] PROVE u[1] # "E"
  <2>1. a # <<>>
    <3> SUFFICES ASSUME a = <<>> PROVE FALSE
      OBVIOUS
    <3>1. m = 0
      BY <1>1, <1>3, FramedFacts, EmptyString
    <3> QED BY <3>1
  <2>2. /\ \A z \in 1..(l + 2) : f[z] = WithLength(a)[z]
        /\ \A z \in 1..m : l + 2 < z => f[z] = {}
    BY <1>1, <1>3, <2>1, FramedFacts
  <2>3. i \in 1..(l + 2)
    BY <1>6, <2>2
  <2>4. u \in WithLength(a)[i]
    BY <1>6, <2>2, <2>3
  <2>5. /\ WithLength(a)[1] = Num((Len(a) \div ByteBase) % ByteBase)
        /\ WithLength(a)[2] = Num(Len(a) % ByteBase)
        /\ \A z \in 1..l : WithLength(a)[z + 2] = a[z]
    BY <1>1, <1>3, WithLengthFacts
  <2>6. ASSUME NEW x, u \in Num(x) PROVE u[1] # "E"
    <3>1. u = <<"num", x>>
      BY <2>6 DEF Num
    <3>2. u[1] = "num"
      BY <3>1
    <3> QED BY <3>2
  <2>7. CASE i = 1 \/ i = 2
    BY <2>4, <2>5, <2>6, <2>7
  <2>8. CASE ~(i = 1 \/ i = 2)
    <3>1. i - 2 \in 1..l /\ (i - 2) + 2 = i
      BY <2>3, <2>8
    <3>2. u \in a[i - 2]
      BY <2>4, <2>5, <3>1
    <3>3. \A z \in 1..l : \A w \in a[z] : w[1] # "E"
      <4>1. \A z \in 1..l : \A w \in a[z] : w[1] = "E" => \E j \in 1..0 : w \in <<>>[j]
        BY <1>1, <1>3, EmptyString DEF AddsNoAes
      <4>2. \A j \in 1..0 : FALSE
        OBVIOUS
      <4> QED BY <4>1, <4>2
    <3> QED BY <3>1, <3>2, <3>3
  <2> QED BY <2>7, <2>8
<1>7. ASSUME NEW i \in 1..(m + n), NEW u \in s[i], u[1] = "E" PROVE OfCounter(u[4])
  <2>1. CASE i <= m
    <3>1. i \in 1..m /\ u \in f[i]
      BY <1>5, <1>7, <2>1
    <3> QED BY <1>6, <1>7, <3>1
  <2>2. CASE ~(i <= m)
    <3>1. i - m \in 1..n /\ s[i] = p[i - m]
      BY <1>5, <2>2
    <3>2. \A z \in 1..n : \A w \in p[z] : w[1] = "E" => OfCounter(w[4])
      BY <1>3 DEF OnlyKeystream
    <3> QED BY <1>7, <3>1, <3>2
  <2> QED BY <2>1, <2>2
<1>8. OnlyKeystream(s)
  BY <1>5, <1>7 DEF OnlyKeystream
<1>9. Blocks(s) \in Nat
  BY <1>3, <1>5, BlocksFacts
<1>10. ASSUME NEW j \in 1..Blocks(s), NEW u \in Block(s, j)[0], u[1] = "E" PROVE OfCounter(u[4])
  <2>1. PICK z \in Int : z = (j - 1) * Width + 0 /\ z >= 0
    <3>1. PICK w \in Nat : w = Width
      BY WidthFacts
    <3>2. (j - 1) * w \in Nat
      BY <1>9
    <3> QED BY <3>1, <3>2
  <2>2. Block(s, j)[0] = IF z < Len(s) THEN s[z + 1] ELSE {}
    BY <2>1, WidthFacts DEF Block
  <2>3. z < m + n /\ u \in s[z + 1]
    BY <1>5, <1>10, <2>2
  <2>4. z + 1 \in 1..(m + n)
    BY <2>1, <2>3
  <2> QED BY <1>7, <1>10, <2>3, <2>4
<1> QED BY <1>1, <1>3, <1>4, <1>5, <1>8, <1>9, <1>10

---------------------------------------------------------------------------
(* CCM: flags, counters and lengths. *)

(* The lengths that ccmDecrypt accepts, for a text of n bytes. *)
Lengths(b, n) ==
  /\ CcmCalls # {}
  /\ IsString(b.nonce) /\ Len(b.nonce) \in MinNonce..MaxNonce
  /\ IsString(b.aad) /\ Len(b.aad) < ByteBase * ByteBase
  /\ Len(b.tag) \in 4..Width /\ (Len(b.tag) = Width \/ Len(b.tag) % 2 = 0)
  /\ n \in Nat /\ n < Power[LengthBytes(b)]

(* The flags of a counter block have three bits, those of the first block more. *)
LEMMA FlagsFacts ==
  ASSUME NEW b, NEW n, Lengths(b, n)
  PROVE  /\ LengthBytes(b) \in 2..8 /\ Len(b.nonce) \in Nat /\ Len(b.nonce) = Width - 1 - LengthBytes(b)
         /\ \E x \in 1..7 : /\ Len(b.tag) = 2 * x + 2
                            /\ Flags(b) = LengthBytes(b) - 1 + 8 * x + (IF b.aad = <<>> THEN 0 ELSE 64)
         /\ Flags(b) \in Nat /\ Flags(b) > 7
<1>1. PICK w \in Nat, m \in Nat, t \in Nat :
         /\ w = Width /\ m = Len(b.nonce) /\ t = Len(b.tag)
         /\ w <= 16 /\ w % 2 = 0 /\ t <= w /\ t >= 4
  <2>1. CcmCalls # {} /\ Len(b.nonce) \in Nat /\ Len(b.tag) \in 4..Width
    BY DEF Lengths, IsString
  <2>2. Width \in Nat /\ Width <= 16 /\ Width % 2 = 0
    BY <2>1, BytesAssumption, WidthFacts
  <2>3. Len(b.tag) \in Nat /\ Len(b.tag) <= Width /\ Len(b.tag) >= 4
    BY <2>1, <2>2
  <2> QED BY <2>1, <2>2, <2>3
<1>2. m >= MinNonce /\ m <= MaxNonce /\ MinNonce \in Int /\ MaxNonce \in Int
      /\ MaxNonce <= w - 3 /\ w - 1 - MinNonce <= 8
  BY <1>1, BytesAssumption, ModesAssumption DEF Lengths
<1>3. PICK l \in 2..8 : l = LengthBytes(b) /\ m = w - 1 - l
  <2>1. PICK v \in Int : v = w - 1 - m
    OBVIOUS
  <2>2. PICK lo \in Int, hi \in Int : lo = MinNonce /\ hi = MaxNonce
    BY <1>2
  <2>3. m >= lo /\ m <= hi /\ hi <= w - 3 /\ w - 1 - lo <= 8
    BY <1>2, <2>2
  <2>4. v \in 2..8 /\ m = w - 1 - v
    BY <2>1, <2>3
  <2> QED BY <1>1, <2>1, <2>4 DEF LengthBytes
<1>4. t % 2 = 0
  BY <1>1 DEF Lengths
<1>5. PICK x \in 1..7 : x = (t - 2) \div 2 /\ t = 2 * x + 2
  <2>1. PICK h \in Nat : t = 2 * h
    BY <1>4
  <2>2. h - 1 \in 1..7 /\ t - 2 = 2 * (h - 1)
    BY <1>1, <2>1
  <2>3. (2 * (h - 1)) \div 2 = h - 1
    BY <2>1
  <2> QED BY <2>1, <2>2, <2>3
<1>6. PICK z \in {0, 64} : z = IF b.aad = <<>> THEN 0 ELSE 64
  OBVIOUS
<1>7. Flags(b) = l - 1 + 8 * x + z
  BY <1>1, <1>3, <1>5, <1>6 DEF Flags
<1>8. l - 1 + 8 * x + z \in Nat /\ l - 1 + 8 * x + z > 7
  BY <1>6
<1> QED BY <1>1, <1>3, <1>5, <1>6, <1>7, <1>8

(* The first place of a formatted block holds the flags. *)
LEMMA FormattedFirst ==
  ASSUME NEW v, v # 0, NEW nc, NEW number
  PROVE  Formatted(v, nc, number)[0] = {<<"num", v>>}
  BY WidthFacts DEF Formatted, Num

(* AES makes new blocks of the counters. *)
LEMMA KeystreamFacts ==
  ASSUME NEW b, NEW n, Lengths(b, n), NEW counter
  PROVE  /\ OfCounter(CounterBlock(b, counter))
         /\ Keystream(b, counter) = Image("E", b.key, CounterBlock(b, counter))
<1>1. PICK v \in 1..7 : v = LengthBytes(b) - 1
  <2>1. LengthBytes(b) \in 2..8
    BY FlagsFacts
  <2> QED BY <2>1
<1>2. CounterBlock(b, counter)[0] = {<<"num", v>>}
  BY <1>1, FormattedFirst DEF CounterBlock
<1>3. Encrypt(b.key, CounterBlock(b, counter)) = Image("E", b.key, CounterBlock(b, counter))
  BY <1>2, NumberImage
<1> QED BY <1>2, <1>3 DEF OfCounter, Keystream

(* Numbers are told apart by their places. *)
LEMMA NumDetermines ==
  ASSUME NEW x, NEW y, Num(x) = Num(y)
  PROVE  x = y
<1>1. CASE x = 0 \/ y = 0
  BY <1>1 DEF Num
<1>2. CASE ~(x = 0 \/ y = 0)
  <2>1. {<<"num", x>>} = {<<"num", y>>}
    BY <1>2 DEF Num
  <2>2. <<"num", x>> = <<"num", y>>
    BY <2>1
  <2> QED BY <2>2
<1> QED BY <1>1, <1>2

(* A counter block determines the nonce. *)
LEMMA CounterBlockDetermines ==
  ASSUME NEW b, NEW n, Lengths(b, n), NEW g, NEW m, Lengths(g, m),
         CounterBlock(g, 0) = CounterBlock(b, 0)
  PROVE  g.nonce = b.nonce
<1>1. PICK l \in 2..8, h \in Nat : l = LengthBytes(b) /\ h = Len(b.nonce) /\ h = Width - 1 - l
  BY FlagsFacts
<1>2. PICK r \in 2..8, i \in Nat : r = LengthBytes(g) /\ i = Len(g.nonce) /\ i = Width - 1 - r
  BY FlagsFacts
<1>3. Num(l - 1) = Num(r - 1)
  <2>1. CounterBlock(b, 0)[0] = Num(l - 1) /\ CounterBlock(g, 0)[0] = Num(r - 1)
    BY <1>1, <1>2, WidthFacts DEF CounterBlock, Formatted
  <2> QED BY <2>1
<1>4. l = r /\ h = i
  <2>1. l - 1 = r - 1
    BY <1>3, NumDetermines
  <2> QED BY <1>1, <1>2, <2>1
<1>5. ASSUME NEW z \in 1..h PROVE g.nonce[z] = b.nonce[z]
  <2>1. z \in Places /\ z # 0 /\ z <= h
    BY <1>1, WidthFacts
  <2>2. CounterBlock(b, 0)[z] = b.nonce[z]
    BY <1>1, <2>1 DEF CounterBlock, Formatted
  <2>3. CounterBlock(g, 0)[z] = g.nonce[z]
    BY <1>2, <1>4, <2>1 DEF CounterBlock, Formatted
  <2> QED BY <2>2, <2>3
<1>6. b.nonce = [z \in 1..h |-> b.nonce[z]] /\ g.nonce = [z \in 1..h |-> g.nonce[z]]
  BY <1>1, <1>2, <1>4 DEF Lengths, IsString
<1> QED BY <1>5, <1>6

(* The first block determines the length of the text and of the tag, and whether there is *)
(* associated data.                                                                       *)
LEMMA FirstBlockDetermines ==
  ASSUME NEW b, NEW q, Lengths(b, Len(q)), NEW g, NEW p, Lengths(g, Len(p)),
         g.nonce = b.nonce, FirstBlock(g, p) = FirstBlock(b, q)
  PROVE  Len(p) = Len(q) /\ Len(g.tag) = Len(b.tag) /\ (g.aad = <<>> <=> b.aad = <<>>)
<1>1. PICK l \in 2..8, h \in Nat, w \in Nat :
         /\ w = Width /\ l = LengthBytes(b) /\ h = Len(b.nonce) /\ h = w - 1 - l
  <2>1. LengthBytes(b) \in 2..8 /\ Len(b.nonce) \in Nat /\ Len(b.nonce) = Width - 1 - LengthBytes(b)
    BY FlagsFacts
  <2> QED BY <2>1, WidthFacts
<1>2. l = LengthBytes(g) /\ h = Len(g.nonce)
  BY <1>1 DEF LengthBytes
<1>3. PICK x \in 1..7, c \in {0, 64} :
         /\ c = IF b.aad = <<>> THEN 0 ELSE 64
         /\ Len(b.tag) = 2 * x + 2 /\ Flags(b) = l - 1 + 8 * x + c
  <2>1. PICK c \in {0, 64} : c = IF b.aad = <<>> THEN 0 ELSE 64
    OBVIOUS
  <2> QED BY <1>1, <2>1, FlagsFacts
<1>4. PICK y \in 1..7, d \in {0, 64} :
         /\ d = IF g.aad = <<>> THEN 0 ELSE 64
         /\ Len(g.tag) = 2 * y + 2 /\ Flags(g) = l - 1 + 8 * y + d
  <2>1. PICK d \in {0, 64} : d = IF g.aad = <<>> THEN 0 ELSE 64
    OBVIOUS
  <2> QED BY <1>2, <2>1, FlagsFacts
<1>5. Flags(g) = Flags(b)
  <2>1. FirstBlock(g, p)[0] = Num(Flags(g)) /\ FirstBlock(b, q)[0] = Num(Flags(b))
    BY WidthFacts DEF FirstBlock, Formatted
  <2> QED BY <2>1, NumDetermines
<1>6. x = y /\ c = d
  <2>1. l - 1 + 8 * x + c = l - 1 + 8 * y + d
    BY <1>3, <1>4, <1>5
  <2> QED BY <2>1
<1>7. g.aad = <<>> <=> b.aad = <<>>
  BY <1>3, <1>4, <1>6
<1>8. PICK i \in Nat, j \in Nat :
         i = Len(p) /\ j = Len(q) /\ i < Power[l] /\ j < Power[l]
  BY <1>1, <1>2 DEF Lengths
<1>9. ASSUME NEW e \in 0..(l - 1)
      PROVE  (i \div Power[e]) % ByteBase = (j \div Power[e]) % ByteBase
  <2>1. PICK z \in Int : z = w - 1 - e
    BY <1>1
  <2>2. z \in Places /\ z # 0 /\ ~(z <= h) /\ w - 1 - z = e
    BY <1>1, <2>1, WidthFacts
  <2>3. FirstBlock(g, p)[z] = Num((i \div Power[e]) % ByteBase)
    BY <1>1, <1>2, <1>8, <2>2 DEF FirstBlock, Formatted
  <2>4. FirstBlock(b, q)[z] = Num((j \div Power[e]) % ByteBase)
    BY <1>1, <1>8, <2>2 DEF FirstBlock, Formatted
  <2> QED BY <2>3, <2>4, NumDetermines
<1>10. i = j
  <2>1. l \in Nat
    OBVIOUS
  <2> QED BY <1>8, <1>9, <2>1, DigitsDetermine
<1> QED BY <1>3, <1>4, <1>6, <1>7, <1>8, <1>10

(* The code of a message that AES had no hand in. *)
LEMMA CodeOfMessage ==
  ASSUME NEW b, NEW p, Lengths(b, Len(p)), IsString(p), AddsNoAes(b.aad, <<>>), OnlyKeystream(p)
  PROVE  Authenticates(Macs(b, p), Fed(b, p), b.key, Input(b, p), Blocks(Input(b, p)))
<1>1. PICK X, Y, s, f, n : X = Macs(b, p) /\ Y = Fed(b, p) /\ s = Input(b, p) /\ f = FirstBlock(b, p)
                           /\ n = Blocks(s)
  OBVIOUS
<1>2. IsString(b.aad)
  BY DEF Lengths
<1>3. n \in Nat /\ \A j \in 1..n : \A u \in Block(s, j)[0] : u[1] = "E" => OfCounter(u[4])
  BY <1>1, <1>2, InputOnlyKeystream
<1>4. /\ X[0] = Encrypt(b.key, f)
      /\ \A j \in 1..n : X[j] = Encrypt(b.key, Xor(X[j - 1], Block(s, j)))
  BY <1>1, <1>3, MacProperties DEF Macs
<1>5. Y = [j \in 0..n |-> IF j = 0 THEN f ELSE Xor(X[j - 1], Block(s, j))]
  BY <1>1 DEF Fed
<1>6. Y[0] = f /\ \A j \in 1..n : Y[j] = Xor(X[j - 1], Block(s, j))
  <2>1. 0 \in 0..n /\ \A j \in 1..n : j \in 0..n /\ j # 0
    BY <1>3
  <2> QED BY <1>5, <2>1
<1>7. \A j \in 0..n : X[j] = Encrypt(b.key, Y[j])
  <2>1. \A j \in 0..n : j = 0 \/ j \in 1..n
    BY <1>3
  <2> QED BY <1>4, <1>6, <2>1
<1>8. OfLength(Y[0])
  <2>1. PICK v \in Nat : v = Flags(b) /\ v > 7
    BY FlagsFacts
  <2>2. v # 0
    BY <2>1
  <2>3. f[0] = {<<"num", v>>}
    BY <1>1, <2>1, <2>2, FormattedFirst DEF FirstBlock
  <2> QED BY <1>6, <2>1, <2>3 DEF OfLength
<1>9. Authenticates(X, Y, b.key, s, n)
  BY <1>3, <1>6, <1>7, <1>8 DEF Authenticates
<1> QED BY <1>1, <1>9

(* A place of the tag holds what AES made of the last block of the code and of counter 0. *)
LEMMA TagHolds ==
  ASSUME NEW b, NEW p, Lengths(b, Len(p)), IsString(p), AddsNoAes(b.aad, <<>>), OnlyKeystream(p),
         NEW y, y = Fed(b, p)[Blocks(Input(b, p))], NEW z, z = CounterBlock(b, 0)
  PROVE  /\ ~OfCounter(y) /\ OfCounter(z)
         /\ \A j \in 1..Len(b.tag) : TagOf(b, p)[j] = {<<"E", j - 1, b.key, y>>, <<"E", j - 1, b.key, z>>}
<1>1. PICK X, Y, s, n : X = Macs(b, p) /\ Y = Fed(b, p) /\ s = Input(b, p) /\ n = Blocks(s)
  OBVIOUS
<1>2. Authenticates(X, Y, b.key, s, n)
  BY <1>1, CodeOfMessage
<1>3. n \in 0..n
  BY <1>2 DEF Authenticates
<1>4. ~OfCounter(Y[n]) /\ X[n] = Image("E", b.key, Y[n])
  BY <1>2, <1>3, CodeHoldsImages
<1>5. OfCounter(z) /\ Keystream(b, 0) = Image("E", b.key, z)
  BY KeystreamFacts
<1>6. y # z
  BY <1>1, <1>4, <1>5
<1>7. ASSUME NEW j \in 1..Len(b.tag)
      PROVE  TagOf(b, p)[j] = {<<"E", j - 1, b.key, y>>, <<"E", j - 1, b.key, z>>}
  <2>1. j - 1 \in Places
    <3>1. PICK t \in Int, w \in Int : t = Len(b.tag) /\ w = Width /\ t <= w
      BY WidthFacts DEF Lengths
    <3> QED BY <3>1, WidthFacts
  <2>2. TagOf(b, p)[j] = Sum(X[n][j - 1], Keystream(b, 0)[j - 1])
    BY <1>1, <2>1 DEF TagOf, HeadOf, Xor
  <2> DEFINE u == <<"E", j - 1, b.key, y>>
             v == <<"E", j - 1, b.key, z>>
  <2>3. X[n][j - 1] = {u} /\ Keystream(b, 0)[j - 1] = {v}
    BY <1>1, <1>4, <1>5, <2>1 DEF Image
  <2>4. u # v
    BY <1>6
  <2> HIDE DEF u, v
  <2>5. Sum({u}, {v}) = {u, v}
    BY <2>4 DEF Sum
  <2> QED BY <2>2, <2>3, <2>5 DEF u, v
<1> QED BY <1>1, <1>4, <1>5, <1>7

(* Two bytes hold a length below the square of their base. *)
LEMMA TwoDigitsDetermine ==
  ASSUME NEW d \in Nat \ {0}, NEW x \in Nat, NEW y \in Nat, x < d * d, y < d * d,
         (x \div d) % d = (y \div d) % d, x % d = y % d
  PROVE  x = y
<1>1. PICK q \in Nat, r \in Nat : q = x \div d /\ r = x % d /\ x = d * q + r
  OBVIOUS
<1>2. PICK s \in Nat, t \in Nat : s = y \div d /\ t = y % d /\ y = d * s + t
  OBVIOUS
<1>3. q < d
  <2> SUFFICES ASSUME d <= q PROVE FALSE
    OBVIOUS
  <2>1. d * d <= d * q
    OBVIOUS
  <2>2. PICK a \in Int, c \in Int : a = d * d /\ c = d * q
    OBVIOUS
  <2> QED BY <1>1, <2>1, <2>2
<1>4. s < d
  <2> SUFFICES ASSUME d <= s PROVE FALSE
    OBVIOUS
  <2>1. d * d <= d * s
    OBVIOUS
  <2>2. PICK a \in Int, c \in Int : a = d * d /\ c = d * s
    OBVIOUS
  <2> QED BY <1>2, <2>1, <2>2
<1>5. q % d = q /\ s % d = s
  BY <1>3, <1>4
<1>6. q = s /\ r = t
  BY <1>1, <1>2, <1>5
<1> QED BY <1>1, <1>2, <1>6

(* The first place of a block of a string, and the second. *)
LEMMA FirstPlaces ==
  ASSUME NEW s, Len(s) \in Nat, Len(s) >= 2
  PROVE  Block(s, 1)[0] = s[1] /\ Block(s, 1)[1] = s[2] /\ 1 \in 1..Blocks(s)
<1>1. PICK w \in Nat, n \in Nat : w = Width /\ w >= 2 /\ n = Len(s)
  BY ModesAssumption
<1>2. 0 \in Places /\ 1 \in Places
  BY <1>1 DEF Places
<1>3. (1 - 1) * w + 0 = 0 /\ (1 - 1) * w + 1 = 1
  BY <1>1
<1>4. Block(s, 1)[0] = s[1] /\ Block(s, 1)[1] = s[2]
  BY <1>1, <1>2, <1>3 DEF Block
<1>5. PICK m \in Nat : m = Blocks(s) /\ n <= m * w
  BY <1>1, BlocksFacts
<1>6. m # 0
  BY <1>1, <1>5
<1> QED BY <1>4, <1>5, <1>6

(* Equal blocks are blocks of equal texts and associated data. *)
LEMMA InputDetermines ==
  ASSUME NEW b, NEW q, Lengths(b, Len(q)), IsString(q), AddsNoAes(b.aad, <<>>), OnlyKeystream(q),
         NEW g, NEW p, Lengths(g, Len(p)), IsString(p), AddsNoAes(g.aad, <<>>), OnlyKeystream(p),
         Len(p) = Len(q), g.aad = <<>> <=> b.aad = <<>>,
         \A j \in 1..Blocks(Input(g, p)) : Block(Input(g, p), j) = Block(Input(b, q), j)
  PROVE  p = q /\ g.aad = b.aad
<1>1. PICK s, t, e, f : /\ s = Input(g, p) /\ t = Input(b, q)
                        /\ e = Framed(g.aad) /\ f = Framed(b.aad)
  OBVIOUS
<1>2. IsString(g.aad) /\ IsString(b.aad) /\ IsString(e) /\ IsString(f)
  BY <1>1, FramedFacts DEF Lengths
<1>3. PICK n \in Nat, x \in Nat, y \in Nat :
         /\ n = Len(p) /\ n = Len(q) /\ x = Len(g.aad) /\ y = Len(b.aad)
  BY <1>2 DEF IsString
<1>4. PICK k1 \in Nat, k2 \in Nat : k1 = Len(e) /\ k2 = Len(f)
  BY <1>2 DEF IsString
<1>5. /\ IsString(s) /\ Len(s) = k1 + n
      /\ \A i \in 1..(k1 + n) : s[i] = IF i <= k1 THEN e[i] ELSE p[i - k1]
  <2>1. s = e \o p
    BY <1>1 DEF Input
  <2>2. /\ Len(e \o p) = Len(e) + Len(p) /\ IsString(e \o p)
        /\ \A i \in 1..(Len(e) + Len(p)) :
             (e \o p)[i] = IF i <= Len(e) THEN e[i] ELSE p[i - Len(e)]
    BY <1>2, StringConcat
  <2> QED BY <1>3, <1>4, <2>1, <2>2
<1>6. /\ IsString(t) /\ Len(t) = k2 + n
      /\ \A i \in 1..(k2 + n) : t[i] = IF i <= k2 THEN f[i] ELSE q[i - k2]
  <2>1. t = f \o q
    BY <1>1 DEF Input
  <2>2. /\ Len(f \o q) = Len(f) + Len(q) /\ IsString(f \o q)
        /\ \A i \in 1..(Len(f) + Len(q)) :
             (f \o q)[i] = IF i <= Len(f) THEN f[i] ELSE q[i - Len(f)]
    BY <1>2, StringConcat
  <2> QED BY <1>3, <1>4, <2>1, <2>2
<1>7. ASSUME k1 = k2 PROVE s = t /\ p = q
  <2>1. s = t
    BY <1>1, <1>5, <1>6, <1>7, BlocksDetermine
  <2>2. ASSUME NEW i \in 1..n PROVE p[i] = q[i]
    <3>1. i + k1 \in 1..(k1 + n) /\ ~(i + k1 <= k1) /\ (i + k1) - k1 = i
      OBVIOUS
    <3>2. s[i + k1] = p[i] /\ t[i + k1] = q[i]
      BY <1>5, <1>6, <1>7, <3>1
    <3> QED BY <2>1, <3>2
  <2>3. p = [i \in 1..n |-> p[i]] /\ q = [i \in 1..n |-> q[i]]
    BY <1>3 DEF IsString
  <2> QED BY <2>1, <2>2, <2>3
<1>8. CASE b.aad = <<>>
  <2>1. g.aad = <<>>
    BY <1>8
  <2>2. e = f
    BY <1>1, <1>8, <2>1
  <2> QED BY <1>4, <1>7, <1>8, <2>1, <2>2
<1>9. CASE b.aad # <<>>
  <2>0. g.aad # <<>>
    BY <1>9
  <2>1. /\ x + 2 <= k1 /\ k1 = Blocks(WithLength(g.aad)) * Width
        /\ \A i \in 1..(x + 2) : e[i] = WithLength(g.aad)[i]
    BY <1>1, <1>2, <1>3, <1>4, <2>0, FramedFacts
  <2>2. /\ y + 2 <= k2 /\ k2 = Blocks(WithLength(b.aad)) * Width
        /\ \A i \in 1..(y + 2) : f[i] = WithLength(b.aad)[i]
    BY <1>1, <1>2, <1>3, <1>4, <1>9, FramedFacts
  <2>3. /\ Len(WithLength(g.aad)) = x + 2
        /\ WithLength(g.aad)[1] = Num((x \div ByteBase) % ByteBase)
        /\ WithLength(g.aad)[2] = Num(x % ByteBase)
        /\ \A i \in 1..x : WithLength(g.aad)[i + 2] = g.aad[i]
    BY <1>2, <1>3, WithLengthFacts
  <2>4. /\ Len(WithLength(b.aad)) = y + 2
        /\ WithLength(b.aad)[1] = Num((y \div ByteBase) % ByteBase)
        /\ WithLength(b.aad)[2] = Num(y % ByteBase)
        /\ \A i \in 1..y : WithLength(b.aad)[i + 2] = b.aad[i]
    BY <1>2, <1>3, WithLengthFacts
  <2>5. \A i \in 1..(x + 2) : s[i] = WithLength(g.aad)[i]
    BY <1>5, <2>1
  <2>6. \A i \in 1..(y + 2) : t[i] = WithLength(b.aad)[i]
    BY <1>6, <2>2
  <2>7. s[1] = t[1] /\ s[2] = t[2]
    <3>1. Len(s) \in Nat /\ Len(s) >= 2 /\ Len(t) \in Nat /\ Len(t) >= 2
      BY <1>5, <1>6, <2>1, <2>2
    <3>2. Block(s, 1)[0] = s[1] /\ Block(s, 1)[1] = s[2] /\ 1 \in 1..Blocks(s)
      BY <3>1, FirstPlaces
    <3>3. Block(t, 1)[0] = t[1] /\ Block(t, 1)[1] = t[2]
      BY <3>1, FirstPlaces
    <3>4. Block(s, 1) = Block(t, 1)
      BY <1>1, <3>2
    <3> QED BY <3>2, <3>3, <3>4
  <2>8. x = y
    <3>1. 1 \in 1..(x + 2) /\ 2 \in 1..(x + 2) /\ 1 \in 1..(y + 2) /\ 2 \in 1..(y + 2)
      OBVIOUS
    <3>2. /\ Num((x \div ByteBase) % ByteBase) = Num((y \div ByteBase) % ByteBase)
          /\ Num(x % ByteBase) = Num(y % ByteBase)
      BY <2>3, <2>4, <2>5, <2>6, <2>7, <3>1
    <3>3. (x \div ByteBase) % ByteBase = (y \div ByteBase) % ByteBase /\ x % ByteBase = y % ByteBase
      BY <3>2, NumDetermines
    <3>4. PICK d \in Nat \ {0} : d = ByteBase /\ x < d * d /\ y < d * d
      BY <1>3, ModesAssumption DEF Lengths
    <3> QED BY <3>3, <3>4, TwoDigitsDetermine
  <2>9. k1 = k2
    <3>1. Blocks(WithLength(g.aad)) = Blocks(WithLength(b.aad))
      BY <2>3, <2>4, <2>8, BlocksOfLength
    <3> QED BY <2>1, <2>2, <3>1
  <2>10. s = t /\ p = q
    BY <1>7, <2>9
  <2>11. ASSUME NEW i \in 1..x PROVE g.aad[i] = b.aad[i]
    <3>1. i + 2 \in 1..(x + 2) /\ i + 2 \in 1..(y + 2) /\ i \in 1..y
      BY <2>8
    <3>2. s[i + 2] = g.aad[i]
      BY <2>3, <2>5, <3>1
    <3>3. t[i + 2] = b.aad[i]
      BY <2>4, <2>6, <3>1
    <3> QED BY <2>10, <3>2, <3>3
  <2>12. g.aad = [i \in 1..x |-> g.aad[i]] /\ b.aad = [i \in 1..x |-> b.aad[i]]
    BY <1>2, <1>3, <2>8 DEF IsString
  <2>13. g.aad = b.aad
    BY <2>11, <2>12
  <2> QED BY <2>10, <2>13
<1> QED BY <1>8, <1>9

(* Tags that AES makes are tags of the same key, nonce, text and associated data. *)
LEMMA TagDetermines ==
  ASSUME NEW b, NEW q, Lengths(b, Len(q)), IsString(q), AddsNoAes(b.aad, <<>>), OnlyKeystream(q),
         NEW g, NEW p, Lengths(g, Len(p)), IsString(p), AddsNoAes(g.aad, <<>>), OnlyKeystream(p),
         AddsNoAes(TagOf(g, p), TagOf(b, q)),
         Len(TagOf(g, p)) = Len(g.tag), Len(TagOf(b, q)) = Len(b.tag)
  PROVE  /\ g.key = b.key /\ g.nonce = b.nonce /\ g.aad = b.aad /\ Len(g.tag) = Len(b.tag)
         /\ p = q
<1>1. PICK y, z, v, w : /\ y = Fed(g, p)[Blocks(Input(g, p))] /\ z = CounterBlock(g, 0)
                        /\ v = Fed(b, q)[Blocks(Input(b, q))] /\ w = CounterBlock(b, 0)
  OBVIOUS
<1>2. /\ ~OfCounter(y) /\ OfCounter(z)
      /\ \A j \in 1..Len(g.tag) : TagOf(g, p)[j] = {<<"E", j - 1, g.key, y>>, <<"E", j - 1, g.key, z>>}
  BY <1>1, TagHolds
<1>3. /\ ~OfCounter(v) /\ OfCounter(w)
      /\ \A j \in 1..Len(b.tag) : TagOf(b, q)[j] = {<<"E", j - 1, b.key, v>>, <<"E", j - 1, b.key, w>>}
  BY <1>1, TagHolds
<1>4. 1 \in 1..Len(g.tag)
  <2>1. PICK i \in Int : i = Len(g.tag) /\ i >= 4
    BY WidthFacts DEF Lengths
  <2> QED BY <2>1
<1>5. ASSUME NEW u \in TagOf(g, p)[1], u[1] = "E"
      PROVE  \E j \in 1..Len(b.tag) : u = <<"E", j - 1, b.key, v>> \/ u = <<"E", j - 1, b.key, w>>
  <2>1. PICK j \in 1..Len(b.tag) : u \in TagOf(b, q)[j]
    BY <1>4, <1>5 DEF AddsNoAes
  <2> QED BY <1>3, <2>1
<1>6. g.key = b.key /\ y = v
  <2> DEFINE u == <<"E", 1 - 1, g.key, y>>
  <2>1. u \in TagOf(g, p)[1] /\ u[1] = "E"
    BY <1>2, <1>4
  <2>2. PICK j \in 1..Len(b.tag) : u = <<"E", j - 1, b.key, v>> \/ u = <<"E", j - 1, b.key, w>>
    BY <1>5, <2>1
  <2>3. g.key = b.key /\ (y = v \/ y = w)
    BY <2>2
  <2> QED BY <1>2, <1>3, <2>3
<1>7. z = w
  <2> DEFINE u == <<"E", 1 - 1, g.key, z>>
  <2>1. u \in TagOf(g, p)[1] /\ u[1] = "E"
    BY <1>2, <1>4
  <2>2. PICK j \in 1..Len(b.tag) : u = <<"E", j - 1, b.key, v>> \/ u = <<"E", j - 1, b.key, w>>
    BY <1>5, <2>1
  <2>3. z = v \/ z = w
    BY <2>2
  <2> QED BY <1>2, <1>3, <2>3
<1>8. g.nonce = b.nonce
  BY <1>1, <1>7, CounterBlockDetermines
<1>9. PICK X, Y, s, n : X = Macs(g, p) /\ Y = Fed(g, p) /\ s = Input(g, p) /\ n = Blocks(s)
  OBVIOUS
<1>10. PICK X2, Y2, s2, n2 : X2 = Macs(b, q) /\ Y2 = Fed(b, q) /\ s2 = Input(b, q) /\ n2 = Blocks(s2)
  OBVIOUS
<1>11. Authenticates(X, Y, g.key, s, n)
  BY <1>9, CodeOfMessage
<1>12. Authenticates(X2, Y2, b.key, s2, n2)
  BY <1>10, CodeOfMessage
<1>13. Y[n] = Y2[n2]
  BY <1>1, <1>6, <1>9, <1>10
<1>14. Y[0] = Y2[0] /\ \A j \in 1..n : Block(s, j) = Block(s2, j)
  BY <1>11, <1>12, <1>13, CodeDetermines
<1>15. FirstBlock(g, p) = FirstBlock(b, q)
  <2>1. n \in Nat /\ n2 \in Nat
    BY <1>11, <1>12 DEF Authenticates
  <2>2. Y[0] = FirstBlock(g, p)
    BY <1>9, <2>1 DEF Fed
  <2>3. Y2[0] = FirstBlock(b, q)
    BY <1>10, <2>1 DEF Fed
  <2> QED BY <1>14, <2>2, <2>3
<1>16. Len(p) = Len(q) /\ Len(g.tag) = Len(b.tag) /\ (g.aad = <<>> <=> b.aad = <<>>)
  BY <1>8, <1>15, FirstBlockDetermines
<1>17. \A j \in 1..Blocks(Input(g, p)) : Block(Input(g, p), j) = Block(Input(b, q), j)
  BY <1>9, <1>10, <1>14
<1>18. p = q /\ g.aad = b.aad
  BY <1>16, <1>17, InputDetermines
<1> QED BY <1>6, <1>8, <1>16, <1>18

---------------------------------------------------------------------------
(* CCM: the text under the keystream. *)

Crypt(b, s) ==
  [i \in 1..Len(s) |-> Sum(s[i], Keystream(b, (i - 1) \div Width + 1)[(i - 1) % Width])]

(* It is as long as the text. *)
LEMMA CryptFacts ==
  ASSUME NEW b, NEW s, IsString(s)
  PROVE  IsString(Crypt(b, s)) /\ Len(Crypt(b, s)) = Len(s)
<1>1. PICK n \in Nat : n = Len(s)
  BY DEF IsString
<1>2. Crypt(b, s) = [i \in 1..n |-> Crypt(b, s)[i]]
  BY <1>1 DEF Crypt
<1> QED BY <1>1, <1>2, StringOf

(* Put under the same keystream again, it is the text. *)
LEMMA CryptTwice ==
  ASSUME NEW b, NEW s, IsString(s)
  PROVE  Crypt(b, Crypt(b, s)) = s
<1>1. PICK n \in Nat : n = Len(s)
  BY DEF IsString
<1>2. PICK t : t = Crypt(b, s)
  OBVIOUS
<1>3. Len(t) = n /\ Len(s) = n
  BY <1>1, <1>2, CryptFacts
<1>4. PICK key : key = [i \in 1..n |-> Keystream(b, (i - 1) \div Width + 1)[(i - 1) % Width]]
  OBVIOUS
<1>5. \A i \in 1..n : t[i] = Sum(s[i], key[i])
  BY <1>1, <1>2, <1>4 DEF Crypt
<1>6. Crypt(b, t) = [i \in 1..n |-> Sum(t[i], key[i])]
  BY <1>3, <1>4 DEF Crypt
<1>7. \A x, y : Sum(Sum(x, y), y) = x
  BY DEF Sum
<1>8. Crypt(b, t) = [i \in 1..n |-> s[i]]
  BY <1>5, <1>6, <1>7
<1> QED BY <1>1, <1>2, <1>8 DEF IsString

(* The keystream, the code and the tag depend on the key, the nonce, the data *)
(* and the length of the tag only.                                           *)
LEMMA SameArguments ==
  ASSUME NEW b, NEW g, NEW p, g.key = b.key, g.nonce = b.nonce
  PROVE  /\ Crypt(g, p) = Crypt(b, p)
         /\ g.aad = b.aad /\ Len(g.tag) = Len(b.tag) => TagOf(g, p) = TagOf(b, p)
<1>1. \A c : Keystream(g, c) = Keystream(b, c)
  BY DEF Keystream, CounterBlock, LengthBytes
<1>2. Crypt(g, p) = Crypt(b, p)
  BY <1>1 DEF Crypt
<1>3. ASSUME g.aad = b.aad, Len(g.tag) = Len(b.tag) PROVE TagOf(g, p) = TagOf(b, p)
  <2>1. Input(g, p) = Input(b, p)
    BY <1>3 DEF Input
  <2>2. FirstBlock(g, p) = FirstBlock(b, p)
    BY <1>3 DEF FirstBlock, Flags, LengthBytes
  <2>3. Macs(g, p) = Macs(b, p)
    BY <2>1, <2>2 DEF Macs
  <2> QED BY <1>1, <1>3, <2>1, <2>3 DEF TagOf
<1> QED BY <1>2, <1>3

(* What Seal made of the text of a call. *)
LEMMA BoxFacts ==
  ASSUME NEW c \in CcmCalls
  PROVE  /\ IsString(c.text) /\ OnlyKeystream(c.text)
         /\ Lengths(c.box, Len(c.text)) /\ AddsNoAes(c.box.aad, <<>>)
         /\ c.box = [key |-> c.box.key, nonce |-> c.box.nonce, aad |-> c.box.aad,
                     ciphertext |-> c.box.ciphertext, tag |-> c.box.tag]
         /\ c.box.ciphertext = Crypt(c.box, c.text)
         /\ c.box.tag = TagOf(c.box, c.text)
<1>1. PICK b, q : b = c.box /\ q = c.text
  OBVIOUS
<1>2. /\ b = Seal(b.key, b.nonce, q, b.aad, Len(b.tag))
      /\ Len(b.nonce) \in MinNonce..MaxNonce
      /\ Len(b.tag) \in 4..Width /\ (Len(b.tag) = Width \/ Len(b.tag) % 2 = 0)
      /\ Len(q) < Power[Width - 1 - Len(b.nonce)]
  BY <1>1, SealedAssumption
<1>3. IsString(q) /\ Len(q) \in Nat
  BY <1>1, CallsAssumption DEF IsString
<1>4. /\ AddsNoAes(q, <<>>) /\ AddsNoAes(b.aad, <<>>)
      /\ Len(b.aad) < ByteBase * ByteBase /\ IsString(b.nonce) /\ IsString(b.aad)
  BY <1>1, ChangesAssumption
<1>5. OnlyKeystream(q)
  <2>1. \A i \in 1..Len(q) : \A u \in q[i] : u[1] # "E"
    <3>1. ~\E j \in 1..Len(<<>>) : TRUE
      BY EmptyString
    <3> QED BY <1>4, <3>1 DEF AddsNoAes
  <2> QED BY <2>1 DEF OnlyKeystream
<1>6. Lengths(b, Len(q))
  BY <1>2, <1>3, <1>4 DEF Lengths, LengthBytes
<1>7. PICK t : t = Len(b.tag)
  OBVIOUS
<1> DEFINE sealed == Seal(b.key, b.nonce, q, b.aad, t)
<1>8. sealed = [key |-> b.key, nonce |-> b.nonce, aad |-> b.aad,
                ciphertext |-> sealed.ciphertext, tag |-> sealed.tag]
  BY DEF Seal
<1>9. sealed.ciphertext = Crypt(b, q)
  BY DEF Seal, Crypt, Keystream, CounterBlock, LengthBytes
<1>10. sealed.tag = TagOf(b, q)
  BY <1>7 DEF Seal, TagOf, Keystream, CounterBlock, LengthBytes, Macs, Mac, IsMac, FirstBlock,
              Flags, Input, Framed, WithLength
<1>11. b = sealed
  BY <1>2, <1>7
<1> HIDE DEF sealed
<1> QED BY <1>1, <1>3, <1>4, <1>5, <1>6, <1>8, <1>9, <1>10, <1>11

---------------------------------------------------------------------------
(* CCM: the arguments that pass the checks. *)

Accepted == call \in CcmCalls /\ CcmError = "nil"

(* The ciphertext under the keystream of the arguments. *)
Opened == Crypt(call.given, ciphertext)

(* Their lengths are valid. *)
LEMMA AcceptedLengths ==
  ASSUME Accepted
  PROVE  /\ IsString(ciphertext) /\ IsString(aad) /\ IsString(tag) /\ IsString(Opened)
         /\ Len(Opened) = Len(ciphertext) /\ Len(Opened) \in Nat
         /\ Lengths(call.given, Len(Opened)) /\ L = LengthBytes(call.given)
         /\ AddsNoAes(aad, <<>>)
         /\ Len(ciphertext) < Power[L] /\ Power[L] \in Nat
<1>1. /\ IsString(ciphertext) /\ IsString(aad) /\ IsString(tag) /\ IsString(nonce)
      /\ AddsNoAes(aad, <<>>) /\ Len(aad) < ByteBase * ByteBase
  BY CallsAssumption, ChangesAssumption DEF Accepted, ciphertext, aad, tag, nonce
<1>2. IsString(Opened) /\ Len(Opened) = Len(ciphertext)
  BY <1>1, CryptFacts DEF Opened
<1>3. PICK m \in Nat, t \in Nat, n \in Nat : m = Len(nonce) /\ t = Len(tag) /\ n = Len(ciphertext)
  BY <1>1 DEF IsString
<1>4. /\ ~(m < MinNonce \/ m > MaxNonce)
      /\ ~(t # Width /\ (t < 4 \/ t > Width \/ t % 2 # 0))
      /\ ~(n >= MessageLimit)
  BY <1>3 DEF Accepted, CcmError
<1>5. m \in MinNonce..MaxNonce /\ Width - 1 - m \in Nat
  BY <1>4, ModesAssumption
<1>6. t \in 4..Width /\ (t = Width \/ t % 2 = 0)
  <2>1. CASE t = Width
    <3>1. CcmCalls # {} /\ Width - 3 >= 1
      BY ModesAssumption DEF Accepted
    <3>2. 4 <= Width
      BY <3>1, WidthFacts
    <3> QED BY <2>1, <3>2, WidthFacts
  <2>2. CASE t # Width
    BY <1>4, <2>2, WidthFacts
  <2> QED BY <2>1, <2>2
<1>7. L = LengthBytes(call.given) /\ L \in Nat
  BY <1>3, <1>5 DEF L, LengthBytes, nonce
<1>8. PICK e \in Nat, p \in Nat : e = L /\ p = Power[L]
  BY <1>7, PowerFacts
<1>9. n < p
  <2>1. CASE e >= WordBytes
    <3>1. MessageLimit = 0
      BY <1>8, <2>1 DEF MessageLimit
    <3> QED BY <1>4, <3>1
  <2>2. CASE ~(e >= WordBytes)
    <3>1. MessageLimit = p
      BY <1>8, <2>2 DEF MessageLimit
    <3> QED BY <1>4, <3>1
  <2> QED BY <2>1, <2>2
<1>10. Lengths(call.given, n)
  <2>1. CcmCalls # {}
    BY DEF Accepted
  <2>2. Len(call.given.nonce) \in MinNonce..MaxNonce /\ IsString(call.given.nonce)
    BY <1>1, <1>3, <1>5 DEF nonce
  <2>3. IsString(call.given.aad) /\ Len(call.given.aad) < ByteBase * ByteBase
    BY <1>1 DEF aad
  <2>4. Len(call.given.tag) \in 4..Width /\ (Len(call.given.tag) = Width \/ Len(call.given.tag) % 2 = 0)
    BY <1>3, <1>6 DEF tag
  <2>5. n \in Nat /\ n < Power[LengthBytes(call.given)]
    BY <1>7, <1>8, <1>9
  <2> QED BY <2>1, <2>2, <2>3, <2>4, <2>5 DEF Lengths
<1> QED BY <1>1, <1>2, <1>3, <1>7, <1>8, <1>9, <1>10

(* Of what AES made, what is opened holds at most pieces of keystreams. *)
LEMMA OpenedOnlyKeystream ==
  ASSUME Accepted
  PROVE  OnlyKeystream(Opened)
<1>1. PICK g, b, q, t : g = call.given /\ b = call.box /\ q = call.text /\ t = ciphertext
  OBVIOUS
<1>2. PICK n \in Nat, m \in Nat : n = Len(t) /\ m = Len(q)
  BY <1>1, AcceptedLengths, BoxFacts DEF Accepted, IsString
<1>3. Lengths(g, Len(Opened)) /\ Lengths(b, Len(q)) /\ OnlyKeystream(q) /\ Len(Opened) = n
  BY <1>1, <1>2, AcceptedLengths, BoxFacts DEF Accepted
<1>4. ASSUME NEW a, NEW x, Lengths(a, x), NEW j \in Nat \ {0}, NEW u,
             u \in Keystream(a, (j - 1) \div Width + 1)[(j - 1) % Width]
      PROVE  OfCounter(u[4])
  <2>1. (j - 1) % Width \in Places
    BY WidthFacts DEF Places
  <2>2. PICK counter : counter = (j - 1) \div Width + 1
    OBVIOUS
  <2>3. /\ OfCounter(CounterBlock(a, counter))
        /\ Keystream(a, counter) = Image("E", a.key, CounterBlock(a, counter))
    BY <1>4, KeystreamFacts
  <2>4. PICK z : z = CounterBlock(a, counter)
    OBVIOUS
  <2>5. u = <<"E", (j - 1) % Width, a.key, z>>
    BY <1>4, <2>1, <2>2, <2>3, <2>4 DEF Image
  <2>6. u[4] = z
    BY <2>5
  <2> QED BY <2>3, <2>4, <2>6
<1>5. ASSUME NEW j \in 1..m, NEW u \in call.box.ciphertext[j], u[1] = "E" PROVE OfCounter(u[4])
  <2>1. u \in Sum(q[j], Keystream(b, (j - 1) \div Width + 1)[(j - 1) % Width])
    BY <1>1, <1>2, <1>5, BoxFacts DEF Accepted, Crypt
  <2>2. CASE u \in q[j]
    BY <1>2, <1>3, <1>5, <2>2 DEF OnlyKeystream
  <2>3. CASE u \in Keystream(b, (j - 1) \div Width + 1)[(j - 1) % Width]
    BY <1>3, <1>4, <2>3
  <2> QED BY <2>1, <2>2, <2>3 DEF Sum
<1>6. Len(call.box.ciphertext) = m
  BY <1>1, <1>2, BoxFacts, CryptFacts DEF Accepted
<1>7. ASSUME NEW i \in 1..n, NEW u \in t[i], u[1] = "E" PROVE OfCounter(u[4])
  <2>1. AddsNoAes(t, call.box.ciphertext)
    BY <1>1, ChangesAssumption DEF Accepted, ciphertext
  <2>2. PICK j \in 1..m : u \in call.box.ciphertext[j]
    BY <1>2, <1>6, <1>7, <2>1 DEF AddsNoAes
  <2> QED BY <1>5, <1>7, <2>2
<1>8. ASSUME NEW i \in 1..n, NEW u \in Opened[i], u[1] = "E" PROVE OfCounter(u[4])
  <2>1. u \in Sum(t[i], Keystream(g, (i - 1) \div Width + 1)[(i - 1) % Width])
    BY <1>1, <1>2, <1>8 DEF Opened, Crypt
  <2>2. CASE u \in t[i]
    BY <1>7, <1>8, <2>2
  <2>3. CASE u \in Keystream(g, (i - 1) \div Width + 1)[(i - 1) % Width]
    BY <1>3, <1>4, <2>3
  <2> QED BY <2>1, <2>2, <2>3 DEF Sum
<1> QED BY <1>3, <1>8 DEF OnlyKeystream

(* What the tag authenticates. *)
LEMMA OpenedInput ==
  ASSUME Accepted
  PROVE  /\ IsString(Input(call.given, Opened)) /\ Blocks(Input(call.given, Opened)) \in Nat
         /\ Blocks(ciphertext) \in Nat /\ Blocks(Opened) = Blocks(ciphertext)
<1>1. IsString(call.given.aad) /\ IsString(Opened) /\ AddsNoAes(call.given.aad, <<>>)
  BY AcceptedLengths DEF aad
<1>2. IsString(Input(call.given, Opened)) /\ Blocks(Input(call.given, Opened)) \in Nat
  BY <1>1, OpenedOnlyKeystream, InputOnlyKeystream
<1>3. Blocks(ciphertext) \in Nat
  BY AcceptedLengths, BlocksFacts DEF IsString
<1> QED BY <1>2, <1>3, AcceptedLengths, BlocksOfLength

(* Arguments with the tag of what they open are the box that was sealed. *)
LEMMA TagMeansBox ==
  ASSUME Accepted, TagOf(call.given, Opened) = tag
  PROVE  call.given = call.box
<1>1. PICK g, b, p, q : g = call.given /\ b = call.box /\ p = Opened /\ q = call.text
  OBVIOUS
<1>2. /\ Lengths(g, Len(p)) /\ IsString(p) /\ AddsNoAes(g.aad, <<>>) /\ OnlyKeystream(p)
  BY <1>1, AcceptedLengths, OpenedOnlyKeystream DEF aad
<1>3. /\ Lengths(b, Len(q)) /\ IsString(q) /\ AddsNoAes(b.aad, <<>>) /\ OnlyKeystream(q)
      /\ b = [key |-> b.key, nonce |-> b.nonce, aad |-> b.aad,
              ciphertext |-> b.ciphertext, tag |-> b.tag]
      /\ b.ciphertext = Crypt(b, q) /\ b.tag = TagOf(b, q)
  BY <1>1, BoxFacts DEF Accepted
<1>4. TagOf(g, p) = g.tag
  BY <1>1 DEF tag
<1>5. AddsNoAes(g.tag, b.tag)
  BY <1>1, ChangesAssumption DEF Accepted
<1>6. /\ g.key = b.key /\ g.nonce = b.nonce /\ g.aad = b.aad /\ Len(g.tag) = Len(b.tag)
      /\ p = q
  <2>1. AddsNoAes(TagOf(g, p), TagOf(b, q)) /\ Len(TagOf(g, p)) = Len(g.tag) /\ Len(TagOf(b, q)) = Len(b.tag)
    BY <1>3, <1>4, <1>5
  <2> QED BY <1>2, <1>3, <2>1, TagDetermines
<1>7. Crypt(g, q) = Crypt(b, q) /\ TagOf(g, q) = TagOf(b, q)
  BY <1>6, SameArguments
<1>8. g.tag = b.tag
  BY <1>3, <1>4, <1>6, <1>7
<1>9. g.ciphertext = b.ciphertext
  <2>1. IsString(g.ciphertext) /\ p = Crypt(g, g.ciphertext)
    BY <1>1, AcceptedLengths DEF ciphertext, Opened
  <2>2. Crypt(g, p) = g.ciphertext
    BY <2>1, CryptTwice
  <2> QED BY <1>3, <1>6, <1>7, <2>2
<1>10. g = [key |-> g.key, nonce |-> g.nonce, aad |-> g.aad,
            ciphertext |-> g.ciphertext, tag |-> g.tag]
  BY <1>1, CallsAssumption DEF Accepted
<1> QED BY <1>1, <1>3, <1>6, <1>8, <1>9, <1>10

(* The box itself is not refused, and opens to the text. *)
LEMMA GenuineBox ==
  ASSUME call \in CcmCalls, call.given = call.box, L < WordBytes
  PROVE  CcmError = "nil" /\ Opened = call.text /\ TagOf(call.given, Opened) = tag
<1>1. PICK b, q : b = call.box /\ q = call.text
  OBVIOUS
<1>2. /\ Lengths(b, Len(q)) /\ IsString(q)
      /\ b.ciphertext = Crypt(b, q) /\ b.tag = TagOf(b, q)
  BY <1>1, BoxFacts
<1>3. b.ciphertext = ciphertext /\ b.tag = tag /\ b.nonce = nonce
  BY <1>1 DEF ciphertext, tag, nonce
<1>4. Opened = q
  BY <1>1, <1>2, <1>3, CryptTwice DEF Opened
<1>5. TagOf(call.given, Opened) = tag
  BY <1>1, <1>2, <1>3, <1>4
<1>6. PICK m \in Nat, t \in Nat, n \in Nat : m = Len(nonce) /\ t = Len(tag) /\ n = Len(ciphertext)
  <2>1. Len(nonce) \in Nat /\ Len(tag) \in Nat /\ Len(ciphertext) \in Nat
    BY CallsAssumption DEF nonce, tag, ciphertext, IsString
  <2> QED BY <2>1
<1>7. n = Len(q)
  BY <1>2, <1>3, <1>6, CryptFacts
<1>8. L = Width - 1 - m /\ L \in Nat /\ L = LengthBytes(b)
  <2>1. m \in MinNonce..MaxNonce
    BY <1>2, <1>3, <1>6 DEF Lengths
  <2> QED BY <1>3, <1>6, <2>1, ModesAssumption DEF L, LengthBytes
<1>9. PICK e \in Nat, p \in Nat : e = L /\ p = Power[L] /\ n < p
  BY <1>2, <1>7, <1>8, PowerFacts DEF Lengths
<1>10. ~(m < MinNonce \/ m > MaxNonce)
  <2>1. m \in MinNonce..MaxNonce
    BY <1>2, <1>3, <1>6 DEF Lengths
  <2> QED BY <2>1, ModesAssumption
<1>11. ~(t # Width /\ (t < 4 \/ t > Width \/ t % 2 # 0))
  <2>1. t \in 4..Width /\ (t = Width \/ t % 2 = 0)
    BY <1>2, <1>3, <1>6 DEF Lengths
  <2> QED BY <2>1, ModesAssumption
<1>12. call.given.key # "wrongSize"
  BY SealedAssumption
<1>13. CcmError = "nil"
  <2>1. ~(e >= WordBytes)
    BY <1>9, ModesAssumption
  <2>2. MessageLimit = p
    BY <1>9, <2>1 DEF MessageLimit
  <2>3. ~(n >= MessageLimit)
    BY <1>9, <2>2
  <2> QED BY <1>6, <1>10, <1>11, <1>12, <2>3 DEF CcmError
<1> QED BY <1>1, <1>4, <1>5, <1>13

---------------------------------------------------------------------------
(* The steps of ccmDecrypt. *)

(* Past the checks, the lengths are valid; a call they refuse returns nothing. *)
CcmInv ==
  call.kind = "ccm" =>
    /\ call \in CcmCalls
    /\ pc \in {"check", "ctr", "mac", "done"}
    /\ k \in Nat \ {0}
    /\ pc = "check" => k = 1 /\ plain = <<>>
    /\ pc \in {"ctr", "mac"} => CcmError = "nil"
    /\ pc = "done" /\ CcmError # "nil" => err = CcmError /\ plain = <<>>

(* What the blocks before block j open to. *)
OpenedBefore(j) ==
  [i \in 1..(IF (j - 1) * Width < Len(Opened) THEN (j - 1) * Width ELSE Len(Opened)) |-> Opened[i]]

(* A call that passes the checks: the text so far, then the authentication code  *)
(* so far, and at the end the text if the tag is the one that belongs to it.     *)
OpenInv ==
  Accepted =>
    /\ pc = "ctr" => k <= Blocks(ciphertext) + 1 /\ plain = OpenedBefore(k)
    /\ pc = "mac" => /\ plain = Opened
                     /\ k <= Blocks(Input(call.given, Opened)) + 1
                     /\ chain = Macs(call.given, Opened)[k - 1]
    /\ pc = "done" => IF TagOf(call.given, Opened) = tag THEN err = "nil" /\ plain = Opened
                      ELSE err # "nil" /\ plain = <<>>

(* What the call alone decides. *)
LEMMA CallDecides ==
  ASSUME call' = call
  PROVE  /\ CcmError' = CcmError /\ Accepted' = Accepted
         /\ Opened' = Opened /\ tag' = tag /\ Blocks(ciphertext)' = Blocks(ciphertext)
         /\ \A j : OpenedBefore(j)' = OpenedBefore(j)
         /\ Blocks(Input(call.given, Opened))' = Blocks(Input(call.given, Opened))
         /\ Macs(call.given, Opened)' = Macs(call.given, Opened)
         /\ TagOf(call.given, Opened)' = TagOf(call.given, Opened)
<1>1. CcmError' = CcmError
  BY DEF CcmError, MessageLimit, nonce, tag, ciphertext, L
<1>2. Accepted' = Accepted
  BY <1>1 DEF Accepted
<1>3. ciphertext' = ciphertext /\ tag' = tag
  BY DEF ciphertext, tag
<1>4. Opened' = Opened
  BY <1>3 DEF Opened
<1>5. Blocks(ciphertext)' = Blocks(ciphertext)
  BY <1>3
<1>6. \A j : OpenedBefore(j)' = OpenedBefore(j)
  BY <1>4 DEF OpenedBefore
<1>7. /\ Blocks(Input(call.given, Opened))' = Blocks(Input(call.given, Opened))
      /\ Macs(call.given, Opened)' = Macs(call.given, Opened)
      /\ TagOf(call.given, Opened)' = TagOf(call.given, Opened)
  BY <1>4
<1> QED BY <1>1, <1>2, <1>3, <1>4, <1>5, <1>6, <1>7

(* One block of the keystream opens one block of the ciphertext. *)
LEMMA CtrStep ==
  ASSUME Accepted, k \in 1..Blocks(ciphertext), plain = OpenedBefore(k), CtrBlock
  PROVE  plain' = OpenedBefore(k + 1)
<1>1. PICK w \in Nat \ {0}, n \in Nat : w = Width /\ n = Len(Opened)
  BY WidthFacts, AcceptedLengths
<1>2. /\ Len(ciphertext) = n /\ k \in Nat \ {0}
      /\ \A i \in 1..n : Opened[i] = Sum(ciphertext[i], Keystream(call.given, (i - 1) \div w + 1)[(i - 1) % w])
  <2>1. Len(ciphertext) = n /\ k \in Nat \ {0}
    BY <1>1, AcceptedLengths, OpenedInput
  <2> QED BY <1>1, <2>1 DEF Opened, Crypt
<1>3. PICK m \in Nat : m = (k - 1) * w
  BY <1>2
<1>4. m < n /\ k * w = m + w
  <2>1. m < n
    BY <1>1, <1>2, <1>3, BlocksFacts
  <2> QED BY <1>2, <1>3, <2>1
<1>5. plain = [i \in 1..m |-> Opened[i]] /\ Len(plain) = m /\ IsString(plain)
  <2>1. plain = [i \in 1..m |-> Opened[i]]
    BY <1>1, <1>3, <1>4 DEF OpenedBefore
  <2>2. plain = [i \in 1..m |-> plain[i]]
    BY <2>1
  <2> QED BY <2>1, <2>2, StringOf
<1>6. PICK h \in Nat : h = IF n - m < w THEN n - m ELSE w
  <2>1. CASE n - m < w
    <3>1. n - m \in Nat
      BY <1>4
    <3> QED BY <2>1, <3>1
  <2>2. CASE ~(n - m < w)
    BY <2>2
  <2> QED BY <2>1, <2>2
<1> DEFINE key == Keystream(call.given, k)
           head == HeadOf(Xor(Block(ciphertext, k), key), h)
<1>7. plain' = plain \o head
  <2>1. Len(ciphertext) - Len(plain) = n - m
    BY <1>2, <1>5
  <2>2. (IF Len(ciphertext) - Len(plain) < Width THEN Len(ciphertext) - Len(plain) ELSE Width) = h
    BY <1>1, <1>6, <2>1
  <2>3. Encrypt(call.given.key, makeCCMIV(k)) = key
    BY DEF Keystream, CounterBlock, makeCCMIV, L, LengthBytes, nonce
  <2> QED BY <2>2, <2>3 DEF CtrBlock
<1>8. ASSUME NEW i \in 1..h PROVE head[i] = Opened[m + i]
  <2>1. i - 1 \in 0..(w - 1) /\ m + i \in 1..n /\ m + (i - 1) < n /\ i - 1 \in Places
    BY <1>1, <1>4, <1>6, WidthFacts
  <2>2. head[i] = Sum(Block(ciphertext, k)[i - 1], key[i - 1])
    BY <2>1 DEF HeadOf, Xor
  <2>3. Block(ciphertext, k)[i - 1] = ciphertext[m + i]
    <3>1. (k - 1) * Width + (i - 1) = m + (i - 1) /\ m + (i - 1) + 1 = m + i
      BY <1>1, <1>3
    <3>2. (k - 1) * Width + (i - 1) < Len(ciphertext)
      BY <1>2, <2>1, <3>1
    <3>3. (k - 1) * Width + (i - 1) + 1 = m + i
      BY <3>1
    <3>4. Block(ciphertext, k)[i - 1] = ciphertext[(k - 1) * Width + (i - 1) + 1]
      BY <2>1, <3>2 DEF Block
    <3> QED BY <3>3, <3>4
  <2>4. ((m + i) - 1) \div w + 1 = k /\ ((m + i) - 1) % w = i - 1
    <3>1. k - 1 \in Nat /\ (k - 1) * w + (i - 1) = (m + i) - 1
      BY <1>2, <1>3
    <3>2. ((k - 1) * w + (i - 1)) \div w = k - 1 /\ ((k - 1) * w + (i - 1)) % w = i - 1
      BY <2>1, <3>1, DivMod
    <3>3. ((m + i) - 1) \div w = k - 1 /\ ((m + i) - 1) % w = i - 1
      BY <3>1, <3>2
    <3>4. (k - 1) + 1 = k
      BY <1>2
    <3> QED BY <3>3, <3>4
  <2>5. Opened[m + i] = Sum(ciphertext[m + i], key[i - 1])
    BY <1>2, <2>1, <2>4
  <2> QED BY <2>2, <2>3, <2>5
<1>9. IsString(head) /\ Len(head) = h
  <2>1. head = [i \in 1..h |-> head[i]]
    BY DEF HeadOf
  <2> HIDE DEF head
  <2> QED BY <2>1, StringOf
<1> HIDE DEF head
<1>10. /\ Len(plain \o head) = m + h /\ IsString(plain \o head)
       /\ \A i \in 1..(m + h) : (plain \o head)[i] = IF i <= m THEN plain[i] ELSE head[i - m]
  BY <1>5, <1>9, StringConcat
<1>11. ASSUME NEW i \in 1..(m + h) PROVE (plain \o head)[i] = Opened[i]
  <2>1. CASE i <= m
    BY <1>5, <1>10, <2>1
  <2>2. CASE ~(i <= m)
    <3>1. i - m \in 1..h /\ m + (i - m) = i
      BY <2>2
    <3>2. head[i - m] = Opened[m + (i - m)]
      BY <1>8, <3>1
    <3> QED BY <1>10, <2>2, <3>1, <3>2
  <2> QED BY <2>1, <2>2
<1>12. plain \o head = [i \in 1..(m + h) |-> Opened[i]]
  <2>1. plain \o head = [i \in 1..(m + h) |-> (plain \o head)[i]]
    BY <1>10 DEF IsString
  <2> QED BY <1>11, <2>1
<1>13. m + h = IF ((k + 1) - 1) * Width < Len(Opened) THEN ((k + 1) - 1) * Width ELSE Len(Opened)
  <2>1. ((k + 1) - 1) * Width = m + w
    BY <1>1, <1>2, <1>4
  <2> QED BY <1>1, <1>4, <1>6, <2>1
<1> QED BY <1>7, <1>12, <1>13 DEF OpenedBefore

(* A call that passes the checks, as ccmDecrypt works on it. *)
LEMMA OpenKept ==
  ASSUME CcmInv, OpenInv, Accepted, Next
  PROVE  OpenInv'
<1>0. /\ call.kind = "ccm" /\ k \in Nat \ {0} /\ CcmError = "nil"
      /\ pc \in {"check", "ctr", "mac", "done"}
      /\ pc = "check" => k = 1 /\ plain = <<>>
  BY CallsAssumption DEF Accepted, CcmInv
<1>1. CASE CcmCheck
  <2>1. pc' = "ctr" /\ k' = 1 /\ plain' = <<>> /\ call' = call
    BY <1>0, <1>1 DEF CcmCheck
  <2>2. OpenedBefore(1) = <<>>
    <3>1. Len(Opened) \in Nat /\ (1 - 1) * Width = 0
      BY AcceptedLengths, WidthFacts
    <3>2. (IF (1 - 1) * Width < Len(Opened) THEN (1 - 1) * Width ELSE Len(Opened)) = 0
      BY <3>1
    <3> QED BY <3>2 DEF OpenedBefore
  <2>3. 1 <= Blocks(ciphertext) + 1
    BY OpenedInput
  <2>4. plain' = OpenedBefore(k)' /\ k' <= Blocks(ciphertext)' + 1
    BY <2>1, <2>2, <2>3, CallDecides DEF OpenedBefore
  <2> QED BY <2>1, <2>4 DEF OpenInv
<1>2. CASE CtrBlock
  <2>1. /\ pc = "ctr" /\ pc' = "ctr" /\ k' = k + 1 /\ call' = call
        /\ k \in 1..Blocks(ciphertext) /\ plain = OpenedBefore(k)
    BY <1>0, <1>2, OpenedInput DEF CtrBlock, OpenInv
  <2>2. plain' = OpenedBefore(k + 1)
    BY <1>2, <2>1, CtrStep
  <2>3. k + 1 <= Blocks(ciphertext) + 1
    BY <2>1, OpenedInput
  <2>4. plain' = OpenedBefore(k)' /\ k' <= Blocks(ciphertext)' + 1
    BY <2>1, <2>2, <2>3, CallDecides DEF OpenedBefore
  <2> QED BY <2>1, <2>4 DEF OpenInv
<1>3. CASE CtrDone
  <2>1. /\ pc = "ctr" /\ pc' = "mac" /\ k' = 1 /\ call' = call /\ plain' = plain
        /\ k > Blocks(ciphertext) /\ plain = OpenedBefore(k)
        /\ chain' = Encrypt(call.given.key, FirstMacBlock)
    BY <1>3, <1>0 DEF CtrDone, OpenInv
  <2>2. plain = Opened
    <3>1. PICK w \in Nat \ {0}, n \in Nat, b \in Nat :
             w = Width /\ n = Len(Opened) /\ b = Blocks(Opened) /\ b = Blocks(ciphertext)
      BY WidthFacts, AcceptedLengths, OpenedInput
    <3>2. n <= b * w
      BY <3>1, BlocksFacts
    <3>3. b * w <= (k - 1) * w
      BY <1>0, <2>1, <3>1
    <3>4. (k - 1) * w \in Int
      BY <1>0, <3>1
    <3>5. ~((k - 1) * w < n)
      BY <3>1, <3>2, <3>3, <3>4
    <3>6. OpenedBefore(k) = [i \in 1..Len(Opened) |-> Opened[i]]
      BY <3>1, <3>5 DEF OpenedBefore
    <3> QED BY <2>1, <3>6, AcceptedLengths DEF IsString
  <2>3. FirstMacBlock = FirstBlock(call.given, Opened)
    <3>1. PICK x \in Int, y \in Int, z \in Int :
             x = L - 1 /\ y = 8 * ((Len(tag) - 2) \div 2) /\ z = IF aad = <<>> THEN 0 ELSE 64
      <4>1. Len(nonce) \in Nat /\ Len(tag) \in Nat
        BY CallsAssumption DEF Accepted, nonce, tag, IsString
      <4>2. L - 1 \in Int
        BY <4>1, WidthFacts DEF L
      <4>3. 8 * ((Len(tag) - 2) \div 2) \in Int
        BY <4>1
      <4> QED BY <4>2, <4>3
    <3>2. x + z + y = x + y + z
      BY <3>1
    <3>3. Flags(call.given) = x + y + z
      BY <3>1 DEF Flags, LengthBytes, L, nonce, tag, aad
    <3> QED BY <2>2, <3>1, <3>2, <3>3 DEF FirstMacBlock, FirstBlock, nonce
  <2>4. chain' = Macs(call.given, Opened)[0]
    <3>1. Macs(call.given, Opened)[0] = Encrypt(call.given.key, FirstBlock(call.given, Opened))
      BY OpenedInput, MacProperties DEF Macs
    <3> QED BY <2>1, <2>3, <3>1
  <2>5. 1 <= Blocks(Input(call.given, Opened)) + 1
    BY OpenedInput
  <2>6. k' - 1 = 0
    BY <2>1
  <2>7. /\ pc' = "mac" /\ plain' = Opened'
        /\ chain' = Macs(call.given, Opened)'[k' - 1]
        /\ k' <= Blocks(Input(call.given, Opened))' + 1
    BY <2>1, <2>2, <2>4, <2>5, <2>6, CallDecides
  <2> QED BY <2>7 DEF OpenInv
<1>4. CASE MacBlock
  <2>1. /\ pc = "mac" /\ pc' = "mac" /\ k' = k + 1 /\ call' = call /\ plain' = plain
        /\ plain = Opened /\ chain = Macs(call.given, Opened)[k - 1] /\ k <= Blocks(MacInput)
        /\ chain' = Encrypt(call.given.key, Xor(Block(MacInput, k), chain))
    BY <1>4, <1>0 DEF MacBlock, OpenInv
  <2>2. PICK s, X : s = Input(call.given, Opened) /\ X = Macs(call.given, Opened)
    OBVIOUS
  <2>3. MacInput = s
    BY <2>1, <2>2 DEF MacInput, Input, Framed, WithLength, formatAAD, aad
  <2>4. PICK b \in Nat : b = Blocks(s)
    BY <2>2, OpenedInput
  <2>5. k \in 1..b
    BY <1>0, <2>1, <2>3, <2>4
  <2>6. X[k] = Encrypt(call.given.key, Xor(X[k - 1], Block(s, k)))
    BY <2>2, <2>4, <2>5, MacProperties DEF Macs
  <2>7. \A x, y : Xor(x, y) = Xor(y, x)
    BY DEF Xor, Sum
  <2>8. chain' = X[k]
    BY <2>1, <2>2, <2>3, <2>6, <2>7
  <2>9. k' - 1 = k /\ k' <= b + 1
    BY <2>1, <2>5
  <2>10. Macs(call.given, Opened)' = X /\ Blocks(Input(call.given, Opened))' = b /\ Opened' = Opened
    BY <2>1, <2>2, <2>4, CallDecides
  <2>11. /\ pc' = "mac" /\ plain' = Opened'
         /\ chain' = Macs(call.given, Opened)'[k' - 1]
         /\ k' <= Blocks(Input(call.given, Opened))' + 1
    BY <2>1, <2>8, <2>9, <2>10
  <2> QED BY <2>11 DEF OpenInv
<1>5. CASE Compare
  <2>1. /\ pc = "mac" /\ pc' = "done" /\ call' = call /\ plain = Opened
        /\ chain = Macs(call.given, Opened)[k - 1] /\ k <= Blocks(Input(call.given, Opened)) + 1
        /\ k > Blocks(MacInput)
    BY <1>5, <1>0 DEF Compare, OpenInv
  <2>2. PICK s : s = Input(call.given, Opened)
    OBVIOUS
  <2>3. MacInput = s
    BY <2>1, <2>2 DEF MacInput, Input, Framed, WithLength, formatAAD, aad
  <2>4. k - 1 = Blocks(s)
    BY <1>0, <2>1, <2>2, <2>3, OpenedInput
  <2>5. HeadOf(Xor(chain, Encrypt(call.given.key, makeCCMIV(0))), Len(tag)) = TagOf(call.given, Opened)
    BY <2>1, <2>2, <2>4 DEF TagOf, Keystream, CounterBlock, makeCCMIV, L, LengthBytes, nonce, tag
  <2>6. IF TagOf(call.given, Opened) = tag THEN err' = "nil" /\ plain' = Opened
        ELSE err' # "nil" /\ plain' = <<>>
    BY <1>5, <2>1, <2>5 DEF Compare
  <2>7. /\ TagOf(call.given, Opened)' = TagOf(call.given, Opened) /\ tag' = tag /\ Opened' = Opened
    BY <2>1, CallDecides
  <2>8. IF TagOf(call.given, Opened)' = tag' THEN err' = "nil" /\ plain' = Opened'
        ELSE err' # "nil" /\ plain' = <<>>
    BY <2>6, <2>7
  <2> QED BY <2>1, <2>8 DEF OpenInv
<1>6. ~(XtsBlock \/ CbcBlock \/ CbcPanics \/ SectorDone)
  BY <1>0 DEF XtsBlock, CbcBlock, CbcPanics, SectorDone
<1> QED BY <1>1, <1>2, <1>3, <1>4, <1>5, <1>6 DEF Next

(* Every call of ccmDecrypt. *)
LEMMA CcmKept ==
  ASSUME CcmInv, call.kind = "ccm", Next
  PROVE  CcmInv'
<1>0. /\ call \in CcmCalls /\ k \in Nat \ {0} /\ pc \in {"check", "ctr", "mac", "done"}
      /\ pc = "check" => k = 1 /\ plain = <<>>
      /\ pc \in {"ctr", "mac"} => CcmError = "nil"
  BY DEF CcmInv
<1>1. ASSUME call' = call PROVE CcmError' = CcmError
  BY <1>1, CallDecides
<1>2. CASE CcmCheck
  <2>1. /\ call' = call /\ k' = k /\ pc' = IF CcmError = "nil" THEN "ctr" ELSE "done"
        /\ pc = "check" /\ err' = CcmError /\ plain' = plain
    BY <1>2 DEF CcmCheck
  <2>2. CcmError' = CcmError
    BY <1>1, <2>1
  <2> QED BY <1>0, <2>1, <2>2 DEF CcmInv
<1>3. CASE CtrBlock
  <2>1. call' = call /\ k' = k + 1 /\ pc' = "ctr" /\ pc = "ctr"
    BY <1>3 DEF CtrBlock
  <2>2. CcmError' = CcmError /\ k + 1 \in Nat \ {0}
    BY <1>0, <1>1, <2>1
  <2> QED BY <1>0, <2>1, <2>2 DEF CcmInv
<1>4. CASE CtrDone
  <2>1. call' = call /\ k' = 1 /\ pc' = "mac" /\ pc = "ctr"
    BY <1>4 DEF CtrDone
  <2>2. CcmError' = CcmError
    BY <1>1, <2>1
  <2> QED BY <1>0, <2>1, <2>2 DEF CcmInv
<1>5. CASE MacBlock
  <2>1. call' = call /\ k' = k + 1 /\ pc' = "mac" /\ pc = "mac" /\ k + 1 \in Nat \ {0}
    BY <1>0, <1>5 DEF MacBlock
  <2>2. CcmError' = CcmError
    BY <1>1, <2>1
  <2> QED BY <1>0, <2>1, <2>2 DEF CcmInv
<1>6. CASE Compare
  <2>1. call' = call /\ k' = k /\ pc' = "done" /\ pc = "mac"
    BY <1>6 DEF Compare
  <2>2. CcmError' = CcmError
    BY <1>1, <2>1
  <2> QED BY <1>0, <2>1, <2>2 DEF CcmInv
<1>7. ~(XtsBlock \/ CbcBlock \/ CbcPanics \/ SectorDone)
  BY <1>0 DEF XtsBlock, CbcBlock, CbcPanics, SectorDone
<1> QED BY <1>2, <1>3, <1>4, <1>5, <1>6, <1>7 DEF Next

---------------------------------------------------------------------------
(* The theorems. *)

Inv == SectorInv /\ CcmInv /\ OpenInv

(* No step changes the call. *)
LEMMA CallKept ==
  ASSUME [Next]_vars
  PROVE  call' = call
  BY DEF Next, vars, XtsBlock, CbcBlock, CbcPanics, SectorDone,
         CcmCheck, CtrBlock, CtrDone, MacBlock, Compare

(***************************************************************************)
(* Every step of decryptSector and of ccmDecrypt keeps the invariant: what *)
(* lies before the current block is done, what lies behind it untouched,   *)
(* whether the box that ccmDecrypt works on was changed or not.            *)
(***************************************************************************)
THEOREM ModesInvariant == Spec => []Inv
<1>1. Init => Inv
  <2> SUFFICES ASSUME Init PROVE Inv
    OBVIOUS
  <2>1. SectorInv
    BY SectorBegins
  <2>2. call \in SectorCalls => call.kind # "ccm"
    BY CallsAssumption
  <2>3. call \in CcmCalls \/ call \in SectorCalls
    BY DEF Init
  <2>4. call.kind = "ccm" => call \in CcmCalls /\ pc = "check" /\ k = 1 /\ plain = <<>>
    BY <2>2 DEF Init
  <2>5. CcmInv
    BY <2>4 DEF CcmInv
  <2>6. Accepted => pc = "check"
    BY <2>4, CallsAssumption DEF Accepted
  <2>7. OpenInv
    BY <2>6 DEF OpenInv
  <2> QED BY <2>1, <2>5, <2>7 DEF Inv
<1>2. Inv /\ [Next]_vars => Inv'
  <2> SUFFICES ASSUME Inv, [Next]_vars PROVE Inv'
    OBVIOUS
  <2>0. call' = call
    BY CallKept
  <2>1. CASE Next
    <3>1. SectorInv'
      <4>1. CASE call.kind = "ccm"
        BY <2>0, <4>1 DEF SectorInv
      <4>2. CASE call.kind # "ccm"
        BY <2>1, <4>2, SectorKept DEF Inv
      <4> QED BY <4>1, <4>2
    <3>2. CcmInv'
      <4>1. CASE call.kind = "ccm"
        BY <2>1, <4>1, CcmKept DEF Inv
      <4>2. CASE call.kind # "ccm"
        BY <2>0, <4>2 DEF CcmInv
      <4> QED BY <4>1, <4>2
    <3>3. OpenInv'
      <4>1. CASE Accepted
        BY <2>1, <4>1, OpenKept DEF Inv
      <4>2. CASE ~Accepted
        BY <2>0, <4>2, CallDecides DEF OpenInv
      <4> QED BY <4>1, <4>2
    <3> QED BY <3>1, <3>2, <3>3 DEF Inv
  <2>2. CASE UNCHANGED vars
    <3>1. SectorInv'
      BY <2>2 DEF Inv, vars, SectorInv, Sector, LinkAt
    <3>2. pc' = pc /\ k' = k /\ plain' = plain /\ err' = err /\ chain' = chain
      BY <2>2 DEF vars
    <3>3. CcmInv'
      BY <2>0, <3>2, CallDecides DEF Inv, CcmInv
    <3>4. OpenInv'
      <4>1. OpenedBefore(k)' = OpenedBefore(k)
        BY <2>0, <3>2, CallDecides DEF OpenedBefore
      <4> QED BY <2>0, <3>2, <4>1, CallDecides DEF Inv, OpenInv
    <3> QED BY <3>1, <3>3, <3>4 DEF Inv
  <2> QED BY <2>1, <2>2
<1> QED BY <1>1, <1>2, PTL DEF Spec

(***************************************************************************)
(* decryptSector recovers the plaintext of a sector of any number of       *)
(* blocks, in XTS and CBC, in place and into another buffer, for blocks    *)
(* and bytes of any width and any reduction within the low byte.           *)
(***************************************************************************)
THEOREM SectorsRecovered == Spec => []SectorRecovered
<1>1. Inv => SectorRecovered
  <2> SUFFICES ASSUME Inv, pc = "done", call.kind # "ccm"
               PROVE  /\ dst = Plaintext(call.blocks)
                      /\ ~call.inPlace => src = Sector(call)
    BY DEF SectorRecovered, Sector
  <2>1. /\ call \in SectorCalls /\ k = call.blocks + 1
        /\ dst = [j \in 1..call.blocks |-> IF j < k THEN Text(j) ELSE dst[j]]
        /\ src = [j \in 1..call.blocks |-> IF call.inPlace /\ j < k THEN Text(j) ELSE Sector(call)[j]]
    BY DEF Inv, SectorInv
  <2>2. /\ call.blocks \in Nat \ {0}
        /\ Sector(call) = [j \in 1..call.blocks |-> Sector(call)[j]]
    BY <2>1, SectorIsBlocks
  <2>3. \A j \in 1..call.blocks : j < k
    BY <2>1, <2>2
  <2>4. dst = Plaintext(call.blocks)
    BY <2>1, <2>3 DEF Plaintext
  <2>5. ~call.inPlace => src = [j \in 1..call.blocks |-> Sector(call)[j]]
    BY <2>1
  <2> QED BY <2>2, <2>4, <2>5
<1> QED BY <1>1, ModesInvariant, PTL

(***************************************************************************)
(* ccmDecrypt opens every box that was sealed, for texts of every length,  *)
(* with any tag length that CCM allows and any nonce that leaves less than *)
(* a word to the length of the text, which is every length that ccm.go:20  *)
(* names but the shortest (see NonceLengthsSupported). The associated data *)
(* are framed with a length of two bytes, as the standard has it for fewer *)
(* than 2^16 - 2^8 bytes; formatAAD knows no other framing.                *)
(***************************************************************************)
THEOREM GenuineBoxesOpen == Spec => []GenuineOpens
<1>1. Inv => GenuineOpens
  <2> SUFFICES ASSUME Inv, pc = "done", call.kind = "ccm", call.given = call.box, L < WordBytes
               PROVE  err = "nil" /\ plain = call.text
    BY DEF GenuineOpens
  <2>1. call \in CcmCalls
    BY DEF Inv, CcmInv
  <2>2. CcmError = "nil" /\ Opened = call.text /\ TagOf(call.given, Opened) = tag
    BY <2>1, GenuineBox
  <2> QED BY <2>1, <2>2 DEF Inv, OpenInv, Accepted
<1> QED BY <1>1, ModesInvariant, PTL

(***************************************************************************)
(* Nothing but the box that was sealed opens: whatever key, nonce,         *)
(* associated data, ciphertext and tag ccmDecrypt is given, of any length, *)
(* made without AES from what the box holds, it returns an error and no    *)
(* plaintext unless all five are those of the box.                         *)
(***************************************************************************)
THEOREM ForgeriesRejected == Spec => []ForgedRejected
<1>1. Inv => ForgedRejected
  <2> SUFFICES ASSUME Inv, pc = "done", call.kind = "ccm", call.given # call.box
               PROVE  err # "nil" /\ plain = <<>>
    BY DEF ForgedRejected
  <2>1. call \in CcmCalls /\ (CcmError # "nil" => err = CcmError /\ plain = <<>>)
    BY DEF Inv, CcmInv
  <2>2. CASE CcmError = "nil"
    <3>1. Accepted
      BY <2>1, <2>2 DEF Accepted
    <3>2. TagOf(call.given, Opened) # tag
      BY <3>1, TagMeansBox
    <3> QED BY <3>1, <3>2 DEF Inv, OpenInv
  <2>3. CASE CcmError # "nil"
    BY <2>1, <2>3
  <2> QED BY <2>2, <2>3
<1> QED BY <1>1, ModesInvariant, PTL

(***************************************************************************)
(* The counter stays within its L bytes for every message that ccmDecrypt  *)
(* accepts, genuine or not.                                                *)
(***************************************************************************)
THEOREM CounterStaysInRange == Spec => []CounterInRange
<1>1. Inv => CounterInRange
  <2> SUFFICES ASSUME Inv, pc = "ctr", k <= Blocks(ciphertext)
               PROVE  k < Power[L]
    BY DEF CounterInRange
  <2>1. call.kind = "ccm"
    BY SectorIsBlocks DEF Inv, SectorInv
  <2>2. Accepted /\ k \in Nat \ {0}
    BY <2>1 DEF Inv, CcmInv, Accepted
  <2>3. Len(ciphertext) \in Nat /\ Len(ciphertext) < Power[L] /\ Power[L] \in Nat
    BY <2>2, AcceptedLengths
  <2>4. PICK b \in Int, n \in Int, p \in Int :
           b = Blocks(ciphertext) /\ n = Len(ciphertext) /\ p = Power[L] /\ b <= n
    BY <2>3, BlocksFacts
  <2>5. n < p
    BY <2>3, <2>4
  <2> QED BY <2>2, <2>4, <2>5
<1> QED BY <1>1, ModesInvariant, PTL
=============================================================================
