# A TLA+ verification of go-bde

go-bde parses the metadata of a BitLocker volume, unlocks it with a credential
and offers the decrypted volume as an `io.ReaderAt`. This directory holds TLA+
models of that code, TLC configurations that check them on small instances, and
TLAPS proofs of the properties that matter most for every instance.

Run a configuration with `tlc -config X.cfg M`, a proof with `tlapm M.tla`.
`PROJECT.json` maps every definition to the source lines it models and lists
runs, mutants, findings, hazards and theorems.

## 1. Inventory

| Component (source) | State | Operations | Correct if |
|---|---|---|---|
| Discovery: `New`, `parseBootSector`, `readGuidBlocks`, `tryBootSectorOffsets` (bde.go), `IsBitLockerVolume` (detect.go) | offsets found so far, parsed blocks, the chosen Information and EOW information | scan for GUID locators with up to three sector sizes, InformationLcn, boot sector offsets, scan of the tail, parse, choose | the first usable block in the order of discovery is used; fallbacks do not pre-empt locators; the probe and `New` agree |
| Metadata parser: `NewInformation`, `NewDataset`, `readData`, `ReadDatum`, `readProperties` (information.go) | the dataset (a list of datums with nested properties), the position of the reader, the sizes still expected | one pass over the block, recursive | stays within the block, ends, loses no complete datum, and its counts agree with what it has read |
| Recovery passwords: `CheckRecoveryPassword`, `DeriveRecoveryKey` (keys.go) | none (pure functions) | check, derive | accepts exactly the well-formed passwords; different ones give different keys |
| Key state: `BDE.Unlock*`, `Open` (bde.go), datum lookups and `Unbox` (information.go), keys.go | `b.fvek`, `b.fvekType` | five ways to unlock, `Open` | a key is stored only if the caller has the right credential, and is never lost; a stream always has a usable cipher |
| Reserved regions: `ReservedRegions`, `setReservedRegions`, `isReservedSector`, `nextUnreservedOffset`, `nextReservedStartOffset` (bde.go) | `bs.reserved`, a sorted table | built once, then binary search | the table describes exactly the sectors of the metadata |
| `BitlockerStream`: `readAtInternal`, `Read`, `ReadAt`, `Seek`, `Close` (bde.go) with `sectorBufPool` (xts.go) | `offset`, `cipher`, the global buffer pool; per call `cur`, `n`, `dst`, the buffer | reads by concurrent goroutines | every unit returned is the decrypted view at its offset |
| Ciphers: ccm.go, xts.go, cbc.go | the tweak, the previous block or the MAC state | decrypt a sector in place, open a box | agree with the standard algorithms, also where source and destination are one buffer; open nothing but genuine boxes |
| EOW information: eow.go | offset and size | parse | used by discovery only if all of it can be read |
| Accessors; cmd/main.go | none | | |

How they interact: `New` runs discovery and the parser and yields a `BDE`;
unlock calls put the FVEK into it; `Open` creates a `BitlockerStream`, which
takes the reserved regions, the header mapping and the cipher from the `BDE`
once and for all and from then on only reads. Streams share nothing with each
other except `sectorBufPool`.

The hard behaviours: goroutines that call `ReadAt` concurrently (the tests do)
while they decrypt in place in pooled buffers; `Close` without synchronisation;
I/O errors and ends of file in the middle of a read; an in-place merge over the
array it reads; sequences of failing and succeeding unlock calls; fallbacks of
discovery that are tried in a fixed order on contradictory input; a recursive
parser that trusts sizes which need not fit; block modes that overwrite their
own input. Nothing is
written to the volume, so there is no crash recovery. The full list is under
"hazards" in `PROJECT.json`.

## 2. Modules

| Module | Models |
|---|---|
| `Regions` | the geometry: `ReservedRegions` and the three lookups, as operators |
| `SetReservedRegions` | `setReservedRegions`, one action per loop iteration |
| `StreamLayout` | the fields `NewBitlockerStream` fixes, and the decrypted view they define |
| `BitlockerStream` | `readAtInternal`, `Read`, `ReadAt`, `Seek`, `Close` and the pool, per goroutine |
| `DecryptedView` | the promise: a read is one step that returns a prefix of the view |
| `BitlockerStreamRefinement` | the mapping by which `BitlockerStream` implements `DecryptedView` |
| `RecoveryPassword` | `CheckRecoveryPassword` and `DeriveRecoveryKey`, as operators |
| `BDE` | unlocking and `Open`; uses `RecoveryPassword` |
| `Discovery` | `New` up to the choice of blocks, `NewEowInformation`, and `IsBitLockerVolume` |
| `DatumParser` | `NewInformation`, `NewDataset` and the recursion of `ReadDatum` and `readProperties` |
| `AesModes` | the block loops of `decryptSector` (XTS, CBC) and `ccmDecrypt` |
| `MC*` | small instances |
| `SetInduction` | induction over the natural numbers as a fact about sets, which the proofs cite |
| `RegionsProofs`, `SetReservedRegionsProofs`, `BitlockerStreamProofs`, `BDEProofs`, `DatumParserProofs`, `DiscoveryProofs`, `AesModesProofs` | the theorems; `BitlockerStreamProofs` also has the refinement of `DecryptedView` |

An operator whose name has a suffix (`GetBuf_shares`) is a mutant: the
definition it precedes, with a plausible slip. Substituted for it, TLC must
find the property it is listed with violated. No specification uses them.

### Reserved regions

`out` and `merged` of `setReservedRegions` share one array (`merged := out[:0]`).
In the model `out` is that array, `merged` its first `m` elements, `i` the
element the range loop reads next. `sort.Slice` is not stable, so `SortSlice`
picks any sorted permutation. `sort.Search` is external: the two operators
state its contract. Cluster sizes are powers of two: for these the bit mask of
`ReservedRegions` is a rounding.

### The stream

Each iteration of `readAtInternal` is split where another goroutine can
interfere: test of the cipher and `Get` (`GetBuf`), the source's `ReadAt`
(`FillBuf`, `FillFails`), decryption (`DecryptBuf`), `copy` (`CopyOut`), `Put`
and advance (`NextSector`). The zero-fill and the passthrough branch touch only
the caller's own variables and are one step each. One client, `Owner`, calls
`Read`, `Seek` and `Close`; all clients call `ReadAt`. This is how an
`io.ReadSeeker` that is also an `io.ReaderAt` is used; concurrent `Read`s of
one stream race for `bs.offset` by design and are not claimed to work.

`passthrough` is chosen by `Init` (a decrypted volume or an encrypted one) and
never changes. Data is symbolic: a unit is zero, raw unit `u` of the source, unit `u`
decrypted with sector number `t`, or junk. So a wrong source offset, a wrong
tweak, a buffer that another call overwrote or a read of an unfilled buffer
each give a different value. A buffer that goes back to the pool becomes junk.

`Close` writes `bs.cipher` without synchronisation. `SeesCipher` and the guard
of `NoCipher` and `DecryptPanics` are the outcomes of that data race: after
`Close`, a goroutine other than the closer may still see the cipher or see nil,
at each of the two places where the field is read.

The pool is a finite set of buffers. `sync.Pool` allocates when it is empty, so
the finite pool only adds waiting; a model with as many buffers as clients
never waits unless a buffer leaks, so a leak also breaks `CallsReturn`.

`DecryptedView` lets a read end with `io.EOF` where nothing is available, and
at a negative offset, where the view has no units: `ReadAt` does not reject one
(section 3, `stream_negative_offset`).

Assumptions on the layout: the table of reserved regions is separated (proved
of `SetReservedRegions`), sector 0 is not reserved, the header offset is a
multiple of the sector size.

### The key state

Keys are tuples that say where they come from. A box records the key it is
sealed under and opens under no other key; this stands for AES-CCM's
authentication. `Unlock` is one step. `unlockWithUserKey` is a loop with one
step per candidate: `SkipVmk`, `TryVmk`, `GiveUp`. The loops with and without
an identifier share their actions; they differ in what a failure does.
`CheckIntegrity` accepts every key, because `NewInformation` never reads a
`Validation`. A `BDE` is used by one goroutine.

A recovery password is a sequence of blocks, a block a sequence of characters:
digits, a plus sign, or any other character. `IsRecoveryPassword` says what a
genuine password is, without the code's operators and without the checksum
digit: eight blocks of six digits, multiples of 11 below 2^16 * 11. The plus
sign is there because `strconv.Atoi` accepts it: a block `+00011` passes every
check and counts as 000011, though keys.go:96 and keys.go:119 ask for six
digits. So there are two properties. `UnsignedPasswordsExact`: among passwords
without a plus sign exactly the genuine ones are accepted, and no number is
truncated on the way to the key. `OnlySixDigitBlocks`: only genuine passwords
are accepted, which the run `recovery_digits` refutes. A minus sign cannot be
part of a block, it separates blocks.

### Discovery

Offsets count units; a locator is two units, GUID and offsets, so that its
offsets may lie beyond the sector in which the GUID is found (the second
`ReadAt` of `parseOffsets`). Whether `NewInformation` accepts a block is part
of the source ("good" or "bad"). EOW headers have a size and a version; the
size counts 16 bytes from version 2 on, and `NewEowInformation` fails if that
much cannot be read. The value at 0x38 of the boot sector is at once `InformationLcn` and the second of
the offsets that `tryBootSectorOffsets` reads; the model has one field for both.
The cut-offs for absurd offsets (2^44, 2^48) are left out: such an offset
cannot be read. An offset read from the source is a `uint64` converted to
`int64`, so it may be negative; nothing can be read there, and the probe passes
over it where `New` tries it and fails. An offset of 0 in a locator is dropped. A GUID that itself straddles two sectors is not considered.

`LocatorsComeFirst` compares what `New` uses with what each pass would collect.
The first pass that collects an offset of either kind is the last one. If its
locators hold EOW offsets only, `readGuidBlocks` still reports success
(bde.go:203): a later pass that would show info offsets is not made,
`InformationLcn` is not used, and the info offsets come from the boot sector or
the tail (bde.go:62) while the EOW offsets are kept.

`ProbeAgrees` holds of every source without a signature at its start and names
each case in which the probe and `New` part: `Drifts` (the probe takes the
sector size from the shift field only and makes one pass; `New` prefers the BPB,
and may find something, or fail, before a pass with the probe's size, or make no
such pass), a volume on which the probe sees no offset and `New` succeeds by a
later pass or a fallback, and an offset behind the end of the source, at which the probe stops with an error
where `New` tries the next offset. The run reaches each of them.

On a volume smaller than the window of the tail scan the scan starts at 0, runs
into the end of the source, and what it has found is dropped;
`LocatorMissedOnlyIf` states precisely when a locator is missed because of it.

### The datum parser

The reader only moves forward and reads every byte once, so the model does not
choose the bytes in advance: each time a header is read, it is any element of
`Headers`. This covers every metadata block made of such headers, also blocks in
which the reader is out of step and decodes a header from the middle of a
payload. `remaining` is the counter of `readData`; an element of `stack` is an
activation of `readProperties` with its `dataSize` (`left`). `flaws` is a
history variable that records what in the sizes did not fit, so that
`InStepUnlessFlawed` can say of clean metadata that the reader and the counters
agree. One flaw is bytes behind the last property of a complex datum, too few
for another one: `readProperties` leaves them in the reader although the size
counted includes them (information.go:482), so the reader is behind from there
on. `OnlyLastLost`, `DepthBounded` and `Terminates` hold of any metadata. The
only errors `ReadDatum` can meet on a `bytes.Reader` are `io.EOF` and
`io.ErrUnexpectedEOF`, so `readData` never returns one.

### The ciphers

A block is a function from places to formal sums modulo 2 of atoms. For XTS a
place is a bit, for CBC and CCM a byte; xor is the symmetric difference. AES is
an ideal cipher: `Encrypt` and `Decrypt` under one key undo each other and
nothing else is known of them. The data of `Init` is encrypted by the reference
definitions (`XtsEncrypted`, `CbcEncrypted`, `Seal`), which are written from the
standards: `TimesX` is the multiplication in the field, where `gfMulX` works
byte by byte with carries. The layout of a CCM block (`Formatted`) is shared by
both sides. In place (`inPlace`), every write to `dst` is a write to `src`, as
in `readAtInternal`. `CcmError` has the checks in their order; the key size is
that of `aes.NewCipher`.

`MessageLimit` is `uint64(1) << (8 * L)` in a word of `WordBytes` bytes. For a
nonce of 7 bytes, `L` is 8 and the shift gives 0, so `ccmDecrypt` refuses every
message as too large (ccm.go:34), although its comment lists nonces of 7 to 13
bytes as supported (ccm.go:20). `GenuineOpens` is about the other nonces;
`NonceLengthsSupported` makes the claim of the comment, and the run
`nonce_lengths` refutes it. BitLocker's nonces have 12 bytes, so no volume meets
it.

## 3. Runs

| Run | Configuration | Shows |
|---|---|---|
| `reserved_regions` | MCSetReservedRegions | filter, sort and merge lose no sector; the lookups in the table are exact; metadata up to 16 KiB is reserved |
| `stream` | MCStream | on an encrypted and on a decrypted volume, with I/O errors, `io.EOF` together with data and negative offsets: exclusive buffers and no leak, delivered data is the view, short results mean the end, the two causes of a panic, refinement of `DecryptedView`, every call returns or panics |
| `unlock` | MCBDE | stored keys are justified and never lost, outcomes are deserved, streams are usable, recovery passwords without a plus sign are accepted exactly if genuine |
| `discovery` | MCDiscovery | first good block, which pass supplies the offsets and when a fallback does, where the probe and `New` agree and where they part, read errors only on short sources, when a locator is missed |
| `datums` | MCDatumParser | the parser ends and stays within the metadata, in step where the sizes fit, loses at most the last datum, its recursion is bounded by the metadata, the two header checks agree |
| `ciphers` | MCAesModes | sectors are recovered, genuine boxes with nonces of 8 to 13 bytes open, changed ones do not, the CCM counter stays out of the nonce |

Six runs show a disagreement between the code and what the repository says of
it (each is a finding in `PROJECT.json`):

| Run | Disagreement |
|---|---|
| `stream_negative_offset` | `ReadAt` panics for a small negative offset; a test notes that it should return an error |
| `stream_readerat_contract` | `ReadAt` returns `n < len(p)` with a nil error, against the `io.ReaderAt` contract it claims |
| `metadata_reserved` | metadata beyond 16 KiB of a version 1 block is not zero-filled |
| `boot_sector_offsets` | the fallback for offsets at 0x30, 0x38, 0x40 is unreachable when 0x38 is not 0 |
| `recovery_digits` | a recovery password with a block like `+00011` is accepted; the comment and the error message ask for six digits |
| `nonce_lengths` | a genuine CCM box with a nonce of 7 bytes, listed as supported, is refused |

### Bounds

* `MCSetReservedRegions`: 4 KiB sectors, three block offsets from six values
  that coincide, overlap, touch or leave gaps, four EOW variants (among them
  one without sectors), versions 0 to 2; four regions exercise every branch of
  the merge in every order.
* `MCBitlockerStream`: five sectors of two units: header (relocated), data,
  metadata, data, and a partial sector. Reads of 2 and 5 units begin at a
  sector boundary, inside a sector, in the last sector and beyond; 5 units span
  three sectors. The run `stream` begins them at -1, 1 and 7 (`ReadAt`) and
  wherever `Seek` leads (`Read`). Two clients and two buffers: exclusion is a property of pairs.
  `MaxOffset` bounds `Seek`, nothing else is capped.
* `MCBDE`: datasets of one VMK datum out of eleven (right and wrong protector,
  another volume's VMK, missing stretch key, missing or wrong inner key) with an
  FVEK with supported, unsupported, ill-sized or no key, and of two VMKs that
  hold a key, in every order, with three FVEKs. Recovery passwords: one with
  blocks at the limits (0, 11, 720885, negative and zero sums of digits), and
  others that differ from it in one block or in the number of blocks, signed
  blocks among them. `recovery_digits` has one volume and these passwords.
* `MCDiscovery`: sectors of 2 and 4 units for 512 and 4096 bytes and 3 for one
  of the sizes between them, so that `New` makes two or three passes, with and
  without the probe's size; windows of 2
  sectors for 256 and 6 for 8192, sources of 7 to 13 units: shorter than, as
  long as and longer than the windows, and not a multiple of the sector size;
  none to two locators of four kinds, with offsets that are negative, 0, beyond
  the end, of a bad block and of a good one.
* `MCDatumParser`: up to 64 bytes of datums, room for three levels of complex
  datums of the real structure sizes (an inner `UseKey` in a `StretchKey` in a
  `UseKey`) with further datums behind them; sizes that fit, that leave 1 to 7
  bytes, that are too small, 0, or larger than what contains them; headers at
  and beside each limit (48, 4096, 64 KiB, 64 MiB), on sources that end before
  the datums so that only the checks are explored.
* `MCAesModes`: blocks of six places; for XTS bytes of two bits and a reduction
  of two bits within the low byte, so that carries between bytes, out of the
  block and back occur within three blocks; CCM with blocks of six bytes, bytes
  with three values, words of four bytes and nonces of 1 to 3 bytes: with 3 and
  2, ciphertexts reach and pass the length limit (9 and 27 bytes), with 1 the
  limit is shifted out. Each box is also given with one change: another key, a
  nonce, ciphertext or tag changed at each place, cut or lengthened, other
  associated data. Sectors of one to three blocks: each loop iteration depends on
  the previous one only.

### Fairness

`BitlockerStream` has weak fairness of the steps of each call: the Go scheduler
is fair to runnable goroutines and the source's `ReadAt` returns. Nobody is
obliged to call a method. `DatumParser` is sequential code on data in memory,
with weak fairness of its next step; its termination is a question because the
loop over properties advances only through what it reads (a property of size 0
leaves its counter alone). The other specifications make no liveness claim.
Deadlock is checked except where a behaviour really ends: `setReservedRegions`,
`New`, the parser and the ciphers return, and a panic ends the program.

### Assumptions on the source

The run `stream` has a source that returns `io.EOF` together with its last
bytes (`EagerEOF = TRUE`), as `io.ReaderAt` allows, and that ends in the middle
of a sector. One case is left out: an encrypted volume whose source ends with a
whole sector and returns that sector together with `io.EOF`. `readAtInternal`
treats every error of the source as a failure (bde.go:895) and would drop the
sector. `os.File` does not return it so.

## 4. Proofs

All proofs hold for every value of the constants allowed by the named
assumptions (`VolumesAssumption`, `SectorsAssumption`, `LayoutAssumption`,
`StreamAssumption`, `BDEAssumption`, `ParserAssumption`, `DiscoveryAssumption`,
`ModesAssumption`, `CallsAssumption`, `SealedAssumption`, `BytesAssumption`,
`ChangesAssumption`). Most give types and ranges. `SealedAssumption` says that a
box was sealed by the standard with lengths it allows, `BytesAssumption` that a
block has at most 16 bytes, as the three bits that the flags have for each
length require, and `ChangesAssumption` what a changed box may be (below). TLC
evaluates all of them on the instances.

* `RegionsProofs`: on a separated table the index of `sort.Search` exists and is
  unique, so `isReservedSector` is membership in a region
  and `nextUnreservedOffset` the end of it.
* `SetReservedRegionsProofs`: `TypeCorrect`, `MergeInPlace`,
  `TableIsSeparated`, `LookupIsExact`, `SkipCorrect`, `NextMetadataFound`,
  `SmallMetadataIsReserved`. `NoSectorLost` alone is
  not inductive: the step that extends or absorbs a region needs that the
  unread part is still sorted and starts at or after every merged region, and
  that the merged prefix is separated. The invariant has a part per phase
  (`FilterInv`, `MergeInv`, `CoverInv`, `DoneInv`); `m < i` says that writing
  element `m + 1` never touches the unread part. `SmallMetadataIsReserved` adds
  the arithmetic of `ReservedRegions`: both ways to compute the number of
  sectors round up, and each metadata sector falls into one of the first three
  pairs.
* `BitlockerStreamProofs`: `TypeCorrect`, `ExclusiveBuffers`,
  `DeliveryCorrect`, `BuffersReturned`, `PanicsExplained`. `DeliveredIsView`
  becomes inductive with, for every call, `cur = off + n`, the state of the
  buffer at each program point (raw sector after the fill, decrypted with the
  sector's own number after decryption) and the exclusion of buffers, by which
  a step of another call leaves that buffer alone. For a negative offset
  nothing can be delivered before the panic; `PanicsExplained` adds that the
  owner cannot close the stream in the middle of its own call.
* `ShortReadsEnd` and `ViewImplemented`, in the same module: `EndInv` adds what
  a call knows of its end, namely that a loop that leaves early has seen the end
  of the source and that behind it nothing of the view is available. It rests on
  the hypothesis `EndIsTold`: the source does not return `io.EOF` together with
  all it was asked for; or every reserved region begins within the source, and
  the volume is decrypted or its source does not end with a whole sector.
  Without it an encrypted volume may lose its last sector (section 3,
  Assumptions on the source), or zeros of a region beyond the end would still be
  available. The configurations of the stream satisfy it. The refinement is a step simulation: the step that
  returns is `DecryptedView`'s read, the steps before it stutter, and `Permitted`
  follows from `DeliveredIsView` and `EndInv`.
* `BDEProofs`: `KeyKept`, `StreamsHaveKeys`. The invariant says that the key
  stored is the content of the volume's one first FVEK datum, so a second
  successful unlock stores the same key, and that a key of a supported type is
  stored only by a call that returned nil.
* `TypeCorrect`, `KeyJustified`, `OutcomesDeserved`, in the same module, follow
  from `LoopInv`. Its part `CallInv` is about the loop of `unlockWithUserKey`:
  the candidates all belong to the protector of the credential, the credential
  is one that was offered, and no candidate before the current one would have
  worked (or, with an identifier, has that identifier). `PasswordsExact`, of
  passwords without a plus sign, is arithmetic about six digits: a number is a multiple of 11 exactly if the
  alternating sum of its digits is, so the checksum test adds nothing to
  divisibility and rejects no good block, and division by 11 is injective on
  the blocks accepted and stays within 16 bits.
* `DatumParserProofs`: `TypeCorrect`, `ParsesInStep`, `LosesOnlyTheLast`,
  `DepthIsBounded`, `SecondCheckPasses`. `InStepUnlessFlawed` speaks of the top
  level only. `InStepDeep` says it of every depth: without a flaw the reader is
  at the bytes subtracted so far plus what the activations on the stack have
  used of their datums. The sum over the stack is a recursive function; what
  pushing, popping and changing the top do to it is proved by induction.
* `DiscoveryProofs`: `TypeCorrect`, `FirstGoodIsUsed`, `ReadErrorsExplained`,
  `LocatorsAreFirst`, `ProbeAndNewAgree`, `LocatorsAreFound`. The invariant has
  a part per phase of `New`: which passes were fruitless (`PassInv`), what the
  running scan has collected, as the same function the probe computes
  (`ScanInv`), where the collected offsets come from (`FoundInv`), why a scan
  failed (`FailInv`), which sectors of the tail hold no locator (`TailInv`), and
  which offsets were tried (`ChoiceInv`). `LocatorsAreFirst` adds which
  pass was the last (`LastPass`) and what can be among the offsets of a fallback
  (`RawInv`, `FromFallback`). `ProbeAndNewAgree` compares the two scans through
  the invariant: without a drift `New` comes to a pass with the probe's sector
  size (`NoDrift`), and what the probe collects is what it uses
  (`ProbedAreUsed`). A failed attempt at a proof showed that the offsets had to
  include negative ones and 0, as they do in the code.
* `AesModesProofs`: `SectorsRecovered`, `GenuineBoxesOpen`,
  `ForgeriesRejected`, `CounterStaysInRange`. `MultipliesByX` shows that `gfMulX`, byte by byte with
  carries, is the multiplication in the field for every width of block and byte.
  AES undoes itself only on a block that is not itself the image of the other
  direction; all tweaks and chain blocks consist of atoms of encryptions, so a
  text with one of them added has an atom of its own at its first place, and is
  no such image (`TextIsNew`). The loop invariant (`SectorInv`): the blocks of
  `dst` before `k` are text, those of `src` from `k` on are still ciphertext,
  also where they are one buffer, and `tweak` or `prev` is what encryption used
  at `k`. For CCM (`OpenInv`), of every call that passes the checks, genuine or
  not: `plain` is the ciphertext of the blocks before `k` under the keystream of
  the arguments (`Opened`), then the chain is the authentication code of that
  text so far, and at the end the text is returned exactly if its tag
  (`TagOf`) is the one given.
* `ForgeriesRejected` then is a statement about tags (`TagMeansBox`): arguments
  whose tag belongs to what they open are the box that was sealed. The ideal
  cipher makes it exact where the real one makes it overwhelmingly likely. AES
  makes of a block a new one that holds the key and the block it was made of; a
  place of a tag is the sum of a place of the code and one of the encrypted
  counter block 0. `ChangesAssumption` says that whoever changes a box cannot
  use AES: every piece of AES output in the ciphertext and the tag given is one
  that the box has, and texts and associated data hold none. (Without it the
  theorem is false: the box of another message also opens.) So the two tags hold
  the same two blocks. Counter blocks begin with flags of at most 7, the first
  block of a code with larger ones, later ones with a piece of AES output
  (`OfCounter`, `OfLength`), which tells which of the two is the code
  (`TagHolds`). The counter block gives the nonce, the code the key. Two codes
  that are equal at their last block are equal at the block before, down to a
  first block; as only first blocks are formatted, both codes reach theirs at
  once, so they are of equal length and were fed equal blocks (`CodeUnwinds`,
  `CodeDetermines`). The first block gives the length of the text, that of the
  tag and whether there is associated data (`FirstBlockDetermines`: here the
  limit on the length of the message is needed, as digits determine a number
  only below it), the next ones the length of the data, hence where it ends, the
  data and the text (`InputDetermines`). With the text and the keystream equal,
  so is the ciphertext. TLC checks the same on the changes of `MCAesModes`.

Recursive functions (a scan, a sum over the stack, a loop with `append`, tweaks,
chains, MACs) are proved about in one way: a function with that recursion exists
for every length, by induction (`SetInduction!Induction`, stated for a set of
numbers so that the provers can instantiate it), and then it satisfies the
recursive equation.

Only model-checked:

* `CallsReturn` and `Terminates` (of `DatumParser`): liveness under fairness is
  out of reach of the prover.
* The six runs that show a disagreement: a counterexample is all they need.

## 5. Not modelled

* AES itself, SHA-256, the UTF-16 encoding of passphrases and the million
  rounds of `Stretch`: ideal or injective symbolic functions. There is no state
  between them that two steps could disagree about.
* The contents of datums in `DatumParser`, and the path from its datums to the
  dataset of `BDE`: roles and payloads do not influence the parse.
* `NewValidation` (information.go): nothing in the package calls it.
* A composition of `BDE` with `BitlockerStream`: a stream copies what it needs in
  `NewBitlockerStream` (`Open` of `BDE`), and afterwards shares nothing with the
  `BDE`; `KeyNeverLost` says that the key it has copied stays the right one.
* Several streams at once: they meet in `sectorBufPool` only, as clients of one
  stream do.
* Overflow of `int64` in offsets: all offsets are far below 2^63 for volumes
  that exist; the parser does not bound what it reads from the metadata.
* Accessors, `HasBitLockerBootSectorMarker` and `cmd/main.go`: no state.

## 6. Plan

Done, in this order: reserved regions, stream, refinement, key state, discovery,
datum parser, recovery passwords, ciphers, EOW headers.

Proved, in this order: reserved regions, stream, key state, datum parser,
recovery passwords, the refinement, discovery, ciphers, forged boxes. Every
invariant and action property that a passing run checks is a theorem, and so is
the refinement. Left are the liveness properties, which stay with TLC.
