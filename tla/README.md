# Verification of the PQC-OTA update system

TLA+ models of the STM32L4 bootloader and its PC tools, TLC configurations that
check them on small instances, and theorems checked by TLAPS. The source in
`src/` is the reference; line numbers are in `PROJECT.json` ("map").

## 1. The system

A signed, encrypted firmware package is sent from a PC over CAN (or, in the older
path, over UART) to a bootloader, which authenticates it, decrypts it into slot B
of the flash, records a trial in a metadata page and restarts. Slot A is a fixed
fallback. An application confirms itself; one that does not is given up after
`OTA_MAX_BOOT_COUNT` starts.

| Component | Files | State | Operations |
|---|---|---|---|
| Metadata record | `ota_metadata.c/.h` | one record in flash (active slot, valid flags, pending, count, hash), copies in RAM | load or init, save (erase, then write), prepare, confirm, roll back, reject, select |
| Boot selection | `main.c`, `boot_jump.c` | the record loaded at reset; where `main()` is | boot window, rollback, verify, jump, final loop |
| CAN receiver | `ota_transport_can.c` | `total_size`, `expected_seq`, what has been received, phase | START, DATA, END, timeouts, statuses, install |
| CAN sender | `send_can.py`, `can_protocol.py` | session, frames acknowledged, START retries | send, wait for status, retry, give up, ST-LINK reset |
| UART receiver, sender | `ota_transport_uart.c`, `send_uart.py`, framing in `ota_format.py` | the same over one serial line shared with text | prompt, `u`, START, DATA, END |
| Secure boot check | `secure_boot.c`, `ota_protocol.c`, `ota_signature.c` | none | header, key, signature, hash checks |
| Flash driver | `flash_if.c`, `ota_config.h` | the flash | range check, erase by pages, padded write by double words |
| Streaming cryptography | `ota_aes_gcm.c`, `ota_crypto.c` | GHASH, key stream, SHA-256 and flash buffers | init, update, final |
| Application | outside this repository | the slot it runs from | confirm, reset, fault |
| ML-DSA-65 library | `Middlewares/` | contexts of SHAKE and SHA3 on the heap | absorb, finalize, squeeze, clone, release; key pair, sign, verify; sampling, encodings, transform, rounding |
| Package format, packing tools | `ota_format.py`, `pack.py`, `verify_ota.py`, `verify_manifest.py` | the package while it is made | pack, sign, check, write; parse and check |
| Provisioning | `provision_*.py`, `mldsa_tool.c`, `trusted_publisher_key.c`, `firmware_decryption_key.c` | key files, sources with keys | generate, embed, build |
| CRC32, HAL, PC tests | `crc32.c`, `stm32l4xx_*.c`, `system_stm32l4xx.c`, `test_*` | none of their own | see section 7 |

Interaction: sender and receiver exchange frames and statuses (queues of the PC
adapter, a receive FIFO of three that overwrites its newest entry, a one-byte
receive register on UART). The receiver calls the flash driver, the
cryptography, the secure boot check and the metadata functions. `main()` keeps
its own copy of the record while the receiver changes the stored one. The flash
is what survives between a reset and the next boot, and what an application and
the bootloader share.

What is hard here:

* **Crash and partial failure.** A record is erased before it is rewritten; slot
  B is erased, written and given its manifest while an older record describes
  it; the results of three saves are ignored.
* **Stale state.** `main()` decides with a record it loaded before a transfer; a
  sender sees statuses of older sessions; a receiver sees frames of older ones.
* **Boundaries.** Frames, cipher blocks, hash blocks, flash buffers and double
  words all end in different places; sequence numbers have 16 bits; addresses 32.
* **Arithmetic.** The signature library adds without reduction up to bounds nobody
  checks at run time, unrolls a permutation by hand, cuts coefficients into bytes
  piece by piece, and samples from blocks whose ends fall in the middle of a candidate.
* **Shared files.** Key files are written one after the other, read more than once, and
  the same header is laid out, checked and hashed by two programs in two languages.
* **Termination.** Each end waits with deadlines of its own, and repeated frames or
  text may come in between; trials must end.

What makes each component correct is stated with the properties in section 4;
the hazards, each with its line and its properties, are in `PROJECT.json`.

## 2. Modules

| Module | Models | Role |
|---|---|---|
| `OtaMetadata` | the pure part of `ota_metadata.c` | operators |
| `Bootloader` | the device: `main()`, the phases of the CAN receiver, secure boot, metadata saves, applications, power | state machine |
| `ABUpdate` | what an A/B update promises | abstract specification |
| `BootloaderRefinement` | the refinement mapping from `Bootloader` to `ABUpdate` | refinement |
| `CanOta` | sender, adapter, controller FIFO and receiver protocol over CAN | composition of two programs |
| `UartOta` | sender and receiver over UART | composition of two programs |
| `UpdateTransfer` | what a transport promises its user | abstract specification of `CanOta` and `UartOta` |
| `FlashIf` | `flash_if.c` | operators |
| `FlashCalls` | any sequence of calls of the flash driver | state machine |
| `PayloadPath` | the bytes of a transfer through all buffers into the flash | state machine over `FlashIf` |
| `MlDsaParams`, `MlDsaRounding`, `Montgomery`, `NttTable`, `Sums` | `params.h`, `rounding.c`, `reduce.c`, the table of `ntt.c` | operators |
| `Ntt` | `ntt.c` | operators; state machine of products |
| `Sponge`, `KeccakF` | `fips202.c` | state machine of contexts; operators |
| `Samplers`, `BitPacking` | the samplers and encoders of `poly.c` | operators |
| `HintPacking`, `Packing`, `Encoding` | `packing.c` | operators; state machine of its calls |
| `MlDsaPoly`, `MlDsaSign` | `poly.c`, `polyvec.c`, `sign.c` | operators over `MlDsaRounding` and `HintPacking` |
| `Signing` | the loop of `crypto_sign_signature_ctx` | state machine over `MlDsaSign` |
| `OtaFormat` | `ota_format.py`, the checking tools, `ota_protocol.c`, `ota_signature.c`, `secure_boot.c`, `trusted_publisher.c` | operators |
| `Publishing` | `provision_*.py`, `mldsa_tool.c`, `pack.py` and the build of a bootloader | state machine over `OtaFormat` |
| `BootloaderProofs` | theorems about `Bootloader` and its refinement of `ABUpdate` | proofs |
| `FlashCallsProofs`, `PayloadPathProofs` | theorems about the flash driver and, on its lemmas, about the payload path | proofs |
| `CanOtaProofs`, `UartOtaProofs` | theorems about the two transports | proofs |
| `PublishingProofs` | theorems about packages, tools and device | proofs |
| `MlDsaProofs` | theorems about `MlDsaRounding`, `Montgomery`, `Sponge`, `Encoding` and `Signing` | proofs |
| `NttProofs` | the theorem about `Ntt`, on the arithmetic of `MlDsaProofs` | proofs |
| `MC*` | instances for TLC | |

The CAN receiver is seen three times, each time with the part of its state the
question needs: as a peer in a protocol (`CanOta`), as a sequence of checks and
flash effects (`Bootloader`), and as a pipeline of bytes (`PayloadPath`).

### Bootloader

`pc` is where the processor is. Each phase of `ota_receive_update_can` that ends
in a check or a flash operation is an action (`Check`, `SlotWrite`); every
`return 0` on the way is `LeaveReceive`, back to the boot attempt or the final
loop. `ota_metadata_save` is two steps (`SaveErase`, `SaveWrite`), since power may
fail between them; `then` is its return address, and callers that ignore its
result go on when it fails. A flash operation reports an error at will, up to
`MaxFaults`, having done nothing or part of its work. `PowerLoss` is possible in
every state and clears RAM. A package is described by the outcomes of the checks
(`sizeOk`, `hdrOk`, `keyOk`, `sig`, `tagOk`), the image its header names (`fw`) and
the image its ciphertext decrypts to (`plain`). Magic and CRC of the record are
`metaOk`. `starts` and `blessed` are history variables: no action reads them.

`ConfirmChecksSlot` chooses between the confirm call as `ota_metadata.c` has it
and the one the manual prescribes for applications, which compares the slot first.

### CanOta

The stream is counted in DATA frames; a chunk is (file, number). Sequence numbers
are taken modulo `SeqMod`, START has the largest, and both wrap within one file.
`wait_status` drops statuses with another number, the sender compares the byte
count of a DATA acknowledgement, and nothing else. Assumptions, each justified by
the code or its timing:

* Closing the adapter (`with can.Bus`) drops its queues.
* The 3 s of the device and the 60 s of the PC pass only when nothing is on its way
  (`Quiet`); the 0.2 s of a START retry may pass at any time.
* A new session begins when the device has read its FIFO, or is still busy with
  the last frame of an older session: starting a Python program takes longer than
  reading three frames.
* The application does not use CAN; frames wait in the adapter meanwhile.
* A malformed frame ends a transfer exactly as a timeout does, and is represented by
  a frame that is lost.
* The checks of content tell the frames of one good file, in order, from anything
  else, and may do so at any frame (header, signature) or at the end (tag, hash).

### UartOta

The device is polled: what arrives while it erases, prints or pauses is lost but
for one byte (`rdr`), and an overrun error answers the next read. A stale byte of
a frame may have any value, `u` included. Text and statuses share the line to the
PC; the tool skips text, but its deadline does not wait for it. A damaged frame is
`BAD`, and what is left of it may arrive after the device has given it up. The
sender starts no session before the line is empty (it sleeps 0.2 s), a window does
not expire with a frame on the line (1 s against milliseconds), and repeated
prompts in the input buffer count as one. `README_pc_tool.md:13` says that the
bootloader no longer compiles this receiver; its caller is therefore external and
either starts an application or calls `ota_wait_for_update`.

### FlashIf, FlashCalls, PayloadPath

A flash is a function from addresses to bytes. `WritableRange` computes modulo
2^32, as the code does. How far the hardware gets before an error is the parameter
`done`. In `PayloadPath` a byte is a token of its origin, a plaintext byte also of
the key-stream byte it was combined with; AES, SHA-256 compression and GF(2^128)
multiplication are uninterpreted, so GHASH and SHA-256 are the sequences of blocks
they were given. The reference values are computed from the whole package at once.

### The ML-DSA-65 library

The functions of the library keep no state between calls, except the contexts of
the sponge. `MCMlDsa` runs four state machines and single calls, one of the five at
a time: the sponge interface (`Sponge`: two contexts, any order of init, absorb,
finalize, squeeze, clone and release), the signer (`Signing`), the functions of
`packing.c` (`Encoding`), products through the transform (`Ntt`), and one call at a
time of everything else, with arguments from sets that reach each branch. Each part is compared with the definition of the
standard (FIPS 202, FIPS 204), written beside it, not with itself:

* `Sponge`: a byte is the set of the terms XORed into it and the permutation is
  uninterpreted, so two outputs agree only if they agree for every permutation and
  every message. The reference pads the whole message and absorbs it block by block.
* `KeccakF`: the real permutation, lanes as sets of bits. The table `Taken` is what
  the unrolled code says of each variable; the reference computes theta, rho, pi, chi
  and iota one after the other. The two halves of the unrolled loop are the same but
  for the names of the variables and the round constant, so one operator stands
  for both.
* `Samplers`: the stream is a function, squeezed block by block; the reference reads
  it unbroken.
* `BitPacking`: shifts and masks of one group as a table of pieces; the reference is
  the bit string of all coefficients.
* `HintPacking`: the hint as positions and counts. `Packing`: the fields of keys and
  signatures, with packed polynomials as byte strings. `Encoding` calls them with every
  byte string that may stand for a hint, every hint with at most OMEGA ones and every key.
* `Ntt` over `Montgomery`: the layers of the transform and its inverse, one function of
  the array before it each, for a small prime; the reference is the product modulo
  X^N + 1, and every two of a set of factors are multiplied. Its table is made from the
  root. `NttTable` is the table of the program; `TableAssumption`, which the run
  evaluates, says that it holds the powers of 1753 in the order and form of `zetas(k)`, that
  1753^256 is -1 and that f is R^2 / N.
* `MlDsaSign` over `MlDsaPoly`, `MlDsaRounding` and `HintPacking`: key pair, one pass of the
  rejection loop, hint, verification. A digest is the tuple of what was hashed, and the
  product of polynomials is taken directly, as `ProductIsNegacyclic` permits.
* `Signing`: a call (`Call`, which refuses a long context), its passes (`Try`) and its
  return. Each pass draws any mask and meets any challenge of two sets, which stands for
  every seed and every hash function; a pass that a check sends back to `rej:` leaves no
  trace. The verifier gets the challenge of the same digest (`outcome.cp`). A mask is drawn
  by `poly_uniform_gamma1`, which only squeezes a stream and unpacks it with `polyz`.

### OtaFormat and Publishing

A digest, CRC, signature, tag or ciphertext is the term of what it was made from.
The bytes of a header are its fields with the places they lie at, computed from
the layout of each side, so that a difference between `OTA_HEADER_FORMAT` and
`ota_header_t` shows in every check. The functions of the tools and of the device
are translated separately, the checks of each field included, and compared with each
other on headers with single fields spoilt (`ToolsAgreeWithDevice`).

`Publishing` has the files the tools share. Each write of a file is a step, each
tool runs once at a time but beside the others, and a tool may stop at any of its
steps with the file it was writing cut short (`Torn`). `BurnBootloader` compiles
what the sources hold; a source that was cut short does not compile. `pack.py` reads the key
files once (`pack.py:43`), and `mldsa_tool` reads them again (`:73`, `:74`), hence
three steps. What the model shows of the tools:

* A key generation that breaks off between its two files is caught when a package
  is verified (`pack.py:74`), and only `--force` recovers from it; the mutant without
  that step packs packages that no device takes.
* Keys replaced while `pack.py` works may give a package whose header names one pair and
  whose signature is of another. `InstalledWasPacked` says that no device takes it, whichever
  of the two pairs it has; the mutant that compares the signature but not the named key
  takes it. `PackedIsAccepted` leaves out only such a package.
* `pack.py` looks neither at the size limits of the device nor at its publisher, and
  `verify_ota.py` ignores the publisher: `ToolsAgreeWithDevice` states exactly this
  difference.

## 3. Runs

Each run takes less than two minutes on two cores.

| Run | Configuration | Shows |
|---|---|---|
| `boot_safety` | `MCBootloader.cfg` | every order of transfers, starts, confirmations and resets, two flash errors, one power failure |
| `boot_liveness` | `MCLiveness.cfg` | one flash error and one power failure, three packages |
| `refinement` | `MCRefinement.cfg` | no flash errors, two power failures: implements `ABUpdate`, and only slot B ends its trial |
| `can` | `MCCanOta.cfg` | two sessions, three files, losses, a reset; safety and liveness |
| `uart` | `MCUartOta.cfg` | the same over UART, safety and liveness |
| `flash_driver` | `MCFlashCalls.cfg` | every call on every content of a small flash |
| `payload_path` | `MCPayloadPath.cfg` | every payload size and every division of two transfers into frames |
| `mldsa_library` | `MCMlDsa.cfg` | every order of sponge calls; the signer pass by pass, with any mask and challenge; the encoders on every byte string; calls of all other functions against the standard |
| `publishing` | `MCPublishing.cfg` | every order of provisioning, packing and building, one tool that breaks off |
| `power_loss_trial`, `valid_flag`, `confirm_any_slot` | `MCPowerLoss.cfg`, `MCValidFlag.cfg`, `MCConfirmForeign.cfg` | the three findings of section 6 |

Bounds and why they are enough:

* **Bootloader.** Two published images (an update and a later one), one without a
  signature, one too small for secure boot, one published but not startable;
  packages that fail each check in turn. `OTA_MAX_BOOT_COUNT` is the real 3. Two
  errors and one power failure let a failed save meet a failed erase and a crash;
  the theorems do not depend on these bounds.
* **CAN and UART.** Files of three frames and `SeqMod = 2`, so that numbers repeat
  within a file and collide with the number of START; two files of the same size,
  so that frames of one could be taken for the other; a third file the device
  refuses. Two sessions are what one needs to meet the remains of another; a FIFO
  of two and up to three START frames overflow it.
* **Flash driver.** Bank 1 of one page, slot B of two, metadata of one and a page
  behind them, in an address space of 32 bytes (the flash ends two below its
  end), so that sums of address and length wrap.
* **Payload path.** Sizes of buffers and blocks are small and, as in the code, not
  multiples of the frame length; payloads take every residue modulo each of them.
* **ML-DSA library.** Contexts with a rate of 3 and 4 bytes of state take up to 5
  bytes and give up to 4, so that messages end before, at and behind a block and
  a squeeze crosses one. Modulus 257 with R = 2^14 and 8 coefficients gives three
  layers of the transform. The permutation has its real 25 lanes of 64 bits and its 24
  rounds; the rounding has the real Q and GAMMA2, the bit formats their real widths,
  the table its 255 entries. The signature scheme has two
  polynomials of four coefficients and hints of at most two ones, so that a hint can be
  full, fall into either polynomial or both, and be too long; bytes go up to 3, so that a
  count can be too high. Five masks and the eight signed powers of X make the signer reject for z, for w0 and for the hint, and give hints
  at high parts 0, 15 and between. The rejection for c * t0 never happens: with 49 ones in
  c, |c * t0| is at most 49 * 4096, which is less than GAMMA2. Two contexts and three
  messages divide the same bytes in two ways; a third context is too long. The encoders see
  every byte string of the length of a hint and every key over two byte values. The
  theorems of section 5 have none of these bounds.
* **Publishing.** Two key pairs and two AES keys, so that a package meets the keys of
  another; one broken-off tool; an image of the smallest size that boots and one too
  large for the slot; two publishers, which nothing distinguishes (symmetry). Arriving
  packages are mixtures of two packages and damaged ones, with the CRC made anew or not;
  a spoilt number is 0 or 9, the capacity of the slot.

Deadlock is checked wherever the program cannot stop. `CHECK_DEADLOCK FALSE` is in
the transport and payload configurations, where sessions and transfers are bounded:
when they are used up, nothing happens any more. `ABUpdate` and `UpdateTransfer` are checked
as properties of the runs that refine them.

## 4. Properties

* `OnlyAuthenticRuns`: slot B runs a published, complete, startable image whose
  manifest is its own.
* `SignatureBeforeErase`: slot B changes only for an accepted package.
* `AckMeansCommitted`: at the final ACK, image, manifest and trial are in the flash.
* `RecordsConsistent`: selected implies valid, only B on trial, no count without trial.
* `TrialBound`: unconfirmed starts are at most `OTA_MAX_BOOT_COUNT` plus one for each
  flash error (a count that cannot be saved is ignored).
* `ConfirmedByItself`: only slot B ends its trial. It holds without flash errors although
  the confirm call does not compare slots, because the rejection of slot B is saved
  before slot A starts; it is proved for any errors when the call compares them; with one
  flash error and without the comparison it fails (section 6).
* `AlwaysComesUp`, `TrialEnds`: the device comes back to an application; trials end.
* `ImplementsABUpdate`: the device is an A/B update.
* `ImplementsTransfer`: success on the PC means that this file was committed during
  this session; nothing is installed that no sender finished.
* `StreamsAgree`, `InStep`: both ends agree on file and position; no status answers
  another frame than the last.
* `UndisturbedSucceeds`: without losses, delays and resets, a good file gets through.
* `SenderEnds`, `ReceiverReturns`: neither end waits for ever.
* `OneAreaPerCall`, `EraseIsWhole`: a driver call changes one area and nothing else; a
  successful erase is complete.
* `WithinBuffers`: no buffer and no field is written past its end, and a full buffer is
  emptied before the next byte, whatever the frames.
* `FlashFollowsStream`, `HashIsOfImage`, `TagIsOfStream`, `ManifestReadsBack`,
  `NoWriteRefused`: streaming computes what the unstreamed definition says.
* `XofIsSponge`: however input and output are cut into calls, and whatever copies do,
  the output is that of the sponge over the whole message.
* `PermutationIsKeccak`: the unrolled rounds are those of the standard.
* `SamplersFollowStream`: no byte of a stream is lost or used twice at the end of a block;
  no two polynomials come from one stream.
* `CoefficientsReadBack`: packed coefficients are the bit string of the standard and read back.
* `EncodingIsUnique`: keys and signatures read back field by field; an accepted hint has at
  most OMEGA ones and one encoding, so that a signature cannot be rewritten into a second.
* `ProductIsNegacyclic`: transform, product and inverse multiply in the ring, with a result
  below q, and no coefficient leaves its word, after any layer and before any reduction.
* `VerifiesWhatWasSigned`: the verifier accepts what the signer returned, for this
  message, context and key only, and with this hint only.
* `PackedIsAccepted`, `InstalledWasPacked`, `ToolsAgreeWithDevice`: a package is installed by
  the device it was made for; nothing else is, in particular none with two pairs of keys;
  tools and device check the same.

### Fairness

`Bootloader`: weak fairness of `Progress`, what the processor does by itself; every
wait of the code has a timeout, except the final loop, where nothing is assumed.
Nothing is assumed of senders, applications, faults, power. `AlwaysComesUp` excepts
devices on which transfers keep committing, `TrialEnds` assumes restarts.
`CanOta`, `UartOta`: weak fairness of each program and of the medium (CAN adapters
retransmit until acknowledged; a serial line carries what is written). In `UartOta`
the deadline of the PC is fair by itself, since it is a point in time that text from
the device does not put off.

## 5. Proofs

`BootloaderProofs` proves for every set of images and packages, every
`OTA_MAX_BOOT_COUNT` and any number of errors and power failures: `TypeCorrect`,
`RecordsAgree`, `Invariance` (`IInv`), `Authenticity`, `AckIsTruthful`,
`TrialsBounded`, `EraseIsAuthorised`, `SelfConfirmation`.

The properties are not inductive. `IInv` adds what they rest on:

* `PackageInv`: the checks a transfer has behind it at each phase. Without it an
  erase could follow a package that was never accepted.
* `ManifestInv`: a manifest signature that verifies is for a published image, and
  there is none between the erase of the manifest page and its rewriting. Without it
  a new image could meet an old manifest.
* `CommitInv`: from the verification to the ACK slot B stays verified; what is being
  saved is the trial record.
* `RunningInv`: an application runs exactly at `app` and in its own saves.
* `SaveInv`: in a write the old record is gone; whom a trial record is saved for.
* `TrialInv`: `starts` against the count in the flash and in RAM, with one start paid
  for between the save and the jump (`Paid`) and one extra for each error. The two
  copies may differ after a failed save, hence a conjunct for each.

Each action has a lemma per conjunct group that it can disturb; the theorem
combines them.

Under the hypothesis `MaxFaults = 0` it proves `FaultFreeInv` (the record in RAM is
the stored one), `ImplementsABUpdate`, and `ConfirmedByItself` of the code as it is,
with a confirm call that does not compare slots. The mapping lets a save
take effect when the old record is gone (`Effective`), maps slot B to its image when
it would pass secure boot and to nothing otherwise, and lets a start be paid for
between the save of the count and the jump (`Ticket`). The hypothesis is needed: with
a flash error a trial may go on uncounted, which `ABUpdate` does not allow.

`FlashCallsProofs` proves `TypeOK`, `OneAreaPerCall` and `EraseIsWhole` for every layout, page
and word size with: slot B and metadata in bank 2, not overlapping, page-aligned; the
end of the flash below 2^32; the longest write plus a double word below 2^32 (the
callers' longest is 3309 bytes). The lemmas about the driver, which the payload
path needs too, come first: they show that a sum wraps at most once, that an accepted range lies in one area, that pages and padded words stay
inside it, and that a write of whole words to an erased range succeeds and stores them.

`PayloadPathProofs` proves `WithinBuffers`, `FlashFollowsStream`, `HashIsOfImage`,
`TagIsOfStream`, `ManifestReadsBack` and `NoWriteRefused` for every size of header,
signature, payload, frame, buffer and block, every cut of a stream into frames, and any
number of transfers. Assumed of the constants (`PathAssumption`, `ManifestAssumption`):
buffers hold whole words, a word is not split between image and manifest, and the
manifest fits behind the image. The invariant `PathInv` has the parts

* `Position`: where in the stream the receiver is, and that header and signature hold
  the bytes before;
* `Limits`: what has not left a buffer is less than a block;
* `Streams`: the contexts of SHA-256 and GHASH hold the stream so far, cut into blocks and
  a rest (`CutAfter`), and the counter stands at the key-stream block of the next byte;
* `Buffered`: what is written and what is in the flash buffer make up the payload;
* `Flash`: the image up to `written`, and what is still erased behind it, without which a
  later write could be refused.

The properties compare the contexts at the end with a computation over the whole package;
`Streams` is what each frame preserves of that. The loops of the code are recursive
functions here. What they compute for every input is proved by induction over sets of
naturals (`SetInduction`, from the least element of a set), which needs no operator
parameter.

`UartOtaProofs` and `CanOtaProofs` prove, for every set of files with any positive number of
frames, every number of sessions, retries, faults and resets, and over CAN every width
of the sequence numbers and FIFO depth: `StreamsAgree`, `UndisturbedSucceeds`,
`ImplementsTransfer`, and over UART `InStep`. Nothing of this is inductive. Both
inductive invariants have the parts `Position` (the state of the sender against the number of acknowledged frames),
`LineInv` (which frames may be under way, and where), `ReplyInv` (which statuses),
`StreamInv` (a busy receiver that has acknowledged a frame of this session holds this
file) and `InstallInv` (a complete file that an END may still close has been sent to
its end).

* UART: the sender waits for a boot prompt, which the device prints when it is done with
  any older session, so no older ACK follows it; from then on stop-and-wait leaves one
  frame or one status under way, and a number never meets another session.
* CAN: nothing is emptied, and numbers repeat. The argument is the order of things:
  what the device owes an older session it answers before it reads a frame of the new
  one, every START is read before the first DATA frame, and from then on one
  frame or one ACK is under way. A status of an older session can pass for the ACK of
  a START, never for that of a DATA frame, where the count is compared, nor for the
  final one, because a receiver that is still installing cannot acknowledge DATA.

`UndisturbedSucceeds` needs more than these: they say what may be under way, this one that
nothing else is. `CInv` adds `CalmInv`, which holds as long as a session has seen no loss,
delay, reset or session before it that was cut off: the line, the receiver and the statuses are
exactly where the sender takes them to be, one case for each of its states (`Place`); the
receiver expects as many frames as the file has (`Sizes`); no refusal is on its way
(`NoErrors`, over CAN `Answered`). Then the sender's timeout is the only step that
ends a session as failed, and a timeout counts as a disturbance (`FailInv`).

All of these were found with TLC first, as invariants of the instances of section 3 (and
over CAN also with sequence numbers modulo 1, 2 and 3 and FIFOs of 1 to 3 frames).

`PublishingProofs` proves `PackedIsAccepted`, `InstalledWasPacked` and `ToolsAgreeWithDevice` for
all images and publishers and any number of keys and failures. The cryptography is
symbolic: a term is made only from its arguments, so a signature is of one key and one
message. That is the assumption of these theorems, with `ImageAssumption` (an image is an
image term and no other). The argument:

* The layouts are computed: no two of the sixteen fields share a place, so what was packed
  reads back, for tools and device alike, and CRC and tag are of the header itself.
* `PublishInv`: while no key file moves (`steady`), a package at work names the keys in the
  files, and one that the public key file has verified is signed with the key it names.
  Without the last part a half-finished key generation would leave packages that no device
  takes.
* A signature that verifies fixes the header; the tag in the header fixes ciphertext and
  key; the size in it the length. So all that installs is what was packed, whatever the
  other parts came from.
* The signature verifies with the device's key and the header names it, so both are of one
  pair (`SignedWithOnePair`): the keys cannot have been replaced between the two.

`MlDsaProofs` proves, for every coefficient and with the real constants, that
`freeze` is the remainder, that `power2round` and `decompose` divide as the standard asks,
and that `use_hint` gives back the signer's high part for every error below 2 * GAMMA2
(`HintRecovers`). The last rests on `DecomposeIs` and `NearestIsNearest`, which pin down the
multiplication by 1025 and the two shifts; the bands around 0 and Q are cases of
their own. It proves for every modulus and word size with `q * QINV = 1`
modulo R that the reduction is congruent to a / R and smaller than q. Two comments of
`reduce.c` are slightly wider than what is true: `reduce32` needs a bound from below
(`reduce32(-2^31) = -6291200`), and `montgomery_reduce` gives q itself at the largest
argument that is admitted. Neither argument occurs.

The same module proves `XofIsSponge` (`AbsorbInPieces`) for every rate and width, any set of
contexts, and messages and divisions of every length; the permutation stays
uninterpreted. The inductive invariant is `SpongeInv`: a context that has absorbed m is
`Held(m)`, the state after the whole blocks of m with the rest of m XORed in, and one that
has given out d bytes is `Waiting(s, d)`, what is left of the block those bytes end in, with
`Out(s, 0, d)` drawn. `XofIsSponge` alone says nothing of the count in `s_inc[25]` or of the
bytes held back. The argument:

* `AbsorbHeld`: absorbing y into `Held(x)` gives `Held(x \o y)`. The first round fills up the
  block that is open, the others take whole blocks (`AbsorbRounds`, by induction on the
  round); with no round to make, y only joins the bytes held.
* `AbsorbIsHeld`: `keccak_absorb(m)` is `Held(m)` padded, so finalizing a context is
  the one-shot absorption of all it was fed.
* `OutJoins` and `SqueezeWaiting`: output in two pieces is the output at once, whether the
  first piece ends within a block or with it.
* `PaddedIs` and `FinalState`: the domain byte and 0x80 XORed into the state are the padding
  of the reference, also where both fall on one byte, one byte before the rate; so
  `XofOutput` is the same stream (`XofIs`).

The recursive functions of `Sponge` are followed by induction over a set
(`SetInduction`, from the well-founded order of the naturals).

`MlDsaProofs` also proves `EncodingIsUnique` (`SpecEncodingIsUnique`) for every degree, number of
polynomials, OMEGA and length of a field. Assumed is what the byte of a position and of
a count needs, `OMEGA < N` (`ParamsAssumption`), and that lengths are natural numbers. Two
theorems about hints carry it:

* `HintIsCanonical`: an accepted byte string has at most OMEGA ones and is what `pack_sig`
  makes of the hint read from it. Each of the three checks of `unpack_sig` is needed: counts in order cut the
  positions into segments, ascending positions make a segment the list of the ones of
  its polynomial (`PositionsAccepted`), and the zeros behind leave nothing to choose.
* `HintReadsBack`: conversely, of at most OMEGA ones `pack_sig` makes a string that is accepted
  and read as the same hint; its segments are ascending and lie end to end (`Segments`).

Keys and signatures are then a matter of adding up lengths.

Last, `MlDsaProofs` proves `VerifiesWhatWasSigned` for every degree, vector length,
OMEGA, matrix, set of secrets, masks and challenges, and for calls that try any number
of masks, with the Q, GAMMA2, BETA and rounding of the code. `SigningAssumption` says
what the samplers guarantee: ranges of the coefficients of matrix, secrets, masks and
challenges. Nothing is assumed of the number of ones in a challenge: that c * s2 stays in the low
bits, and c * t0 below GAMMA2, the signer checks itself. The property looks only at
the last pass of a call that has returned; the inductive invariant (`SigningInv`) says that a
call under way is for a request with a context of at most 255 bytes, and that what it
returns is the signature of one pass of that request, with the challenge kept. The argument:

* `VerifierRestoresHighBits`. With w = A y the verifier computes
  A z - c t1 2^13 = w - c s2 + c t0 modulo Q. The products are recursive sums reduced at
  each step; `CongAdd` and its companions follow them by residues, which makes a product
  linear in its second argument. What the signer has checked gives |w0 - c s2| < GAMMA2 - BETA
  and |c t0| < GAMMA2, and with these `HintRecovers` says that the hint restores the high
  bits of w, in each coefficient and also where they wrap. Without the check of w0, `c s2`
  could move the high bits and the theorem would be false.
* `MuSeparates`: the length byte separates context and message. It is the length modulo
  256, so that the theorem needs contexts of at most 255 bytes, as both functions ensure.
* `HintsDiffer` and `HintsSame`: `use_hint` with and without a hint never gives the same high part,
  so high bits determine the hint, and by `HintIsCanonical` the hint its bytes.

A digest is the tuple of what was hashed: that hashing is injective is the assumption of
the second half of the theorem (nothing else verifies), not of the first.

`NttProofs` proves `ProductIsNegacyclic` (`TransformMultiplies`) for every degree that is a power of
two, every modulus, every root and any factors below q. Assumed of the constants
(`NttAssumption`): ROOT^N is -1, f * N is R^2, and the words are long enough,
N * q <= R / 2 and (layers + 1)^2 * q <= R / 2. The modulus need not be prime. The constants of
the program satisfy this: `ProgramHasRoom` gives the two bounds, the first one by
little (256 * 8380417 = 2145386752 < 2^31), and f * N; `TableAssumption` gives the root and says
that the literals are the table that `Ntt` makes. The argument:

* Before layer i an array is a row of blocks, and block k stands for a polynomial modulo
  X^len - r(k), with r(k) a power of the root. `Level(a, b, i)` multiplies a and b block by
  block in that sense. Level 0 is the negacyclic product (`LevelZero`), the last level
  the product coefficient by coefficient (`LevelLast`).
* The modulus of a block factors into X^(len/2) - t and X^(len/2) + t, where t is the zeta
  that the loop takes for this block (`RootsAre`): this is where the bit-reversed order of
  the table is needed, by induction on the bits. A layer leaves the two remainders
  (`LayerOnPiece`), and the product of remainders is the remainder of the product
  (`LayerMultiplies`), so each level follows from the one above (`LevelStep`).
* The inverse takes the table backwards and negated: the entry it meets in a block (`Mirror`)
  is minus the inverse of the one that the forward layer used there, so a layer back undoes
  one forward but for a factor 2 (`PairBack`). All these factors make N, which f removes
  together with the R^-1 of the product (`FactorCancels`).
* Nothing is reduced on the way: forward, each layer adds less than q to the bound
  (`ForwardBound`); back, each layer doubles what it does not multiply (`BackwardBound`),
  which is where N * q must fit into a word.

The products of `NttProofs` are of variables, beyond the SMT solver; `Mul` hides them, with the
few laws that are used as lemmas (`MulMore`). The sums of several products that the signer
transforms back pass `reduce32` before (`polyveck_reduce`), and `ReduceRange` bounds that.

Only model-checked:

* Liveness: fairness and ENABLED are outside the prover.
* `PermutationIsKeccak` and `CoefficientsReadBack` work on single bits of fixed formats; TLC
  computes them with the real widths, and the prover has no theory of bits.
* `SamplersFollowStream`: the samplers and their references are declared RECURSIVE.

## 6. Where code and documents differ

1. **A new image without a trial** (`power_loss_trial`). Power fails between the
   manifest (`ota_transport_can.c:481`) and the record (`:500`) when the image before
   was confirmed: the old record starts the new image without trial or rollback. In
   the trace v1 is installed, confirmed and reset; the power fails right after v2's
   manifest; without a power failure the property holds on this instance. The save of a
   confirmation, when no record is readable for a moment, is excepted.
   The manual asks for both (`OTA工程原理说明书-1.md:67`, `:68`).
2. **`app_b_valid` during a transfer** (`valid_flag`). Slot B is erased while the
   record calls it valid; the manual says it is not marked valid (`:717`, `:164`).
   Secure boot still refuses the slot.
3. **Confirming another slot** (`confirm_any_slot`). `ota_metadata_confirm_active_app`
   does not compare the slot, which the manual requires (`:472`). With one flash error
   slot A runs while the record has B on trial, and confirms B.

## 7. Not modelled, and why

* CRC32, AES rounds, SHA-256 compression, GF(2^128): arithmetic on data, used as
  uninterpreted functions or symbolic terms. AES and SHA-256 have test vectors in
  `src/`; what goes wrong beside them, at the ends of blocks, is `PayloadPath`.
* The ML-DSA library at full size: degree 256 and vectors of 5 and 6 polynomials are out
  of reach, and the products modulo the real Q inside the transform do not fit TLC's
  integers; the proofs of rounding, reduction and transform cover the real constants. The
  assembly variant of the permutation (`fips202.c`, behind `#ifdef`) is not in the repository.
* Failures of `randombytes` (the library ignores its result) and of memory allocation
  (`fips202.c` exits).
* HAL, clocks, interrupts, register work of the jump: vendor code without protocol
  state; bus-off, filters and bit timing of CAN.
* Real time: deadlines are nondeterministic, with the restrictions named above, and
  the wrap-around of the millisecond tick (an unsigned difference) is left out. How
  long an abandoned receiver can be kept busy by repeated STARTs is not measured.

## 8. Plan

Done so far, in this order: `OtaMetadata`, `Bootloader`, `ABUpdate` and their proofs;
`CanOta`; `FlashIf`, `FlashCalls` and their proofs; `PayloadPath`; `UpdateTransfer`;
`UartOta`; the ML-DSA library with the proofs of its rounding and reduction;
`OtaFormat` and `Publishing`; the proofs of `UartOta` and `CanOta`, of `PayloadPath`, of
`UndisturbedSucceeds` over both transports, of `Publishing`, of `Sponge`, of `Encoding`, of
`Signing` and of `Ntt`.

Next, most important first:

1. A composition of `CanOta` with `Bootloader`, with one commit step shared, to carry
   "success on the PC" through to "slot B is on trial".
2. `BitPacking`: that a table of pieces covers each bit of a coefficient once, for every
   number of coefficients.
