---------------------------- MODULE PayloadPath ----------------------------
(***************************************************************************)
(* The bytes of a transfer inside the receiver: frames of any length are   *)
(* cut into header, signature and ciphertext, which passes through the     *)
(* buffers of GHASH (16 bytes), the key stream (16), SHA-256 (64) and the  *)
(* flash (256), none of which is aligned with the frames or each other.    *)
(*                                                                         *)
(* A byte is a token that says where it came from, and GHASH and SHA-256   *)
(* are the sequences of blocks they were given: two runs over different    *)
(* bytes, or differently cut ones, are different.                          *)
(***************************************************************************)
EXTENDS FlashIf, SequencesExt

CONSTANTS
    HeaderSize,        \* 148
    SignatureSize,     \* 3309
    APP_B_IMAGE_SIZE, APP_B_MANIFEST_ADDR,
    SignatureOffset,   \* APP_MANIFEST_SIGNATURE_OFFSET, 152
    BufferSize,        \* OTA_CAN_FLASH_BUFFER_SIZE, 256
    GcmBlock,          \* 16
    ShaBlock, ShaTail, \* 64, and the 8 bytes of the length in the last block
    MaskedFields,      \* header bytes that are zero in the AAD: tag and CRC
    MaxFrame,          \* OTA_CAN_DATA_BYTES
    PayloadSizes,      \* payload sizes a sender may announce
    MaxTransfers       \* bound: transfers

ASSUME PathAssumption ==
    /\ {HeaderSize, SignatureSize, BufferSize, GcmBlock, ShaBlock, MaxFrame} \subseteq Nat \ {0}
    /\ MaskedFields \subseteq 1..HeaderSize
    /\ ShaTail \in 1..ShaBlock - 1 /\ BufferSize % Word = 0
    /\ APP_B_IMAGE_SIZE \in Nat /\ PayloadSizes \subseteq 1..APP_B_IMAGE_SIZE
    /\ MaxTransfers \in Nat
ASSUME ManifestAssumption ==
    /\ APP_B_MANIFEST_ADDR = APP_B_START_ADDR + APP_B_IMAGE_SIZE
    /\ APP_B_START_ADDR % Word = 0 /\ APP_B_IMAGE_SIZE % Word = 0
    /\ SignatureOffset \in Nat /\ SignatureOffset % Word = 0 /\ HeaderSize <= SignatureOffset
    /\ APP_B_IMAGE_SIZE + SignatureOffset + SignatureSize + Word <= APP_B_SIZE

VARIABLES
    phase,      \* where ota_receive_update_can is
    transfer,   \* which transfer this is: tells their bytes apart
    size,       \* header.payload_size
    left,       \* bytes of the current frame still to be taken
    pos,        \* stream_received + offset
    header, signature,
    payload,    \* payload_received
    ghash, sha, flashBuf,   \* [buf, out]: a buffer and the blocks that left it
    counter, used,          \* gcm_ctx.counter and stream_used
    written,    \* flash_written
    mem         \* the flash

position == <<transfer, size, left, pos>>
parts    == <<header, signature, payload>>
crypto   == <<ghash, sha, counter, used>>
vars == <<phase, position, parts, crypto, flashBuf, written, mem>>

Cipher(i)      == <<"c", transfer, i>>
Plain(i, b, o) == <<"p", transfer, i, b, o>>
Zero == <<"0">>
Mark == <<"0x80">>
LengthOf(n) == <<"length", n>>

Total == HeaderSize + SignatureSize + size
Empty == [buf |-> <<>>, out |-> <<>>]
Least(m, n) == IF m < n THEN m ELSE n
Incoming(n) == [k \in 1..n |-> Cipher(pos + k)]

-----------------------------------------------------------------------------
(* Buffers.                                                                *)

(* Mutant: a buffer that is full is not emptied.                           *)
Overfill(st, bytes, unit) == [buf |-> st.buf \o bytes, out |-> st.out]

(* One round of a loop that fills a buffer: when full, it leaves as a block.*)
Fill(st, bytes, unit) ==
    LET b == st.buf \o bytes
    IN  IF Len(b) = unit THEN [buf |-> <<>>, out |-> Append(st.out, b)]
                         ELSE [buf |-> b, out |-> st.out]

(* A round of the loops of ghash_bytes, ota_sha256_update and the receiver *)
(* takes as many bytes as fit; at is how many have been taken.             *)
Round(s, data, unit) ==
    LET take == Least(unit - Len(s.st.buf), Len(data) - s.at)
    IN  [st |-> IF s.at = Len(data) THEN s.st
                ELSE Fill(s.st, SubSeq(data, s.at + 1, s.at + take), unit),
         at |-> s.at + take]

Absorb(st, data, unit) ==
    LET run[i \in 0..Len(data)] ==
            IF i = 0 THEN [st |-> st, at |-> 0] ELSE Round(run[i - 1], data, unit)
    IN  run[Len(data)].st

Zeros(n) == [i \in 1..n |-> Zero]

PadBlock(st, unit) ==
    IF st.buf = <<>> THEN st
                     ELSE [buf |-> <<>>, out |-> Append(st.out, st.buf \o Zeros(unit - Len(st.buf)))]

(* Mutant: the AAD is not padded to a block of its own.                    *)
AadUnpadded(aad) == Absorb(Empty, aad, GcmBlock)
GcmInit(aad)     == PadBlock(Absorb(Empty, aad, GcmBlock), GcmBlock)

(* The two lengths fill one block.                                         *)
GcmFinal(st, aadLength, length) ==
    Append(PadBlock(st, GcmBlock).out, <<LengthOf(aadLength), LengthOf(length)>>)

(* Key stream: a fresh block of the counter whenever the last is used up;  *)
(* gcm_ctx.stream is always that of counter - 1.                           *)
DecryptByte(s, c) ==
    LET fresh == s.used = GcmBlock
        n == IF fresh THEN s.counter + 1 ELSE s.counter
        o == IF fresh THEN 0 ELSE s.used
    IN  [counter |-> n, used |-> o + 1, plain |-> Append(s.plain, Plain(c[3], n - 1, o))]

DecryptFrom(s, data) ==
    LET run[i \in 0..Len(data)] ==
            IF i = 0 THEN s ELSE DecryptByte(run[i - 1], data[i])
    IN  run[Len(data)]

Decrypt(data) ==
    DecryptFrom([counter |-> counter, used |-> used, plain |-> <<>>], data)

(* The last one or two blocks of SHA-256, cut at the given fill.           *)
ShaPadding(st, length, limit) ==
    LET b == Append(st.buf, Mark)
        tail(c) == c \o Zeros(ShaBlock - ShaTail - Len(c)) \o [i \in 1..ShaTail |-> LengthOf(length)]
    IN  IF Len(b) > limit
          THEN Append(Append(st.out, b \o Zeros(ShaBlock - Len(b))), tail(<<>>))
          ELSE Append(st.out, tail(b))

(* Mutant: a block with just enough room is not used.                      *)
ShaFinalEarly(st, length) == ShaPadding(st, length, ShaBlock - ShaTail - 1)
ShaFinal(st, length)      == ShaPadding(st, length, ShaBlock - ShaTail)

-----------------------------------------------------------------------------
Init ==
    /\ phase = "idle" /\ transfer = 0 /\ size = 0 /\ left = 0 /\ pos = 0
    /\ header = <<>> /\ signature = <<>> /\ payload = 0
    /\ ghash = Empty /\ sha = Empty /\ flashBuf = Empty
    /\ counter = 0 /\ used = 0 /\ written = 0
    /\ mem = [a \in Address |-> Blank]

(* ota_receive_update_can is called with an announced size that fits.      *)
Begin ==
    /\ phase \in {"idle", "done"} /\ transfer < MaxTransfers
    /\ phase' = "receive" /\ transfer' = transfer + 1
    /\ size' \in PayloadSizes /\ left' = 0 /\ pos' = 0
    /\ header' = <<>> /\ signature' = <<>> /\ payload' = 0
    /\ flashBuf' = Empty /\ written' = 0
    /\ UNCHANGED <<crypto, mem>>

(* A DATA frame that passes the checks of CanOta!Acceptable.               *)
Frame ==
    /\ phase = "receive" /\ left = 0 /\ pos < Total
    /\ left' \in 1..Least(MaxFrame, Total - pos)
    /\ UNCHANGED <<phase, transfer, size, pos, parts, crypto, flashBuf, written, mem>>

Take(n) == left' = left - n /\ pos' = pos + n /\ UNCHANGED <<transfer, size>>

TakeHeader ==
    /\ phase = "receive" /\ left > 0 /\ Len(header) < HeaderSize
    /\ LET take == Least(HeaderSize - Len(header), left)
       IN  header' = header \o Incoming(take) /\ Take(take)
    /\ UNCHANGED <<phase, signature, payload, crypto, flashBuf, written, mem>>

Aad == [i \in 1..HeaderSize |-> IF i \in MaskedFields THEN Zero ELSE header[i]]

(* Mutant: the manifest page is not erased with the image area.            *)
EraseImageOnly == EraseRange(mem, APP_B_START_ADDR, APP_B_IMAGE_SIZE, PageCount(APP_B_IMAGE_SIZE))
EraseAppB      == EraseRange(mem, APP_B_START_ADDR, APP_B_SIZE, PageCount(APP_B_SIZE))

(* The last byte of the signature starts decryption and erases the slot.   *)
TakeSignature ==
    /\ phase = "receive" /\ left > 0
    /\ Len(header) = HeaderSize /\ Len(signature) < SignatureSize
    /\ LET take == Least(SignatureSize - Len(signature), left) IN
         /\ signature' = signature \o Incoming(take) /\ Take(take)
         /\ IF Len(signature') = SignatureSize
              THEN /\ ghash' = GcmInit(Aad) /\ counter' = 2 /\ used' = GcmBlock
                   /\ sha' = Empty /\ mem' = EraseAppB.mem
              ELSE UNCHANGED <<crypto, mem>>
    /\ UNCHANGED <<phase, header, payload, flashBuf, written>>

(* The blocks that have left the flash buffer are written one after the    *)
(* other; a write that fails ends the transfer.                            *)
WriteOut(bytes, pad) ==
    LET w == Write(mem, APP_B_START_ADDR + written, bytes, pad, Len(bytes))
    IN  /\ mem' = w.mem
        /\ written' = IF w.ok THEN written + Len(bytes) ELSE written
        /\ phase' = IF ~w.ok THEN "flashError" ELSE IF pad THEN "manifest" ELSE phase

(* Mutant: the key stream starts over with every frame.                    *)
UsedUp(d) == GcmBlock
Used(d)   == d.used

TakePayload ==
    /\ phase = "receive" /\ left > 0
    /\ Len(signature) = SignatureSize
    /\ LET take == Least(size - payload, left)
           d == Decrypt(Incoming(take))
           b == Absorb(flashBuf, d.plain, BufferSize)
       IN  /\ ghash' = Absorb(ghash, Incoming(take), GcmBlock)
           /\ counter' = d.counter /\ used' = Used(d)
           /\ sha' = Absorb(sha, d.plain, ShaBlock)
           /\ flashBuf' = [buf |-> b.buf, out |-> <<>>]
           /\ IF b.out = <<>> THEN UNCHANGED <<phase, written, mem>>
                              ELSE WriteOut(FlattenSeq(b.out), FALSE)
           /\ payload' = payload + take /\ Take(take)
    /\ UNCHANGED <<header, signature>>

(* END: the rest of the buffer, padded.                                    *)
End ==
    /\ phase = "receive" /\ left = 0 /\ pos = Total
    /\ IF flashBuf.buf = <<>> THEN phase' = "manifest" /\ UNCHANGED <<written, mem>>
                              ELSE WriteOut(flashBuf.buf, TRUE)
    /\ UNCHANGED <<position, parts, crypto, flashBuf>>

(* Mutant: the copy with the cleared fields is stored.                     *)
StoredAad    == Aad
StoredHeader == header

WriteManifest ==
    /\ phase = "manifest"
    /\ LET h == Write(mem, APP_B_MANIFEST_ADDR, StoredHeader, TRUE, HeaderSize)
           s == Write(h.mem, APP_B_MANIFEST_ADDR + SignatureOffset, signature, TRUE, SignatureSize)
       IN  IF h.ok THEN mem' = s.mem /\ phase' = (IF s.ok THEN "done" ELSE "flashError")
                   ELSE mem' = h.mem /\ phase' = "flashError"
    /\ UNCHANGED <<position, parts, crypto, flashBuf, written>>

(* Timeout, wrong frame or failed check: the transfer is given up.         *)
Abort ==
    /\ phase \in {"receive", "manifest"}
    /\ phase' = "idle"
    /\ UNCHANGED <<position, parts, crypto, flashBuf, written, mem>>

Next ==
    \/ Begin \/ Frame \/ TakeHeader \/ TakeSignature \/ TakePayload
    \/ End \/ WriteManifest \/ Abort

Spec == Init /\ [][Next]_vars

-----------------------------------------------------------------------------
(* What the same bytes look like when they are not streamed.               *)

Read(address, length) == [k \in 1..length |-> mem[address + k - 1]]

StreamPart(first, n) == [k \in 1..n |-> Cipher(first + k - 1)]
CipherText  == StreamPart(HeaderSize + SignatureSize + 1, size)

(* CTR mode: byte k uses byte k mod 16 of block k div 16 after J0 + 1.     *)
PlainText ==
    [k \in 1..size |-> Plain(HeaderSize + SignatureSize + k,
                             2 + (k - 1) \div GcmBlock, (k - 1) % GcmBlock)]

Blocks(data, unit) ==
    [b \in 1 .. Len(data) \div unit |-> SubSeq(data, (b - 1) * unit + 1, b * unit)]

ZeroPadded(data, unit) == data \o Zeros((unit - (Len(data) % unit)) % unit)

(* FIPS 180-4: a mark, the least number of zeros, and the length.          *)
ShaReference(data) ==
    LET zeros == CHOOSE n \in 0..ShaBlock - 1 : (Len(data) + 1 + n + ShaTail) % ShaBlock = 0
    IN  Blocks(data \o <<Mark>> \o Zeros(zeros)
                    \o [i \in 1..ShaTail |-> LengthOf(Len(data))], ShaBlock)

(* SP 800-38D: AAD and ciphertext, each padded, and a block of lengths.    *)
GhashReference ==
    Blocks(ZeroPadded(Aad, GcmBlock), GcmBlock) \o Blocks(ZeroPadded(CipherText, GcmBlock), GcmBlock)
      \o << <<LengthOf(HeaderSize), LengthOf(size)>> >>

-----------------------------------------------------------------------------
Ready == phase = "receive" /\ Len(signature) = SignatureSize

(* No buffer and no field is written past its end, whatever the frames:    *)
(* header, signature, flash buffer, hash and GHASH blocks, key stream; a   *)
(* buffer that is full has been emptied before the next byte comes.        *)
WithinBuffers ==
    /\ pos + left <= Total
    /\ Len(header) <= HeaderSize /\ Len(signature) <= SignatureSize
    /\ payload \in 0..size /\ written \in 0..size
    /\ Len(flashBuf.buf) < BufferSize
    /\ Len(ghash.buf) < GcmBlock /\ Len(sha.buf) < ShaBlock
    /\ used \in 0..GcmBlock

(* At every moment the slot holds the plaintext up to flash_written, each  *)
(* byte decrypted with its own byte of the key stream, and is blank behind *)
(* it, the manifest page included; the rest is in the buffer.              *)
FlashFollowsStream ==
    Ready =>
        /\ Read(APP_B_START_ADDR, APP_B_IMAGE_SIZE) =
              SubSeq(PlainText, 1, written) \o [i \in 1..APP_B_IMAGE_SIZE - written |-> Blank]
        /\ flashBuf.buf = SubSeq(PlainText, written + 1, payload)

(* What was hashed on the way is the image in the flash, which the secure  *)
(* boot check will hash again.                                             *)
HashIsOfImage ==
    phase \in {"manifest", "done"} =>
        ShaFinal(sha, size) = ShaReference(Read(APP_B_START_ADDR, size))

(* What was authenticated is the masked header and the whole ciphertext.   *)
TagIsOfStream ==
    phase \in {"manifest", "done"} => GcmFinal(ghash, HeaderSize, payload) = GhashReference

(* The secure boot check reads back the header and the signature that were *)
(* received, although both are padded to double words in the flash.        *)
ManifestReadsBack ==
    phase = "done" =>
        /\ Read(APP_B_MANIFEST_ADDR, HeaderSize) = StreamPart(1, HeaderSize)
        /\ Read(APP_B_MANIFEST_ADDR + SignatureOffset, SignatureSize) =
              StreamPart(HeaderSize + 1, SignatureSize)

(* No write is refused: none is unaligned, out of range, or meets a double *)
(* word that an earlier write, or an earlier transfer, has programmed.     *)
NoWriteRefused == phase # "flashError"
=============================================================================
