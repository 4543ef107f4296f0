----------------------------- MODULE OtaFormat -----------------------------
(***************************************************************************)
(* The OTA package and the application manifest, made and checked by the   *)
(* PC tools (ota_format.py, pack.py, verify_ota.py, verify_manifest.py)    *)
(* and checked by the device (ota_protocol.c, ota_signature.c,             *)
(* secure_boot.c, ota_transport_can.c).                                    *)
(*                                                                         *)
(* Cryptography is symbolic: a digest, CRC, signature, tag or ciphertext   *)
(* is the term of what it was made from.  Terms are tuples that begin with *)
(* their kind.  A header as bytes is the set of its fields with the places *)
(* they lie at, so that the tools and the device have to agree on these.   *)
(***************************************************************************)
EXTENDS Integers, Sequences

CONSTANTS
    APP_IMAGE_SIZE,      \* capacity of slot A and of slot B
    SmallestImage        \* 8 in the code

MAGIC  == 826560341   \* OTA_FILE_MAGIC

Zero   == <<"zero">>
Sha(x) == <<"sha256", x>>
Crc(x) == <<"crc32", x>>

(* An image is <<"image", name, length>>.                                  *)
Length(image) == image[3]

(* Pair k of ML-DSA keys, with the context string that tools and device    *)
(* both use.                                                               *)
Signature(k, message)         == <<"signature", k, message>>
SignatureVerifies(k, m, sig)  == sig = Signature(k, m)
key_id_from_public_key(k)     == Sha(<<"public", k>>)
encryption_key_id_from_key(k) == Sha(<<"aes", k>>)

encode_identity(value)        == <<"identity", value>>

(* AES-GCM: counter mode, and a tag over nonce, AAD and ciphertext.        *)
Encrypt(key, nonce, plain)    == <<"ciphertext", key, nonce, plain>>
Tag(key, nonce, aad, body)    == <<"tag", key, nonce, aad, body>>
Decrypt(key, nonce, body)     ==
    IF Len(body) = 4 /\ SubSeq(body, 2, 3) = <<key, nonce>> THEN body[4]
    ELSE <<"noise", key, nonce>>

---------------------------------------------------------------------------
(* The header: OTA_HEADER_FORMAT of the tools, ota_header_t of the device. *)

OTA_HEADER_FORMAT ==
    << <<"magic", 4>>, <<"header_version", 4>>, <<"firmware_version", 4>>,
       <<"firmware_size", 4>>, <<"payload_size", 4>>, <<"firmware_hash", 32>>,
       <<"flags", 4>>, <<"publisher_id", 16>>, <<"key_id", 16>>,
       <<"signature_algorithm", 4>>, <<"signature_size", 4>>,
       <<"encryption_algorithm", 4>>, <<"encryption_key_id", 16>>,
       <<"nonce", 12>>, <<"authentication_tag", 16>>, <<"header_crc32", 4>> >>

ota_header_t ==
    << <<"magic", 4>>, <<"header_version", 4>>, <<"firmware_version", 4>>,
       <<"firmware_size", 4>>, <<"payload_size", 4>>, <<"firmware_hash", 32>>,
       <<"flags", 4>>, <<"publisher_id", 16>>, <<"key_id", 16>>,
       <<"signature_algorithm", 4>>, <<"signature_size", 4>>,
       <<"encryption_algorithm", 4>>, <<"encryption_key_id", 16>>,
       <<"nonce", 12>>, <<"authentication_tag", 16>>, <<"header_crc32", 4>> >>

(* Where each field begins, and how long it is.                            *)
Offsets(layout) ==
    LET at[i \in 1..Len(layout)] == IF i = 1 THEN 0 ELSE at[i - 1] + layout[i - 1][2]
    IN  at

Places(layout) ==
    [f \in {layout[i][1] : i \in 1..Len(layout)} |->
        LET i == CHOOSE i \in 1..Len(layout) : layout[i][1] = f
        IN  <<Offsets(layout)[i], layout[i][2]>>]

ToolPlaces   == Places(OTA_HEADER_FORMAT)
DevicePlaces == Places(ota_header_t)

Bytes(places, h) == {<<places[f], h[f]>> : f \in DOMAIN h}

(* Bytes laid out in another way read as rubbish.                          *)
Read(places, raw) ==
    [f \in DOMAIN places |->
        LET here == {b \in raw : b[1] = places[f]}
        IN  IF here = {} THEN <<"rubbish">> ELSE (CHOOSE b \in here : TRUE)[2]]

Cleared(h, fields) == [f \in DOMAIN h |-> IF f \in fields THEN Zero ELSE h[f]]

---------------------------------------------------------------------------
(* The tools.                                                              *)

build_header(image, version, publisher, keyId, aesKeyId, nonce) ==
    [magic |-> MAGIC, header_version |-> 3, firmware_version |-> version,
     firmware_size |-> Length(image), payload_size |-> Length(image),
     firmware_hash |-> Sha(image), flags |-> 0, publisher_id |-> publisher,
     key_id |-> keyId, signature_algorithm |-> 1, signature_size |-> 3309,
     encryption_algorithm |-> 1, encryption_key_id |-> aesKeyId, nonce |-> nonce,
     authentication_tag |-> Zero, header_crc32 |-> Zero]

gcm_aad(h) ==
    Bytes(ToolPlaces, Cleared(h, {"authentication_tag", "header_crc32"}))

pack_header(h) ==
    LET crc == Crc(Bytes(ToolPlaces, Cleared(h, {"header_crc32"})))
    IN  Bytes(ToolPlaces, [h EXCEPT !.header_crc32 = crc])

parse_header(raw) == Read(ToolPlaces, raw)

validate_header(h) ==
    /\ h.magic = MAGIC
    /\ h.header_version = 3
    /\ h.firmware_size # 0 /\ h.payload_size = h.firmware_size
    /\ h.signature_algorithm = 1
    /\ h.signature_size = 3309
    /\ h.encryption_algorithm = 1
    /\ h.header_crc32 = Crc(Bytes(ToolPlaces, Cleared(h, {"header_crc32"})))

(* A package: the bytes of its header, a signature, a ciphertext of size   *)
(* bytes.                                                                  *)
parse_ota(ota) ==
    LET h == parse_header(ota.raw)
    IN  validate_header(h) /\ ota.size = h.payload_size

decrypt_payload(h, ota, aes) ==
    LET plain == Decrypt(aes, h.nonce, ota.body)
        ok    == /\ h.encryption_key_id = encryption_key_id_from_key(aes) /\ ota.size = h.payload_size
                 /\ h.authentication_tag = Tag(aes, h.nonce, gcm_aad(h), ota.body)
                 /\ Length(plain) = h.firmware_size
                 /\ Sha(plain) = h.firmware_hash
    IN  IF ok THEN plain ELSE <<"failed">>

(* verify_ota.py passes.                                                   *)
verify_ota(ota, public, aes) ==
    LET h == parse_header(ota.raw)
    IN  /\ parse_ota(ota)
        /\ h.key_id = key_id_from_public_key(public)
        /\ SignatureVerifies(public, ota.raw, ota.signature)
        /\ decrypt_payload(h, ota, aes) # <<"failed">>

(* The manifest page: header and signature, at the offset the device       *)
(* expects it.                                                             *)
build_app_manifest(raw, signature) == [raw |-> raw, signature |-> <<152, signature>>]

(* verify_manifest.py passes.                                              *)
verify_manifest(manifest, image, public) ==
    LET h == parse_header(manifest.raw)
    IN  /\ validate_header(h)
        /\ Length(image) = h.firmware_size /\ Sha(image) = h.firmware_hash
        /\ h.key_id = key_id_from_public_key(public)
        /\ manifest.signature[1] = 152
        /\ SignatureVerifies(public, manifest.raw, manifest.signature[2])

---------------------------------------------------------------------------
(* The device; dev has the publisher, the public key and the AES key       *)
(* compiled into its bootloader.                                           *)

(* Mutant: the length of the ciphertext is not compared with the image's.  *)
LengthsUncompared(h) ==
    /\ h.magic = MAGIC
    /\ h.header_version = 3
    /\ h.firmware_size # 0
    /\ h.firmware_size <= APP_IMAGE_SIZE
    /\ h.signature_algorithm = 1 /\ h.signature_size = 3309
    /\ h.encryption_algorithm = 1
    /\ h.header_crc32 = Crc(Bytes(DevicePlaces, Cleared(h, {"header_crc32"})))

ota_header_validate(h) ==
    /\ h.magic = MAGIC
    /\ h.header_version = 3
    /\ h.firmware_size # 0 /\ h.payload_size = h.firmware_size
    /\ h.firmware_size <= APP_IMAGE_SIZE
    /\ h.signature_algorithm = 1 /\ h.signature_size = 3309
    /\ h.encryption_algorithm = 1
    /\ h.header_crc32 = Crc(Bytes(DevicePlaces, Cleared(h, {"header_crc32"})))

trusted_publisher_matches(dev, h) ==
    h.publisher_id = dev.publisher /\ h.key_id = dev.keyId

(* Mutant: the key the header names may be another than the one used.      *)
KeyUnnamed(dev, raw, signature) ==
    LET h == Read(DevicePlaces, raw)
    IN  /\ h.publisher_id = dev.publisher
        /\ h.signature_algorithm = 1 /\ h.signature_size = 3309
        /\ SignatureVerifies(dev.key, raw, signature)

ota_signature_verify(dev, raw, signature) ==
    LET h == Read(DevicePlaces, raw)
    IN  /\ trusted_publisher_matches(dev, h)
        /\ h.signature_algorithm = 1 /\ h.signature_size = 3309
        /\ SignatureVerifies(dev.key, raw, signature)

(* The first n bytes of what lies in a slot.                               *)
FirstBytes(image, n) == IF Length(image) = n THEN image ELSE <<"cut", image, n>>

secure_boot_verify_app(dev, manifest, image) ==
    LET h == Read(DevicePlaces, manifest.raw)
    IN  /\ ota_header_validate(h)
        /\ h.firmware_size >= SmallestImage /\ h.firmware_size <= APP_IMAGE_SIZE
        /\ manifest.signature[1] = 152
        /\ ota_signature_verify(dev, manifest.raw, manifest.signature[2])
        /\ Sha(FirstBytes(image, h.firmware_size)) = h.firmware_hash

(* ota_receive_update_can reaches its last ACK.                            *)
Decrypted(dev, ota) ==
    Decrypt(dev.aes, Read(DevicePlaces, ota.raw).nonce, ota.body)

Installs(dev, ota) ==
    LET h     == Read(DevicePlaces, ota.raw)
        plain == Decrypted(dev, ota)
        aad   == Bytes(DevicePlaces, Cleared(h, {"authentication_tag", "header_crc32"}))
    IN  /\ ota_header_validate(h) /\ ota.size = h.payload_size
        /\ h.encryption_key_id = dev.aesKeyId
        /\ ota_signature_verify(dev, ota.raw, ota.signature)
        /\ h.authentication_tag = Tag(dev.aes, h.nonce, aad, ota.body)
        /\ Sha(plain) = h.firmware_hash
        /\ secure_boot_verify_app(dev, [raw |-> ota.raw, signature |-> <<152, ota.signature>>],
                                  plain)

=============================================================================
