----------------------------- MODULE Publishing -----------------------------
(***************************************************************************)
(* From keys to packages: provision_dev_publisher.py with mldsa_tool,      *)
(* provision_dev_aes_key.py and pack.py on the files they share, and a     *)
(* bootloader built from the sources they write.  The tools may run at the *)
(* same time, and any of them may stop after any of its steps with a file  *)
(* half written.                                                           *)
(***************************************************************************)
EXTENDS OtaFormat, FiniteSets

CONSTANTS
    Images,         \* applications to be packed
    Publishers,     \* values of --publisher
    MaxPairs,       \* bound: key pairs ever made
    MaxAesKeys,     \* bound: AES keys ever made
    MaxFailures     \* bound: tools that stop in the middle

ASSUME ImageAssumption == \A image \in Images : Len(image) = 3 /\ image[1] = "image"

VARIABLES
    pk, sk, aes,    \* the key files: the number of a key, Absent or Torn
    publisherC,     \* trusted_publisher_key.c: publisher and key, or NoSource
    aesC,           \* firmware_decryption_key.c: a key, or Absent
    device,         \* what the bootloader of the device was built with
    pair, symmetric,  \* the last key pair and AES key made
    job, aesJob,    \* the next step of the provisioning tools, or "idle"
    packing,        \* the next step of pack.py, and what it holds
    package,        \* the last package written, with the keys it was made with
    failures

files == <<pk, sk, aes, publisherC, aesC>>
vars  == <<files, device, pair, symmetric, job, aesJob, packing, package, failures>>

Absent == 0
Torn   == -1
Intact(file) == file > 0

NoSource == [publisher |-> "none", key |-> Absent]
NoDevice == [publisher |-> Zero, key |-> Absent, keyId |-> Zero,
             aes |-> Absent, aesKeyId |-> Zero]
NotPacking == [at |-> "idle"]
NoPackage  == [at |-> "none"]

Init ==
    /\ pk = Absent /\ sk = Absent /\ aes = Absent
    /\ publisherC = NoSource /\ aesC = Absent /\ device = NoDevice
    /\ pair = 0 /\ symmetric = 0
    /\ job = "idle" /\ aesJob = "idle" /\ packing = NotPacking
    /\ package = NoPackage /\ failures = 0

(* History: a key file changed while pack.py was at work.                  *)
KeysMove ==
    packing' = IF packing = NotPacking \/ <<pk, sk, aes>>' = <<pk, sk, aes>> THEN packing
               ELSE [packing EXCEPT !.steady = FALSE]

---------------------------------------------------------------------------
(* provision_dev_publisher.py                                              *)

NeedsPair(force) == force \/ pk = Absent \/ sk = Absent

Provision(force) ==
    /\ job = "idle"
    /\ NeedsPair(force) => pair < MaxPairs
    /\ job' = IF NeedsPair(force) THEN "public" ELSE "embed"
    /\ pair' = IF NeedsPair(force) THEN pair + 1 ELSE pair
    /\ UNCHANGED <<files, device, symmetric, aesJob, packing, package, failures>>

(* keygen writes the public file, then the secret one.                     *)
KeygenPublic ==
    /\ job = "public" /\ job' = "secret"
    /\ pk' = pair
    /\ UNCHANGED <<sk, aes, publisherC, aesC, device, pair, symmetric, aesJob,
                   package, failures>>
    /\ KeysMove

KeygenSecret ==
    /\ job = "secret" /\ job' = "embed"
    /\ sk' = pair
    /\ UNCHANGED <<pk, aes, publisherC, aesC, device, pair, symmetric, aesJob,
                   package, failures>>
    /\ KeysMove

(* Both files have the right length, or the tool ends without a source.    *)
Embed(publisher) ==
    /\ job = "embed" /\ job' = "idle"
    /\ publisherC' = IF Intact(pk) /\ Intact(sk)
                     THEN [publisher |-> publisher, key |-> pk] ELSE publisherC
    /\ UNCHANGED <<pk, sk, aes, aesC, device, pair, symmetric, aesJob, packing,
                   package, failures>>

(* The tool stops; the file it was writing is as before or cut short.  A   *)
(* source that is cut short does not compile.                              *)
ProvisionStops ==
    /\ job # "idle" /\ job' = "idle"
    /\ failures < MaxFailures /\ failures' = failures + 1
    /\ pk' \in {pk} \union (IF job = "public" THEN {Torn} ELSE {})
    /\ sk' \in {sk} \union (IF job = "secret" THEN {Torn} ELSE {})
    /\ publisherC' \in {publisherC} \union (IF job = "embed" THEN {NoSource} ELSE {})
    /\ UNCHANGED <<aes, aesC, device, pair, symmetric, aesJob, package>>
    /\ KeysMove

---------------------------------------------------------------------------
(* provision_dev_aes_key.py                                                *)

ProvisionAes(force) ==
    /\ aesJob = "idle"
    /\ IF aes = Absent \/ force THEN symmetric < MaxAesKeys /\ aesJob' = "key"
                               ELSE Intact(aes) /\ aesJob' = "embed"
    /\ UNCHANGED <<files, device, pair, symmetric, job, packing, package, failures>>

WriteAesKey ==
    /\ aesJob = "key" /\ aesJob' = "embed"
    /\ symmetric' = symmetric + 1 /\ aes' = symmetric + 1
    /\ UNCHANGED <<pk, sk, publisherC, aesC, device, pair, job, package, failures>>
    /\ KeysMove

EmbedAes ==
    /\ aesJob = "embed" /\ aesJob' = "idle"
    /\ aesC' = aes
    /\ UNCHANGED <<pk, sk, aes, publisherC, device, pair, symmetric, job, packing,
                   package, failures>>

AesStops ==
    /\ aesJob # "idle" /\ aesJob' = "idle"
    /\ failures < MaxFailures /\ failures' = failures + 1
    /\ aes'  \in {aes}  \union (IF aesJob = "key" THEN {Torn} ELSE {})
    /\ aesC' \in {aesC} \union (IF aesJob = "embed" THEN {Absent} ELSE {})
    /\ UNCHANGED <<pk, sk, publisherC, device, pair, symmetric, job, package>>
    /\ KeysMove

(* Compile the bootloader and flash it.                                    *)
BurnBootloader ==
    /\ publisherC # NoSource /\ aesC # Absent
    /\ device' = [publisher |-> encode_identity(publisherC.publisher),
                  key |-> publisherC.key, keyId |-> key_id_from_public_key(publisherC.key),
                  aes |-> aesC, aesKeyId |-> encryption_key_id_from_key(aesC)]
    /\ UNCHANGED <<files, pair, symmetric, job, aesJob, packing, package, failures>>

---------------------------------------------------------------------------
(* pack.py                                                                 *)

Body(p) == Encrypt(p.aes, <<"nonce", p.nonce>>, p.image)

(* The package that goes with the record p of what was packed.             *)
Header(p) ==
    LET h == build_header(p.image, 1, encode_identity(p.publisher),
                          key_id_from_public_key(p.key),
                          encryption_key_id_from_key(p.aes), <<"nonce", p.nonce>>)
    IN  [h EXCEPT !.authentication_tag = Tag(p.aes, h.nonce, gcm_aad(h), Body(p))]

Raw(p)      == pack_header(Header(p))
Package(p)  == [raw |-> Raw(p), signature |-> Signature(p.signer, Raw(p)),
                body |-> Body(p), size |-> Length(p.image)]
Manifest(p) == build_app_manifest(Package(p).raw, Package(p).signature)

(* The files are read once here.  The nonce is drawn at random: that of    *)
(* one package is 1, that of another, where two are compared, 2.           *)
PackStart(image, publisher) ==
    /\ packing = NotPacking
    /\ Length(image) # 0 /\ Intact(pk) /\ Intact(sk) /\ Intact(aes)
    /\ packing' = [at |-> "sign", image |-> image, publisher |-> publisher,
                   key |-> pk, aes |-> aes, nonce |-> 1,
                   signer |-> Absent, steady |-> TRUE]
    /\ UNCHANGED <<files, device, pair, symmetric, job, aesJob, package, failures>>

(* mldsa_tool reads the secret key file again, and the public one to check *)
(* the signature.                                                          *)
PackSign ==
    /\ packing.at = "sign"
    /\ packing' = IF Intact(sk)
                  THEN [packing EXCEPT !.at = "verify", !.signer = sk] ELSE NotPacking
    /\ UNCHANGED <<files, device, pair, symmetric, job, aesJob, package, failures>>

Verified(p, public) ==
    Intact(public) /\ SignatureVerifies(public, Raw(p), Package(p).signature)

(* Mutant: the signature is not checked with the public key.               *)
PackTrusting ==
    /\ packing.at = "verify"
    /\ packing' = [packing EXCEPT !.at = "write"]
    /\ UNCHANGED <<files, device, pair, symmetric, job, aesJob, package, failures>>

PackVerify ==
    /\ packing.at = "verify"
    /\ packing' = IF Verified(packing, pk) THEN [packing EXCEPT !.at = "write"]
                  ELSE NotPacking
    /\ UNCHANGED <<files, device, pair, symmetric, job, aesJob, package, failures>>

(* What is about to be written is parsed and decrypted once more.          *)
PackWrite ==
    LET ota == Package(packing)
        ok  == parse_ota(ota) /\
               decrypt_payload(parse_header(ota.raw), ota, packing.aes) = packing.image
    IN  /\ packing.at = "write" /\ packing' = NotPacking
        /\ package' = IF ok THEN packing ELSE package
        /\ UNCHANGED <<files, device, pair, symmetric, job, aesJob, failures>>

Next ==
    \/ \E force \in BOOLEAN : Provision(force) \/ ProvisionAes(force)
    \/ KeygenPublic \/ KeygenSecret \/ ProvisionStops
    \/ \E p \in Publishers : Embed(p) \/ \E i \in Images : PackStart(i, p)
    \/ WriteAesKey \/ EmbedAes \/ AesStops \/ BurnBootloader
    \/ PackSign \/ PackVerify \/ PackWrite

Spec == Init /\ [][Next]_vars

---------------------------------------------------------------------------
(* What may reach the device or the checking tools: parts of the packages  *)
(* put together, and a package with some fields of its header, its         *)
(* signature, its ciphertext or its length spoilt.  The CRC notices the    *)
(* damage or is made anew.                                                 *)

Numbers == {"magic", "header_version", "firmware_version", "firmware_size",
            "payload_size", "flags", "signature_algorithm", "signature_size",
            "encryption_algorithm"}

Spoilt(h, which, n) == [f \in DOMAIN h |-> IF f \notin which THEN h[f]
                                          ELSE IF f \in Numbers THEN n ELSE <<"spoilt">>]

SpoiltHeaders(ota) ==
    LET h == parse_header(ota.raw)
    IN  UNION {{Bytes(ToolPlaces, Spoilt(h, which, n)), pack_header(Spoilt(h, which, n))} :
                  which \in {{f} : f \in DOMAIN h} \union {{"firmware_size", "payload_size"}},
                  n \in {0, 9}}

(* A package made before with the same keys.                               *)
Others == {[package EXCEPT !.image = i, !.nonce = 2] : i \in Images}
Made   == {package} \union Others

Mixed ==
    UNION {{[raw |-> a.raw, signature |-> b.signature, body |-> c.body, size |-> c.size] :
               a, b, c \in {Package(package), Package(p)}} : p \in Others}

Arriving ==
    LET ota == Package(package)
    IN  Mixed \union {[ota EXCEPT !.raw = raw] : raw \in SpoiltHeaders(ota)}
        \union {[ota EXCEPT !.signature = <<"spoilt">>],
                [ota EXCEPT !.body = <<"spoilt">>], [ota EXCEPT !.size = 9]}

Resting == /\ job = "idle" /\ aesJob = "idle" /\ packing = NotPacking
           /\ package # NoPackage /\ device # NoDevice

Fits(image) == SmallestImage <= Length(image) /\ Length(image) <= APP_IMAGE_SIZE

(* The header of the package names the key that signed it.                 *)
OnePair(p) == p.signer = p.key

(***************************************************************************)
(* A package that pack.py has written (pack.py:83) is installed by every   *)
(* bootloader built with the keys that it was packed with, and its         *)
(* manifest boots its image, unless the keys were replaced while it was    *)
(* made and its header names another pair than the one that signed it:     *)
(* also after a key generation that broke off between the two files.       *)
(***************************************************************************)
MadeFor(p, dev) == p.key = dev.key /\ p.aes = dev.aes /\ encode_identity(p.publisher) = dev.publisher

PackedIsAccepted ==
    Resting /\ (package.steady \/ OnePair(package)) /\ MadeFor(package, device)
    /\ Fits(package.image) =>
        /\ Installs(device, Package(package))
        /\ Decrypted(device, Package(package)) = package.image
        /\ secure_boot_verify_app(device, Manifest(package), package.image)

(***************************************************************************)
(* Whatever arrives, the device installs only what pack.py put together,   *)
(* unchanged, with one pair of keys throughout and that the device's, and  *)
(* boots only an image with its own manifest, from its own pair: a package *)
(* that was signed after the keys were replaced is refused by the devices  *)
(* with the old pair and by those with the new one.                        *)
(***************************************************************************)
InstalledWasPacked ==
    Resting =>
        /\ \A a \in Arriving : Installs(device, a) =>
               \E p \in Made : /\ a = Package(p) /\ Decrypted(device, a) = p.image
                              /\ OnePair(p) /\ MadeFor(p, device)
        /\ \A p \in Made, image \in Images :
               secure_boot_verify_app(device, Manifest(p), image) =>
                   image = p.image /\ OnePair(p) /\ p.key = device.key

(***************************************************************************)
(* The device and the tools hold the same headers valid, but for the size  *)
(* of the image, which the tools do not look at.  verify_ota.py and        *)
(* verify_manifest.py, given the keys of the device, pass exactly what the *)
(* device installs and boots, but for that and for the publisher.          *)
(***************************************************************************)
ToolsAgreeWithDevice ==
    Resting =>
        /\ \A raw \in {Package(package).raw} \union SpoiltHeaders(Package(package)) :
               LET h == parse_header(raw)
               IN  ota_header_validate(Read(DevicePlaces, raw)) <=>
                       validate_header(h) /\ h.firmware_size <= APP_IMAGE_SIZE
        /\ \A a \in Arriving :
               LET h == parse_header(a.raw)
               IN  Installs(device, a) <=>
                       /\ verify_ota(a, device.key, device.aes)
                       /\ h.publisher_id = device.publisher
                       /\ SmallestImage <= h.firmware_size
                       /\ h.firmware_size <= APP_IMAGE_SIZE
        /\ \A p \in Made, image \in Images :
               secure_boot_verify_app(device, Manifest(p), image) <=>
                   /\ verify_manifest(Manifest(p), image, device.key)
                   /\ encode_identity(p.publisher) = device.publisher /\ Fits(image)

=============================================================================
