-------------------------- MODULE PublishingProofs --------------------------
(***************************************************************************)
(* For all images, publishers and bounds: a package that pack.py has       *)
(* written is installed by the device it was made for, nothing else is,    *)
(* and the checking tools agree with the device.                           *)
(***************************************************************************)
EXTENDS Publishing, SequenceTheorems, TLAPS

---------------------------------------------------------------------------
(* The header as bytes: what was packed reads back.                        *)

Field == {"magic", "header_version", "firmware_version", "firmware_size", "payload_size",
          "firmware_hash", "flags", "publisher_id", "key_id", "signature_algorithm",
          "signature_size", "encryption_algorithm", "encryption_key_id", "nonce",
          "authentication_tag", "header_crc32"}

(* Where each field of the header begins.                                  *)
Begins == <<0, 4, 8, 12, 16, 20, 52, 56, 72, 88, 92, 96, 100, 116, 128, 144>>

(* Sixteen fields.                                                         *)
LEMMA FormatShape == Len(OTA_HEADER_FORMAT) = 16
  BY DEF OTA_HEADER_FORMAT

(* The sums of the lengths that come before, as the recursive function     *)
(* yields them.                                                            *)
LEMMA OffsetsAre == \A i \in 1..16 : Offsets(OTA_HEADER_FORMAT)[i] = Begins[i]
<1> DEFINE Is(at) == at = [i \in 1..16 |-> IF i = 1 THEN 0
                                          ELSE at[i - 1] + OTA_HEADER_FORMAT[i - 1][2]]
           at == Offsets(OTA_HEADER_FORMAT)
<1>1. Is(Begins)
  BY DEF Begins, OTA_HEADER_FORMAT
<1>2. at = CHOOSE x : Is(x)
  BY FormatShape DEF Offsets
<1>3. Is(at)
  BY <1>1, <1>2
<1> HIDE DEF at
<1>4. at[1] = 0
  BY <1>3
<1>5. \A i \in 2..16 : at[i] = at[i - 1] + OTA_HEADER_FORMAT[i - 1][2]
  BY <1>3
<1> QED BY <1>4, <1>5 DEF at, Begins, OTA_HEADER_FORMAT

(* The tools and the device lay the header out in the same way.            *)
LEMMA SameLayout == DevicePlaces = ToolPlaces
  BY DEF DevicePlaces, ToolPlaces, OTA_HEADER_FORMAT, ota_header_t

(* No two fields have one name.                                            *)
LEMMA Names == \A i, j \in 1..16 : OTA_HEADER_FORMAT[i][1] = OTA_HEADER_FORMAT[j][1] => i = j
  BY DEF OTA_HEADER_FORMAT

(* The fields of the layout are those of the header.                       *)
LEMMA Covers == {OTA_HEADER_FORMAT[i][1] : i \in 1..16} = Field
  BY DEF OTA_HEADER_FORMAT, Field

(* No two fields begin at one place.                                       *)
LEMMA Increasing == \A i, j \in 1..16 : Begins[i] = Begins[j] => i = j
  BY DEF Begins

(* So a place has one field.                                               *)
LEMMA PlacesDistinct ==
    /\ DOMAIN ToolPlaces = Field
    /\ \A f, g \in Field : ToolPlaces[f] = ToolPlaces[g] => f = g
<1>1. DOMAIN ToolPlaces = Field
  BY FormatShape, Covers DEF ToolPlaces, Places
<1>2. ASSUME NEW f \in Field
      PROVE  \E i \in 1..16 : OTA_HEADER_FORMAT[i][1] = f /\ ToolPlaces[f][1] = Begins[i]
  <2> DEFINE i == CHOOSE i \in 1..16 : OTA_HEADER_FORMAT[i][1] = f
  <2>1. i \in 1..16 /\ OTA_HEADER_FORMAT[i][1] = f
    BY Covers
  <2>2. ToolPlaces[f] = <<Offsets(OTA_HEADER_FORMAT)[i], OTA_HEADER_FORMAT[i][2]>>
    BY FormatShape, Covers DEF ToolPlaces, Places
  <2> HIDE DEF i
  <2>3. ToolPlaces[f][1] = Offsets(OTA_HEADER_FORMAT)[i]
    BY <2>2
  <2> QED BY <2>1, <2>3, OffsetsAre
<1>3. ASSUME NEW f \in Field, NEW g \in Field, ToolPlaces[f] = ToolPlaces[g] PROVE f = g
  BY <1>2, <1>3, Increasing
<1> QED BY <1>1, <1>3

(* Fields that are laid out and read again are the same.                   *)
LEMMA ReadsBack ==
    ASSUME NEW h, DOMAIN h = Field
    PROVE  Read(ToolPlaces, Bytes(ToolPlaces, h)) = [f \in Field |-> h[f]]
<1> DEFINE raw == Bytes(ToolPlaces, h)
<1>1. ASSUME NEW f \in Field PROVE {b \in raw : b[1] = ToolPlaces[f]} = {<<ToolPlaces[f], h[f]>>}
  BY PlacesDistinct DEF Bytes
<1>2. ASSUME NEW f \in Field, NEW here, here = {<<ToolPlaces[f], h[f]>>}
      PROVE  (IF here = {} THEN <<"rubbish">> ELSE (CHOOSE b \in here : TRUE)[2]) = h[f]
  <2>1. here # {} /\ \A b \in here : b[2] = h[f]
    BY <1>2
  <2>2. (CHOOSE b \in here : TRUE) \in here
    BY <2>1
  <2> QED BY <2>1, <2>2
<1> DEFINE Value(f) == LET here == {b \in raw : b[1] = ToolPlaces[f]}
                       IN  IF here = {} THEN <<"rubbish">> ELSE (CHOOSE b \in here : TRUE)[2]
<1>3. \A f \in Field : Value(f) = h[f]
  BY <1>1, <1>2
<1>4. Read(ToolPlaces, raw) = [f \in Field |-> Value(f)]
  BY PlacesDistinct, Zenon DEF Read
<1> HIDE DEF Value
<1> QED BY <1>3, <1>4

(* pack.py fills in every field.                                           *)
LEMMA HeaderFields == \A p : DOMAIN Header(p) = Field
  BY DEF Header, build_header, Field

(* A packed header reads back with its CRC.                                *)
LEMMA Packs ==
    ASSUME NEW h, DOMAIN h = Field
    PROVE  LET crc == Crc(Bytes(ToolPlaces, Cleared(h, {"header_crc32"})))
               q == parse_header(pack_header(h))
           IN  q = [f \in Field |-> IF f = "header_crc32" THEN crc ELSE h[f]]
<1> DEFINE crc == Crc(Bytes(ToolPlaces, Cleared(h, {"header_crc32"})))
           g == [h EXCEPT !.header_crc32 = crc]
<1>1. DOMAIN g = Field /\ \A f \in Field : g[f] = IF f = "header_crc32" THEN crc ELSE h[f]
  BY DEF Field
<1>2. Read(ToolPlaces, Bytes(ToolPlaces, g)) = [f \in Field |-> g[f]]
  BY <1>1, ReadsBack
<1> QED BY <1>1, <1>2 DEF parse_header, pack_header

(* The device reads a header as the tools do.                              *)
LEMMA DeviceReads == \A raw : Read(DevicePlaces, raw) = parse_header(raw)
  BY SameLayout DEF parse_header

(* The header of the package of p, as everybody reads it.                  *)
ParsedHeader(p) == parse_header(Raw(p))

(* What it holds: its CRC and its tag are of itself.                       *)
LEMMA HeaderOf ==
    ASSUME NEW p
    PROVE  /\ DOMAIN ParsedHeader(p) = Field
           /\ ParsedHeader(p).magic = MAGIC /\ ParsedHeader(p).header_version = 3
           /\ ParsedHeader(p).firmware_size = Length(p.image)
           /\ ParsedHeader(p).payload_size = Length(p.image)
           /\ ParsedHeader(p).firmware_hash = Sha(p.image)
           /\ ParsedHeader(p).publisher_id = encode_identity(p.publisher)
           /\ ParsedHeader(p).key_id = key_id_from_public_key(p.key)
           /\ ParsedHeader(p).signature_algorithm = 1 /\ ParsedHeader(p).signature_size = 3309
           /\ ParsedHeader(p).encryption_algorithm = 1
           /\ ParsedHeader(p).encryption_key_id = encryption_key_id_from_key(p.aes)
           /\ ParsedHeader(p).nonce = <<"nonce", p.nonce>>
           /\ ParsedHeader(p).header_crc32 =
                Crc(Bytes(ToolPlaces, Cleared(ParsedHeader(p), {"header_crc32"})))
           /\ ParsedHeader(p).authentication_tag =
                Tag(p.aes, ParsedHeader(p).nonce, gcm_aad(ParsedHeader(p)), Body(p))
<1> DEFINE crc == Crc(Bytes(ToolPlaces, Cleared(Header(p), {"header_crc32"})))
           h == build_header(p.image, 1, encode_identity(p.publisher),
                             key_id_from_public_key(p.key),
                             encryption_key_id_from_key(p.aes), <<"nonce", p.nonce>>)
           tag == Tag(p.aes, h.nonce, gcm_aad(h), Body(p))
<1>1. ParsedHeader(p) = [f \in Field |-> IF f = "header_crc32" THEN crc ELSE Header(p)[f]]
  BY HeaderFields, Packs DEF ParsedHeader, Raw
<1>2. DOMAIN h = Field
  BY DEF build_header, Field
<1>3. /\ DOMAIN Header(p) = Field
      /\ \A f \in Field : Header(p)[f] = IF f = "authentication_tag" THEN tag ELSE h[f]
  BY <1>2, HeaderFields DEF Header
<1> HIDE DEF crc, tag
<1>4. \A f \in Field : ParsedHeader(p)[f] = IF f = "header_crc32" THEN crc
                                   ELSE IF f = "authentication_tag" THEN tag ELSE h[f]
  BY <1>1, <1>3
<1>5. DOMAIN ParsedHeader(p) = Field
  BY <1>1
<1>6. Cleared(ParsedHeader(p), {"header_crc32"}) = Cleared(Header(p), {"header_crc32"})
  BY <1>3, <1>4, <1>5 DEF Cleared
<1>7. Cleared(ParsedHeader(p), {"authentication_tag", "header_crc32"}) =
        Cleared(h, {"authentication_tag", "header_crc32"})
  BY <1>2, <1>4, <1>5 DEF Cleared
<1>8. gcm_aad(ParsedHeader(p)) = gcm_aad(h)
  BY <1>7 DEF gcm_aad
<1>9. /\ ParsedHeader(p).header_crc32 = crc /\ ParsedHeader(p).authentication_tag = tag
      /\ ParsedHeader(p).nonce = h.nonce
  BY <1>4 DEF Field
<1>10. ParsedHeader(p).header_crc32 =
         Crc(Bytes(ToolPlaces, Cleared(ParsedHeader(p), {"header_crc32"})))
  BY <1>6, <1>9 DEF crc
<1>11. ParsedHeader(p).authentication_tag =
         Tag(p.aes, ParsedHeader(p).nonce, gcm_aad(ParsedHeader(p)), Body(p))
  BY <1>8, <1>9 DEF tag
<1>12. /\ ParsedHeader(p).magic = h.magic /\ ParsedHeader(p).header_version = h.header_version
       /\ ParsedHeader(p).firmware_size = h.firmware_size
       /\ ParsedHeader(p).payload_size = h.payload_size
       /\ ParsedHeader(p).firmware_hash = h.firmware_hash
       /\ ParsedHeader(p).publisher_id = h.publisher_id /\ ParsedHeader(p).key_id = h.key_id
       /\ ParsedHeader(p).signature_algorithm = h.signature_algorithm
       /\ ParsedHeader(p).signature_size = h.signature_size
       /\ ParsedHeader(p).encryption_algorithm = h.encryption_algorithm
       /\ ParsedHeader(p).encryption_key_id = h.encryption_key_id
  BY <1>4 DEF Field
<1>13. /\ h.magic = MAGIC /\ h.header_version = 3
       /\ h.firmware_size = Length(p.image) /\ h.payload_size = Length(p.image)
       /\ h.firmware_hash = Sha(p.image)
       /\ h.publisher_id = encode_identity(p.publisher)
       /\ h.key_id = key_id_from_public_key(p.key)
       /\ h.signature_algorithm = 1 /\ h.signature_size = 3309 /\ h.encryption_algorithm = 1
       /\ h.encryption_key_id = encryption_key_id_from_key(p.aes)
       /\ h.nonce = <<"nonce", p.nonce>>
  BY DEF build_header
<1> QED BY <1>5, <1>9, <1>10, <1>11, <1>12, <1>13

(* Decryption with the key and the nonce of the encryption.                *)
LEMMA DecryptsWhatWasEncrypted ==
    ASSUME NEW p
    PROVE  Decrypt(p.aes, <<"nonce", p.nonce>>, Body(p)) = p.image
<1> DEFINE n == <<"nonce", p.nonce>>
           body == <<"ciphertext", p.aes, n, p.image>>
<1>1. Body(p) = body
  BY DEF Body, Encrypt
<1>2. Len(body) = 4 /\ body[2] = p.aes /\ body[3] = n /\ body[4] = p.image
  OBVIOUS
<1> HIDE DEF n
<1>3. body = [i \in 1..4 |-> body[i]]
  OBVIOUS
<1>4. body \in Seq({body[i] : i \in 1..4})
  BY <1>2, <1>3
<1> HIDE DEF body
<1>5. SubSeq(body, 2, 3) = <<p.aes, n>>
  <2> DEFINE S == {body[i] : i \in 1..4}
             s == SubSeq(body, 2, 3)
  <2>1. \A i \in 2..3 : body[i] \in S
    BY <1>4
  <2>2. s \in Seq(S) /\ Len(s) = 2 /\ s[1] = body[2] /\ s[2] = body[3]
    <3> HIDE DEF S
    <3> QED BY <2>1, SubSeqProperties
  <2>3. s = [i \in 1..2 |-> s[i]]
    BY <2>2
  <2> HIDE DEF s, S
  <2> DEFINE t == <<p.aes, n>>
  <2>4. t = [i \in 1..2 |-> t[i]] /\ t[1] = p.aes /\ t[2] = n
    OBVIOUS
  <2> HIDE DEF t
  <2>5. \A i \in 1..2 : s[i] = t[i]
    BY <1>2, <2>2, <2>4
  <2>6. s = t
    BY <2>3, <2>4, <2>5
  <2> QED BY <2>6 DEF s, t
<1> QED BY <1>1, <1>2, <1>5 DEF Decrypt, n

---------------------------------------------------------------------------
(* The inductive invariant.                                                *)

(* What pack.py holds, and what it has written.                            *)
Work == [at : {"sign", "verify", "write"}, image : Images, publisher : Publishers,
         key : Int, aes : Int, nonce : {1}, signer : Int, steady : BOOLEAN]

Typed ==
    /\ pk \in Int /\ sk \in Int /\ aes \in Int /\ pair \in Int /\ symmetric \in Int
    /\ packing \in {NotPacking} \union Work
    /\ package \in {NoPackage} \union Work

(* A package at work names the keys that the files hold, unless they       *)
(* moved; one that was verified against the public key file is signed with *)
(* the key it names.                                                       *)
PackingInv ==
    packing # NotPacking =>
        /\ Length(packing.image) # 0
        /\ packing.steady => packing.key = pk /\ packing.aes = aes
        /\ packing.steady /\ packing.at = "write" => packing.signer = packing.key

(* So is one that was written.                                             *)
PackageInv ==
    package # NoPackage =>
        /\ Length(package.image) # 0
        /\ package.steady => package.signer = package.key

(* The identifiers in the device are those of its keys.                    *)
DeviceInv ==
    device # NoDevice => /\ device.keyId = key_id_from_public_key(device.key)
                         /\ device.aesKeyId = encryption_key_id_from_key(device.aes)

PublishInv == Typed /\ PackingInv /\ PackageInv /\ DeviceInv

(* At first there is nothing.                                              *)
LEMMA InitPublish == Init => PublishInv
  BY DEF Init, PublishInv, Typed, PackingInv, PackageInv, DeviceInv, Absent

(* Work is never mistaken for none.                                        *)
LEMMA WorkIs ==
    \A w \in Work : w # NotPacking /\ w # NoPackage /\ w.at \in {"sign", "verify", "write"}
  BY DEF Work, NotPacking, NoPackage

(* A change of a key file is remembered.                                   *)
LEMMA Moves ==
    ASSUME Typed, PackingInv, KeysMove, pk' \in Int, sk' \in Int, aes' \in Int
    PROVE  packing' \in {NotPacking} \union Work /\ PackingInv'
<1>1. CASE packing = NotPacking
  BY <1>1 DEF KeysMove, PackingInv
<1>2. CASE packing \in Work /\ <<pk, sk, aes>>' = <<pk, sk, aes>>
  BY <1>2, WorkIs DEF KeysMove, PackingInv
<1>3. CASE packing \in Work /\ <<pk, sk, aes>>' # <<pk, sk, aes>>
  <2>1. packing' = [packing EXCEPT !.steady = FALSE]
    BY <1>3, WorkIs DEF KeysMove
  <2>2. /\ packing' \in Work /\ packing'.image = packing.image
        /\ packing'.steady = FALSE
    BY <1>3, <2>1 DEF Work
  <2> QED BY <1>3, <2>2, WorkIs DEF PackingInv
<1> QED BY <1>1, <1>2, <1>3 DEF Typed

(* The steps that write key files, in whole or in part.                    *)
LEMMA KeyFileStep ==
    ASSUME PublishInv,
           \/ KeygenPublic
           \/ KeygenSecret
           \/ ProvisionStops
           \/ WriteAesKey
           \/ AesStops
    PROVE  PublishInv'
<1>1. pk' \in Int /\ sk' \in Int /\ aes' \in Int /\ pair' \in Int /\ symmetric' \in Int
  BY DEF PublishInv, Typed, KeygenPublic, KeygenSecret, ProvisionStops, WriteAesKey, AesStops, Torn
<1>2. KeysMove /\ UNCHANGED <<package, device>>
  BY DEF KeygenPublic, KeygenSecret, ProvisionStops, WriteAesKey, AesStops
<1> QED BY <1>1, <1>2, Moves DEF PublishInv, Typed, PackageInv, DeviceInv

(* The steps that touch no key file, no package and no device.             *)
LEMMA SourceStep ==
    ASSUME PublishInv,
           \/ \E force \in BOOLEAN : Provision(force) \/ ProvisionAes(force)
           \/ \E p \in Publishers : Embed(p)
           \/ EmbedAes
           \/ UNCHANGED vars
    PROVE  PublishInv'
<1>1. UNCHANGED <<pk, sk, aes, symmetric, packing, package, device>> /\ pair' \in Int
  BY DEF PublishInv, Typed, Provision, ProvisionAes, Embed, EmbedAes, files, vars
<1> QED BY <1>1 DEF PublishInv, Typed, PackingInv, PackageInv, DeviceInv

(* A bootloader is built with identifiers of its own keys.                 *)
LEMMA BurnStep == ASSUME PublishInv, BurnBootloader PROVE PublishInv'
<1>1. UNCHANGED <<pk, sk, aes, pair, symmetric, packing, package>>
  BY DEF BurnBootloader, files
<1>2. DeviceInv'
  BY DEF BurnBootloader, DeviceInv
<1> QED BY <1>1, <1>2 DEF PublishInv, Typed, PackingInv, PackageInv

(* pack.py begins with the keys that it reads.                             *)
LEMMA StartStep ==
    ASSUME PublishInv, NEW i \in Images, NEW p \in Publishers, PackStart(i, p)
    PROVE  PublishInv'
<1>1. UNCHANGED <<pk, sk, aes, pair, symmetric, device, package>>
  BY DEF PackStart, files
<1>2. /\ packing' \in Work /\ packing'.image = i /\ packing'.key = pk /\ packing'.aes = aes
      /\ packing'.at = "sign" /\ Length(i) # 0
  BY DEF PackStart, Work, PublishInv, Typed, Absent
<1> QED BY <1>1, <1>2 DEF PublishInv, Typed, PackingInv, PackageInv, DeviceInv

(* mldsa_tool signs.                                                       *)
LEMMA SignStep == ASSUME PublishInv, PackSign PROVE PublishInv'
<1>1. UNCHANGED <<pk, sk, aes, pair, symmetric, device, package>>
  BY DEF PackSign, files
<1>2. packing \in Work
  BY DEF PackSign, PublishInv, Typed, NotPacking
<1>3. CASE packing' = NotPacking
  BY <1>1, <1>3 DEF PublishInv, Typed, PackingInv, PackageInv, DeviceInv
<1>4. CASE packing' = [packing EXCEPT !.at = "verify", !.signer = sk]
  <2>1. /\ packing' \in Work /\ packing'.image = packing.image /\ packing'.key = packing.key
        /\ packing'.aes = packing.aes /\ packing'.steady = packing.steady
        /\ packing'.at = "verify"
    BY <1>2, <1>4 DEF Work, PublishInv, Typed
  <2>2. PackingInv'
    BY <1>1, <1>2, <2>1, WorkIs DEF PublishInv, PackingInv
  <2> QED BY <1>1, <2>1, <2>2 DEF PublishInv, Typed, PackageInv, DeviceInv
<1> QED BY <1>3, <1>4 DEF PackSign

(* A signature verifies only with the key of its signer.                   *)
LEMMA SignerFound ==
    ASSUME NEW p, NEW public, Verified(p, public)
    PROVE  p.signer = public
  BY DEF Verified, SignatureVerifies, Signature, Package

(* mldsa_tool verifies, with the public key file as it is now.             *)
LEMMA VerifyStep == ASSUME PublishInv, PackVerify PROVE PublishInv'
<1>1. UNCHANGED <<pk, sk, aes, pair, symmetric, device, package>>
  BY DEF PackVerify, files
<1>2. packing \in Work
  BY DEF PackVerify, PublishInv, Typed, NotPacking
<1>3. CASE packing' = NotPacking
  BY <1>1, <1>3 DEF PublishInv, Typed, PackingInv, PackageInv, DeviceInv
<1>4. CASE packing' = [packing EXCEPT !.at = "write"] /\ Verified(packing, pk)
  <2>1. /\ packing' \in Work /\ packing'.image = packing.image /\ packing'.key = packing.key
        /\ packing'.aes = packing.aes /\ packing'.steady = packing.steady
        /\ packing'.signer = packing.signer
    BY <1>2, <1>4 DEF Work, PublishInv, Typed
  <2>2. packing.signer = pk
    BY <1>4, SignerFound
  <2>3. PackingInv'
    BY <1>1, <1>2, <2>1, <2>2, WorkIs DEF PublishInv, PackingInv
  <2> QED BY <1>1, <2>1, <2>3 DEF PublishInv, Typed, PackageInv, DeviceInv
<1> QED BY <1>3, <1>4 DEF PackVerify

(* The package is written.                                                 *)
LEMMA WriteStep == ASSUME PublishInv, PackWrite PROVE PublishInv'
<1>1. UNCHANGED <<pk, sk, aes, pair, symmetric, device>> /\ packing' = NotPacking
  BY DEF PackWrite, files
<1>2. packing \in Work /\ packing.at = "write"
  BY DEF PackWrite, PublishInv, Typed, NotPacking
<1>3. package' = packing \/ package' = package
  BY DEF PackWrite
<1>4. package' \in {NoPackage} \union Work /\ PackageInv'
  BY <1>2, <1>3, WorkIs DEF PublishInv, Typed, PackingInv, PackageInv
<1> QED BY <1>1, <1>4 DEF PublishInv, Typed, PackingInv, DeviceInv

(* The invariant of the key files, of pack.py and of the device: whatever  *)
(* tools stop or run at the same time, a package that is written while no  *)
(* key file changes is signed with the key it names.                       *)
THEOREM PublishInvariance == Spec => []PublishInv
<1>1. PublishInv /\ [Next]_vars => PublishInv'
  BY KeyFileStep, SourceStep, BurnStep, StartStep, SignStep, VerifyStep, WriteStep DEF Next
<1> QED BY <1>1, InitPublish, PTL DEF Spec

---------------------------------------------------------------------------
(* What the device installs.                                               *)

(* Every check of the device passes for a package with its keys.           *)
LEMMA PackedInstalls ==
    ASSUME DeviceInv, device # NoDevice, NEW p, MadeFor(p, device), Fits(p.image),
           OnePair(p), Length(p.image) # 0
    PROVE  /\ Installs(device, Package(p))
           /\ Decrypted(device, Package(p)) = p.image
           /\ secure_boot_verify_app(device, Manifest(p), p.image)
<1> DEFINE h == ParsedHeader(p)
           raw == Raw(p)
           sig == Signature(p.signer, Raw(p))
<1>1. Read(DevicePlaces, raw) = h
  BY DeviceReads DEF ParsedHeader
<1>2. /\ Package(p).raw = raw /\ Package(p).signature = sig
      /\ Package(p).body = Body(p) /\ Package(p).size = Length(p.image)
  BY DEF Package
<1>3. /\ ota_header_validate(h)
      /\ h.firmware_size >= SmallestImage /\ h.firmware_size <= APP_IMAGE_SIZE
  BY HeaderOf, SameLayout DEF ota_header_validate, Fits
<1>4. ota_signature_verify(device, raw, sig)
  BY <1>1, HeaderOf
  DEF ota_signature_verify, trusted_publisher_matches, SignatureVerifies, MadeFor, OnePair,
      DeviceInv
<1>5. Decrypted(device, Package(p)) = p.image
  <2>1. Read(DevicePlaces, Package(p).raw).nonce = <<"nonce", p.nonce>> /\ device.aes = p.aes
    BY <1>1, <1>2, HeaderOf DEF MadeFor
  <2> HIDE DEF raw, sig, h
  <2> QED BY <1>2, <2>1, DecryptsWhatWasEncrypted DEF Decrypted
<1>6. Sha(FirstBytes(p.image, h.firmware_size)) = h.firmware_hash
  BY HeaderOf DEF FirstBytes
<1>7. secure_boot_verify_app(device, [raw |-> raw, signature |-> <<152, sig>>], p.image)
  BY <1>1, <1>3, <1>4, <1>6 DEF secure_boot_verify_app
<1>8. Manifest(p) = [raw |-> raw, signature |-> <<152, sig>>]
  BY <1>2 DEF Manifest, build_app_manifest
<1>9. Bytes(DevicePlaces, Cleared(h, {"authentication_tag", "header_crc32"})) = gcm_aad(h)
  BY SameLayout DEF gcm_aad
<1>10. /\ h.authentication_tag = Tag(device.aes, h.nonce, gcm_aad(h), Body(p))
       /\ h.encryption_key_id = device.aesKeyId /\ h.payload_size = Length(p.image)
       /\ Sha(p.image) = h.firmware_hash
  BY HeaderOf DEF MadeFor, DeviceInv
<1>11. Installs(device, Package(p))
  BY <1>1, <1>2, <1>3, <1>4, <1>5, <1>7, <1>9, <1>10 DEF Installs
<1> QED BY <1>5, <1>7, <1>8, <1>11

(* A package that pack.py has written is installed, and its manifest       *)
(* boots, on every device with the keys it was packed with.                *)
THEOREM PackedAccepted == Spec => []PackedIsAccepted
<1>1. PublishInv => PackedIsAccepted
  BY PackedInstalls DEF PublishInv, PackageInv, PackedIsAccepted, OnePair, Resting
<1> QED BY <1>1, PublishInvariance, PTL

(* Other packages with the same keys.                                      *)
LEMMA MadeIs ==
    ASSUME PublishInv, package # NoPackage, NEW p \in Made
    PROVE  /\ p.image \in Images /\ p.key = package.key /\ p.aes = package.aes
           /\ p.signer = package.signer /\ p.publisher = package.publisher
<1>1. package \in Work
  BY DEF PublishInv, Typed
<1> QED BY <1>1 DEF Made, Others, Work

(* Something with the parts of a package.                                  *)
IsPackage(a) ==
    a = [raw |-> a.raw, signature |-> a.signature, body |-> a.body, size |-> a.size]

(* Nobody but the owner of a secret key signs.                             *)
LEMMA ArrivingSigned ==
    ASSUME NEW a \in Arriving
    PROVE  /\ IsPackage(a)
           /\ a.signature = <<"spoilt">> \/ \E p \in Made : a.signature = Package(p).signature
<1> DEFINE ota == Package(package)
<1>1. IsPackage(ota) /\ package \in Made
  BY DEF Package, IsPackage, Made
<1>2. CASE a \in Mixed
  <2>1. PICK p \in Others : \E x, b, c \in {ota, Package(p)} :
             a = [raw |-> x.raw, signature |-> b.signature, body |-> c.body, size |-> c.size]
    BY <1>2 DEF Mixed
  <2>2. p \in Made
    BY DEF Made
  <2> HIDE DEF ota
  <2>3. PICK x, b, c \in {ota, Package(p)} :
             a = [raw |-> x.raw, signature |-> b.signature, body |-> c.body, size |-> c.size]
    BY <2>1
  <2>4. IsPackage(a) /\ a.signature = b.signature
    BY <2>3 DEF IsPackage
  <2> QED BY <1>1, <2>2, <2>3, <2>4 DEF ota
<1>3. CASE \E raw : a = [ota EXCEPT !.raw = raw]
  <2> HIDE DEF ota
  <2>1. IsPackage(a) /\ a.signature = ota.signature
    BY <1>1, <1>3 DEF IsPackage
  <2> QED BY <1>1, <2>1 DEF ota
<1>4. CASE a = [ota EXCEPT !.signature = <<"spoilt">>]
  <2> HIDE DEF ota
  <2> QED BY <1>1, <1>4 DEF IsPackage
<1>5. CASE a = [ota EXCEPT !.body = <<"spoilt">>] \/ a = [ota EXCEPT !.size = 9]
  <2> HIDE DEF ota
  <2>1. IsPackage(a) /\ a.signature = ota.signature
    BY <1>1, <1>5 DEF IsPackage
  <2> QED BY <1>1, <2>1 DEF ota
<1> QED BY <1>2, <1>3, <1>4, <1>5 DEF Arriving

(* The device takes a header that pack.py made, with its signature, only   *)
(* if both are of the pair that the device has.                            *)
LEMMA SignedWithOnePair ==
    ASSUME DeviceInv, device # NoDevice, NEW p,
           ota_signature_verify(device, Raw(p), Signature(p.signer, Raw(p)))
    PROVE  OnePair(p) /\ p.key = device.key /\ encode_identity(p.publisher) = device.publisher
<1> DEFINE h == ParsedHeader(p)
<1>1. h = Read(DevicePlaces, Raw(p))
  BY DeviceReads DEF ParsedHeader
<1>2. /\ h.publisher_id = device.publisher /\ h.key_id = device.keyId
      /\ Signature(p.signer, Raw(p)) = Signature(device.key, Raw(p))
  BY <1>1 DEF ota_signature_verify, trusted_publisher_matches, SignatureVerifies
<1>3. h.publisher_id = encode_identity(p.publisher) /\ h.key_id = key_id_from_public_key(p.key)
  BY HeaderOf
<1> HIDE DEF h
<1>4. p.signer = device.key
  BY <1>2 DEF Signature
<1>5. key_id_from_public_key(p.key) = key_id_from_public_key(device.key)
  BY <1>2, <1>3 DEF DeviceInv
<1>6. p.key = device.key
  BY <1>5 DEF key_id_from_public_key, Sha
<1> QED BY <1>2, <1>3, <1>4, <1>6 DEF OnePair

(* Whatever carries the signature of a package is installed only if it is  *)
(* that package, of the device's pair: the signature fixes the header, its *)
(* tag fixes the ciphertext, its size the length.                          *)
LEMMA SignedInstalls ==
    ASSUME DeviceInv, device # NoDevice,
           NEW p, NEW a, IsPackage(a), a.signature = Package(p).signature, Installs(device, a)
    PROVE  /\ a = Package(p) /\ Decrypted(device, a) = p.image
           /\ OnePair(p) /\ MadeFor(p, device)
<1> DEFINE h == parse_header(a.raw)
<1>1. Read(DevicePlaces, a.raw) = h
  BY DeviceReads
<1>2. a.signature = Signature(device.key, a.raw)
  BY DEF Installs, ota_signature_verify, SignatureVerifies
<1>3. a.raw = Raw(p)
  BY <1>2 DEF Package, Signature
<1>4. h = ParsedHeader(p)
  BY <1>3 DEF ParsedHeader
<1>5. h.authentication_tag = Tag(device.aes, h.nonce, gcm_aad(h), a.body) /\ a.size = h.payload_size
  BY <1>1, SameLayout DEF Installs, gcm_aad
<1>6. h.authentication_tag = Tag(p.aes, h.nonce, gcm_aad(h), Body(p))
      /\ h.payload_size = Length(p.image) /\ h.nonce = <<"nonce", p.nonce>>
  BY <1>4, HeaderOf
<1> HIDE DEF h
<1>7. a.body = Body(p) /\ device.aes = p.aes
  BY <1>5, <1>6 DEF Tag
<1>8. a = Package(p)
  BY <1>3, <1>5, <1>6, <1>7 DEF IsPackage, Package
<1>9. Decrypted(device, a) = p.image
  BY <1>1, <1>6, <1>7, DecryptsWhatWasEncrypted DEF Decrypted
<1>10. ota_signature_verify(device, Raw(p), Signature(p.signer, Raw(p)))
  BY <1>3 DEF Installs, Package
<1>11. OnePair(p) /\ MadeFor(p, device)
  BY <1>7, <1>10, SignedWithOnePair DEF MadeFor
<1> QED BY <1>8, <1>9, <1>11

(* So for all that arrives.                                                *)
LEMMA ArrivingInstalls ==
    ASSUME DeviceInv, device # NoDevice, NEW a \in Arriving, Installs(device, a)
    PROVE  \E p \in Made : /\ a = Package(p) /\ Decrypted(device, a) = p.image
                          /\ OnePair(p) /\ MadeFor(p, device)
<1>1. a.signature # <<"spoilt">>
  BY DEF Installs, ota_signature_verify, SignatureVerifies, Signature
<1> QED BY <1>1, ArrivingSigned, SignedInstalls

(* The parts of a manifest.                                                *)
LEMMA ManifestIs ==
    ASSUME NEW p
    PROVE  /\ Manifest(p).raw = Raw(p)
           /\ Manifest(p).signature[1] = 152
           /\ Manifest(p).signature[2] = Signature(p.signer, Raw(p))
           /\ parse_header(Manifest(p).raw) = ParsedHeader(p)
           /\ Read(DevicePlaces, Manifest(p).raw) = ParsedHeader(p)
  BY DeviceReads DEF Manifest, Package, build_app_manifest, ParsedHeader

(* Secure boot compares the whole image.                                   *)
LEMMA BootsItsImage ==
    ASSUME NEW p, p.image \in Images, NEW image \in Images,
           secure_boot_verify_app(device, Manifest(p), image)
    PROVE  image = p.image
<1> DEFINE h == ParsedHeader(p)
           first == FirstBytes(image, h.firmware_size)
<1>1. Sha(first) = h.firmware_hash
  BY ManifestIs DEF secure_boot_verify_app
<1>2. Sha(first) = Sha(p.image)
  BY <1>1, HeaderOf
<1>3. first = p.image
  <2> HIDE DEF first
  <2> QED BY <1>2 DEF Sha
<1>4. p.image[1] = "image"
  BY ImageAssumption
<1>5. first = image \/ first = <<"cut", image, h.firmware_size>>
  BY DEF FirstBytes
<1>6. first # <<"cut", image, h.firmware_size>>
  <2> HIDE DEF first, h
  <2> QED BY <1>3, <1>4
<1> QED BY <1>3, <1>5, <1>6

(* And it takes a manifest of its own pair only.                           *)
LEMMA BootsItsPair ==
    ASSUME DeviceInv, device # NoDevice, NEW p, NEW image,
           secure_boot_verify_app(device, Manifest(p), image)
    PROVE  OnePair(p) /\ p.key = device.key
<1>1. ota_signature_verify(device, Raw(p), Signature(p.signer, Raw(p)))
  BY ManifestIs DEF secure_boot_verify_app
<1> QED BY <1>1, SignedWithOnePair

(* The device installs only what pack.py put together, unchanged and with  *)
(* one pair of keys, and boots only an image with its own manifest.        *)
THEOREM InstalledPacked == Spec => []InstalledWasPacked
<1>1. PublishInv => InstalledWasPacked
  BY ArrivingInstalls, BootsItsImage, BootsItsPair, MadeIs
  DEF PublishInv, InstalledWasPacked, Resting
<1> QED BY <1>1, PublishInvariance, PTL

(* The checks of a header are the same but for the size of the image.      *)
LEMMA SameChecks ==
    \A h : ota_header_validate(h) <=> validate_header(h) /\ h.firmware_size <= APP_IMAGE_SIZE
  BY SameLayout DEF ota_header_validate, validate_header

(* What verify_ota.py passes, with the publisher and the size it does not  *)
(* look at, the device installs.                                           *)
LEMMA ToolAccepts ==
    ASSUME DeviceInv, device # NoDevice, NEW a, verify_ota(a, device.key, device.aes),
           parse_header(a.raw).publisher_id = device.publisher,
           SmallestImage <= parse_header(a.raw).firmware_size,
           parse_header(a.raw).firmware_size <= APP_IMAGE_SIZE
    PROVE  Installs(device, a)
<1> DEFINE h == parse_header(a.raw)
           plain == Decrypt(device.aes, h.nonce, a.body)
<1>1. Read(DevicePlaces, a.raw) = h
  BY DeviceReads
<1>2. ota_header_validate(h) /\ a.size = h.payload_size
  BY SameChecks DEF verify_ota, parse_ota
<1>3. ota_signature_verify(device, a.raw, a.signature)
  BY <1>1 DEF verify_ota, parse_ota, validate_header, ota_signature_verify,
              trusted_publisher_matches, DeviceInv
<1>4. /\ h.encryption_key_id = device.aesKeyId
      /\ h.authentication_tag = Tag(device.aes, h.nonce, gcm_aad(h), a.body)
      /\ Length(plain) = h.firmware_size /\ Sha(plain) = h.firmware_hash
  BY DEF verify_ota, decrypt_payload, DeviceInv
<1>5. Decrypted(device, a) = plain
  BY <1>1 DEF Decrypted
<1>6. Bytes(DevicePlaces, Cleared(h, {"authentication_tag", "header_crc32"})) = gcm_aad(h)
  BY SameLayout DEF gcm_aad
<1>7. h.firmware_size >= SmallestImage /\ h.firmware_size <= APP_IMAGE_SIZE
  OBVIOUS
<1> HIDE DEF h, plain
<1>8. Sha(FirstBytes(plain, h.firmware_size)) = h.firmware_hash
  BY <1>4 DEF FirstBytes
<1>9. secure_boot_verify_app(device, [raw |-> a.raw, signature |-> <<152, a.signature>>], plain)
  BY <1>1, <1>2, <1>3, <1>7, <1>8 DEF secure_boot_verify_app
<1> QED BY <1>1, <1>2, <1>3, <1>4, <1>5, <1>6, <1>9 DEF Installs

(* What the device installs, verify_ota.py passes.                         *)
LEMMA ToolAgrees ==
    ASSUME DeviceInv, device # NoDevice, NEW a, Installs(device, a),
           NEW p, p.image \in Images, a = Package(p), Decrypted(device, a) = p.image
    PROVE  /\ verify_ota(a, device.key, device.aes)
           /\ parse_header(a.raw).publisher_id = device.publisher
           /\ SmallestImage <= parse_header(a.raw).firmware_size
           /\ parse_header(a.raw).firmware_size <= APP_IMAGE_SIZE
<1> DEFINE h == parse_header(a.raw)
           plain == Decrypt(device.aes, h.nonce, a.body)
<1>1. Read(DevicePlaces, a.raw) = h
  BY DeviceReads
<1>2. h.firmware_size = Length(p.image)
  BY HeaderOf DEF ParsedHeader, Package
<1>3. plain = p.image
  BY <1>1 DEF Decrypted
<1>4. /\ ota_header_validate(h) /\ a.size = h.payload_size
      /\ h.encryption_key_id = device.aesKeyId
      /\ ota_signature_verify(device, a.raw, a.signature)
      /\ h.authentication_tag = Tag(device.aes, h.nonce, gcm_aad(h), a.body)
      /\ Sha(p.image) = h.firmware_hash
  BY <1>1, SameLayout DEF Installs, gcm_aad
<1>5. h.firmware_size >= SmallestImage /\ h.firmware_size <= APP_IMAGE_SIZE
  BY <1>1 DEF Installs, secure_boot_verify_app
<1>6. /\ h.publisher_id = device.publisher /\ h.key_id = key_id_from_public_key(device.key)
      /\ SignatureVerifies(device.key, a.raw, a.signature)
  BY <1>1, <1>4 DEF ota_signature_verify, trusted_publisher_matches, DeviceInv
<1>7. parse_ota(a)
  BY <1>4, SameChecks DEF parse_ota
<1>8. decrypt_payload(h, a, device.aes) = p.image
  <2>1. h.encryption_key_id = encryption_key_id_from_key(device.aes)
    BY <1>4 DEF DeviceInv
  <2> HIDE DEF h
  <2> QED BY <1>2, <1>3, <1>4, <2>1 DEF decrypt_payload
<1>9. p.image # <<"failed">>
  BY ImageAssumption
<1>10. verify_ota(a, device.key, device.aes)
  BY <1>6, <1>7, <1>8, <1>9 DEF verify_ota
<1> QED BY <1>5, <1>6, <1>10

(* verify_manifest.py and secure boot decide the same.                     *)
LEMMA ManifestsAgree ==
    ASSUME DeviceInv, device # NoDevice, NEW p, p.image \in Images, NEW image \in Images
    PROVE  secure_boot_verify_app(device, Manifest(p), image) <=>
               /\ verify_manifest(Manifest(p), image, device.key)
               /\ encode_identity(p.publisher) = device.publisher /\ Fits(image)
<1> DEFINE h == ParsedHeader(p)
           m == Manifest(p)
<1>1. ota_header_validate(h) <=> validate_header(h) /\ h.firmware_size <= APP_IMAGE_SIZE
  BY SameChecks
<1>2. ota_signature_verify(device, m.raw, m.signature[2])
        <=> /\ h.publisher_id = device.publisher /\ h.key_id = key_id_from_public_key(device.key)
            /\ SignatureVerifies(device.key, m.raw, m.signature[2])
  <2>1. h.signature_algorithm = 1 /\ h.signature_size = 3309
    BY HeaderOf
  <2>2. Read(DevicePlaces, m.raw) = h /\ device.keyId = key_id_from_public_key(device.key)
    BY ManifestIs DEF DeviceInv
  <2> HIDE DEF h, m
  <2> QED BY <2>1, <2>2 DEF ota_signature_verify, trusted_publisher_matches
<1>3. /\ h.firmware_size = Length(p.image) /\ h.firmware_hash = Sha(p.image)
      /\ h.publisher_id = encode_identity(p.publisher)
  BY HeaderOf
<1>4. Read(DevicePlaces, m.raw) = h /\ parse_header(m.raw) = h
  BY ManifestIs
<1>5. ASSUME secure_boot_verify_app(device, m, image)
      PROVE  /\ verify_manifest(m, image, device.key)
             /\ encode_identity(p.publisher) = device.publisher /\ Fits(image)
  <2>1. image = p.image
    BY <1>5, BootsItsImage
  <2>2. /\ ota_header_validate(h)
        /\ h.firmware_size >= SmallestImage /\ h.firmware_size <= APP_IMAGE_SIZE
        /\ m.signature[1] = 152
        /\ ota_signature_verify(device, m.raw, m.signature[2])
    BY <1>4, <1>5 DEF secure_boot_verify_app
  <2> HIDE DEF h, m
  <2> QED BY <1>1, <1>2, <1>3, <1>4, <2>1, <2>2 DEF verify_manifest, Fits
<1>6. ASSUME verify_manifest(m, image, device.key),
             encode_identity(p.publisher) = device.publisher, Fits(image)
      PROVE  secure_boot_verify_app(device, m, image)
  <2>1. /\ validate_header(h)
        /\ Length(image) = h.firmware_size /\ Sha(image) = h.firmware_hash
        /\ h.key_id = key_id_from_public_key(device.key)
        /\ m.signature[1] = 152
        /\ SignatureVerifies(device.key, m.raw, m.signature[2])
    BY <1>4, <1>6 DEF verify_manifest
  <2> HIDE DEF h, m
  <2>2. h.firmware_size >= SmallestImage /\ h.firmware_size <= APP_IMAGE_SIZE
    BY <1>6, <2>1 DEF Fits
  <2>3. FirstBytes(image, h.firmware_size) = image
    BY <2>1 DEF FirstBytes
  <2> QED BY <1>1, <1>2, <1>3, <1>4, <1>6, <2>1, <2>2, <2>3 DEF secure_boot_verify_app
<1> QED BY <1>5, <1>6

(* verify_ota.py and verify_manifest.py pass exactly what the device       *)
(* installs and boots, but for the publisher and the size.                 *)
THEOREM ToolsAgree == Spec => []ToolsAgreeWithDevice
<1>1. PublishInv => ToolsAgreeWithDevice
  <2> SUFFICES ASSUME PublishInv, Resting PROVE ToolsAgreeWithDevice
    BY DEF ToolsAgreeWithDevice
  <2>1. DeviceInv /\ device # NoDevice /\ package # NoPackage
    BY DEF PublishInv, Resting
  <2>2. ASSUME NEW a \in Arriving, Installs(device, a)
        PROVE  /\ verify_ota(a, device.key, device.aes)
               /\ parse_header(a.raw).publisher_id = device.publisher
               /\ SmallestImage <= parse_header(a.raw).firmware_size
               /\ parse_header(a.raw).firmware_size <= APP_IMAGE_SIZE
    BY <2>1, <2>2, ArrivingInstalls, MadeIs, ToolAgrees
  <2>3. \A p \in Made : p.image \in Images
    BY <2>1, MadeIs
  <2>4. ASSUME NEW raw
        PROVE  ota_header_validate(Read(DevicePlaces, raw)) <=>
                   /\ validate_header(parse_header(raw))
                   /\ parse_header(raw).firmware_size <= APP_IMAGE_SIZE
    BY SameChecks, DeviceReads
  <2> QED BY <2>1, <2>2, <2>3, <2>4, ToolAccepts, ManifestsAgree DEF ToolsAgreeWithDevice
<1> QED BY <1>1, PublishInvariance, PTL
=============================================================================
