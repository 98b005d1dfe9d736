---------------------------- MODULE KeyFactories ----------------------------
(***************************************************************************)
(* How keys come into being and come back: the key factories of RSA, EC   *)
(* (with the curve 25519 keys), AES, triple DES and HMAC.  A key           *)
(* description is validated and completed, the material is generated or    *)
(* imported, the pair is stored in a blob, an asymmetric key of a KeyMint  *)
(* device gets a certificate, and the stored pair is later loaded again    *)
(* by code that only sees the description.                                 *)
(*                                                                         *)
(* Key material is abstracted to what the code reads off it: its kind, its *)
(* curve, its size and its public exponent.  A description has one field   *)
(* per tag the factories look at; NONE is an absent tag.  Repeated         *)
(* purposes are not distinguished, so a tag count above one means two      *)
(* different purposes.                                                     *)
(***************************************************************************)
EXTENDS Integers, Sequences, FiniteSets

CONSTANTS Algorithms, \* the algorithms of this instance
          Curves,     \* values of TAG_EC_CURVE, NONE included
          Sizes,      \* values of TAG_KEY_SIZE, NONE included
          Exponents,  \* values of TAG_RSA_PUBLIC_EXPONENT, NONE included
          MinMacs,    \* values of TAG_MIN_MAC_LENGTH, NONE included
          Digests,    \* sequences of TAG_DIGEST values
          Purposes,   \* sets of purposes a description may carry
          Materials,  \* key material a caller may hand to ImportKey
          NONE,       \* an absent tag, and no value elsewhere
          KeyMint     \* the context's KmVersion is KEYMINT_1 or later

VARIABLES key,     \* NONE or the key held by the caller: description, material, certificate
          loaded,  \* NONE, or the outcome of loading that key
          result   \* NONE, or the error code of the last call

vars == <<key, loaded, result>>

Descriptions ==
    [algorithm : Algorithms, curve : Curves, size : Sizes, exponent : Exponents,
     mac : MinMacs, digests : Digests, gcm : BOOLEAN, purposes : Purposes]

Formats == {"PKCS8", "RAW", "X509"}

Fail(e) == [error |-> e, auth |-> NONE, material |-> NONE]

Made(auth, material) == [error |-> "OK", auth |-> auth, material |-> material]

-----------------------------------------------------------------------------
(* Elliptic curves *)

\* 256 bits could be P-256 or Curve25519, so that the size alone does not do.
EllipticKeySizeToCurve(size) ==
    CASE size = 224 -> "P_224" [] size = 384 -> "P_384" [] size = 521 -> "P_521"
      [] OTHER -> NONE

EcKeySizeToCurve(size) ==
    IF size = 256 THEN "P_256" ELSE EllipticKeySizeToCurve(size)

EcCurveToKeySize(curve) ==
    CASE curve = "P_224" -> 224 [] curve = "P_384" -> 384 [] curve = "P_521" -> 521
      [] curve \in {"P_256", "CURVE_25519"} -> 256
      [] OTHER -> NONE

\* The size of the group of an imported EC key; NONE for a field Keymaster does not support.
ec_get_group_size(material) == material.size

GetCurveAndSize(d) ==
    IF d.curve = NONE
    THEN IF d.size = NONE \/ EllipticKeySizeToCurve(d.size) = NONE
         THEN [error |-> "UNSUPPORTED_KEY_SIZE", curve |-> NONE, size |-> NONE]
         ELSE [error |-> "OK", curve |-> EllipticKeySizeToCurve(d.size), size |-> d.size]
    ELSE [error |-> CASE EcCurveToKeySize(d.curve) = NONE -> "UNSUPPORTED_EC_CURVE"
                      [] d.size \notin {NONE, EcCurveToKeySize(d.curve)} -> "INVALID_ARGUMENT"
                      [] OTHER -> "OK",
          curve |-> d.curve, size |-> EcCurveToKeySize(d.curve)]

ForEd25519(d) == d.purposes \cap {"SIGN", "ATTEST_KEY"} # {}

ForX25519(d) == "AGREE_KEY" \in d.purposes

AttestKeyWithOthers(d) == "ATTEST_KEY" \in d.purposes /\ Cardinality(d.purposes) > 1

\* Whether the self-signed certificate of a key is really signed by it.
IsCertSigningKey(d) == d.purposes \cap {"SIGN", "ATTEST_KEY"} # {}

Material(kind, curve, size, exponent) ==
    [kind |-> kind, curve |-> curve, size |-> size, exponent |-> exponent]

\* EcKeyFactory::GenerateKey without the check of the purposes against the curve.
EcNewKey(d) ==
    LET cs == GetCurveAndSize(d)
        auth == [d EXCEPT !.curve = cs.curve, !.size = cs.size]
    IN CASE cs.error # "OK" -> Fail(cs.error)
         [] cs.curve = "CURVE_25519" /\ ForEd25519(d) ->
                Made(auth, Material("ED25519", "CURVE_25519", 256, NONE))
         [] cs.curve = "CURVE_25519" /\ ForX25519(d) ->
                Made(auth, Material("X25519", "CURVE_25519", 256, NONE))
         [] cs.curve = "CURVE_25519" -> Fail("UNSUPPORTED_PURPOSE")
         [] OTHER -> Made(auth, Material("EC", cs.curve, cs.size, NONE))

\* EcKeyFactory::GenerateKey up to the blob: whichever of size and curve the
\* description lacks is added to it, and for curve 25519 the purposes choose
\* between a signing and an agreement key.
EcGenerateKey(d) ==
    IF GetCurveAndSize(d).error = "OK" /\ GetCurveAndSize(d).curve = "CURVE_25519"
       /\ ForEd25519(d) /\ ForX25519(d)
    THEN Fail("INCOMPATIBLE_PURPOSE")
    ELSE EcNewKey(d)

\* What EVP parses a PKCS#8 blob to: the algorithm of the key in it, or NONE.
AlgorithmOf(material) ==
    CASE material.kind = "RSA" -> "RSA"
      [] material.kind \in {"EC", "ED25519", "X25519"} -> "EC"
      [] OTHER -> NONE

convert_pkcs8_blob_to_evp(material, expected) ==
    CASE AlgorithmOf(material) = NONE -> "INVALID_KEY_BLOB"   \* not PKCS#8 at all
      [] AlgorithmOf(material) # expected -> "INVALID_KEY_BLOB"
      [] OTHER -> "OK"

KeyMaterialToEvpKey(format, material, expected) ==
    IF format # "PKCS8" THEN "UNSUPPORTED_KEY_FORMAT"
    ELSE convert_pkcs8_blob_to_evp(material, expected)

\* A tag of the description is the imported key's, or is absent.
Agrees(tag, value) == tag \in {NONE, value}

\* EcKeyFactory::UpdateImportKeyDescription: what the description leaves out
\* is read off the key, what it states must be true of the key.
EcUpdateImportKeyDescription(d, format, material) ==
    LET parsed == KeyMaterialToEvpKey(format, material, "EC")
        size == ec_get_group_size(material)
    IN CASE parsed # "OK" -> Fail(parsed)
         [] d.algorithm # "EC" -> Fail("IMPORT_PARAMETER_MISMATCH")
         [] material.kind = "EC" /\ size = NONE -> Fail("UNSUPPORTED_EC_FIELD")
         [] material.kind = "EC" /\ ~Agrees(d.size, size) -> Fail("IMPORT_PARAMETER_MISMATCH")
         [] material.kind = "EC" /\ ~Agrees(d.curve, EcKeySizeToCurve(size)) ->
                Fail("IMPORT_PARAMETER_MISMATCH")
         [] material.kind = "EC" ->
                Made([d EXCEPT !.size = size, !.curve = EcKeySizeToCurve(size)], material)
         [] ~Agrees(d.curve, "CURVE_25519") -> Fail("IMPORT_PARAMETER_MISMATCH")
         [] material.kind = "ED25519" /\ ForX25519(d) -> Fail("IMPORT_PARAMETER_MISMATCH")
         [] material.kind = "ED25519" /\ AttestKeyWithOthers(d) -> Fail("INCOMPATIBLE_PURPOSE")
         [] material.kind = "X25519" /\ ForEd25519(d) -> Fail("IMPORT_PARAMETER_MISMATCH")
         [] OTHER -> Made([d EXCEPT !.curve = "CURVE_25519"], material)

\* Raw bytes become a curve 25519 key of the kind the purposes name; the
\* description is stored as it is, without a key size.
EcImportRawKey(d, material) ==
    CASE d.curve # "CURVE_25519" -> Fail("UNSUPPORTED_KEY_FORMAT")
      [] ForEd25519(d) /\ ForX25519(d) -> Fail("INCOMPATIBLE_PURPOSE")
      [] AttestKeyWithOthers(d) -> Fail("INCOMPATIBLE_PURPOSE")
      [] ~ForEd25519(d) /\ ~ForX25519(d) -> Fail("UNSUPPORTED_KEY_FORMAT")
      [] material.kind # "BYTES" \/ material.size # 256 -> Fail("MEMORY_ALLOCATION_FAILED")
      [] OTHER -> Made(d, Material(IF ForEd25519(d) THEN "ED25519" ELSE "X25519",
                                   "CURVE_25519", 256, NONE))

EcImportKey(d, format, material) ==
    IF format = "RAW" THEN EcImportRawKey(d, material)
    ELSE EcUpdateImportKeyDescription(d, format, material)

IsEd25519Key(auth) ==
    auth.algorithm = "EC" /\ auth.curve = "CURVE_25519" /\ ForEd25519(auth)

IsX25519Key(auth) ==
    auth.algorithm = "EC" /\ auth.curve = "CURVE_25519" /\ ForX25519(auth)

\* The class of the empty key an EC blob is loaded into, from its description.
EcCreateEmptyKey(auth) ==
    CASE IsEd25519Key(auth) /\ IsX25519Key(auth) -> "INCOMPATIBLE_PURPOSE"
      [] IsEd25519Key(auth) -> "ED25519"
      [] IsX25519Key(auth) -> "X25519"
      [] OTHER -> "EC"

-----------------------------------------------------------------------------
(* RSA *)

kMinimumRsaExponent == 3
kMaximumRsaKeySize == 4096
kMinimumRsaKeySize == 16

RsaGenerateKey(d) ==
    CASE d.exponent = NONE -> Fail("INVALID_ARGUMENT")
      [] d.exponent < kMinimumRsaExponent \/ d.exponent % 2 # 1 -> Fail("INVALID_ARGUMENT")
      [] d.size = NONE -> Fail("UNSUPPORTED_KEY_SIZE")
      [] d.size % 8 # 0 \/ d.size > kMaximumRsaKeySize \/ d.size < kMinimumRsaKeySize ->
             Fail("UNSUPPORTED_KEY_SIZE")
      [] OTHER -> Made(d, Material("RSA", NONE, d.size, d.exponent))

\* The size is RSA_size, whole bytes: a modulus of 1023 bits has size 1024.
RsaUpdateImportKeyDescription(d, format, material) ==
    LET parsed == KeyMaterialToEvpKey(format, material, "RSA")
        size == ((material.size + 7) \div 8) * 8
    IN CASE parsed # "OK" -> Fail(parsed)
         [] ~Agrees(d.exponent, material.exponent) -> Fail("IMPORT_PARAMETER_MISMATCH")
         [] ~Agrees(d.size, size) -> Fail("IMPORT_PARAMETER_MISMATCH")
         [] d.algorithm # "RSA" -> Fail("IMPORT_PARAMETER_MISMATCH")
         [] OTHER -> Made([d EXCEPT !.exponent = material.exponent, !.size = size], material)

-----------------------------------------------------------------------------
(* Symmetric keys: AES, TRIPLE_DES and HMAC *)

kMinGcmTagLength == 96
kMaxGcmTagLength == 128
kMinHmacLengthBits == 64
kMaxHmacKeyBits == 2048

aes_key_size_supported(bits) == bits \in {128, 192, 256}

triple_des_key_size_supported(bits) == bits \in {112, 168}

hmac_key_size_supported(bits) ==
    bits % 8 = 0 /\ bits >= kMinHmacLengthBits /\ bits <= kMaxHmacKeyBits

key_size_supported(algorithm, bits) ==
    CASE algorithm = "AES" -> aes_key_size_supported(bits)
      [] algorithm = "TRIPLE_DES" -> triple_des_key_size_supported(bits)
      [] algorithm = "HMAC" -> hmac_key_size_supported(bits)

\* A DES key has a parity bit in each byte, so that 56 key bits take 8 bytes.
key_size_bytes(algorithm, bits) ==
    IF algorithm = "TRIPLE_DES" THEN bits \div 7 ELSE bits \div 8

key_size_bits(algorithm, bytes) ==
    IF algorithm = "TRIPLE_DES" THEN bytes * 7 ELSE bytes * 8

aes_validate_params(d) ==
    CASE ~d.gcm -> IF d.mac # NONE THEN "INVALID_TAG" ELSE "OK"
      [] d.mac = NONE -> "MISSING_MIN_MAC_LENGTH"
      [] d.mac % 8 # 0 \/ d.mac < kMinGcmTagLength \/ d.mac > kMaxGcmTagLength ->
             "UNSUPPORTED_MIN_MAC_LENGTH"
      [] OTHER -> "OK"

triple_des_validate_params(d) == IF d.mac # NONE THEN "INVALID_TAG" ELSE "OK"

hash_size_bits == [MD5 |-> 128, SHA1 |-> 160, SHA_2_256 |-> 256]

\* GetTagValue finds a digest only if there is exactly one.
hmac_validate_params(d) ==
    CASE d.mac = NONE -> "MISSING_MIN_MAC_LENGTH"
      [] Len(d.digests) # 1 -> "UNSUPPORTED_DIGEST"
      [] d.digests[1] \notin DOMAIN hash_size_bits -> "UNSUPPORTED_DIGEST"
      [] d.mac % 8 # 0 \/ d.mac > hash_size_bits[d.digests[1]] -> "UNSUPPORTED_MIN_MAC_LENGTH"
      [] d.mac < kMinHmacLengthBits -> "UNSUPPORTED_MIN_MAC_LENGTH"
      [] OTHER -> "OK"

validate_algorithm_specific_new_key_params(d) ==
    CASE d.algorithm = "AES" -> aes_validate_params(d)
      [] d.algorithm = "TRIPLE_DES" -> triple_des_validate_params(d)
      [] d.algorithm = "HMAC" -> hmac_validate_params(d)

SymmetricGenerateKey(d) ==
    CASE d.size = NONE -> Fail("UNSUPPORTED_KEY_SIZE")
      [] ~key_size_supported(d.algorithm, d.size) -> Fail("UNSUPPORTED_KEY_SIZE")
      [] validate_algorithm_specific_new_key_params(d) # "OK" ->
             Fail(validate_algorithm_specific_new_key_params(d))
      [] OTHER -> Made(d, Material("BYTES", NONE, 8 * key_size_bytes(d.algorithm, d.size), NONE))

\* Whatever the bytes were, they are now key bytes; there are material.size \div 8 of them.
SymmetricImportKey(d, format, material) ==
    LET bits == IF d.size = NONE THEN key_size_bits(d.algorithm, material.size \div 8) ELSE d.size
    IN CASE validate_algorithm_specific_new_key_params(d) # "OK" ->
                Fail(validate_algorithm_specific_new_key_params(d))
         [] ~key_size_supported(d.algorithm, bits) -> Fail("UNSUPPORTED_KEY_SIZE")
         [] format # "RAW" -> Fail("UNSUPPORTED_KEY_FORMAT")
         [] bits # key_size_bits(d.algorithm, material.size \div 8) -> Fail("INVALID_KEY_BLOB")
         [] OTHER -> Made([d EXCEPT !.size = bits], Material("BYTES", NONE, material.size, NONE))

-----------------------------------------------------------------------------
(* All factories *)

Asymmetric == {"RSA", "EC"}

FactoryGenerateKey(d) ==
    CASE d.algorithm = "RSA" -> RsaGenerateKey(d)
      [] d.algorithm = "EC" -> EcGenerateKey(d)
      [] OTHER -> SymmetricGenerateKey(d)

FactoryImportKey(d, format, material) ==
    CASE d.algorithm = "RSA" -> RsaUpdateImportKeyDescription(d, format, material)
      [] d.algorithm = "EC" -> EcImportKey(d, format, material)
      [] OTHER -> SymmetricImportKey(d, format, material)

\* AsymmetricKeyFactory::LoadKey: an empty key of the class the description
\* names, into which the library parses the material; it refuses material of
\* another class.
AsymmetricLoadKey(class, material) ==
    CASE class = "INCOMPATIBLE_PURPOSE" -> [error |-> class, class |-> NONE]
      [] class # material.kind -> [error |-> "LIBRARY_ERROR", class |-> NONE]
      [] OTHER -> [error |-> "OK", class |-> class]

AesLoadKey(auth) == IF auth.gcm /\ auth.mac = NONE THEN "INVALID_KEY_BLOB" ELSE "OK"

HmacLoadKey(auth) == IF auth.mac = NONE THEN "INVALID_KEY_BLOB" ELSE "OK"

FactoryLoadKey(auth, material) ==
    CASE auth.algorithm = "RSA" -> AsymmetricLoadKey("RSA", material)
      [] auth.algorithm = "EC" -> AsymmetricLoadKey(EcCreateEmptyKey(auth), material)
      [] auth.algorithm = "AES" -> [error |-> AesLoadKey(auth), class |-> "BYTES"]
      [] auth.algorithm = "HMAC" -> [error |-> HmacLoadKey(auth), class |-> "BYTES"]
      [] OTHER -> [error |-> "OK", class |-> "BYTES"]

\* The certificate of a new key, made after its blob: an attestation if there
\* is a challenge, otherwise a self-signed one, whose signature is fake when
\* the key may not sign certificates.
Certificate(d, size, challenge, attestKey) ==
    CASE d.algorithm \notin Asymmetric \/ ~KeyMint -> [error |-> "OK", cert |-> NONE]
      [] challenge -> [error |-> "OK", cert |-> "attestation"]
      [] attestKey -> [error |-> "ATTESTATION_CHALLENGE_MISSING", cert |-> NONE]
      [] d.algorithm = "RSA" /\ size < 1024 -> [error |-> "OK", cert |-> "fake"]
      [] OTHER -> [error |-> "OK", cert |-> IF IsCertSigningKey(d) THEN "self" ELSE "fake"]

-----------------------------------------------------------------------------
Init == key = NONE /\ loaded = NONE /\ result = NONE

\* The end of GenerateKey and ImportKey: the random source, the library, the
\* blob maker or the certificate may still fail, and the caller then has no key.
Deliver(d, made, origin, challenge, attestKey) ==
    LET size == IF made.error = "OK" THEN made.material.size ELSE NONE
        certificate == Certificate(d, size, challenge, attestKey)
        error == IF made.error # "OK" THEN made.error ELSE certificate.error
    IN \E late \in {"OK", "UNKNOWN_ERROR"} :
         /\ result' = IF error = "OK" THEN late ELSE error
         /\ key' = IF result' = "OK"
                   THEN [auth |-> made.auth, material |-> made.material, origin |-> origin,
                         cert |-> certificate.cert]
                   ELSE NONE

\* AndroidKeymaster::GenerateKey.
GenerateKey ==
    /\ result = NONE
    /\ \E d \in Descriptions, challenge, attestKey \in BOOLEAN :
         IF AttestKeyWithOthers(d)
         THEN result' = "INCOMPATIBLE_PURPOSE" /\ UNCHANGED key
         ELSE Deliver(d, FactoryGenerateKey(d), "GENERATED", challenge, attestKey)
    /\ UNCHANGED loaded

\* AndroidKeymaster::ImportKey, for a key that is not early-boot-only.
ImportKey ==
    /\ result = NONE
    /\ \E d \in Descriptions, format \in Formats, material \in Materials,
          challenge, attestKey \in BOOLEAN :
         IF AttestKeyWithOthers(d)
         THEN result' = "INCOMPATIBLE_PURPOSE" /\ UNCHANGED key
         ELSE Deliver(d, FactoryImportKey(d, format, material), "IMPORTED", challenge, attestKey)
    /\ UNCHANGED loaded

\* AndroidKeymaster::LoadKey of the key's blob by a later call.
LoadKey ==
    /\ key # NONE /\ loaded = NONE
    /\ loaded' = FactoryLoadKey(key.auth, key.material)
    /\ UNCHANGED <<key, result>>

\* AndroidKeymaster::ExportKey: the public half, as X.509, of asymmetric keys.
ExportKey ==
    /\ loaded # NONE /\ result = "OK"
    /\ \E format \in Formats :
         result' = CASE loaded.error # "OK" -> loaded.error
                     [] key.auth.algorithm \in Asymmetric /\ format = "X509" -> "exported"
                     [] OTHER -> "UNSUPPORTED_KEY_FORMAT"
    /\ UNCHANGED <<key, loaded>>

\* The caller drops the key or notes the error, and starts over.
Forget ==
    /\ result # NONE
    /\ key = NONE \/ loaded # NONE
    /\ key' = NONE /\ loaded' = NONE /\ result' = NONE

Next == GenerateKey \/ ImportKey \/ LoadKey \/ ExportKey \/ Forget

Spec == Init /\ [][Next]_vars

-----------------------------------------------------------------------------
\* Type invariant.
KeyFactoriesTypeOK ==
    /\ key # NONE => /\ key.auth.algorithm \in Algorithms
                     /\ key.auth.size \in Nat \cup {NONE}
                     /\ key.material.size \in Nat
                     /\ key.origin \in {"GENERATED", "IMPORTED"}
                     /\ key.cert \in {NONE, "attestation", "self", "fake"}
    /\ loaded # NONE => key # NONE
    /\ result = "OK" => key # NONE

\* What a stored description says of a key is true of its material: the
\* algorithm always, size and curve of an EC key, size and exponent of an RSA
\* key, size of a symmetric key, whether the caller stated them or the factory
\* filled them in (EcKeyFactory, RsaKeyFactory and SymmetricKeyFactory).  The
\* KEY_SIZE of an imported curve 25519 key is not among them: those branches of
\* UpdateImportKeyDescription and ImportRawKey never look at it.
DescriptionIsTrueOfMaterial ==
    key # NONE =>
      LET auth == key.auth
          mat == key.material
      IN CASE auth.algorithm = "RSA" ->
                  mat.kind = "RSA" /\ auth.exponent = mat.exponent
                  /\ auth.size \in mat.size .. mat.size + 7
           [] auth.algorithm = "EC" ->
                  /\ mat.kind \in {"EC", "ED25519", "X25519"} /\ auth.curve = mat.curve
                  /\ (mat.kind = "EC" \/ key.origin = "GENERATED") => auth.size = mat.size
           [] OTHER -> mat.kind \in {"BYTES"}
                       /\ auth.size = key_size_bits(auth.algorithm, mat.size \div 8)

\* A key that was made can be used: whatever GenerateKey or ImportKey returned
\* without an error is loaded again without an error, as a key of the class of
\* its material, by code that has only the description to go by.  Of the curve
\* 25519 keys this holds when a purpose tells signing from agreement, which
\* GenerateKey and ImportRawKey insist on and the PKCS#8 import does not.
MadeKeysLoad ==
    loaded # NONE /\ (\/ key.material.kind \notin {"ED25519", "X25519"}
                      \/ key.origin = "GENERATED"
                      \/ ForEd25519(key.auth) \/ ForX25519(key.auth))
      => loaded = [error |-> "OK", class |-> key.material.kind]

\* Importing the material of a generated key, with a description that leaves
\* out what can be read off the material, gives the description GenerateKey
\* stored.  (Imported curve 25519 keys get no KEY_SIZE.)
ImportRecoversDescription ==
    key # NONE /\ key.origin = "GENERATED" =>
      LET stripped == IF key.auth.algorithm \in Asymmetric
                      THEN [key.auth EXCEPT !.curve = NONE, !.size = NONE, !.exponent = NONE]
                      ELSE [key.auth EXCEPT !.size = NONE]
          format == IF key.auth.algorithm \in Asymmetric THEN "PKCS8" ELSE "RAW"
          again == FactoryImportKey(stripped, format, key.material)
      IN /\ again.error = "OK" /\ again.material = key.material
         /\ again.auth = IF key.material.kind \in {"ED25519", "X25519"}
                         THEN [key.auth EXCEPT !.size = NONE, !.exponent = NONE]
                         ELSE [key.auth EXCEPT !.exponent =
                                   IF key.auth.algorithm = "EC" THEN NONE ELSE @]
=============================================================================
