----------------------------- MODULE WrappedKey -----------------------------
(***************************************************************************)
(* Secure import of a wrapped key: a server wraps a key for a wrapping key *)
(* of the device (build_wrapped_key and the two encryptions around it),    *)
(* the wrap travels, and importWrappedKey unwraps it                       *)
(* (parse_wrapped_key, PureSoftKeymasterContext::UnwrapKey,                *)
(* AndroidKeymaster::ImportWrappedKey) and imports the key.                *)
(*                                                                         *)
(* A 256-bit key is the set of its one bits and XOR is the symmetric       *)
(* difference; encryptions are terms.  In transit a part of one wrap may   *)
(* replace that of another, and the nonce may be cut.                      *)
(***************************************************************************)
EXTENDS Naturals, FiniteSets

CONSTANTS
    NONE,
    KmVersion,          \* "KEYMASTER_4" or "KEYMINT_1"
    WrappingKeys,       \* blobs [id, purposes, authorized, bound]
    TransitKeys,        \* AES keys [size, ones] the servers draw
    MaskingKeys,        \* masks [size, ones]
    Descriptions,       \* [algorithm, format, sids]
    MaxWraps

VARIABLES
    wraps,              \* what the servers have wrapped, and how
    result              \* the last importWrappedKey call and its answer, or NONE

vars == <<wraps, result>>

-----------------------------------------------------------------------------
(* Cryptography of BoringSSL, as terms. *)

Xor(a, b) == [size |-> a.size, ones |-> (a.ones \ b.ones) \cup (b.ones \ a.ones)]
Oaep(wk, k) == <<"oaep", wk.id, k>>
Gcm(k, iv, material) == <<"gcm", k, iv, material>>
GcmTag(k, iv, aad, material) == <<"tag", k, iv, aad, material>>
ShortIv == <<"short", 0>>

-----------------------------------------------------------------------------
(* Wrapping. *)

\* build_auth_list has no field for the secure user ids and leaves them out.
build_auth_list(d) == [d EXCEPT !.sids = NONE]

\* build_wrapped_key; a server with an encoder of its own writes the whole description.
build_wrapped_key(transit, iv, secure, tag, desc) ==
    [transit |-> transit, iv |-> iv, desc |-> desc, secure |-> secure, tag |-> tag]

Wrap ==
    /\ result = NONE /\ Cardinality(wraps) < MaxWraps
    /\ \E wk \in WrappingKeys, k \in TransitKeys, mask \in MaskingKeys, d \in Descriptions :
       \E desc \in {d, build_auth_list(d)} :
        LET iv == <<"iv", Cardinality(wraps)>>
            s == <<"secret", Cardinality(wraps)>>
            envelope == build_wrapped_key(Oaep(wk, Xor(k, mask)), iv, Gcm(k, iv, s), GcmTag(k, iv, desc, s), desc)
        IN /\ k.size = mask.size
           /\ wraps' = wraps \cup {[wk |-> wk, mask |-> mask, material |-> s, desc |-> desc, envelope |-> envelope]}
    /\ UNCHANGED result

-----------------------------------------------------------------------------
(* Unwrapping. *)

Failed(e) == [error |-> e, key |-> NONE]

\* parse_wrapped_key: d2i_KM_WRAPPED_KEY refuses a field its ASN.1 template does not have; the
\* description is serialized again from what was parsed.
Readable(e) == e.desc.sids = NONE
parse_wrapped_key(e) == build_auth_list(e.desc)

\* The key's blob opens with the fixed unwrapping parameters only: those of the caller are not used.
ParseWrappingKey(wk) == IF wk.bound THEN "INVALID_KEY_BLOB" ELSE "OK"

\* RSA decryption of the transit key (Oaep's inverse), which the key must be authorized for.
RsaDecrypts(wk, c) == wk.authorized /\ c[2] = wk.id
RsaDecrypted(c) == c[3]

\* AES-GCM decryption: Begin refuses a nonce of another size than 12 bytes, Finish a tag that does not match.
GcmVerifies(k, iv, aad, c, tag) == c[2] = k /\ c[3] = iv /\ tag = GcmTag(k, iv, aad, c[4])

\* A slip of UnwrapKey: the description is not authenticated.
UnwrapsAnyDescription(e, wk, mask) ==
    LET k == Xor(RsaDecrypted(e.transit), mask)
    IN IF Readable(e) /\ "WRAP" \in wk.purposes /\ RsaDecrypts(wk, e.transit)
          /\ \E d \in Descriptions : GcmVerifies(k, e.iv, build_auth_list(d), e.secure, e.tag)
       THEN [error |-> "OK", key |-> [material |-> e.secure[4], desc |-> parse_wrapped_key(e)]]
       ELSE Failed("VERIFICATION_FAILED")

UnwrapKey(e, wk, mask) ==
    LET desc == parse_wrapped_key(e)
        masked == RsaDecrypted(e.transit)
        k == Xor(masked, mask)
    IN IF ~Readable(e) THEN Failed("INVALID_KEY_BLOB")
       ELSE IF ParseWrappingKey(wk) # "OK" THEN Failed(ParseWrappingKey(wk))
       ELSE IF "WRAP" \notin wk.purposes THEN Failed("INCOMPATIBLE_PURPOSE")
       ELSE IF ~RsaDecrypts(wk, e.transit) THEN Failed("UNKNOWN_ERROR")
       ELSE IF masked.size # mask.size THEN Failed("INVALID_ARGUMENT")
       ELSE IF e.iv = ShortIv THEN Failed("INVALID_NONCE")
       ELSE IF ~GcmVerifies(k, e.iv, desc, e.secure, e.tag) THEN Failed("VERIFICATION_FAILED")
       ELSE [error |-> "OK", key |-> [material |-> e.secure[4], desc |-> desc]]

\* The mask of authenticators in a description is replaced by the ids the caller knows them by.
Bits(n) == {b \in {1, 2} : (n \div b) % 2 = 1}
BindSids(sids, passwordSid, biometricSid) ==
    IF sids = NONE THEN {}
    ELSE {passwordSid : b \in Bits(sids % 256) \cap {1}} \cup {biometricSid : b \in Bits(sids % 256) \cap {2}}

\* SymmetricKeyFactory::ImportKey, EcKeyFactory::ImportKey: what they refuse of a description and its dates.
ImportError(desc, dates) ==
    CASE desc.algorithm = "none" -> "UNSUPPORTED_ALGORITHM"
      [] desc.algorithm = "AES" /\ desc.format # "RAW" -> "UNSUPPORTED_KEY_FORMAT"
      [] desc.algorithm = "EC" /\ KmVersion = "KEYMINT_1" /\ dates = NONE -> "MISSING_NOT_BEFORE"
      [] OTHER -> "OK"

CertificateDates == IF KmVersion = "KEYMINT_1" THEN "0 to undefined" ELSE NONE

ImportWrappedKey(e, wk, mask, passwordSid, biometricSid) ==
    LET unwrapped == UnwrapKey(e, wk, mask)
        desc == unwrapped.key.desc
        error == ImportError(desc, CertificateDates)
    IN IF unwrapped.error # "OK" THEN unwrapped
       ELSE IF error # "OK" THEN Failed(error)
       ELSE [error |-> "OK",
             key |-> [material |-> unwrapped.key.material, desc |-> [desc EXCEPT !.sids = NONE],
                      sids |-> BindSids(desc.sids, passwordSid, biometricSid),
                      certificate |-> IF desc.algorithm = "EC" THEN CertificateDates ELSE NONE]]

\* What may arrive: a wrap whole, with its nonce cut, or with one part taken from another wrap.
Delivered ==
    {w.envelope : w \in wraps} \cup {[w.envelope EXCEPT !.iv = ShortIv] : w \in wraps}
    \cup UNION {{[v.envelope EXCEPT ![part] = w.envelope[part]] : part \in DOMAIN v.envelope} : v \in wraps, w \in wraps}

importWrappedKey ==
    /\ result = NONE
    /\ \E e \in Delivered, wk \in WrappingKeys, mask \in MaskingKeys :
        result' = [e |-> e, wk |-> wk, mask |-> mask, answer |-> ImportWrappedKey(e, wk, mask, "password", "biometric")]
    /\ UNCHANGED wraps

Collect == result # NONE /\ result' = NONE /\ UNCHANGED wraps

Init == wraps = {} /\ result = NONE
Next == Wrap \/ importWrappedKey \/ Collect
Spec == Init /\ [][Next]_vars

-----------------------------------------------------------------------------
(* A key that importWrappedKey imports has the material, the format and    *)
(* the authorizations of one and the same wrap, whatever parts were        *)
(* delivered together; a wrap that arrives whole is imported only with its *)
(* own wrapping key and its own masking key.                               *)
ImportedAsWrapped ==
    result # NONE /\ result.answer.error = "OK" =>
        \E w \in wraps :
            /\ result.answer.key.material = w.material
            /\ result.answer.key.desc = w.desc
            /\ \A v \in wraps : result.e = v.envelope => v = w /\ result.wk = w.wk /\ result.mask = w.mask

(* A wrap that arrives whole, for a usable wrapping key and with its mask, *)
(* is imported whenever a factory takes keys of its description: the       *)
(* certificate dates an asymmetric KeyMint key needs, which a wrap cannot  *)
(* carry, do not stand in the way.                                         *)
IntactWrapImports ==
    result # NONE =>
        \A w \in wraps :
            /\ result.e = w.envelope /\ result.wk = w.wk /\ result.mask = w.mask
            /\ "WRAP" \in w.wk.purposes /\ w.wk.authorized /\ ~w.wk.bound
            /\ w.desc.sids = NONE /\ w.desc.algorithm # "none" /\ (w.desc.algorithm = "AES" => w.desc.format = "RAW")
            => result.answer.error = "OK"
=============================================================================
