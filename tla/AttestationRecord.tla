------------------------- MODULE AttestationRecord -------------------------
(***************************************************************************)
(* The attestation extension of a certificate: the authorizations of a key *)
(* written into an ASN.1 record or into a CBOR one (EAT), together with    *)
(* the challenge, the root of trust and the unique id, and read back by    *)
(* the parsers.                                                            *)
(*                                                                         *)
(* An authorization is <<tag, value>>, a value a tuple of numbers whatever *)
(* its C type.  An ASN.1 authorization list is a function from its fields  *)
(* (named by their tags) to the sequence of values in the field, empty for *)
(* an absent one; DER sorts the elements of a SET OF.  An EAT submodule is *)
(* a sequence of <<claim, values>>; a claim has the name of its tag,       *)
(* except UEID for the IMEI and IAT for the creation date.                 *)
(***************************************************************************)
EXTENDS Integers, SequencesExt

CONSTANTS Requests,       \* what can be attested: records of attestation_params, sw_enforced,
                          \* tee_enforced, and the level and verified boot parameters of the context
          ImeiLength,     \* kImeiBlobLength and kUeidLength: 15 in the code
          RotationPeriod, \* 30 days in milliseconds in the code
          MaxChallenge,   \* kMaximumAttestationChallengeLength: 128 in the code
          NONE

kImeiTypeByte == 3

VARIABLES request,  \* NONE, or the member of Requests being attested
          format,   \* of the record: "asn1" or "eat"
          built,    \* NONE, or the outcome of building the record
          parsed    \* NONE, or what the parser of the format reads from it

vars == <<request, format, built, parsed>>

-----------------------------------------------------------------------------
(* Tags, by what build_auth_list does with them *)

IntegerFields ==
    {"ALGORITHM", "EC_CURVE", "USER_AUTH_TYPE", "ORIGIN", "KEY_SIZE", "AUTH_TIMEOUT", "OS_VERSION",
     "OS_PATCHLEVEL", "MIN_MAC_LENGTH", "BOOT_PATCHLEVEL", "VENDOR_PATCHLEVEL",
     "USAGE_COUNT_LIMIT", "RSA_PUBLIC_EXPONENT", "ACTIVE_DATETIME",
     "ORIGINATION_EXPIRE_DATETIME", "USAGE_EXPIRE_DATETIME", "CREATION_DATETIME"}

IntegerSetFields == {"PURPOSE", "PADDING", "DIGEST", "BLOCK_MODE", "RSA_OAEP_MGF_DIGEST"}

NullFields ==
    {"NO_AUTH_REQUIRED", "ALL_APPLICATIONS", "ROLLBACK_RESISTANT", "ROLLBACK_RESISTANCE",
     "ALLOW_WHILE_ON_BODY", "UNLOCKED_DEVICE_REQUIRED", "CALLER_NONCE",
     "TRUSTED_CONFIRMATION_REQUIRED", "EARLY_BOOT_ONLY", "DEVICE_UNIQUE_ATTESTATION",
     "IDENTITY_CREDENTIAL_KEY", "TRUSTED_USER_PRESENCE_REQUIRED"}

DeviceIdTags ==
    {"ATTESTATION_ID_BRAND", "ATTESTATION_ID_DEVICE", "ATTESTATION_ID_PRODUCT",
     "ATTESTATION_ID_SERIAL", "ATTESTATION_ID_IMEI", "ATTESTATION_ID_MEID",
     "ATTESTATION_ID_MANUFACTURER", "ATTESTATION_ID_MODEL", "ATTESTATION_ID_SECOND_IMEI"}

StringFields == DeviceIdTags \cup {"ATTESTATION_APPLICATION_ID"}

BuiltFields == IntegerFields \cup IntegerSetFields \cup NullFields \cup StringFields

\* Ignored by both builders: never exist, not used, of an operation, without
\* meaning off-device, not for app keys, or not to be exported.
IgnoredTags ==
    {"INVALID", "ALL_USERS", "EXPORTABLE", "ECIES_SINGLE_HASH_MODE", "KDF", "ASSOCIATED_DATA",
     "NONCE", "AUTH_TOKEN", "MAC_LENGTH", "ATTESTATION_CHALLENGE", "RESET_SINCE_ID_ROTATION",
     "USER_ID", "USER_SECURE_ID", "BLOB_USAGE_REQUIREMENTS", "BOOTLOADER_ONLY",
     "INCLUDE_UNIQUE_ID", "MAX_USES_PER_BOOT", "MIN_SECONDS_BETWEEN_OPS", "UNIQUE_ID",
     "APPLICATION_DATA", "APPLICATION_ID", "ROOT_OF_TRUST"}

\* Ignored by build_auth_list only.
AsnIgnoredTags ==
    IgnoredTags \cup {"CERTIFICATE_SERIAL", "CERTIFICATE_SUBJECT", "CERTIFICATE_NOT_BEFORE",
                      "CERTIFICATE_NOT_AFTER", "MAX_BOOT_LEVEL", "STORAGE_KEY",
                      "CONFIRMATION_TOKEN"}

\* The claims build_eat_submod has a case for.
EatTags ==
    (BuiltFields \ {"RSA_OAEP_MGF_DIGEST", "USAGE_COUNT_LIMIT", "ROLLBACK_RESISTANCE",
                    "ATTESTATION_ID_SECOND_IMEI"})
    \cup {"STORAGE_KEY", "CONFIRMATION_TOKEN"}

\* The fields extract_auth_list reads, in its order: of the key and its use,
KeyFields ==
    <<"PURPOSE", "ALGORITHM", "KEY_SIZE", "BLOCK_MODE", "DIGEST", "PADDING", "CALLER_NONCE",
      "MIN_MAC_LENGTH", "EC_CURVE", "RSA_PUBLIC_EXPONENT", "RSA_OAEP_MGF_DIGEST",
      "ROLLBACK_RESISTANCE", "EARLY_BOOT_ONLY", "ACTIVE_DATETIME", "ORIGINATION_EXPIRE_DATETIME",
      "USAGE_EXPIRE_DATETIME", "USAGE_COUNT_LIMIT", "NO_AUTH_REQUIRED", "USER_AUTH_TYPE",
      "AUTH_TIMEOUT", "ALLOW_WHILE_ON_BODY", "TRUSTED_USER_PRESENCE_REQUIRED",
      "TRUSTED_CONFIRMATION_REQUIRED", "UNLOCKED_DEVICE_REQUIRED", "ALL_APPLICATIONS",
      "APPLICATION_ID", "CREATION_DATETIME", "ORIGIN">>

\* of the device.
DeviceFields ==
    <<"ROLLBACK_RESISTANT", "OS_VERSION", "OS_PATCHLEVEL", "ATTESTATION_APPLICATION_ID", "ATTESTATION_ID_BRAND",
      "ATTESTATION_ID_DEVICE", "ATTESTATION_ID_PRODUCT", "ATTESTATION_ID_SERIAL",
      "ATTESTATION_ID_IMEI", "ATTESTATION_ID_MEID", "ATTESTATION_ID_MANUFACTURER",
      "ATTESTATION_ID_MODEL", "VENDOR_PATCHLEVEL", "BOOT_PATCHLEVEL",
      "DEVICE_UNIQUE_ATTESTATION", "IDENTITY_CREDENTIAL_KEY", "ATTESTATION_ID_SECOND_IMEI">>

ExtractedFields == KeyFields \o DeviceFields

Fields == BuiltFields \cup {"APPLICATION_ID"}

HasTag(list, tag) == \E i \in DOMAIN list : list[i][1] = tag

\* The values of a tag in a list, in the order of the list.
ValuesOf(list, tag) ==
    LET mine == SelectSeq(list, LAMBDA e : e[1] = tag) IN [i \in DOMAIN mine |-> mine[i][2]]

CurveOfSize == [x \in {224, 256, 384, 521} |->
                  CASE x = 224 -> <<0>> [] x = 256 -> <<1>> [] x = 384 -> <<2>> [] x = 521 -> <<3>>]

kEC == <<3>>

\* A slip: the curve is derived although the list has one.
EcWithSize(list) ==
    kEC \in ToSet(ValuesOf(list, "ALGORITHM")) /\ HasTag(list, "KEY_SIZE")

\* An EC key without a curve, of keymaster1: the curve follows from the size.
LacksCurve(list) == EcWithSize(list) /\ ~HasTag(list, "EC_CURVE")

SizeOf(list) == ValuesOf(list, "KEY_SIZE")[1][1]

-----------------------------------------------------------------------------
(* ASN.1 *)

DerLess(a, b) == a[1] < b[1]

\* build_auth_list with the DER encoding that follows it.
build_auth_list(list) ==
    LET kept == SelectSeq(list, LAMBDA e : e[1] \notin AsnIgnoredTags)
        Field(f) == LET vs == ValuesOf(kept, f)
                    IN IF f \in IntegerSetFields THEN SortSeq(vs, DerLess)
                       ELSE IF vs = <<>> THEN vs ELSE <<Last(vs)>>
        fields == [f \in Fields |-> IF f \in BuiltFields THEN Field(f) ELSE <<>>]
    IN CASE \E i \in DOMAIN kept : kept[i][1] \notin BuiltFields ->
                [error |-> "INVALID_TAG", fields |-> NONE]
         [] LacksCurve(list) /\ SizeOf(list) \notin DOMAIN CurveOfSize ->
                [error |-> "UNSUPPORTED_KEY_SIZE", fields |-> NONE]
         [] LacksCurve(list) ->
                [error |-> "OK",
                 fields |-> [fields EXCEPT !["EC_CURVE"] = <<CurveOfSize[SizeOf(list)]>>]]
         [] OTHER -> [error |-> "OK", fields |-> fields]

extract_auth_list(fields) ==
    FlattenSeq([i \in DOMAIN ExtractedFields |->
                  LET f == ExtractedFields[i]
                  IN [j \in DOMAIN fields[f] |-> <<f, fields[f][j]>>]])

-----------------------------------------------------------------------------
(* EAT *)

\* 14 digits and a type byte; the check digit is not part of a UEID.
imei_to_ueid(imei) ==
    IF Len(imei) # ImeiLength THEN NONE
    ELSE [i \in 1 .. ImeiLength |-> IF i = 1 THEN kImeiTypeByte ELSE imei[i - 1]]

\* The check digit over the digits, the first of which has index 0 in the code.
LuhnDigit(digits) ==
    LET term(i) == IF (i - 1) % 2 = 0 THEN digits[i]
                   ELSE (digits[i] * 2) \div 10 + ((digits[i] * 2) % 10)
        sum == FoldLeft(LAMBDA acc, i : acc + term(i), 0, [i \in DOMAIN digits |-> i])
    IN (10 - (sum % 10)) % 10

ueid_to_imei_blob(ueid) ==
    IF Len(ueid) # ImeiLength \/ ueid[1] # kImeiTypeByte THEN NONE
    ELSE LET digits == SubSeq(ueid, 2, ImeiLength) IN Append(digits, LuhnDigit(digits))

ClaimOf(tag) ==
    CASE tag = "ATTESTATION_ID_IMEI" -> "UEID" [] tag = "CREATION_DATETIME" -> "IAT"
      [] OTHER -> tag

TagOf(claim) ==
    CASE claim = "UEID" -> "ATTESTATION_ID_IMEI" [] claim = "IAT" -> "CREATION_DATETIME"
      [] OTHER -> claim

\* "UNKNOWN" stands for a repeatable tag this code has no case for.
RepeatableTags == IntegerSetFields \cup {"UNKNOWN"}

\* A tag without a case is kept in the software submodule only.
KeptInSubmod(tag, level) ==
    tag \in EatTags \/ (tag \notin IgnoredTags /\ level = "UNRESTRICTED")

\* One claim per entry, except that the values of a repeatable tag are gathered
\* in one claim, after the others.
build_eat_submod(list, level) ==
    LET kept == SelectSeq(list, LAMBDA e : KeptInSubmod(e[1], level))
        single == SelectSeq(kept, LAMBDA e : e[1] \notin RepeatableTags)
        repeated == SetToSeq({kept[i][1] : i \in DOMAIN kept} \cap RepeatableTags)
        BadImei(e) == e[1] = "ATTESTATION_ID_IMEI" /\ imei_to_ueid(e[2]) = NONE
        Claim(e) == <<ClaimOf(e[1]), <<IF e[1] = "ATTESTATION_ID_IMEI" THEN imei_to_ueid(e[2])
                                       ELSE e[2]>>>>
        claims == <<<<"SECURITY_LEVEL", <<level>>>>>>
                  \o [i \in DOMAIN single |-> Claim(single[i])]
                  \o [i \in DOMAIN repeated |-> <<repeated[i], ValuesOf(kept, repeated[i])>>]
    IN CASE list = <<>> -> [error |-> "OK", claims |-> <<>>]
         [] \E i \in DOMAIN single : BadImei(single[i]) -> [error |-> "INVALID_TAG", claims |-> NONE]
         [] LacksCurve(list) /\ SizeOf(list) \notin DOMAIN CurveOfSize ->
                [error |-> "UNSUPPORTED_KEY_SIZE", claims |-> NONE]
         [] LacksCurve(list) ->
                [error |-> "OK",
                 claims |-> Append(claims, <<"EC_CURVE", <<CurveOfSize[SizeOf(list)]>>>>)]
         [] OTHER -> [error |-> "OK", claims |-> claims]

\* Claims parse_submod_values has a case for; any other is an error.
ParsedBlobs ==
    {ClaimOf(t) : t \in StringFields \cap EatTags} \cup {"APPLICATION_ID", "CONFIRMATION_TOKEN"}

ParsedClaims == ParsedBlobs \cup {ClaimOf(t) : t \in EatTags} \cup {"SECURITY_LEVEL"}

parse_submod_values(claims) ==
    LET others == SelectSeq(claims, LAMBDA c : c[1] # "SECURITY_LEVEL")
        Entry(c, v) == <<TagOf(c[1]), IF c[1] = "UEID" THEN ueid_to_imei_blob(v) ELSE v>>
    IN IF \E i \in DOMAIN claims : claims[i][1] \notin ParsedClaims
       THEN [error |-> "INVALID_TAG", list |-> NONE]
       ELSE [error |-> "OK",
             list |-> FlattenSeq([i \in DOMAIN others |->
                                    [j \in DOMAIN others[i][2] |->
                                       Entry(others[i], others[i][2][j])]])]

\* The software and the TEE submodule, told apart by their security level.
parse_eat_submod(claims, level) ==
    LET at == SelectSeq(claims, LAMBDA c : c[1] = "SECURITY_LEVEL")
        values == parse_submod_values(claims)
    IN IF values.error = "OK" /\ (at = <<>> \/ Last(at)[2] # <<level>>)
       THEN [error |-> "INVALID_TAG", list |-> NONE] ELSE values

-----------------------------------------------------------------------------
(* Records *)

Error(error) == [error |-> error]

FirstOf(list, tag) == IF HasTag(list, tag) THEN ValuesOf(list, tag)[1] ELSE NONE

\* A slip: the reset is not part of the input.
UniqueIdInputUnmarked(date, app_id, reset) == <<date \div RotationPeriod>> \o app_id

\* 8 bytes of period, the application id, a byte: an unambiguous concatenation.
build_unique_id_input(date, app_id, reset) ==
    <<date \div RotationPeriod>> \o app_id \o <<IF reset THEN 1 ELSE 0>>

\* HMAC-SHA256 under a device secret, truncated: opaque, equal for equal inputs.
generate_unique_id(date, app_id, reset) ==
    <<"hmac", build_unique_id_input(date, app_id, reset)>>

GenerateUniqueId(date, app_id, reset) == generate_unique_id(date, app_id, reset)

is_valid_attestation_challenge(challenge) == Len(challenge) <= MaxChallenge

\* No context of the repository implements device id attestation.
VerifyAndCopyDeviceIds == "UNIMPLEMENTED"

\* The checks both builders make on the request before any list is built.
RequestError(r) ==
    LET p == r.params
    IN CASE r.boot = NONE -> "UNIMPLEMENTED"
         [] ~HasTag(p, "ATTESTATION_CHALLENGE") -> "ATTESTATION_CHALLENGE_MISSING"
         [] ~is_valid_attestation_challenge(FirstOf(p, "ATTESTATION_CHALLENGE")) ->
                "INVALID_INPUT_LENGTH"
         [] ~HasTag(p, "ATTESTATION_APPLICATION_ID") -> "ATTESTATION_APPLICATION_ID_MISSING"
         [] VerifyAndCopyDeviceIds = "UNIMPLEMENTED" /\ \E t \in DeviceIdTags : HasTag(p, t) ->
                "CANNOT_ATTEST_IDS"
         [] OTHER -> "OK"

UniqueId(r) ==
    CASE ~HasTag(r.params, "INCLUDE_UNIQUE_ID") -> <<>>
      [] ~HasTag(r.sw, "CREATION_DATETIME") -> NONE
      [] OTHER -> GenerateUniqueId(FirstOf(r.sw, "CREATION_DATETIME")[1],
                                   FirstOf(r.params, "ATTESTATION_APPLICATION_ID"),
                                   HasTag(r.params, "RESET_SINCE_ID_ROTATION"))

DeviceUnique(r) == HasTag(r.params, "DEVICE_UNIQUE_ATTESTATION") /\ r.level = "STRONGBOX"

build_attestation_record(r) ==
    LET app == <<"ATTESTATION_APPLICATION_ID", FirstOf(r.params, "ATTESTATION_APPLICATION_ID")>>
        sw == build_auth_list(Append(r.sw, app))
        tee == build_auth_list(IF DeviceUnique(r)
                               THEN Append(r.tee, <<"DEVICE_UNIQUE_ATTESTATION", <<1>>>>)
                               ELSE r.tee)
    IN CASE RequestError(r) # "OK" -> Error(RequestError(r))
         [] sw.error # "OK" -> Error(sw.error)
         [] tee.error # "OK" -> Error(tee.error)
         [] UniqueId(r) = NONE -> Error("INVALID_KEY_BLOB")
         [] OTHER -> [error |-> "OK", level |-> r.level,
                      challenge |-> FirstOf(r.params, "ATTESTATION_CHALLENGE"),
                      unique_id |-> UniqueId(r), software |-> sw.fields, tee |-> tee.fields,
                      root_of_trust |-> [in |-> IF r.level = "SOFTWARE" THEN "software" ELSE "tee",
                                         boot |-> r.boot]]

\* parse_attestation_record, then parse_root_of_trust, which looks in the TEE list only.
parse_attestation_record(record) ==
    [error |-> "OK", level |-> record.level, challenge |-> record.challenge,
     unique_id |-> record.unique_id,
     software |-> extract_auth_list(record.software), tee |-> extract_auth_list(record.tee),
     boot |-> IF record.root_of_trust.in = "tee" THEN record.root_of_trust.boot ELSE NONE]

EatLevel ==
    [SOFTWARE |-> "UNRESTRICTED", TRUSTED_ENVIRONMENT |-> "SECURE_RESTRICTED",
     STRONGBOX |-> "HARDWARE"]

build_eat_record(r) ==
    LET app == <<"ATTESTATION_APPLICATION_ID", FirstOf(r.params, "ATTESTATION_APPLICATION_ID")>>
        sw == build_eat_submod(IF HasTag(r.sw, "ATTESTATION_APPLICATION_ID") THEN r.sw
                               ELSE Append(r.sw, app), "UNRESTRICTED")
        tee == build_eat_submod(r.tee, "SECURE_RESTRICTED")
    IN CASE RequestError(r) # "OK" -> Error(RequestError(r))
         [] sw.error # "OK" -> Error(sw.error)
         [] tee.error # "OK" -> Error(tee.error)
         [] UniqueId(r) = NONE -> Error("INVALID_KEY_BLOB")
         [] OTHER -> [error |-> "OK", level |-> EatLevel[r.level],
                      challenge |-> FirstOf(r.params, "ATTESTATION_CHALLENGE"),
                      unique_id |-> UniqueId(r), software |-> sw.claims, tee |-> tee.claims,
                      device_unique |-> DeviceUnique(r), boot_key |-> r.boot.key,
                      device_locked |-> r.boot.locked,
                      boot_state |-> r.boot.state \in {"VERIFIED", "SELF_SIGNED"},
                      official_build |-> r.boot.state = "VERIFIED"]

KmLevel ==
    [UNRESTRICTED |-> "SOFTWARE", SECURE_RESTRICTED |-> "TRUSTED_ENVIRONMENT",
     HARDWARE |-> "STRONGBOX"]

\* A submodule is in the map only when it is not empty; the claim OFFICIAL_BUILD
\* is taken for a verified boot whatever its value.
parse_eat_record(record) ==
    LET Submod(claims, level) == IF claims = <<>> THEN [error |-> "OK", list |-> <<>>]
                                 ELSE parse_eat_submod(claims, level)
        sw == Submod(record.software, "UNRESTRICTED")
        tee == Submod(record.tee, "SECURE_RESTRICTED")
    IN IF sw.error # "OK" \/ tee.error # "OK" THEN Error("INVALID_TAG")
       ELSE [error |-> "OK", challenge |-> record.challenge, unique_id |-> record.unique_id,
             level |-> KmLevel[record.level],
             software |-> sw.list, tee |-> tee.list,
             boot |-> [state |-> "VERIFIED", key |-> record.boot_key,
                       locked |-> record.device_locked]]

-----------------------------------------------------------------------------
Init == request = NONE /\ format = NONE /\ built = NONE /\ parsed = NONE

BuildAsn1(r) ==
    /\ request = NONE
    /\ request' = r /\ format' = "asn1" /\ built' = build_attestation_record(r)
    /\ UNCHANGED parsed

BuildEat(r) ==
    /\ request = NONE
    /\ request' = r /\ format' = "eat" /\ built' = build_eat_record(r)
    /\ UNCHANGED parsed

Parse ==
    /\ built # NONE /\ parsed = NONE /\ built.error = "OK"
    /\ parsed' = IF format = "asn1" THEN parse_attestation_record(built)
                 ELSE parse_eat_record(built)
    /\ UNCHANGED <<request, format, built>>

\* The certificate is issued, or the request has failed.
Finish ==
    /\ built # NONE /\ (built.error = "OK" => parsed # NONE)
    /\ request' = NONE /\ format' = NONE /\ built' = NONE /\ parsed' = NONE

Next == (\E r \in Requests : BuildAsn1(r) \/ BuildEat(r)) \/ Parse \/ Finish

Spec == Init /\ [][Next]_vars

-----------------------------------------------------------------------------
ParsedOK == parsed # NONE /\ parsed.error = "OK"

\* Entries the record may add to the lists of the key.
AddedToSoftware(r) ==
    {<<"ATTESTATION_APPLICATION_ID", FirstOf(r.params, "ATTESTATION_APPLICATION_ID")>>}

AddedToTee(r) == IF DeviceUnique(r) THEN {<<"DEVICE_UNIQUE_ATTESTATION", <<1>>>>} ELSE {}

InferredCurve(list) ==
    {<<"EC_CURVE", CurveOfSize[x]>> :
        x \in {y \in DOMAIN CurveOfSize : /\ <<"ALGORITHM", kEC>> \in ToSet(list)
                                         /\ FirstOf(list, "KEY_SIZE") = <<y>>
                                         /\ ~HasTag(list, "EC_CURVE")}}

\* The check digit of an IMEI is right when the sum of its digits, every second
\* one from the right doubled and reduced to its digit sum, is a multiple of 10.
LuhnValid(imei) ==
    LET n == Len(imei)
        Reduced(d) == IF d > 9 THEN d - 9 ELSE d
        Term(i) == IF (n - i) % 2 = 1 THEN Reduced(2 * imei[i]) ELSE imei[i]
    IN FoldLeft(LAMBDA acc, i : acc + Term(i), 0, [i \in 1 .. n |-> i]) % 10 = 0

\* An IMEI loses its check digit in an EAT record and gets a computed one back.
Verbatim(e) == format = "asn1" \/ e[1] # "ATTESTATION_ID_IMEI"

Recoverable(e) == Verbatim(e) \/ LuhnValid(e[2])

\* Whatever a verifier reads in a record is true of the attested key: every
\* authorization read from a list (but an IMEI from EAT, see below) is one of that list of the key, the
\* application id of the request, the device-unique mark of a StrongBox or the
\* curve that the size of an old EC key implies (build_auth_list,
\* build_eat_submod and the two parsers, field by field).
RecordIsTrueOfTheKey ==
    ParsedOK =>
        /\ \A e \in ToSet(parsed.software) :
             Verbatim(e) => e \in ToSet(request.sw) \cup AddedToSoftware(request)
                                    \cup InferredCurve(request.sw)
        /\ \A e \in ToSet(parsed.tee) :
             Verbatim(e) => e \in ToSet(request.tee) \cup AddedToTee(request)
                                    \cup InferredCurve(request.tee)

\* Nothing that a format can express is lost between the builder and the parser
\* of the format: each value of a repeatable tag is read back as often as the
\* key has it, of a single-valued tag in ASN.1 the last one.
ExpressibleIsRead ==
    ParsedOK =>
        \A lists \in {<<request.sw, parsed.software>>, <<request.tee, parsed.tee>>} :
            LET key == lists[1]
                Count(list, e) == Cardinality({i \in DOMAIN list : list[i] = e})
            IN \A i \in DOMAIN key :
                 LET e == key[i]
                     last == \A j \in i + 1 .. Len(key) : key[j][1] # e[1]
                 IN /\ (e[1] \in IntegerSetFields /\ (format = "asn1" \/ e[1] \in EatTags)) =>
                            Count(lists[2], e) = Count(key, e)
                    /\ (format = "asn1" /\ last /\ e[1] \in BuiltFields
                          /\ e[1] # "ATTESTATION_APPLICATION_ID") => Count(lists[2], e) >= 1
                    /\ (format = "eat" /\ e[1] \in EatTags /\ Recoverable(e)) =>
                            Count(lists[2], e) >= 1

\* Tags that say something of the device or the application only, or that
\* carry data the builders say must not be exported, are in no record, neither
\* as a field nor as a private claim of the software submodule.
NothingPrivateLeaves ==
    (built # NONE /\ built.error = "OK") =>
        IF format = "asn1"
        THEN \A t \in AsnIgnoredTags \cap Fields : built.software[t] = <<>> /\ built.tee[t] = <<>>
        ELSE \A c \in ToSet(built.software \o built.tee) : c[1] \notin IgnoredTags

\* What vouches for the key comes through unchanged: challenge and unique id,
\* the security level, and the boot state: in ASN.1 for a context that is not
\* SOFTWARE (parse_root_of_trust reads the TEE list), in EAT for a device that
\* booted verified (parse_eat_record takes OFFICIAL_BUILD as such).
EnvelopeIsRead ==
    ParsedOK =>
        /\ <<parsed.level, parsed.challenge, parsed.unique_id>> =
           <<request.level, FirstOf(request.params, "ATTESTATION_CHALLENGE"), UniqueId(request)>>
        /\ (IF format = "asn1" THEN request.level # "SOFTWARE" ELSE request.boot.state = "VERIFIED")
             => parsed.boot = request.boot

\* An IMEI that goes through a UEID is the one of the key exactly when its check
\* digit is right: the digit that ueid_to_imei_blob computes is the one every
\* IMEI is issued with.
ImeiSurvivesWhenIssued ==
    (ParsedOK /\ format = "eat") =>
        \A v \in ToSet(ValuesOf(request.sw, "ATTESTATION_ID_IMEI")) :
            (<<"ATTESTATION_ID_IMEI", v>> \in ToSet(parsed.software)) <=> LuhnValid(v)

\* Two attestations carry the same unique id exactly when the same application
\* asks in the same rotation period with the same reset flag
\* (build_unique_id_input): an id can neither be linked across periods or
\* applications nor change within one.
UniqueIdRotates ==
    (ParsedOK /\ UniqueId(request) # <<>>) =>
        \A other \in {r \in Requests : RequestError(r) = "OK" /\ UniqueId(r) \notin {<<>>, NONE}} :
            LET Identity(r) == <<FirstOf(r.sw, "CREATION_DATETIME")[1] \div RotationPeriod,
                                 FirstOf(r.params, "ATTESTATION_APPLICATION_ID"),
                                 HasTag(r.params, "RESET_SINCE_ID_ROTATION")>>
            IN (parsed.unique_id = UniqueId(other)) <=> (Identity(request) = Identity(other))
=============================================================================
