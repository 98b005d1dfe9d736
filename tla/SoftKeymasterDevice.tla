------------------------ MODULE SoftKeymasterDevice ------------------------
(***************************************************************************)
(* SoftKeymasterDevice: the keymaster1/keymaster2 module that either runs  *)
(* everything in software or wraps a hardware keymaster1 device that lacks *)
(* some digests.  Keys and operations the hardware supports are passed to  *)
(* it; for the others AndroidKeymaster digests and pads in software and    *)
(* Keymaster1Engine has the hardware do the raw private key operation.     *)
(*                                                                         *)
(* A message is a sequence of chunks, a key blob is a record that says in  *)
(* which format it is and what it authorizes, and what the hardware and    *)
(* OpenSSL compute is a term.  The hardware is external: it fails at will, *)
(* consumes as much of its input as it likes and reuses operation handles. *)
(* Software operation handles are random 64-bit numbers; they are taken to *)
(* differ from the live handles of the hardware.                           *)
(***************************************************************************)
EXTENDS Integers, Sequences, FiniteSets, SequencesExt

CONSTANTS
    NONE,           \* no result
    Descriptions,   \* the key descriptions clients use: algorithm, purposes, digests, paddings
    LegacyKeys,     \* software blobs of earlier releases the clients still hold
    HwDigests,      \* <<algorithm, purpose>> -> digests the hardware reports
    HwHandles,      \* operation slots of the hardware
    TableHandles,   \* slots of the software operation table
    FailedQuery,    \* bound: the digest queries answered before one fails
    MaxKeys,        \* bound: blobs clients hold
    MaxChunks       \* bound: chunks of a message

VARIABLES
    wrapped,        \* wrapped_km1_device_ # nullptr (and km1_dev_, km1_engine_ of the context)
    digests,        \* km1_device_digests_
    configured,     \* configured_
    keys,           \* blobs the clients hold
    hw,             \* operations open in the hardware: handle -> operation
    table,          \* OperationTable of AndroidKeymaster: handle -> operation
    client,         \* operations the clients know of: handle -> what they asked and received
    busy,           \* the finish() call in progress on a hardware operation, or NONE
    result          \* answer of the last call, or NONE

vars == <<wrapped, digests, configured, keys, hw, table, client, busy, result>>
ops == <<hw, table, client>>

Absent == "-"
MapPairs == << <<"RSA", "SIGN">>, <<"RSA", "VERIFY">>, <<"EC", "SIGN">>, <<"EC", "VERIFY">>,
               <<"HMAC", "SIGN">>, <<"HMAC", "VERIFY">>, <<"RSA", "ENCRYPT">>, <<"RSA", "DECRYPT">> >>
Params == [digest : {Absent, "NONE", "MD5", "SHA1", "SHA256", "SHA512"},
           padding : {Absent, "NONE", "PKCS1", "PSS", "OAEP"}]
Without(f, x) == [y \in DOMAIN f \ {x} |-> f[y]]
With(f, x, v) == [y \in DOMAIN f \cup {x} |-> IF y = x THEN v ELSE f[y]]

\* The software operation handles of BeginOperation; the hardware chooses its own.
SwHandle == CHOOSE s \in {<<"sw", t>> : t \in TableHandles} : s \notin DOMAIN table
HwHandle == CHOOSE s \in {<<"hw", t>> : t \in HwHandles} : s \notin DOMAIN hw
Handles == {<<"sw", t>> : t \in TableHandles} \cup {<<"hw", t>> : t \in HwHandles}

ASSUME HwDigestsAssumption == DOMAIN HwDigests = ToSet(MapPairs)

-----------------------------------------------------------------------------
(* What a private key operation computes, and what the software part of it does. *)

DigestBytes == [NONE |-> 0, MD5 |-> 16, SHA1 |-> 20, SHA256 |-> 32, SHA512 |-> 64]
GroupBytes == 32
Hash(digest, data) == IF digest = "NONE" THEN data ELSE <<"hash", digest, data>>

\* ecdsa_sign: a digest longer than the group order is truncated.
Truncate(digest, x) == IF DigestBytes[digest] > GroupBytes THEN <<"left", x>> ELSE x

Pad(padding, digest, data) ==
    CASE padding = "PSS" -> <<"pss", digest, data>>
      [] padding = "PKCS1" -> <<"pkcs1", Hash(digest, data)>>
      [] OTHER -> data
Unpad(padding, digest, x) ==
    CASE padding = "OAEP" -> <<"unoaep", digest, x>>
      [] padding = "PKCS1" -> <<"unpkcs1", x>>
      [] OTHER -> x

\* The hardware, and the software in a software-only device: the whole operation at once.
Compute(op) ==
    CASE op.key.algorithm = "RSA" /\ op.purpose = "SIGN" -> <<"rsa", Pad(op.padding, op.digest, op.data)>>
      [] op.key.algorithm = "RSA" /\ op.purpose = "DECRYPT" -> Unpad(op.padding, op.digest, <<"rsa", op.data>>)
      [] op.key.algorithm = "EC" /\ op.purpose = "SIGN" -> <<"ecdsa", Truncate(op.digest, Hash(op.digest, op.data))>>
      [] OTHER -> <<op.purpose, op.digest, op.padding, op.data>>

\* AES output comes as the data is processed; everything else at the end.
Streams(op) == op.key.algorithm = "AES"
Encrypted(data) == [i \in DOMAIN data |-> <<"e", data[i]>>]
Output(op) == IF Streams(op) THEN Encrypted(op.data) \o << <<"tag", op.aad>> >> ELSE <<Compute(op)>>

-----------------------------------------------------------------------------
(* The hardware keymaster1 device: external. *)

HwBeginError(k, purpose, p) ==
    CASE k.format # "hw" -> "INVALID_KEY_BLOB"
      [] purpose \notin k.purposes -> "INCOMPATIBLE_PURPOSE"
      [] p.digest # Absent /\ p.digest \notin k.digests -> "INCOMPATIBLE_DIGEST"
      [] p.digest # Absent /\ p.digest \notin HwDigests[<<k.algorithm, purpose>>] -> "UNSUPPORTED_DIGEST"
      [] p.padding # Absent /\ p.padding \notin k.paddings -> "INCOMPATIBLE_PADDING_MODE"
      [] p.digest = "NONE" /\ p.padding \in {"PSS", "OAEP"} -> "INCOMPATIBLE_DIGEST"
      [] Cardinality(DOMAIN hw) = Cardinality(HwHandles) -> "TOO_MANY_OPERATIONS"
      [] OTHER -> "OK"

Operation(k, purpose, p) ==
    [key |-> k, purpose |-> purpose, digest |-> p.digest, padding |-> p.padding,
     data |-> <<>>, aad |-> 0, emitted |-> 0]

\* update(): takes `taken` and, for a stream, emits all it has processed or nothing yet.
HwUpdated(op, taken, aad, emit) ==
    [op EXCEPT !.data = @ \o taken, !.aad = @ + aad,
               !.emitted = IF Streams(op) /\ emit THEN Len(op.data \o taken) ELSE @]
HwEmitted(op, new) == SubSeq(Encrypted(new.data), op.emitted + 1, new.emitted)

\* finish(): an undigested signature takes no more than the group order.
HwRefuses(op) == /\ op.key.algorithm = "EC" /\ op.digest = "NONE"
                 /\ op.data # <<>> /\ op.data[1] = "hash" /\ DigestBytes[op.data[2]] > GroupBytes
HwFinal(op) == SubSeq(Output(op), op.emitted + 1, Len(Output(op)))

-----------------------------------------------------------------------------
(* Which keys and operations the hardware cannot do alone. *)

FindUnsupportedDigest(algorithm, purpose, asked) ==
    /\ <<algorithm, purpose>> \in DOMAIN digests
    /\ \E d \in asked : d \notin digests[<<algorithm, purpose>>]

RequiresSoftwareDigesting(algorithm, purpose, asked) ==
    /\ algorithm \notin {"AES", "TRIPLE_DES"}
    /\ FindUnsupportedDigest(algorithm, purpose, asked)

KeyRequiresSoftwareDigesting(d) ==
    \E purpose \in d.purposes : RequiresSoftwareDigesting(d.algorithm, purpose, d.digests)

\* add_digests and map_digests: the first n entries of the map, all of them when no query fails.
map_digests(n) == [pair \in {MapPairs[i] : i \in 1..n} |-> HwDigests[pair]]

\* is_permutation(list, first n elements of the expected list), where n is the length of list.
ExpectedRsa == <<"NONE", "MD5", "SHA1", "SHA256", "SHA512">>
ExpectedEc == <<"NONE", "SHA1", "SHA256", "SHA512">>
Keymaster1DeviceIsGood ==
    \A pair \in DOMAIN digests :
        LET Good(expected) == \E n \in 0..Len(expected) : digests[pair] = ToSet(SubSeq(expected, 1, n))
        IN /\ pair[1] = "RSA" => Good(ExpectedRsa)
           /\ pair[1] = "EC" => Good(ExpectedEc)

-----------------------------------------------------------------------------
(* Keys. *)

Answer(call, api, err, k, fields) == [call |-> call, api |-> api, err |-> err, key |-> k] @@ fields
NoKey == [format |-> "none", wrapping |-> FALSE]
None == [none |-> TRUE]

Blob(d, format) == [algorithm |-> d.algorithm, purposes |-> d.purposes, digests |-> d.digests,
                    paddings |-> d.paddings, format |-> format, asked |-> d, wrapping |-> wrapped]

\* A slip: the description goes to the hardware as it is.
WorkAroundNothing(d) == d
\* UpdateToWorkAroundUnsupportedDigests of the RSA and EC keymaster1 factories.
RsaUpdateToWorkAroundUnsupportedDigests(d) ==
    LET have_unsupported == d.digests \ {"NONE", "SHA256"} # {}
    IN [d EXCEPT !.digests = IF have_unsupported THEN @ \cup {"NONE"} ELSE @,
                 !.paddings = IF have_unsupported /\ @ \cap {"PSS", "OAEP"} # {} THEN @ \cup {"NONE"} ELSE @]
EcUpdateToWorkAroundUnsupportedDigests(d) ==
    [d EXCEPT !.digests = IF @ \ {"NONE", "SHA256"} # {} THEN @ \cup {"NONE"} ELSE @]

\* Keymaster1Engine::GenerateKey and ImportKey: the hardware makes the blob.
EngineKey(d) == Blob(d, "hw")
\* The context uses the keymaster1 RSA and EC factories from SetHardwareDevice on.
RsaFactoryBlob(d) == IF wrapped THEN EngineKey(RsaUpdateToWorkAroundUnsupportedDigests(d)) ELSE Blob(d, "integrity")
EcFactoryBlob(d) == IF wrapped THEN EngineKey(EcUpdateToWorkAroundUnsupportedDigests(d)) ELSE Blob(d, "integrity")
FactoryBlob(d) ==
    [CASE d.algorithm = "RSA" -> RsaFactoryBlob(d)
       [] d.algorithm = "EC" -> EcFactoryBlob(d)
       [] OTHER -> Blob(d, "integrity") EXCEPT !.asked = d]

\* A keymaster1 key is an OpenSSL key with the public part the hardware exports.
GetKeymaster1PublicKey(k) == IF k.format # "hw" THEN "INVALID_KEY_BLOB" ELSE "OK"
BuildRsaKey(k) == GetKeymaster1PublicKey(k)
BuildEcKey(k) == GetKeymaster1PublicKey(k)
LoadKey(k) ==
    CASE wrapped /\ k.algorithm = "RSA" -> BuildRsaKey(k)
      [] wrapped /\ k.algorithm = "EC" -> BuildEcKey(k)
      [] OTHER -> "OK"

\* The hardware recognizes its own blobs.
ParseKeymaster1HwBlob(k) == k.format = "hw"
\* Integrity-assured, then OCB-encrypted, then old softkeymaster, then keymaster1 hardware blobs.
ParseKeyBlob(k) ==
    CASE k.format \in {"integrity", "ocb", "softkeymaster"} -> LoadKey(k)
      [] wrapped /\ ParseKeymaster1HwBlob(k) -> LoadKey(k)
      [] OTHER -> "INVALID_KEY_BLOB"

MadeInHardware(d) == wrapped /\ ~KeyRequiresSoftwareDigesting(d)

\* A software blob carries the OS version and patch level; the hardware's characteristics do not.
VersionInfo(k) == k.format = "integrity"

Idle == result = NONE /\ busy = NONE
Room == Cardinality(keys) < MaxKeys
Made(call, api, k, version) ==
    /\ keys' = keys \cup {k}
    /\ result' = Answer(call, api, "OK", k, [version |-> version])
    /\ UNCHANGED <<wrapped, digests, configured, ops, busy>>
Answered(r) == result' = r /\ UNCHANGED <<wrapped, digests, configured, keys, ops, busy>>

\* An EC curve is translated to a key size for the hardware, by the factory or by keymaster2's
\* generate_key; curve and size must agree.
GenerateAs(api, d, strip) ==
    LET k == IF MadeInHardware(d) THEN Blob(d, "hw") ELSE FactoryBlob(d)
    IN IF d.algorithm = "EC" /\ ~d.sizeFitsCurve /\ (api = "km2" \/ ~MadeInHardware(d))
       THEN Answered(Answer("generate_key", api, "INVALID_ARGUMENT", NoKey, [version |-> FALSE]))
       ELSE Made("generate_key", api, k, VersionInfo(k) /\ ~strip)
\* keymaster1 generate_key removes the version info from a software key's characteristics.
generate_key(d) == Idle /\ Room /\ GenerateAs("km1", d, TRUE)
generate_key2(d) == Idle /\ Room /\ configured /\ GenerateAs("km2", d, FALSE)

\* import_key: version info is left in the characteristics.
ImportAs(api, d) ==
    LET k == IF MadeInHardware(d) THEN Blob(d, "hw") ELSE FactoryBlob(d)
    IN Idle /\ Room /\ d.sizeFitsCurve /\ Made("import_key", api, k, VersionInfo(k))
import_key(d) == ImportAs("km1", d)
import_key2(d) == configured /\ ImportAs("km2", d)

\* The hardware is asked first; "this might be a software key blob".
get_key_characteristics(k) ==
    /\ Idle
    /\ Answered(Answer("get_key_characteristics", "km1",
                       IF wrapped /\ k.format = "hw" THEN "OK" ELSE ParseKeyBlob(k), k, [version |-> FALSE]))
get_key_characteristics2(k) ==
    /\ Idle /\ configured
    /\ Answered(Answer("get_key_characteristics", "km2", ParseKeyBlob(k), k, [version |-> VersionInfo(k)]))

\* export_key: the hardware answers alone when it is there.  Symmetric keys are not exported.
ExportError(k) ==
    CASE wrapped /\ k.format # "hw" -> "INVALID_KEY_BLOB"
      [] ParseKeyBlob(k) # "OK" -> ParseKeyBlob(k)
      [] k.algorithm \notin {"RSA", "EC"} -> "UNSUPPORTED_KEY_FORMAT"
      [] OTHER -> "OK"
export_key(k) == Idle /\ Answered(Answer("export_key", "km1", ExportError(k), k, None))
export_key2(k) == Idle /\ configured /\ Answered(Answer("export_key", "km2", ExportError(k), k, None))

kMaximumAttestationChallengeLength == 128
\* GenerateAttestation of the context: asymmetric keys only.
GenerateAttestation(k) ==
    CASE ParseKeyBlob(k) # "OK" -> ParseKeyBlob(k)
      [] k.algorithm \notin {"RSA", "EC"} -> "INCOMPATIBLE_ALGORITHM"
      [] OTHER -> "OK"
attest_key(k, challenge) ==
    /\ Idle /\ configured
    /\ Answered(Answer("attest_key", "km2",
                       IF challenge > kMaximumAttestationChallengeLength THEN "INVALID_INPUT_LENGTH"
                       ELSE GenerateAttestation(k), k, None))

\* UpgradeKeyBlob: a hardware blob has no version info and is refused; an old software blob is
\* written again in the integrity-assured format.
UpgradeError(k) ==
    CASE ParseKeyBlob(k) # "OK" -> ParseKeyBlob(k)
      [] wrapped /\ k.format = "hw" -> "INVALID_ARGUMENT"
      [] OTHER -> "OK"
upgrade_key(k) ==
    /\ Idle /\ configured
    /\ keys' = IF UpgradeError(k) = "OK" THEN (keys \ {k}) \cup {[k EXCEPT !.format = "integrity"]} ELSE keys
    /\ result' = Answer("upgrade_key", "km2", UpgradeError(k), k, None)
    /\ UNCHANGED <<wrapped, digests, configured, ops, busy>>

\* DeleteKey of the context: what looks like a software key is not passed to the hardware.
DeletedByHardware(k) == wrapped /\ k.format # "integrity"
DeleteAs(api, k) ==
    /\ Idle
    /\ keys' = keys \ {k}
    /\ result' = Answer("delete_key", api, "OK", k, [sent |-> DeletedByHardware(k)])
    /\ UNCHANGED <<wrapped, digests, configured, ops, busy>>
delete_key(k) == DeleteAs("km1", k)
delete_key2(k) == configured /\ DeleteAs("km2", k)

DeleteAllAs(api) ==
    /\ Idle
    /\ keys' = IF wrapped THEN {k \in keys : k.format # "hw"} ELSE keys
    /\ result' = Answer("delete_all_keys", api, "OK", NoKey, None)
    /\ UNCHANGED <<wrapped, digests, configured, ops, busy>>
delete_all_keys == DeleteAllAs("km1")
delete_all_keys2 == configured /\ DeleteAllAs("km2")

-----------------------------------------------------------------------------
(* Operations. *)

\* ~RsaKeymaster1WrappedOperation, ~EcdsaKeymaster1WrappedOperation: the hardware operation is aborted.
Destroy(hwops, op, h) == IF op.backed THEN Without(hwops, h) ELSE hwops

\* Begin of the wrapped operations: the hardware digests nothing and does PKCS1 padding only.
RsaWrappedBegin(p) == [digest |-> "NONE", padding |-> IF p.padding \in {"PSS", "OAEP"} THEN "NONE" ELSE p.padding]
EcdsaWrappedBegin(p) == [p EXCEPT !.digest = "NONE"]
WrappedBegin(k, p) == IF k.algorithm = "RSA" THEN RsaWrappedBegin(p) ELSE EcdsaWrappedBegin(p)

\* The factory's operation for a private key of a wrapping device is backed by a hardware operation.
Backed(k, purpose) == wrapped /\ k.algorithm \in {"RSA", "EC"} /\ purpose \in {"SIGN", "DECRYPT"}

\* CreateOperation: GetAndValidateDigest and GetAndValidatePadding against the key; no enforcement policy.
CreateOperationError(k, purpose, p) ==
    CASE ParseKeyBlob(k) # "OK" -> ParseKeyBlob(k)
      [] k.algorithm = "EC" /\ purpose \notin {"SIGN", "VERIFY"} -> "UNSUPPORTED_PURPOSE"
      [] p.digest \notin k.digests \cup {Absent} -> "INCOMPATIBLE_DIGEST"
      [] p.padding \notin k.paddings \cup {Absent} -> "INCOMPATIBLE_PADDING_MODE"
      [] Backed(k, purpose) -> HwBeginError(k, purpose, WrappedBegin(k, p))
      [] OTHER -> "OK"

BeginAnswer(err, by, k, purpose, p) ==
    Answer("begin", "any", err, k, [by |-> by, purpose |-> purpose, digest |-> p.digest, padding |-> p.padding])

\* AndroidKeymaster::BeginOperation: an operation that finds the table full is destroyed again.
BeginInSoftware(k, purpose, p) ==
    LET err == CreateOperationError(k, purpose, p)
        op == Operation(k, purpose, p) @@ [backed |-> Backed(k, purpose), expected |-> WrappedBegin(k, p).padding]
        h == IF op.backed THEN HwHandle ELSE SwHandle
        begun == IF op.backed THEN With(hw, h, Operation(k, purpose, WrappedBegin(k, p))) ELSE hw
        full == Cardinality(DOMAIN table) = Cardinality(TableHandles)
    IN /\ hw' = IF err # "OK" THEN hw ELSE IF full THEN Destroy(begun, op, h) ELSE begun
       /\ table' = IF err # "OK" \/ full THEN table ELSE With(table, h, op)
       /\ client' = IF err # "OK" \/ full THEN client ELSE With(client, h, Operation(k, purpose, p) @@ [got |-> <<>>])
       /\ result' = BeginAnswer(IF err = "OK" /\ full THEN "TOO_MANY_OPERATIONS" ELSE err, "sw", k, purpose, p)
       /\ UNCHANGED <<wrapped, digests, configured, keys, busy>>

BeginInHardware(k, purpose, p) ==
    LET err == HwBeginError(k, purpose, p)
        op == Operation(k, purpose, p)
    IN /\ hw' = IF err = "OK" THEN With(hw, HwHandle, op) ELSE hw
       /\ client' = IF err = "OK" THEN With(client, HwHandle, op @@ [got |-> <<>>]) ELSE client
       /\ result' = BeginAnswer(err, "hw", k, purpose, p)
       /\ UNCHANGED <<wrapped, digests, configured, keys, table, busy>>

\* The result of ParseKeyBlob is not looked at: a blob it refuses is a null key, and the process is gone.
Crash ==
    /\ wrapped' = FALSE /\ configured' = FALSE
    /\ digests' = <<>> /\ hw' = <<>> /\ table' = <<>> /\ client' = <<>>
    /\ UNCHANGED <<keys, busy, result>>

\* The digest of an HMAC operation is the key's.
AskedDigests(k, p) == IF k.algorithm = "HMAC" THEN k.digests ELSE {p.digest} \ {Absent}

begin(k, purpose, p) ==
    /\ Idle
    /\ IF wrapped /\ ParseKeyBlob(k) # "OK" THEN Crash
       ELSE IF wrapped /\ ~RequiresSoftwareDigesting(k.algorithm, purpose, AskedDigests(k, p))
       THEN BeginInHardware(k, purpose, p)
       ELSE BeginInSoftware(k, purpose, p)
begin2(k, purpose, p) == configured /\ begin(k, purpose, p)

Chunk == <<"c1", "c2", "c3">>
Next1(op) == SubSeq(Chunk, Len(op.data) + 1, Len(op.data) + 1)
\* A slip: the table of software operations is not looked at.
RoutesEverythingToHardware(h) == wrapped
ToHardware(h) == wrapped /\ h \notin DOMAIN table

\* The client's operation is over: it forgets the handle.
Over(h) == client' = Without(client, h)
Done(call, err, h, fault, out) ==
    result' = Answer(call, "any", err, client[h].key, [op |-> client[h], fault |-> fault, out |-> out])

\* update: the hardware may take nothing, emit now or later, or fail.
UnknownHandle(call, h) ==
    /\ Over(h)
    /\ result' = Answer(call, "any", "INVALID_OPERATION_HANDLE", NoKey, [fault |-> "none"])
    /\ UNCHANGED <<wrapped, digests, configured, keys, hw, table, busy>>
UpdateInHardware(h) ==
    \E taken \in {<<>>, Next1(client[h])}, emit \in BOOLEAN, fault \in {"none", "hardware"} :
        LET new == HwUpdated(hw[h], taken, 0, emit)
            out == HwEmitted(hw[h], new)
        IN /\ hw' = IF fault = "none" THEN [hw EXCEPT ![h] = new] ELSE Without(hw, h)
           /\ client' = IF fault = "none"
                        THEN [client EXCEPT ![h].data = @ \o taken, ![h].got = @ \o out] ELSE Without(client, h)
           /\ Done("update", IF fault = "none" THEN "OK" ELSE "HW_FAULT", h, fault, out)
           /\ UNCHANGED <<wrapped, digests, configured, keys, table, busy>>

\* UpdateOperation: any error deletes the operation.
UpdateInSoftware(h) ==
    \E fault \in {"none", "software"} :
        LET new == HwUpdated(table[h], Next1(client[h]), 0, TRUE)
            out == HwEmitted(table[h], new)
        IN /\ table' = IF fault = "none" THEN [table EXCEPT ![h] = new] ELSE Without(table, h)
           /\ hw' = IF fault = "none" THEN hw ELSE Destroy(hw, table[h], h)
           /\ client' = IF fault = "none"
                        THEN [client EXCEPT ![h].data = @ \o Next1(client[h]), ![h].got = @ \o out] ELSE Without(client, h)
           /\ Done("update", IF fault = "none" THEN "OK" ELSE "SW_FAULT", h, fault, out)
           /\ UNCHANGED <<wrapped, digests, configured, keys, busy>>

update(h) ==
    /\ Idle /\ Len(client[h].data) < MaxChunks
    /\ IF ~ToHardware(h) THEN UpdateInSoftware(h)
       ELSE IF h \in DOMAIN hw THEN UpdateInHardware(h) ELSE UnknownHandle("update", h)
update2(h) == configured /\ update(h)

\* Keymaster1Engine: what OpenSSL hands to sign_raw, decrypt or sign, and with which padding.
OpensslPadding(op) == IF op.padding = "PKCS1" THEN "PKCS1" ELSE "NONE"
ecdsa_sign(op) == Truncate(op.digest, Hash(op.digest, op.data))
\* A slip: the message is not digested.
EngineInputUndigested(op) == op.data
EngineInput(op) ==
    CASE op.key.algorithm = "EC" -> ecdsa_sign(op)
      [] op.purpose = "DECRYPT" -> op.data
      [] op.padding = "PKCS1" -> Hash(op.digest, op.data)
      [] OTHER -> Pad(op.padding, op.digest, op.data)

\* Keymaster1Finish: one update with all the input, then finish.
Keymaster1Finish(op, h) == Compute([hw[h] EXCEPT !.data = EngineInput(op)])

\* rsa_sign_raw and rsa_decrypt return a true value and no output when the padding is not the expected one.
rsa_sign_raw(op, h) == IF OpensslPadding(op) # op.expected THEN <<"uninitialized">> ELSE Keymaster1Finish(op, h)
RsaFinish(op, h) ==
    LET raw == rsa_sign_raw(op, h)
    IN IF op.purpose = "DECRYPT" /\ op.padding = "OAEP" THEN Unpad("OAEP", op.digest, raw) ELSE raw
EcdsaFinish(op, h) == Keymaster1Finish(op, h)
FinishOutput(op, h) ==
    IF ~op.backed THEN SubSeq(Output(op), op.emitted + 1, Len(Output(op)))
    ELSE << IF op.key.algorithm = "RSA" THEN RsaFinish(op, h) ELSE EcdsaFinish(op, h) >>

\* FinishOperation: the operation is deleted whatever Finish returns; a hardware error wins (GetError).
FinishInSoftware(h, input, aad) ==
    \E fault \in {"none", "software"} \cup IF table[h].backed THEN {"hardware"} ELSE {} :
        LET op == [table[h] EXCEPT !.data = @ \o input, !.aad = @ + aad]
            refused == op.backed /\ HwRefuses([hw[h] EXCEPT !.data = EngineInput(op)])
            hwErr == fault = "hardware" \/ (fault = "none" /\ refused)
            err == CASE fault = "software" -> "SW_FAULT" [] hwErr -> "HW_FAULT" [] OTHER -> "OK"
        IN /\ table' = Without(table, h)
           /\ hw' = Destroy(IF hwErr \/ (fault = "none" /\ op.backed) THEN Without(hw, h) ELSE hw, op, h)
           /\ Over(h)
           /\ result' = Answer("finish", "any", err, op.key,
                               [op |-> [client[h] EXCEPT !.data = @ \o input, !.aad = @ + aad], fault |-> fault,
                                out |-> IF err = "OK" THEN FinishOutput(op, h) ELSE <<>>])
           /\ UNCHANGED <<wrapped, digests, configured, keys, busy>>

FinishInHardware(h, aad, sofar) ==
    \E fault \in {"none", "hardware"} :
        /\ hw' = Without(hw, h)
        /\ Over(h) /\ busy' = NONE
        /\ Done("finish", IF fault = "none" THEN "OK" ELSE "HW_FAULT", h, fault,
                IF fault = "none" THEN sofar \o HwFinal([hw[h] EXCEPT !.aad = @ + aad]) ELSE <<>>)
        /\ UNCHANGED <<wrapped, digests, configured, keys, table>>

\* keymaster1 finish takes no input.
finish(h) ==
    /\ Idle
    /\ IF ~ToHardware(h) THEN FinishInSoftware(h, <<>>, 0)
       ELSE IF h \in DOMAIN hw THEN FinishInHardware(h, 0, <<>>) ELSE UnknownHandle("finish", h)

\* keymaster2 finish with input and associated data: on a hardware operation a loop of update calls.
Input(op, n) == SubSeq(Chunk, Len(op.data) + 1, Len(op.data) + n)
finish2(h, n, aad) ==
    /\ Idle /\ configured /\ Len(client[h].data) + n <= MaxChunks
    /\ aad = 1 => client[h].key.algorithm = "AES"
    /\ IF ~ToHardware(h) THEN FinishInSoftware(h, Input(client[h], n), aad)
       ELSE IF h \notin DOMAIN hw THEN UnknownHandle("finish", h)
       ELSE /\ busy' = [h |-> h, left |-> Input(client[h], n), aad |-> aad, acc |-> <<>>, turn |-> 0]
            /\ client' = [client EXCEPT ![h].data = @ \o Input(client[h], n), ![h].aad = @ + aad]
            /\ UNCHANGED <<wrapped, digests, configured, keys, hw, table, result>>

\* One turn of the loop: associated data is sent once; a turn that consumes nothing aborts.
AadAfterTurn(aad) == 0
\* A slip: a turn that consumes nothing goes on.
NeverStarved(n) == FALSE
Starved(n) == n = 0
FinishUpdate ==
    /\ busy # NONE /\ busy.left # <<>>
    /\ \E n \in 0..Len(busy.left), emit \in BOOLEAN, fault \in {"none", "hardware"} :
        LET h == busy.h
            new == HwUpdated(hw[h], SubSeq(busy.left, 1, n), busy.aad, emit)
            over == fault # "none" \/ Starved(n)
        IN /\ hw' = IF over THEN Without(hw, h) ELSE [hw EXCEPT ![h] = new]
           /\ client' = IF over THEN Without(client, h) ELSE client
           /\ busy' = IF over THEN NONE
                      ELSE [busy EXCEPT !.left = SubSeq(@, n + 1, Len(@)), !.aad = AadAfterTurn(@),
                                        !.acc = @ \o HwEmitted(hw[h], new), !.turn = 1 - @]
           /\ IF over THEN Done("finish", IF fault # "none" THEN "HW_FAULT" ELSE "INVALID_INPUT_LENGTH", h, "hardware", <<>>)
              ELSE UNCHANGED result
           /\ UNCHANGED <<wrapped, digests, configured, keys, table>>
FinishLast ==
    /\ busy # NONE /\ busy.left = <<>>
    /\ FinishInHardware(busy.h, busy.aad, busy.acc)

\* abort: Abort of a wrapped operation aborts the hardware's.
AbortInSoftware(h) ==
    /\ table' = Without(table, h) /\ hw' = Destroy(hw, table[h], h)
    /\ Over(h) /\ Done("abort", "OK", h, "none", <<>>)
    /\ UNCHANGED <<wrapped, digests, configured, keys, busy>>
abort(h) ==
    /\ Idle
    /\ IF h \in DOMAIN table /\ ~ToHardware(h) THEN AbortInSoftware(h)
       ELSE IF h \notin DOMAIN hw THEN UnknownHandle("abort", h)
       ELSE /\ hw' = Without(hw, h) /\ Over(h) /\ Done("abort", "OK", h, "none", <<>>)
            /\ UNCHANGED <<wrapped, digests, configured, keys, table, busy>>
abort2(h) == configured /\ abort(h)

-----------------------------------------------------------------------------
(* The device itself. *)

\* A query that fails leaves the map half filled and the device as it was.
SetHardwareDevice(n) ==
    /\ Idle /\ ~wrapped
    /\ digests' = map_digests(n) /\ wrapped' = (n = Len(MapPairs))
    /\ result' = Answer("SetHardwareDevice", "any", IF n = Len(MapPairs) THEN "OK" ELSE "HW_FAULT", NoKey, None)
    /\ UNCHANGED <<configured, keys, ops, busy>>

IsGood == Idle /\ Answered(Answer("IsGood", "any", "OK", NoKey, [good |-> Keymaster1DeviceIsGood]))

\* configure needs the OS version and the patch level.
configure(complete) ==
    /\ Idle
    /\ configured' = (configured \/ complete)
    /\ result' = Answer("configure", "km2", IF complete THEN "OK" ELSE "INVALID_ARGUMENT", NoKey, None)
    /\ UNCHANGED <<wrapped, digests, keys, ops, busy>>
NotConfigured == Idle /\ ~configured /\ Answered(Answer("any", "km2", "KEYMASTER_NOT_CONFIGURED", NoKey, None))

\* The queries and add_rng_entropy: the hardware answers when it is there.
Supported(what) == Answered(Answer(what, "km1", "OK", NoKey, [by |-> IF wrapped THEN "hw" ELSE "sw"]))
get_supported_algorithms == Supported("algorithms")
get_supported_block_modes == Supported("block_modes")
get_supported_padding_modes == Supported("padding_modes")
get_supported_digests == Supported("digests")
get_supported_import_formats == Supported("import_formats")
get_supported_export_formats == Supported("export_formats")
add_rng_entropy == Supported("entropy")
Query == Idle /\ \/ get_supported_algorithms \/ get_supported_block_modes \/ get_supported_padding_modes
                 \/ get_supported_digests \/ get_supported_import_formats \/ get_supported_export_formats
                 \/ add_rng_entropy

Collect == result # NONE /\ result' = NONE /\ UNCHANGED <<wrapped, digests, configured, keys, ops, busy>>

Init ==
    /\ wrapped = FALSE /\ configured = FALSE
    /\ digests = <<>> /\ hw = <<>> /\ table = <<>> /\ client = <<>>
    /\ keys \in {ks \in SUBSET LegacyKeys : Cardinality(ks) <= MaxKeys}
    /\ busy = NONE /\ result = NONE

\* Parameters a client passes for a key: for RSA a digest and a padding, for EC a digest.
ParamsFor(k, purpose) ==
    {p \in Params : /\ p.padding \in IF purpose \in {"SIGN", "VERIFY"} THEN {Absent, "NONE", "PKCS1", "PSS"}
                                     ELSE {Absent, "NONE", "PKCS1", "OAEP"}
                    /\ p.padding \in {"PSS", "OAEP"} => p.digest # "NONE"
                    /\ p.padding = "NONE" => p.digest = "NONE"
                    /\ p.digest \in IF k.algorithm \in {"RSA", "EC"} THEN k.asked.digests ELSE {Absent}
                    /\ p.padding \in IF k.algorithm = "RSA" THEN k.asked.paddings ELSE {Absent}}

KeyCall(k) ==
    \/ get_key_characteristics(k) \/ get_key_characteristics2(k) \/ export_key(k) \/ export_key2(k)
    \/ \E challenge \in {128, 129} : attest_key(k, challenge)
    \/ upgrade_key(k) \/ delete_key(k) \/ delete_key2(k)
BeginCall(k) ==
    \E purpose \in k.asked.purposes : \E p \in ParamsFor(k, purpose) : begin(k, purpose, p) \/ begin2(k, purpose, p)
OperationCall(h) ==
    \/ update(h) \/ update2(h) \/ finish(h)
    \/ \E n \in 0..MaxChunks, aad \in {0, 1} : finish2(h, n, aad)

\* The calls that make keys and use them, and all the others.
OperationNext ==
    \/ SetHardwareDevice(Len(MapPairs)) \/ configure(TRUE) \/ Collect
    \/ \E d \in Descriptions : generate_key(d)
    \/ \E k \in keys : BeginCall(k) \/ delete_key(k)
    \/ \E h \in DOMAIN client : OperationCall(h)
    \/ FinishUpdate \/ FinishLast
    \/ \E h \in Handles : abort(h) \/ abort2(h)
Next ==
    \/ OperationNext
    \/ SetHardwareDevice(FailedQuery) \/ configure(FALSE)
    \/ NotConfigured \/ IsGood \/ Query
    \/ \E d \in Descriptions : generate_key2(d) \/ import_key(d) \/ import_key2(d)
    \/ \E k \in keys : KeyCall(k)
    \/ delete_all_keys \/ delete_all_keys2

Fairness == WF_vars(FinishUpdate) /\ WF_vars(FinishLast)
OperationSpec == Init /\ [][OperationNext]_vars /\ Fairness
Spec == Init /\ [][Next]_vars /\ Fairness

-----------------------------------------------------------------------------
(* Properties. *)

\* Shape of the state; the operations of the table and of the hardware fit their slots.
TypeOK ==
    /\ {wrapped, configured} \subseteq BOOLEAN
    /\ DOMAIN digests \subseteq ToSet(MapPairs) /\ Cardinality(keys) <= MaxKeys
    /\ DOMAIN hw \subseteq {<<"hw", t>> : t \in HwHandles}
    /\ Cardinality(DOMAIN table) <= Cardinality(TableHandles)

Same(op, c) == /\ op.key = c.key /\ op.purpose = c.purpose /\ op.data = c.data /\ op.aad = c.aad
               /\ op.digest = c.digest /\ op.padding = c.padding

\* update(), finish() and abort() reach the engine that holds the operation: between calls the
\* operation a client's handle leads to has the key, the parameters and all of the input the client
\* gave, and an operation digested in software has its own undigested, untouched hardware operation.
HandleLeadsToItsOperation ==
    busy = NONE =>
        \A h \in DOMAIN client :
            IF h \notin DOMAIN table THEN h \in DOMAIN hw /\ Same(hw[h], client[h])
            ELSE /\ Same(table[h], client[h])
                 /\ table[h].backed => h \in DOMAIN hw /\ hw[h].key = table[h].key
                                       /\ hw[h].digest = "NONE" /\ hw[h].data = <<>>

\* The destructors of the wrapped operations: no operation stays open in the hardware or in the
\* table after the client's operation has failed, finished or been aborted, whichever part failed.
NoOperationLeaks == DOMAIN hw \cup DOMAIN table \subseteq DOMAIN client

\* A finished operation gives, with what update() gave before, exactly what one computation with the
\* requested digest and padding over the whole message gives, whether the hardware does it alone,
\* the software does it, or the software digests and pads and the hardware does the rest; the
\* keymaster2 finish loop loses, repeats and reorders nothing and sends associated data once.
WholeMessageComputed ==
    result # NONE => (result.call = "finish" /\ result.err = "OK" =>
        result.op.got \o result.out =
            IF result.op.key.algorithm = "AES"
            THEN [i \in 1..Len(result.op.data) |-> <<"e", Chunk[i]>>] \o << <<"tag", result.op.aad>> >>
            ELSE <<Compute([result.op EXCEPT !.data = SubSeq(Chunk, 1, Len(@))])>>)

\* update() and finish() of a live operation fail only when the hardware or the software does.
HealthyOperationsFinish ==
    result # NONE => (result.call \in {"update", "finish"} /\ result.err # "OK" => result.fault # "none")

\* Made through the device as it is now.
Native(k) == k.wrapping = wrapped /\ k.format \in {"hw", "integrity"}

\* A key made through the device can be used for every purpose with every digest and padding it was
\* made for: begin() picks the engine that understands the blob, and the key the hardware holds
\* authorizes the undigested operation that software digesting needs.
AuthorizedUseBegins ==
    result # NONE => (result.call = "begin" /\ Native(result.key) => result.err \in {"OK", "TOO_MANY_OPERATIONS"})

\* get_key_characteristics and export_key recognize every key the device has made, in both
\* interfaces, and no old software key is lost by wrapping hardware and upgrading.
DeviceKnowsItsKeys ==
    result # NONE => (Native(result.key) =>
        /\ result.call = "get_key_characteristics" => result.err = "OK"
        /\ result.call = "export_key" /\ result.key.algorithm \in {"RSA", "EC"} => result.err = "OK")

\* A keymaster2 finish() ends: the loop of hardware updates does not go on for ever.
FinishEnds == busy # NONE ~> busy = NONE
=============================================================================
