------------------------------ MODULE Messages ------------------------------
(***************************************************************************)
(* The messages between a client of the keymaster and AndroidKeymaster     *)
(* (android_keymaster_messages.h and .cpp): how each is serialized, sized  *)
(* and deserialized under each message version, and how the two sides      *)
(* settle on a version with GetVersion2 or, for an old client, GetVersion. *)
(*                                                                         *)
(* A message is the sequence of the values of its fields; its layout is    *)
(* the sequence of the kinds of its fields under a version.  A response    *)
(* starts with its error, and has no more fields if that is not OK.  An    *)
(* AuthorizationSet is here its indirect data and its elements, one cell   *)
(* each (AuthorizationSet.tla has the elements).                           *)
(***************************************************************************)
EXTENDS Integers, SequencesExt, Serialization

CONSTANTS
    Messages,              \* the messages exchanged, some of AllMessages
    KmVersions,            \* the versions a server's context may have
    kMaxChainEntryCount, kMaxSharingParams, NonceSize,
    NONE

VARIABLES
    km_version,            \* what the server's context implements
    message_version,       \* AndroidKeymaster::message_version_, at the server
    client_version,        \* the version the client uses
    negotiated,            \* how the client came by its version
    packet,                \* the message in flight, with what was sent
    received               \* what the other side made of it

vars == <<km_version, message_version, client_version, negotiated, packet, received>>

kMaxMessageVersion == 4
kDefaultMessageVersion == 3
OK == 0

-----------------------------------------------------------------------------
(* Layouts.  A blob stands for a keymaster_blob_t, a key blob, a Buffer or  *)
(* a string: all are a size and the data.                                   *)

Since(v, first, fields) == IF v >= first THEN fields ELSE <<>>

SupportedByAlgorithmRequest(v) == <<"u32">>
SupportedByAlgorithmAndPurposeRequest(v) == <<"u32", "u32">>
SupportedResponse(v) == <<"array">>
GenerateKeyRequest(v) == <<"set">> \o Since(v, 4, <<"blob", "set", "blob">>)
GenerateKeyResponse(v) == <<"blob", "set", "set">> \o Since(v, 4, <<"chain">>)
GenerateRkpKeyRequest(v) == <<"u8">>
GenerateRkpKeyResponse(v) == <<"blob", "blob">>
GenerateCsrRequest(v) == <<"u8", "blobs", "blob", "blob">>
GenerateCsrResponse(v) == <<"blob", "blob", "blob">>
GenerateCsrV2Request(v) == <<"blobs", "blob">>
GenerateCsrV2Response(v) == <<"blob">>
GetKeyCharacteristicsRequest(v) == <<"blob", "set">>
GetKeyCharacteristicsResponse(v) == <<"set", "set">>
BeginOperationRequest(v) == <<"u32", "blob", "set">>
BeginOperationResponse(v) == <<"u64">> \o Since(v, 1, <<"set">>)
UpdateOperationRequest(v) == <<"u64", "blob">> \o Since(v, 1, <<"set">>)
UpdateOperationResponse(v) == <<"blob">> \o Since(v, 1, <<"u32">>) \o Since(v, 2, <<"set">>)

\* A slip: the field version 3 added is not the last.
FinishOperationRequestReordered(v) == <<"u64", "blob">> \o Since(v, 3, <<"blob">>) \o Since(v, 1, <<"set">>)

FinishOperationRequest(v) == <<"u64", "blob">> \o Since(v, 1, <<"set">>) \o Since(v, 3, <<"blob">>)
FinishOperationResponse(v) == <<"blob">> \o Since(v, 2, <<"set">>)
AbortOperationRequest(v) == <<"u64">>
AddEntropyRequest(v) == <<"blob">>
ImportKeyRequest(v) == <<"set", "u32", "blob">> \o Since(v, 4, <<"blob", "set", "blob">>)
ImportKeyResponse(v) == <<"blob", "set", "set">> \o Since(v, 4, <<"chain">>)
ExportKeyRequest(v) == <<"set", "u32", "blob">>
ExportKeyResponse(v) == <<"blob">>
DeleteKeyRequest(v) == <<"blob">>
GetVersionResponse(v) == <<"version">>
AttestKeyRequest(v) == <<"blob", "set">>
AttestKeyResponse(v) == <<"chain">>
UpgradeKeyRequest(v) == <<"blob", "set">>
UpgradeKeyResponse(v) == <<"blob">>
ConfigureRequest(v) == <<"u32", "u32">>
HmacSharingParameters == <<"blob", "nonce">>
HmacSharingParametersArray == <<"params">>
ComputeSharedHmacResponse(v) == <<"blob">>
ImportWrappedKeyRequest(v) == <<"blob", "blob", "blob", "set", "u64", "u64">>
ImportWrappedKeyResponse(v) == <<"blob", "set", "set">> \o Since(v, 4, <<"chain">>)
HardwareAuthToken == <<"u64", "u64", "u64", "u32", "u64", "blob">>
VerificationToken == <<"u64", "u64", "set", "u32", "blob">>
VerifyAuthorizationRequest(v) == <<"u64", "set">> \o HardwareAuthToken
VerifyAuthorizationResponse(v) == <<"error">> \o VerificationToken
DeviceLockedRequest(v) == <<"u8">> \o VerificationToken
GetVersion2Request(v) == <<"u32">>
GetVersion2Response(v) == <<"u32", "u32", "u32">>
TimestampToken == <<"u64", "u64", "u32", "blob">>
GenerateTimestampTokenRequest(v) == <<"u64">>
SetAttestationIdsRequest(v) == <<"blob", "blob", "blob", "blob", "blob", "blob", "blob", "blob">>
SetAttestationIdsKM3Request(v) == SetAttestationIdsRequest(v) \o <<"blob">>
ConfigureVendorPatchlevelRequest(v) == <<"u32">>
ConfigureBootPatchlevelRequest(v) == <<"u32">>
ConfigureVerifiedBootInfoRequest(v) == <<"collection", "collection", "collection">>
GetRootOfTrustRequest(v) == <<"collection">>
GetRootOfTrustResponse(v) == <<"collection">>
GetHwInfoResponse(v) == <<"u32", "collection", "u32", "collection", "u32">>

Requests(v) ==
    [EmptyKeymasterRequest |-> <<>>,
     SupportedByAlgorithmRequest |-> SupportedByAlgorithmRequest(v),
     SupportedByAlgorithmAndPurposeRequest |-> SupportedByAlgorithmAndPurposeRequest(v),
     GenerateKeyRequest |-> GenerateKeyRequest(v), GenerateRkpKeyRequest |-> GenerateRkpKeyRequest(v),
     GenerateCsrRequest |-> GenerateCsrRequest(v), GenerateCsrV2Request |-> GenerateCsrV2Request(v),
     GetKeyCharacteristicsRequest |-> GetKeyCharacteristicsRequest(v),
     BeginOperationRequest |-> BeginOperationRequest(v),
     UpdateOperationRequest |-> UpdateOperationRequest(v),
     FinishOperationRequest |-> FinishOperationRequest(v),
     AbortOperationRequest |-> AbortOperationRequest(v), AddEntropyRequest |-> AddEntropyRequest(v),
     ImportKeyRequest |-> ImportKeyRequest(v), ExportKeyRequest |-> ExportKeyRequest(v),
     DeleteKeyRequest |-> DeleteKeyRequest(v), AttestKeyRequest |-> AttestKeyRequest(v),
     UpgradeKeyRequest |-> UpgradeKeyRequest(v), ConfigureRequest |-> ConfigureRequest(v),
     ComputeSharedHmacRequest |-> HmacSharingParametersArray,
     ImportWrappedKeyRequest |-> ImportWrappedKeyRequest(v),
     VerifyAuthorizationRequest |-> VerifyAuthorizationRequest(v),
     DeviceLockedRequest |-> DeviceLockedRequest(v), GetVersion2Request |-> GetVersion2Request(v),
     GenerateTimestampTokenRequest |-> GenerateTimestampTokenRequest(v),
     SetAttestationIdsRequest |-> SetAttestationIdsRequest(v),
     SetAttestationIdsKM3Request |-> SetAttestationIdsKM3Request(v),
     ConfigureVendorPatchlevelRequest |-> ConfigureVendorPatchlevelRequest(v),
     ConfigureBootPatchlevelRequest |-> ConfigureBootPatchlevelRequest(v),
     ConfigureVerifiedBootInfoRequest |-> ConfigureVerifiedBootInfoRequest(v),
     GetRootOfTrustRequest |-> GetRootOfTrustRequest(v)]

Responses(v) ==
    [EmptyKeymasterResponse |-> <<>>, SupportedResponse |-> SupportedResponse(v),
     GenerateKeyResponse |-> GenerateKeyResponse(v),
     GenerateRkpKeyResponse |-> GenerateRkpKeyResponse(v),
     GenerateCsrResponse |-> GenerateCsrResponse(v), GenerateCsrV2Response |-> GenerateCsrV2Response(v),
     GetKeyCharacteristicsResponse |-> GetKeyCharacteristicsResponse(v),
     BeginOperationResponse |-> BeginOperationResponse(v),
     UpdateOperationResponse |-> UpdateOperationResponse(v),
     FinishOperationResponse |-> FinishOperationResponse(v), ImportKeyResponse |-> ImportKeyResponse(v),
     ExportKeyResponse |-> ExportKeyResponse(v), GetVersionResponse |-> GetVersionResponse(v),
     AttestKeyResponse |-> AttestKeyResponse(v), UpgradeKeyResponse |-> UpgradeKeyResponse(v),
     GetHmacSharingParametersResponse |-> HmacSharingParameters,
     ComputeSharedHmacResponse |-> ComputeSharedHmacResponse(v),
     ImportWrappedKeyResponse |-> ImportWrappedKeyResponse(v),
     VerifyAuthorizationResponse |-> VerifyAuthorizationResponse(v),
     GetVersion2Response |-> GetVersion2Response(v),
     GenerateTimestampTokenResponse |-> TimestampToken,
     GetRootOfTrustResponse |-> GetRootOfTrustResponse(v), GetHwInfoResponse |-> GetHwInfoResponse(v)]

IsResponse(m) == m \in DOMAIN Responses(0)
AllMessages == DOMAIN Requests(0) \cup DOMAIN Responses(0)
NonErrorLayout(m, v) == IF IsResponse(m) THEN Responses(v)[m] ELSE Requests(v)[m]

\* The fields a size function adds up, by position.  Two of them are written as a
\* switch over the versions that falls through.
UpdateOperationResponseSize(v) ==
    {1} \cup (IF v \in 1 .. 4 THEN {2} ELSE {}) \cup (IF v \in 2 .. 4 THEN {3} ELSE {})
FinishOperationRequestSize(v) ==
    {1, 2} \cup (IF v \in 1 .. 4 THEN {3} ELSE {}) \cup (IF v \in 3 .. 4 THEN {4} ELSE {})
DeviceLockedRequestSize(v) == {1}

SizedFields(m, v) ==
    CASE m = "UpdateOperationResponse" -> UpdateOperationResponseSize(v)
      [] m = "FinishOperationRequest" -> FinishOperationRequestSize(v)
      [] m = "DeviceLockedRequest" -> DeviceLockedRequestSize(v)
      [] OTHER -> DOMAIN NonErrorLayout(m, v)

-----------------------------------------------------------------------------
(* Fields on the wire.                                                      *)

append_blobs(w, blobs) ==
    FoldLeft(append_size_and_data_to_buf, append_uint32_to_buf(w, Len(blobs)), blobs)

append_field(w, kind, val) ==
    CASE kind = "u8" -> append_to_buf(w, <<val>>)
      [] kind \in {"u32", "error"} -> append_uint32_to_buf(w, val)
      [] kind = "u64" -> append_uint64_to_buf(w, val)
      [] kind = "blob" -> append_size_and_data_to_buf(w, val)
      [] kind = "collection" -> append_collection_to_buf(w, val)
      [] kind = "array" -> append_uint32_array_to_buf(w, val)
      [] kind \in {"version", "nonce"} -> append_to_buf(w, val)
      [] kind \in {"chain", "blobs"} -> append_blobs(w, val)
      [] kind = "params" ->
            FoldLeft(LAMBDA x, p : append_to_buf(append_size_and_data_to_buf(x, p.seed), p.nonce),
                     append_uint32_to_buf(w, Len(val)), val)
      [] kind = "set" ->
            append_size_and_data_to_buf(
                append_uint32_to_buf(append_size_and_data_to_buf(w, val.indirect), Len(val.elems)),
                val.elems)

\* count times, appending what each copy reads
Extended(acc, c) == [ok |-> c.ok, val |-> Append(acc.val, c.val), rest |-> c.rest]
copy_many(r, count, copy(_)) ==
    FoldLeft(LAMBDA acc, i : IF acc.ok THEN Extended(acc, copy(acc.rest)) ELSE acc,
             Got(<<>>, r), [i \in 1 .. count |-> i])

copy_counted(r, max, copy(_)) ==
    LET Entries(count) ==
            IF ~count.ok \/ count.val > max THEN Short(r) ELSE copy_many(count.rest, count.val, copy)
    IN Entries(copy_uint32_from_buf(r))

\* At most kMaxChainEntryCount entries are accepted.
deserialize_chain(r) == copy_counted(r, kMaxChainEntryCount, copy_size_and_data_from_buf)

deserialize_params(r) ==
    LET Both(seed, nonce) ==
            IF seed.ok /\ nonce.ok THEN Got([seed |-> seed.val, nonce |-> nonce.val], nonce.rest) ELSE Short(r)
        Nonce(seed) == Both(seed, copy_from_buf(seed.rest, NonceSize))
    IN Nonce(copy_size_and_data_from_buf(r))

deserialize_set(r) ==
    LET All(indirect, count, elems) ==
            IF indirect.ok /\ count.ok /\ elems.ok /\ Len(elems.val) = count.val
            THEN Got([indirect |-> indirect.val, elems |-> elems.val], elems.rest)
            ELSE Short(r)
        Elems(indirect, count) == All(indirect, count, copy_size_and_data_from_buf(count.rest))
        Count(indirect) == Elems(indirect, copy_uint32_from_buf(indirect.rest))
    IN Count(copy_size_and_data_from_buf(r))

copy_field(r, kind) ==
    CASE kind = "u8" -> copy_word(r, 1)
      [] kind \in {"u32", "error"} -> copy_uint32_from_buf(r)
      [] kind = "u64" -> copy_uint64_from_buf(r)
      [] kind = "blob" -> copy_size_and_data_from_buf(r)
      [] kind = "collection" -> copy_collection_from_buf(r, <<>>)
      [] kind = "array" -> copy_uint32_array_from_buf(r)
      [] kind = "version" -> copy_from_buf(r, 3)
      [] kind = "nonce" -> copy_from_buf(r, NonceSize)
      [] kind = "chain" -> deserialize_chain(r)
      [] kind = "blobs" -> copy_counted(r, UINT32_MAX, copy_size_and_data_from_buf)
      [] kind = "params" -> copy_counted(r, kMaxSharingParams, deserialize_params)
      [] kind = "set" -> deserialize_set(r)

FieldSize(kind, val) == Len(append_field(NewWriter(Base ^ Size64), kind, val).cells)

Indices(s) == [i \in 1 .. Len(s) |-> i]

\* Serialize() into a destination with that much room: a response starts with its
\* error, and is only that if there is one.
SerializeMessage(m, v, value, room) ==
    LET layout == IF value.error # OK THEN <<>> ELSE NonErrorLayout(m, v)
        start == IF IsResponse(m) THEN append_uint32_to_buf(NewWriter(room), value.error)
                 ELSE NewWriter(room)
    IN FoldLeft(LAMBDA w, i : append_field(w, layout[i], value.fields[i]), start, Indices(layout)).cells

SerializedSize(m, v, value) ==
    LET layout == NonErrorLayout(m, v)
        fields == IF value.error # OK THEN {} ELSE SizedFields(m, v)
    IN FoldLeft(LAMBDA n, i : IF i \in fields THEN n + FieldSize(layout[i], value.fields[i]) ELSE n,
                IF IsResponse(m) THEN Size32 ELSE 0, Indices(layout))

CopyFields(layout, r) ==
    FoldLeft(LAMBDA acc, kind : IF acc.ok THEN Extended(acc, copy_field(acc.rest, kind)) ELSE acc,
             Got(<<>>, r), layout)

\* A slip: what follows the error of a failed response is expected on the wire.
DeserializeMessageIgnoringError(m, v, r) ==
    LET Whole(error, fields) == [ok |-> fields.ok, error |-> error, fields |-> fields.val]
        Rest(error) == IF error.ok THEN Whole(error.val, CopyFields(NonErrorLayout(m, v), error.rest))
                       ELSE [ok |-> FALSE]
    IN Rest(IF IsResponse(m) THEN copy_uint32_from_buf(r) ELSE Got(OK, r))

DeserializeMessage(m, v, r) ==
    LET Whole(fields) == IF fields.ok THEN [ok |-> TRUE, error |-> OK, fields |-> fields.val]
                         ELSE [ok |-> FALSE]
        Rest(error) ==
            IF ~error.ok THEN [ok |-> FALSE]
            ELSE IF error.val # OK THEN [ok |-> TRUE, error |-> error.val, fields |-> <<>>]
            ELSE Whole(CopyFields(NonErrorLayout(m, v), error.rest))
    IN Rest(IF IsResponse(m) THEN copy_uint32_from_buf(r) ELSE Got(OK, r))

-----------------------------------------------------------------------------
(* Versions.                                                                *)

MessageVersion(version) ==
    CASE version = "KEYMASTER_1" -> 1
      [] version = "KEYMASTER_1_1" -> 2
      [] version \in {"KEYMASTER_2", "KEYMASTER_3", "KEYMASTER_4", "KEYMASTER_4_1"} -> 3
      [] version \in {"KEYMINT_1", "KEYMINT_2", "KEYMINT_3"} -> 4

\* The client's side of GetVersion.
NegotiateFromGetVersion(major, minor) ==
    CASE major = 1 /\ minor = 0 -> MessageVersion("KEYMASTER_1")
      [] major = 1 /\ minor = 1 -> MessageVersion("KEYMASTER_1_1")
      [] major = 2 -> MessageVersion("KEYMASTER_2")
      [] major = 3 -> MessageVersion("KEYMASTER_3")
      [] major = 4 /\ minor = 0 -> MessageVersion("KEYMASTER_4")
      [] major = 4 /\ minor = 1 -> MessageVersion("KEYMASTER_4_1")
      [] OTHER -> -1

NegotiateMessageVersion(request_max, response_max) ==
    IF request_max < response_max THEN request_max ELSE response_max

-----------------------------------------------------------------------------
(* What is sent: every field full, every field empty, every second field    *)
(* full, and counted fields one past their limit.  Fields of one kind get   *)
(* different values.                                                        *)

Patterns == {"full", "empty", "mixed", "over"}

Sample(kind, i, pattern) ==
    LET full == pattern \in {"full", "over"} \/ (pattern = "mixed" /\ i % 2 = 1)
        blob == IF full THEN <<i % Base, 1>> ELSE <<>>
        Many(max, one) == [j \in 1 .. (IF ~full THEN 0 ELSE IF pattern = "over" THEN max + 1 ELSE max) |-> one]
    IN CASE kind = "u8" -> IF full THEN 1 ELSE 0
         [] kind = "u32" -> IF full THEN i ELSE 0
         [] kind = "error" -> OK
         [] kind = "u64" -> IF full THEN UINT32_MAX + i ELSE 0
         [] kind \in {"blob", "collection"} -> blob
         [] kind = "array" -> IF full THEN <<i, 2>> ELSE <<>>
         [] kind = "version" -> <<i, 0, 1>>
         [] kind = "nonce" -> [j \in 1 .. NonceSize |-> i % Base]
         [] kind = "chain" -> Many(kMaxChainEntryCount, blob)
         [] kind = "blobs" -> Many(2, blob)
         [] kind = "params" ->
               Many(kMaxSharingParams, [seed |-> blob, nonce |-> [j \in 1 .. NonceSize |-> 2]])
         [] kind = "set" -> [indirect |-> blob, elems |-> IF full THEN <<1, 0>> ELSE <<>>]

Value(m, v, pattern, error) ==
    LET layout == NonErrorLayout(m, v)
    IN [error |-> error,
        fields |-> IF error # OK THEN <<>>
                   ELSE [i \in 1 .. Len(layout) |-> Sample(layout[i], i, pattern)]]

-----------------------------------------------------------------------------
Init ==
    /\ km_version \in KmVersions
    /\ message_version = kDefaultMessageVersion
    /\ client_version = NONE /\ negotiated = NONE
    /\ packet = NONE /\ received = NONE

\* AndroidKeymaster::GetVersion2 for a client that knows versions up to client_max;
\* the client then takes the same minimum.
GetVersion2(client_max) ==
    /\ packet = NONE
    /\ LET max_message_version == MessageVersion(km_version)
       IN /\ message_version' = NegotiateMessageVersion(client_max, max_message_version)
          /\ client_version' = NegotiateMessageVersion(client_max, max_message_version)
    /\ negotiated' = "GetVersion2"
    /\ UNCHANGED <<km_version, packet, received>>

\* AndroidKeymaster::GetVersion, for a client without GetVersion2.
GetVersion ==
    /\ packet = NONE
    /\ client_version' = NegotiateFromGetVersion(2, 0)
    /\ negotiated' = "GetVersion"
    /\ UNCHANGED <<km_version, message_version, packet, received>>

\* A request from the client or a response from the server, in a buffer of
\* SerializedSize() cells or of fewer.
Send(m, pattern, error) ==
    /\ client_version # NONE /\ packet = NONE
    /\ ~IsResponse(m) => error = OK
    /\ LET v == IF IsResponse(m) THEN message_version ELSE client_version
           value == Value(m, v, pattern, error)
           size == SerializedSize(m, v, value)
       IN \E room \in 0 .. size :
             packet' = [m |-> m, v |-> v, value |-> value, size |-> size, room |-> room,
                        cells |-> SerializeMessage(m, v, value, room)]
    /\ UNCHANGED <<km_version, message_version, client_version, negotiated, received>>

Receive ==
    /\ packet # NONE /\ received = NONE
    /\ \E v \in {IF IsResponse(packet.m) THEN client_version ELSE message_version} :
           received' = DeserializeMessage(packet.m, v, packet.cells)
    /\ UNCHANGED <<km_version, message_version, client_version, negotiated, packet>>

\* The message has been dealt with.
Done ==
    /\ received # NONE
    /\ packet' = NONE /\ received' = NONE
    /\ UNCHANGED <<km_version, message_version, client_version, negotiated>>

Next ==
    \/ \E client_max \in 1 .. kMaxMessageVersion : GetVersion2(client_max)
    \/ GetVersion
    \/ \E m \in Messages, pattern \in Patterns, error \in {OK, 5} : Send(m, pattern, error)
    \/ Receive
    \/ Done

Spec == Init /\ [][Next]_vars

-----------------------------------------------------------------------------
MessagesTypeOK ==
    /\ km_version \in KmVersions
    /\ message_version \in 0 .. kMaxMessageVersion
    /\ client_version \in 0 .. kMaxMessageVersion \cup {NONE}
    /\ packet # NONE => packet.cells \in Seq(Cell) /\ Len(packet.cells) <= packet.room
    /\ received # NONE => received.ok \in BOOLEAN

\* No counted field is past the limit its reader has for it.
WithinLimits(p) ==
    LET layout == NonErrorLayout(p.m, p.v)
    IN \A i \in DOMAIN p.value.fields :
          /\ layout[i] = "chain" => Len(p.value.fields[i]) <= kMaxChainEntryCount
          /\ layout[i] = "params" => Len(p.value.fields[i]) <= kMaxSharingParams

ReaderVersion == IF IsResponse(packet.m) THEN client_version ELSE message_version

\* A message given the SerializedSize() bytes it asks for reaches the other side as
\* it was sent, at every version two sides settle on with GetVersion2.
Understood ==
    (received # NONE /\ packet.room = packet.size /\ negotiated = "GetVersion2" /\ WithinLimits(packet))
        => received = [ok |-> TRUE, error |-> packet.value.error, fields |-> packet.value.fields]

\* A message whose buffer was too small for it (the append functions drop what does
\* not fit and go on with the next field) is refused by Deserialize: the fields
\* that did fit are never taken for a message.
ShortIsRefused ==
    (received # NONE /\ packet.room < packet.size /\ ReaderVersion = packet.v) => ~received.ok

\* SerializedSize() is the number of bytes Serialize() writes.
SizeIsExact ==
    packet # NONE =>
        Len(SerializeMessage(packet.m, packet.v, packet.value, Base ^ Size64)) = packet.size

\* When the two sides do not use the same version (an old client with GetVersion), a
\* reader either knows a prefix of the fields and reads exactly those, or refuses
\* the message: it never reads one field as another.
SkewIsSafe ==
    (received # NONE /\ received.ok /\ packet.room = packet.size) =>
        /\ received.error = packet.value.error
        /\ IsPrefix(received.fields, packet.value.fields)
=============================================================================
