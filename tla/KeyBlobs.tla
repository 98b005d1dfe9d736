------------------------------ MODULE KeyBlobs ------------------------------
(***************************************************************************)
(* The key blob formats: integrity-assured blobs, the five formats of      *)
(* authenticated encryption, the bare keys of old softkeymaster devices,   *)
(* and the order in which a context tries them.                            *)
(* A software context makes integrity-assured blobs and still reads the    *)
(* two other kinds, of earlier releases; a context with a                  *)
(* SecureDeletionSecretStorage mixes the secrets kept there into the key   *)
(* that encrypts the blob.                                                 *)
(*                                                                         *)
(* A blob is the sequence of its serialized fields.  A field that is read  *)
(* as one of another kind or length is refused.  Ciphertexts, tags and     *)
(* derived keys are terms.                                                 *)
(***************************************************************************)
EXTENDS Naturals, Sequences

CONSTANTS
    Makes,          \* the blobs there are: [context, format, algorithm, hidden]
    Lists,          \* authorization lists
    HiddenSets,     \* hidden authorizations (application id and data, root of trust)
    Slots,          \* slots of the secure deletion storage
    MaxBlobs, MaxSecrets

VARIABLES
    context,        \* "soft" or "storage": which kind of context this is
    made,           \* the blobs made so far, with all that went into them
    storage,        \* the storage: [reset: factory reset secret, slots: slot -> secret, fresh]
    parse_result    \* the last parse: [key, hidden]

blobVars == <<context, made, storage, parse_result>>

AES_OCB == 0
AES_GCM_WITH_SW_ENFORCED == 1
AES_GCM_WITH_SECURE_DELETION == 2
AES_GCM_WITH_SW_ENFORCED_VERSIONED == 3
AES_GCM_WITH_SECURE_DELETION_VERSIONED == 4
AuthEncryptedBlobFormat == AES_OCB .. AES_GCM_WITH_SECURE_DELETION_VERSIONED
INTEGRITY == 9      \* names the other kind of blob; its version byte is BLOB_VERSION
OLD == 8            \* names the blobs of old softkeymaster devices
BLOB_VERSION == 0

\* A context with a storage makes encrypted blobs only.
ASSUME KeyBlobsAssumption ==
    /\ MaxBlobs \in Nat /\ Slots \subseteq Nat \ {0}
    /\ \A m \in Makes : m.format \in AuthEncryptedBlobFormat \/ (m.context = "soft" /\ m.format \in {INTEGRITY, OLD})

requiresSecureDeletion(f) == f \in {AES_GCM_WITH_SECURE_DELETION, AES_GCM_WITH_SECURE_DELETION_VERSIONED}
isVersionedFormat(f) == f \in {AES_GCM_WITH_SW_ENFORCED_VERSIONED, AES_GCM_WITH_SECURE_DELETION_VERSIONED}

MASTER_KEY == "master"
NoSecret == 0
Field(kind, val) == [kind |-> kind, val |-> val]
Byte(n) == Field("byte", <<"byte", n>>)
Word(n) == Field("word", <<"word", n>>)
ListField(l) == Field("list", <<"list", l>>)
Invalid == [ok |-> FALSE, material |-> NoSecret, hw |-> "", sw |-> ""]
KeyOf(material, hw, sw) == [ok |-> TRUE, material |-> material, hw |-> hw, sw |-> sw]
Idle == [key |-> Invalid, hidden |-> ""]

-----------------------------------------------------------------------------
(* Integrity-assured blobs. *)

ComputeHmac(data, hidden) == Field("mac", <<"mac", data, hidden>>)
SerializeIntegrityAssuredBlob(material, hidden, hw, sw) ==
    LET data == <<Byte(BLOB_VERSION), Field("bytes", <<"material", material>>), ListField(hw), ListField(sw)>>
    IN Append(data, ComputeHmac(data, hidden))

DeserializeIntegrityAssuredBlob_NoHmacCheck(blob) ==
    LET kinds == <<"byte", "bytes", "list", "list">>
    IN IF Len(blob) > Len(kinds) /\ blob[1] = Byte(BLOB_VERSION) /\ \A i \in DOMAIN kinds : blob[i].kind = kinds[i]
       THEN KeyOf(blob[2].val[2], blob[3].val[2], blob[4].val[2])
       ELSE Invalid
\* A slip of DeserializeIntegrityAssuredBlob: the hidden authorizations are not part of the check.
HiddenNotChecked(blob, hidden) ==
    IF \E h \in HiddenSets : blob[Len(blob)] = ComputeHmac(SubSeq(blob, 1, Len(blob) - 1), h)
    THEN DeserializeIntegrityAssuredBlob_NoHmacCheck(blob) ELSE Invalid
DeserializeIntegrityAssuredBlob(blob, hidden) ==
    IF blob[Len(blob)] = ComputeHmac(SubSeq(blob, 1, Len(blob) - 1), hidden)
    THEN DeserializeIntegrityAssuredBlob_NoHmacCheck(blob)
    ELSE Invalid

-----------------------------------------------------------------------------
(* Authenticated encryption. *)

\* A slip of BuildDerivationInfo: the secrets are left out.
InfoWithoutSecrets(f, hw, sw, hidden, data) == <<1, hidden, hw, sw>>
BuildDerivationInfo(f, hw, sw, hidden, data) ==
    IF requiresSecureDeletion(f) THEN <<2, hidden, hw, sw, data.reset, data.secret, data.slot>>
    ELSE <<1, hidden, hw, sw>>
BuildDerivationData(hw, sw, hidden) == <<hidden, hw, sw>>

DeriveAesGcmKeyEncryptionKey(f, hw, sw, hidden, data, master) ==
    <<"gcm", master, BuildDerivationInfo(f, hw, sw, hidden, data)>>
InitializeKeyWrappingContext(hw, sw, hidden, master) == <<"ocb", master, BuildDerivationData(hw, sw, hidden)>>
Kek(f, hw, sw, hidden, data, master) ==
    IF f = AES_OCB THEN InitializeKeyWrappingContext(hw, sw, hidden, master)
    ELSE DeriveAesGcmKeyEncryptionKey(f, hw, sw, hidden, data, master)

\* AesGcmEncryptKey, OcbEncryptKey and their inverses.  Nonces are fresh.
Seal(kek, nonce, material) ==
    [nonce |-> Field("nonce", <<"nonce", nonce>>), ciphertext |-> Field("bytes", <<"ciphertext", kek, nonce, material>>),
     tag |-> Field("tag", <<"tag", kek, nonce, material>>)]
Unseals(kek, e, material) == e = Seal(kek, e.nonce.val[2], material)
EncryptKey(material, f, hw, sw, hidden, data, master, nonce) ==
    Seal(Kek(f, hw, sw, hidden, data, master), nonce, material)

\* The order of the fields, and which of them a format has.
Layout(f, head, versions, lists, slot) ==
    head \o (IF isVersionedFormat(f) THEN versions ELSE <<>>) \o lists
         \o (IF requiresSecureDeletion(f) THEN <<slot>> ELSE <<>>)
SerializeAuthEncryptedBlob(f, e, kdf_version, hw, sw, slot) ==
    Layout(f, <<Byte(f), e.nonce, e.ciphertext, e.tag>>, <<Word(kdf_version), Word(0)>>,
           <<ListField(hw), ListField(sw)>>, Word(slot))

Kinds(f) == Layout(f, <<"byte", "nonce", "bytes", "tag">>, <<"word", "word">>, <<"list", "list">>, "word")
ReadsAs(blob, f) ==
    Len(blob) = Len(Kinds(f)) /\ blob[1] = Byte(f) /\ \A i \in DOMAIN blob : blob[i].kind = Kinds(f)[i]
DeserializeAuthEncryptedBlob(blob, f) ==
    LET lists == IF isVersionedFormat(f) THEN 6 ELSE 4
    IN [e |-> [nonce |-> blob[2], ciphertext |-> blob[3], tag |-> blob[4]],
        hw |-> blob[lists + 1].val[2], sw |-> blob[lists + 2].val[2],
        slot |-> IF requiresSecureDeletion(f) THEN blob[Len(blob)].val[2] ELSE 0]

DecryptKey(k, f, hidden, data, master) ==
    LET kek == Kek(f, k.hw, k.sw, hidden, data, master)
        found == {m \in 1..MaxBlobs : Unseals(kek, k.e, m)}
    IN IF found = {} THEN Invalid ELSE KeyOf(CHOOSE m \in found : TRUE, k.hw, k.sw)

-----------------------------------------------------------------------------
(* Blobs of old softkeymaster devices: a header, the public key, the private key. *)

OldBlob(material, a) ==
    <<Field("magic", <<"PK#8">>), Field("word", <<"type", a>>), Field("bytes", <<"public", material>>),
      Field("bytes", <<"material", material>>)>>
\* The default authorizations: the lists of RSA and EC keys both say RSA.
DEFAULTS == "defaults_RSA"
FakeKeyAuthorizations(a) == DEFAULTS
\* The bytes of the private key must decode as a key of the type in the header; more may follow.
ParseOldSoftkeymasterBlob(blob) ==
    LET kinds == <<"magic", "word", "bytes", "bytes">>
    IN IF /\ Len(blob) >= Len(kinds) /\ \A i \in DOMAIN kinds : blob[i].kind = kinds[i]
          /\ blob[4].val[1] = "material" /\ blob[2].val = <<"type", made[blob[4].val[2]].algorithm>>
       THEN KeyOf(blob[4].val[2], "", FakeKeyAuthorizations(blob[2].val[2]))
       ELSE Invalid

-----------------------------------------------------------------------------
(* Contexts. *)

\* SecureDeletionData(): nothing; the storage's GetDataForKey.
NoData == [reset |-> NoSecret, secret |-> NoSecret, slot |-> 0]
GetDataForKey(slot) ==
    [reset |-> storage.reset, secret |-> IF slot \in Slots THEN storage.slots[slot] ELSE NoSecret, slot |-> slot]

ParseAuthEncryptedBlob(blob, hidden) ==
    LET readable == {f \in AuthEncryptedBlobFormat : ReadsAs(blob, f)}
        f == CHOOSE g \in readable : TRUE
        k == DeserializeAuthEncryptedBlob(blob, f)
    IN IF readable = {} THEN Invalid
       ELSE DecryptKey(k, f, hidden, IF context = "soft" THEN NoData ELSE GetDataForKey(k.slot), MASTER_KEY)

\* AsymmetricKeyFactory::LoadKey, of the factory for the algorithm in the lists: the bytes must decode
\* as a key of that algorithm.  The lists of all other blobs state the algorithm of their key.
LoadKey(k) == IF k.ok /\ made[k.material].algorithm # "RSA" THEN Invalid ELSE k

\* ParseKeyBlob tries the formats in order and stops at the first that is not INVALID_KEY_BLOB.
ParseKeyBlob(blob, hidden) ==
    LET assured == DeserializeIntegrityAssuredBlob(blob, hidden)
        decrypted == ParseAuthEncryptedBlob(blob, hidden)
    IN IF context = "soft" /\ assured.ok THEN assured
       ELSE IF decrypted.ok THEN decrypted
       ELSE IF context = "soft" THEN LoadKey(ParseOldSoftkeymasterBlob(blob))
       ELSE Invalid

\* A fresh secret goes in an unused slot, if it is asked for and there is one.
Unused == {s \in Slots : storage.slots[s] = NoSecret}
NewSlots(f) == IF ~requiresSecureDeletion(f) \/ context = "soft" \/ Unused = {} THEN {0} ELSE Unused \cup {0}

CreateDataForNewKey(slot) ==
    IF context = "soft" THEN NoData
    ELSE [reset |-> storage.reset, secret |-> IF slot = 0 THEN NoSecret ELSE storage.fresh, slot |-> slot]
StoreSecret(slot) ==
    IF slot = 0 THEN storage
    ELSE [storage EXCEPT !.slots[slot] = storage.fresh, !.fresh = @ + 1]

\* The n-th blob, with all that goes into it.
NewBlob(n, f, a, hw, sw, hidden, data) ==
    [material |-> n, algorithm |-> a, format |-> f, hidden |-> hidden, data |-> data,
     hw |-> IF f = OLD THEN "" ELSE hw, sw |-> IF f = OLD THEN DEFAULTS ELSE sw,
     blob |-> IF f = OLD THEN OldBlob(n, a)
              ELSE IF f = INTEGRITY THEN SerializeIntegrityAssuredBlob(n, hidden, hw, sw)
              ELSE SerializeAuthEncryptedBlob(f, EncryptKey(n, f, hw, sw, hidden, data, MASTER_KEY, n), 0, hw, sw, data.slot)]

CreateKeyBlob(f, a, hw, sw, hidden) ==
    /\ parse_result = Idle /\ Len(made) < MaxBlobs
    /\ \E slot \in NewSlots(f) :
       /\ slot = 0 \/ storage.fresh <= MaxSecrets
       /\ storage' = StoreSecret(slot)
       /\ made' = Append(made, NewBlob(Len(made) + 1, f, a, hw, sw, hidden, CreateDataForNewKey(slot)))
    /\ UNCHANGED <<context, parse_result>>

\* What can become of a blob between two calls: nothing; one of its fields is that of another blob;
\* it is cut or has a field too many; it was written again in another format.
MadeFields == UNION {{made[n].blob[i] : i \in DOMAIN made[n].blob} : n \in DOMAIN made}
Rewritten(b, f) ==
    LET k == DeserializeAuthEncryptedBlob(b.blob, b.format)
    IN SerializeAuthEncryptedBlob(f, k.e, 1, k.hw, k.sw, k.slot)
Delivered(b) ==
    {b.blob, SubSeq(b.blob, 1, Len(b.blob) - 1)}
    \cup {[b.blob EXCEPT ![i] = x] : i \in DOMAIN b.blob, x \in MadeFields}
    \cup {Append(b.blob, x) : x \in MadeFields}
    \cup (IF b.format \in {INTEGRITY, OLD} THEN {} ELSE {Rewritten(b, f) : f \in AuthEncryptedBlobFormat})

ParseDelivered(blob, hidden) ==
    /\ parse_result' = [key |-> ParseKeyBlob(blob, hidden), hidden |-> hidden]
    /\ UNCHANGED <<context, made, storage>>

\* DeleteKey and DeleteAllKeys of the storage.
DeleteKey(slot) ==
    /\ parse_result = Idle /\ storage.slots[slot] # NoSecret
    /\ storage' = [storage EXCEPT !.slots[slot] = NoSecret]
    /\ UNCHANGED <<context, made, parse_result>>
DeleteAllKeys ==
    /\ parse_result = Idle /\ context = "storage" /\ storage.fresh <= MaxSecrets
    /\ storage' = [reset |-> storage.fresh, slots |-> [s \in Slots |-> NoSecret], fresh |-> storage.fresh + 1]
    /\ UNCHANGED <<context, made, parse_result>>

Forget == parse_result # Idle /\ parse_result' = Idle /\ UNCHANGED <<context, made, storage>>

BlobsInit ==
    /\ context \in {"soft", "storage"} /\ made = <<>> /\ parse_result = Idle
    /\ storage = [reset |-> 1, slots |-> [s \in Slots |-> NoSecret], fresh |-> 2]

BlobsNext ==
    \/ \E m \in Makes, hw \in Lists, sw \in Lists :
        m.context = context /\ CreateKeyBlob(m.format, m.algorithm, hw, sw, m.hidden)
    \/ /\ parse_result = Idle
       /\ \E n \in DOMAIN made, hidden \in HiddenSets : \E blob \in Delivered(made[n]) : ParseDelivered(blob, hidden)
    \/ \E slot \in Slots : DeleteKey(slot)
    \/ DeleteAllKeys
    \/ Forget

BlobsSpec == BlobsInit /\ [][BlobsNext]_blobVars

-----------------------------------------------------------------------------
\* What any parse accepts is a key that was made, with the authorization lists and the
\* hidden authorizations it was made with: no field of a blob can be exchanged.  Only blobs
\* of old softkeymaster devices, which have neither lists nor a check, are read by what they
\* hold, with the default authorizations.
ParsedAsMade ==
    parse_result.key.ok /\ parse_result.key.sw # DEFAULTS => \E n \in DOMAIN made :
        /\ made[n].material = parse_result.key.material
        /\ made[n].hw = parse_result.key.hw /\ made[n].sw = parse_result.key.sw
        /\ made[n].hidden = parse_result.hidden

Destroyed(b) ==
    /\ context = "storage" /\ requiresSecureDeletion(b.format)
    /\ b.data.reset # storage.reset \/ (b.data.slot # 0 /\ storage.slots[b.data.slot] # b.data.secret)

\* "once the secure deletion secrets associated with a key blob are destroyed, the key blob
\* can never be decrypted again": not after the slot is given to another key, nor as a blob
\* of another format.
DeletedStaysDeleted ==
    parse_result = Idle => \A n \in DOMAIN made, hidden \in HiddenSets : Destroyed(made[n]) =>
        \A blob \in Delivered(made[n]) : ParseKeyBlob(blob, hidden).material # made[n].material

\* A blob as it was made is read back as the key it holds for as long as its secrets exist:
\* trying the formats in order, none that comes before takes it for its own or stops the
\* search.  Of the keys of old devices this holds of RSA keys: EC keys are taken for RSA keys
\* and refused.
IntactBlobsParse ==
    parse_result = Idle => \A n \in DOMAIN made :
        LET b == made[n]
        IN ~Destroyed(b) /\ (b.format = OLD => b.algorithm = "RSA")
           => ParseKeyBlob(b.blob, b.hidden) = KeyOf(b.material, b.hw, b.sw)

\* What any parse of a blob accepts is a key that was made, with the lists and the hidden
\* authorizations it was made with; and a blob as it was made is read back as the key it
\* holds for as long as its secrets exist.
BlobsReadAsMade == ParsedAsMade /\ IntactBlobsParse
=============================================================================
