------------------------------- MODULE MCKeys -------------------------------
(***************************************************************************)
(* Making keys on small instances: what the factories make and load, the   *)
(* blobs that keep it, and the records that attest it.  Each is checked by *)
(* itself: a behaviour moves one of them, and the others stay as they were *)
(* at the start.                                                           *)
(***************************************************************************)
EXTENDS AttestationRecord, KeyBlobs

VARIABLES part,
          key, loaded, result           \* KeyFactories

recordVars == vars
factoryVars == <<key, loaded, result>>

-----------------------------------------------------------------------------
(* AttestationRecord: requests that vary one part of an attestation at a time. *)

Entry(tag, n) == <<tag, IF tag = "ATTESTATION_ID_IMEI" THEN <<n, 0, (10 - n) % 10>> ELSE <<n>>>>

Boot(state, locked) == [state |-> state, key |-> <<5>>, locked |-> locked]

UsualParams == <<<<"ATTESTATION_CHALLENGE", <<7>>>>, <<"ATTESTATION_APPLICATION_ID", <<1>>>>>>

Request(params, sw, tee, level, boot) ==
    [params |-> params, sw |-> sw, tee |-> tee, level |-> level, boot |-> boot]

Usual(sw, tee) == Request(UsualParams, sw, tee, "TRUSTED_ENVIRONMENT", Boot("VERIFIED", TRUE))

\* Every tag, and pairs of tags, equal or not, of the kinds that the builders treat differently.
AllTags == Fields \cup AsnIgnoredTags \cup {"UNKNOWN"}
PairTags == {"PURPOSE", "ALGORITHM", "CREATION_DATETIME", "KEY_SIZE",
             "CALLER_NONCE", "ATTESTATION_APPLICATION_ID", "ATTESTATION_ID_IMEI",
             "ATTESTATION_ID_SECOND_IMEI", "APPLICATION_ID", "STORAGE_KEY", "UNKNOWN"}
RequestLists ==
    {<<>>} \cup {<<Entry(t, 1)>> : t \in AllTags}
    \cup {<<Entry(t, 2), Entry(u, 1)>> : t, u \in PairTags}
    \cup {<<Entry(t, 1), Entry(t, 1)>> : t \in PairTags}

\* EC keys with and without a curve, of each size and an unknown one.
EcLists ==
    {<<<<"ALGORITHM", kEC>>, <<"KEY_SIZE", <<x>>>>>> \o c :
        x \in {100, 224, 256, 384, 521}, c \in {<<>>, <<Entry("EC_CURVE", 4)>>}}

ListRequests ==
    {Usual(l, <<>>) : l \in RequestLists \cup EcLists} \cup {Usual(<<>>, l) : l \in RequestLists \cup EcLists}

\* IMEIs of three digits, with their right and their wrong check digits.
ImeiRequests == {Usual(<<<<"ATTESTATION_ID_IMEI", i>>>>, <<>>) : i \in [1 .. 3 -> {0, 1, 4, 5, 7, 9}]}

Optional(entry) == {<<>>, <<entry>>}

\* Challenges up to and beyond the limit, application ids and dates on both
\* sides of a rotation, with every optional parameter.
ParamRequests ==
    {Request(c \o a \o i \o u \o r, d, <<>>, "TRUSTED_ENVIRONMENT", Boot("VERIFIED", TRUE)) :
        c \in {<<>>} \cup {<<<<"ATTESTATION_CHALLENGE", v>>>> : v \in {<<>>, <<7, 7>>, <<7, 7, 7>>}},
        a \in {<<>>} \cup {<<<<"ATTESTATION_APPLICATION_ID", v>>>> : v \in {<<>>, <<1>>, <<1, 1>>}},
        i \in Optional(Entry("ATTESTATION_ID_SECOND_IMEI", 1)),
        u \in Optional(Entry("INCLUDE_UNIQUE_ID", 1)),
        r \in Optional(Entry("RESET_SINCE_ID_ROTATION", 1)),
        d \in {<<>>} \cup {<<Entry("CREATION_DATETIME", n)>> : n \in {0, 9, 10}}}

\* Contexts of every level and boot state.
ContextRequests ==
    {Request(UsualParams \o u, <<Entry("PURPOSE", 1)>>, <<Entry("ORIGIN", 1)>>, level, boot) :
        u \in Optional(Entry("DEVICE_UNIQUE_ATTESTATION", 1)),
        level \in DOMAIN EatLevel,
        boot \in {NONE} \cup {Boot(s, l) : s \in {"VERIFIED", "SELF_SIGNED", "UNVERIFIED"},
                                        l \in BOOLEAN}}

MCRequests == ListRequests \cup ImeiRequests \cup ParamRequests \cup ContextRequests

-----------------------------------------------------------------------------
(* KeyFactories: one instance for EC keys, one for RSA and symmetric keys. *)

Factories == INSTANCE KeyFactories WITH
    Algorithms <- {}, Curves <- {}, Sizes <- {}, Exponents <- {}, MinMacs <- {}, Digests <- {},
    Purposes <- {}, Materials <- {}, KeyMint <- TRUE

\* EC: a supported curve, one whose size is ambiguous, curve 25519 and an unknown one.
EcCurves == {NONE, "P_224", "P_256", "CURVE_25519", "OTHER"}
EcSizes == {NONE, 224, 255, 256}
EcPurposes == SUBSET {"SIGN", "VERIFY", "AGREE_KEY", "ATTEST_KEY"}
EcMaterials ==
    {Factories!Material("EC", "P_224", 224, NONE), Factories!Material("EC", "P_256", 256, NONE),
     Factories!Material("EC", "OTHER", NONE, NONE), Factories!Material("ED25519", "CURVE_25519", 256, NONE),
     Factories!Material("X25519", "CURVE_25519", 256, NONE), Factories!Material("RSA", NONE, 1024, 3),
     Factories!Material("BYTES", NONE, 256, NONE), Factories!Material("BYTES", NONE, 248, NONE)}

\* RSA and symmetric keys: sizes on and next to the limits of each algorithm.
OtherSizes == {NONE, 8, 16, 64, 112, 128, 1020, 1024, 2056, 4104}
OtherExponents == {NONE, 3, 4}
OtherMacs == {NONE, 56, 64, 100, 160, 168}
OtherDigests == {<<>>, <<"NONE">>, <<"SHA1">>, <<"SHA1", "SHA_2_256">>}
OtherPurposes == {{"SIGN"}, {"ATTEST_KEY", "SIGN"}, {"ENCRYPT", "DECRYPT"}}
OtherMaterials ==
    {Factories!Material("RSA", NONE, 1023, 3), Factories!Material("RSA", NONE, 1024, 3),
     Factories!Material("EC", "P_224", 224, NONE), Factories!Material("BYTES", NONE, 64, NONE),
     Factories!Material("BYTES", NONE, 128, NONE), Factories!Material("BYTES", NONE, 192, NONE),
     Factories!Material("BYTES", NONE, 112, NONE)}

Ec == INSTANCE KeyFactories WITH
    Algorithms <- {"EC"}, Curves <- EcCurves, Sizes <- EcSizes, Exponents <- {NONE},
    MinMacs <- {NONE}, Digests <- {<<>>}, Purposes <- EcPurposes, Materials <- EcMaterials,
    KeyMint <- TRUE
NotEc == INSTANCE KeyFactories WITH
    Algorithms <- {"RSA", "AES", "TRIPLE_DES", "HMAC"}, Curves <- {NONE}, Sizes <- OtherSizes,
    Exponents <- OtherExponents, MinMacs <- OtherMacs, Digests <- OtherDigests,
    Purposes <- OtherPurposes, Materials <- OtherMaterials, KeyMint <- TRUE

-----------------------------------------------------------------------------
(* KeyBlobs: the blobs of a software context, of every format it reads, and *)
(* those of a context with secure deletion storage of one slot.  Only old   *)
(* blobs tell algorithms apart, and they hold no hidden authorizations.     *)

MCMakes ==
    [context : {"soft"}, format : {INTEGRITY, AES_OCB}, algorithm : {"RSA"}, hidden : {"hidden1", "hidden2"}]
    \cup [context : {"soft"}, format : {OLD}, algorithm : {"RSA", "EC"}, hidden : {"hidden1"}]
    \cup [context : {"storage"}, format : AuthEncryptedBlobFormat \ {AES_OCB}, algorithm : {"RSA"}, hidden : {"hidden1"}]

\* The authorization lists are opaque to blobs.
ListSymmetry == Permutations(Lists)

-----------------------------------------------------------------------------

KeysInit ==
    /\ part \in {"records", "ec", "other", "blobs"}
    /\ Init
    /\ Factories!Init
    /\ BlobsInit /\ (part # "blobs" => context = "soft")

KeysNext ==
    /\ UNCHANGED part
    /\ \/ part = "records" /\ Next /\ UNCHANGED <<factoryVars, blobVars>>
       \/ part = "ec" /\ Ec!Next /\ UNCHANGED <<recordVars, blobVars>>
       \/ part = "other" /\ NotEc!Next /\ UNCHANGED <<recordVars, blobVars>>
       \/ part = "blobs" /\ BlobsNext /\ UNCHANGED <<recordVars, factoryVars>>

KeysSpec == KeysInit /\ [][KeysNext]_<<part, recordVars, factoryVars, blobVars>>

-----------------------------------------------------------------------------
(* The properties of the parts.                                              *)

\* Whatever a verifier reads in a record is true of the attested key and of its context;
\* nothing that a format can express is lost between its builder and its parser, an IMEI
\* with its check digit included; and what the builders call private is in no record.
RecordMatchesKey ==
    /\ RecordIsTrueOfTheKey
    /\ ExpressibleIsRead
    /\ EnvelopeIsRead
    /\ ImeiSurvivesWhenIssued
    /\ NothingPrivateLeaves

\* Whatever GenerateKey or ImportKey returned without an error is loaded again without an
\* error, as a key of the class of its material; what its description says is true of the
\* material; and importing the material of a generated key, with a description that
\* leaves out what can be read off it, gives the description GenerateKey stored.
MadeKeysAreUsable ==
    /\ IF part = "ec" THEN Ec!KeyFactoriesTypeOK ELSE NotEc!KeyFactoriesTypeOK
    /\ Factories!MadeKeysLoad
    /\ Factories!DescriptionIsTrueOfMaterial
    /\ Factories!ImportRecoversDescription
=============================================================================
