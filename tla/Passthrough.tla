----------------------------- MODULE Passthrough -----------------------------
(***************************************************************************)
(* AndroidKeymaster3Device on top of a keymaster1 or keymaster2 hardware   *)
(* module: the passthrough contexts, engine, keys and operations, and for  *)
(* keymaster1 the arbitration (Keymaster1LegacySupport,                    *)
(* Keymaster1ArbitrationFactory) that decides per key whether an operation *)
(* is passed to the hardware, digested in software around the hardware, or *)
(* done in software altogether.                                            *)
(*                                                                         *)
(* What a wrapped operation computes is the subject of SoftKeymasterDevice;*)
(* here it is one hardware operation that its destructor aborts.           *)
(***************************************************************************)
EXTENDS Naturals, Sequences, FiniteSets

CONSTANTS
    NONE,
    HwDigests,      \* digests of each hardware: device -> <<algorithm, purpose>> -> set
    FullDigests,    \* full_digest_list
    FailedQueries,  \* which get_supported_digests query of a factory may fail (0: none does)
    Descriptions,   \* [algorithm, purposes, digests, curve, size]
    HwSlots,        \* operations the hardware can hold
    TableSize,      \* kOperationTableSize
    MaxVersion,     \* bound on the OS patch level
    MaxInput        \* bound on the blocks of one operation

Algorithms == {"RSA", "EC", "HMAC", "AES", "TRIPLE_DES"}
Asymmetric == {"RSA", "EC"}
Queries == <<<<"RSA", "SIGN">>, <<"RSA", "VERIFY">>, <<"EC", "SIGN">>, <<"EC", "VERIFY">>,
             <<"HMAC", "SIGN">>, <<"HMAC", "VERIFY">>, <<"RSA", "ENCRYPT">>, <<"RSA", "DECRYPT">>>>

\* All hardware has SHA256 and signs what was digested before; keymaster2 hardware has all digests.
ASSUME PassthroughAssumption ==
    /\ FailedQueries \subseteq Nat /\ 0 \in FailedQueries
    /\ DOMAIN HwDigests = {"km1", "km2"}
    /\ \A m \in {"km1", "km2"} :
        /\ DOMAIN HwDigests[m] = {Queries[i] : i \in DOMAIN Queries}
        /\ \A q \in DOMAIN HwDigests[m] : {"NONE", "SHA256"} \subseteq HwDigests[m][q]
    /\ \A q \in DOMAIN HwDigests["km2"] : FullDigests \subseteq HwDigests["km2"][q]
    /\ \A d \in Descriptions : d.algorithm \in Algorithms /\ d.digests \subseteq FullDigests \cup {"NONE"}

VARIABLES
    device,         \* the hardware: "km1" or "km2"
    version,        \* os_patchlevel_ of the context
    factories,      \* factories_: algorithm -> what its Keymaster1LegacySupport learnt, or NONE
    key,            \* the blob the client holds, or NONE
    hw,             \* operations open in the hardware: handle -> operation
    table,          \* OperationTable: handle -> operation
    client,         \* what the clients asked: handle -> request and data taken so far
    result          \* answer to the last call, or NONE

vars == <<device, version, factories, key, hw, table, client, result>>
ops == <<hw, table, client>>

HwHandles == {<<"hw", i>> : i \in 1..HwSlots}
SwHandles == {<<"sw", i>> : i \in 1..TableSize}
Put(f, h, x) == [y \in DOMAIN f \cup {h} |-> IF y = h THEN x ELSE f[y]]
Without(f, h) == [x \in DOMAIN f \ {h} |-> f[x]]
Answer(call, error, about) == [call |-> call, error |-> error, about |-> about]
NoOp == [about |-> "nothing"]
Quiet == result = NONE

-----------------------------------------------------------------------------
(* Arbitration. *)

\* map_digests: the constructor ignores its error, and keeps what was learnt before it.
Answered(failed) == {Queries[i] : i \in {j \in DOMAIN Queries : failed = 0 \/ j < failed}}
map_digests(failed) ==
    [digests |-> [q \in Answered(failed) |-> HwDigests[device][q]],
     all |-> \A q \in Answered(failed) : FullDigests \subseteq HwDigests[device][q],
     complete |-> failed = 0]

\* GetKeyFactory: a factory, with its map, is made when it is first asked for.
GetKeyFactory(a) ==
    IF device = "km1" /\ a = "TRIPLE_DES" THEN {}
    ELSE IF factories[a] # NONE THEN {factories[a]}
    ELSE {map_digests(n) : n \in IF device = "km1" THEN FailedQueries ELSE {0}}

findUnsupportedDigest(f, q, digest, digests) ==
    /\ q \in DOMAIN f.digests
    /\ (digest # "NONE" /\ digest \notin f.digests[q]) \/ ~(digests \subseteq f.digests[q])
requiresSoftwareDigesting(f, q, digest, digests) ==
    q[1] \in {"RSA", "EC", "HMAC"} /\ findUnsupportedDigest(f, q, digest, digests)
\* A slip of RequiresSoftwareDigesting: only the digest of the request is looked at.
RequestedDigestOnly(f, digest, d) ==
    ~f.all /\ \E p \in d.purposes : requiresSoftwareDigesting(f, <<d.algorithm, p>>, digest, {})
RequiresSoftwareDigesting(f, digest, d) ==
    /\ ~f.all
    /\ \/ \E p \in d.purposes : requiresSoftwareDigesting(f, <<d.algorithm, p>>, digest, d.digests)
       \/ d.purposes = {}

\* The generic LoadKey is specialized for RSA and EC, whose keys are asymmetric keys of the
\* software factory even when the operations are passed through.
LoadKey(f, digest, d) ==
    LET inSoftware == device = "km1" /\ RequiresSoftwareDigesting(f, digest, d)
    IN [class |-> IF device = "km1" /\ d.algorithm \in Asymmetric THEN "AsymmetricKey"
                  ELSE IF inSoftware THEN "SymmetricKey" ELSE "PassthroughKey",
        place |-> IF ~inSoftware THEN "passthrough"
                  ELSE IF d.algorithm \in Asymmetric THEN "wrapped" ELSE "software"]

-----------------------------------------------------------------------------
(* Keys. *)

\* A blob: what was asked, who can open it, the digests it authorizes, the patch level it is
\* bound to (none for keymaster1 hardware), and whether its factory knew all digests.
Blob(d, format, digests, f) ==
    [d |-> d, format |-> format, digests |-> digests, complete |-> f.complete,
     version |-> IF format = "hw" /\ device = "km1" THEN NONE ELSE version]
Authorized(k) == [algorithm |-> k.d.algorithm, purposes |-> k.d.purposes, digests |-> k.digests]

\* UpdateToWorkAroundUnsupportedDigests of the RSA and EC keymaster1 factories.
WorkAround(digests) == IF digests \subseteq {"NONE", "SHA256"} THEN digests ELSE digests \cup {"NONE"}

\* GenerateKey of EC keys: keymaster1 hardware knows sizes and no curves, so that the arbitration
\* and EcdsaKeymaster1KeyFactory, either of which may make the key, add the size of the curve.
HwSize(d) == IF d.curve # NONE THEN d.curve ELSE d.size
CurveError(d) ==
    IF d.algorithm # "EC" \/ device = "km2" THEN "OK"
    ELSE IF d.curve # NONE /\ d.size \notin {NONE, d.curve} THEN "INVALID_ARGUMENT"
    ELSE IF HwSize(d) = NONE THEN "UNSUPPORTED_KEY_SIZE"
    ELSE "OK"

\* Keymaster1ArbitrationFactory::GenerateKey, ImportKey; CreateKeyBlob for keys of the software.
Make(f, d) ==
    IF device = "km2" \/ ~RequiresSoftwareDigesting(f, "NONE", d) THEN Blob(d, "hw", d.digests, f)
    ELSE IF d.algorithm \in Asymmetric THEN Blob(d, "hw", WorkAround(d.digests), f)
    ELSE Blob(d, "integrity", d.digests, f)

NewKey(call, d, paramError) ==
    /\ Quiet /\ key = NONE
    /\ IF GetKeyFactory(d.algorithm) = {}
       THEN result' = Answer(call, "UNSUPPORTED_ALGORITHM", NoOp) /\ UNCHANGED <<factories, key>>
       ELSE \E f \in GetKeyFactory(d.algorithm) :
            /\ factories' = [factories EXCEPT ![d.algorithm] = f]
            /\ key' = IF paramError = "OK" THEN Make(f, d) ELSE NONE
            /\ result' = Answer(call, paramError, [d |-> d])
    /\ UNCHANGED <<device, version, ops>>
generateKey(d) == NewKey("generateKey", d, CurveError(d))
importKey(d) == NewKey("importKey", d, "OK")

\* AndroidKeymaster::LoadKey and CheckVersionInfo.
CheckVersionInfo(k) == IF k.version = NONE \/ k.version = version THEN "OK" ELSE "KEY_REQUIRES_UPGRADE"

\* Calls that load the key and answer: getKeyCharacteristics, exportKey (no version check), attestKey.
Loads(call, error, k) ==
    /\ Quiet
    /\ \E f \in GetKeyFactory(k.d.algorithm) :
        /\ factories' = [factories EXCEPT ![k.d.algorithm] = f]
        /\ result' = Answer(call, error, [class |-> LoadKey(f, "NONE", Authorized(k)).class])
    /\ UNCHANGED <<device, version, key, ops>>
getKeyCharacteristics == key # NONE /\ Loads("getKeyCharacteristics", CheckVersionInfo(key), key)
exportKey ==
    key # NONE /\ Loads("exportKey", IF key.d.algorithm \in Asymmetric THEN "OK" ELSE "UNSUPPORTED_KEY_FORMAT", key)
attestKey ==
    /\ key # NONE
    /\ Loads("attestKey", IF CheckVersionInfo(key) # "OK" THEN CheckVersionInfo(key)
                          ELSE IF key.d.algorithm \in Asymmetric THEN "OK" ELSE "INCOMPATIBLE_ALGORITHM", key)

\* UpgradeKeyBlob: keymaster1 hardware keys cannot be upgraded; an up to date blob gives no new one.
upgradeKey ==
    /\ Quiet /\ key # NONE
    /\ IF device = "km1"
       THEN \E f \in GetKeyFactory(key.d.algorithm) : factories' = [factories EXCEPT ![key.d.algorithm] = f]
       ELSE UNCHANGED factories
    /\ IF device = "km1" /\ key.format = "hw"
       THEN result' = Answer("upgradeKey", "INVALID_ARGUMENT", NoOp) /\ UNCHANGED key
       ELSE key' = [key EXCEPT !.version = version] /\ result' = Answer("upgradeKey", "OK", NoOp)
    /\ UNCHANGED <<device, version, ops>>

\* DeleteKey: a blob that looks like the software's is not shown to the hardware, and stays usable.
deleteKey ==
    /\ Quiet /\ key # NONE
    /\ key' = IF key.format = "hw" THEN NONE ELSE key
    /\ result' = Answer("deleteKey", "OK", NoOp)
    /\ UNCHANGED <<device, version, factories, ops>>
deleteAllKeys ==
    /\ Quiet
    /\ key' = IF key # NONE /\ key.format = "hw" THEN NONE ELSE key
    /\ result' = Answer("deleteAllKeys", "OK", NoOp)
    /\ UNCHANGED <<device, version, factories, ops>>

\* A client forgets its key.
Forget == Quiet /\ key # NONE /\ key' = NONE /\ UNCHANGED <<device, version, factories, ops, result>>

\* addRngEntropy reaches the hardware; getHardwareFeatures, destroyAttestationIds change nothing.
addRngEntropy ==
    Quiet /\ result' = Answer("addRngEntropy", "OK", NoOp) /\ UNCHANGED <<device, version, factories, key, ops>>

\* CreateKeymasterDevice: the device is made again, after an update of the system.
CreateKeymasterDevice ==
    /\ Quiet /\ version < MaxVersion
    /\ version' = version + 1
    /\ factories' = [a \in Algorithms |-> NONE]
    /\ hw' = << >> /\ table' = << >> /\ client' = << >>
    /\ UNCHANGED <<device, key, result>>

-----------------------------------------------------------------------------
(* Operations. *)

\* The hardware's begin: what it refuses.
HwBeginError(k, purpose, digest) ==
    LET d == k.d
        q == <<d.algorithm, purpose>>
        used == IF d.algorithm = "HMAC" THEN k.digests ELSE IF d.algorithm \in Asymmetric THEN {digest} ELSE {}
    IN IF k.format # "hw" THEN "INVALID_KEY_BLOB"
       ELSE IF purpose \notin d.purposes THEN "INCOMPATIBLE_PURPOSE"
       ELSE IF ~(used \subseteq k.digests) THEN "INCOMPATIBLE_DIGEST"
       ELSE IF q \in DOMAIN HwDigests[device] /\ ~(used \subseteq HwDigests[device][q]) THEN "UNSUPPORTED_DIGEST"
       ELSE IF Cardinality(DOMAIN hw) = HwSlots THEN "TOO_MANY_OPERATIONS"
       ELSE "OK"

\* GetOperationFactory of the passthrough engine and of the software's factories.
GetOperationFactory(a, place) ==
    IF a = "RSA" THEN {"SIGN", "VERIFY", "ENCRYPT", "DECRYPT"}
    ELSE IF a = "EC" /\ place = "passthrough" THEN {"SIGN", "VERIFY", "ENCRYPT", "DECRYPT", "DERIVE_KEY"}
    ELSE IF a \in {"EC", "HMAC"} THEN {"SIGN", "VERIFY"}
    ELSE {"ENCRYPT", "DECRYPT"}

\* The wrapped operations with the public key need no hardware.
UsesHardware(place, purpose) == place = "passthrough" \/ (place = "wrapped" /\ purpose \in {"SIGN", "DECRYPT"})

\* What Begin meets before the table: the version, the purpose, the digest, the hardware.
BeginError(k, purpose, digest, place) ==
    IF CheckVersionInfo(k) # "OK" THEN CheckVersionInfo(k)
    ELSE IF purpose \notin GetOperationFactory(k.d.algorithm, place) THEN "UNSUPPORTED_PURPOSE"
    ELSE IF place = "wrapped" /\ digest \notin k.digests THEN "INCOMPATIBLE_DIGEST"
    ELSE IF UsesHardware(place, purpose) THEN HwBeginError(k, purpose, IF place = "wrapped" THEN "NONE" ELSE digest)
    ELSE "OK"

\* BeginOperation: the operation is added to the table last.  When that is full, the destructor of
\* a wrapped operation aborts the hardware's; that of a passthrough operation does nothing.
begin(purpose, digest) ==
    /\ Quiet /\ key # NONE
    /\ \E f \in GetKeyFactory(key.d.algorithm) :
       LET place == LoadKey(f, digest, Authorized(key)).place
           error == BeginError(key, purpose, digest, place)
           inHw == UsesHardware(place, purpose)
           full == Cardinality(DOMAIN table) = TableSize
           op == [k |-> key, place |-> place, purpose |-> purpose, digest |-> digest, data |-> <<>>, aad |-> 0,
                  orphan |-> full]
           about == [k |-> key, purpose |-> purpose, digest |-> digest, complete |-> f.complete]
       IN /\ factories' = [factories EXCEPT ![key.d.algorithm] = f]
          /\ IF error # "OK"
             THEN result' = Answer("begin", error, about) /\ UNCHANGED ops
             ELSE \E h \in IF inHw THEN HwHandles \ DOMAIN hw ELSE SwHandles \ DOMAIN table :
                  /\ hw' = IF inHw /\ (~full \/ place = "passthrough") THEN Put(hw, h, op) ELSE hw
                  /\ table' = IF full THEN table ELSE Put(table, h, op)
                  /\ client' = IF full THEN client ELSE Put(client, h, op)
                  /\ result' = Answer("begin", IF full THEN "TOO_MANY_OPERATIONS" ELSE "OK", about)
    /\ UNCHANGED <<device, version, key>>

\* What an operation computes: in the hardware or in the software, from the material it was given.
Material(op) == IF op.place = "software" /\ op.k.format = "hw" THEN <<"blob_of", op.k>> ELSE op.k
Fed(op, blocks, aad) == [op EXCEPT !.data = @ \o blocks, !.aad = @ + aad]
Computed(op) == <<Material(op), op.purpose, op.digest, op.data, op.aad>>
Expected(c, input, aad) == <<c.k, c.purpose, c.digest, c.data \o input, c.aad + aad>>

InHardware(h) == h \in DOMAIN hw
End(h) == table' = Without(table, h) /\ client' = Without(client, h) /\ hw' = Without(hw, h)
\* Associated data comes with AES only, before the message.
AadChoices(h) ==
    IF client[h].k.d.algorithm = "AES" /\ client[h].aad = 0 /\ client[h].data = <<>> THEN {0, 1} ELSE {0}
Blocks(h, n) == [i \in 1..n |-> Len(client[h].data) + i]

\* Update: hardware may take part of the input; software takes it all.
update(h) ==
    /\ Quiet /\ h \in DOMAIN table /\ Len(client[h].data) < MaxInput
    /\ \E aad \in AadChoices(h) :
       \E taken \in IF table[h].place = "passthrough" THEN {0, 1} ELSE {1} :
       \/ /\ hw' = IF InHardware(h) /\ table[h].place = "passthrough"
                   THEN [hw EXCEPT ![h] = Fed(@, Blocks(h, taken), aad)] ELSE hw
          /\ table' = [table EXCEPT ![h] = Fed(@, Blocks(h, taken), aad)]
          /\ client' = [client EXCEPT ![h] = Fed(@, Blocks(h, taken), aad)]
          /\ result' = Answer("update", "OK", NoOp)
       \/ /\ table[h].place = "passthrough"      \* an error of the hardware ends its operation
          /\ End(h) /\ result' = Answer("update", "HW_FAULT", NoOp)
    /\ UNCHANGED <<device, version, factories, key>>

\* KeymasterPassthroughOperation::Finish.  For keymaster1 the input goes through updates, each of
\* which takes some of it; an update that takes nothing aborts the operation.  The associated data
\* is sent with the first call only.
Turns(n) == UNION {[1..m -> 1..n] : m \in 0..n}
Splits(n) == {t \in Turns(n) : n = IF t = << >> THEN 0 ELSE IF Len(t) = 1 THEN t[1] ELSE t[1] + t[2]}
\* A slip of AadSent: the associated data is not erased after an update.
AadEveryCall(aad, turns) == aad * (Len(turns) + 1)
AadSent(aad, turns) == aad
Starve(h) == End(h)

PassedFinish(h, n, aad) ==
    \/ \E turns \in IF device = "km1" THEN Splits(n) ELSE {<<n>>} :
        /\ End(h)
        /\ result' = Answer("finish", "OK",
               [k |-> client[h].k,
                out |-> Computed(Fed(hw[h], Blocks(h, n), AadSent(aad, turns))),
                expected |-> Expected(client[h], Blocks(h, n), aad)])
    \/ device = "km1" /\ n > 0 /\ Starve(h) /\ result' = Answer("finish", "INVALID_INPUT_LENGTH", NoOp)
    \/ End(h) /\ result' = Answer("finish", "HW_FAULT", NoOp)
    \/ /\ device = "km1" /\ n > 0         \* the hardware says it took more than there was
       /\ table' = Without(table, h) /\ client' = Without(client, h) /\ hw' = [hw EXCEPT ![h].orphan = TRUE]
       /\ result' = Answer("finish", "UNKNOWN_ERROR", NoOp)

\* Finish of wrapped and software operations.
OwnFinish(h, n) ==
    \/ /\ End(h)
       /\ result' = Answer("finish", "OK",
              [k |-> client[h].k, out |-> Computed(Fed(table[h], Blocks(h, n), 0)),
               expected |-> Expected(client[h], Blocks(h, n), 0)])
    \/ InHardware(h) /\ End(h) /\ result' = Answer("finish", "HW_FAULT", NoOp)

finish(h) ==
    /\ Quiet /\ h \in DOMAIN table
    /\ \E n \in 0..(MaxInput - Len(client[h].data)) :
        IF table[h].place = "passthrough"
        THEN \E aad \in AadChoices(h) : PassedFinish(h, n, aad)
        ELSE OwnFinish(h, n)
    /\ UNCHANGED <<device, version, factories, key>>

abort(h) ==
    /\ Quiet /\ h \in DOMAIN table
    /\ End(h) /\ result' = Answer("abort", "OK", NoOp)
    /\ UNCHANGED <<device, version, factories, key>>

Collect == result # NONE /\ result' = NONE /\ UNCHANGED <<device, version, factories, key, ops>>

-----------------------------------------------------------------------------
Init ==
    /\ device \in {"km1", "km2"} /\ version = 1 /\ factories = [a \in Algorithms |-> NONE] /\ key = NONE
    /\ hw = << >> /\ table = << >> /\ client = << >> /\ result = NONE

\* HMAC keys have one digest, and requests do not carry it.
DigestsFor(a) == IF a \in Asymmetric THEN {"NONE"} \cup FullDigests ELSE {"NONE"}

Next ==
    \/ \E d \in Descriptions : generateKey(d) \/ importKey(d)
    \/ getKeyCharacteristics \/ exportKey \/ attestKey \/ upgradeKey \/ deleteKey \/ deleteAllKeys \/ Forget
    \/ addRngEntropy
    \/ CreateKeymasterDevice
    \/ key # NONE /\ \E purpose \in key.d.purposes, digest \in DigestsFor(key.d.algorithm) : begin(purpose, digest)
    \/ \E h \in DOMAIN table : update(h) \/ finish(h) \/ abort(h)
    \/ Collect

Spec == Init /\ [][Next]_vars

-----------------------------------------------------------------------------
\* A key that was made while the hardware answered all queries begins an operation for each
\* purpose of its algorithm and each digest it was made for, wherever the arbitration sends
\* it, unless it is to be upgraded or an operation is one too many: GenerateKey, LoadKey and
\* the hardware agree.
AuthorizedUseBegins ==
    result # NONE /\ result.call = "begin" =>
        LET a == result.about
            algorithm == a.k.d.algorithm
        IN /\ a.complete /\ a.k.complete
           /\ a.purpose \in GetOperationFactory(algorithm, "software")
           /\ algorithm \in Asymmetric => a.digest \in a.k.d.digests
           => result.error \in {"OK", "KEY_REQUIRES_UPGRADE", "TOO_MANY_OPERATIONS"}

\* finish() computes what was asked over the whole message, with the key's own material and
\* the associated data once: neither the loop of updates of KeymasterPassthroughOperation nor
\* the choice of the place loses, repeats or replaces anything.
WholeMessageComputed ==
    result # NONE /\ result.call = "finish" /\ result.error = "OK" =>
        (result.about.k.complete => result.about.out = result.about.expected)

\* Every operation open in the hardware is one the operation table leads to, so that finish or
\* abort can end it; the exceptions are a passthrough operation begun when the table was full,
\* and one whose hardware claimed to have taken more input than it was given.
NoOperationLeaks == \A h \in DOMAIN hw : h \in DOMAIN table \/ hw[h].orphan

\* GenerateAttestation of Keymaster1PassthroughContext casts the key it attests to
\* AsymmetricKey: LoadKey gives it one for every RSA and EC key, also when the operations of
\* the key are passed through.
AttestedKeysAreAsymmetric ==
    result # NONE /\ result.call = "attestKey" /\ result.error = "OK" /\ device = "km1" =>
        result.about.class = "AsymmetricKey"

\* A described key is made whenever the algorithm is known and curve and size do not
\* contradict each other, although the hardware knows no curves.
DescribedKeysAreMade ==
    result # NONE /\ result.call = "generateKey" /\ result.error # "UNSUPPORTED_ALGORITHM" =>
        LET d == result.about.d
        IN (d.algorithm = "EC" => d.curve # NONE /\ d.size \in {NONE, d.curve}) => result.error = "OK"

\* A key that was made while the hardware answered all queries begins an operation for each
\* purpose and digest it was made for, wherever the arbitration sends it; every key whose
\* curve and size agree is made; and with keymaster1 every RSA or EC key that
\* GenerateAttestation casts to AsymmetricKey is one.
PassthroughKeysAreUsable == AuthorizedUseBegins /\ DescribedKeysAreMade /\ AttestedKeysAreAsymmetric

\* finish() computes what was asked over the whole message, and every operation open in the
\* hardware is one the operation table leads to, so that it can be ended (the two exceptions
\* are named at NoOperationLeaks).
PassthroughOperationsAreWhole == WholeMessageComputed /\ NoOperationLeaks
=============================================================================
