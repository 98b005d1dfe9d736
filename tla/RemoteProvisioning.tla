-------------------------- MODULE RemoteProvisioning --------------------------
(***************************************************************************)
(* Remote key provisioning: the requests AndroidRemotelyProvisionedComponent *)
(* passes to AndroidKeymaster (GenerateRkpKey, GenerateCsr, GenerateCsrV2),  *)
(* the checks of remote_provisioning_utils, PureSoftRemoteProvisioningContext *)
(* with its lazily made certificate chain (BCC), the boot information it     *)
(* puts into every request, and the COSE messages of cppcose both sides use. *)
(*                                                                           *)
(* Bytes are terms.  The private half of the public key x is x itself, a     *)
(* signature is the tuple of what it was made from, a MAC the pair of its    *)
(* key and its input.  A client passes back keys it was given, possibly      *)
(* damaged, at any time, also after the process was restarted.  AndroidKey-  *)
(* master supports contexts of version 2 and of version 3; the soft one      *)
(* reports 3, and version 2 stands for a context that differs only in that.  *)
(***************************************************************************)
EXTENDS Integers, FiniteSets, Sequences

CONSTANTS
    Versions,          \* versions a context reports; 0 is a device without one
    Damages,           \* what can happen to a key on its way back
    Chains,            \* names of the endpoint certificate chains clients pass
    ChallengeSizes, PatchLevels, BootInfos, Faults,
    MaxKeys, MaxListed, MaxStarts,            \* bounds
    UNSET              \* a value of the boot that was not set yet

ASSUME ProvisioningAssumption == Versions \subseteq Nat /\ MaxKeys \in Nat /\ MaxStarts \in Nat \ {0}
\* A boot state, the state of the bootloader and the digest of the vbmeta partition.
ASSUME BootInfoAssumption == \A b \in BootInfos : b = <<b[1], b[2], b[3]>>

VARIABLES
    version,   \* what the context reports, 0 without a context
    boot,      \* how often the process was started
    config,    \* os_patchlevel_ ... vbmeta_digest_ of PureSoftKeymasterContext
    info,      \* the same of PureSoftRemoteProvisioningContext
    device,    \* devicePrivKey_ and bcc_
    issued,    \* history: the keys handed out, with their mode
    told,      \* history: what production requests of this boot have said
    result     \* the last request and its response

provisioningVars == <<version, boot, config, info, device, issued, told, result>>

kStatusFailed == -1
kStatusInvalidMac == -2
kStatusProductionKeyInTestRequest == -3
kStatusTestKeyInProductionRequest == -4
kStatusInvalidEek == -5
kStatusRemoved == -6
KM_ERROR_OK == 0
kMaxChallengeSizeV2 == 64
kRkpVersionWithoutSuperencryption == 3

-----------------------------------------------------------------------------
(* COSE keys and messages.                                                  *)

CoseKey(curve, x, kid, test) == [curve |-> curve, x |-> x, kid |-> kid, test |-> test]
NoKey == CoseKey("none", <<>>, FALSE, FALSE)

generateCoseMac0Mac(macKey, payload) == <<macKey, payload>>

constructCoseMac0(macKey, payload) ==
    [formed |-> TRUE, algorithm |-> "HMAC_256", payload |-> payload,
     tag |-> generateCoseMac0Mac(macKey, payload)]

verifyAndParseCoseMac0(mac, macKey) ==
    mac.formed /\ mac.algorithm = "HMAC_256" /\ mac.tag = generateCoseMac0Mac(macKey, mac.payload)

\* A key of the wrong length, as the one of a chain not yet made is, cannot sign.
createCoseSign1Signature(key, algorithm, payload, aad) ==
    IF key = <<>> THEN <<>> ELSE <<key, algorithm, aad, payload>>

constructCoseSign1(key, payload, aad) ==
    [formed |-> TRUE, algorithm |-> "EDDSA", payload |-> payload,
     signature |-> createCoseSign1Signature(key, "EDDSA", payload, aad)]

constructECDSACoseSign1(key, payload, aad) ==
    [formed |-> TRUE, algorithm |-> "ES256", payload |-> payload,
     signature |-> createCoseSign1Signature(key, "ES256", payload, aad)]

SigningCurve(algorithm) ==
    CASE algorithm = "EDDSA" -> "ED25519" [] algorithm = "ES256" -> "P256" [] algorithm = "ES384" -> "P384"

\* Whether a COSE_Sign1 verifies; without a signing key it must be signed with its payload.
verifyAndParseCoseSign1(sign1, signingKey, aad) ==
    LET key == IF signingKey = NoKey THEN sign1.payload ELSE signingKey
    IN  /\ sign1.formed
        /\ sign1.algorithm \in {"EDDSA", "ES256", "ES384"}
        /\ sign1.signature # <<>>
        /\ key.curve = SigningCurve(sign1.algorithm)
        /\ sign1.signature = <<key.x, sign1.algorithm, aad, sign1.payload>>

\* A slip: the parties are not told apart by who sends.
ContextUnordered(pubKeyA, pubKeyB, senderIsA) == [sender |-> pubKeyA, recipient |-> pubKeyB]

consructKdfContext(pubKeyA, pubKeyB, senderIsA) ==
    [sender    |-> IF senderIsA THEN pubKeyA ELSE pubKeyB,
     recipient |-> IF senderIsA THEN pubKeyB ELSE pubKeyA]

x25519_HKDF_DeriveKey(pubKeyA, privKeyA, pubKeyB, senderIsA) ==
    [secret |-> {privKeyA, pubKeyB}, context |-> consructKdfContext(pubKeyA, pubKeyB, senderIsA)]

constructCoseEncrypt(key, plaintext, recipient) ==
    [key |-> key, plaintext |-> plaintext, recipient |-> recipient]

buildCertReqRecipients(pubkey, kid) == [sender |-> pubkey, kid |-> kid]

getSenderPubKeyFromCoseEncrypt(coseEncrypt) == coseEncrypt.recipient

\* AES-GCM opens with the key it was closed with.
decryptCoseEncrypt(key, coseEncrypt) ==
    IF key = coseEncrypt.key THEN {coseEncrypt.plaintext} ELSE {}

-----------------------------------------------------------------------------
(* The context.                                                             *)

\* The key of GenerateHmacSha256 is fixed, so that keys made before a restart verify.
ContextMacKey == <<"Key_to_MAC_public_keys", 0>>

getMacFunction(test_mode) == IF test_mode THEN <<"zeros", 0>> ELSE ContextMacKey

\* The hardware bound key is drawn once for each process.
DeriveBytesFromHbk == <<"hbk", boot>>

GenerateBcc(testMode) ==
    LET seed == IF testMode THEN <<"random", 0>> ELSE DeriveBytesFromHbk
        key  == CoseKey("ED25519", seed, FALSE, FALSE)
    IN  [key |-> seed, bcc |-> <<key, constructCoseSign1(seed, key, <<>>)>>]

LazyInitProdBcc == IF device.bcc = <<>> THEN GenerateBcc(FALSE) ELSE device

CreateDeviceInfo(csrVersion) == [info |-> info, version |-> IF csrVersion < 3 THEN csrVersion ELSE 0]

BuildProtectedDataPayload(isTestMode, macKey, aad) ==
    LET d == IF isTestMode THEN GenerateBcc(TRUE) ELSE LazyInitProdBcc
    IN  [sign1 |-> constructCoseSign1(d.key, macKey, aad), bcc |-> d.bcc]

BuildCsr(challenge, keysToSign) ==
    LET d == LazyInitProdBcc
    IN  [bcc |-> d.bcc,
         signedData |-> constructCoseSign1(d.key,
             [challenge |-> challenge, deviceInfo |-> CreateDeviceInfo(3), keys |-> keysToSign], <<>>)]

-----------------------------------------------------------------------------
(* Validation of what clients pass.                                         *)

\* A slip: the mode a key was made for does not matter.
KeyStatusAnyMode(testMode, blob) ==
    CASE ~blob.formed \/ blob.algorithm # "HMAC_256" \/ blob.payload.curve # "P256" -> kStatusFailed
      [] blob.tag # generateCoseMac0Mac(getMacFunction(blob.payload.test), blob.payload) -> kStatusInvalidMac
      [] OTHER -> KM_ERROR_OK

\* The verdict on one maced key of a request.
KeyStatus(testMode, blob) ==
    CASE ~blob.formed \/ blob.algorithm # "HMAC_256" \/ blob.payload.curve # "P256" -> kStatusFailed
      [] testMode /\ ~blob.payload.test -> kStatusProductionKeyInTestRequest
      [] ~testMode /\ blob.payload.test -> kStatusTestKeyInProductionRequest
      [] blob.tag # generateCoseMac0Mac(getMacFunction(testMode), blob.payload) -> kStatusInvalidMac
      [] OTHER -> KM_ERROR_OK

\* The keys in order, or the verdict on the first that is refused.
validateAndExtractPubkeys(testMode, keysToSign) ==
    LET refused == {i \in DOMAIN keysToSign : KeyStatus(testMode, keysToSign[i]) # KM_ERROR_OK}
    IN  IF refused = {}
          THEN [status |-> KM_ERROR_OK, keys |-> [i \in DOMAIN keysToSign |-> keysToSign[i].payload]]
          ELSE [status |-> KeyStatus(testMode, keysToSign[CHOOSE i \in refused : \A j \in refused : i <= j]),
                keys |-> <<>>]

kAuthorizedEekRoots == {<<"ED25519", <<"geek", 0>>>>}

\* A link is checked against the key before it, the first against itself.
LinkVerifies(certs, i) ==
    verifyAndParseCoseSign1(certs[i], IF i = 1 THEN NoKey ELSE certs[i - 1].payload, <<>>)

\* The key the last link of a chain is over.
EekOf(certs) == certs[Len(certs)].payload

\* parseX25519 with a key identifier; an empty chain leaves no key to parse.
EndsInEek(certs) == certs # <<>> /\ EekOf(certs).curve = "X25519" /\ EekOf(certs).kid

validateAndExtractEekPubAndId(testMode, chain) ==
    CASE ~chain.array -> kStatusFailed
      [] \E i \in DOMAIN chain.certs : ~LinkVerifies(chain.certs, i) -> kStatusInvalidEek
      [] /\ ~testMode /\ chain.certs # <<>>
         /\ <<chain.certs[1].payload.curve, chain.certs[1].payload.x>> \notin kAuthorizedEekRoots -> kStatusInvalidEek
      [] ~EndsInEek(chain.certs) -> kStatusInvalidEek
      [] OTHER -> KM_ERROR_OK

-----------------------------------------------------------------------------
(* What clients have to pass.                                               *)

Geek == CoseKey("ED25519", <<"geek", 0>>, FALSE, FALSE)
OtherRoot == CoseKey("P256", <<"root", 0>>, FALSE, FALSE)
Middle == CoseKey("ED25519", <<"middle", 0>>, FALSE, FALSE)
Eek(kid) == CoseKey("X25519", <<"eek", 0>>, kid, FALSE)

\* The endpoint certificate chains: whole ones of two and three links, one of another
\* root, and chains with a link or its end amiss.
EekChain(name) ==
    LET root == constructCoseSign1(Geek.x, Geek, <<>>)
        other == constructECDSACoseSign1(OtherRoot.x, OtherRoot, <<>>)
        certs == CASE name = "two" -> <<root, constructCoseSign1(Geek.x, Eek(TRUE), <<>>)>>
                   [] name = "three" -> <<root, constructCoseSign1(Geek.x, Middle, <<>>),
                                          constructCoseSign1(Middle.x, Eek(TRUE), <<>>)>>
                   [] name = "other_root" -> <<other, constructECDSACoseSign1(OtherRoot.x, Eek(TRUE), <<>>)>>
                   [] name = "broken_link" -> <<root, constructCoseSign1(Middle.x, Eek(TRUE), <<>>)>>
                   [] name = "no_kid" -> <<root, constructCoseSign1(Geek.x, Eek(FALSE), <<>>)>>
                   [] name = "no_eek" -> <<root>>
                   [] OTHER -> <<>>
    IN  [array |-> name # "garbage", certs |-> certs]

\* A key as it was handed out, or with one part damaged.
Damaged(key, damage) ==
    CASE damage = "formed" -> [key EXCEPT !.formed = FALSE]
      [] damage = "algorithm" -> [key EXCEPT !.algorithm = "other"]
      [] damage = "curve" -> [key EXCEPT !.payload.curve = "P384"]
      [] damage = "mode" -> [key EXCEPT !.payload.test = ~@]
      [] damage = "tag" -> [key EXCEPT !.tag = <<<<"zeros", 1>>, key.payload>>]
      [] OTHER -> key
KeyLists == UNION {[1 .. n -> {Damaged(k, d) : k \in issued, d \in Damages}] : n \in 0 .. MaxListed}

-----------------------------------------------------------------------------
(* Requests.  A response is what the client of the device interface sees: a  *)
(* status that is the negated error, and the outputs if that is zero.        *)

Respond(op, error, request, response) ==
    result' = [op |-> op, status |-> -error, request |-> request, response |-> response]
Refuse(op, error) == Respond(op, error, <<>>, <<>>)

getHardwareInfo ==
    /\ Respond("info", IF version = 0 THEN kStatusFailed ELSE KM_ERROR_OK, <<>>, <<version>>)
    /\ UNCHANGED <<version, boot, config, info, device, issued, told>>

GenerateRkpKey(test_mode, fault) ==
    LET key == constructCoseMac0(getMacFunction(test_mode),
                   CoseKey("P256", <<"key", Cardinality(issued)>>, FALSE, test_mode))
        error == CASE version = 0 -> kStatusFailed
                   [] version >= kRkpVersionWithoutSuperencryption /\ test_mode -> kStatusRemoved
                   [] fault = "GenerateKey" -> kStatusFailed
                   [] OTHER -> KM_ERROR_OK
    IN  /\ Cardinality(issued) < MaxKeys
        /\ issued' = IF error = KM_ERROR_OK THEN issued \cup {key} ELSE issued
        /\ Refuse("key", error)
        /\ UNCHANGED <<version, boot, config, info, device, told>>

\* History: what a production request says of the boot, and the chain it carries.
Tell(deviceInfo, bcc) ==
    told' = [f \in DOMAIN told |->
                told[f] \cup (IF f = "bcc" THEN {bcc} ELSE {deviceInfo.info[f]} \ {UNSET})]

\* The chain of the device is made, if it has to be, before the endpoint key is checked.
GenerateCsr(test_mode, keysToSign, chain, challenge, fault) ==
    LET keys == validateAndExtractPubkeys(test_mode, keysToSign)
        ephemeral_mac_key == <<"ephemeral_mac_key", 0>>
        mac == generateCoseMac0Mac(ephemeral_mac_key, keys.keys)
        deviceInfo == CreateDeviceInfo(2)
        payload == BuildProtectedDataPayload(test_mode, ephemeral_mac_key, <<challenge, deviceInfo, mac>>)
        ephemeral == <<"ephemeral", 0>>
        eek == EekOf(chain.certs)
        session == x25519_HKDF_DeriveKey(ephemeral, ephemeral, eek.x, TRUE)
        early == CASE version = 0 -> kStatusFailed
                   [] version >= kRkpVersionWithoutSuperencryption -> kStatusRemoved
                   [] keys.status # KM_ERROR_OK -> keys.status
                   [] fault = "mac_key" -> kStatusFailed
                   [] OTHER -> KM_ERROR_OK
        late == CASE validateAndExtractEekPubAndId(test_mode, chain) # KM_ERROR_OK ->
                         validateAndExtractEekPubAndId(test_mode, chain)
                  [] fault \in {"session_key", "nonce"} -> kStatusFailed
                  [] OTHER -> KM_ERROR_OK
        error == IF early # KM_ERROR_OK THEN early ELSE late
    IN  /\ device' = IF early = KM_ERROR_OK /\ ~test_mode THEN LazyInitProdBcc ELSE device
        /\ IF error # KM_ERROR_OK
             THEN Refuse("csr", error) /\ UNCHANGED told
             ELSE /\ Respond("csr", error,
                        [test |-> test_mode, keys |-> keysToSign, chain |-> chain, challenge |-> challenge],
                        [mac |-> mac, deviceInfo |-> deviceInfo,
                         protectedData |-> constructCoseEncrypt(session, payload,
                                               buildCertReqRecipients(ephemeral, eek.x))])
                  /\ IF test_mode THEN UNCHANGED told ELSE Tell(deviceInfo, payload.bcc)
        /\ UNCHANGED <<version, boot, config, info, issued>>

GenerateCsrV2(keysToSign, challenge) ==
    LET keys == validateAndExtractPubkeys(FALSE, keysToSign)
        csr == BuildCsr(challenge, keys.keys)
        error == CASE challenge > kMaxChallengeSizeV2 -> kStatusFailed
                   [] version = 0 -> kStatusFailed
                   [] OTHER -> keys.status
    IN  /\ IF error # KM_ERROR_OK
             THEN Refuse("csr2", error) /\ UNCHANGED <<device, told>>
             ELSE /\ device' = LazyInitProdBcc
                  /\ Respond("csr2", error, [keys |-> keysToSign, challenge |-> challenge], csr)
                  /\ Tell(csr.signedData.payload.deviceInfo, csr.bcc)
        /\ UNCHANGED <<version, boot, config, info, issued>>

-----------------------------------------------------------------------------
(* Configuration.                                                           *)

\* A value of the boot can be set once; the provisioning context is told of it only then.
SetOnce(field, value, allowed) ==
    /\ IF allowed
         THEN /\ config' = [config EXCEPT ![field] = value]
              /\ info' = IF version = 0 THEN info ELSE [info EXCEPT ![field] = value]
         ELSE UNCHANGED <<config, info>>
    /\ result' = [op |-> field, status |-> IF allowed THEN 0 ELSE 1, request |-> <<>>, response |-> <<>>]
    /\ UNCHANGED <<version, boot, device, issued, told>>

SetSystemVersion(os) == SetOnce("os", os, TRUE)
SetVendorPatchlevel(level) == SetOnce("vendor", level, config.vendor \in {UNSET, level})
SetBootPatchlevel(level) == SetOnce("boot", level, config.boot \in {UNSET, level})

SetVerifiedBootInfo(boot_state, bootloader_state, vbmeta_digest) ==
    SetOnce("verified", <<boot_state, bootloader_state, vbmeta_digest>>,
            config.verified \in {UNSET, <<boot_state, bootloader_state, vbmeta_digest>>})

\* Nothing is set (the os version of PureSoftKeymasterContext is then 0), no chain is made.
Unconfigured == [os |-> UNSET, vendor |-> UNSET, boot |-> UNSET, verified |-> UNSET]
NoDevice == [key |-> <<>>, bcc |-> <<>>]
NothingTold == [vendor |-> {}, boot |-> {}, verified |-> {}, bcc |-> {}]
Idle == [op |-> "none", status |-> 0, request |-> <<>>, response |-> <<>>]

ProvisioningInit ==
    /\ version \in Versions /\ boot = 1 /\ issued = {}
    /\ config = Unconfigured /\ info = Unconfigured
    /\ device = NoDevice /\ told = NothingTold /\ result = Idle

\* The process ends and is started again; clients keep the keys they were given.
ProvisioningRestart ==
    /\ boot < MaxStarts
    /\ boot' = boot + 1
    /\ config' = Unconfigured /\ info' = Unconfigured
    /\ device' = NoDevice /\ told' = NothingTold /\ result' = Idle
    /\ UNCHANGED <<version, issued>>

\* The client takes the response.
Collect ==
    /\ result # Idle
    /\ result' = Idle
    /\ UNCHANGED <<version, boot, config, info, device, issued, told>>

Request ==
    \/ getHardwareInfo
    \/ \E test_mode \in BOOLEAN, fault \in Faults : GenerateRkpKey(test_mode, fault)
    \/ \E test_mode \in BOOLEAN, keys \in KeyLists, chain \in Chains, challenge \in ChallengeSizes, fault \in Faults :
           GenerateCsr(test_mode, keys, EekChain(chain), challenge, fault)
    \/ \E keys \in KeyLists, challenge \in ChallengeSizes : GenerateCsrV2(keys, challenge)
    \/ \E level \in PatchLevels :
           SetSystemVersion(level) \/ SetVendorPatchlevel(level) \/ SetBootPatchlevel(level)
    \/ \E b \in BootInfos : SetVerifiedBootInfo(b[1], b[2], b[3])

ProvisioningNext ==
    \/ result = Idle /\ Request
    \/ Collect
    \/ ProvisioningRestart

ProvisioningSpec == ProvisioningInit /\ [][ProvisioningNext]_provisioningVars

-----------------------------------------------------------------------------
(* Properties.                                                              *)

\* A response that was not refused.
Answered(op) == result.op = op /\ result.status = 0

\* The server's side of a certificate request, with the functions of cppcose: it derives
\* the session key from its half of the endpoint key, opens the message, and checks the
\* signature over the MAC key with the chain in it and the MAC over the keys.
ServerReads(request, response, keys) ==
    LET eek == EekOf(request.chain.certs).x
        from == getSenderPubKeyFromCoseEncrypt(response.protectedData)
        session == x25519_HKDF_DeriveKey(eek, eek, from.sender, FALSE)
    IN  \E plain \in decryptCoseEncrypt(session, response.protectedData) :
            /\ from.kid = eek
            /\ verifyAndParseCoseSign1(plain.bcc[2], plain.bcc[1], <<>>)
            /\ verifyAndParseCoseSign1(plain.sign1, plain.bcc[2].payload,
                   <<request.challenge, response.deviceInfo, response.mac>>)
            /\ verifyAndParseCoseMac0([formed |-> TRUE, algorithm |-> "HMAC_256", payload |-> keys,
                                       tag |-> response.mac], plain.sign1.payload)

\* The server can read and check every request GenerateCsr answers, and what it finds in
\* it are the keys the client listed, in that order.
CsrReadable ==
    Answered("csr") =>
        ServerReads(result.request, result.response,
                    [i \in DOMAIN result.request.keys |-> result.request.keys[i].payload])

\* A request of GenerateCsrV2 verifies with the chain it carries, and is over the
\* challenge and the listed keys; so it is also in the first request after a start, for
\* which LazyInitProdBcc has to make the chain.
CsrV2Verifies ==
    Answered("csr2") =>
        LET csr == result.response
        IN  /\ csr.bcc # <<>>
            /\ verifyAndParseCoseSign1(csr.signedData, csr.bcc[1], <<>>)
            /\ csr.signedData.payload.challenge = result.request.challenge
            /\ csr.signedData.payload.keys =
                   [i \in DOMAIN result.request.keys |-> result.request.keys[i].payload]

\* Whatever happened to keys between two calls, an answered request holds only keys that
\* this device handed out, undamaged, and in the mode of the request.
OnlyOwnKeys ==
    \A op \in {"csr", "csr2"} : Answered(op) =>
        LET test == op = "csr" /\ result.request.test
        IN  \A i \in DOMAIN result.request.keys :
                result.request.keys[i] \in issued /\ result.request.keys[i].payload.test = test

\* A key once handed out stays good for a request of its mode, also when the process was
\* restarted in between ("else HMACs will fail to verify after reboot").
KeysOutliveRestart == \A k \in issued : KeyStatus(k.payload.test, k) = KM_ERROR_OK

\* The MAC key of a production request is encrypted only to an endpoint key below the
\* production root; the data of a test request can be read by the endpoint it names.
EncryptedBelowRoot ==
    Answered("csr") /\ ~result.request.test => result.request.chain.certs[1].payload = Geek

\* Production requests of one boot carry one chain and never two different values of the
\* boot information, whatever is configured between them.
BootToldOnce == \A f \in DOMAIN told : Cardinality(told[f]) <= 1

\* The chain of the device never signs a test request.
TestChainApart ==
    Answered("csr") /\ result.request.test =>
        result.response.protectedData.plaintext.bcc # GenerateBcc(FALSE).bcc

\* The types of the state; a chain that was made belongs to the current process.
ProvisioningTypeOK ==
    /\ version \in Versions /\ boot \in 1 .. MaxStarts
    /\ device \in {NoDevice, GenerateBcc(FALSE)}
    /\ \A c \in {config, info} : /\ {c.os, c.vendor, c.boot} \subseteq PatchLevels \cup {UNSET}
                                 /\ c.verified \in BootInfos \cup {UNSET}
    /\ Cardinality(issued) <= MaxKeys
    /\ result.status \in 0 .. 6

\* The server can read and check every request that GenerateCsr or GenerateCsrV2 answers,
\* also the first one after a start; production data is encrypted only below the
\* production root, the device's chain never signs a test request, and the production
\* requests of one boot carry one chain and one state of the boot information.
RequestsVerify ==
    /\ ProvisioningTypeOK
    /\ CsrReadable
    /\ CsrV2Verifies
    /\ EncryptedBelowRoot
    /\ TestChainApart
    /\ BootToldOnce

\* Whatever happened to keys between two calls, an answered request holds only keys that
\* this device handed out, undamaged, and in the mode of the request; and a key once
\* handed out stays good, also when the process was restarted in between ("else HMACs
\* will fail to verify after reboot").
OwnKeysOnly == OnlyOwnKeys /\ KeysOutliveRestart
=============================================================================
