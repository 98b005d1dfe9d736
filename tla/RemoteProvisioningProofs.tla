---------------------- MODULE RemoteProvisioningProofs ----------------------
(***************************************************************************)
(* Remote provisioning, for all sets of keys, chains, challenges, patch    *)
(* levels and faults, and for every number of keys, listed keys and        *)
(* restarts: RequestsVerify and OwnKeysOnly.                               *)
(***************************************************************************)
EXTENDS RemoteProvisioning, FiniteSetTheorems, WellFoundedInduction, TLAPS

-----------------------------------------------------------------------------
(* Keys.                                                                    *)

\* A key as GenerateRkpKey makes it.
MadeKey(test, n) == constructCoseMac0(getMacFunction(test), CoseKey("P256", <<"key", n>>, FALSE, test))

\* The keys of the two modes are made with different MAC keys.
LEMMA MacKeysDiffer ==
    getMacFunction(TRUE) # getMacFunction(FALSE)
BY DEF getMacFunction, ContextMacKey

\* KeyStatus accepts exactly the well-formed keys of the mode with a tag of the mode's key.
LEMMA AcceptedKey ==
    ASSUME NEW test \in BOOLEAN, NEW blob
    PROVE  /\ KeyStatus(test, blob) \in {-4, -3, -2, -1, 0}
           /\ KeyStatus(test, blob) = KM_ERROR_OK =>
                /\ blob.formed /\ blob.algorithm = "HMAC_256" /\ blob.payload.curve = "P256"
                /\ test <=> blob.payload.test
                /\ blob.tag = generateCoseMac0Mac(getMacFunction(test), blob.payload)
BY DEF KeyStatus, KM_ERROR_OK, kStatusFailed, kStatusInvalidMac, kStatusProductionKeyInTestRequest,
       kStatusTestKeyInProductionRequest

\* A key as it was made is accepted in its mode, whatever process made it.
LEMMA MadeKeyAccepted ==
    ASSUME NEW test \in BOOLEAN, NEW n
    PROVE  KeyStatus(MadeKey(test, n).payload.test, MadeKey(test, n)) = KM_ERROR_OK
BY DEF KeyStatus, MadeKey, constructCoseMac0, CoseKey, generateCoseMac0Mac

\* Of a key that was made, only the undamaged one is accepted, and only in its mode.
LEMMA DamagedKeyRefused ==
    ASSUME NEW test \in BOOLEAN, NEW made \in BOOLEAN, NEW n, NEW damage,
           KeyStatus(test, Damaged(MadeKey(made, n), damage)) = KM_ERROR_OK
    PROVE  Damaged(MadeKey(made, n), damage) = MadeKey(made, n) /\ made = test
<1> DEFINE key == MadeKey(made, n)
           blob == Damaged(key, damage)
<1>0. /\ key.formed = TRUE /\ key.algorithm = "HMAC_256" /\ key.payload.test = made
      /\ key.payload = CoseKey("P256", <<"key", n>>, FALSE, made)
      /\ key.tag = <<getMacFunction(made), key.payload>>
      /\ key = [formed |-> TRUE, algorithm |-> "HMAC_256", payload |-> key.payload, tag |-> key.tag]
  BY Zenon DEF MadeKey, constructCoseMac0, CoseKey, generateCoseMac0Mac
<1>1. /\ blob.formed /\ blob.algorithm = "HMAC_256" /\ blob.payload.curve = "P256"
      /\ test <=> blob.payload.test
      /\ blob.tag = <<getMacFunction(test), blob.payload>>
  BY AcceptedKey DEF generateCoseMac0Mac
<1> HIDE DEF key
<1>2. damage # "formed"
  BY <1>0, <1>1 DEF Damaged
<1>3. damage # "algorithm"
  BY <1>0, <1>1 DEF Damaged
<1>4. damage # "curve"
  BY <1>0, <1>1 DEF Damaged, CoseKey
<1>5. damage # "tag"
  <2> SUFFICES ASSUME damage = "tag" PROVE FALSE
    OBVIOUS
  <2>1. blob.tag = <<<<"zeros", 1>>, key.payload>>
    BY <1>0, Zenon DEF Damaged
  <2>2. getMacFunction(test) = <<"zeros", 1>>
    BY <1>1, <2>1
  <2> QED
    BY <2>2 DEF getMacFunction, ContextMacKey
<1>6. damage # "mode"
  <2> SUFFICES ASSUME damage = "mode" PROVE FALSE
    OBVIOUS
  <2>1. blob.tag = key.tag /\ blob.payload.test = ~made
    BY <1>0, Zenon DEF Damaged, CoseKey
  <2>2. getMacFunction(test) = getMacFunction(made)
    BY <1>0, <1>1, <2>1
  <2>3. test = ~made
    BY <1>1, <2>1, Zenon
  <2> QED
    BY <2>2, <2>3, MacKeysDiffer, Zenon
<1>7. blob = key
  BY <1>2, <1>3, <1>4, <1>5, <1>6 DEF Damaged
<1> QED
  BY <1>0, <1>1, <1>7, Zenon DEF key

-----------------------------------------------------------------------------
(* Lists of keys.                                                           *)

\* Every key that was handed out is as GenerateRkpKey made it.
KeyInv == \A k \in issued : \E test \in BOOLEAN, n \in Nat : k = MadeKey(test, n)

\* A set of positions has a first.
LEMMA FirstPosition ==
    ASSUME NEW S, S \subseteq Nat, S # {}
    PROVE  \E i \in S : \A j \in S : i <= j
<1>1. PICK x \in S : \A y \in S : ~(<<y, x>> \in OpToRel(<, Nat))
  BY NatLessThanWellFounded, WFMin, Zenon
<1>2. \A y \in S : ~(y < x)
  BY <1>1, Zenon DEF OpToRel
<1> QED
  BY <1>2

\* A list passes only if each of its keys is accepted, and then all are extracted, in order.
LEMMA ExtractedKeys ==
    ASSUME NEW test \in BOOLEAN, NEW keys, DOMAIN keys \subseteq Nat
    PROVE  /\ validateAndExtractPubkeys(test, keys).status \in {-4, -3, -2, -1, 0}
           /\ validateAndExtractPubkeys(test, keys).status = KM_ERROR_OK =>
                /\ \A i \in DOMAIN keys : KeyStatus(test, keys[i]) = KM_ERROR_OK
                /\ validateAndExtractPubkeys(test, keys).keys = [i \in DOMAIN keys |-> keys[i].payload]
<1> DEFINE refused == {i \in DOMAIN keys : KeyStatus(test, keys[i]) # KM_ERROR_OK}
           first == CHOOSE i \in refused : \A j \in refused : i <= j
           all == [i \in DOMAIN keys |-> keys[i].payload]
<1>1. CASE refused = {}
  <2>1. validateAndExtractPubkeys(test, keys) = [status |-> KM_ERROR_OK, keys |-> all]
    BY <1>1 DEF validateAndExtractPubkeys
  <2> HIDE DEF all
  <2>2. /\ validateAndExtractPubkeys(test, keys).status = KM_ERROR_OK
        /\ validateAndExtractPubkeys(test, keys).keys = all
    BY <2>1
  <2> QED
    BY <1>1, <2>2 DEF KM_ERROR_OK, all
<1>2. CASE refused # {}
  <2>1. first \in refused
    <3>1. \E i \in refused : \A j \in refused : i <= j
      <4> HIDE DEF refused
      <4>1. refused \subseteq Nat
        BY DEF refused
      <4> QED
        BY <1>2, <4>1, FirstPosition, Zenon
    <3> HIDE DEF refused
    <3> QED
      BY <3>1
  <2>2. validateAndExtractPubkeys(test, keys).status = KeyStatus(test, keys[first])
    BY <1>2 DEF validateAndExtractPubkeys
  <2>3. KeyStatus(test, keys[first]) # KM_ERROR_OK
    BY <2>1
  <2> HIDE DEF first, refused, all
  <2> QED
    BY <2>2, <2>3, AcceptedKey
<1> QED
  BY <1>1, <1>2

\* The keys of an accepted list were handed out, for the mode of the request.
LEMMA AcceptedKeysAreOwn ==
    ASSUME KeyInv, NEW test \in BOOLEAN, NEW keys \in KeyLists,
           validateAndExtractPubkeys(test, keys).status = KM_ERROR_OK
    PROVE  \A i \in DOMAIN keys : keys[i] \in issued /\ keys[i].payload.test = test
<1>1. PICK m \in 0 .. MaxListed : keys \in [1 .. m -> {Damaged(k, d) : k \in issued, d \in Damages}]
  BY DEF KeyLists
<1>2. DOMAIN keys = 1 .. m /\ DOMAIN keys \subseteq Nat
  BY <1>1
<1>3. ASSUME NEW i \in DOMAIN keys
      PROVE  keys[i] \in issued /\ keys[i].payload.test = test
  <2>1. PICK k \in issued, d \in Damages : keys[i] = Damaged(k, d)
    BY <1>1, <1>2
  <2>2. PICK made \in BOOLEAN, n \in Nat : k = MadeKey(made, n)
    BY DEF KeyInv
  <2>3. KeyStatus(test, keys[i]) = KM_ERROR_OK
    BY <1>2, ExtractedKeys, Zenon
  <2>4. keys[i] = k /\ made = test
    BY <2>1, <2>2, <2>3, DamagedKeyRefused
  <2>5. k.payload.test = made
    BY <2>2 DEF MadeKey, constructCoseMac0, CoseKey
  <2> QED
    BY <2>4, <2>5
<1> QED
  BY <1>3

\* The lists of keys are over positions.
LEMMA ListPositions ==
    ASSUME NEW keys \in KeyLists
    PROVE  DOMAIN keys \subseteq Nat
<1>1. PICK m \in 0 .. MaxListed : keys \in [1 .. m -> {Damaged(k, d) : k \in issued, d \in Damages}]
  BY DEF KeyLists
<1> QED
  BY <1>1

-----------------------------------------------------------------------------
(* Chains.                                                                  *)

\* An accepted chain of a production request starts with the production root.
LEMMA AcceptedChain ==
    ASSUME NEW name, NEW test \in BOOLEAN
    PROVE  /\ validateAndExtractEekPubAndId(test, EekChain(name)) \in {-5, -1, 0}
           /\ validateAndExtractEekPubAndId(test, EekChain(name)) = KM_ERROR_OK /\ ~test =>
                EekChain(name).certs[1].payload = Geek
<1> DEFINE chain == EekChain(name)
           status == validateAndExtractEekPubAndId(test, chain)
<1>1. status \in {-5, -1, 0}
  BY DEF validateAndExtractEekPubAndId, kStatusFailed, kStatusInvalidEek, KM_ERROR_OK
<1>2. status = KM_ERROR_OK /\ ~test =>
        /\ chain.certs # <<>>
        /\ chain.certs[1].payload.curve = "ED25519"
  <2> HIDE DEF chain
  <2>1. status = KM_ERROR_OK => chain.certs # <<>>
    BY DEF validateAndExtractEekPubAndId, kStatusFailed, kStatusInvalidEek, KM_ERROR_OK, EndsInEek
  <2>2. status = KM_ERROR_OK /\ ~test /\ chain.certs # <<>> =>
           <<chain.certs[1].payload.curve, chain.certs[1].payload.x>> \in kAuthorizedEekRoots
    BY DEF validateAndExtractEekPubAndId, kStatusFailed, kStatusInvalidEek, KM_ERROR_OK
  <2> QED
    BY <2>1, <2>2 DEF kAuthorizedEekRoots
<1>3. \/ chain.certs = <<>>
      \/ chain.certs[1] = constructCoseSign1(Geek.x, Geek, <<>>)
      \/ chain.certs[1] = constructECDSACoseSign1(OtherRoot.x, OtherRoot, <<>>)
  BY DEF EekChain
<1> HIDE DEF chain, status
<1>4. constructCoseSign1(Geek.x, Geek, <<>>).payload = Geek
  BY DEF constructCoseSign1
<1>5. constructECDSACoseSign1(OtherRoot.x, OtherRoot, <<>>).payload.curve = "P256"
  BY DEF constructECDSACoseSign1, OtherRoot, CoseKey
<1> QED
  BY <1>1, <1>2, <1>3, <1>4, <1>5 DEF status, chain

-----------------------------------------------------------------------------
(* Messages.                                                                *)

\* What an Ed25519 key signs verifies with that key.
LEMMA Sign1Verifies ==
    ASSUME NEW seed, NEW payload, NEW aad, seed # <<>>
    PROVE  verifyAndParseCoseSign1(constructCoseSign1(seed, payload, aad),
                                   CoseKey("ED25519", seed, FALSE, FALSE), aad)
<1> DEFINE key == CoseKey("ED25519", seed, FALSE, FALSE)
           sign1 == constructCoseSign1(seed, payload, aad)
           signature == <<seed, "EDDSA", aad, payload>>
<1>1. key # NoKey /\ key.curve = "ED25519" /\ key.x = seed
  <2>1. NoKey.curve = "none"
    BY DEF NoKey, CoseKey
  <2> QED
    BY <2>1 DEF CoseKey
<1>2. /\ sign1.formed = TRUE /\ sign1.algorithm = "EDDSA"
      /\ sign1.payload = payload /\ sign1.signature = signature
  BY DEF constructCoseSign1, createCoseSign1Signature
<1>3. SigningCurve("EDDSA") = "ED25519"
  BY DEF SigningCurve
<1>4. signature # <<>>
  OBVIOUS
<1> HIDE DEF key, sign1, signature
<1>5. sign1.signature = <<key.x, sign1.algorithm, aad, sign1.payload>>
  BY <1>1, <1>2 DEF signature
<1>6. verifyAndParseCoseSign1(sign1, key, aad)
  BY <1>1, <1>2, <1>3, <1>4, <1>5 DEF verifyAndParseCoseSign1
<1> QED
  BY <1>6, Zenon DEF key, sign1

\* The seed of a chain, and the chain: one self-signed certificate over its key.
Seed(test) == IF test THEN <<"random", 0>> ELSE DeriveBytesFromHbk
ChainKey(test) == CoseKey("ED25519", Seed(test), FALSE, FALSE)

\* A chain that was made verifies, and what its key signs verifies with it.
LEMMA ChainVerifies ==
    ASSUME NEW test \in BOOLEAN
    PROVE  /\ GenerateBcc(test).key = Seed(test)
           /\ GenerateBcc(test).bcc # <<>>
           /\ GenerateBcc(test).bcc[1] = ChainKey(test)
           /\ GenerateBcc(test).bcc[2].payload = ChainKey(test)
           /\ verifyAndParseCoseSign1(GenerateBcc(test).bcc[2], ChainKey(test), <<>>)
           /\ \A payload, aad :
                verifyAndParseCoseSign1(constructCoseSign1(Seed(test), payload, aad), ChainKey(test), aad)
<1> DEFINE link == constructCoseSign1(Seed(test), ChainKey(test), <<>>)
<1>0. Seed(test) # <<>>
  BY DEF Seed, DeriveBytesFromHbk
<1>1. GenerateBcc(test) = [key |-> Seed(test), bcc |-> <<ChainKey(test), link>>]
  BY DEF GenerateBcc, Seed, ChainKey
<1>2. link.payload = ChainKey(test)
  BY DEF constructCoseSign1
<1>3. verifyAndParseCoseSign1(link, ChainKey(test), <<>>)
  BY <1>0, Sign1Verifies, Zenon DEF ChainKey
<1>4. ASSUME NEW payload, NEW aad
      PROVE  verifyAndParseCoseSign1(constructCoseSign1(Seed(test), payload, aad), ChainKey(test), aad)
  BY <1>0, Sign1Verifies, Zenon DEF ChainKey
<1> HIDE DEF link
<1>5. /\ GenerateBcc(test).key = Seed(test)
      /\ GenerateBcc(test).bcc = <<ChainKey(test), link>>
  BY <1>1
<1> QED
  BY <1>2, <1>3, <1>4, <1>5

\* The chains of the two modes have different keys.
LEMMA ChainsDiffer ==
    GenerateBcc(TRUE).bcc # GenerateBcc(FALSE).bcc
<1>1. Seed(TRUE) # Seed(FALSE)
  BY DEF Seed, DeriveBytesFromHbk
<1>2. ChainKey(TRUE) # ChainKey(FALSE)
  BY <1>1, Zenon DEF ChainKey, CoseKey
<1> QED
  BY <1>2, ChainVerifies, Zenon

\* The device's chain is made once for a process.
DeviceInv == device = NoDevice \/ device = GenerateBcc(FALSE)

\* Whether LazyInitProdBcc finds a chain or makes it, it is that of the process.
LEMMA LazyChain ==
    ASSUME DeviceInv
    PROVE  LazyInitProdBcc = GenerateBcc(FALSE)
<1>1. NoDevice.bcc = <<>>
  BY DEF NoDevice
<1>2. GenerateBcc(FALSE).bcc # <<>>
  BY ChainVerifies, Zenon
<1> QED
  BY <1>1, <1>2, Zenon DEF DeviceInv, LazyInitProdBcc

\* Both sides of the key agreement derive one key.
LEMMA SessionKeysAgree ==
    ASSUME NEW a, NEW b
    PROVE  x25519_HKDF_DeriveKey(a, a, b, TRUE) = x25519_HKDF_DeriveKey(b, b, a, FALSE)
<1>1. {a, b} = {b, a}
  OBVIOUS
<1> QED
  BY <1>1 DEF x25519_HKDF_DeriveKey, consructKdfContext

\* What GenerateCsr puts together, in a mode and over a list of keys, the server can read.
LEMMA ResponseReadable ==
    ASSUME NEW test \in BOOLEAN, NEW request, NEW response, NEW keys, NEW macKey, NEW ephemeral, NEW payload,
           response.mac = generateCoseMac0Mac(macKey, keys),
           payload.bcc = GenerateBcc(test).bcc,
           payload.sign1 = constructCoseSign1(GenerateBcc(test).key, macKey,
                               <<request.challenge, response.deviceInfo, response.mac>>),
           response.protectedData =
               constructCoseEncrypt(x25519_HKDF_DeriveKey(ephemeral, ephemeral, EekOf(request.chain.certs).x, TRUE),
                                    payload, buildCertReqRecipients(ephemeral, EekOf(request.chain.certs).x))
    PROVE  ServerReads(request, response, keys)
<1> DEFINE eek == EekOf(request.chain.certs).x
           session == x25519_HKDF_DeriveKey(ephemeral, ephemeral, eek, TRUE)
           from == getSenderPubKeyFromCoseEncrypt(response.protectedData)
           aad == <<request.challenge, response.deviceInfo, response.mac>>
           mac0 == [formed |-> TRUE, algorithm |-> "HMAC_256", payload |-> keys, tag |-> response.mac]
<1>1. /\ response.protectedData.key = session /\ response.protectedData.plaintext = payload
      /\ from.sender = ephemeral /\ from.kid = eek
  BY DEF constructCoseEncrypt, buildCertReqRecipients, getSenderPubKeyFromCoseEncrypt
<1>2. session = x25519_HKDF_DeriveKey(eek, eek, from.sender, FALSE)
  BY <1>1, SessionKeysAgree, Zenon
<1> HIDE DEF session, from
<1>3. decryptCoseEncrypt(x25519_HKDF_DeriveKey(eek, eek, from.sender, FALSE), response.protectedData) = {payload}
  BY <1>1, <1>2, Zenon DEF decryptCoseEncrypt
<1>4. verifyAndParseCoseSign1(payload.bcc[2], payload.bcc[1], <<>>)
  BY ChainVerifies
<1>5. verifyAndParseCoseSign1(payload.sign1, payload.bcc[2].payload, aad)
  BY ChainVerifies
<1>6. payload.sign1.payload = macKey
  BY DEF constructCoseSign1
<1>7. verifyAndParseCoseMac0(mac0, payload.sign1.payload)
  BY <1>6 DEF verifyAndParseCoseMac0
<1> HIDE DEF eek, aad, mac0
<1>8. \E plain \in decryptCoseEncrypt(x25519_HKDF_DeriveKey(eek, eek, from.sender, FALSE), response.protectedData) :
            /\ from.kid = eek
            /\ verifyAndParseCoseSign1(plain.bcc[2], plain.bcc[1], <<>>)
            /\ verifyAndParseCoseSign1(plain.sign1, plain.bcc[2].payload, aad)
            /\ verifyAndParseCoseMac0(mac0, plain.sign1.payload)
  BY <1>1, <1>3, <1>4, <1>5, <1>7, Zenon
<1> QED
  BY <1>8, Zenon DEF ServerReads, eek, from, aad, mac0

-----------------------------------------------------------------------------
(* Requests.                                                                *)

\* The result of a request that was refused.
Refused == result.status \in 1 .. 6

CsrPayload(test, challenge, mac) ==
    BuildProtectedDataPayload(test, <<"ephemeral_mac_key", 0>>, <<challenge, CreateDeviceInfo(2), mac>>)

CsrMac(test, keys) == generateCoseMac0Mac(<<"ephemeral_mac_key", 0>>, validateAndExtractPubkeys(test, keys).keys)

\* What GenerateCsr answers with.
CsrResult(test, keys, chain, challenge) ==
    [op |-> "csr", status |-> 0,
     request |-> [test |-> test, keys |-> keys, chain |-> chain, challenge |-> challenge],
     response |-> [mac |-> CsrMac(test, keys), deviceInfo |-> CreateDeviceInfo(2),
                   protectedData |-> constructCoseEncrypt(
                        x25519_HKDF_DeriveKey(<<"ephemeral", 0>>, <<"ephemeral", 0>>, EekOf(chain.certs).x, TRUE),
                        CsrPayload(test, challenge, CsrMac(test, keys)),
                        buildCertReqRecipients(<<"ephemeral", 0>>, EekOf(chain.certs).x))]]

\* GenerateCsr refuses, or answers a request whose keys and chain passed.
LEMMA CsrOutcome ==
    ASSUME NEW test \in BOOLEAN, NEW keys, DOMAIN keys \subseteq Nat, NEW name, NEW challenge, NEW fault,
           GenerateCsr(test, keys, EekChain(name), challenge, fault)
    PROVE  /\ device' = device \/ (~test /\ device' = LazyInitProdBcc)
           /\ \/ Refused' /\ result'.op = "csr" /\ told' = told
              \/ /\ version # 0
                 /\ validateAndExtractPubkeys(test, keys).status = KM_ERROR_OK
                 /\ validateAndExtractEekPubAndId(test, EekChain(name)) = KM_ERROR_OK
                 /\ result' = CsrResult(test, keys, EekChain(name), challenge)
                 /\ IF test THEN told' = told
                    ELSE Tell(CreateDeviceInfo(2), CsrPayload(test, challenge, CsrMac(test, keys)).bcc)
<1> DEFINE chain == EekChain(name)
           pub == validateAndExtractPubkeys(test, keys).status
           eek == validateAndExtractEekPubAndId(test, chain)
           early == CASE version = 0 -> kStatusFailed
                      [] version >= kRkpVersionWithoutSuperencryption -> kStatusRemoved
                      [] pub # KM_ERROR_OK -> pub
                      [] fault = "mac_key" -> kStatusFailed
                      [] OTHER -> KM_ERROR_OK
           late == CASE eek # KM_ERROR_OK -> eek
                     [] fault \in {"session_key", "nonce"} -> kStatusFailed
                     [] OTHER -> KM_ERROR_OK
           error == IF early # KM_ERROR_OK THEN early ELSE late
           answer == CsrResult(test, keys, chain, challenge)
           request == answer.request
           response == answer.response
<1>1. pub \in {-4, -3, -2, -1, 0} /\ eek \in {-5, -1, 0}
  BY ExtractedKeys, AcceptedChain, Zenon
<1>2. /\ device' = IF early = KM_ERROR_OK /\ ~test THEN LazyInitProdBcc ELSE device
      /\ error # KM_ERROR_OK => Refuse("csr", error) /\ told' = told
      /\ error = KM_ERROR_OK =>
            /\ Respond("csr", error, request, response)
            /\ IF test THEN told' = told
               ELSE Tell(CreateDeviceInfo(2), CsrPayload(test, challenge, CsrMac(test, keys)).bcc)
  BY DEF GenerateCsr, CsrResult, CsrPayload, CsrMac
<1> HIDE DEF chain, pub, eek
<1>3. /\ early \in {-6, -4, -3, -2, -1, 0} /\ late \in {-5, -1, 0}
      /\ early = 0 => version # 0 /\ pub = 0
      /\ late = 0 => eek = 0
  BY <1>1 DEF kStatusFailed, kStatusRemoved, KM_ERROR_OK
<1>4. answer = [op |-> "csr", status |-> 0, request |-> request, response |-> response]
  BY DEF CsrResult
<1> HIDE DEF early, late, request, response, answer
<1>5. /\ error \in {-6, -5, -4, -3, -2, -1, 0}
      /\ error = 0 => early = 0 /\ late = 0
  BY <1>3 DEF KM_ERROR_OK
<1> HIDE DEF error
<1>6. error # 0 => Refused' /\ result'.op = "csr" /\ told' = told
  <2> SUFFICES ASSUME error # 0 PROVE Refused' /\ result'.op = "csr" /\ told' = told
    OBVIOUS
  <2>1. result' = [op |-> "csr", status |-> -error, request |-> <<>>, response |-> <<>>] /\ told' = told
    BY <1>2 DEF Refuse, Respond, KM_ERROR_OK
  <2>2. -error \in 1 .. 6
    BY <1>5
  <2> QED
    BY <2>1, <2>2 DEF Refused
<1>7. error = 0 => result' = answer
  BY <1>2, <1>4 DEF Respond, KM_ERROR_OK
<1> QED
  BY <1>2, <1>3, <1>5, <1>6, <1>7 DEF KM_ERROR_OK, pub, eek, answer, chain

\* What GenerateCsrV2 answers with.
Csr2Result(keys, challenge) ==
    [op |-> "csr2", status |-> 0, request |-> [keys |-> keys, challenge |-> challenge],
     response |-> BuildCsr(challenge, validateAndExtractPubkeys(FALSE, keys).keys)]

\* GenerateCsrV2 refuses, or answers a request whose keys passed.
LEMMA Csr2Outcome ==
    ASSUME NEW keys, DOMAIN keys \subseteq Nat, NEW challenge, GenerateCsrV2(keys, challenge)
    PROVE  \/ Refused' /\ result'.op = "csr2" /\ told' = told /\ device' = device
           \/ /\ version # 0
              /\ validateAndExtractPubkeys(FALSE, keys).status = KM_ERROR_OK
              /\ device' = LazyInitProdBcc
              /\ result' = Csr2Result(keys, challenge)
              /\ Tell(CreateDeviceInfo(3), LazyInitProdBcc.bcc)
<1> DEFINE pub == validateAndExtractPubkeys(FALSE, keys).status
           csr == BuildCsr(challenge, validateAndExtractPubkeys(FALSE, keys).keys)
           error == CASE challenge > kMaxChallengeSizeV2 -> kStatusFailed
                      [] version = 0 -> kStatusFailed
                      [] OTHER -> pub
           answer == Csr2Result(keys, challenge)
           request == answer.request
           response == answer.response
<1>1. pub \in {-4, -3, -2, -1, 0}
  BY ExtractedKeys, Zenon
<1>2. csr.signedData.payload.deviceInfo = CreateDeviceInfo(3) /\ csr.bcc = LazyInitProdBcc.bcc
  BY DEF BuildCsr, constructCoseSign1
<1>3. answer.response = csr
  BY DEF Csr2Result
<1>4. /\ error # KM_ERROR_OK => Refuse("csr2", error) /\ device' = device /\ told' = told
      /\ error = KM_ERROR_OK =>
            /\ device' = LazyInitProdBcc
            /\ Respond("csr2", error, request, csr)
            /\ Tell(csr.signedData.payload.deviceInfo, csr.bcc)
  BY Zenon DEF GenerateCsrV2, Csr2Result
<1> HIDE DEF pub, csr
<1>5. error \in {-4, -3, -2, -1, 0} /\ (error = 0 => version # 0 /\ pub = 0)
  BY <1>1 DEF kStatusFailed
<1>6. answer = [op |-> "csr2", status |-> 0, request |-> request, response |-> csr]
  BY <1>3, Zenon DEF Csr2Result
<1> HIDE DEF error, answer, request, response
<1>7. error # 0 => Refused' /\ result'.op = "csr2" /\ told' = told /\ device' = device
  <2> SUFFICES ASSUME error # 0 PROVE Refused' /\ result'.op = "csr2" /\ told' = told /\ device' = device
    OBVIOUS
  <2>1. /\ result' = [op |-> "csr2", status |-> -error, request |-> <<>>, response |-> <<>>]
        /\ told' = told /\ device' = device
    BY <1>4 DEF Refuse, Respond, KM_ERROR_OK
  <2>2. -error \in 1 .. 6
    BY <1>5
  <2> QED
    BY <2>1, <2>2 DEF Refused
<1>8. error = 0 => result' = answer
  BY <1>4, <1>6 DEF Respond, KM_ERROR_OK
<1> QED
  BY <1>2, <1>4, <1>5, <1>7, <1>8, Zenon DEF KM_ERROR_OK, pub, answer

-----------------------------------------------------------------------------
(* The inductive invariant.                                                 *)

Configs == [os : PatchLevels \cup {UNSET}, vendor : PatchLevels \cup {UNSET}, boot : PatchLevels \cup {UNSET},
            verified : BootInfos \cup {UNSET}]

\* Both contexts hold values of the boot, and if there are two, the same ones.
ConfigInv == config \in Configs /\ info \in Configs /\ (version # 0 => info = config)

\* What was said of a value of the boot is the value that is set.
ToldInv ==
    /\ DOMAIN told = {"vendor", "boot", "verified", "bcc"}
    /\ told["bcc"] \subseteq {GenerateBcc(FALSE).bcc}
    /\ \A f \in {"vendor", "boot", "verified"} : told[f] \subseteq {config[f]} \ {UNSET}

\* The keys are as they were made, and not too many.
IssuedInv == KeyInv /\ IsFiniteSet(issued) /\ Cardinality(issued) <= MaxKeys

\* The last response is as promised.
ResultInv ==
    /\ result.status \in 0 .. 6
    /\ CsrReadable /\ CsrV2Verifies /\ EncryptedBelowRoot /\ TestChainApart /\ OnlyOwnKeys

Inv ==
    /\ version \in Versions /\ boot \in 1 .. MaxStarts
    /\ DeviceInv /\ ConfigInv /\ ToldInv /\ IssuedInv /\ ResultInv

\* A result that carries no certificate request promises nothing.
LEMMA QuietResult ==
    ASSUME result'.status \in 0 .. 6, result'.status # 0 \/ result'.op \notin {"csr", "csr2"}
    PROVE  ResultInv'
<1>1. ~Answered("csr")' /\ ~Answered("csr2")'
  BY DEF Answered
<1> QED
  BY <1>1, Zenon DEF ResultInv, CsrReadable, CsrV2Verifies, EncryptedBelowRoot, TestChainApart, OnlyOwnKeys

\* A set with at most one possible element.
LEMMA AtMostOne ==
    ASSUME NEW S, NEW x, S \subseteq {x}
    PROVE  Cardinality(S) <= 1
<1>1. IsFiniteSet({x}) /\ Cardinality({x}) = 1
  BY FS_Singleton, Zenon
<1>2. Cardinality(S) <= Cardinality({x})
  BY <1>1, FS_Subset
<1> QED
  BY <1>1, <1>2

\* The invariant implies both properties.
LEMMA InvImplies ==
    Inv => RequestsVerify /\ OwnKeysOnly
<1> SUFFICES ASSUME Inv PROVE RequestsVerify /\ OwnKeysOnly
  OBVIOUS
<1>1. ProvisioningTypeOK
  <2>1. \A c \in {config, info} : /\ {c.os, c.vendor, c.boot} \subseteq PatchLevels \cup {UNSET}
                                  /\ c.verified \in BootInfos \cup {UNSET}
    BY DEF Inv, ConfigInv, Configs
  <2> QED
    BY <2>1, Zenon DEF Inv, DeviceInv, IssuedInv, ResultInv, ProvisioningTypeOK
<1>2. BootToldOnce
  <2> SUFFICES ASSUME NEW f \in DOMAIN told PROVE Cardinality(told[f]) <= 1
    BY DEF BootToldOnce
  <2>1. CASE f = "bcc"
    BY <2>1, AtMostOne, Zenon DEF Inv, ToldInv
  <2>2. CASE f # "bcc"
    <3>1. told[f] \subseteq {config[f]}
      BY <2>2 DEF Inv, ToldInv
    <3> QED
      BY <3>1, AtMostOne, Zenon
  <2> QED
    BY <2>1, <2>2
<1>3. KeysOutliveRestart
  <2> SUFFICES ASSUME NEW k \in issued PROVE KeyStatus(k.payload.test, k) = KM_ERROR_OK
    BY DEF KeysOutliveRestart
  <2>1. PICK test \in BOOLEAN, n \in Nat : k = MadeKey(test, n)
    BY DEF Inv, IssuedInv, KeyInv
  <2> QED
    BY <2>1, MadeKeyAccepted
<1> QED
  BY <1>1, <1>2, <1>3 DEF Inv, ResultInv, RequestsVerify, OwnKeysOnly

\* The chain of a process is the same as long as it runs.
LEMMA SameProcess ==
    ASSUME boot' = boot
    PROVE  GenerateBcc(FALSE)' = GenerateBcc(FALSE) /\ GenerateBcc(TRUE)' = GenerateBcc(TRUE)
BY DEF GenerateBcc, DeriveBytesFromHbk

\* What a production request says agrees with what was said before.
LEMMA ToldStep ==
    ASSUME Inv, version # 0, boot' = boot, config' = config, NEW v, Tell(CreateDeviceInfo(v), GenerateBcc(FALSE).bcc)
    PROVE  ToldInv'
<1> DEFINE bcc == GenerateBcc(FALSE).bcc
           di == CreateDeviceInfo(v)
<1>1. di.info = config
  BY DEF CreateDeviceInfo, Inv, ConfigInv
<1>2. bcc' = bcc
  BY SameProcess, Zenon
<1> HIDE DEF bcc, di
<1>3. told' = [f \in DOMAIN told |-> told[f] \cup (IF f = "bcc" THEN {bcc} ELSE {di.info[f]} \ {UNSET})]
  BY DEF Tell, bcc, di
<1>4. /\ DOMAIN told = {"vendor", "boot", "verified", "bcc"}
      /\ told["bcc"] \subseteq {bcc}
      /\ \A f \in {"vendor", "boot", "verified"} : told[f] \subseteq {config[f]} \ {UNSET}
  BY Zenon DEF Inv, ToldInv, bcc
<1>5. /\ DOMAIN told' = {"vendor", "boot", "verified", "bcc"}
      /\ told'["bcc"] \subseteq {bcc}
      /\ \A f \in {"vendor", "boot", "verified"} : told'[f] \subseteq {config'[f]} \ {UNSET}
  BY <1>1, <1>3, <1>4
<1> QED
  BY <1>2, <1>5, Zenon DEF ToldInv, bcc

\* What is left alone keeps its part of the invariant.
LEMMA KeptParts ==
    ASSUME Inv, version' = version, boot' = boot
    PROVE  /\ version' \in Versions /\ boot' \in 1 .. MaxStarts
           /\ device' = device => DeviceInv'
           /\ config' = config /\ info' = info => ConfigInv'
           /\ config' = config /\ told' = told => ToldInv'
           /\ issued' = issued => IssuedInv'
<1>1. version' \in Versions /\ boot' \in 1 .. MaxStarts
  BY DEF Inv
<1>2. device' = device => DeviceInv'
  BY SameProcess, Zenon DEF Inv, DeviceInv, NoDevice
<1>3. config' = config /\ info' = info => ConfigInv'
  BY DEF Inv, ConfigInv, Configs
<1>4. config' = config /\ told' = told => ToldInv'
  BY SameProcess, Zenon DEF Inv, ToldInv
<1>5. issued' = issued => IssuedInv'
  BY DEF Inv, IssuedInv, KeyInv, MadeKey, constructCoseMac0, getMacFunction, ContextMacKey, CoseKey,
         generateCoseMac0Mac
<1> QED
  BY <1>1, <1>2, <1>3, <1>4, <1>5

\* An answer of GenerateCsr is as promised.
LEMMA CsrAnswer ==
    ASSUME Inv, NEW test \in BOOLEAN, NEW keys \in KeyLists, NEW name, NEW challenge,
           boot' = boot, issued' = issued,
           validateAndExtractPubkeys(test, keys).status = KM_ERROR_OK,
           validateAndExtractEekPubAndId(test, EekChain(name)) = KM_ERROR_OK,
           result' = CsrResult(test, keys, EekChain(name), challenge)
    PROVE  ResultInv'
<1> DEFINE payload == CsrPayload(test, challenge, CsrMac(test, keys))
           listed == [i \in DOMAIN keys |-> keys[i].payload]
<1>0. KeyInv
  BY DEF Inv, IssuedInv
<1>1. /\ payload.bcc = GenerateBcc(test).bcc
      /\ payload.sign1 = constructCoseSign1(GenerateBcc(test).key, <<"ephemeral_mac_key", 0>>,
                             <<challenge, CreateDeviceInfo(2), CsrMac(test, keys)>>)
  BY LazyChain, Zenon DEF Inv, CsrPayload, BuildProtectedDataPayload
<1>2. CsrMac(test, keys) = generateCoseMac0Mac(<<"ephemeral_mac_key", 0>>, listed)
  BY ListPositions, ExtractedKeys DEF CsrMac
<1> HIDE DEF payload, listed
<1>3. /\ result'.op = "csr" /\ result'.status = 0
      /\ result'.request.test = test /\ result'.request.keys = keys
      /\ result'.request.chain = EekChain(name) /\ result'.request.challenge = challenge
      /\ result'.response.mac = CsrMac(test, keys) /\ result'.response.deviceInfo = CreateDeviceInfo(2)
      /\ result'.response.protectedData = constructCoseEncrypt(
             x25519_HKDF_DeriveKey(<<"ephemeral", 0>>, <<"ephemeral", 0>>, EekOf(EekChain(name).certs).x, TRUE),
             payload, buildCertReqRecipients(<<"ephemeral", 0>>, EekOf(EekChain(name).certs).x))
  BY Zenon DEF CsrResult, payload
<1>4. ServerReads(result'.request, result'.response, listed)
  <2> DEFINE req == result'.request
             res == result'.response
             mac_key == <<"ephemeral_mac_key", 0>>
             ephemeral == <<"ephemeral", 0>>
  <2>1. res.mac = generateCoseMac0Mac(mac_key, listed)
    BY <1>2, <1>3
  <2>2. payload.sign1 = constructCoseSign1(GenerateBcc(test).key, mac_key,
                            <<req.challenge, res.deviceInfo, res.mac>>)
    BY <1>1, <1>3
  <2>3. res.protectedData =
            constructCoseEncrypt(x25519_HKDF_DeriveKey(ephemeral, ephemeral, EekOf(req.chain.certs).x, TRUE),
                                 payload, buildCertReqRecipients(ephemeral, EekOf(req.chain.certs).x))
    BY <1>3
  <2> HIDE DEF req, res, mac_key, ephemeral
  <2>4. ServerReads(req, res, listed)
    BY <1>1, <2>1, <2>2, <2>3, ResponseReadable, Zenon
  <2> QED
    BY <2>4 DEF req, res
<1>5. CsrReadable'
  <2>1. listed = [i \in DOMAIN result'.request.keys |-> result'.request.keys[i].payload]
    BY <1>3 DEF listed
  <2> QED
    BY <1>4, <2>1 DEF CsrReadable
<1>6. EncryptedBelowRoot'
  <2>1. ~test => EekChain(name).certs[1].payload = Geek
    BY AcceptedChain
  <2> QED
    BY <1>3, <2>1 DEF EncryptedBelowRoot
<1>7. TestChainApart'
  <2>1. test => payload.bcc # GenerateBcc(FALSE).bcc
    BY <1>1, ChainsDiffer, Zenon
  <2>2. result'.response.protectedData.plaintext = payload
    BY <1>3 DEF constructCoseEncrypt
  <2> QED
    BY <1>3, <2>1, <2>2, SameProcess, Zenon DEF TestChainApart
<1>8. OnlyOwnKeys'
  <2>1. \A i \in DOMAIN keys : keys[i] \in issued /\ keys[i].payload.test = test
    BY <1>0, AcceptedKeysAreOwn, SMTT(20)
  <2> QED
    BY <1>3, <2>1 DEF OnlyOwnKeys, Answered
<1>9. CsrV2Verifies'
  BY <1>3 DEF CsrV2Verifies, Answered
<1> QED
  BY <1>3, <1>5, <1>6, <1>7, <1>8, <1>9 DEF ResultInv

\* An answer of GenerateCsrV2 is as promised.
LEMMA Csr2Answer ==
    ASSUME Inv, NEW keys \in KeyLists, NEW challenge, issued' = issued,
           validateAndExtractPubkeys(FALSE, keys).status = KM_ERROR_OK,
           result' = Csr2Result(keys, challenge)
    PROVE  ResultInv'
<1> DEFINE listed == [i \in DOMAIN keys |-> keys[i].payload]
           payload == [challenge |-> challenge, deviceInfo |-> CreateDeviceInfo(3), keys |-> listed]
           signed == constructCoseSign1(GenerateBcc(FALSE).key, payload, <<>>)
           csr == [bcc |-> GenerateBcc(FALSE).bcc, signedData |-> signed]
<1>0. KeyInv
  BY DEF Inv, IssuedInv
<1>1. validateAndExtractPubkeys(FALSE, keys).keys = listed
  BY ListPositions, ExtractedKeys, Zenon
<1> HIDE DEF listed
<1>2. BuildCsr(challenge, listed) = csr
  BY LazyChain DEF Inv, BuildCsr
<1>3. /\ result'.op = "csr2" /\ result'.status = 0
      /\ result'.request.keys = keys /\ result'.request.challenge = challenge
      /\ result'.response = csr
  BY <1>1, <1>2, Zenon DEF Csr2Result
<1>4. signed.payload = payload /\ payload.challenge = challenge /\ payload.keys = listed
  BY DEF constructCoseSign1
<1>5. verifyAndParseCoseSign1(signed, csr.bcc[1], <<>>)
  BY ChainVerifies, Zenon
<1>6. csr.bcc # <<>> /\ csr.signedData = signed
  BY ChainVerifies, Zenon
<1> HIDE DEF csr, signed, payload
<1>7. CsrV2Verifies'
  <2>1. listed = [i \in DOMAIN result'.request.keys |-> result'.request.keys[i].payload]
    BY <1>3 DEF listed
  <2> QED
    BY <1>3, <1>4, <1>5, <1>6, <2>1 DEF CsrV2Verifies
<1>8. OnlyOwnKeys'
  <2>1. \A i \in DOMAIN keys : keys[i] \in issued /\ keys[i].payload.test = FALSE
    BY <1>0, AcceptedKeysAreOwn, Zenon
  <2> QED
    BY <1>3, <2>1, Zenon DEF OnlyOwnKeys, Answered
<1>9. CsrReadable' /\ EncryptedBelowRoot' /\ TestChainApart'
  BY <1>3 DEF CsrReadable, EncryptedBelowRoot, TestChainApart, Answered
<1> QED
  BY <1>3, <1>7, <1>8, <1>9 DEF ResultInv

\* GenerateCsr keeps the invariant.
LEMMA CsrInv ==
    ASSUME Inv, NEW test \in BOOLEAN, NEW keys \in KeyLists, NEW name, NEW challenge, NEW fault,
           GenerateCsr(test, keys, EekChain(name), challenge, fault)
    PROVE  Inv'
<1>1. version' = version /\ boot' = boot /\ config' = config /\ info' = info /\ issued' = issued
  BY DEF GenerateCsr
<1>2. LazyInitProdBcc = GenerateBcc(FALSE)
  BY LazyChain DEF Inv
<1>3. DeviceInv'
  <2>1. device' = device \/ device' = GenerateBcc(FALSE)
    BY <1>2, CsrOutcome, ListPositions, Zenon
  <2> QED
    BY <1>1, <2>1, KeptParts, SameProcess, Zenon DEF DeviceInv
<1>4. version' \in Versions /\ boot' \in 1 .. MaxStarts /\ ConfigInv' /\ IssuedInv'
  BY <1>1, KeptParts
<1>5. CASE Refused' /\ result'.op = "csr" /\ told' = told
  <2>1. ResultInv'
    BY <1>5, QuietResult DEF Refused
  <2>2. ToldInv'
    BY <1>1, <1>5, KeptParts
  <2> QED
    BY <1>3, <1>4, <2>1, <2>2 DEF Inv
<1>6. CASE /\ version # 0
           /\ validateAndExtractPubkeys(test, keys).status = KM_ERROR_OK
           /\ validateAndExtractEekPubAndId(test, EekChain(name)) = KM_ERROR_OK
           /\ result' = CsrResult(test, keys, EekChain(name), challenge)
           /\ IF test THEN told' = told
              ELSE Tell(CreateDeviceInfo(2), CsrPayload(test, challenge, CsrMac(test, keys)).bcc)
  <2>1. ResultInv'
    BY <1>1, <1>6, CsrAnswer
  <2>2. ToldInv'
    <3>1. CASE test
      BY <1>1, <1>6, <3>1, KeptParts
    <3>2. CASE ~test
      <4>1. CsrPayload(test, challenge, CsrMac(test, keys)).bcc = GenerateBcc(FALSE).bcc
        BY <1>2, <3>2 DEF CsrPayload, BuildProtectedDataPayload
      <4> QED
        BY <1>1, <1>6, <3>2, <4>1, ToldStep, Zenon
    <3> QED
      BY <3>1, <3>2
  <2> QED
    BY <1>3, <1>4, <2>1, <2>2 DEF Inv
<1> QED
  BY <1>5, <1>6, CsrOutcome, ListPositions

\* GenerateCsrV2 keeps the invariant.
LEMMA Csr2Inv ==
    ASSUME Inv, NEW keys \in KeyLists, NEW challenge, GenerateCsrV2(keys, challenge)
    PROVE  Inv'
<1>1. version' = version /\ boot' = boot /\ config' = config /\ info' = info /\ issued' = issued
  BY DEF GenerateCsrV2
<1>2. LazyInitProdBcc = GenerateBcc(FALSE)
  BY LazyChain DEF Inv
<1>4. version' \in Versions /\ boot' \in 1 .. MaxStarts /\ ConfigInv' /\ IssuedInv'
  BY <1>1, KeptParts
<1>5. CASE Refused' /\ result'.op = "csr2" /\ told' = told /\ device' = device
  <2>1. ResultInv'
    BY <1>5, QuietResult DEF Refused
  <2>2. ToldInv' /\ DeviceInv'
    BY <1>1, <1>5, KeptParts
  <2> QED
    BY <1>4, <2>1, <2>2 DEF Inv
<1>6. CASE /\ version # 0
           /\ validateAndExtractPubkeys(FALSE, keys).status = KM_ERROR_OK
           /\ device' = LazyInitProdBcc
           /\ result' = Csr2Result(keys, challenge)
           /\ Tell(CreateDeviceInfo(3), LazyInitProdBcc.bcc)
  <2>1. ResultInv'
    BY <1>1, <1>6, Csr2Answer, Zenon
  <2>2. ToldInv'
    BY <1>1, <1>2, <1>6, ToldStep, Zenon
  <2>3. DeviceInv'
    BY <1>1, <1>2, <1>6, SameProcess, Zenon DEF DeviceInv
  <2> QED
    BY <1>4, <2>1, <2>2, <2>3 DEF Inv
<1> QED
  BY <1>5, <1>6, Csr2Outcome, ListPositions, Zenon

\* GenerateRkpKey hands out at most one more key, as it made it.
LEMMA KeyStep ==
    ASSUME Inv, NEW test \in BOOLEAN, NEW fault, GenerateRkpKey(test, fault)
    PROVE  Inv'
<1> DEFINE n == Cardinality(issued)
           key == MadeKey(test, n)
<1>1. /\ version' = version /\ boot' = boot /\ config' = config /\ info' = info
      /\ device' = device /\ told' = told
  BY DEF GenerateRkpKey
<1>2. n < MaxKeys /\ (issued' = issued \/ issued' = issued \cup {key})
  BY Zenon DEF GenerateRkpKey, MadeKey
<1>3. result'.status \in 0 .. 6 /\ result'.op = "key"
  <2> DEFINE error == CASE version = 0 -> kStatusFailed
                        [] version >= kRkpVersionWithoutSuperencryption /\ test -> kStatusRemoved
                        [] fault = "GenerateKey" -> kStatusFailed
                        [] OTHER -> KM_ERROR_OK
  <2>1. result' = [op |-> "key", status |-> -error, request |-> <<>>, response |-> <<>>]
    BY DEF GenerateRkpKey, Refuse, Respond
  <2>2. error \in {-6, -1, 0}
    BY DEF kStatusFailed, kStatusRemoved, KM_ERROR_OK
  <2> HIDE DEF error
  <2>3. -error \in 0 .. 6
    BY <2>2
  <2> QED
    BY <2>1, <2>3
<1>4. KeyInv /\ IsFiniteSet(issued) /\ n \in Nat
  BY FS_CardinalityType DEF Inv, IssuedInv
<1>5. CASE issued' = issued
  BY <1>1, <1>3, <1>5, KeptParts, QuietResult DEF Inv
<1>6. CASE issued' = issued \cup {key}
  <2>1. KeyInv'
    <3>1. ASSUME NEW k \in issued \cup {key} PROVE \E t \in BOOLEAN, m \in Nat : k = MadeKey(t, m)
      BY <1>4 DEF KeyInv
    <3> HIDE DEF key
    <3>2. \A t, m : MadeKey(t, m)' = MadeKey(t, m)
      BY DEF MadeKey, constructCoseMac0, getMacFunction, ContextMacKey, CoseKey, generateCoseMac0Mac
    <3> QED
      BY <1>6, <3>1, <3>2 DEF KeyInv
  <2>2. IsFiniteSet(issued') /\ Cardinality(issued') <= MaxKeys
    <3> HIDE DEF key
    <3>1. /\ IsFiniteSet(issued \cup {key})
          /\ Cardinality(issued \cup {key}) = IF key \in issued THEN n ELSE n + 1
      BY <1>4, FS_AddElement
    <3> HIDE DEF n
    <3> QED
      BY <1>2, <1>4, <1>6, <3>1, ProvisioningAssumption
  <2>3. IssuedInv'
    BY <2>1, <2>2 DEF IssuedInv
  <2> QED
    BY <1>1, <1>3, <2>3, KeptParts, QuietResult DEF Inv
<1> QED
  BY <1>2, <1>5, <1>6

\* A value of the boot is set in both contexts, and never changed once it was told.
LEMMA SetStep ==
    ASSUME Inv, NEW field \in {"os", "vendor", "boot", "verified"}, NEW value, NEW allowed \in BOOLEAN,
           value \in IF field = "verified" THEN BootInfos ELSE PatchLevels,
           field # "os" /\ allowed => config[field] \in {UNSET, value},
           SetOnce(field, value, allowed)
    PROVE  Inv'
<1>1. version' = version /\ boot' = boot /\ device' = device /\ issued' = issued /\ told' = told
  BY DEF SetOnce
<1>2. result'.status \in 0 .. 6 /\ result'.op = field
  BY DEF SetOnce
<1>3. CASE ~allowed
  <2>1. config' = config /\ info' = info
    BY <1>3 DEF SetOnce
  <2> QED
    BY <1>1, <1>2, <2>1, KeptParts, QuietResult DEF Inv
<1>4. CASE allowed
  <2>0. config \in Configs /\ info \in Configs /\ (version # 0 => info = config)
    BY DEF Inv, ConfigInv
  <2>1. config' = [config EXCEPT ![field] = value]
        /\ info' = IF version = 0 THEN info ELSE [info EXCEPT ![field] = value]
    BY <1>4 DEF SetOnce
  <2>2. ASSUME NEW c \in Configs PROVE [c EXCEPT ![field] = value] \in Configs
    BY DEF Configs
  <2>3. config' \in Configs /\ info' \in Configs /\ (version # 0 => info' = config')
    BY <2>0, <2>1, <2>2, Zenon
  <2>4. ConfigInv'
    BY <1>1, <2>3 DEF ConfigInv, Configs
  <2>5. ASSUME NEW f \in {"vendor", "boot", "verified"} PROVE told[f] \subseteq {config'[f]} \ {UNSET}
    <3>1. told[f] \subseteq {config[f]} \ {UNSET}
      BY DEF Inv, ToldInv
    <3>2. config'[f] = IF f = field THEN value ELSE config[f]
      BY <2>0, <2>1 DEF Configs
    <3>3. f = field => config[f] \in {UNSET, value}
      BY <1>4
    <3> QED
      BY <3>1, <3>2, <3>3
  <2>6. ToldInv'
    BY <1>1, <2>5, SameProcess, Zenon DEF Inv, ToldInv
  <2> QED
    BY <1>1, <1>2, <2>4, <2>6, KeptParts, QuietResult DEF Inv
<1> QED
  BY <1>3, <1>4

\* A restart forgets all but the keys.
LEMMA RestartStep ==
    ASSUME Inv, ProvisioningRestart
    PROVE  Inv'
<1>1. /\ version' = version /\ issued' = issued /\ boot' = boot + 1 /\ boot < MaxStarts
      /\ config' = Unconfigured /\ info' = Unconfigured /\ device' = NoDevice
      /\ told' = NothingTold /\ result' = Idle
  BY DEF ProvisioningRestart
<1>2. version' \in Versions /\ boot' \in 1 .. MaxStarts
  BY <1>1, ProvisioningAssumption DEF Inv
<1>3. DeviceInv'
  BY <1>1 DEF DeviceInv, NoDevice
<1>4. ConfigInv'
  BY <1>1 DEF ConfigInv, Configs, Unconfigured
<1>5. ToldInv'
  BY <1>1 DEF ToldInv, NothingTold
<1>6. IssuedInv'
  BY <1>1 DEF Inv, IssuedInv, KeyInv, MadeKey, constructCoseMac0, getMacFunction, ContextMacKey, CoseKey,
              generateCoseMac0Mac
<1>7. ResultInv'
  BY <1>1, QuietResult DEF Idle
<1> QED
  BY <1>2, <1>3, <1>4, <1>5, <1>6, <1>7 DEF Inv

\* The invariant holds initially.
LEMMA InvInit ==
    ProvisioningInit => Inv
<1> SUFFICES ASSUME ProvisioningInit PROVE Inv
  OBVIOUS
<1>1. version \in Versions /\ boot \in 1 .. MaxStarts /\ DeviceInv
  BY ProvisioningAssumption DEF ProvisioningInit, DeviceInv
<1>2. ConfigInv
  BY DEF ProvisioningInit, ConfigInv, Configs, Unconfigured
<1>3. ToldInv
  BY DEF ProvisioningInit, ToldInv, NothingTold
<1>4. IssuedInv
  BY FS_EmptySet, ProvisioningAssumption DEF ProvisioningInit, IssuedInv, KeyInv
<1>5. ResultInv
  <2>1. result.status = 0 /\ result.op = "none"
    BY DEF ProvisioningInit, Idle
  <2>2. ~Answered("csr") /\ ~Answered("csr2")
    BY <2>1 DEF Answered
  <2>3. CsrReadable /\ CsrV2Verifies /\ EncryptedBelowRoot /\ TestChainApart
    BY <2>2, Zenon DEF CsrReadable, CsrV2Verifies, EncryptedBelowRoot, TestChainApart
  <2>4. OnlyOwnKeys
    BY <2>2 DEF OnlyOwnKeys
  <2>5. result.status \in 0 .. 6
    BY <2>1
  <2> QED
    BY <2>3, <2>4, <2>5 DEF ResultInv
<1> QED
  BY <1>1, <1>2, <1>3, <1>4, <1>5 DEF Inv

\* Every step keeps the invariant.
LEMMA InvStep ==
    Inv /\ [ProvisioningNext]_provisioningVars => Inv'
<1> SUFFICES ASSUME Inv, [ProvisioningNext]_provisioningVars PROVE Inv'
  OBVIOUS
<1>1. CASE getHardwareInfo
  <2>1. /\ version' = version /\ boot' = boot /\ config' = config /\ info' = info
        /\ device' = device /\ issued' = issued /\ told' = told
    BY <1>1 DEF getHardwareInfo
  <2>2. result'.status \in 0 .. 6 /\ result'.op = "info"
    <3> DEFINE error == IF version = 0 THEN kStatusFailed ELSE KM_ERROR_OK
    <3>1. result' = [op |-> "info", status |-> -error, request |-> <<>>, response |-> <<version>>]
      BY <1>1 DEF getHardwareInfo, Respond
    <3>2. error \in {-1, 0}
      BY DEF kStatusFailed, KM_ERROR_OK
    <3> HIDE DEF error
    <3>3. -error \in 0 .. 6
      BY <3>2
    <3> QED
      BY <3>1, <3>3
  <2> QED
    BY <2>1, <2>2, KeptParts, QuietResult DEF Inv
<1>2. ASSUME NEW test_mode \in BOOLEAN, NEW fault \in Faults, GenerateRkpKey(test_mode, fault) PROVE Inv'
  BY <1>2, KeyStep
<1>3. ASSUME NEW test_mode \in BOOLEAN, NEW keys \in KeyLists, NEW chain \in Chains,
             NEW challenge \in ChallengeSizes, NEW fault \in Faults,
             GenerateCsr(test_mode, keys, EekChain(chain), challenge, fault)
      PROVE  Inv'
  BY <1>3, CsrInv
<1>4. ASSUME NEW keys \in KeyLists, NEW challenge \in ChallengeSizes, GenerateCsrV2(keys, challenge) PROVE Inv'
  BY <1>4, Csr2Inv
<1>5. ASSUME NEW level \in PatchLevels, SetSystemVersion(level) PROVE Inv'
  BY <1>5, SetStep, Zenon DEF SetSystemVersion
<1>6. ASSUME NEW level \in PatchLevels, SetVendorPatchlevel(level) PROVE Inv'
  <2> DEFINE allowed == config["vendor"] \in {UNSET, level}
  <2>1. SetOnce("vendor", level, allowed)
    BY <1>6 DEF SetVendorPatchlevel
  <2>2. allowed \in BOOLEAN /\ (allowed => config["vendor"] \in {UNSET, level})
    OBVIOUS
  <2> HIDE DEF allowed
  <2> QED
    BY <2>1, <2>2, SetStep
<1>7. ASSUME NEW level \in PatchLevels, SetBootPatchlevel(level) PROVE Inv'
  <2> DEFINE allowed == config["boot"] \in {UNSET, level}
  <2>1. SetOnce("boot", level, allowed)
    BY <1>7 DEF SetBootPatchlevel
  <2>2. allowed \in BOOLEAN /\ (allowed => config["boot"] \in {UNSET, level})
    OBVIOUS
  <2> HIDE DEF allowed
  <2> QED
    BY <2>1, <2>2, SetStep
<1>8. ASSUME NEW b \in BootInfos, SetVerifiedBootInfo(b[1], b[2], b[3]) PROVE Inv'
  <2>1. <<b[1], b[2], b[3]>> = b
    BY BootInfoAssumption
  <2> DEFINE allowed == config["verified"] \in {UNSET, b}
  <2>2. SetOnce("verified", b, allowed)
    BY <1>8, <2>1 DEF SetVerifiedBootInfo
  <2>3. allowed \in BOOLEAN /\ (allowed => config["verified"] \in {UNSET, b})
    OBVIOUS
  <2> HIDE DEF allowed
  <2> QED
    BY <2>2, <2>3, SetStep
<1>9. CASE Collect
  <2>1. /\ version' = version /\ boot' = boot /\ config' = config /\ info' = info
        /\ device' = device /\ issued' = issued /\ told' = told
    BY <1>9 DEF Collect
  <2>2. result'.status \in 0 .. 6 /\ result'.op = "none"
    BY <1>9 DEF Collect, Idle
  <2> QED
    BY <2>1, <2>2, KeptParts, QuietResult DEF Inv
<1>10. CASE ProvisioningRestart
  BY <1>10, RestartStep
<1>11. CASE UNCHANGED provisioningVars
  <2>1. /\ version' = version /\ boot' = boot /\ config' = config /\ info' = info
        /\ device' = device /\ issued' = issued /\ told' = told /\ result' = result
    BY <1>11 DEF provisioningVars
  <2>2. ResultInv'
    <3>1. GenerateBcc(FALSE)' = GenerateBcc(FALSE)
      BY <2>1, SameProcess, Zenon
    <3>2. CsrReadable' /\ CsrV2Verifies' /\ EncryptedBelowRoot'
      BY <2>1 DEF Inv, ResultInv, CsrReadable, CsrV2Verifies, EncryptedBelowRoot, Answered
    <3>3. TestChainApart'
      BY <2>1, <3>1, Zenon DEF Inv, ResultInv, TestChainApart, Answered
    <3>4. OnlyOwnKeys'
      BY <2>1 DEF Inv, ResultInv, OnlyOwnKeys, Answered
    <3> QED
      BY <2>1, <3>2, <3>3, <3>4 DEF Inv, ResultInv
  <2> QED
    BY <2>1, <2>2, KeptParts DEF Inv
<1>12. CASE Request
  BY <1>1, <1>2, <1>3, <1>4, <1>5, <1>6, <1>7, <1>8, <1>12 DEF Request
<1> QED
  BY <1>9, <1>10, <1>11, <1>12 DEF ProvisioningNext

\* Whatever keys, chains and configurations clients pass, and however often the process is
\* started: every request that GenerateCsr or GenerateCsrV2 answers can be read and checked
\* by the server, production data goes only below the production root, test requests carry
\* another chain than the device's, and the production requests of a boot agree on it.
THEOREM ProvisioningVerifies ==
    ProvisioningSpec => []RequestsVerify
<1>1. Inv => RequestsVerify
  BY InvImplies
<1> QED
  BY <1>1, InvInit, InvStep, PTL DEF ProvisioningSpec

\* Requests are made of keys that this device handed out, undamaged and in their mode, and
\* every key that was handed out stays good across restarts.
THEOREM ProvisioningOwnKeys ==
    ProvisioningSpec => []OwnKeysOnly
<1>1. Inv => OwnKeysOnly
  BY InvImplies
<1> QED
  BY <1>1, InvInit, InvStep, PTL DEF ProvisioningSpec
=============================================================================
