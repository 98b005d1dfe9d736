---------------------------- MODULE MCOperations ----------------------------
(***************************************************************************)
(* The operations, and the messages that carry their data, on small        *)
(* instances: the block ciphers, the other operations, once with data and  *)
(* once with everything begin can be asked, and the messages.  They do not *)
(* interact, so a behaviour moves one of them, and the others stay as they *)
(* were made.                                                              *)
(***************************************************************************)
EXTENDS BlockCipher

CONSTANTS
    MaxAad, MaxData,
    KeyLen, Modulus, OrderLen, kPssOverhead, kPkcs1UndigestedSignaturePaddingOverhead,
    MAX_ED25519_MSG_SIZE, kMinHmacLength, NONE,
    Base, Size32, Size64, kMaxChainEntryCount, kMaxSharingParams, NonceSize, KmVersions

VARIABLES part,
          key_op, key_rest, result,
          km_version, message_version, client_version, negotiated, packet, received

cipherVars == vars
keyOpVars == <<key_op, key_rest, result>>
messageVars == <<km_version, message_version, client_version, negotiated, packet, received>>

-----------------------------------------------------------------------------
(* BlockCipher: blocks of two bytes, tags of two or three, messages of up to *)
(* five bytes of AAD or four of data.                                        *)

Cells(kind, n) == [i \in 1 .. n |-> <<kind, i>>]

Plaintexts ==
  {[aad |-> Cells("a", a), data |-> Cells("p", d)] : a \in 0 .. MaxAad, d \in 0 .. MaxData}

Key(algorithm, size, modes, paddings, caller_nonce, min_mac) ==
  [algorithm |-> algorithm, size |-> size, block_modes |-> modes, paddings |-> paddings,
   caller_nonce |-> caller_nonce, min_mac_length |-> min_mac]

Nonce(length) == [length |-> length, value |-> "given"]

\* Keys that work, and keys that some check refuses.
CipherKeys ==
  {Key("AES", 16, {"GCM", "CTR"}, {"NONE"}, TRUE, 16),
   Key("AES", 16, {"CBC", "ECB"}, {"NONE", "PKCS7"}, TRUE, None),
   Key("AES", 20, {"ECB", "GCM"}, {"PKCS7", "NONE"}, FALSE, None),
   Key("TRIPLE_DES", 24, {"ECB", "CBC"}, {"NONE"}, FALSE, None)}

CipherParams ==
  [block_mode : {"ECB", "CBC", "CTR", "GCM"}, padding : {"NONE", "PKCS7"},
   nonce : {None, Nonce(BlockSize), Nonce(GCM_NONCE_SIZE)}, mac_length : {None}]
  \cup [block_mode : {"GCM"}, padding : {"NONE"}, nonce : {None, Nonce(GCM_NONCE_SIZE)},
        mac_length : {8, 12, 16, 24, 32}]
  \cup [block_mode : {None}, padding : {"NONE"}, nonce : {None}, mac_length : {None}]
  \cup [block_mode : {"ECB"}, padding : {None}, nonce : {None}, mac_length : {None}]

-----------------------------------------------------------------------------
(* KeyOperations. *)

DigestSize(digest) == CASE digest = "SHA1" -> 1 [] digest = "SHA256" -> 3 [] OTHER -> 4

\* Messages of every length up to one more than the key has, with values around the modulus.
Inputs == {[i \in DOMAIN s |-> <<s[i]>>] : s \in {<<>>, <<0>>, <<1>>, <<0, 1>>, <<1, 0>>, <<1, 0, 1>>, <<0, 1, 0, 1>>, <<1, 1, 0, 1>>,
                                 <<0, 1, 1, 0, 1>>, <<1, 1, 0, 1, 0>>, <<1, 1, 0, 1, 1>>, <<0, 1, 1, 0, 1, 0>>,
                                 <<1, 1, 0, 1, 0, 1>>, <<1, 0, 1, 1, 0, 1, 0>>}}

OpKey(algorithm, padding, digest, mgf, min) ==
    [algorithm |-> algorithm, padding |-> padding, digest |-> digest, mgf |-> mgf, min_mac_length |-> min]
Params(padding, digest, mgf, mac) == [padding |-> padding, digest |-> digest, mgf |-> mgf, mac_length |-> mac]
Request(purpose, key, params) == [purpose |-> purpose, key |-> key, params |-> params]

AnyRsa == OpKey("RSA", {"NONE", "PKCS1_SIGN", "PSS", "PKCS1_ENCRYPT", "OAEP"}, {"NONE", "SHA1", "SHA256"}, {}, NONE)
\* Every kind of operation, to send it messages.
StreamRequests ==
    {Request(purpose, AnyRsa, Params({padding}, {digest}, {}, NONE)) :
        purpose \in {"SIGN", "VERIFY"}, padding \in {"NONE", "PKCS1_SIGN", "PSS"}, digest \in {"NONE", "SHA1"}} \union
    {Request(purpose, AnyRsa, Params({padding}, {"SHA1"}, {}, NONE)) :
        purpose \in {"ENCRYPT", "DECRYPT"}, padding \in {"NONE", "PKCS1_ENCRYPT", "OAEP"}} \union
    {Request(purpose, OpKey("EC", {}, {"NONE", "SHA1"}, {}, NONE), Params({}, {digest}, {}, NONE)) :
        purpose \in {"SIGN", "VERIFY"}, digest \in {"NONE", "SHA1"}} \union
    {Request("SIGN", OpKey("ED25519", {}, {"NONE"}, {}, NONE), Params({}, {"NONE"}, {}, NONE))} \union
    {Request("AGREE_KEY", OpKey(a, {}, {}, {}, NONE), Params({}, {}, {}, NONE)) : a \in {"EC", "X25519"}} \union
    {Request("SIGN", OpKey("HMAC", {}, {"SHA256"}, {}, 16), Params({}, {}, {}, 16)),
     Request("VERIFY", OpKey("HMAC", {}, {"SHA256"}, {}, 16), Params({}, {}, {}, NONE))}

\* Every combination of what keys authorize and what begin asks for, without data.
AdmissionRequests ==
    {Request(purpose, OpKey("RSA", kp, kd, km, NONE), Params(p, d, m, NONE)) :
        purpose \in {"SIGN", "VERIFY", "ENCRYPT", "DECRYPT"},
        kp \in {{"OAEP", "PSS"}, {"NONE", "PKCS1_SIGN"}}, kd \in {{"SHA1"}, {"NONE", "SHA256"}}, km \in {{}, {"SHA256"}, {"SHA1", "SHA256"}},
        p \in {{}, {"NONE"}, {"PKCS1_SIGN"}, {"PSS"}, {"OAEP"}, {"NONE", "OAEP"}},
        d \in {{}, {"NONE"}, {"SHA1"}, {"SHA256"}, {"SHA1", "SHA256"}}, m \in {{}, {"NONE"}, {"SHA1"}, {"SHA256"}}} \union
    {Request(purpose, OpKey(a, {}, kd, {}, NONE), Params({}, d, {}, NONE)) :
        purpose \in {"SIGN", "VERIFY"}, a \in {"EC"}, kd \in {{"SHA1"}, {"NONE"}}, d \in {{}, {"MD5"}, {"NONE"}, {"SHA1"}, {"NONE", "SHA1"}}} \union
    {Request("SIGN", OpKey("ED25519", {}, {"SHA1", "NONE"}, {}, NONE), Params({}, {d}, {}, NONE)) : d \in {"SHA1", "NONE"}} \union
    {Request(purpose, OpKey("HMAC", {}, kd, {}, min), Params({}, {}, {}, mac)) :
        purpose \in {"SIGN", "VERIFY"}, kd \in {{}, {"NONE"}, {"SHA256"}, {"SHA1", "SHA256"}}, min \in {NONE, 8, 16},
        mac \in {NONE, 0, 8, 12, 16, 24, 32}}
NoMessages == {<<>>}

Running == INSTANCE KeyOperations WITH
    op <- key_op, rest <- key_rest, DigestLen <- DigestSize,
    Requests <- StreamRequests, Messages <- Inputs, MaxChunk <- 7
Beginning == INSTANCE KeyOperations WITH
    op <- key_op, rest <- key_rest, DigestLen <- DigestSize,
    Requests <- AdmissionRequests, Messages <- NoMessages, MaxChunk <- 1

-----------------------------------------------------------------------------
(* Messages: all but the one whose size function is a constant. *)

Layouts == INSTANCE Messages WITH Messages <- {}
ConsistentMessages == Layouts!AllMessages \ {"DeviceLockedRequest"}
Messaging == INSTANCE Messages WITH Messages <- ConsistentMessages

-----------------------------------------------------------------------------

OperationsInit ==
    /\ part \in {"cipher", "running", "beginning", "messaging"}
    /\ Init
    /\ Running!Init
    /\ Messaging!Init /\ (part # "messaging" => km_version = "KEYMINT_3")

OperationsNext ==
    /\ UNCHANGED part
    /\ \/ part = "cipher" /\ Next /\ UNCHANGED <<keyOpVars, messageVars>>
       \/ part = "running" /\ Running!Next /\ UNCHANGED <<cipherVars, messageVars>>
       \/ part = "beginning" /\ Beginning!Next /\ UNCHANGED <<cipherVars, messageVars>>
       \/ part = "messaging" /\ Messaging!Next /\ UNCHANGED <<cipherVars, keyOpVars>>

OperationsSpec == OperationsInit /\ [][OperationsNext]_<<part, cipherVars, keyOpVars, messageVars>>

-----------------------------------------------------------------------------
(* The properties of the parts; those of the block ciphers are in scope.     *)

\* However AAD, data and tag are split over calls, the cipher is given all AAD before any
\* data, and the output is that of one call with the whole message; what
\* is buffered stays below a block or a tag.
CipherMatchesOneShot == BlockCipherTypeOK /\ AadBeforeData /\ EncryptMatchesOneShot

\* What an operation gives, and whether it succeeds, depends on the message and not on
\* how the client cuts it into Update calls and Finish: the buffers of StoreData, which
\* grow with every piece, refuse or keep the same bytes as if all came at once.
ResultIsOfWholeMessage == Running!KeyOperationsTypeOK /\ Running!ResultIsOfWholeMessage

\* Verification accepts exactly what signing the same message could have produced (for an
\* HMAC any length from the key's minimum up, for unpadded RSA the message with its
\* zeros), and RSA decryption undoes encryption.
InverseOperationsAgree == Running!VerifyAgreesWithSign /\ Running!DecryptInvertsEncrypt

\* An operation with the private key starts only with a padding and a digest that the key
\* authorizes, and OAEP only with an MGF digest it authorizes or, if it names none, SHA1;
\* and a PSS or HMAC signature that begin accepts can be made: nothing is left for Finish
\* to refuse.
StartedIsAllowed ==
    part = "beginning" => Beginning!BeginIsAuthorized /\ Beginning!AdmittedCanBeSigned

\* A message given the SerializedSize() bytes it asks for, which is what Serialize()
\* writes, reaches the other side as it was sent, at every version two sides settle on
\* with GetVersion2; one whose buffer was too small is refused, and the fields that did
\* fit are never taken for a message.
ReceivedOrRefused ==
    /\ Messaging!MessagesTypeOK
    /\ Messaging!SizeIsExact
    /\ Messaging!Understood
    /\ Messaging!ShortIsRefused

\* When the two sides do not use the same version, a reader reads a prefix of the
\* fields or refuses the message: it never reads one field as another.
SkewIsSafe == Messaging!SkewIsSafe
=============================================================================
