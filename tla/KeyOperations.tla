---------------------------- MODULE KeyOperations ----------------------------
(***************************************************************************)
(* RSA, ECDSA, Ed25519, ECDH, X25519 and HMAC operations (rsa_operation,    *)
(* ecdsa_operation, ecdh_operation and hmac_operation), from the factory    *)
(* that admits them (operation.cpp) to the result of Finish.  A client      *)
(* sends an input in pieces; the operation feeds it to a digest, or buffers *)
(* what it must.  The crypto library is symbolic: a signature, a MAC or a   *)
(* ciphertext is a sequence of bytes that say what they were made from.     *)
(***************************************************************************)
EXTENDS Integers, FiniteSets, SequencesExt

CONSTANTS
    KeyLen,                 \* EVP_PKEY_size of the RSA key, bytes
    Modulus,                \* the RSA modulus
    OrderLen,               \* bytes of the order of the EC group
    kPssOverhead, kPkcs1UndigestedSignaturePaddingOverhead,
    MAX_ED25519_MSG_SIZE,
    kMinHmacLength,         \* kMinHmacLengthBits / 8
    DigestLen(_),           \* EVP_MD_size
    Requests,               \* what begin is called with: purpose, key and params
    Messages,               \* inputs of the operations
    MaxChunk,               \* the most bytes sent with one call
    NONE

VARIABLES
    op,       \* the operation, or NONE
    rest,     \* the part of the input that is still to be sent
    result    \* how the operation ended, until the client has taken it, or NONE

vars == <<op, rest, result>>

OK == "OK"
Fail(error) == [error |-> error]

-----------------------------------------------------------------------------
(* The factories.                                                           *)

\* The value of a repeatable tag, if there is exactly one.
Only(values) == IF Cardinality(values) = 1 THEN CHOOSE v \in values : TRUE ELSE NONE

SupportedDigests(algorithm) ==
    CASE algorithm = "RSA" -> {"NONE", "MD5", "SHA1", "SHA256", "SHA512"}
      [] algorithm \in {"EC", "ED25519"} -> {"NONE", "SHA1", "SHA256", "SHA512"}
      [] OTHER -> {"SHA1", "SHA256", "SHA512"}
SupportedPaddingModes(purpose) ==
    IF purpose \in {"SIGN", "VERIFY"} THEN {"NONE", "PKCS1_SIGN", "PSS"} ELSE {"NONE", "OAEP", "PKCS1_ENCRYPT"}

is_public_key_operation(r) == r.key.algorithm # "HMAC" /\ r.purpose \in {"VERIFY", "ENCRYPT"}

GetAndValidatePadding(r) ==
    LET padding == Only(r.params.padding)
    IN CASE padding = NONE -> "UNSUPPORTED_PADDING_MODE"
         [] padding \notin SupportedPaddingModes(r.purpose) -> "UNSUPPORTED_PADDING_MODE"
         [] ~is_public_key_operation(r) /\ padding \notin r.key.padding -> "INCOMPATIBLE_PADDING_MODE"
         [] OTHER -> OK

GetAndValidateDigest(r) ==
    LET digest == Only(r.params.digest)
    IN CASE digest = NONE -> "UNSUPPORTED_DIGEST"
         [] digest \notin SupportedDigests(r.key.algorithm) -> "UNSUPPORTED_DIGEST"
         [] ~is_public_key_operation(r) /\ digest \notin r.key.digest -> "INCOMPATIBLE_DIGEST"
         [] OTHER -> OK

\* A slip: a key that names MGF digests falls back to SHA1 all the same.
GetAndValidateMgfDigestDefault(r) ==
    LET asked == Only(r.params.mgf)
    IN CASE "OAEP" \notin r.params.padding -> [error |-> OK, digest |-> "NONE"]
         [] asked = NONE -> [error |-> OK, digest |-> "SHA1"]
         [] asked = "NONE" -> Fail("UNSUPPORTED_MGF_DIGEST")
         [] asked \notin r.key.mgf -> Fail("INCOMPATIBLE_MGF_DIGEST")
         [] OTHER -> [error |-> OK, digest |-> asked]

\* Without an MGF digest in the request SHA1 is used, unless the key names MGF
\* digests and SHA1 is not one of them.
GetAndValidateMgfDigest(r) ==
    LET asked == Only(r.params.mgf)
    IN CASE "OAEP" \notin r.params.padding -> [error |-> OK, digest |-> "NONE"]
         [] asked = NONE /\ r.key.mgf # {} /\ "SHA1" \notin r.key.mgf -> Fail("UNSUPPORTED_MGF_DIGEST")
         [] asked = NONE -> [error |-> OK, digest |-> "SHA1"]
         [] asked \notin SupportedDigests("RSA") \/ asked = "NONE" -> Fail("UNSUPPORTED_MGF_DIGEST")
         [] asked \notin r.key.mgf -> Fail("INCOMPATIBLE_MGF_DIGEST")
         [] OTHER -> [error |-> OK, digest |-> asked]

Operation(kind, padding, digest) ==
    [error |-> OK, kind |-> kind, padding |-> padding, digest |-> digest, mgf |-> "NONE",
     mac_length |-> 0, min_mac_length |-> 0, data |-> <<>>, size |-> 0, fed |-> <<>>]

CreateRsaOperation(r) ==
    LET padding == Only(r.params.padding)
        require_digest == r.purpose \in {"SIGN", "VERIFY"} \/ padding = "OAEP"
    IN CASE GetAndValidatePadding(r) # OK -> Fail(GetAndValidatePadding(r))
         [] require_digest /\ GetAndValidateDigest(r) # OK -> Fail(GetAndValidateDigest(r))
         [] OTHER -> Operation("RSA_" \o r.purpose, padding, IF require_digest THEN Only(r.params.digest) ELSE "NONE")

CreateRsaCryptOperation(r) ==
    LET mgf == GetAndValidateMgfDigest(r)
        o == CreateRsaOperation(r)
    IN CASE mgf.error # OK -> mgf
         [] o.error # OK -> o
         [] o.padding \in {"NONE", "PKCS1_ENCRYPT"} -> o
         [] o.digest = "NONE" -> Fail("INCOMPATIBLE_DIGEST")
         [] OTHER -> [o EXCEPT !.mgf = mgf.digest]

CreateEcdsaOperation(r) ==
    IF GetAndValidateDigest(r) # OK THEN Fail(GetAndValidateDigest(r))
    ELSE Operation(IF r.key.algorithm = "ED25519" /\ r.purpose = "SIGN" THEN "ED25519_SIGN" ELSE "EC_" \o r.purpose,
                   "NONE", Only(r.params.digest))

\* The factory reads the lengths; the constructor checks them, for signing only.
CreateHmacOperation(r) ==
    LET digest == Only(r.key.digest)
        asked == r.params.mac_length
        o == [Operation("HMAC_" \o r.purpose, "NONE", digest) EXCEPT
                 !.mac_length = IF asked = NONE THEN 0 ELSE asked \div 8,
                 !.min_mac_length = r.key.min_mac_length \div 8]
    IN CASE r.key.min_mac_length = NONE -> Fail("INVALID_KEY_BLOB")
         [] asked # NONE /\ r.purpose = "VERIFY" -> Fail("INVALID_ARGUMENT")
         [] asked # NONE /\ asked % 8 # 0 -> Fail("UNSUPPORTED_MAC_LENGTH")
         [] asked = NONE /\ r.purpose = "SIGN" -> Fail("MISSING_MAC_LENGTH")
         [] digest = NONE -> Fail("INVALID_KEY_BLOB")
         [] digest \in {"NONE", "MD5"} -> Fail("UNSUPPORTED_DIGEST")
         [] r.purpose = "SIGN" /\ (o.mac_length > DigestLen(digest) \/ o.mac_length < kMinHmacLength) ->
               Fail("UNSUPPORTED_MAC_LENGTH")
         [] r.purpose = "SIGN" /\ o.mac_length < o.min_mac_length -> Fail("INVALID_MAC_LENGTH")
         [] OTHER -> o

CreateEcdhOperation(r) == Operation(IF r.key.algorithm = "X25519" THEN "X25519" ELSE "ECDH", "NONE", "NONE")

CreateOperation(r) ==
    CASE r.key.algorithm = "HMAC" -> CreateHmacOperation(r)
      [] r.purpose = "AGREE_KEY" -> CreateEcdhOperation(r)
      [] r.key.algorithm # "RSA" -> CreateEcdsaOperation(r)
      [] r.purpose \in {"ENCRYPT", "DECRYPT"} -> CreateRsaCryptOperation(r)
      [] OTHER -> CreateRsaOperation(r)

-----------------------------------------------------------------------------
(* Begin.                                                                   *)

\* How a failure of the library is reported.
TranslateRsaError(reason) ==
    CASE reason = "KEY_SIZE_TOO_SMALL" -> "INCOMPATIBLE_PADDING_MODE"
      [] reason = "DATA_TOO_LARGE_FOR_KEY_SIZE" -> "INVALID_INPUT_LENGTH"
      [] reason = "DATA_TOO_LARGE_FOR_MODULUS" -> "INVALID_ARGUMENT"
      [] OTHER -> "UNKNOWN_ERROR"
TranslateLastOpenSslError(reason) ==
    IF reason = "MALLOC_FAILURE" THEN "MEMORY_ALLOCATION_FAILED" ELSE TranslateRsaError(reason)

GetOpensslPadding(o) ==
    IF o.padding = "PSS" /\ DigestLen(o.digest) * 2 + kPssOverhead > KeyLen THEN "INCOMPATIBLE_DIGEST" ELSE OK

\* The library takes no digest without padding.
SetRsaPaddingInEvpContext(o) ==
    IF GetOpensslPadding(o) # OK THEN GetOpensslPadding(o)
    ELSE IF o.padding = "NONE" THEN TranslateLastOpenSslError("UNKNOWN_PADDING_TYPE") ELSE OK

\* PSS has no undigested form, nor has OAEP.
InitDigest(o) == IF o.digest = "NONE" /\ o.padding \in {"PSS", "OAEP"} THEN "INCOMPATIBLE_DIGEST" ELSE OK

RsaDigestingBegin(o) ==
    IF InitDigest(o) # OK THEN InitDigest(o)
    ELSE IF o.digest = "NONE" THEN OK ELSE SetRsaPaddingInEvpContext(o)

BeginOperation(o) ==
    CASE o.kind \in {"RSA_SIGN", "RSA_VERIFY"} -> RsaDigestingBegin(o)
      [] o.kind \in {"RSA_ENCRYPT", "RSA_DECRYPT"} -> InitDigest(o)
      [] o.kind = "ED25519_SIGN" -> IF o.digest # "NONE" THEN "UNSUPPORTED_DIGEST" ELSE OK
      [] OTHER -> OK

-----------------------------------------------------------------------------
(* Update.  size is that of the buffer data_: what is reserved is on top of  *)
(* what the buffer already holds.                                           *)

reserve(o, n) == IF o.size - Len(o.data) < n THEN Len(o.data) + n ELSE o.size

RsaStoreData(o, chunk) ==
    IF Len(chunk) > reserve(o, KeyLen) - Len(o.data) THEN Fail("INVALID_INPUT_LENGTH")
    ELSE [o EXCEPT !.size = reserve(o, KeyLen), !.data = @ \o chunk]

\* A slip: the last bytes of a long piece are kept, not the first.
EcdsaStoreDataLast(o, chunk) ==
    LET room == reserve(o, OrderLen) - Len(o.data)
    IN [o EXCEPT !.size = reserve(o, OrderLen),
                 !.data = @ \o SubSeq(chunk, Len(chunk) - Min({room, Len(chunk)}) + 1, Len(chunk))]

\* Only the leftmost bytes count for ECDSA; of each piece what fits is kept.
EcdsaStoreData(o, chunk) ==
    LET room == reserve(o, OrderLen) - Len(o.data)
    IN [o EXCEPT !.size = reserve(o, OrderLen), !.data = @ \o SubSeq(chunk, 1, Min({room, Len(chunk)}))]

StoreAllData(o, chunk) ==
    IF Len(o.data) + Len(chunk) > MAX_ED25519_MSG_SIZE THEN Fail("INVALID_INPUT_LENGTH")
    ELSE [o EXCEPT !.size = reserve(o, Len(chunk)), !.data = @ \o chunk]

Digested(o) == o.digest # "NONE" /\ o.kind \in {"RSA_SIGN", "RSA_VERIFY", "EC_SIGN", "EC_VERIFY", "HMAC_SIGN", "HMAC_VERIFY"}

UpdateOperation(o, chunk) ==
    CASE Digested(o) -> [o EXCEPT !.fed = @ \o chunk]
      [] o.kind \in {"EC_SIGN", "EC_VERIFY"} -> EcdsaStoreData(o, chunk)
      [] o.kind = "ED25519_SIGN" -> StoreAllData(o, chunk)
      [] o.kind \in {"ECDH", "X25519"} -> o
      [] OTHER -> RsaStoreData(o, chunk)

UpdateForFinish(o, chunk) == IF chunk = <<>> THEN o ELSE UpdateOperation(o, chunk)

-----------------------------------------------------------------------------
(* Finish, with the library (external) in terms of whole blocks.            *)

Done(output) == [error |-> OK, output |-> output]

\* A byte of a message is <<0>> or <<1>>; made bytes say what they were made from.
Made(what, n) == [i \in 1 .. n |-> <<i, what>>]
MadeFrom(bytes) ==
    IF bytes # <<>> /\ Len(bytes[1]) = 2 /\ bytes = Made(bytes[1][2], Len(bytes)) THEN bytes[1][2] ELSE NONE
IsNumber(bytes) == \A i \in DOMAIN bytes : Len(bytes[i]) = 1
ValueOf(bytes) == FoldLeft(LAMBDA n, b : 2 * n + b[1], 0, bytes)

zero_pad_left(data, n) == [i \in 1 .. n - Len(data) |-> <<0>>] \o data

\* RSA without padding: what is below the modulus, and each direction undoes the other.
RsaRaw(direction, block) ==
    LET from == MadeFrom(block)
    IN CASE IsNumber(block) /\ ValueOf(block) >= Modulus -> Fail(TranslateLastOpenSslError("DATA_TOO_LARGE_FOR_MODULUS"))
         [] from # NONE /\ from[1] \in {"private", "public"} \ {direction} -> Done(from[2])
         [] OTHER -> Done(Made(<<direction, block>>, KeyLen))
\* What the library's paddings add to the data.
Overhead(o) == IF o.padding = "OAEP" THEN DigestLen(o.digest) * 2 + 2 ELSE kPkcs1UndigestedSignaturePaddingOverhead

SignUndigested(o) ==
    CASE o.padding = "NONE" /\ Len(o.data) > KeyLen -> Fail("INVALID_INPUT_LENGTH")
      [] o.padding = "NONE" -> RsaRaw("private", zero_pad_left(o.data, KeyLen))
      [] Len(o.data) + kPkcs1UndigestedSignaturePaddingOverhead > KeyLen -> Fail("INVALID_INPUT_LENGTH")
      [] OTHER -> Done(Made(<<"pkcs1", o.data>>, KeyLen))

SignDigested(o) ==
    IF o.padding = "PSS" /\ 2 * DigestLen(o.digest) + 2 > KeyLen THEN Fail(TranslateLastOpenSslError("KEY_SIZE_TOO_SMALL"))
    ELSE Done(Made(<<o.padding, o.digest, o.fed>>, KeyLen))

\* The signature is undone and compared with the data: all of it, zeros to the left of a
\* short message, when unpadded; as many bytes as the signature gives when padded.
VerifyUndigested(o, sig) ==
    LET block == MadeFrom(sig)[2]
    IN CASE o.padding = "NONE" /\ Len(o.data) > KeyLen -> Fail("INVALID_INPUT_LENGTH")
         [] o.padding # "NONE" /\ Len(o.data) + kPkcs1UndigestedSignaturePaddingOverhead > KeyLen ->
               Fail("INVALID_INPUT_LENGTH")
         [] Len(sig) # KeyLen \/ MadeFrom(sig) = NONE -> Fail("VERIFICATION_FAILED")
         [] MadeFrom(sig)[1] # (IF o.padding = "NONE" THEN "private" ELSE "pkcs1") -> Fail("VERIFICATION_FAILED")
         [] o.padding = "NONE" -> IF block = zero_pad_left(o.data, KeyLen) THEN Done(<<>>) ELSE Fail("VERIFICATION_FAILED")
         [] OTHER -> IF IsPrefix(block, o.data) THEN Done(<<>>) ELSE Fail("VERIFICATION_FAILED")

\* The comparison of a padded signature runs on into the unwritten part of the buffer
\* when the data is shorter than what was signed; what is there decides.
ComparesUnwritten(o, sig) ==
    /\ o.kind = "RSA_VERIFY" /\ o.digest = "NONE" /\ o.padding = "PKCS1_SIGN"
    /\ MadeFrom(sig) # NONE /\ Len(sig) = KeyLen /\ MadeFrom(sig)[1] = "pkcs1"
    /\ IsPrefix(o.data, MadeFrom(sig)[2]) /\ o.data # MadeFrom(sig)[2]

VerifyDigested(o, sig) ==
    IF sig = Made(<<o.padding, o.digest, o.fed>>, KeyLen) THEN Done(<<>>) ELSE Fail("VERIFICATION_FAILED")

RsaEncryptFinish(o) ==
    CASE Len(o.data) + (IF o.padding = "NONE" THEN 0 ELSE Overhead(o)) > KeyLen ->
            Fail(TranslateLastOpenSslError("DATA_TOO_LARGE_FOR_KEY_SIZE"))
      [] o.padding = "NONE" -> RsaRaw("public", zero_pad_left(o.data, KeyLen))
      [] OTHER -> Done(Made(<<"sealed", o.padding, o.digest, o.mgf, o.data>>, KeyLen))

RsaDecryptFinish(o) ==
    LET padded == IF o.padding = "NONE" /\ Len(o.data) < KeyLen THEN zero_pad_left(o.data, KeyLen) ELSE o.data
        from == MadeFrom(padded)
    IN CASE Len(padded) # KeyLen -> Fail(TranslateLastOpenSslError("DATA_LEN_NOT_EQUAL_TO_MOD_LEN"))
         [] o.padding = "NONE" -> RsaRaw("private", padded)
         [] from # NONE /\ from[1] = "sealed" /\ SubSeq(from, 1, 4) = <<"sealed", o.padding, o.digest, o.mgf>> -> Done(from[5])
         [] OTHER -> Fail(TranslateLastOpenSslError("PADDING_CHECK_FAILED"))

\* ECDSA_sign and ECDSA_verify use the leftmost bytes of the data, as many as the order has.
Leftmost(data) == SubSeq(data, 1, Min({OrderLen, Len(data)}))
EcSignature(o) == IF o.digest = "NONE" THEN Made(<<"ecdsa", Leftmost(o.data)>>, OrderLen)
                  ELSE Made(<<"ecdsa", o.digest, o.fed>>, OrderLen)

EcdsaSignFinish(o) == Done(EcSignature(o))

EcdsaVerifyFinish(o, sig) == IF sig = EcSignature(o) THEN Done(<<>>) ELSE Fail("VERIFICATION_FAILED")

Ed25519SignFinish(o) == Done(Made(<<"ed25519", o.data>>, KeyLen))

\* A slip: the signature may be as short as the library's minimum.
HmacFinishAnyLength(o, sig) ==
    LET mac == Made(<<"hmac", o.digest, o.fed>>, DigestLen(o.digest))
    IN IF o.kind = "HMAC_SIGN" THEN Done(SubSeq(mac, 1, o.mac_length))
       ELSE IF Len(sig) > DigestLen(o.digest) \/ Len(sig) < kMinHmacLength THEN Fail("UNSUPPORTED_MAC_LENGTH")
       ELSE IF sig = SubSeq(mac, 1, Len(sig)) THEN Done(<<>>) ELSE Fail("VERIFICATION_FAILED")

HmacFinish(o, sig) ==
    LET mac == Made(<<"hmac", o.digest, o.fed>>, DigestLen(o.digest))
    IN CASE o.kind = "HMAC_SIGN" /\ o.mac_length > DigestLen(o.digest) -> Fail("UNSUPPORTED_MAC_LENGTH")
         [] o.kind = "HMAC_SIGN" -> Done(SubSeq(mac, 1, o.mac_length))
         [] Len(sig) > DigestLen(o.digest) \/ Len(sig) < kMinHmacLength -> Fail("UNSUPPORTED_MAC_LENGTH")
         [] Len(sig) < o.min_mac_length -> Fail("INVALID_MAC_LENGTH")
         [] sig # SubSeq(mac, 1, Len(sig)) -> Fail("VERIFICATION_FAILED")
         [] OTHER -> Done(<<>>)

\* Only what comes with Finish is the peer's key; it must be whole and of the same kind.
EcdhFinish(o, chunk) ==
    LET from == MadeFrom(chunk)
    IN IF from = NONE \/ Len(chunk) # OrderLen THEN Fail("INVALID_ARGUMENT")
       ELSE IF from[2] # o.kind THEN Fail("INVALID_ARGUMENT")
       ELSE Done(Made(<<"secret", from[3]>>, OrderLen))

FinishOperation(o, chunk, sig) ==
    CASE o.kind = "RSA_SIGN" -> IF o.digest = "NONE" THEN SignUndigested(o) ELSE SignDigested(o)
      [] o.kind = "RSA_VERIFY" -> IF o.digest = "NONE" THEN VerifyUndigested(o, sig) ELSE VerifyDigested(o, sig)
      [] o.kind = "RSA_ENCRYPT" -> RsaEncryptFinish(o)
      [] o.kind = "RSA_DECRYPT" -> RsaDecryptFinish(o)
      [] o.kind = "EC_SIGN" -> EcdsaSignFinish(o)
      [] o.kind = "EC_VERIFY" -> EcdsaVerifyFinish(o, sig)
      [] o.kind = "ED25519_SIGN" -> Ed25519SignFinish(o)
      [] o.kind \in {"HMAC_SIGN", "HMAC_VERIFY"} -> HmacFinish(o, sig)
      [] OTHER -> EcdhFinish(o, chunk)

-----------------------------------------------------------------------------
(* The client.                                                              *)

Ready(o, message) == IF Digested(o) THEN [o EXCEPT !.fed = message] ELSE [o EXCEPT !.data = message]
Signing(o, n) == [o EXCEPT !.kind = IF o.kind = "RSA_VERIFY" THEN "RSA_SIGN" ELSE IF o.kind = "EC_VERIFY" THEN "EC_SIGN" ELSE "HMAC_SIGN",
                           !.mac_length = n]
Outputs(results) == {x.output : x \in {y \in results : y.error = OK}}
MacLengths(o) == IF o.kind = "HMAC_VERIFY" THEN 0 .. DigestLen(o.digest) ELSE {0}

\* What a client sends: a ciphertext to decrypt, a key to agree with, any message otherwise.
Inputs(o) ==
    CASE o.kind = "RSA_DECRYPT" ->
            Messages \union Outputs({RsaEncryptFinish(Ready([o EXCEPT !.padding = p], m)) : p \in {o.padding, "NONE"}, m \in Messages})
      [] o.kind \in {"ECDH", "X25519"} -> {Made(<<"key", k, "peer">>, OrderLen) : k \in {"ECDH", "X25519"}}
      [] OTHER -> Messages
\* What it has to verify: signatures of any message.
Signatures(o) ==
    IF o.kind \notin {"RSA_VERIFY", "EC_VERIFY", "HMAC_VERIFY"} THEN {<<>>}
    ELSE Outputs({FinishOperation(Ready(Signing(o, n), m), <<>>, <<>>) : n \in MacLengths(o), m \in Messages})

Ended(r, o, message, sig, outcome) ==
    [request |-> r, op |-> o, message |-> message, sig |-> sig,
     error |-> outcome.error, output |-> IF outcome.error = OK THEN outcome.output ELSE <<>>]

Init == op = NONE /\ rest = <<>> /\ result = NONE

Begin ==
    /\ op = NONE /\ result = NONE
    /\ \E r \in Requests :
          LET o == CreateOperation(r)
              error == IF o.error # OK THEN o.error ELSE BeginOperation(o)
          IN IF error # OK
             THEN result' = Ended(r, NONE, <<>>, <<>>, Fail(error)) /\ UNCHANGED <<op, rest>>
             ELSE \E message \in Inputs(o) :
                     /\ op' = [request |-> r, begun |-> o, now |-> o, message |-> message]
                     /\ rest' = message /\ UNCHANGED result

EndWith(sig, outcome) ==
    result' = Ended(op.request, op.begun, op.message, sig, outcome) /\ op' = NONE /\ rest' = <<>>

\* An error of Update ends the operation.
Update ==
    /\ op # NONE
    /\ \E n \in 1 .. Min({MaxChunk, Len(rest)}) :
          LET o == UpdateOperation(op.now, SubSeq(rest, 1, n))
          IN IF o.error # OK THEN EndWith(<<>>, o)
             ELSE op' = [op EXCEPT !.now = o] /\ rest' = SubSeq(rest, n + 1, Len(rest)) /\ UNCHANGED result

Finish ==
    /\ op # NONE
    /\ Len(rest) <= MaxChunk
    /\ \E sig \in Signatures(op.begun) :
          LET o == UpdateForFinish(op.now, rest)
              outcomes == {FinishOperation(o, rest, sig)} \union (IF ComparesUnwritten(o, sig) THEN {Done(<<>>)} ELSE {})
          IN IF o.error # OK THEN EndWith(sig, o) ELSE \E outcome \in outcomes : EndWith(sig, outcome)

\* The client takes the result.
Collect == result # NONE /\ result' = NONE /\ UNCHANGED <<op, rest>>

Next == Begin \/ Update \/ Finish \/ Collect

Spec == Init /\ [][Next]_vars

-----------------------------------------------------------------------------
KeyOperationsTypeOK ==
    /\ op # NONE => /\ Len(op.now.data) <= op.now.size
                    /\ op.now.kind = "ED25519_SIGN" => op.now.size <= MAX_ED25519_MSG_SIZE
                    /\ IsSuffix(rest, op.message)
    /\ result # NONE /\ result.error # OK => result.output = <<>>

OneShot(o, message, sig) ==
    LET fed == UpdateForFinish(o, message)
    IN IF fed.error # OK THEN fed ELSE FinishOperation(fed, message, sig)

Finished(kinds) == result # NONE /\ result.op # NONE /\ result.op.kind \in kinds

\* What an operation gives, and whether it succeeds, depends on the message and not on
\* how the client cuts it into Update calls and Finish: the buffers of StoreData, which
\* grow with every piece, refuse or keep the same bytes as if all came at once.
ResultIsOfWholeMessage ==
    Finished({"RSA_SIGN", "RSA_ENCRYPT", "RSA_DECRYPT", "EC_SIGN", "EC_VERIFY", "ED25519_SIGN", "HMAC_SIGN", "HMAC_VERIFY"}) =>
        LET whole == OneShot(result.op, result.message, result.sig)
        IN (result.error = OK <=> whole.error = OK) /\ (result.error = OK => result.output = whole.output)

\* Verification accepts exactly what signing the same message could have produced: for an
\* HMAC any length from the key's minimum up, for unpadded RSA the message with its zeros.
\* Undigested PKCS1 signatures, whose comparison is by the signature's length, are left out.
VerifyAgreesWithSign ==
    Finished({"RSA_VERIFY", "EC_VERIFY", "HMAC_VERIFY"}) =>
        LET o == result.op
            lengths == {n \in MacLengths(o) : o.kind = "HMAC_VERIFY" => n >= Max({kMinHmacLength, o.min_mac_length})}
        IN \/ o.padding = "PKCS1_SIGN" /\ o.digest = "NONE"
           \/ result.error = OK <=> result.sig \in Outputs({OneShot(Signing(o, n), result.message, <<>>) : n \in lengths})

\* Decryption with the same parameters undoes encryption; without padding it gives the
\* message filled with zeros on the left to the length of the key.
DecryptInvertsEncrypt ==
    Finished({"RSA_ENCRYPT"}) /\ result.error = OK =>
        LET back == OneShot([result.op EXCEPT !.kind = "RSA_DECRYPT"], result.output, <<>>)
            short == KeyLen - Len(result.message)
        IN back.error = OK /\ back.output = IF result.op.padding = "NONE"
                                            THEN [i \in 1 .. short |-> <<0>>] \o result.message ELSE result.message

\* An operation with the private key starts only with a padding and a digest that the key
\* authorizes, and OAEP only with an MGF digest it authorizes or, if it names none, SHA1;
\* whatever combination of absent, repeated and unsupported values begin is called with.
BeginIsAuthorized ==
    op # NONE =>
        LET r == op.request
            o == op.begun
        IN /\ r.purpose \in {"SIGN", "DECRYPT"} /\ r.key.algorithm = "RSA" => o.padding \in r.key.padding
           /\ r.purpose = "SIGN" \/ (r.purpose = "DECRYPT" /\ o.padding = "OAEP") => o.digest \in r.key.digest
           /\ o.padding = "OAEP" => o.mgf \in (IF r.key.mgf = {} THEN {"SHA1"} ELSE r.key.mgf)

\* A PSS or HMAC signature that begin accepts can be made: its checks of digest, key and
\* MAC lengths leave nothing for Finish to refuse.
AdmittedCanBeSigned ==
    op # NONE /\ (op.begun.padding = "PSS" \/ op.begun.kind = "HMAC_SIGN") /\ op.request.purpose = "SIGN" =>
        OneShot(op.begun, <<>>, <<>>).error = OK
=============================================================================
