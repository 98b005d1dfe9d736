---------------------------- MODULE BlockCipher ----------------------------
(***************************************************************************)
(* A symmetric cipher operation (km_openssl/block_cipher_operation.cpp,     *)
(* with the AES and 3DES tables of aes_operation.cpp and                    *)
(* triple_des_operation.cpp): how the message a client sends in pieces      *)
(* reaches the cipher of the crypto library.                                *)
(*                                                                         *)
(* A byte is a tuple that says where it comes from, so that a byte lost,    *)
(* repeated or moved by the buffering is visible in the result.  The        *)
(* library's cipher context (EVP_CIPHER_CTX) is external: it is modelled    *)
(* from how the code uses it, and from its comment on partial AAD blocks.   *)
(***************************************************************************)
EXTENDS Integers, Sequences, FiniteSets, SequencesExt

CONSTANTS BlockSize,          \* block_size_bytes(), scaled down
          GCM_NONCE_SIZE,     \* bytes of a GCM nonce, scaled down
          kMinGcmTagLength,   \* bits
          kMaxGcmTagLength,   \* bits
          Keys,               \* the keys: algorithm, size and authorizations
          BeginParams,        \* the parameters begin is called with
          Messages,           \* what a client may encrypt: aad and data
          None                \* an absent parameter

VARIABLES op,       \* the operation, or None
          rest,     \* what the client has not sent yet
          sent,     \* what the calls that succeeded were given
          output,   \* what they returned
          answer    \* "running" or the answer that ended the operation

vars == <<op, rest, sent, output, answer>>

OK == "OK"

(* ---------------------------- the cipher tables ------------------------ *)

\* SupportedBlockModes of the AES and the 3DES factory.
AesSupportedBlockModes == {"ECB", "CBC", "CTR", "GCM"}
TripleDesSupportedBlockModes == {"ECB", "CBC"}
SupportedBlockModes(algorithm) ==
  IF algorithm = "AES" THEN AesSupportedBlockModes ELSE TripleDesSupportedBlockModes

SupportedPaddingModes == {"NONE", "PKCS7"}

\* The cipher of a key size and mode exists, or the error of the lookup.
AesGetCipherInstance(size, mode) ==
  CASE mode \notin {"ECB", "CBC", "CTR", "GCM"} -> "UNSUPPORTED_BLOCK_MODE"
    [] size \notin {16, 24, 32} -> "UNSUPPORTED_KEY_SIZE"
    [] OTHER -> OK
TripleDesGetCipherInstance(size, mode) ==
  CASE mode \notin {"ECB", "CBC"} -> "UNSUPPORTED_BLOCK_MODE"
    [] size \notin {16, 24} -> "UNSUPPORTED_KEY_SIZE"
    [] OTHER -> OK
GetCipherInstance(key, mode) ==
  IF key.algorithm = "AES" THEN AesGetCipherInstance(key.size, mode)
                           ELSE TripleDesGetCipherInstance(key.size, mode)

allows_padding(mode) == mode \in {"ECB", "CBC"}

need_iv(mode) == mode \in {"CBC", "CTR", "GCM"}

(* ----------------- the library's cipher context (external) ------------- *)

Zero == <<"z", 0>>

PaddedToBlock(bytes) ==
  bytes \o [i \in 1 .. (-Len(bytes)) % BlockSize |-> Zero]

\* What the authenticator absorbs for one call: a partial block is completed
\* with zeros at once, "silently the wrong thing" unless it is the last one.
EvpAad(o, bytes) == [o EXCEPT !.ctx.aad = @ \o PaddedToBlock(bytes),
                              !.ctx.aad_length = @ + Len(bytes)]

\* The byte at position pos of a key stream xor, both ways.
Cipher(iv, pos, byte) == <<"c", pos, iv, byte>>
Plain(iv, pos, byte) ==
  IF byte[1] = "c" /\ byte[2] = pos /\ byte[3] = iv
    THEN byte[4] ELSE <<"g", pos>>

\* A block is enciphered as a whole: each byte depends on all of the block.
EncipherBlock(iv, block) == [i \in 1 .. BlockSize |-> <<"c", i, iv, block>>]
DecipherBlock(iv, block) ==
  IF \A i \in 1 .. BlockSize :
       /\ block[i][1] = "c" /\ block[i][2] = i /\ block[i][3] = iv
       /\ block[i][4] = block[1][4]
    THEN block[1][4] ELSE [i \in 1 .. BlockSize |-> <<"g", i>>]

\* The whole blocks of a sequence of bytes, each through F.
MapBlocks(F(_), bytes) ==
  FlattenSeq([b \in 1 .. Len(bytes) \div BlockSize |->
                F(SubSeq(bytes, (b - 1) * BlockSize + 1, b * BlockSize))])

IsStream(o) == o.block_mode \in {"CTR", "GCM"}

\* EVP_CipherUpdate on data: [op, out].  A padded decryption keeps the last
\* whole block back until more input shows that it is not the final one.
EvpData(o, bytes) ==
  IF IsStream(o)
    THEN LET at == Len(o.ctx.data) IN
         [op |-> [o EXCEPT !.ctx.data = @ \o bytes],
          out |-> [i \in 1 .. Len(bytes) |->
                     IF o.purpose = "ENCRYPT" THEN Cipher(o.iv, at + i, bytes[i])
                                              ELSE Plain(o.iv, at + i, bytes[i])]]
    ELSE LET all == o.ctx.held \o bytes
             whole == (Len(all) \div BlockSize) * BlockSize
             keep == o.purpose = "DECRYPT" /\ o.padding = "PKCS7"
                       /\ whole = Len(all) /\ whole > 0
             n == IF keep THEN whole - BlockSize ELSE whole
             F(b) == IF o.purpose = "ENCRYPT" THEN EncipherBlock(o.iv, b)
                                              ELSE DecipherBlock(o.iv, b)
         IN [op |-> [o EXCEPT !.ctx.data = @ \o bytes,
                              !.ctx.held = SubSeq(all, n + 1, Len(all))],
             out |-> MapBlocks(F, SubSeq(all, 1, n))]

Tag(o) == [i \in 1 .. o.tag_length |->
             <<"t", i, o.iv, <<o.ctx.aad, o.ctx.aad_length, o.ctx.data>>>>]

\* The tag a decryption computes is over the ciphertext as an encryption
\* would have produced it from the plaintext it recovered.
TagMatches(o) ==
  o.ctx.tag = [i \in 1 .. o.tag_length |->
                 <<"t", i, o.iv,
                   <<o.ctx.aad, o.ctx.aad_length,
                     [p \in 1 .. Len(o.ctx.data) |-> Plain(o.iv, p, o.ctx.data[p])]>>>>]

\* The number of pad bytes that a final plaintext block ends with, or 0.
PadCount(block) ==
  LET last == block[BlockSize] IN
  IF /\ last[1] = "k" /\ last[2] \in 1 .. BlockSize
     /\ \A i \in BlockSize - last[2] + 1 .. BlockSize : block[i] = last
    THEN last[2] ELSE 0

\* EVP_CipherFinal_ex: [error, out], the error being the library's reason.
EvpFinal(o) ==
  LET held == o.ctx.held
      short == BlockSize - Len(held)
      block == DecipherBlock(o.iv, held)
      Fails(reason) == [error |-> reason, out |-> <<>>]
      Gives(out) == [error |-> OK, out |-> out]
  IN CASE IsStream(o) ->
            IF o.purpose = "DECRYPT" /\ o.block_mode = "GCM" /\ ~TagMatches(o)
              THEN Fails("BAD_DECRYPT") ELSE Gives(<<>>)
       [] ~IsStream(o) /\ o.padding = "NONE" ->
            IF held # <<>> THEN Fails("DATA_NOT_MULTIPLE_OF_BLOCK_LENGTH") ELSE Gives(<<>>)
       [] ~IsStream(o) /\ o.padding = "PKCS7" /\ o.purpose = "ENCRYPT" ->
            Gives(EncipherBlock(o.iv, held \o [i \in 1 .. short |-> <<"k", short>>]))
       [] OTHER ->
            IF Len(held) # BlockSize THEN Fails("WRONG_FINAL_BLOCK_LENGTH")
            ELSE IF PadCount(block) = 0 THEN Fails("BAD_DECRYPT")
            ELSE Gives(SubSeq(block, 1, BlockSize - PadCount(block)))

TranslateCipherError(reason) ==
  IF reason = "BAD_DECRYPT" THEN "INVALID_ARGUMENT" ELSE "INVALID_INPUT_LENGTH"

(* ----------------------------- associated data ------------------------- *)

\* Every helper below maps the operation to the operation after the call.
ProcessBufferedAadBlock(o) == [EvpAad(o, o.aad_block_buf) EXCEPT !.aad_block_buf = <<>>]

\* [op, aad]: the buffer topped up, and what is left of the input.
FillBufferedAadBlock(o, aad) ==
  LET to_buffer == Min({BlockSize - Len(o.aad_block_buf), Len(aad)}) IN
  [op |-> [o EXCEPT !.aad_block_buf = @ \o SubSeq(aad, 1, to_buffer)],
   aad |-> SubSeq(aad, to_buffer + 1, Len(aad))]

\* The whole blocks go to the library in one call, the rest is buffered.
ProcessAadBlocks(o, aad) ==
  LET n == (Len(aad) \div BlockSize) * BlockSize IN
  [op |-> IF n > 0 THEN EvpAad(o, SubSeq(aad, 1, n)) ELSE o,
   aad |-> SubSeq(aad, n + 1, Len(aad))]

BufferAad(o, aad) ==
  LET Filled(b) == FillBufferedAadBlock(b.op, b.aad).op
      Topped(b) == ProcessAadBlocks(IF Len(b.op.aad_block_buf) = BlockSize
                                      THEN ProcessBufferedAadBlock(b.op) ELSE b.op, b.aad)
  IN Filled(Topped(IF o.aad_block_buf # <<>> THEN FillBufferedAadBlock(o, aad)
                                             ELSE [op |-> o, aad |-> aad]))

StartData(o, input) ==
  IF input = <<>> THEN o
  ELSE LET started == [o EXCEPT !.data_started = TRUE] IN
       IF started.aad_block_buf # <<>> THEN ProcessBufferedAadBlock(started)
                                       ELSE started

\* A slip: partial blocks go to the library as they come.
HandleAadUnbuffered(o, aad, input) ==
  IF aad # None /\ o.data_started THEN [error |-> "INVALID_TAG", op |-> o]
  ELSE LET given == IF aad = None THEN <<>> ELSE aad IN
       [error |-> OK,
        op |-> StartData(IF given = <<>> THEN o ELSE EvpAad(o, given), input)]

\* HandleAad: [error, op].
HandleAad(o, aad, input) ==
  IF aad # None /\ o.data_started THEN [error |-> "INVALID_TAG", op |-> o]
  ELSE [error |-> OK,
        op |-> StartData(IF aad = None THEN o ELSE BufferAad(o, aad), input)]

(* -------------------------------- data --------------------------------- *)

\* InternalUpdate: [op, out].
InternalUpdate(o, input) ==
  IF input = <<>> THEN [op |-> o, out |-> <<>>] ELSE EvpData(o, input)

\* The last tag_length bytes seen so far may be the tag, and are held back.
BufferCandidateTagData(o, bytes) == [o EXCEPT !.tag_buf = @ \o bytes]

ProcessTagBufContentsAsData(o, to_process) ==
  LET Moved(done) == [op |-> [done.op EXCEPT !.tag_buf = SubSeq(@, to_process + 1, Len(@))],
                      out |-> done.out]
  IN Moved(InternalUpdate(o, SubSeq(o.tag_buf, 1, to_process)))

\* After from_tag_buf of the bytes held back, from_input of the new ones are data; the
\* others are held back.
ProcessAllBut(o, input, from_tag_buf, from_input) ==
  LET Buffered(old, new) ==
        [op |-> BufferCandidateTagData(new.op, SubSeq(input, from_input + 1, Len(input))),
         out |-> old.out \o new.out]
      Processed(old) == Buffered(old, InternalUpdate(old.op, SubSeq(input, 1, from_input)))
  IN Processed(ProcessTagBufContentsAsData(o, from_tag_buf))

\* A slip: the tag buffer is emptied whenever new input does not fit in it.
FlushTagBuffer(o, input) ==
  IF Len(input) <= o.tag_length - Len(o.tag_buf)
    THEN [op |-> BufferCandidateTagData(o, input), out |-> <<>>]
    ELSE ProcessAllBut(o, input, Len(o.tag_buf), Max({0, Len(input) - o.tag_length}))

ProcessAllButTagLengthBytes(o, input) ==
  IF Len(input) <= o.tag_length - Len(o.tag_buf)
    THEN [op |-> BufferCandidateTagData(o, input), out |-> <<>>]
    ELSE LET to_process == Len(o.tag_buf) + Len(input) - o.tag_length
             from_tag_buf == Min({to_process, Len(o.tag_buf)})
         IN ProcessAllBut(o, input, from_tag_buf, to_process - from_tag_buf)

\* Update of the encrypting and of the decrypting operation: [error, op, out].
AadFirst(o, aad, input) ==
  IF o.block_mode = "GCM" THEN HandleAad(o, aad, input) ELSE [error |-> OK, op |-> o]
Refused(error, o) == [error |-> error, op |-> o, out |-> <<>>]
Processed(d) == [error |-> OK, op |-> d.op, out |-> d.out]

EncryptUpdate(o, aad, input) ==
  LET Data(a) == IF a.error # OK THEN Refused(a.error, o) ELSE Processed(InternalUpdate(a.op, input))
  IN Data(AadFirst(o, aad, input))

DecryptUpdate(o, aad, input) ==
  LET Data(a) == IF a.error # OK THEN Refused(a.error, o)
                 ELSE Processed(IF o.block_mode = "GCM" THEN ProcessAllButTagLengthBytes(a.op, input)
                                                        ELSE InternalUpdate(a.op, input))
  IN Data(AadFirst(o, aad, input))

\* The virtual Update the base class calls.
UpdateOf(o, aad, input) ==
  IF o.purpose = "ENCRYPT" THEN EncryptUpdate(o, aad, input) ELSE DecryptUpdate(o, aad, input)

\* UpdateForFinish calls Update only when there is something to give it.
UpdateForFinish(o, aad, input) ==
  IF input # <<>> \/ aad # None THEN UpdateOf(o, aad, input)
                                 ELSE [error |-> OK, op |-> o, out |-> <<>>]

\* The base class's Finish after its UpdateForFinish: [error, op, out].
FinalBlock(o) ==
  LET Result(flushed, final) ==
        [error |-> IF final.error = OK THEN OK
                   ELSE IF o.tag_length > 0 THEN "VERIFICATION_FAILED"
                   ELSE TranslateCipherError(final.error),
         op |-> flushed, out |-> final.out]
      Final(flushed) == Result(flushed, EvpFinal(flushed))
  IN Final(IF o.block_mode = "GCM" /\ o.aad_block_buf # <<>> THEN ProcessBufferedAadBlock(o) ELSE o)

EncryptFinish(o, aad, input) ==
  LET Joined(u, f) == [f EXCEPT !.out = u.out \o @ \o (IF f.error = OK THEN Tag(f.op) ELSE <<>>)]
      Final(u) == IF u.error # OK THEN u ELSE Joined(u, FinalBlock(u.op))
  IN Final(UpdateForFinish(o, aad, input))

DecryptFinish(o, aad, input) ==
  LET Final(u) ==
        IF u.error # OK THEN u
        ELSE IF Len(u.op.tag_buf) < o.tag_length THEN [u EXCEPT !.error = "INVALID_INPUT_LENGTH"]
        ELSE [FinalBlock([u.op EXCEPT !.ctx.tag = u.op.tag_buf]) EXCEPT !.out = u.out \o @]
  IN Final(UpdateForFinish(o, aad, input))

FinishOf(o, aad, input) ==
  IF o.purpose = "ENCRYPT" THEN EncryptFinish(o, aad, input) ELSE DecryptFinish(o, aad, input)

(* -------------------------------- begin -------------------------------- *)

GetAndValidateGcmTagLength(key, params) ==
  LET bits == params.mac_length IN
  CASE bits = None -> "MISSING_MAC_LENGTH"
    [] bits # None /\ key.min_mac_length = None -> "INVALID_KEY_BLOB"
    [] OTHER ->
         IF bits % 8 # 0 \/ bits > kMaxGcmTagLength \/ bits < kMinGcmTagLength
           THEN "UNSUPPORTED_MAC_LENGTH"
         ELSE IF bits < key.min_mac_length THEN "INVALID_MAC_LENGTH" ELSE OK

GetAndValidatePadding(key, params) ==
  CASE params.padding = None \/ params.padding \notin SupportedPaddingModes ->
         "UNSUPPORTED_PADDING_MODE"
    [] OTHER -> IF params.padding \notin key.paddings THEN "INCOMPATIBLE_PADDING_MODE" ELSE OK

\* BlockCipherOperationFactory::CreateOperation: the first check that fails.
CreateOperationError(key, params) ==
  LET mode == params.block_mode
      tag == IF mode = "GCM" THEN GetAndValidateGcmTagLength(key, params) ELSE OK
      pad == GetAndValidatePadding(key, params)
  IN CASE mode = None \/ mode \notin SupportedBlockModes(key.algorithm) ->
            "UNSUPPORTED_BLOCK_MODE"
       [] OTHER ->
            IF mode \notin key.block_modes THEN "INCOMPATIBLE_BLOCK_MODE"
            ELSE IF tag # OK THEN tag
            ELSE IF pad # OK THEN pad
            ELSE IF ~allows_padding(mode) /\ params.padding # "NONE"
              THEN "INCOMPATIBLE_PADDING_MODE" ELSE OK

\* GetIv's checks of a nonce the client gave.
GetIvError(mode, nonce) ==
  CASE nonce = None -> "INVALID_ARGUMENT"
    [] OTHER ->
         IF nonce.length # (IF mode = "GCM" THEN GCM_NONCE_SIZE ELSE BlockSize)
           THEN "INVALID_NONCE" ELSE OK

GenerateIv(mode) ==
  [length |-> IF mode = "GCM" THEN GCM_NONCE_SIZE ELSE BlockSize, value |-> "random"]

\* The initialization vector of an encryption and of a decryption: [error, iv].
EncryptIv(key, params) ==
  CASE ~need_iv(params.block_mode) -> [error |-> OK, iv |-> None]
    [] need_iv(params.block_mode) /\ params.nonce = None ->
         [error |-> OK, iv |-> GenerateIv(params.block_mode)]
    [] OTHER ->
         IF ~key.caller_nonce THEN [error |-> "CALLER_NONCE_PROHIBITED", iv |-> None]
         ELSE [error |-> GetIvError(params.block_mode, params.nonce), iv |-> params.nonce]

DecryptIv(params) ==
  IF need_iv(params.block_mode)
    THEN [error |-> GetIvError(params.block_mode, params.nonce), iv |-> params.nonce]
    ELSE [error |-> OK, iv |-> None]

BeginError(key, purpose, params) ==
  LET iv == IF purpose = "ENCRYPT" THEN EncryptIv(key, params) ELSE DecryptIv(params) IN
  IF CreateOperationError(key, params) # OK THEN CreateOperationError(key, params)
  ELSE IF iv.error # OK THEN iv.error
  ELSE GetCipherInstance(key, params.block_mode)

NewOperation(key, purpose, params) ==
  [purpose |-> purpose, block_mode |-> params.block_mode, padding |-> params.padding,
   tag_length |-> IF params.block_mode = "GCM" THEN params.mac_length \div 8 ELSE 0,
   iv |-> (IF purpose = "ENCRYPT" THEN EncryptIv(key, params) ELSE DecryptIv(params)).iv,
   data_started |-> FALSE, aad_block_buf |-> <<>>, tag_buf |-> <<>>,
   ctx |-> [aad |-> <<>>, aad_length |-> 0, data |-> <<>>, held |-> <<>>, tag |-> <<>>]]

(* ------------------------- one-shot reference -------------------------- *)

\* What one call with the whole message would give: the definition of the
\* cipher modes, with no buffering in it.
OneShotEncrypt(o, m) ==
  LET short == BlockSize - (Len(m.data) % BlockSize)
      padded == IF o.padding = "PKCS7"
                  THEN m.data \o [i \in 1 .. short |-> <<"k", short>>] ELSE m.data
      Encipher(b) == EncipherBlock(o.iv, b)
      tag == [i \in 1 .. o.tag_length |->
                <<"t", i, o.iv, <<PaddedToBlock(m.aad), Len(m.aad), m.data>>>>]
  IN IF IsStream(o) THEN [i \in DOMAIN m.data |-> Cipher(o.iv, i, m.data[i])] \o tag
                    ELSE MapBlocks(Encipher, padded)

\* A mode without padding has no encryption of a partial block.
Encryptable(o, m) ==
  IsStream(o) \/ o.padding = "PKCS7" \/ Len(m.data) % BlockSize = 0

\* What a client gives a decryption: a ciphertext, one cut short, one with a
\* changed byte, or one with other associated data.
Ciphertexts(o) ==
  UNION {LET c == OneShotEncrypt(o, m) IN
           {[aad |-> m.aad, data |-> c],
            [aad |-> m.aad \o <<Zero>>, data |-> c]}
           \cup (IF c = <<>> THEN {}
                 ELSE {[aad |-> m.aad, data |-> Front(c)],
                       [aad |-> m.aad, data |-> [c EXCEPT ![1] = <<"x", 0>>]]})
         : m \in {msg \in Messages : Encryptable(o, msg)}}

(* ------------------------------ the actions ---------------------------- *)

Init ==
  /\ op = None
  /\ rest = [aad |-> <<>>, data |-> <<>>]
  /\ sent = [aad |-> <<>>, data |-> <<>>]
  /\ output = <<>>
  /\ answer = "running"

BeginOperation(key, purpose, params) ==
  /\ op = None /\ answer = "running"
  /\ LET error == BeginError(key, purpose, params)
         o == NewOperation(key, purpose, params)
     IN IF error # OK
          THEN answer' = error /\ UNCHANGED <<op, rest>>
          ELSE /\ op' = o /\ UNCHANGED answer
               /\ rest' \in (IF purpose = "ENCRYPT" THEN Messages ELSE Ciphertexts(o))
  /\ UNCHANGED <<sent, output>>

\* The next pieces of the message: a is None when the call has no AAD tag.
Pieces == ({None} \cup 0 .. Len(rest.aad)) \X (0 .. Len(rest.data))

Given(a) == IF a = None THEN None ELSE SubSeq(rest.aad, 1, a)

Took(a, d) ==
  /\ rest' = [aad |-> IF a = None THEN rest.aad ELSE SubSeq(rest.aad, a + 1, Len(rest.aad)),
              data |-> SubSeq(rest.data, d + 1, Len(rest.data))]
  /\ sent' = [aad |-> IF a = None THEN sent.aad ELSE sent.aad \o SubSeq(rest.aad, 1, a),
              data |-> sent.data \o SubSeq(rest.data, 1, d)]

UpdateOperation(a, d) ==
  /\ op # None /\ answer = "running"
  /\ \E r \in {UpdateOf(op, Given(a), SubSeq(rest.data, 1, d))} :
     IF r.error = OK
       THEN /\ op' = r.op /\ output' = output \o r.out
            /\ Took(a, d) /\ UNCHANGED answer
       ELSE answer' = r.error /\ UNCHANGED <<op, rest, sent, output>>

FinishOperation(a, d) ==
  /\ op # None /\ answer = "running"
  /\ \E r \in {FinishOf(op, Given(a), SubSeq(rest.data, 1, d))} :
     /\ op' = r.op
     /\ answer' = r.error
     /\ output' = output \o r.out
     /\ IF r.error = "INVALID_TAG" THEN UNCHANGED <<rest, sent>> ELSE Took(a, d)

Next ==
  \/ \E key \in Keys, purpose \in {"ENCRYPT", "DECRYPT"}, params \in BeginParams :
        BeginOperation(key, purpose, params)
  \/ \E piece \in Pieces : UpdateOperation(piece[1], piece[2])
  \/ \E piece \in Pieces : FinishOperation(piece[1], piece[2])

Spec == Init /\ [][Next]_vars

(* ------------------------------ properties ----------------------------- *)

\* Types; in particular the buffers of AAD and of tag candidates never exceed
\* the arrays of InitializeCipher and Begin, as the asserts of the code say.
BlockCipherTypeOK ==
  /\ answer \in STRING
  /\ op # None =>
       /\ Len(op.aad_block_buf) \in 0 .. BlockSize - 1
       /\ Len(op.tag_buf) \in 0 .. op.tag_length
       /\ op.data_started \in BOOLEAN

\* The calls ended the operation, and none was refused for late AAD.
Ended == op # None /\ answer \notin {"running", "INVALID_TAG"}

\* However a message is split over update and finish calls, an encryption
\* that succeeds has produced what one call with the whole message would, tag
\* included; and it fails only when the input is no whole number of blocks and
\* the mode does not pad (Finish, lines 190-215 and 423-445).
EncryptMatchesOneShot ==
  Ended /\ op.purpose = "ENCRYPT" =>
    IF answer = OK THEN output = OneShotEncrypt(op, sent)
    ELSE ~Encryptable(op, sent)

\* A decryption succeeds with the plaintext exactly when what it was sent is
\* the encryption of that plaintext with that AAD, however the input was
\* split, a tag split over several updates included; an authenticated mode
\* accepts nothing else (DecryptFinish and the tag buffer, lines 489-553).
DecryptInvertsEncrypt ==
  Ended /\ op.purpose = "DECRYPT" =>
    LET gcm == op.block_mode = "GCM"
        Origins == {m \in Messages : /\ Encryptable(op, m)
                                     /\ gcm => m.aad = sent.aad
                                     /\ OneShotEncrypt(op, m) = sent.data}
    IN /\ \A m \in Origins : answer = OK /\ output = m.data
       /\ gcm /\ answer = OK => Origins # {}

\* The library sees all of the associated data before any of the message: the
\* AAD buffer is empty once a byte of data has been passed on, and the tag
\* candidates of a decryption are never passed on (HandleAad, lines 301-327).
AadBeforeData ==
  op # None /\ op.block_mode = "GCM" =>
    /\ op.ctx.data # <<>> => op.aad_block_buf = <<>> /\ op.data_started
    /\ op.data_started => op.aad_block_buf = <<>>
    /\ Len(op.ctx.data) =
         (IF op.purpose = "ENCRYPT" THEN Len(sent.data)
          ELSE Max({0, Len(sent.data) - op.tag_length}))

=============================================================================
