----------------------------- MODULE HmacSharing -----------------------------
(***************************************************************************)
(* The shared HMAC key of SoftKeymasterEnforcement and the tokens made      *)
(* with it.  Several Keymaster and KeyMint instances (Parties) publish      *)
(* their parameters (GetHmacSharingParameters), each is given a list of     *)
(* parameters (ComputeSharedHmac) and derives a key from it with ckdf, and  *)
(* each then signs verification and timestamp tokens, which the others      *)
(* check.  Who collects the parameters, and when, is up to the environment: *)
(* a party can be given any list of parameters ever published, those of an  *)
(* instance that has since restarted included.                              *)
(*                                                                          *)
(* Cryptography is symbolic: a MAC is a tuple of its key and its input.     *)
(* basis is a history variable: the list a party's key was made from, NONE  *)
(* before the first, BROKEN after a failure that destroyed the key.         *)
(***************************************************************************)
EXTENDS Integers, FiniteSets, Sequences, Functions

CONSTANTS
    Parties, Challenges,
    AES_BLOCK_SIZE, SHA256_DIGEST_LENGTH,
    MaxList, MaxBoots, MaxTime, MaxTokens,     \* bounds
    NONE, BROKEN

ASSUME SizeAssumption == AES_BLOCK_SIZE \in Nat \ {0} /\ SHA256_DIGEST_LENGTH \in Nat \ {0}
ASSUME BoundAssumption == MaxTokens \in Nat /\ MaxTime \in Nat \ {0}
\* A list of parameters is never taken for a failure.
ASSUME HistoryAssumption == BROKEN \notin Seq(Parties \X Nat)

VARIABLES
    boots,          \* the number of times each party was started
    saved_params,   \* [have, nonce] of each party
    hmac_key,       \* the bytes of hmac_key_
    basis,          \* history: what the key was made from
    published,      \* parameters handed out, with the party and boot they are of
    tokens,         \* tokens made
    now             \* the clock

vars == <<boots, saved_params, hmac_key, basis, published, tokens, now>>

ZERO == <<0>>
\* The nonce an instance draws is new; the seed is empty in every instance.
Fresh(p) == <<p, boots[p]>>
\* A nonce of the wrong length, which only the KeyMint interface can pass.
MISSIZED == <<>>

-----------------------------------------------------------------------------
(* Derivation.                                                              *)

div_round_up(dividend, divisor) == (dividend + divisor - 1) \div divisor

cmac(key, input) == [j \in 1 .. AES_BLOCK_SIZE |-> <<key, input, j>>]

\* The blocks are written one after the other while they fit; of the last one only
\* what is left of the output is copied.
ckdf(key, label, context, size) ==
    LET out[i \in Nat] ==
            IF i = 0 THEN <<>>
            ELSE LET block == cmac(key, <<i, label, 0, context, size * 8>>)
                     room == size - Len(out[i - 1])
                 IN out[i - 1] \o (IF AES_BLOCK_SIZE <= room THEN block ELSE SubSeq(block, 1, room))
    IN out[div_round_up(size, AES_BLOCK_SIZE)]

hmacSha256(key, chunks) == <<"hmac", key, chunks>>

\* The chunks are fed to the MAC one after the other: only their concatenation counts.
context_chunks(list) ==
    LET fed[i \in 0 .. Len(list)] == IF i = 0 THEN <<>> ELSE fed[i - 1] \o list[i]
    IN fed[Len(list)]

-----------------------------------------------------------------------------
Init ==
    /\ boots = [p \in Parties |-> 1]
    /\ saved_params = [p \in Parties |-> [have |-> FALSE, nonce |-> ZERO]]
    /\ hmac_key = [p \in Parties |-> <<>>]
    /\ basis = [p \in Parties |-> NONE]
    /\ published = {} /\ tokens = {}
    /\ now = 1

\* The parameters are drawn once, and the same ones are returned from then on.
GetHmacSharingParameters(p) ==
    LET nonce == IF saved_params[p].have THEN saved_params[p].nonce ELSE Fresh(p)
    IN /\ saved_params' = [saved_params EXCEPT ![p] = [have |-> TRUE, nonce |-> nonce]]
       /\ published' = published \cup {[party |-> p, boot |-> boots[p], nonce |-> nonce]}
       /\ UNCHANGED <<boots, hmac_key, basis, tokens, now>>

Nonces == {params.nonce : params \in published}
ParamLists == UNION {[1 .. n -> Nonces \cup {MISSIZED}] : n \in 0 .. MaxList}
SharedKey(list) == ckdf("kFakeKeyAgreementKey", "KeymasterSharedMac", context_chunks(list), SHA256_DIGEST_LENGTH)
sharingCheck(key) == hmacSha256(key, <<"KeymasterHMACVerification">>)

\* A slip: the list is not searched for the party's own parameters.
ComputeSharedHmacUnsearched(p, list, outcome) ==
    /\ MISSIZED \notin Range(list) /\ outcome = "ok" /\ list # <<>>
    /\ hmac_key' = [hmac_key EXCEPT ![p] = SharedKey(list)]
    /\ basis' = [basis EXCEPT ![p] = list]
    /\ UNCHANGED <<boots, saved_params, published, tokens, now>>

\* A slip: the key is replaced before the list is searched.
ComputeSharedHmacEarlyReset(p, list, outcome) ==
    /\ list # <<>> /\ MISSIZED \notin Range(list)
    /\ hmac_key' = [hmac_key EXCEPT ![p] = IF saved_params[p].nonce \in Range(list) THEN SharedKey(list) ELSE <<>>]
    /\ basis' = IF saved_params[p].nonce \in Range(list) THEN [basis EXCEPT ![p] = list] ELSE basis
    /\ UNCHANGED <<boots, saved_params, published, tokens, now>>

\* A list without the party's own parameters is refused, and the key is kept.  The key
\* is then emptied and its storage allocated anew, and only after that derived: a
\* failure in between leaves it empty, or with bytes nobody chose.
ComputeSharedHmac(p, list, outcome) ==
    LET found_mine == saved_params[p].nonce \in Range(list)
        key == CASE outcome = "ok" -> SharedKey(list)
                 [] outcome = "unallocated" -> <<>>
                 [] outcome = "underived" -> [j \in 1 .. SHA256_DIGEST_LENGTH |-> <<"undefined", p, j>>]
    IN /\ MISSIZED \notin Range(list) /\ found_mine
       /\ hmac_key' = [hmac_key EXCEPT ![p] = key]
       /\ basis' = [basis EXCEPT ![p] = IF outcome = "ok" THEN list ELSE BROKEN]
       /\ UNCHANGED <<boots, saved_params, published, tokens, now>>

\* get_current_time_ms gives 0 when the clock cannot be read.
get_current_time_ms == {now, 0}

\* A token repeats the challenge of the request, and its MAC is over the challenge, the
\* time and the security level.
Token(p, challenge, time) ==
    [by |-> p, challenge |-> challenge, timestamp |-> time, basis |-> basis[p],
     mac |-> hmacSha256(hmac_key[p], <<"AuthVerification", challenge, time, "SOFTWARE">>)]

Mint(p, challenge, time) ==
    /\ Cardinality(tokens) < MaxTokens
    /\ tokens' = tokens \cup {Token(p, challenge, time)}
    /\ UNCHANGED <<boots, saved_params, hmac_key, basis, published, now>>

VerifyAuthorization(p, challenge) == \E time \in get_current_time_ms : Mint(p, challenge, time)
GenerateTimestampToken(p, challenge) == \E time \in get_current_time_ms : Mint(p, challenge, time)

Restart(p) ==
    /\ boots[p] < MaxBoots
    /\ boots' = [boots EXCEPT ![p] = @ + 1]
    /\ saved_params' = [saved_params EXCEPT ![p] = [have |-> FALSE, nonce |-> ZERO]]
    /\ hmac_key' = [hmac_key EXCEPT ![p] = <<>>]
    /\ basis' = [basis EXCEPT ![p] = NONE]
    /\ UNCHANGED <<published, tokens, now>>

Tick == now < MaxTime /\ now' = now + 1 /\ UNCHANGED <<boots, saved_params, hmac_key, basis, published, tokens>>

Next ==
    \/ \E p \in Parties :
          \/ GetHmacSharingParameters(p)
          \/ \E list \in ParamLists, outcome \in {"ok", "unallocated", "underived"} :
                ComputeSharedHmac(p, list, outcome)
          \/ \E challenge \in Challenges : VerifyAuthorization(p, challenge) \/ GenerateTimestampToken(p, challenge)
          \/ Restart(p)
    \/ Tick

Spec == Init /\ [][Next]_vars

-----------------------------------------------------------------------------
\* The types of the state; a party has no key or one of the length HMAC-SHA256 gives.
HmacSharingTypeOK ==
    /\ \A p \in Parties : Len(hmac_key[p]) \in {0, SHA256_DIGEST_LENGTH}
    /\ Cardinality(tokens) <= MaxTokens /\ now \in 1 .. MaxTime

\* The recomputation with which another party, or the same one, checks a token.
Verifies(p, token) ==
    token.mac = hmacSha256(hmac_key[p], <<"AuthVerification", token.challenge, token.timestamp, "SOFTWARE">>)

\* A token is good with a party exactly if that party's key was made from the list the
\* token's maker had: the same parameters in the same order, neither having restarted or
\* failed a derivation in between (ckdf over the chunks; the key kept by a refused list).
TokensFollowTheList ==
    \A token \in tokens, p \in Parties :
        /\ token.basis \notin {NONE, BROKEN} => (Verifies(p, token) <=> basis[p] = token.basis)
        /\ token.basis = BROKEN /\ Verifies(p, token) => basis[p] \in {NONE, BROKEN}

\* The sharing checks of two parties are equal exactly if their lists are: what the
\* collector compares tells it whether the keys agree.
ChecksTellKeysApart ==
    \A p, q \in Parties : {basis[p], basis[q]} \cap {NONE, BROKEN} = {} =>
        (sharingCheck(hmac_key[p]) = sharingCheck(hmac_key[q]) <=> basis[p] = basis[q])

\* A party only holds a key made from a list with the parameters it handed out since it
\* was last started.
KeyIsOfThisBoot ==
    \A p \in Parties : basis[p] \notin {NONE, BROKEN} =>
        [party |-> p, boot |-> boots[p], nonce |-> saved_params[p].nonce] \in published
        /\ saved_params[p].nonce \in Range(basis[p])

\* Whatever a party published since it was started stays good for ComputeSharedHmac.
PublishedStaysValid ==
    \A params \in published : params.boot = boots[params.party] => params.nonce = saved_params[params.party].nonce

\* For every output size ckdf gives that many bytes of the concatenated blocks.
CkdfFillsOutput ==
    \A size \in 0 .. 3 * AES_BLOCK_SIZE :
        LET out == ckdf("k", "l", <<now>>, size)
        IN /\ Len(out) = size
           /\ \A n \in 1 .. size :
                 out[n] = cmac("k", <<1 + (n - 1) \div AES_BLOCK_SIZE, "l", 0, <<now>>, size * 8>>)
                              [1 + ((n - 1) % AES_BLOCK_SIZE)]

\* A token is good with a party, and two sharing checks are equal, exactly if the keys
\* come from the same list of parameters in the same order, neither party having
\* restarted or failed a derivation in between; ckdf fills its output with the
\* concatenated blocks, the last one cut.
SharedKeyFollowsTheList ==
    /\ HmacSharingTypeOK
    /\ TokensFollowTheList
    /\ ChecksTellKeysApart
    /\ CkdfFillsOutput

\* A party only holds a key made from a list with the parameters it handed out since it
\* was last started, and whatever it handed out since then stays good.
SharingIsOfThisBoot == KeyIsOfThisBoot /\ PublishedStaysValid
=============================================================================
