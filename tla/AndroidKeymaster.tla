-------------------------- MODULE AndroidKeymaster --------------------------
(***************************************************************************)
(* The operations of AndroidKeymaster: BeginOperation, UpdateOperation,    *)
(* FinishOperation and AbortOperation over the OperationTable, with the    *)
(* enforcement (module Enforcement) and the secure key storage they work   *)
(* on.  Clients call with any handle they were ever given.                 *)
(*                                                                         *)
(* What an Operation does with data is outside this module: its Begin,     *)
(* Update and Finish succeed or fail.  Handles are 64-bit random numbers,  *)
(* so a new one is never 0 and never one given out before.                 *)
(***************************************************************************)
EXTENDS Enforcement

CONSTANTS
    StoredKeys,           \* keys whose hw_enforced list ties them to secure
                          \* storage: rollback resistant or single use
    SingleUseKeys,        \* those with USAGE_COUNT_LIMIT 1
    ConfirmedKeys,        \* keys with TRUSTED_CONFIRMATION_REQUIRED
    OperationTableSize,   \* table_size_
    MaxMessage,           \* kConfirmationMessageMaxSize
    InputSizes,           \* sizes of the inputs of update and finish
    ConfirmationAnswers,  \* what the context's CheckConfirmationToken answers
    NoFinish              \* the last step completed no operation

VARIABLES
    operations,           \* operation_table_: handle -> operation
    stored,               \* the key ids in secure key storage
    issued,               \* handles given to clients
    \* History, read by properties only:
    begin_tokens,         \* handle -> the tokens there were at its begin
    completed,            \* key -> operations its single use was spent on
    gone,                 \* keys that left secure storage
    finish                \* what the last step finished with OK, or NoFinish

tableVars == <<operations, issued, begin_tokens>>
keymasterVars ==
    <<operations, stored, issued, begin_tokens, completed, gone, finish>>
vars == <<enforcementVars, keymasterVars>>

NoBuffer == -1

\* An operation in the table; confirmed is the number of message bytes in its
\* confirmation_verifier_buffer_.
Operations ==
    [key : Keys, purpose : Purposes, confirmed : Nat \cup {NoBuffer}]

Finishes == [handle : Handles, token : Tokens \cup {NoToken}, key : Keys, purpose : Purposes]

ConfirmationTokens == {"absent", "wrong size", "well formed"}

ASSUME KeymasterAssumption ==
    /\ 0 \notin Handles
    /\ SingleUseKeys \subseteq StoredKeys
    /\ StoredKeys \subseteq Keys
    /\ ConfirmedKeys \subseteq Keys
    /\ OperationTableSize \in Nat
    /\ MaxMessage \in Nat
    /\ InputSizes \subseteq Nat
    /\ NoFinish \notin Finishes

\* The enforcement's part of a step that asks it nothing that changes it.
EnforcementUnchanged ==
    /\ RecordNoGrant
    /\ UNCHANGED <<now, tables, in_early_boot, lockState, tokens>>

(***************************************************************************)
(* The operation table.                                                    *)
(***************************************************************************)

\* Find.  A handle of 0 is never found.
Find(h) == h \in DOMAIN operations

\* Add has found an empty slot.
HasRoom == Cardinality(DOMAIN operations) < OperationTableSize

Add(h, operation) ==
    operations' = [g \in DOMAIN operations \cup {h} |->
                      IF g = h THEN operation ELSE operations[g]]

Delete(h) ==
    operations' = [g \in DOMAIN operations \ {h} |-> operations[g]]

(***************************************************************************)
(* BeginOperation.                                                         *)
(***************************************************************************)

\* LoadKey: a key tied to secure storage must still be there.
LoadKey(k) == k \in StoredKeys => k \in stored

\* The operation gets into the table last.  Whatever fails before it leaves
\* the table alone; but once the enforcement has agreed, its tables have
\* counted the use even if the operation cannot start or finds no slot.
BeginOperation(k, purpose, p, h, answer) ==
    /\ h \in Handles \ issued
    /\ UNCHANGED <<now, in_early_boot, lockState, tokens, stored, completed, gone>>
    /\ finish' = NoFinish
    /\ \/ /\ answer = IF LoadKey(k) THEN "FACTORY_ERROR" ELSE "INVALID_KEY_BLOB"
          /\ RecordNoGrant
          /\ UNCHANGED <<tables, tableVars>>
       \/ /\ LoadKey(k)
          /\ \E error \in OperationAnswers(k, purpose, p) :
                /\ \/ /\ error = "OK" /\ HasRoom
                      /\ answer = "OK"
                      /\ Add(h, [key |-> k, purpose |-> purpose,
                                 confirmed |-> IF k \in ConfirmedKeys THEN 0 ELSE NoBuffer])
                      /\ issued' = issued \cup {h}
                      /\ begin_tokens' = [begin_tokens EXCEPT ![h] = tokens]
                   \/ /\ error = "OK"
                      /\ answer \in {"CRYPTO_ERROR"} \cup
                                    (IF HasRoom THEN {} ELSE {"TOO_MANY_OPERATIONS"})
                      /\ UNCHANGED tableVars
                   \/ /\ error # "OK"
                      /\ answer = error
                      /\ UNCHANGED tableVars
                /\ AuthorizeOperation(k, purpose, p, error)

(***************************************************************************)
(* UpdateOperation, FinishOperation, AbortOperation.                       *)
(***************************************************************************)

\* The confirmation buffer has no room for n more bytes of message.
MessageTooLong(h, n) ==
    /\ operations[h].confirmed # NoBuffer
    /\ operations[h].confirmed + n > MaxMessage

\* AuthorizeOperation for an operation under way.
AuthorizeContinue(h, p) ==
    IF IsPublicKeyOperation(operations[h].key, operations[h].purpose)
    THEN "OK"
    ELSE AuthorizeUpdateOrFinish(operations[h].key, p, h)

\* Any error invalidates the operation.
UpdateOperation(h, p, n, answer) ==
    /\ EnforcementUnchanged
    /\ finish' = NoFinish
    /\ UNCHANGED <<stored, issued, begin_tokens, completed, gone>>
    /\ \/ /\ ~Find(h)
          /\ answer = "INVALID_OPERATION_HANDLE"
          /\ UNCHANGED operations
       \/ /\ Find(h)
          /\ MessageTooLong(h, n)
          /\ answer = "INVALID_ARGUMENT"
          /\ Delete(h)
       \/ /\ Find(h)
          /\ ~MessageTooLong(h, n)
          /\ AuthorizeContinue(h, p) # "OK"
          /\ answer = AuthorizeContinue(h, p)
          /\ Delete(h)
       \/ /\ Find(h)
          /\ ~MessageTooLong(h, n)
          /\ AuthorizeContinue(h, p) = "OK"
          /\ \/ answer = "CRYPTO_ERROR" /\ Delete(h)
             \/ /\ answer = "OK"
                /\ operations' =
                      IF operations[h].confirmed = NoBuffer THEN operations
                      ELSE [operations EXCEPT ![h].confirmed = @ + n]

\* The answers to the confirmation token given for a finished operation.
ConfirmationCheck(h, confirmation) ==
    IF operations[h].confirmed = NoBuffer THEN {"OK"}
    ELSE CASE confirmation = "absent" -> {"NO_USER_CONFIRMATION"}
           [] confirmation = "wrong size" -> {"INVALID_ARGUMENT"}
           [] OTHER -> ConfirmationAnswers

\* A slip: the key stays in secure storage.
CompleteKeepingKey(h, p, confirmation, answer) ==
    LET k == operations[h].key
    IN  /\ answer \in ConfirmationCheck(h, confirmation)
        /\ gone' = IF k \in SingleUseKeys THEN gone \cup {k} ELSE gone
        /\ finish' = NoFinish
        /\ UNCHANGED <<stored, completed>>

\* The operation's Finish has succeeded.  The single use of a key is spent
\* before the confirmation is looked at.
Complete(h, p, confirmation, answer) ==
    LET k == operations[h].key
    IN  /\ answer \in ConfirmationCheck(h, confirmation)
        /\ stored' = IF k \in SingleUseKeys THEN stored \ {k} ELSE stored
        /\ gone' = IF k \in SingleUseKeys THEN gone \cup {k} ELSE gone
        /\ completed' = IF k \in SingleUseKeys /\ answer = "OK"
                        THEN [completed EXCEPT ![k] = @ + 1] ELSE completed
        /\ finish' = IF answer = "OK"
                     THEN [handle |-> h, token |-> p.token, key |-> k,
                           purpose |-> operations[h].purpose]
                     ELSE NoFinish

\* The operation leaves the table however the call ends.
FinishOperation(h, p, n, confirmation, answer) ==
    /\ EnforcementUnchanged
    /\ UNCHANGED <<issued, begin_tokens>>
    /\ Delete(h)
    /\ \/ /\ answer = IF ~Find(h) THEN "INVALID_OPERATION_HANDLE"
                      ELSE IF MessageTooLong(h, n) THEN "INVALID_ARGUMENT"
                      ELSE IF AuthorizeContinue(h, p) # "OK" THEN AuthorizeContinue(h, p)
                      ELSE "CRYPTO_ERROR"
          /\ finish' = NoFinish
          /\ UNCHANGED <<stored, completed, gone>>
       \/ /\ Find(h)
          /\ ~MessageTooLong(h, n)
          /\ AuthorizeContinue(h, p) = "OK"
          /\ Complete(h, p, confirmation, answer)

\* Abort of an operation may fail; it leaves the table all the same.
AbortOperation(h, answer) ==
    /\ EnforcementUnchanged
    /\ finish' = NoFinish
    /\ UNCHANGED <<stored, issued, begin_tokens, completed, gone>>
    /\ answer \in IF Find(h) THEN {"OK", "CRYPTO_ERROR"} ELSE {"INVALID_OPERATION_HANDLE"}
    /\ Delete(h)

(***************************************************************************)
(* Deleting keys, and the enforcement's own events.                        *)
(***************************************************************************)

\* Operations on the key that are under way go on.
DeleteKey(k) ==
    /\ EnforcementUnchanged
    /\ finish' = NoFinish
    /\ stored' = stored \ {k}
    /\ gone' = gone \cup ({k} \cap StoredKeys)
    /\ UNCHANGED <<tableVars, completed>>

DeleteAllKeys ==
    /\ EnforcementUnchanged
    /\ finish' = NoFinish
    /\ stored' = {}
    /\ gone' = gone \cup StoredKeys
    /\ UNCHANGED <<tableVars, completed>>

\* An authenticator is asked for a token for a handle some client was given.
MintTokenForHandle(token) ==
    /\ token.challenge \in issued \cup {0}
    /\ MintToken(token)

EnforcementEvent ==
    /\ \/ Tick
       \/ EarlyBootEnded
       \/ \E password_only \in BOOLEAN : DeviceLocked(password_only)
       \/ \E token \in MintableTokens : MintTokenForHandle(token)
    /\ finish' = NoFinish
    /\ UNCHANGED <<tableVars, stored, completed, gone>>

Init ==
    /\ EnforcementInit
    /\ operations = [h \in {} |-> 0]
    /\ stored = StoredKeys
    /\ issued = {}
    /\ begin_tokens = [h \in Handles |-> {}]
    /\ completed = [k \in Keys |-> 0]
    /\ gone = {}
    /\ finish = NoFinish

\* The parameters of update and finish: a nonce is only looked at by begin.
ContinueParams == [token : tokens \cup {NoToken}, nonce : {FALSE}]

\* What the services may answer.
BeginResults ==
    {"OK", "FACTORY_ERROR", "CRYPTO_ERROR", "INVALID_KEY_BLOB", "TOO_MANY_OPERATIONS",
     "KEY_USER_NOT_AUTHENTICATED", "UNSUPPORTED_PURPOSE", "INCOMPATIBLE_PURPOSE",
     "KEY_RATE_LIMIT_EXCEEDED", "KEY_MAX_OPS_EXCEEDED", "DEVICE_LOCKED",
     "EARLY_BOOT_ENDED", "CALLER_NONCE_PROHIBITED"}
AbortResults == {"OK", "CRYPTO_ERROR", "INVALID_OPERATION_HANDLE"}
UpdateResults == AbortResults \cup {"INVALID_ARGUMENT", "KEY_USER_NOT_AUTHENTICATED"}
FinishResults == UpdateResults \cup {"NO_USER_CONFIRMATION"} \cup ConfirmationAnswers

Next ==
    \/ \E k \in Keys, purpose \in Purposes, p \in HeldParams, h \in Handles, a \in BeginResults :
          BeginOperation(k, purpose, p, h, a)
    \/ \E h \in issued \cup {0}, p \in ContinueParams, n \in InputSizes :
          \/ \E a \in UpdateResults : UpdateOperation(h, p, n, a)
          \/ \E confirmation \in ConfirmationTokens, a \in FinishResults :
                FinishOperation(h, p, n, confirmation, a)
    \/ \E h \in issued \cup {0}, a \in AbortResults : AbortOperation(h, a)
    \/ \E k \in Keys : DeleteKey(k)
    \/ DeleteAllKeys
    \/ EnforcementEvent

Spec == Init /\ [][Next]_vars

(***************************************************************************)
(* Properties.                                                             *)
(***************************************************************************)

KeymasterTypeOK ==
    /\ TypeOK
    /\ DOMAIN operations \subseteq issued
    /\ operations \in [DOMAIN operations -> Operations]
    /\ stored \subseteq StoredKeys
    /\ issued \subseteq Handles
    /\ begin_tokens \in [Handles -> SUBSET tokens]
    /\ completed \in [Keys -> Nat]
    /\ gone \subseteq StoredKeys
    /\ finish \in Finishes \cup {NoFinish}

\* The key wants the user authenticated for every single operation.
AuthPerOperation(k) ==
    /\ KeyAuths[k].sids # {}
    /\ ~KeyAuths[k].auth_timeout
    /\ ~KeyAuths[k].no_auth_required

\* An operation of a key with per-operation authentication is finished only
\* with a token minted for that very operation after it began: no token held
\* at begin, or made for another operation, will do, and the user is one of
\* the key's.
FinishedWithOwnToken ==
    (/\ finish # NoFinish
     /\ AuthPerOperation(finish.key)
     /\ ~IsPublicKeyOperation(finish.key, finish.purpose))
    => /\ finish.token \in tokens \ begin_tokens[finish.handle]
       /\ finish.token.challenge = finish.handle
       /\ {finish.token.user_id, finish.token.authenticator_id}
             \cap KeyAuths[finish.key].sids # {}

\* A key tied to secure storage that was deleted, or whose single use was
\* spent, never begins another operation.
GoneKeysStayGone ==
    [][\A h \in DOMAIN operations' \ DOMAIN operations : operations'[h].key \notin gone]_vars

\* The count in the enforcement's table covers the operations under way: a
\* count-limited key never has more of them than uses were counted, whatever
\* failed between the grant and the operation's place in the table.
OperationsCoveredByUses ==
    \A k \in Keys :
        CountLimited(k) =>
            Cardinality({h \in DOMAIN operations :
                            /\ operations[h].key = k
                            /\ ~IsPublicKeyOperation(k, operations[h].purpose)})
                <= IF k \in DOMAIN access_count THEN access_count[k] ELSE 0

\* Begin and finish account for every use: no more are granted than a key allows in one
\* boot (MAX_USES_PER_BOOT), each operation under way has been counted, whichever step of
\* BeginOperation failed after the enforcement, and every operation of the table is under a
\* handle that was issued for it.
OperationsAccounted == KeymasterTypeOK /\ UsesWithinLimit /\ OperationsCoveredByUses

\* "Enforce single use key with usage count limit = 1": at most one operation
\* of such a key is ever finished with success.
SingleUseKeyUsedOnce ==
    \A k \in SingleUseKeys : completed[k] <= 1
=============================================================================
