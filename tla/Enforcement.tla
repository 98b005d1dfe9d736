---------------------------- MODULE Enforcement ----------------------------
(***************************************************************************)
(* KeymasterEnforcement, with the answers SoftKeymasterEnforcement gives   *)
(* to its virtual questions: the table of last accesses of rate-limited    *)
(* keys, the table of uses of count-limited keys, early boot, the device   *)
(* lock, and the decision whether an operation on a key may begin or go    *)
(* on.                                                                     *)
(*                                                                         *)
(* A key is known by its id (CreateKeyId, a hash of the blob) and by what  *)
(* the scan of its authorizations finds (KeyAuths).  Where several         *)
(* authorizations refuse an operation the code answers with the one listed *)
(* first; the order is data, so any of them may be the answer here.  The   *)
(* two tables are partial functions of the key id; module AccessLists has  *)
(* the linked lists of the code.                                           *)
(***************************************************************************)
EXTENDS Integers, FiniteSets

CONSTANTS
    Keys,                   \* key ids
    KeyAuths,               \* [Keys -> Auths], the authorizations of a key
    Purposes,               \* the purposes operations are begun with
    Sids,                   \* secure user ids
    Handles,                \* operation handles, 64-bit random and not 0
    UINT32_MAX,             \* min_ops_timeout of a key with no rate limit
    MaxAccessTimeMapSize,   \* capacity of access_time_map_
    MaxAccessCountMapSize,  \* capacity of access_count_map_
    Ticks,                  \* steps of the millisecond clock
    StartTimes,             \* milliseconds since boot when the process starts
    MaxTime,                \* bound of the clock (milliseconds since boot)
    MaxTokens,              \* bound on the auth tokens minted
    NoToken,                \* no auth token, or a malformed one
    NoGrant                 \* the last step authorized no begin

VARIABLES
    now,                    \* get_current_time_ms()
    access_time,            \* access_time_map_: key id -> last access, timeout
    access_count,           \* access_count_map_: key id -> uses
    in_early_boot,          \* in_early_boot_
    device_locked_at,       \* device_locked_at_, 0 when never locked
    password_unlock_only,   \* password_unlock_only_
    tokens,                 \* auth tokens minted so far
    \* History, read by properties only:
    stale_tokens,           \* the tokens there were at the last device lock
    last_grant,             \* second of the last begin granted, -1 for none
    uses,                   \* begins granted to a count-limited key
    grant                   \* the begin this step granted, or NoGrant

tables == <<access_time, access_count>>
lockState == <<device_locked_at, password_unlock_only, stale_tokens>>
enforcementVars ==
    <<now, access_time, access_count, in_early_boot, device_locked_at,
      password_unlock_only, tokens, stale_tokens, last_grant, uses, grant>>

NoLimit == -1

AuthTypes == {"PASSWORD", "FINGERPRINT"}

\* What the scans of AuthorizeBegin and AuthorizeUpdateOrFinish read from the
\* authorizations of a key.  min_seconds is UINT32_MAX and max_uses NoLimit
\* when the tag is absent, auth_type {} likewise.  "forbidden" stands for the
\* tags that should never be in key auths.  The dates are left out: the
\* software enforcement never refuses one.
Auths ==
    [purposes : SUBSET Purposes, public : BOOLEAN,
     min_seconds : Nat, max_uses : Nat \cup {NoLimit},
     sids : SUBSET Sids, auth_type : SUBSET AuthTypes,
     auth_timeout : BOOLEAN, no_auth_required : BOOLEAN,
     unlocked_device_required : BOOLEAN, caller_nonce : BOOLEAN,
     early_boot_only : BOOLEAN, forbidden : BOOLEAN]

\* hw_auth_token_t; a challenge is the handle of an operation, or 0.
Tokens ==
    [challenge : Handles \cup {0}, user_id : Sids, authenticator_id : Sids,
     auth_type : SUBSET AuthTypes, timestamp : Nat]

Grants ==
    [key : Keys, token : Tokens \cup {NoToken}, since_last : Int]

ASSUME EnforcementAssumption ==
    /\ KeyAuths \in [Keys -> Auths]
    /\ UINT32_MAX \in Nat
    /\ MaxAccessTimeMapSize \in Nat
    /\ MaxAccessCountMapSize \in Nat
    /\ Ticks \subseteq Nat \ {0}
    /\ MaxTime \in Nat
    /\ StartTimes \subseteq 0..MaxTime
    /\ MaxTime \div 1000 < UINT32_MAX     \* the clock does not wrap
    /\ NoGrant \notin Grants

(***************************************************************************)
(* The clock and the two tables.                                           *)
(***************************************************************************)

\* get_current_time() is the clock in whole seconds.
get_current_time == now \div 1000

RateLimited(k) == KeyAuths[k].min_seconds # UINT32_MAX

CountLimited(k) == KeyAuths[k].max_uses # NoLimit

MinTimeBetweenOpsPassed(k) ==
    k \in DOMAIN access_time =>
        KeyAuths[k].min_seconds <= get_current_time - access_time[k].access_time

\* A slip: one use too many.
MaxUsesReached(k) ==
    k \in DOMAIN access_count => access_count[k] <= KeyAuths[k].max_uses

MaxUsesPerBootNotExceeded(k) ==
    k \in DOMAIN access_count => access_count[k] < KeyAuths[k].max_uses

\* A slip: no entry times out.
NoneExpired == {}

\* The entries UpdateKeyAccessTime erases when it walks past them.
Expired ==
    {k \in DOMAIN access_time :
        get_current_time - access_time[k].access_time >= access_time[k].timeout}

TimeTableFull(k) ==
    /\ RateLimited(k)
    /\ k \notin DOMAIN access_time
    /\ Cardinality(DOMAIN access_time \ Expired) >= MaxAccessTimeMapSize

CountTableFull(k) ==
    /\ CountLimited(k)
    /\ k \notin DOMAIN access_count
    /\ Cardinality(DOMAIN access_count) >= MaxAccessCountMapSize

\* access_time without the entries of the keys in gone.
Without(gone) == [j \in DOMAIN access_time \ gone |-> access_time[j]]

\* access_time where the entry of k says now and the keys in gone have none.
Touched(k, gone) ==
    [j \in DOMAIN access_time \ gone |->
        IF j = k THEN [access_time[k] EXCEPT !.access_time = get_current_time]
                 ELSE access_time[j]]

\* access_time with a fresh entry for k and none for the keys in gone.
Added(k, gone) ==
    [j \in (DOMAIN access_time \ gone) \cup {k} |->
        IF j = k THEN [access_time |-> get_current_time,
                       timeout |-> KeyAuths[k].min_seconds]
                 ELSE access_time[j]]

\* A slip: making room for k drops an entry that has not timed out.
EvictingUpdate(k) ==
    IF k \in DOMAIN access_time
    THEN access_time' = Touched(k, {})
    ELSE \E gone \in SUBSET DOMAIN access_time : access_time' = Added(k, gone)

\* The walk stops at k's own entry, so of the expired entries it has erased
\* those in front of k; which ones that is depends on the order of the list.
\* A walk that does not find k has erased them all, even if there is no room.
UpdateKeyAccessTime(k) ==
    IF k \in DOMAIN access_time
    THEN \E gone \in SUBSET (Expired \ {k}) : access_time' = Touched(k, gone)
    ELSE IF TimeTableFull(k) THEN access_time' = Without(Expired)
                             ELSE access_time' = Added(k, Expired)

\* A slip: only the first use is counted.
CountFirstAccess(k) ==
    IF k \in DOMAIN access_count
    THEN UNCHANGED access_count
    ELSE access_count' = [j \in DOMAIN access_count \cup {k} |->
                             IF j = k THEN 1 ELSE access_count[j]]

IncrementKeyAccessCount(k) ==
    IF k \in DOMAIN access_count
    THEN access_count' = [access_count EXCEPT ![k] = @ + 1]
    ELSE access_count' = [j \in DOMAIN access_count \cup {k} |->
                             IF j = k THEN 1 ELSE access_count[j]]

(***************************************************************************)
(* Auth tokens.                                                            *)
(***************************************************************************)

\* A slip: the challenge is not compared.
TokenMatchesAnyHandle(k, sid, p, handle) ==
    /\ p.token # NoToken
    /\ sid \in {p.token.user_id, p.token.authenticator_id}
    /\ KeyAuths[k].auth_type \cap p.token.auth_type # {}

\* handle is 0 where the challenge is not to be compared: at begin.  The
\* software enforcement never finds a token timed out.
AuthTokenMatches(k, sid, p, handle) ==
    /\ p.token # NoToken
    /\ handle # 0 => p.token.challenge = handle
    /\ sid \in {p.token.user_id, p.token.authenticator_id}
    /\ KeyAuths[k].auth_type \cap p.token.auth_type # {}

\* A slip: a token as old as the lock counts as fresh.
UnlockedByOldToken(p) ==
    /\ p.token # NoToken
    /\ p.token.timestamp >= device_locked_at
    /\ password_unlock_only => "PASSWORD" \in p.token.auth_type

\* The token shows that the device was unlocked after it was last locked.
UnlockedBy(p) ==
    /\ p.token # NoToken
    /\ p.token.timestamp > device_locked_at
    /\ password_unlock_only => "PASSWORD" \in p.token.auth_type

\* AuthorizeUpdateOrFinish: user authentication is all that is checked, and
\* only if it is per operation.
AuthorizeUpdateOrFinish(k, p, handle) ==
    LET auths == KeyAuths[k]
    IN  IF \/ auths.no_auth_required \/ auths.auth_timeout
           \/ auths.auth_type = {} /\ auths.sids = {}
           \/ \E sid \in auths.sids : AuthTokenMatches(k, sid, p, handle)
        THEN "OK" ELSE "KEY_USER_NOT_AUTHENTICATED"

(***************************************************************************)
(* AuthorizeBegin.                                                         *)
(***************************************************************************)

IsOriginationPurpose(purpose) == purpose \in {"ENCRYPT", "SIGN"}

authorized_purpose(purpose, k) ==
    IF purpose \notin {"VERIFY", "ENCRYPT", "SIGN", "DECRYPT", "WRAP", "AGREE_KEY"}
    THEN "UNSUPPORTED_PURPOSE"
    ELSE IF purpose \in KeyAuths[k].purposes THEN "OK" ELSE "INCOMPATIBLE_PURPOSE"

\* The answers of the authorizations of k that refuse the operation.
TagErrors(k, p) ==
    LET auths == KeyAuths[k]
        Refuses ==
          [KEY_RATE_LIMIT_EXCEEDED |-> RateLimited(k) /\ ~MinTimeBetweenOpsPassed(k),
           KEY_MAX_OPS_EXCEEDED |-> CountLimited(k) /\ ~MaxUsesPerBootNotExceeded(k),
           DEVICE_LOCKED |-> /\ auths.unlocked_device_required
                             /\ device_locked_at > 0
                             /\ ~UnlockedBy(p),
           INVALID_KEY_BLOB |-> \/ auths.forbidden
                                \/ auths.sids # {} /\ auths.no_auth_required,
           EARLY_BOOT_ENDED |-> auths.early_boot_only /\ ~in_early_boot]
    IN  {e \in DOMAIN Refuses : Refuses[e]}

\* Authentication with a timeout is settled at begin.
Unauthenticated(k, p) ==
    /\ KeyAuths[k].auth_timeout
    /\ KeyAuths[k].sids # {}
    /\ \A sid \in KeyAuths[k].sids : ~AuthTokenMatches(k, sid, p, 0)

NonceProhibited(k, purpose, p) ==
    p.nonce /\ IsOriginationPurpose(purpose) /\ ~KeyAuths[k].caller_nonce

\* The possible refusals before any table is touched; {} for none.
Refusals(k, purpose, p) ==
    IF authorized_purpose(purpose, k) # "OK" THEN {authorized_purpose(purpose, k)}
    ELSE IF TagErrors(k, p) # {} THEN TagErrors(k, p)
    ELSE IF Unauthenticated(k, p) THEN {"KEY_USER_NOT_AUTHENTICATED"}
    ELSE IF NonceProhibited(k, purpose, p) THEN {"CALLER_NONCE_PROHIBITED"}
    ELSE {}

\* A granted begin in the history.
RecordGrant(k, p) ==
    /\ grant' = [key |-> k, token |-> p.token,
                 since_last |-> IF last_grant[k] = -1 THEN -1
                                ELSE get_current_time - last_grant[k]]
    /\ last_grant' = IF RateLimited(k)
                     THEN [last_grant EXCEPT ![k] = get_current_time] ELSE last_grant
    /\ uses' = IF CountLimited(k) THEN [uses EXCEPT ![k] = @ + 1] ELSE uses

RecordNoGrant ==
    grant' = NoGrant /\ UNCHANGED <<last_grant, uses>>

\* What AuthorizeBegin may answer.
BeginAnswers(k, purpose, p) ==
    IF Refusals(k, purpose, p) # {} THEN Refusals(k, purpose, p)
    ELSE IF TimeTableFull(k) \/ CountTableFull(k) THEN {"TOO_MANY_OPERATIONS"}
    ELSE {"OK"}

\* The access time is updated before the count table is found to be full: a
\* begin refused for that reason still restarts the key's rate limit.
AuthorizeBegin(k, purpose, p, error) ==
    /\ error \in BeginAnswers(k, purpose, p)
    /\ IF error \in {"OK", "TOO_MANY_OPERATIONS"} /\ RateLimited(k)
       THEN UpdateKeyAccessTime(k) ELSE UNCHANGED access_time
    /\ IF error = "OK" /\ CountLimited(k)
       THEN IncrementKeyAccessCount(k) ELSE UNCHANGED access_count
    /\ IF error = "OK" THEN RecordGrant(k, p) ELSE RecordNoGrant

\* Public key operations are always authorized.
IsPublicKeyOperation(k, purpose) ==
    KeyAuths[k].public /\ purpose \in {"ENCRYPT", "VERIFY"}

OperationAnswers(k, purpose, p) ==
    IF IsPublicKeyOperation(k, purpose) THEN {"OK"} ELSE BeginAnswers(k, purpose, p)

\* AuthorizeOperation at begin.
AuthorizeOperation(k, purpose, p, error) ==
    IF IsPublicKeyOperation(k, purpose)
    THEN error = "OK" /\ RecordNoGrant /\ UNCHANGED tables
    ELSE AuthorizeBegin(k, purpose, p, error)

(***************************************************************************)
(* The actions.                                                            *)
(***************************************************************************)

EnforcementInit ==
    /\ now \in StartTimes
    /\ access_time = [k \in {} |-> 0]
    /\ access_count = [k \in {} |-> 0]
    /\ in_early_boot = TRUE
    /\ device_locked_at = 0
    /\ password_unlock_only = FALSE
    /\ tokens = {}
    /\ stale_tokens = {}
    /\ last_grant = [k \in Keys |-> -1]
    /\ uses = [k \in Keys |-> 0]
    /\ grant = NoGrant

Begin(k, purpose, p) ==
    /\ \E error \in OperationAnswers(k, purpose, p) :
          AuthorizeOperation(k, purpose, p, error)
    /\ UNCHANGED <<now, in_early_boot, lockState, tokens>>

\* CLOCK_BOOTTIME goes on.
Tick ==
    /\ \E d \in Ticks : now' = now + d
    /\ now' <= MaxTime
    /\ RecordNoGrant
    /\ UNCHANGED <<tables, in_early_boot, lockState, tokens>>

\* early_boot_ended
EarlyBootEnded ==
    /\ in_early_boot' = FALSE
    /\ RecordNoGrant
    /\ UNCHANGED <<now, tables, lockState, tokens>>

\* device_locked
DeviceLocked(password_only) ==
    /\ device_locked_at' = now
    /\ password_unlock_only' = password_only
    /\ stale_tokens' = tokens
    /\ RecordNoGrant
    /\ UNCHANGED <<now, tables, in_early_boot, tokens>>

\* An authenticator (Gatekeeper, a fingerprint HAL) mints a token.
MintToken(token) ==
    /\ Cardinality(tokens) < MaxTokens
    /\ token.timestamp = now
    /\ token \notin tokens
    /\ tokens' = tokens \cup {token}
    /\ RecordNoGrant
    /\ UNCHANGED <<now, tables, in_early_boot, lockState>>

\* The tokens minted now.  The timestamps come from the same clock.
MintableTokens ==
    [challenge : Handles \cup {0}, user_id : Sids, authenticator_id : Sids,
     auth_type : {{t} : t \in AuthTypes}, timestamp : {now}]

\* The additional_params of a request that the enforcement looks at.
HeldParams == [token : tokens \cup {NoToken}, nonce : BOOLEAN]

EnforcementNext ==
    \/ \E k \in Keys, purpose \in Purposes, p \in HeldParams : Begin(k, purpose, p)
    \/ Tick
    \/ EarlyBootEnded
    \/ \E password_only \in BOOLEAN : DeviceLocked(password_only)
    \/ \E token \in MintableTokens : MintToken(token)

EnforcementSpec == EnforcementInit /\ [][EnforcementNext]_enforcementVars

\* Time does not stop.
TimedSpec == EnforcementSpec /\ WF_enforcementVars(Tick)

(***************************************************************************)
(* Properties.                                                             *)
(***************************************************************************)

TypeOK ==
    /\ now \in 0..MaxTime
    /\ DOMAIN access_time \subseteq Keys
    /\ access_time \in
          [DOMAIN access_time -> [access_time : Nat, timeout : Nat]]
    /\ DOMAIN access_count \subseteq Keys
    /\ access_count \in [DOMAIN access_count -> Nat]
    /\ in_early_boot \in BOOLEAN
    /\ device_locked_at \in 0..MaxTime
    /\ password_unlock_only \in BOOLEAN
    /\ tokens \subseteq Tokens
    /\ stale_tokens \subseteq tokens
    /\ last_grant \in [Keys -> Nat \cup {-1}]
    /\ uses \in [Keys -> Nat]
    /\ grant \in Grants \cup {NoGrant}

\* MIN_SECONDS_BETWEEN_OPS: the begins granted to a rate-limited key are that
\* far apart, although the table forgets expired entries, is shared with
\* other keys and keeps times in whole seconds.
RateLimitKept ==
    grant # NoGrant /\ RateLimited(grant.key) /\ grant.since_last # -1
        => grant.since_last >= KeyAuths[grant.key].min_seconds

\* MAX_USES_PER_BOOT: a key is granted no more begins than its limit allows.
\* A key that is not in the table yet passes the check whatever its limit, so
\* a limit of 0 is a limit of 1.
UsesWithinLimit ==
    \A k \in Keys :
        CountLimited(k) => uses[k] <= 1 \/ uses[k] <= KeyAuths[k].max_uses

\* UNLOCKED_DEVICE_REQUIRED: once the device was locked, a begin is granted
\* only with a token minted after the last lock, and by password if the lock
\* asked for one, even if token and lock are of the same millisecond.
LockedKeysNeedFreshToken ==
    (/\ grant # NoGrant
     /\ KeyAuths[grant.key].unlocked_device_required
     /\ device_locked_at > 0)
    => /\ grant.token \in tokens \ stale_tokens
       /\ password_unlock_only => "PASSWORD" \in grant.token.auth_type

\* The bounded clock of the model leaves every rate-limited key time to
\* become usable again.
TimeLeft ==
    \A k \in Keys : RateLimited(k) => now + 1000 * (KeyAuths[k].min_seconds + 1) <= MaxTime

\* "Rate-limited keys table full.  Entries will time out.": a full table has
\* room for another key again, whatever the keys in it do in the meantime.
EntriesTimeOut ==
    \A k \in Keys : (TimeTableFull(k) /\ TimeLeft) ~> ~TimeTableFull(k)
=============================================================================
