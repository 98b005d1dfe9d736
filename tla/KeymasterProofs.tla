-------------------------- MODULE KeymasterProofs ---------------------------
(***************************************************************************)
(* Proofs about Enforcement, AndroidKeymaster and KeyMintDevice, each on   *)
(* top of the one before: type correctness, the rate limit, the limit of   *)
(* uses and the device lock, for all keys, limits, table sizes and clock   *)
(* steps; that they go on holding when BeginOperation and the calls after  *)
(* it drive the enforcement, that operations are accounted for, that an    *)
(* operation that needs a token of its own finishes with one, and that     *)
(* none begins with a key that left secure storage; and that the operation *)
(* objects of the device use AndroidKeymaster as any client may, so that   *)
(* all this holds below the device, where no operation in the table is     *)
(* ever without its object.                                                *)
(***************************************************************************)
EXTENDS KeyMintDevice, FiniteSetTheorems, TLAPS

-----------------------------------------------------------------------------
(* Enforcement. *)

(***************************************************************************)
(* The inductive invariant.                                                *)
(***************************************************************************)

\* An entry of access_time has its key's timeout and is not later than
\* the clock and not earlier than the last begin granted; a key without an entry,
\* because it timed out, may be used again.
RateInv ==
    \A k \in Keys :
        /\ k \in DOMAIN access_time =>
              /\ access_time[k].timeout = KeyAuths[k].min_seconds
              /\ access_time[k].access_time <= get_current_time
              /\ last_grant[k] <= access_time[k].access_time
        /\ k \notin DOMAIN access_time /\ last_grant[k] # -1 =>
              get_current_time - last_grant[k] >= KeyAuths[k].min_seconds

\* The table has counted all uses of a key, and no more than its limit.
CountInv ==
    \A k \in Keys :
        CountLimited(k) =>
            /\ k \in DOMAIN access_count =>
                  /\ uses[k] <= access_count[k]
                  /\ access_count[k] <= 1 \/ access_count[k] <= KeyAuths[k].max_uses
            /\ k \notin DOMAIN access_count => uses[k] = 0

\* No token is from the future, and the stale ones are as old as the lock.
TokenInv ==
    /\ \A t \in tokens : t.timestamp <= now
    /\ \A t \in stale_tokens : t.timestamp <= device_locked_at

Inv == TypeOK /\ RateInv /\ CountInv /\ TokenInv

(***************************************************************************)
(* What a begin does.                                                      *)
(***************************************************************************)

\* get_current_time is a number of seconds.
LEMMA ClockType == TypeOK => get_current_time \in Nat
BY EnforcementAssumption DEF TypeOK, get_current_time

\* A later millisecond is not an earlier second.
LEMMA ClockMonotone ==
    ASSUME TypeOK, TypeOK', now <= now'
    PROVE  get_current_time <= get_current_time'
BY EnforcementAssumption DEF TypeOK, get_current_time

\* What the assumption says of the authorizations of one key.
LEMMA AuthsType ==
    ASSUME NEW k \in Keys
    PROVE  /\ KeyAuths[k] \in Auths
           /\ KeyAuths[k].min_seconds \in Nat
           /\ KeyAuths[k].max_uses \in Nat \cup {-1}
BY EnforcementAssumption DEF Auths, NoLimit

\* AuthorizeBegin answers OK only if no authorization refuses and both tables
\* have room.
LEMMA GrantedBegin ==
    ASSUME NEW k, NEW purpose, NEW p, "OK" \in BeginAnswers(k, purpose, p)
    PROVE  /\ TagErrors(k, p) = {}
           /\ ~TimeTableFull(k)
           /\ ~CountTableFull(k)
<1>1. "OK" \notin TagErrors(k, p)
  BY DEF TagErrors
<1>2. "OK" \notin Refusals(k, purpose, p)
  BY <1>1 DEF Refusals
<1>3. Refusals(k, purpose, p) = {}
  BY <1>2 DEF BeginAnswers
<1> QED
  BY <1>2, <1>3 DEF BeginAnswers, Refusals

\* What it means that no authorization refuses.
LEMMA NoTagErrors ==
    ASSUME NEW k, NEW p, TagErrors(k, p) = {}
    PROVE  /\ RateLimited(k) => MinTimeBetweenOpsPassed(k)
           /\ CountLimited(k) => MaxUsesPerBootNotExceeded(k)
           /\ KeyAuths[k].unlocked_device_required /\ device_locked_at > 0 => UnlockedBy(p)
<1>1. "KEY_RATE_LIMIT_EXCEEDED" \notin TagErrors(k, p)
      /\ "KEY_MAX_OPS_EXCEEDED" \notin TagErrors(k, p)
      /\ "DEVICE_LOCKED" \notin TagErrors(k, p)
  OBVIOUS
<1> QED
  BY <1>1, Zenon DEF TagErrors

\* A begin does one of three things: it changes no table; it is refused
\* because a table is full, after it updated the access time; it is granted.
LEMMA BeginCases ==
    ASSUME NEW k \in Keys, NEW purpose \in Purposes, NEW p \in HeldParams,
           Begin(k, purpose, p)
    PROVE  \/ UNCHANGED tables /\ RecordNoGrant
           \/ RateLimited(k) /\ UpdateKeyAccessTime(k) /\ UNCHANGED access_count /\ RecordNoGrant
           \/ /\ TagErrors(k, p) = {} /\ ~TimeTableFull(k)
              /\ IF RateLimited(k) THEN UpdateKeyAccessTime(k) ELSE UNCHANGED access_time
              /\ IF CountLimited(k) THEN IncrementKeyAccessCount(k) ELSE UNCHANGED access_count
              /\ RecordGrant(k, p)
<1>1. PICK error \in OperationAnswers(k, purpose, p) : AuthorizeOperation(k, purpose, p, error)
  BY DEF Begin
<1>2. CASE IsPublicKeyOperation(k, purpose)
  BY <1>1, <1>2 DEF AuthorizeOperation
<1>3. CASE ~IsPublicKeyOperation(k, purpose)
  <2>1. AuthorizeBegin(k, purpose, p, error)
    BY <1>1, <1>3 DEF AuthorizeOperation
  <2>2. CASE error = "OK"
    BY <2>1, <2>2, GrantedBegin DEF AuthorizeBegin
  <2>3. CASE error # "OK"
    BY <2>1, <2>3 DEF AuthorizeBegin, tables
  <2> QED
    BY <2>2, <2>3
<1> QED
  BY <1>2, <1>3

\* The table of access times after UpdateKeyAccessTime(k): an entry is the old
\* one, or k's with the time of the clock; those that are evicted had expired.
LEMMA AccessTimeUpdate ==
    ASSUME TypeOK, NEW k \in Keys, UpdateKeyAccessTime(k)
    PROVE  /\ DOMAIN access_time' \subseteq Keys
           /\ access_time' \in [DOMAIN access_time' -> [access_time : Nat, timeout : Nat]]
           /\ ~TimeTableFull(k) => k \in DOMAIN access_time'
           /\ k \in DOMAIN access_time' =>
                 /\ access_time'[k].access_time = get_current_time
                 /\ access_time'[k].timeout = IF k \in DOMAIN access_time
                                               THEN access_time[k].timeout
                                               ELSE KeyAuths[k].min_seconds
           /\ \A j \in Keys \ {k} :
                 /\ j \in DOMAIN access_time' =>
                       j \in DOMAIN access_time /\ access_time'[j] = access_time[j]
                 /\ j \in DOMAIN access_time /\ j \notin DOMAIN access_time' => j \in Expired
           /\ k \in DOMAIN access_time => k \in DOMAIN access_time'
<1> USE ClockType, AuthsType
<1>1. CASE k \in DOMAIN access_time
  <2>1. PICK evicted \in SUBSET (Expired \ {k}) : access_time' = Touched(k, evicted)
    BY <1>1 DEF UpdateKeyAccessTime
  <2>2. /\ DOMAIN access_time' = DOMAIN access_time \ evicted
        /\ \A j \in DOMAIN access_time \ evicted :
              access_time'[j] = IF j = k THEN [access_time[k] EXCEPT !.access_time = get_current_time]
                                         ELSE access_time[j]
        /\ k \notin evicted
        /\ access_time' = [j \in DOMAIN access_time' |-> access_time'[j]]
    BY <2>1 DEF Touched
  <2>3. [access_time[k] EXCEPT !.access_time = get_current_time]
          \in [access_time : Nat, timeout : Nat]
    BY <1>1 DEF TypeOK
  <2>4. \A j \in DOMAIN access_time : access_time[j] \in [access_time : Nat, timeout : Nat]
    BY DEF TypeOK
  <2>5. access_time' \in [DOMAIN access_time' -> [access_time : Nat, timeout : Nat]]
    BY <2>2, <2>3, <2>4
  <2>6. access_time'[k].access_time = get_current_time
        /\ access_time'[k].timeout = access_time[k].timeout
    BY <1>1, <2>2, <2>4
  <2> QED
    BY <1>1, <2>1, <2>2, <2>5, <2>6 DEF TypeOK, TimeTableFull
<1>2. CASE k \notin DOMAIN access_time /\ TimeTableFull(k)
  <2>1. access_time' = [j \in DOMAIN access_time \ Expired |-> access_time[j]]
    BY <1>2 DEF UpdateKeyAccessTime, Without
  <2> QED
    BY <1>2, <2>1 DEF TypeOK
<1>3. CASE k \notin DOMAIN access_time /\ ~TimeTableFull(k)
  <2>1. access_time' = [j \in (DOMAIN access_time \ Expired) \cup {k} |->
            IF j = k THEN [access_time |-> get_current_time, timeout |-> KeyAuths[k].min_seconds]
                     ELSE access_time[j]]
    BY <1>3 DEF UpdateKeyAccessTime, Added
  <2> QED
    BY <1>3, <2>1 DEF TypeOK
<1> QED
  BY <1>1, <1>2, <1>3

\* What RecordGrant leaves in the history.
LEMMA GrantType ==
    ASSUME TypeOK, NEW k \in Keys, NEW p \in HeldParams, RecordGrant(k, p)
    PROVE  /\ grant' \in Grants
           /\ last_grant' \in [Keys -> Nat \cup {-1}]
           /\ uses' \in [Keys -> Nat]
<1>1. last_grant[k] \in Nat \cup {-1} /\ get_current_time \in Nat /\ uses[k] \in Nat
  BY ClockType DEF TypeOK
<1>2. p.token \in Tokens \cup {NoToken}
  BY DEF TypeOK, HeldParams
<1> QED
  BY <1>1, <1>2 DEF RecordGrant, Grants, TypeOK

(***************************************************************************)
(* Type correctness.                                                       *)
(***************************************************************************)

\* IncrementKeyAccessCount keeps a count of uses for keys.
LEMMA AccessCountType ==
    ASSUME TypeOK, NEW k \in Keys, IncrementKeyAccessCount(k)
    PROVE  /\ DOMAIN access_count' = DOMAIN access_count \cup {k}
           /\ access_count' \in [DOMAIN access_count' -> Nat]
           /\ access_count'[k] = IF k \in DOMAIN access_count THEN access_count[k] + 1 ELSE 1
           /\ \A j \in DOMAIN access_count \ {k} : access_count'[j] = access_count[j]
<1>0. \A j \in DOMAIN access_count : access_count[j] \in Nat
  BY DEF TypeOK
<1>1. CASE k \in DOMAIN access_count
  <2>1. access_count' = [j \in DOMAIN access_count |->
                            IF j = k THEN access_count[k] + 1 ELSE access_count[j]]
    BY <1>1 DEF IncrementKeyAccessCount, TypeOK
  <2>2. DOMAIN access_count' = DOMAIN access_count \cup {k}
    BY <1>1, <2>1
  <2> QED
    BY <1>0, <1>1, <2>1, <2>2
<1>2. CASE k \notin DOMAIN access_count
  BY <1>0, <1>2 DEF IncrementKeyAccessCount
<1> QED
  BY <1>1, <1>2

\* A begin keeps the types.
LEMMA BeginType ==
    ASSUME TypeOK, NEW k \in Keys, NEW purpose \in Purposes, NEW p \in HeldParams,
           Begin(k, purpose, p)
    PROVE  TypeOK'
<1> USE DEF TypeOK
<1>1. UNCHANGED <<now, in_early_boot, device_locked_at, password_unlock_only, stale_tokens, tokens>>
  BY DEF Begin, lockState
<1>2. CASE UNCHANGED tables /\ RecordNoGrant
  BY <1>1, <1>2 DEF tables, RecordNoGrant
<1>3. CASE UpdateKeyAccessTime(k) /\ UNCHANGED access_count /\ RecordNoGrant
  BY <1>1, <1>3, AccessTimeUpdate DEF RecordNoGrant
<1>4. CASE /\ IF RateLimited(k) THEN UpdateKeyAccessTime(k) ELSE UNCHANGED access_time
           /\ IF CountLimited(k) THEN IncrementKeyAccessCount(k) ELSE UNCHANGED access_count
           /\ RecordGrant(k, p)
  <2>1. DOMAIN access_time' \subseteq Keys
        /\ access_time' \in [DOMAIN access_time' -> [access_time : Nat, timeout : Nat]]
    BY <1>4, AccessTimeUpdate
  <2>2. DOMAIN access_count' \subseteq Keys /\ access_count' \in [DOMAIN access_count' -> Nat]
    BY <1>4, AccessCountType, Zenon
  <2> QED
    BY <1>1, <1>4, <2>1, <2>2, GrantType
<1> QED
  BY <1>2, <1>3, <1>4, BeginCases

\* The clock steps forward within its bound.
LEMMA TickType ==
    ASSUME TypeOK, Tick
    PROVE  TypeOK' /\ now <= now'
<1>1. now' \in 0..MaxTime /\ now <= now'
  BY EnforcementAssumption DEF TypeOK, Tick
<1> QED
  BY <1>1 DEF TypeOK, Tick, RecordNoGrant, tables, lockState

\* Every step keeps the types.
LEMMA TypeStep ==
    ASSUME TypeOK, [EnforcementNext]_enforcementVars
    PROVE  TypeOK'
<1>1. ASSUME NEW k \in Keys, NEW purpose \in Purposes, NEW p \in HeldParams,
             Begin(k, purpose, p)
      PROVE  TypeOK'
  BY <1>1, BeginType
<1>2. CASE Tick
  BY <1>2, TickType
<1>3. CASE EarlyBootEnded
  BY <1>3, Zenon DEF TypeOK, EarlyBootEnded, RecordNoGrant, tables, lockState
<1>4. ASSUME NEW password_only \in BOOLEAN, DeviceLocked(password_only)
      PROVE  TypeOK'
  BY <1>4 DEF TypeOK, DeviceLocked, RecordNoGrant, tables
<1>5. ASSUME NEW token \in MintableTokens, MintToken(token)
      PROVE  TypeOK'
  <2>1. token \in Tokens
    BY DEF MintableTokens, Tokens, TypeOK
  <2> QED
    BY <1>5, <2>1 DEF TypeOK, MintToken, RecordNoGrant, tables, lockState
<1>6. CASE UNCHANGED enforcementVars
  BY <1>6 DEF TypeOK, enforcementVars
<1> QED
  BY <1>1, <1>2, <1>3, <1>4, <1>5, <1>6 DEF EnforcementNext

\* The initial state has the types.
LEMMA TypeInit == EnforcementInit => TypeOK
<1> SUFFICES ASSUME EnforcementInit PROVE TypeOK
  OBVIOUS
<1>1. now \in 0..MaxTime /\ device_locked_at \in 0..MaxTime
  BY EnforcementAssumption DEF EnforcementInit
<1>2. DOMAIN access_time = {} /\ DOMAIN access_count = {}
  BY DEF EnforcementInit
<1>3. access_time \in [DOMAIN access_time -> [access_time : Nat, timeout : Nat]]
      /\ access_count \in [DOMAIN access_count -> Nat]
  BY <1>2 DEF EnforcementInit
<1>4. last_grant \in [Keys -> Nat \cup {-1}] /\ uses \in [Keys -> Nat]
  BY DEF EnforcementInit
<1> QED
  BY <1>1, <1>2, <1>3, <1>4, Zenon DEF EnforcementInit, TypeOK

\* Type correctness of the enforcement: the tables hold entries of keys only,
\* with times and counts that are natural numbers, after any sequence of
\* begins, locks, tokens and clock steps.
THEOREM TypeCorrect == EnforcementSpec => []TypeOK
BY TypeInit, TypeStep, PTL DEF EnforcementSpec

(***************************************************************************)
(* The rate limit, the limit of uses and the lock.                         *)
(***************************************************************************)

\* UpdateKeyAccessTime drops only entries whose keys may be used again.
LEMMA RateUpdate ==
    ASSUME Inv, NEW k \in Keys, UpdateKeyAccessTime(k), now' = now,
           \/ UNCHANGED last_grant
           \/ /\ last_grant' = [last_grant EXCEPT ![k] = get_current_time]
              /\ ~TimeTableFull(k)
    PROVE  RateInv'
<1>0. TypeOK /\ RateInv /\ get_current_time \in Nat /\ get_current_time' = get_current_time
  BY ClockType DEF Inv, get_current_time
<1>1. last_grant \in [Keys -> Nat \cup {-1}]
  BY <1>0 DEF TypeOK
<1> SUFFICES ASSUME NEW j \in Keys
             PROVE  /\ j \in DOMAIN access_time' =>
                          /\ access_time'[j].timeout = KeyAuths[j].min_seconds
                          /\ access_time'[j].access_time <= get_current_time
                          /\ last_grant'[j] <= access_time'[j].access_time
                    /\ j \notin DOMAIN access_time' /\ last_grant'[j] # -1 =>
                          get_current_time - last_grant'[j] >= KeyAuths[j].min_seconds
  BY <1>0 DEF RateInv
<1>2. KeyAuths[j].min_seconds \in Nat
  BY AuthsType
<1>3. last_grant[j] <= get_current_time
  <2>1. CASE j \in DOMAIN access_time
    <3>1. access_time[j].access_time \in Nat
      BY <1>0, <2>1 DEF TypeOK
    <3> QED
      BY <1>0, <1>1, <2>1, <3>1 DEF RateInv
  <2>2. CASE j \notin DOMAIN access_time
    BY <1>0, <1>1, <1>2, <2>2 DEF RateInv
  <2> QED
    BY <2>1, <2>2
<1>4. CASE j = k
  <2>1. CASE j \in DOMAIN access_time'
    <3>1. access_time'[j].access_time = get_current_time
          /\ access_time'[j].timeout = KeyAuths[j].min_seconds
      BY <1>0, <1>4, <2>1, AccessTimeUpdate DEF RateInv
    <3>2. last_grant'[j] <= get_current_time
      BY <1>0, <1>1, <1>3, <1>4
    <3> QED
      BY <1>0, <2>1, <3>1, <3>2
  <2>2. CASE j \notin DOMAIN access_time'
    <3>1. UNCHANGED last_grant /\ j \notin DOMAIN access_time
      BY <1>0, <1>4, <2>2, AccessTimeUpdate
    <3> QED
      BY <1>0, <2>2, <3>1 DEF RateInv
  <2> QED
    BY <2>1, <2>2
<1>5. CASE j # k
  <2>1. last_grant'[j] = last_grant[j]
    BY <1>1, <1>5
  <2>2. CASE j \in DOMAIN access_time'
    BY <1>0, <1>5, <2>1, <2>2, AccessTimeUpdate DEF RateInv
  <2>3. CASE j \notin DOMAIN access_time' /\ j \notin DOMAIN access_time
    BY <1>0, <2>1, <2>3 DEF RateInv
  <2>4. CASE j \notin DOMAIN access_time' /\ j \in DOMAIN access_time
    <3>1. j \in Expired
      BY <1>0, <1>5, <2>4, AccessTimeUpdate
    <3>2. get_current_time - access_time[j].access_time >= access_time[j].timeout
      BY <3>1 DEF Expired
    <3>3. access_time[j].access_time \in Nat
      BY <1>0, <2>4 DEF TypeOK
    <3>4. /\ access_time[j].timeout = KeyAuths[j].min_seconds
          /\ last_grant[j] <= access_time[j].access_time
      BY <1>0, <2>4 DEF RateInv
    <3> QED
      BY <1>0, <1>1, <1>2, <2>1, <2>4, <3>2, <3>3, <3>4
  <2> QED
    BY <2>2, <2>3, <2>4
<1> QED
  BY <1>4, <1>5

\* A granted begin is counted, and was within the limit.
LEMMA CountUpdate ==
    ASSUME Inv, NEW k \in Keys, NEW p \in HeldParams, TagErrors(k, p) = {},
           IF CountLimited(k) THEN IncrementKeyAccessCount(k) ELSE UNCHANGED access_count,
           RecordGrant(k, p)
    PROVE  CountInv'
<1>0. TypeOK /\ CountInv /\ uses \in [Keys -> Nat]
  BY DEF Inv, TypeOK
<1>1. CASE ~CountLimited(k)
  BY <1>0, <1>1 DEF CountInv, RecordGrant, CountLimited
<1>2. CASE CountLimited(k)
  <2>1. uses' = [uses EXCEPT ![k] = @ + 1]
    BY <1>2 DEF RecordGrant
  <2>2. MaxUsesPerBootNotExceeded(k)
    BY <1>2, NoTagErrors
  <2>3. KeyAuths[k].max_uses \in Nat
    BY <1>2, AuthsType DEF CountLimited, NoLimit
  <2>4. k \in DOMAIN access_count => access_count[k] \in Nat
    BY <1>0 DEF TypeOK
  <2> SUFFICES ASSUME NEW j \in Keys, CountLimited(j)
               PROVE  /\ j \in DOMAIN access_count' =>
                            /\ uses'[j] <= access_count'[j]
                            /\ access_count'[j] <= 1 \/ access_count'[j] <= KeyAuths[j].max_uses
                      /\ j \notin DOMAIN access_count' => uses'[j] = 0
    BY DEF CountInv, CountLimited
  <2>5. CASE j = k
    <3>0. uses'[k] = uses[k] + 1 /\ uses[k] \in Nat
      BY <1>0, <2>1
    <3>1. /\ k \in DOMAIN access_count'
          /\ access_count'[k] = IF k \in DOMAIN access_count THEN access_count[k] + 1 ELSE 1
      BY <1>0, <1>2, AccessCountType, Zenon
    <3>2. CASE k \in DOMAIN access_count
      <4>1. uses[k] <= access_count[k] /\ access_count[k] < KeyAuths[k].max_uses
        BY <1>0, <1>2, <2>2, <3>2 DEF CountInv, MaxUsesPerBootNotExceeded
      <4>2. access_count'[k] = access_count[k] + 1 /\ access_count[k] \in Nat
        BY <2>4, <3>1, <3>2
      <4>3. uses'[k] <= access_count'[k] /\ access_count'[k] <= KeyAuths[k].max_uses
        BY <2>3, <3>0, <4>1, <4>2
      <4> QED
        BY <2>5, <3>1, <4>3
    <3>3. CASE k \notin DOMAIN access_count
      <4>1. uses[k] = 0
        BY <1>0, <1>2, <3>3 DEF CountInv
      <4> QED
        BY <2>5, <3>0, <3>1, <3>3, <4>1
    <3> QED
      BY <3>2, <3>3
  <2>6. CASE j # k
    <3>1. uses'[j] = uses[j]
      BY <1>0, <2>1, <2>6
    <3>2. /\ j \in DOMAIN access_count' <=> j \in DOMAIN access_count
          /\ j \in DOMAIN access_count => access_count'[j] = access_count[j]
      <4>1. /\ DOMAIN access_count' = DOMAIN access_count \cup {k}
            /\ \A i \in DOMAIN access_count \ {k} : access_count'[i] = access_count[i]
        BY <1>0, <1>2, AccessCountType, Zenon
      <4> QED
        BY ONLY <2>6, <4>1
    <3>3. /\ j \in DOMAIN access_count =>
                /\ uses[j] <= access_count[j]
                /\ access_count[j] <= 1 \/ access_count[j] <= KeyAuths[j].max_uses
          /\ j \notin DOMAIN access_count => uses[j] = 0
      BY <1>0 DEF CountInv
    <3> QED
      BY <3>1, <3>2, <3>3
  <2> QED
    BY <2>5, <2>6
<1> QED
  BY <1>1, <1>2

\* The clock only moves the other conjuncts further into the past.
LEMMA TickInv ==
    ASSUME Inv, Tick
    PROVE  Inv'
<1>0. TypeOK /\ TypeOK' /\ now <= now'
  BY TickType DEF Inv
<1>1. /\ get_current_time \in Nat /\ get_current_time' \in Nat
      /\ get_current_time <= get_current_time'
  <2>1. get_current_time \in Nat /\ get_current_time' \in Nat
    BY <1>0, EnforcementAssumption DEF TypeOK, get_current_time
  <2> QED
    BY <1>0, <2>1, ClockMonotone
<1>2. UNCHANGED <<access_time, access_count, last_grant, uses, tokens, stale_tokens,
                  device_locked_at>>
  BY DEF Tick, RecordNoGrant, tables, lockState
<1>3. RateInv'
  <2> SUFFICES ASSUME NEW k \in Keys
               PROVE  /\ k \in DOMAIN access_time =>
                            /\ access_time[k].timeout = KeyAuths[k].min_seconds
                            /\ access_time[k].access_time <= get_current_time'
                            /\ last_grant[k] <= access_time[k].access_time
                      /\ k \notin DOMAIN access_time /\ last_grant[k] # -1 =>
                            get_current_time' - last_grant[k] >= KeyAuths[k].min_seconds
    BY <1>2 DEF RateInv
  <2>1. k \in DOMAIN access_time => access_time[k].access_time \in Nat
    BY <1>0 DEF TypeOK
  <2>2. last_grant[k] \in Nat \cup {-1} /\ KeyAuths[k].min_seconds \in Nat
    BY <1>0, AuthsType DEF TypeOK
  <2> QED
    BY <1>1, <2>1, <2>2 DEF Inv, RateInv
<1>4. CountInv'
  BY <1>2 DEF Inv, CountInv, CountLimited
<1>5. TokenInv'
  <2>1. \A t \in tokens : t.timestamp \in Nat
    BY <1>0 DEF TypeOK, Tokens
  <2>2. now \in Nat /\ now' \in Nat
    BY <1>0, EnforcementAssumption DEF TypeOK
  <2> QED
    BY <1>0, <1>2, <2>1, <2>2 DEF Inv, TokenInv
<1> QED
  BY <1>0, <1>3, <1>4, <1>5 DEF Inv

\* A begin keeps the invariant.
LEMMA BeginInv ==
    ASSUME Inv, NEW k \in Keys, NEW purpose \in Purposes, NEW p \in HeldParams,
           Begin(k, purpose, p)
    PROVE  Inv'
<1>1. TypeOK /\ TypeOK'
  BY BeginType DEF Inv
<1>2. UNCHANGED <<now, device_locked_at, tokens, stale_tokens>>
  BY DEF Begin, lockState
<1>3. TokenInv'
  BY <1>2 DEF Inv, TokenInv
<1>4. CASE UNCHANGED tables /\ RecordNoGrant
  <2>1. UNCHANGED <<access_time, access_count, last_grant, uses>>
    BY <1>4 DEF tables, RecordNoGrant
  <2>2. RateInv'
    BY <1>2, <2>1 DEF Inv, RateInv, get_current_time
  <2>3. CountInv'
    BY <2>1 DEF Inv, CountInv, CountLimited
  <2> QED
    BY <1>1, <1>3, <2>2, <2>3 DEF Inv
<1>5. CASE UpdateKeyAccessTime(k) /\ UNCHANGED access_count /\ RecordNoGrant
  <2>1. UNCHANGED <<last_grant, uses>>
    BY <1>5 DEF RecordNoGrant
  <2>2. RateInv'
    BY <1>2, <1>5, <2>1, RateUpdate
  <2>3. CountInv'
    BY <1>5, <2>1 DEF Inv, CountInv, CountLimited
  <2> QED
    BY <1>1, <1>3, <2>2, <2>3 DEF Inv
<1>6. CASE /\ TagErrors(k, p) = {} /\ ~TimeTableFull(k)
           /\ IF RateLimited(k) THEN UpdateKeyAccessTime(k) ELSE UNCHANGED access_time
           /\ IF CountLimited(k) THEN IncrementKeyAccessCount(k) ELSE UNCHANGED access_count
           /\ RecordGrant(k, p)
  <2>1. CASE RateLimited(k)
    <3>1. last_grant' = [last_grant EXCEPT ![k] = get_current_time]
      BY <1>6, <2>1 DEF RecordGrant
    <3>2. RateInv'
      BY <1>2, <1>6, <2>1, <3>1, RateUpdate, Zenon
    <3> QED
      BY <1>1, <1>3, <1>6, <3>2, CountUpdate DEF Inv
  <2>2. CASE ~RateLimited(k)
    <3>1. access_time' = access_time /\ last_grant' = last_grant /\ now' = now
      BY <1>2, <1>6, <2>2 DEF RecordGrant
    <3>2. RateInv'
      BY ONLY Inv, <3>1 DEF Inv, RateInv, get_current_time
    <3> QED
      BY <1>1, <1>3, <1>6, <3>2, CountUpdate DEF Inv
  <2> QED
    BY <2>1, <2>2
<1> QED
  BY <1>4, <1>5, <1>6, BeginCases

\* Every step keeps the invariant.
LEMMA InvStep ==
    ASSUME Inv, [EnforcementNext]_enforcementVars
    PROVE  Inv'
<1>0. TypeOK /\ TypeOK'
  BY TypeStep DEF Inv
<1>1. ASSUME NEW k \in Keys, NEW purpose \in Purposes, NEW p \in HeldParams,
             Begin(k, purpose, p)
      PROVE  Inv'
  BY <1>1, BeginInv
<1>2. CASE Tick
  BY <1>2, TickInv
<1>3. ASSUME UNCHANGED <<now, access_time, access_count, last_grant, uses>>
      PROVE  RateInv' /\ CountInv'
  BY <1>3 DEF Inv, RateInv, CountInv, CountLimited, get_current_time
<1>4. CASE EarlyBootEnded
  BY <1>0, <1>3, <1>4 DEF EarlyBootEnded, RecordNoGrant, tables, lockState, Inv, TokenInv
<1>5. ASSUME NEW password_only \in BOOLEAN, DeviceLocked(password_only)
      PROVE  Inv'
  BY <1>0, <1>3, <1>5 DEF DeviceLocked, RecordNoGrant, tables, Inv, TokenInv
<1>6. ASSUME NEW token \in MintableTokens, MintToken(token)
      PROVE  Inv'
  <2>1. token.timestamp <= now
    BY <1>0, <1>6, EnforcementAssumption DEF MintToken, TypeOK
  <2> QED
    BY <1>0, <1>3, <1>6, <2>1 DEF MintToken, RecordNoGrant, tables, lockState, Inv, TokenInv
<1>7. CASE UNCHANGED enforcementVars
  BY <1>0, <1>3, <1>7 DEF enforcementVars, Inv, TokenInv
<1> QED
  BY <1>1, <1>2, <1>4, <1>5, <1>6, <1>7 DEF EnforcementNext

\* The initial state satisfies the invariant.
LEMMA InvInit == EnforcementInit => Inv
<1> SUFFICES ASSUME EnforcementInit PROVE Inv
  OBVIOUS
<1>1. DOMAIN access_time = {} /\ DOMAIN access_count = {}
  BY DEF EnforcementInit
<1> QED
  BY <1>1, TypeInit DEF EnforcementInit, Inv, RateInv, CountInv, TokenInv

\* The inductive invariant holds always.
THEOREM Invariance == EnforcementSpec => []Inv
BY InvInit, InvStep, PTL DEF EnforcementSpec

\* MAX_USES_PER_BOOT holds for every limit, table size and history of calls.
THEOREM UsesLimited == EnforcementSpec => []UsesWithinLimit
<1>1. Inv => UsesWithinLimit
  <2> SUFFICES ASSUME Inv, NEW k \in Keys, CountLimited(k)
               PROVE  uses[k] <= 1 \/ uses[k] <= KeyAuths[k].max_uses
    BY DEF UsesWithinLimit
  <2>1. uses[k] \in Nat /\ KeyAuths[k].max_uses \in Nat
    BY AuthsType DEF Inv, TypeOK, CountLimited, NoLimit
  <2>2. k \in DOMAIN access_count => access_count[k] \in Nat
    BY DEF Inv, TypeOK
  <2> QED
    BY <2>1, <2>2 DEF Inv, CountInv
<1> QED
  BY <1>1, Invariance, PTL

\* A step other than a begin records that it granted nothing.
LEMMA OnlyBeginGrants ==
    ASSUME EnforcementNext,
           \A k \in Keys, purpose \in Purposes, p \in HeldParams : ~Begin(k, purpose, p)
    PROVE  grant' = NoGrant
BY DEF EnforcementNext, Tick, EarlyBootEnded, DeviceLocked, MintToken, RecordNoGrant

\* A granted begin comes no sooner than the key's timeout after the last one.
LEMMA GrantRate ==
    ASSUME Inv, NEW k \in Keys, NEW p \in HeldParams, TagErrors(k, p) = {}, RecordGrant(k, p)
    PROVE  RateLimitKept'
<1> SUFFICES ASSUME RateLimited(k), last_grant[k] # -1
             PROVE  get_current_time - last_grant[k] >= KeyAuths[k].min_seconds
  BY DEF RateLimitKept, RecordGrant, RateLimited
<1>1. /\ last_grant[k] \in Nat \cup {-1} /\ get_current_time \in Nat
      /\ KeyAuths[k].min_seconds \in Nat
      /\ k \in DOMAIN access_time => access_time[k].access_time \in Nat
  BY ClockType, AuthsType DEF Inv, TypeOK
<1>2. MinTimeBetweenOpsPassed(k)
  BY NoTagErrors
<1>3. CASE k \in DOMAIN access_time
  <2>1. /\ KeyAuths[k].min_seconds <= get_current_time - access_time[k].access_time
        /\ last_grant[k] <= access_time[k].access_time
    BY <1>2, <1>3 DEF MinTimeBetweenOpsPassed, Inv, RateInv
  <2> QED
    BY <1>1, <1>3, <2>1
<1>4. CASE k \notin DOMAIN access_time
  BY <1>4 DEF Inv, RateInv
<1> QED
  BY <1>3, <1>4

\* A begin granted to a key that needs the device unlocked had a fresh token.
LEMMA GrantFresh ==
    ASSUME Inv, NEW k \in Keys, NEW p \in HeldParams, TagErrors(k, p) = {}, RecordGrant(k, p),
           UNCHANGED <<device_locked_at, password_unlock_only, tokens, stale_tokens>>
    PROVE  LockedKeysNeedFreshToken'
<1> SUFFICES ASSUME KeyAuths[k].unlocked_device_required, device_locked_at > 0
             PROVE  /\ p.token \in tokens \ stale_tokens
                    /\ password_unlock_only => "PASSWORD" \in p.token.auth_type
  BY DEF LockedKeysNeedFreshToken, RecordGrant
<1>1. UnlockedBy(p)
  BY NoTagErrors
<1>2. p.token \in tokens
  BY <1>1 DEF UnlockedBy, HeldParams
<1>3. p.token.timestamp \in Nat /\ device_locked_at \in Nat
  BY <1>2, EnforcementAssumption DEF Inv, TypeOK, Tokens
<1>4. p.token \notin stale_tokens
  BY <1>1, <1>3 DEF UnlockedBy, Inv, TokenInv
<1> QED
  BY <1>1, <1>2, <1>4, SMTT(20) DEF UnlockedBy

\* What each step leaves for the two properties about grants.
LEMMA GrantStep ==
    ASSUME Inv, RateLimitKept, LockedKeysNeedFreshToken, [EnforcementNext]_enforcementVars
    PROVE  RateLimitKept' /\ LockedKeysNeedFreshToken'
<1>1. ASSUME grant' = NoGrant
      PROVE  RateLimitKept' /\ LockedKeysNeedFreshToken'
  BY <1>1 DEF RateLimitKept, LockedKeysNeedFreshToken
<1>2. ASSUME NEW k \in Keys, NEW purpose \in Purposes, NEW p \in HeldParams,
             Begin(k, purpose, p)
      PROVE  RateLimitKept' /\ LockedKeysNeedFreshToken'
  <2>1. CASE RecordNoGrant
    BY <1>1, <2>1 DEF RecordNoGrant
  <2>2. CASE TagErrors(k, p) = {} /\ RecordGrant(k, p)
    BY <1>2, <2>2, GrantRate, GrantFresh, SMTT(20) DEF Begin, lockState
  <2> QED
    BY <1>2, <2>1, <2>2, BeginCases
<1>3. CASE UNCHANGED enforcementVars
  BY <1>3 DEF enforcementVars, RateLimitKept, LockedKeysNeedFreshToken, RateLimited
<1> QED
  BY <1>1, <1>2, <1>3, OnlyBeginGrants

\* MIN_SECONDS_BETWEEN_OPS holds although the table forgets expired entries,
\* refuses keys when it is full and counts in whole seconds.
THEOREM RateLimitHolds == EnforcementSpec => []RateLimitKept
<1>1. EnforcementInit => RateLimitKept /\ LockedKeysNeedFreshToken
  BY DEF EnforcementInit, RateLimitKept, LockedKeysNeedFreshToken
<1> QED
  BY <1>1, Invariance, GrantStep, PTL DEF EnforcementSpec

\* UNLOCKED_DEVICE_REQUIRED holds: after a lock only a token minted later
\* unlocks a key, for any number of locks and tokens.
THEOREM LockHolds == EnforcementSpec => []LockedKeysNeedFreshToken
<1>1. EnforcementInit => RateLimitKept /\ LockedKeysNeedFreshToken
  BY DEF EnforcementInit, RateLimitKept, LockedKeysNeedFreshToken
<1> QED
  BY <1>1, Invariance, GrantStep, PTL DEF EnforcementSpec

-----------------------------------------------------------------------------
(* AndroidKeymaster. *)

(***************************************************************************)
(* The enforcement under AndroidKeymaster.                                 *)
(***************************************************************************)

\* What is proved of Enforcement alone.
EnforcementKept == Inv /\ RateLimitKept /\ LockedKeysNeedFreshToken

\* A call of AndroidKeymaster is a begin or an event of the enforcement, or it
\* leaves the enforcement alone.
LEMMA EnforcementPart ==
    ASSUME Next
    PROVE  EnforcementNext \/ EnforcementUnchanged
<1>1. ASSUME NEW k \in Keys, NEW purpose \in Purposes, NEW p \in HeldParams, NEW h, NEW a,
             BeginOperation(k, purpose, p, h, a)
      PROVE  EnforcementNext \/ EnforcementUnchanged
  <2>1. CASE RecordNoGrant /\ UNCHANGED tables
    BY <1>1, <2>1 DEF BeginOperation, EnforcementUnchanged
  <2>2. CASE \E error \in OperationAnswers(k, purpose, p) :
                AuthorizeOperation(k, purpose, p, error)
    BY <1>1, <2>2 DEF BeginOperation, EnforcementNext, Begin
  <2> QED
    BY <1>1, <2>1, <2>2 DEF BeginOperation
<1>2. ASSUME NEW h, NEW p, NEW n, NEW a, UpdateOperation(h, p, n, a)
      PROVE  EnforcementUnchanged
  BY <1>2 DEF UpdateOperation
<1>3. ASSUME NEW h, NEW p, NEW n, NEW c, NEW a, FinishOperation(h, p, n, c, a)
      PROVE  EnforcementUnchanged
  BY <1>3 DEF FinishOperation
<1>4. ASSUME NEW h, NEW a, AbortOperation(h, a)
      PROVE  EnforcementUnchanged
  BY <1>4 DEF AbortOperation
<1>5. ASSUME NEW k, DeleteKey(k)
      PROVE  EnforcementUnchanged
  BY <1>5 DEF DeleteKey
<1>6. CASE DeleteAllKeys
  BY <1>6 DEF DeleteAllKeys
<1>7. CASE EnforcementEvent
  BY <1>7 DEF EnforcementEvent, EnforcementNext, MintTokenForHandle
<1> QED
  BY <1>1, <1>2, <1>3, <1>4, <1>5, <1>6, <1>7 DEF Next

\* Leaving the enforcement alone keeps what is known of it.
LEMMA UnchangedKept ==
    ASSUME EnforcementKept, EnforcementUnchanged
    PROVE  EnforcementKept'
<1>1. /\ UNCHANGED <<now, access_time, access_count, in_early_boot, device_locked_at,
                     password_unlock_only, tokens, stale_tokens, last_grant, uses>>
      /\ grant' = NoGrant
  BY DEF EnforcementUnchanged, RecordNoGrant, tables, lockState
<1>2. TypeOK'
  BY <1>1, SMTT(20) DEF EnforcementKept, Inv, TypeOK
<1>3. RateInv' /\ CountInv' /\ TokenInv'
  BY <1>1, SMTT(20) DEF EnforcementKept, Inv, RateInv, CountInv, CountLimited, TokenInv, get_current_time
<1>4. RateLimitKept' /\ LockedKeysNeedFreshToken'
  BY <1>1 DEF RateLimitKept, LockedKeysNeedFreshToken
<1> QED
  BY <1>2, <1>3, <1>4 DEF EnforcementKept, Inv

\* Every step keeps what is known of the enforcement.
LEMMA EnforcementStep ==
    ASSUME EnforcementKept, [Next]_vars
    PROVE  EnforcementKept'
<1>1. CASE [EnforcementNext]_enforcementVars
  BY <1>1, InvStep, GrantStep DEF EnforcementKept
<1>2. CASE EnforcementUnchanged
  BY <1>2, UnchangedKept
<1>3. CASE UNCHANGED vars
  BY <1>1, <1>3 DEF vars
<1> QED
  BY <1>1, <1>2, <1>3, EnforcementPart

\* It is known of the initial state.
LEMMA EnforcementStart == Init => EnforcementKept
BY InvInit, Zenon DEF Init, EnforcementKept, EnforcementInit, RateLimitKept, LockedKeysNeedFreshToken

\* The limits of Enforcement hold of the operations of AndroidKeymaster, whichever of the
\* steps around AuthorizeOperation fail.
THEOREM EnforcementHolds == Spec => []EnforcementKept
BY EnforcementStart, EnforcementStep, PTL DEF Spec

(***************************************************************************)
(* The inductive invariant.                                                *)
(***************************************************************************)

\* A key is not both in secure storage and gone from it.
StorageInv == stored \cap gone = {}

\* Tokens are made for handles that were given out, so none of those there were
\* at the begin of an operation is for its handle, which was new.
ChallengeInv ==
    /\ \A t \in tokens : t.challenge \in issued \cup {0}
    /\ \A h \in issued : \A t \in begin_tokens[h] : t.challenge # h

\* The operations of k that the enforcement was asked about.
UnderWayOf(k) ==
    {h \in DOMAIN operations :
        operations[h].key = k /\ ~IsPublicKeyOperation(k, operations[h].purpose)}

\* The uses of k the enforcement has counted.
Counted(k) == IF k \in DOMAIN access_count THEN access_count[k] ELSE 0

KeymasterInv ==
    /\ KeymasterTypeOK
    /\ IsFiniteSet(DOMAIN operations)
    /\ StorageInv
    /\ ChallengeInv
    /\ OperationsCoveredByUses

(***************************************************************************)
(* What the calls do to the operation table.                               *)
(***************************************************************************)

\* An operation that leaves the table leaves the others as they are.
LEMMA DeleteTable ==
    ASSUME KeymasterInv, NEW h, Delete(h), UNCHANGED issued
    PROVE  /\ DOMAIN operations' \subseteq DOMAIN operations
           /\ \A g \in DOMAIN operations' : operations'[g] = operations[g]
           /\ operations' \in [DOMAIN operations' -> Operations]
BY DEF Delete, KeymasterInv, KeymasterTypeOK

\* The counts are numbers.
LEMMA CountedType ==
    ASSUME TypeOK, NEW k \in Keys
    PROVE  Counted(k) \in Nat
BY DEF TypeOK, Counted

\* AuthorizeOperation never lowers a count, and counts a begin it grants.
LEMMA CountGrows ==
    ASSUME TypeOK, NEW k \in Keys, NEW purpose, NEW p, NEW error,
           AuthorizeOperation(k, purpose, p, error)
    PROVE  /\ \A j \in Keys : Counted(j) <= Counted(j)'
           /\ error = "OK" /\ ~IsPublicKeyOperation(k, purpose) /\ CountLimited(k)
                 => Counted(k)' = Counted(k) + 1
<1>1. CASE IncrementKeyAccessCount(k)
  <2>0. /\ k \in DOMAIN access_count'
        /\ access_count'[k] = IF k \in DOMAIN access_count THEN access_count[k] + 1 ELSE 1
    BY <1>1, AccessCountType, Zenon
  <2>1. Counted(k)' = Counted(k) + 1
    BY <2>0 DEF Counted
  <2>2. \A j \in Keys \ {k} : Counted(j)' = Counted(j)
    BY <1>1, AccessCountType, Zenon DEF Counted
  <2>3. \A j \in Keys : Counted(j) \in Nat
    BY CountedType
  <2>4. ASSUME NEW j \in Keys PROVE Counted(j) <= Counted(j)'
    BY <2>1, <2>2, <2>3
  <2> QED
    BY <2>1, <2>4
<1>2. CASE UNCHANGED access_count /\ ~(/\ error = "OK" /\ ~IsPublicKeyOperation(k, purpose)
                                       /\ CountLimited(k))
  <2>1. \A j \in Keys : Counted(j)' = Counted(j)
    BY <1>2 DEF Counted
  <2> QED
    BY <1>2, <2>1, CountedType
<1> QED
  BY <1>1, <1>2 DEF AuthorizeOperation, AuthorizeBegin, tables

\* The operations of a key under way are finitely many.
LEMMA UnderWayFinite ==
    ASSUME KeymasterInv, NEW k
    PROVE  IsFiniteSet(UnderWayOf(k)) /\ Cardinality(UnderWayOf(k)) \in Nat
<1>1. UnderWayOf(k) \subseteq DOMAIN operations
  BY DEF UnderWayOf
<1> QED
  BY <1>1, FS_Subset, FS_CardinalityType DEF KeymasterInv

\* A table with no new operations and no other keys or purposes is still covered.
LEMMA ShrinkCovered ==
    ASSUME KeymasterInv, TypeOK', \A k \in Keys : Counted(k) <= Counted(k)',
           DOMAIN operations' \subseteq DOMAIN operations,
           \A g \in DOMAIN operations' : /\ operations'[g].key = operations[g].key
                                         /\ operations'[g].purpose = operations[g].purpose
    PROVE  IsFiniteSet(DOMAIN operations') /\ OperationsCoveredByUses'
<1>1. IsFiniteSet(DOMAIN operations')
  BY FS_Subset DEF KeymasterInv
<1>2. ASSUME NEW k \in Keys, CountLimited(k)
      PROVE  Cardinality(UnderWayOf(k)') <= Counted(k)'
  <2>1. UnderWayOf(k)' \subseteq UnderWayOf(k)
    BY DEF UnderWayOf, IsPublicKeyOperation
  <2>2. Cardinality(UnderWayOf(k)') <= Cardinality(UnderWayOf(k))
        /\ Cardinality(UnderWayOf(k)') \in Nat
    BY <2>1, UnderWayFinite, FS_Subset, FS_CardinalityType
  <2>3. Cardinality(UnderWayOf(k)) <= Counted(k)
    BY <1>2 DEF KeymasterInv, OperationsCoveredByUses, UnderWayOf, Counted
  <2>4. Counted(k) \in Nat /\ Counted(k)' \in Nat
    BY CountedType DEF KeymasterInv, KeymasterTypeOK, TypeOK, Counted
  <2> QED
    BY <2>2, <2>3, <2>4, UnderWayFinite
<1> QED
  BY <1>1, <1>2 DEF OperationsCoveredByUses, UnderWayOf, CountLimited, IsPublicKeyOperation, Counted

\* A new operation is covered by the use that its begin has counted.
LEMMA AddCovered ==
    ASSUME KeymasterInv, TypeOK', NEW k \in Keys, NEW purpose \in Purposes, NEW p, NEW h,
           h \notin DOMAIN operations, NEW operation \in Operations, Add(h, operation),
           operation.key = k, operation.purpose = purpose,
           AuthorizeOperation(k, purpose, p, "OK")
    PROVE  IsFiniteSet(DOMAIN operations') /\ OperationsCoveredByUses'
<1>0. TypeOK
  BY DEF KeymasterInv, KeymasterTypeOK
<1>1. /\ DOMAIN operations' = DOMAIN operations \cup {h}
      /\ operations'[h] = operation
      /\ \A g \in DOMAIN operations : operations'[g] = operations[g]
  BY SMTT(20) DEF Add
<1>2. IsFiniteSet(DOMAIN operations')
  BY <1>1, FS_AddElement, Zenon DEF KeymasterInv
<1>3. ASSUME NEW j \in Keys, CountLimited(j)
      PROVE  Cardinality(UnderWayOf(j)') <= Counted(j)'
  <2>1. Cardinality(UnderWayOf(j)) <= Counted(j)
    BY <1>3 DEF KeymasterInv, OperationsCoveredByUses, UnderWayOf, Counted
  <2>2. Counted(j) \in Nat /\ Counted(j)' \in Nat /\ Cardinality(UnderWayOf(j)) \in Nat
    BY <1>0, CountedType, UnderWayFinite DEF TypeOK, Counted
  <2>3. CASE j = k /\ ~IsPublicKeyOperation(k, purpose)
    <3>1. UnderWayOf(j)' = UnderWayOf(j) \cup {h} /\ h \notin UnderWayOf(j)
      BY <1>1, <2>3 DEF UnderWayOf, IsPublicKeyOperation
    <3>2. Cardinality(UnderWayOf(j)') = Cardinality(UnderWayOf(j)) + 1
      BY <3>1, UnderWayFinite, FS_AddElement, Zenon
    <3>3. Counted(j)' = Counted(j) + 1
      BY <1>0, <1>3, <2>3, CountGrows
    <3> QED
      BY <2>1, <2>2, <3>2, <3>3, SMTT(20)
  <2>4. CASE ~(j = k /\ ~IsPublicKeyOperation(k, purpose))
    <3>1. UnderWayOf(j)' = UnderWayOf(j)
      BY <1>1, <2>4 DEF UnderWayOf, IsPublicKeyOperation
    <3>2. Counted(j) <= Counted(j)'
      BY <1>0, CountGrows
    <3> QED
      BY <2>1, <2>2, <3>1, <3>2, SMTT(20)
  <2> QED
    BY <2>3, <2>4, SMTT(20)
<1> QED
  BY <1>2, <1>3, Zenon DEF OperationsCoveredByUses, UnderWayOf, CountLimited, IsPublicKeyOperation, Counted

(***************************************************************************)
(* Every step keeps the invariant.                                         *)
(***************************************************************************)

\* A call that asks the enforcement nothing and begins nothing.
LEMMA QuietStep ==
    ASSUME KeymasterInv, TypeOK', EnforcementUnchanged, UNCHANGED <<issued, begin_tokens>>,
           DOMAIN operations' \subseteq DOMAIN operations,
           operations' \in [DOMAIN operations' -> Operations],
           \A g \in DOMAIN operations' : /\ operations'[g].key = operations[g].key
                                         /\ operations'[g].purpose = operations[g].purpose,
           stored' \subseteq stored, gone' \subseteq StoredKeys, stored' \cap gone' = {},
           completed' \in [Keys -> Nat], finish' \in Finishes \cup {NoFinish}
    PROVE  KeymasterInv'
<1>1. UNCHANGED <<tokens, access_count>>
  BY DEF EnforcementUnchanged, tables
<1>2. \A k \in Keys : Counted(k) <= Counted(k)'
  BY <1>1, CountedType DEF Counted, KeymasterInv, KeymasterTypeOK
<1>3. IsFiniteSet(DOMAIN operations') /\ OperationsCoveredByUses'
  BY <1>2, ShrinkCovered
<1>4. KeymasterTypeOK'
  BY <1>1 DEF KeymasterInv, KeymasterTypeOK
<1>5. ChallengeInv'
  BY <1>1 DEF KeymasterInv, ChallengeInv
<1> QED
  BY <1>3, <1>4, <1>5 DEF KeymasterInv, StorageInv

\* What is known of a call for an operation in the table.
LEMMA OperationFound ==
    ASSUME KeymasterInv, NEW h, Find(h)
    PROVE  /\ h \in Handles /\ h # 0 /\ h \in issued
           /\ operations[h] \in Operations
           /\ operations[h].key \in Keys /\ operations[h].purpose \in Purposes
           /\ operations[h].confirmed \in Nat \cup {NoBuffer}
<1>1. h \in issued /\ operations[h] \in Operations
  BY DEF KeymasterInv, KeymasterTypeOK, Find
<1> QED
  BY <1>1, KeymasterAssumption DEF KeymasterInv, KeymasterTypeOK, Operations

\* BeginOperation: a new operation has a new handle and was counted.
LEMMA BeginStep ==
    ASSUME KeymasterInv, TypeOK', NEW k \in Keys, NEW purpose \in Purposes, NEW p \in HeldParams,
           NEW h, NEW a, BeginOperation(k, purpose, p, h, a)
    PROVE  KeymasterInv'
<1>0. /\ UNCHANGED <<tokens, stored, completed, gone>> /\ finish' = NoFinish
      /\ h \in Handles \ issued
  BY DEF BeginOperation
<1>1. ASSUME UNCHANGED <<operations, issued, begin_tokens>>,
             \A j \in Keys : Counted(j) <= Counted(j)'
      PROVE  KeymasterInv'
  <2>1. IsFiniteSet(DOMAIN operations') /\ OperationsCoveredByUses'
    BY <1>1, ShrinkCovered
  <2>2. KeymasterTypeOK'
    BY <1>0, <1>1 DEF KeymasterInv, KeymasterTypeOK
  <2> QED
    BY <1>0, <1>1, <2>1, <2>2, Zenon DEF KeymasterInv, StorageInv, ChallengeInv
<1>2. CASE UNCHANGED <<tables, tableVars>>
  <2>1. \A j \in Keys : Counted(j) <= Counted(j)'
    BY <1>2, CountedType DEF Counted, tables, KeymasterInv, KeymasterTypeOK
  <2> QED
    BY <1>1, <1>2, <2>1 DEF tableVars
<1>3. ASSUME NEW error, AuthorizeOperation(k, purpose, p, error), UNCHANGED tableVars
      PROVE  KeymasterInv'
  <2>1. \A j \in Keys : Counted(j) <= Counted(j)'
    BY <1>3, CountGrows DEF KeymasterInv, KeymasterTypeOK
  <2> QED
    BY <1>1, <1>3, <2>1 DEF tableVars
<1>4. ASSUME NEW operation, AuthorizeOperation(k, purpose, p, "OK"), Add(h, operation),
             operation = [key |-> k, purpose |-> purpose,
                          confirmed |-> IF k \in ConfirmedKeys THEN 0 ELSE NoBuffer],
             issued' = issued \cup {h}, begin_tokens' = [begin_tokens EXCEPT ![h] = tokens]
      PROVE  KeymasterInv'
  <2>1. operation \in Operations /\ operation.key = k /\ operation.purpose = purpose
    BY <1>4 DEF Operations
  <2>2. h \notin DOMAIN operations
    BY <1>0 DEF KeymasterInv, KeymasterTypeOK
  <2>3. IsFiniteSet(DOMAIN operations') /\ OperationsCoveredByUses'
    BY <1>4, <2>1, <2>2, AddCovered
  <2>4. /\ DOMAIN operations' = DOMAIN operations \cup {h}
        /\ operations' \in [DOMAIN operations' -> Operations]
    BY <1>4, <2>1 DEF Add, KeymasterInv, KeymasterTypeOK
  <2>5. begin_tokens' \in [Handles -> SUBSET tokens]
    BY <1>4, Zenon DEF KeymasterInv, KeymasterTypeOK
  <2>6. KeymasterTypeOK'
    BY <1>0, <1>4, <2>4, <2>5, SMTT(20) DEF KeymasterInv, KeymasterTypeOK
  <2>7. ChallengeInv'
    <3>1. \A t \in tokens : t.challenge # h
      BY <1>0, KeymasterAssumption DEF KeymasterInv, ChallengeInv
    <3>2. /\ begin_tokens'[h] = tokens
          /\ \A g \in issued : begin_tokens'[g] = begin_tokens[g]
      BY <1>0, <1>4 DEF KeymasterInv, KeymasterTypeOK
    <3> QED
      BY <1>0, <1>4, <3>1, <3>2 DEF KeymasterInv, ChallengeInv
  <2> QED
    BY <1>0, <2>3, <2>6, <2>7, Zenon DEF KeymasterInv, StorageInv
<1> QED
  BY <1>2, <1>3, <1>4 DEF BeginOperation

\* UpdateOperation: the operation stays, with more of the message in its confirmation
\* buffer, or it leaves the table.
LEMMA UpdateStep ==
    ASSUME KeymasterInv, TypeOK', NEW h, NEW p, NEW n \in InputSizes, NEW a,
           UpdateOperation(h, p, n, a)
    PROVE  KeymasterInv'
<1>1. /\ EnforcementUnchanged /\ finish' = NoFinish
      /\ UNCHANGED <<stored, issued, begin_tokens, completed, gone>>
  BY DEF UpdateOperation
<1>2. /\ stored' \subseteq stored /\ gone' \subseteq StoredKeys /\ stored' \cap gone' = {}
      /\ completed' \in [Keys -> Nat] /\ finish' \in Finishes \cup {NoFinish}
  BY <1>1, SMTT(20) DEF KeymasterInv, KeymasterTypeOK, StorageInv
<1>3. CASE UNCHANGED operations
  BY <1>1, <1>2, <1>3, QuietStep DEF KeymasterInv, KeymasterTypeOK
<1>4. CASE Delete(h)
  BY <1>1, <1>2, <1>4, DeleteTable, QuietStep
<1>5. CASE /\ Find(h) /\ operations[h].confirmed # NoBuffer
           /\ operations' = [operations EXCEPT ![h].confirmed = @ + n]
  <2> DEFINE longer == [operations[h] EXCEPT !.confirmed = operations[h].confirmed + n]
  <2>1. longer \in Operations /\ longer.key = operations[h].key
        /\ longer.purpose = operations[h].purpose
    BY <1>5, OperationFound, KeymasterAssumption DEF Operations
  <2>2. operations' = [operations EXCEPT ![h] = longer]
    BY <1>5
  <2> HIDE DEF longer
  <2>3. /\ DOMAIN operations' = DOMAIN operations
        /\ operations' \in [DOMAIN operations' -> Operations]
        /\ \A g \in DOMAIN operations' : /\ operations'[g].key = operations[g].key
                                         /\ operations'[g].purpose = operations[g].purpose
    BY <2>1, <2>2, Zenon DEF KeymasterInv, KeymasterTypeOK
  <2> QED
    BY <1>1, <1>2, <2>3, QuietStep
<1> QED
  BY <1>3, <1>4, <1>5 DEF UpdateOperation

\* Complete spends the single use of a key and records what was finished.
LEMMA CompleteStorage ==
    ASSUME KeymasterInv, NEW h, NEW p \in ContinueParams, NEW c, NEW a, Find(h),
           Complete(h, p, c, a)
    PROVE  /\ stored' \subseteq stored /\ gone' \subseteq StoredKeys /\ stored' \cap gone' = {}
           /\ completed' \in [Keys -> Nat] /\ finish' \in Finishes \cup {NoFinish}
<1>1. operations[h].key \in Keys /\ operations[h].purpose \in Purposes /\ h \in Handles
  BY OperationFound
<1>2. p.token \in Tokens \cup {NoToken}
  BY DEF ContinueParams, KeymasterInv, KeymasterTypeOK, TypeOK
<1>3. stored' \subseteq stored /\ gone' \subseteq StoredKeys /\ stored' \cap gone' = {}
  <2>0. gone \subseteq StoredKeys /\ stored \cap gone = {} /\ SingleUseKeys \subseteq StoredKeys
    BY KeymasterAssumption, Zenon DEF KeymasterInv, KeymasterTypeOK, StorageInv
  <2>1. CASE operations[h].key \in SingleUseKeys
    <3>1. stored' = stored \ {operations[h].key} /\ gone' = gone \cup {operations[h].key}
      BY <2>1, Zenon DEF Complete
    <3> QED
      BY ONLY <2>0, <2>1, <3>1
  <2>2. CASE operations[h].key \notin SingleUseKeys
    <3>1. stored' = stored /\ gone' = gone
      BY <2>2, Zenon DEF Complete
    <3> QED
      BY ONLY <2>0, <3>1
  <2> QED
    BY <2>1, <2>2, Zenon
<1>4. completed' \in [Keys -> Nat]
  BY <1>1 DEF Complete, KeymasterInv, KeymasterTypeOK
<1>5. finish' \in Finishes \cup {NoFinish}
  BY <1>1, <1>2 DEF Complete, Finishes
<1> QED
  BY <1>3, <1>4, <1>5, Zenon

\* FinishOperation: the operation leaves the table.
LEMMA FinishStep ==
    ASSUME KeymasterInv, TypeOK', NEW h, NEW p \in ContinueParams, NEW n, NEW c, NEW a,
           FinishOperation(h, p, n, c, a)
    PROVE  KeymasterInv'
<1>1. EnforcementUnchanged /\ UNCHANGED <<issued, begin_tokens>> /\ Delete(h)
  BY DEF FinishOperation
<1>2. /\ stored' \subseteq stored /\ gone' \subseteq StoredKeys /\ stored' \cap gone' = {}
      /\ completed' \in [Keys -> Nat] /\ finish' \in Finishes \cup {NoFinish}
  <2>1. CASE finish' = NoFinish /\ UNCHANGED <<stored, completed, gone>>
    BY <2>1 DEF KeymasterInv, KeymasterTypeOK, StorageInv
  <2>2. CASE Find(h) /\ Complete(h, p, c, a)
    BY <2>2, CompleteStorage
  <2> QED
    BY <2>1, <2>2 DEF FinishOperation
<1> QED
  BY <1>1, <1>2, DeleteTable, QuietStep

\* AbortOperation, DeleteKey and DeleteAllKeys.
LEMMA EndStep ==
    ASSUME KeymasterInv, TypeOK',
           \/ \E h, a : AbortOperation(h, a)
           \/ \E k \in Keys : DeleteKey(k)
           \/ DeleteAllKeys
    PROVE  KeymasterInv'
<1>0. /\ KeymasterTypeOK /\ StorageInv /\ finish' = NoFinish /\ EnforcementUnchanged
      /\ UNCHANGED <<issued, begin_tokens, completed>>
  BY DEF KeymasterInv, AbortOperation, DeleteKey, DeleteAllKeys, tableVars
<1>1. ASSUME NEW h, NEW a, AbortOperation(h, a)
      PROVE  KeymasterInv'
  <2>1. Delete(h) /\ UNCHANGED <<stored, gone>>
    BY <1>1 DEF AbortOperation
  <2> QED
    BY <1>0, <2>1, DeleteTable, QuietStep DEF KeymasterTypeOK, StorageInv
<1>2. CASE (\E k \in Keys : DeleteKey(k)) \/ DeleteAllKeys
  <2>1. UNCHANGED operations
    BY <1>2 DEF DeleteKey, DeleteAllKeys, tableVars
  <2>2. stored' \subseteq stored /\ gone' \subseteq StoredKeys /\ stored' \cap gone' = {}
    BY <1>0, <1>2 DEF DeleteKey, DeleteAllKeys, KeymasterTypeOK, StorageInv
  <2> QED
    BY <1>0, <2>1, <2>2, QuietStep DEF KeymasterTypeOK
<1> QED
  BY <1>1, <1>2

\* A token is made for a handle that was given out.
LEMMA EventStep ==
    ASSUME KeymasterInv, TypeOK', EnforcementEvent
    PROVE  KeymasterInv'
<1>1. /\ UNCHANGED <<operations, issued, begin_tokens, stored, completed, gone>>
      /\ finish' = NoFinish
  BY DEF EnforcementEvent, tableVars
<1>2. UNCHANGED access_count
  BY DEF EnforcementEvent, Tick, EarlyBootEnded, DeviceLocked, MintTokenForHandle, MintToken, tables
<1>3. /\ tokens \subseteq tokens'
      /\ \A t \in tokens' \ tokens : t.challenge \in issued \cup {0}
  BY DEF EnforcementEvent, Tick, EarlyBootEnded, DeviceLocked, MintTokenForHandle, MintToken
<1>4. IsFiniteSet(DOMAIN operations') /\ OperationsCoveredByUses'
  <2>1. \A k \in Keys : Counted(k) <= Counted(k)'
    BY <1>2, CountedType DEF Counted, KeymasterInv, KeymasterTypeOK
  <2> QED
    BY <1>1, <2>1, ShrinkCovered
<1>5. begin_tokens' \in [Handles -> SUBSET tokens']
  BY <1>1, <1>3 DEF KeymasterInv, KeymasterTypeOK
<1>6. KeymasterTypeOK'
  BY <1>1, <1>5 DEF KeymasterInv, KeymasterTypeOK
<1>7. ChallengeInv'
  BY <1>1, <1>3 DEF KeymasterInv, ChallengeInv
<1> QED
  BY <1>1, <1>4, <1>6, <1>7 DEF KeymasterInv, StorageInv

\* Every step keeps the invariant.
LEMMA KeymasterStep ==
    ASSUME KeymasterInv, TypeOK', [Next]_vars
    PROVE  KeymasterInv'
<1>1. CASE Next
  BY <1>1, BeginStep, UpdateStep, FinishStep, EndStep, EventStep DEF Next
<1>2. CASE UNCHANGED vars
  <2>1. UNCHANGED <<enforcementVars, operations, stored, issued, begin_tokens, completed, gone, finish>>
    BY <1>2 DEF vars, keymasterVars
  <2>2. UNCHANGED <<tokens, access_count>>
    BY <2>1 DEF enforcementVars
  <2> QED
    BY <2>1, <2>2, Zenon DEF KeymasterInv, KeymasterTypeOK, StorageInv, ChallengeInv,
                      OperationsCoveredByUses, CountLimited, IsPublicKeyOperation
<1> QED
  BY <1>1, <1>2

\* The initial state satisfies the invariant.
LEMMA KeymasterStart == Init => KeymasterInv
<1> SUFFICES ASSUME Init PROVE KeymasterInv
  OBVIOUS
<1>1. DOMAIN operations = {} /\ TypeOK
  BY TypeInit DEF Init
<1>2. KeymasterTypeOK
  BY <1>1 DEF Init, EnforcementInit, KeymasterTypeOK
<1>3. \A k \in Keys : UnderWayOf(k) = {} /\ Counted(k) = 0
  BY <1>1 DEF UnderWayOf, Counted, Init, EnforcementInit
<1>4. OperationsCoveredByUses
  BY <1>3, FS_EmptySet DEF OperationsCoveredByUses, UnderWayOf, Counted
<1> QED
  BY <1>1, <1>2, <1>4, FS_EmptySet DEF Init, EnforcementInit, KeymasterInv, StorageInv, ChallengeInv

(***************************************************************************)
(* The theorems.                                                           *)
(***************************************************************************)

\* The two invariants hold always.
LEMMA KeymasterInvariance == Spec => [](EnforcementKept /\ KeymasterInv)
<1>1. EnforcementKept => TypeOK
  BY DEF EnforcementKept, Inv
<1>2. EnforcementKept /\ KeymasterInv /\ [Next]_vars => EnforcementKept' /\ KeymasterInv'
  <2> SUFFICES ASSUME EnforcementKept, KeymasterInv, [Next]_vars
               PROVE  EnforcementKept' /\ KeymasterInv'
    OBVIOUS
  <2>1. EnforcementKept'
    BY EnforcementStep
  <2>2. TypeOK'
    BY <2>1 DEF EnforcementKept, Inv
  <2> QED
    BY <2>1, <2>2, KeymasterStep
<1> QED
  BY <1>2, EnforcementStart, KeymasterStart, PTL DEF Spec

\* Operations are accounted for, for every operation table, every set of keys and every
\* history of calls: no key exceeds MAX_USES_PER_BOOT, and the uses counted cover the
\* operations under way although BeginOperation may fail after the use was counted.
THEOREM Accounted == Spec => []OperationsAccounted
<1>1. EnforcementKept => UsesWithinLimit
  <2> SUFFICES ASSUME EnforcementKept, NEW k \in Keys, CountLimited(k)
               PROVE  uses[k] <= 1 \/ uses[k] <= KeyAuths[k].max_uses
    BY DEF UsesWithinLimit
  <2>1. uses[k] \in Nat /\ KeyAuths[k].max_uses \in Nat
    BY AuthsType DEF EnforcementKept, Inv, TypeOK, CountLimited, NoLimit
  <2>2. k \in DOMAIN access_count => access_count[k] \in Nat
    BY DEF EnforcementKept, Inv, TypeOK
  <2> QED
    BY <2>1, <2>2 DEF EnforcementKept, Inv, CountInv
<1>2. EnforcementKept /\ KeymasterInv => OperationsAccounted
  BY <1>1 DEF KeymasterInv, OperationsAccounted
<1> QED
  BY <1>2, KeymasterInvariance, PTL

\* The token that finishes an operation with authentication per operation is its own.
LEMMA CompleteOwnToken ==
    ASSUME KeymasterInv, NEW h, NEW p \in ContinueParams, NEW c, NEW a, Find(h),
           AuthorizeContinue(h, p) = "OK", Complete(h, p, c, a),
           UNCHANGED <<tokens, begin_tokens>>
    PROVE  FinishedWithOwnToken'
<1> DEFINE k == operations[h].key
<1>1. h \in issued /\ h # 0 /\ k \in Keys
  BY OperationFound, Zenon
<1> SUFFICES ASSUME finish' # NoFinish, AuthPerOperation(k),
                    ~IsPublicKeyOperation(k, operations[h].purpose)
             PROVE  /\ p.token \in tokens \ begin_tokens[h]
                    /\ p.token.challenge = h
                    /\ {p.token.user_id, p.token.authenticator_id} \cap KeyAuths[k].sids # {}
  BY Zenon DEF Complete, FinishedWithOwnToken, AuthPerOperation, IsPublicKeyOperation
<1>2. AuthorizeUpdateOrFinish(k, p, h) = "OK"
  BY DEF AuthorizeContinue
<1>3. PICK sid \in KeyAuths[k].sids : AuthTokenMatches(k, sid, p, h)
  BY <1>2, Zenon DEF AuthorizeUpdateOrFinish, AuthPerOperation
<1>4. p.token \in tokens /\ p.token.challenge = h
  BY <1>1, <1>3, Zenon DEF AuthTokenMatches, ContinueParams
<1>5. p.token \notin begin_tokens[h]
  BY <1>1, <1>4, Zenon DEF KeymasterInv, ChallengeInv
<1> QED
  BY <1>3, <1>4, <1>5, Zenon DEF AuthTokenMatches

\* What each step leaves for the property about finished operations.
LEMMA FinishedStep ==
    ASSUME KeymasterInv, FinishedWithOwnToken, [Next]_vars
    PROVE  FinishedWithOwnToken'
<1>1. ASSUME finish' = NoFinish
      PROVE  FinishedWithOwnToken'
  BY <1>1, Zenon DEF FinishedWithOwnToken
<1>2. ASSUME NEW h, NEW p \in ContinueParams, NEW n, NEW c, NEW a, FinishOperation(h, p, n, c, a)
      PROVE  FinishedWithOwnToken'
  <2>1. UNCHANGED <<tokens, begin_tokens>>
    BY <1>2 DEF FinishOperation, EnforcementUnchanged
  <2> QED
    BY <1>1, <1>2, <2>1, CompleteOwnToken DEF FinishOperation
<1>3. CASE UNCHANGED vars
  <2>1. UNCHANGED <<tokens, begin_tokens, finish>>
    BY <1>3 DEF vars, keymasterVars, enforcementVars
  <2> QED
    BY <2>1, Zenon DEF FinishedWithOwnToken, AuthPerOperation, IsPublicKeyOperation
<1>4. ASSUME NEW k, NEW purpose, NEW p, NEW h, NEW a, BeginOperation(k, purpose, p, h, a)
      PROVE  finish' = NoFinish
  BY <1>4 DEF BeginOperation
<1>5. ASSUME NEW h, NEW p, NEW n, NEW a, UpdateOperation(h, p, n, a)
      PROVE  finish' = NoFinish
  BY <1>5 DEF UpdateOperation
<1>6. ASSUME NEW h, NEW a, AbortOperation(h, a)
      PROVE  finish' = NoFinish
  BY <1>6 DEF AbortOperation
<1>7. ASSUME NEW k, DeleteKey(k) \/ DeleteAllKeys \/ EnforcementEvent
      PROVE  finish' = NoFinish
  BY <1>7 DEF DeleteKey, DeleteAllKeys, EnforcementEvent
<1> QED
  BY <1>1, <1>2, <1>3, <1>4, <1>5, <1>6, <1>7, SMTT(20) DEF Next

\* Authentication per operation: whatever tokens there are and whoever presents them, such
\* an operation is finished only with a token minted for its handle after its begin.
THEOREM OwnToken == Spec => []FinishedWithOwnToken
<1>1. Init => FinishedWithOwnToken
  BY DEF Init, FinishedWithOwnToken
<1> QED
  BY <1>1, KeymasterInvariance, FinishedStep, PTL DEF Spec

\* A key that was deleted, or whose single use was spent, never begins an operation again,
\* by any interleaving of the calls on it.
THEOREM GoneForGood == Spec => GoneKeysStayGone
<1>1. KeymasterInv /\ [Next]_vars =>
        [\A h \in DOMAIN operations' \ DOMAIN operations : operations'[h].key \notin gone]_vars
  <2> SUFFICES ASSUME KeymasterInv, Next, NEW h \in DOMAIN operations' \ DOMAIN operations
               PROVE  operations'[h].key \notin gone
    OBVIOUS
  <2>0. ASSUME NEW g, Delete(g) \/ UNCHANGED operations
        PROVE  FALSE
    BY <2>0 DEF Delete
  <2>1. PICK k \in Keys, purpose \in Purposes, p \in HeldParams, g \in Handles, a \in BeginResults :
           BeginOperation(k, purpose, p, g, a)
    <3>1. ASSUME NEW g, NEW p, NEW n, NEW a, UpdateOperation(g, p, n, a)
          PROVE  FALSE
      <4>1. operations' = [operations EXCEPT ![g].confirmed = @ + n]
        BY <2>0, <3>1 DEF UpdateOperation
      <4> QED
        BY <4>1
    <3>2. ASSUME NEW g, NEW p, NEW n, NEW c, NEW a,
                 FinishOperation(g, p, n, c, a) \/ AbortOperation(g, a)
          PROVE  FALSE
      BY <2>0, <3>2 DEF FinishOperation, AbortOperation
    <3>3. ASSUME NEW k, DeleteKey(k) \/ DeleteAllKeys \/ EnforcementEvent
          PROVE  FALSE
      <4>1. UNCHANGED tableVars
        BY <3>3, Zenon DEF DeleteKey, DeleteAllKeys, EnforcementEvent
      <4>2. UNCHANGED operations
        BY ONLY <4>1 DEF tableVars
      <4> QED
        BY <2>0, <4>2, Zenon
    <3> QED
      BY <3>1, <3>2, <3>3, Zenon DEF Next
  <2>2. LoadKey(k) /\ \E operation : operation.key = k /\ Add(g, operation)
    BY <2>1 DEF BeginOperation, tableVars
  <2>3. operations'[h].key = k
    BY <2>2 DEF Add
  <2>4. gone \subseteq StoredKeys /\ stored \cap gone = {}
    BY Zenon DEF KeymasterInv, KeymasterTypeOK, StorageInv
  <2>5. k \in StoredKeys => k \in stored
    BY <2>2, Zenon DEF LoadKey
  <2> QED
    BY ONLY <2>3, <2>4, <2>5
<1> QED
  BY <1>1, KeymasterInvariance, PTL DEF Spec, GoneKeysStayGone

-----------------------------------------------------------------------------
(* KeyMintDevice. *)

(***************************************************************************)
(* The inductive invariant.                                                *)
(***************************************************************************)

\* An object holds a handle that was given out, or 0.
ObjectsType == objects \in [Clients -> issued \cup {0, NoObject}]

\* No two objects hold the same handle.
HandlesApart ==
    \A c, d \in Clients : c # d /\ objects[c] \in Handles => objects[c] # objects[d]

\* Every operation has an object.
OperationsHeld == \A h \in DOMAIN operations : \E c \in Clients : objects[c] = h

DeviceInv == KeymasterInv /\ ObjectsType /\ HandlesApart /\ OperationsHeld

(***************************************************************************)
(* The device as a client of AndroidKeymaster.                             *)
(***************************************************************************)

\* Every step of the device is a call of AndroidKeymaster with a handle that was given
\* out, or with 0, or it does nothing there.
LEMMA DeviceCalls ==
    ASSUME ObjectsType, [DeviceNext]_deviceVars
    PROVE  [Next]_vars
<1>1. ASSUME NEW c \in Clients, objects[c] # NoObject
      PROVE  objects[c] \in issued \cup {0}
  BY <1>1 DEF ObjectsType
<1>2. ASSUME NEW c \in Clients, NEW k \in Keys, NEW purpose \in Purposes, NEW p \in HeldParams,
             begin(c, k, purpose, p)
      PROVE  Next
  BY <1>2 DEF begin, Next
<1>3. ASSUME NEW c \in Clients, NEW p \in ContinueParams, NEW n \in InputSizes, update(c, p, n)
      PROVE  Next
  BY <1>1, <1>3 DEF update, Next
<1>4. ASSUME NEW c \in Clients, NEW p \in ContinueParams, NEW n \in InputSizes,
             finishObject(c, p, n)
      PROVE  Next
  <2>1. "absent" \in ConfirmationTokens
    BY DEF ConfirmationTokens
  <2> QED
    BY <1>1, <1>4, <2>1 DEF finishObject, Next
<1>5. ASSUME NEW c \in Clients, abort(c)
      PROVE  Next
  BY <1>1, <1>5 DEF abort, Next
<1>6. ASSUME NEW c \in Clients, Destroy(c)
      PROVE  [Next]_vars
  BY <1>1, <1>6 DEF Destroy, Next
<1>7. ASSUME NEW k \in Keys, DeleteKey(k)
      PROVE  Next
  BY <1>7 DEF Next
<1>8. CASE DeleteAllKeys \/ EnforcementEvent
  BY <1>8 DEF Next
<1>9. CASE UNCHANGED deviceVars
  BY <1>9 DEF deviceVars
<1> QED
  BY <1>2, <1>3, <1>4, <1>5, <1>6, <1>7, <1>8, <1>9 DEF DeviceNext

(***************************************************************************)
(* Every step keeps the invariant.                                         *)
(***************************************************************************)

\* A begin that answers OK puts an operation under the new handle; another leaves the
\* table alone.
LEMMA BeginTable ==
    ASSUME NEW k, NEW purpose, NEW p, NEW h, NEW a, BeginOperation(k, purpose, p, h, a)
    PROVE  /\ a = "OK" => /\ DOMAIN operations' = DOMAIN operations \cup {h}
                          /\ issued' = issued \cup {h}
           /\ a # "OK" => operations' = operations /\ issued' = issued
           /\ h \in Handles \ issued
<1>1. CASE UNCHANGED tableVars /\ a # "OK"
  BY <1>1, Zenon DEF BeginOperation, tableVars
<1>2. CASE /\ a = "OK" /\ issued' = issued \cup {h} /\ \E operation : Add(h, operation)
  BY <1>2 DEF BeginOperation, Add
<1> QED
  BY <1>1, <1>2, Zenon DEF BeginOperation

\* The other calls give out no handle and begin no operation; finish and abort leave none
\* under their handle.
LEMMA LaterCalls ==
    ASSUME NEW h, NEW p, NEW n, NEW c, NEW a,
           \/ UpdateOperation(h, p, n, a)
           \/ FinishOperation(h, p, n, c, a)
           \/ AbortOperation(h, a)
    PROVE  /\ DOMAIN operations' \subseteq DOMAIN operations /\ UNCHANGED issued
           /\ FinishOperation(h, p, n, c, a) \/ AbortOperation(h, a)
                 => h \notin DOMAIN operations'
<1>1. CASE FinishOperation(h, p, n, c, a) \/ AbortOperation(h, a)
  BY <1>1, Zenon DEF FinishOperation, AbortOperation, Delete
<1>2. CASE UpdateOperation(h, p, n, a)
  <2>1. UNCHANGED issued
    BY <1>2 DEF UpdateOperation
  <2>2. CASE Delete(h) \/ UNCHANGED operations
    BY <1>1, <2>1, <2>2 DEF Delete
  <2>3. CASE operations' = [operations EXCEPT ![h].confirmed = @ + n]
    BY <1>1, <2>1, <2>3
  <2> QED
    BY <1>2, <2>2, <2>3 DEF UpdateOperation
<1> QED
  BY <1>1, <1>2, Zenon

\* The objects after a step of the device.
ObjectsInv == ObjectsType /\ HandlesApart /\ OperationsHeld

\* begin: the object that is made is the only one with the new handle.
LEMMA BeginObjects ==
    ASSUME DeviceInv, NEW c \in Clients, NEW k, NEW purpose, NEW p, begin(c, k, purpose, p)
    PROVE  ObjectsInv'
<1>0. ObjectsType /\ HandlesApart /\ OperationsHeld /\ issued \subseteq Handles
  BY DEF DeviceInv, KeymasterInv, KeymasterTypeOK
<1>1. PICK h \in Handles, a \in BeginResults :
         /\ BeginOperation(k, purpose, p, h, a)
         /\ objects' = IF a = "OK" THEN [objects EXCEPT ![c] = h] ELSE objects
  BY DEF begin
<1>1a. BeginOperation(k, purpose, p, h, a)
  BY <1>1
<1>1b. /\ a = "OK" => /\ DOMAIN operations' = DOMAIN operations \cup {h}
                      /\ issued' = issued \cup {h}
       /\ a # "OK" => operations' = operations /\ issued' = issued
       /\ h \in Handles \ issued
  BY ONLY <1>1a, BeginTable, Zenon
<1>2. h \notin issued
  BY <1>1b
<1>3. CASE a = "OK"
  <2>1. DOMAIN operations' = DOMAIN operations \cup {h} /\ issued' = issued \cup {h}
    BY <1>1b, <1>3
  <2>2. objects' = [objects EXCEPT ![c] = h] /\ objects[c] = NoObject
    BY <1>1, <1>3, Zenon DEF begin
  <2>3. \A d \in Clients : objects[d] # h /\ objects'[d] = IF d = c THEN h ELSE objects[d]
    BY <1>0, <1>2, <2>2, DeviceAssumption, KeymasterAssumption DEF ObjectsType
  <2>4. ObjectsType'
    BY <1>0, <2>1, <2>2 DEF ObjectsType
  <2>5. HandlesApart'
    BY <1>0, <2>3, Zenon DEF HandlesApart
  <2>6. OperationsHeld'
    <3>1. ASSUME NEW g \in DOMAIN operations PROVE \E d \in Clients : objects'[d] = g
      <4>1. PICK d \in Clients : objects[d] = g
        BY <1>0 DEF OperationsHeld
      <4>2. d # c
        BY <1>0, <2>2, <4>1, DeviceAssumption DEF DeviceInv, KeymasterInv, KeymasterTypeOK
      <4> QED
        BY <2>3, <4>1, <4>2
    <3>2. objects'[c] = h
      BY <2>3, Zenon
    <3>3. \A g \in DOMAIN operations' : \E d \in Clients : objects'[d] = g
      BY ONLY <2>1, <3>1, <3>2, c \in Clients, Zenon
    <3> QED
      BY <3>3, Zenon DEF OperationsHeld
  <2> QED
    BY <2>4, <2>5, <2>6 DEF ObjectsInv
<1>4. CASE a # "OK"
  <2>1. operations' = operations /\ issued' = issued
    BY <1>1b, <1>4
  <2>2. UNCHANGED objects
    BY <1>1, <1>4
  <2> QED
    BY <1>0, <2>1, <2>2 DEF ObjectsInv, ObjectsType, HandlesApart, OperationsHeld
<1> QED
  BY <1>3, <1>4

\* A step that begins nothing, and after which an object that gave up its handle had no
\* operation left.
LEMMA LaterObjects ==
    ASSUME DeviceInv, NEW c \in Clients, NEW v \in {objects[c], 0, NoObject},
           DOMAIN operations' \subseteq DOMAIN operations, UNCHANGED issued,
           objects' = [objects EXCEPT ![c] = v],
           v = objects[c] \/ objects[c] \notin DOMAIN operations'
    PROVE  ObjectsInv'
<1>0. ObjectsType /\ HandlesApart /\ OperationsHeld
  BY DEF DeviceInv
<1>1. \A d \in Clients : objects'[d] = IF d = c THEN v ELSE objects[d]
  BY <1>0 DEF ObjectsType
<1>2. ObjectsType'
  BY <1>0 DEF ObjectsType
<1>3. HandlesApart'
  BY <1>0, <1>1, DeviceAssumption, KeymasterAssumption DEF HandlesApart
<1>4. OperationsHeld'
  BY <1>0, <1>1 DEF OperationsHeld
<1> QED
  BY <1>2, <1>3, <1>4 DEF ObjectsInv

\* Every step keeps an object for every operation.
LEMMA ObjectsStep ==
    ASSUME DeviceInv, [DeviceNext]_deviceVars
    PROVE  ObjectsInv'
<1>0. ObjectsInv /\ ObjectsType
  BY DEF DeviceInv, ObjectsInv
<1>1. ASSUME UNCHANGED <<operations, issued, objects>>
      PROVE  ObjectsInv'
  BY <1>0, <1>1 DEF ObjectsInv, ObjectsType, HandlesApart, OperationsHeld
<1>2. ASSUME NEW c \in Clients, NEW p, NEW n, update(c, p, n)
      PROVE  ObjectsInv'
  <2>1. DOMAIN operations' \subseteq DOMAIN operations /\ UNCHANGED issued
    BY <1>2, LaterCalls, Zenon DEF update
  <2>2. objects' = [objects EXCEPT ![c] = objects[c]]
    BY <1>0, <1>2 DEF update, ObjectsType
  <2> QED
    BY <2>1, <2>2, LaterObjects, Zenon
<1>3. ASSUME NEW c \in Clients, NEW p, NEW n, finishObject(c, p, n) \/ abort(c)
      PROVE  ObjectsInv'
  <2>1. /\ DOMAIN operations' \subseteq DOMAIN operations /\ UNCHANGED issued
        /\ objects[c] \notin DOMAIN operations'
    BY <1>3, LaterCalls, Zenon DEF finishObject, abort
  <2>2. objects' = [objects EXCEPT ![c] = 0]
    BY <1>3 DEF finishObject, abort
  <2> QED
    BY <2>1, <2>2, LaterObjects, Zenon
<1>4. ASSUME NEW c \in Clients, Destroy(c)
      PROVE  ObjectsInv'
  <2>1. objects' = [objects EXCEPT ![c] = NoObject]
    BY <1>4 DEF Destroy
  <2>2. CASE objects[c] # 0
    <3>1. /\ DOMAIN operations' \subseteq DOMAIN operations /\ UNCHANGED issued
          /\ objects[c] \notin DOMAIN operations'
      BY <1>4, <2>2, LaterCalls, Zenon DEF Destroy
    <3> QED
      BY <2>1, <3>1, LaterObjects, Zenon
  <2>3. CASE objects[c] = 0
    <3>1. UNCHANGED <<operations, issued>>
      BY <1>4, <2>3 DEF Destroy, vars, keymasterVars
    <3>2. 0 \notin DOMAIN operations
      BY KeymasterAssumption DEF DeviceInv, KeymasterInv, KeymasterTypeOK
    <3> QED
      BY <2>1, <2>3, <3>1, <3>2, LaterObjects, Zenon
  <2> QED
    BY <2>2, <2>3
<1>5. CASE ((\E k \in Keys : DeleteKey(k)) \/ DeleteAllKeys \/ EnforcementEvent)
              /\ UNCHANGED objects
  <2>1. UNCHANGED <<operations, issued>>
    BY <1>5 DEF DeleteKey, DeleteAllKeys, EnforcementEvent, tableVars
  <2> QED
    BY <1>1, <1>5, <2>1
<1>6. CASE UNCHANGED deviceVars
  BY <1>1, <1>6 DEF deviceVars, vars, keymasterVars
<1> QED
  BY <1>2, <1>3, <1>4, <1>5, <1>6, BeginObjects DEF DeviceNext

(***************************************************************************)
(* The theorems.                                                           *)
(***************************************************************************)

\* The device starts and stays in its invariant, and so do the parts below it.
LEMMA DeviceInvariance == DeviceSpec => [](EnforcementKept /\ DeviceInv)
<1>1. DeviceInit => EnforcementKept /\ DeviceInv
  <2> SUFFICES ASSUME DeviceInit PROVE EnforcementKept /\ DeviceInv
    OBVIOUS
  <2>1. EnforcementKept /\ KeymasterInv
    BY EnforcementStart, KeymasterStart DEF DeviceInit
  <2>2. DOMAIN operations = {}
    BY DEF DeviceInit, Init
  <2> QED
    BY <2>1, <2>2, DeviceAssumption
    DEF DeviceInit, DeviceInv, ObjectsType, HandlesApart, OperationsHeld
<1>2. EnforcementKept /\ DeviceInv /\ [DeviceNext]_deviceVars => EnforcementKept' /\ DeviceInv'
  <2> SUFFICES ASSUME EnforcementKept, DeviceInv, [DeviceNext]_deviceVars
               PROVE  EnforcementKept' /\ DeviceInv'
    OBVIOUS
  <2>1. [Next]_vars
    BY DeviceCalls DEF DeviceInv
  <2>2. EnforcementKept'
    BY <2>1, EnforcementStep
  <2>3. TypeOK'
    BY <2>2 DEF EnforcementKept, Inv
  <2>4. KeymasterInv'
    BY <2>1, <2>3, KeymasterStep DEF DeviceInv
  <2> QED
    BY <2>2, <2>4, ObjectsStep DEF DeviceInv, ObjectsInv
<1> QED
  BY <1>1, <1>2, PTL DEF DeviceSpec

\* AndroidKeyMintDevice implements AndroidKeymaster's specification: the objects call it with
\* handles it gave out, or with the 0 of an object that is done, and in no other way.  So all
\* that is proved of AndroidKeymaster holds of the keymaster below the device.
THEOREM DeviceImplementsKeymaster == DeviceSpec => Spec
<1>1. DeviceInit => Init
  BY DEF DeviceInit
<1>2. DeviceInv /\ [DeviceNext]_deviceVars => [Next]_vars
  BY DeviceCalls DEF DeviceInv
<1> QED
  BY <1>1, <1>2, DeviceInvariance, PTL DEF DeviceSpec, Spec

\* Every operation in AndroidKeymaster's table belongs to exactly one operation object,
\* whatever update, finish and abort answered: finish and abort clear the handle only
\* after the table has dropped the operation, and the destructor aborts what is left.
THEOREM NoOrphans == DeviceSpec => []NoOrphanOperations
<1>1. DeviceInv => NoOrphanOperations
  <2> SUFFICES ASSUME DeviceInv, NEW h \in DOMAIN operations
               PROVE  \E c \in Clients : /\ objects[c] = h
                                         /\ \A d \in Clients \ {c} : objects[d] # h
    BY DEF NoOrphanOperations
  <2>1. PICK c \in Clients : objects[c] = h
    BY DEF DeviceInv, OperationsHeld
  <2>2. h \in Handles
    BY DEF DeviceInv, KeymasterInv, KeymasterTypeOK
  <2>3. \A d \in Clients \ {c} : objects[d] # h
    BY <2>1, <2>2 DEF DeviceInv, HandlesApart
  <2> QED
    BY <2>1, <2>3
<1> QED
  BY <1>1, DeviceInvariance, PTL
=============================================================================
