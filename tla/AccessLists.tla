---------------------------- MODULE AccessLists ----------------------------
(***************************************************************************)
(* AccessTimeMap and AccessCountMap as the linked lists of the code, with  *)
(* their order: new entries go to the front, and a walk through the access *)
(* times erases what has expired until it meets the key it looks for.      *)
(* Driven by the part of AuthorizeBegin that uses them, they implement the *)
(* tables of module Enforcement.                                           *)
(*                                                                         *)
(* A list is a function of the places of its nodes, the front at the       *)
(* highest place.  Erasing a node leaves the others in their places.       *)
(***************************************************************************)
EXTENDS Integers, FiniteSetsExt

CONSTANTS
    Keys, KeyAuths, Purposes, Sids, Handles,
    NO_TIMEOUT,               \* UINT32_MAX, min_ops_timeout of a key with no rate limit
    MaxAccessTimeMapSize, MaxAccessCountMapSize, Ticks, StartTimes, MaxTime, MaxTokens, NoToken, NoGrant

VARIABLES
    now,
    last_access_list,     \* last_access_list_
    access_count_list,    \* access_count_list_
    last_grant, uses, grant   \* history, as in Enforcement

listVars == <<now, last_access_list, access_count_list, last_grant, uses, grant>>

NoLimit == -1

get_current_time == now \div 1000

Ids(list) == {list[n].keyid : n \in DOMAIN list}

\* The first node of k, from the front.
Position(list, k) == CHOOSE n \in DOMAIN list :
    list[n].keyid = k /\ \A m \in DOMAIN list : m > n => list[m].keyid # k

\* LastKeyAccessTime and KeyAccessCount: the first entry of k.
Entry(list, k) == list[Position(list, k)]

\* The place in front of all others.
NewPlace(list) == Max(DOMAIN list \cup {0}) + 1

push_front(list, entry) ==
    [n \in DOMAIN list \cup {NewPlace(list)} |-> IF n \in DOMAIN list THEN list[n] ELSE entry]

MinTimeBetweenOpsPassed(k) ==
    k \in Ids(last_access_list) =>
        KeyAuths[k].min_seconds <= get_current_time - Entry(last_access_list, k).access_time

MaxUsesPerBootNotExceeded(k) ==
    k \in Ids(access_count_list) =>
        Entry(access_count_list, k).access_count < KeyAuths[k].max_uses

Expired(n) ==
    get_current_time - last_access_list[n].access_time >= last_access_list[n].timeout

NewAccessTime(k) ==
    [keyid |-> k, access_time |-> get_current_time, timeout |-> KeyAuths[k].min_seconds]

\* A slip: the entry after an erased one is not looked at.
UpdateSkipping(k) ==
    LET places == DOMAIN last_access_list
        After(m, n) == m > n /\ \A j \in places : j <= n \/ j >= m
        gone == {n \in places : Expired(n) /\ ~ \E m \in places : After(m, n) /\ Expired(m)}
        kept == Restrict(last_access_list, places \ gone)
    IN  IF k \in Ids(last_access_list)
        THEN [last_access_list EXCEPT ![Position(last_access_list, k)].access_time =
                 get_current_time]
        ELSE IF Cardinality(DOMAIN kept) >= MaxAccessTimeMapSize THEN kept
        ELSE push_front(kept, NewAccessTime(k))

\* The list after the walk of UpdateKeyAccessTime.  What is in front of k's
\* entry, or everything if there is none, is rid of expired entries.
UpdateKeyAccessTime(k) ==
    LET found == k \in Ids(last_access_list)
        at == Position(last_access_list, k)
        passed == {n \in DOMAIN last_access_list : found => n > at}
        kept == Restrict(last_access_list,
                         DOMAIN last_access_list \ {n \in passed : Expired(n)})
    IN  IF found THEN [kept EXCEPT ![at].access_time = get_current_time]
        ELSE IF Cardinality(DOMAIN kept) >= MaxAccessTimeMapSize THEN kept
        ELSE push_front(kept, NewAccessTime(k))

IncrementKeyAccessCount(k) ==
    IF k \in Ids(access_count_list)
    THEN [access_count_list EXCEPT ![Position(access_count_list, k)].access_count = @ + 1]
    ELSE IF Cardinality(DOMAIN access_count_list) >= MaxAccessCountMapSize
    THEN access_count_list
    ELSE push_front(access_count_list, [keyid |-> k, access_count |-> 1])

RateLimited(k) == KeyAuths[k].min_seconds # NO_TIMEOUT

CountLimited(k) == KeyAuths[k].max_uses # NoLimit

\* What the scan of the authorizations refuses.
Refused(k) ==
    \/ RateLimited(k) /\ ~MinTimeBetweenOpsPassed(k)
    \/ CountLimited(k) /\ ~MaxUsesPerBootNotExceeded(k)

\* The part of AuthorizeBegin that uses the maps, for a key that nothing else
\* refuses.  After each map's update, k is in its list unless the map is full.
AuthorizeBegin(k) ==
    /\ last_access_list' = IF RateLimited(k) /\ ~Refused(k) THEN UpdateKeyAccessTime(k)
                                                            ELSE last_access_list
    /\ access_count_list' =
          IF CountLimited(k) /\ ~Refused(k) /\ (RateLimited(k) => k \in Ids(last_access_list'))
          THEN IncrementKeyAccessCount(k) ELSE access_count_list
    /\ IF \/ Refused(k)
          \/ RateLimited(k) /\ k \notin Ids(last_access_list')
          \/ CountLimited(k) /\ k \notin Ids(access_count_list')
       THEN grant' = NoGrant /\ UNCHANGED <<last_grant, uses>>
       ELSE /\ grant' = [key |-> k, token |-> NoToken,
                         since_last |-> IF last_grant[k] = -1 THEN -1
                                        ELSE get_current_time - last_grant[k]]
            /\ last_grant' = IF RateLimited(k)
                             THEN [last_grant EXCEPT ![k] = get_current_time] ELSE last_grant
            /\ uses' = IF CountLimited(k) THEN [uses EXCEPT ![k] = @ + 1] ELSE uses
    /\ UNCHANGED now

ListTick ==
    /\ \E d \in Ticks : now' = now + d
    /\ now' <= MaxTime
    /\ grant' = NoGrant
    /\ UNCHANGED <<last_access_list, access_count_list, last_grant, uses>>

ListInit ==
    /\ now \in StartTimes
    /\ last_access_list = [n \in {} |-> 0]
    /\ access_count_list = [n \in {} |-> 0]
    /\ last_grant = [k \in Keys |-> -1]
    /\ uses = [k \in Keys |-> 0]
    /\ grant = NoGrant

ListNext == ListTick \/ \E k \in Keys : AuthorizeBegin(k)

ListSpec == ListInit /\ [][ListNext]_listVars

(***************************************************************************)
(* Properties.                                                             *)
(***************************************************************************)

\* The entries of a list by their key.
TimeTable(list) ==
    [k \in Ids(list) |-> [access_time |-> Entry(list, k).access_time,
                          timeout |-> Entry(list, k).timeout]]

CountTable(list) == [k \in Ids(list) |-> Entry(list, k).access_count]

Tables ==
    INSTANCE Enforcement WITH
        UINT32_MAX <- NO_TIMEOUT,
        access_time <- TimeTable(last_access_list),
        access_count <- CountTable(access_count_list),
        in_early_boot <- TRUE, device_locked_at <- 0, password_unlock_only <- FALSE,
        tokens <- {}, stale_tokens <- {}

\* The keys have no authorizations that refuse an operation but their limits.
ListAssumption ==
    /\ KeyAuths \in [Keys -> Tables!Auths]
    /\ \A k \in Keys : /\ "SIGN" \in KeyAuths[k].purposes
                       /\ KeyAuths[k].sids = {} /\ ~KeyAuths[k].forbidden
    /\ "SIGN" \in Purposes
    /\ StartTimes \subseteq Nat /\ Ticks \subseteq Nat

\* The lists, whatever their order, implement the tables of Enforcement, so
\* what holds of the tables (the limits are kept, for one) holds of the lists.
\* This is Tables!EnforcementSpec, with the steps that leave the lists alone
\* named first.
ListsImplementTables ==
    /\ Tables!EnforcementInit
    /\ [][UNCHANGED listVars \/ Tables!EnforcementNext]_(Tables!enforcementVars)
=============================================================================
