--------------------------- MODULE MCEnforcement ---------------------------
(* A small instance of Enforcement. *)
EXTENDS Enforcement, TLC

CONSTANTS k1, k2, k3, k4, k5, k6, k7, k8, LockingTime

\* A key that may do everything, freely.
FreeAuths ==
    [purposes |-> Purposes, public |-> FALSE,
     min_seconds |-> UINT32_MAX, max_uses |-> NoLimit,
     sids |-> {}, auth_type |-> {}, auth_timeout |-> FALSE,
     no_auth_required |-> TRUE, unlocked_device_required |-> FALSE,
     caller_nonce |-> FALSE, early_boot_only |-> FALSE, forbidden |-> FALSE]

\* Two rate-limited keys, one limited both ways with a limit of 0 uses, and one
\* limited to two uses, for tables of two and one entries.
LimitedKeys ==
    k1 :> [FreeAuths EXCEPT !.min_seconds = 1]
 @@ k2 :> [FreeAuths EXCEPT !.min_seconds = 2, !.early_boot_only = TRUE]
 @@ k3 :> [FreeAuths EXCEPT !.min_seconds = 2, !.max_uses = 0]
 @@ k4 :> [FreeAuths EXCEPT !.max_uses = 2]

\* Keys that need the device unlocked or the user authenticated, one that is
\* malformed, and the public half of a pair.
TokenKeys ==
    k5 :> [FreeAuths EXCEPT !.unlocked_device_required = TRUE, !.caller_nonce = TRUE]
 @@ k6 :> [FreeAuths EXCEPT !.sids = Sids, !.auth_type = {"PASSWORD"},
                            !.auth_timeout = TRUE, !.no_auth_required = FALSE,
                            !.unlocked_device_required = TRUE]
 @@ k7 :> [FreeAuths EXCEPT !.forbidden = TRUE]
 @@ k8 :> [FreeAuths EXCEPT !.public = TRUE, !.purposes = {"SIGN"}]

MCKeyAuths == LimitedKeys @@ TokenKeys

\* Neither the lock nor tokens play a part for the keys of LimitedKeys, and the
\* tables play none for those of TokenKeys.
LimitsOnly ==
    /\ device_locked_at = 0 /\ tokens = {}
    /\ grant # NoGrant => grant.key \in DOMAIN LimitedKeys
LockingOnly ==
    /\ access_time = <<>> /\ access_count = <<>>
    /\ now <= LockingTime
OneThing == LimitsOnly \/ LockingOnly
=============================================================================
