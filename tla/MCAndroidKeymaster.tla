------------------------- MODULE MCAndroidKeymaster -------------------------
(* A small instance of AndroidKeymaster. *)
EXTENDS AndroidKeymaster, TLC

CONSTANTS k1, k2, k3, k4

FreeAuths ==
    [purposes |-> Purposes, public |-> FALSE,
     min_seconds |-> UINT32_MAX, max_uses |-> NoLimit,
     sids |-> {}, auth_type |-> {}, auth_timeout |-> FALSE,
     no_auth_required |-> TRUE, unlocked_device_required |-> FALSE,
     caller_nonce |-> FALSE, early_boot_only |-> FALSE, forbidden |-> FALSE]

\* A single-use key, a rollback-resistant key with two uses per boot that is
\* half of a pair, a key whose messages the user confirms, and one
\* authenticated per operation.
MCKeyAuths ==
    k1 :> FreeAuths
 @@ k2 :> [FreeAuths EXCEPT !.public = TRUE, !.max_uses = 2]
 @@ k3 :> FreeAuths
 @@ k4 :> [FreeAuths EXCEPT !.sids = {1}, !.auth_type = {"PASSWORD"},
                            !.no_auth_required = FALSE]

UnderWay == {operations[h].key : h \in DOMAIN operations}

\* Tokens play no part for the first three keys; while there are some, only
\* the fourth is used.
StorageOnly == tokens = {} /\ k4 \notin UnderWay
TokensOnly ==
    /\ gone = {} /\ access_count = <<>>
    /\ UnderWay \subseteq {k4}
    /\ grant # NoGrant => grant.key = k4
    /\ \A h \in DOMAIN operations : operations[h].purpose = "SIGN"

\* Neither the lock nor early boot plays a part for these keys.
Quiet ==
    /\ device_locked_at = 0 /\ in_early_boot
    /\ StorageOnly \/ TokensOnly

\* Handles are interchangeable.
HandleSymmetry == Permutations(Handles)
=============================================================================
