-------------------------- MODULE MCKeyMintDevice --------------------------
(* Small instances of KeyMintDevice. *)
EXTENDS KeyMintDevice, TLC

CONSTANTS k1, k2

\* A key authenticated per operation, and one with a single use.
DeviceKeys ==
    k1 :> [purposes |-> Purposes, public |-> FALSE,
           min_seconds |-> UINT32_MAX, max_uses |-> NoLimit,
           sids |-> {1}, auth_type |-> {"PASSWORD"}, auth_timeout |-> FALSE,
           no_auth_required |-> FALSE, unlocked_device_required |-> FALSE,
           caller_nonce |-> FALSE, early_boot_only |-> FALSE, forbidden |-> FALSE]
 @@ k2 :> [purposes |-> Purposes, public |-> FALSE,
           min_seconds |-> UINT32_MAX, max_uses |-> 2,
           sids |-> {}, auth_type |-> {}, auth_timeout |-> FALSE,
           no_auth_required |-> TRUE, unlocked_device_required |-> FALSE,
           caller_nonce |-> FALSE, early_boot_only |-> FALSE, forbidden |-> FALSE]

Quiet == device_locked_at = 0 /\ in_early_boot
=============================================================================
