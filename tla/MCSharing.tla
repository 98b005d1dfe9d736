------------------------------ MODULE MCSharing ------------------------------
(***************************************************************************)
(* What a device agrees on with others, on small instances: the HMAC key   *)
(* its secure components share, and the requests with which a server       *)
(* certifies its keys, of the first and of the second version.  They do    *)
(* not interact: a behaviour moves one of them, and the others stay as     *)
(* they were when the device started.                                      *)
(***************************************************************************)
EXTENDS HmacSharing, RemoteProvisioning, TLC

VARIABLE part

Symmetry == Permutations(Parties)

hmacVars == vars

-----------------------------------------------------------------------------
(* RemoteProvisioning: a context of version 2, with every kind of endpoint  *)
(* chain, and a context of version 3 or none, with every way to damage a    *)
(* key and boot states that differ in one part each.  The constants of the  *)
(* module itself are those of both together.                                *)

MCBootInfos == {<<1, 1, 1>>, <<1, 1, 2>>, <<2, 1, 1>>}

V2 == INSTANCE RemoteProvisioning WITH
    Versions <- {2}, Damages <- {"none", "mode", "tag"},
    Chains <- {"two", "three", "other_root", "broken_link", "no_kid", "no_eek", "garbage"},
    ChallengeSizes <- {64}, PatchLevels <- {1}, BootInfos <- {},
    Faults <- {"none", "mac_key", "session_key", "GenerateKey"},
    MaxKeys <- 2, MaxListed <- 2, MaxStarts <- 2

V3 == INSTANCE RemoteProvisioning WITH
    Versions <- {0, 3}, Damages <- {"none", "formed", "algorithm", "curve", "mode", "tag"},
    Chains <- {"two"}, ChallengeSizes <- {64, 65}, PatchLevels <- {1, 2},
    BootInfos <- MCBootInfos, Faults <- {"none", "GenerateKey"},
    MaxKeys <- 1, MaxListed <- 2, MaxStarts <- 2

-----------------------------------------------------------------------------

SharingInit ==
    /\ part \in {"hmac", "V2", "V3"}
    /\ Init
    /\ IF part = "V3" THEN V3!ProvisioningInit ELSE V2!ProvisioningInit

SharingNext ==
    /\ UNCHANGED part
    /\ \/ part = "hmac" /\ Next /\ UNCHANGED provisioningVars
       \/ part = "V2" /\ V2!ProvisioningNext /\ UNCHANGED hmacVars
       \/ part = "V3" /\ V3!ProvisioningNext /\ UNCHANGED hmacVars

SharingSpec == SharingInit /\ [][SharingNext]_<<part, hmacVars, provisioningVars>>

=============================================================================
