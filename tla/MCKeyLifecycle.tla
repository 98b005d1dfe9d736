--------------------------- MODULE MCKeyLifecycle ---------------------------
(***************************************************************************)
(* Small instances of KeyLifecycle: a context that is secure hardware, for *)
(* secure storage, and one that is not, for the version information.       *)
(***************************************************************************)
EXTENDS KeyLifecycle

CONSTANTS Contexts, StorageLevel, MaxHeld

VARIABLE context

Plain == [rollback_resistance |-> FALSE, single_use |-> FALSE, early_boot_only |-> FALSE]
PlainOnly == {Plain}

\* One description for each thing secure storage is asked for, the second one
\* importable in early boot only.
StoredKinds ==
    {[Plain EXCEPT !.rollback_resistance = TRUE],
     [Plain EXCEPT !.single_use = TRUE, !.early_boot_only = TRUE]}

Secure == INSTANCE KeyLifecycle WITH SecureHardware <- TRUE, MaxLevel <- StorageLevel
Soft == INSTANCE KeyLifecycle WITH
            SecureHardware <- FALSE, KeyDescriptions <- PlainOnly,
            Materials <- {}, MaxGenerated <- 1

MCInit == context \in Contexts /\ LifecycleInit
MCNext ==
    /\ \/ context = "secure" /\ Secure!LifecycleNext
       \/ context = "soft" /\ Soft!LifecycleNext
    /\ UNCHANGED context
MCSpec == MCInit /\ [][MCNext]_<<vars, context>>

\* Bounds the blobs in clients' hands, not what may be done with them.
FewBlobs == Cardinality(held) <= IF context = "secure" THEN MaxHeld ELSE 2

\* Storage does not depend on the vendor and boot patch levels.
FewLevels ==
    /\ FewBlobs
    /\ context = "secure" => vendor_patchlevel = Unset /\ boot_patchlevel = Unset
=============================================================================
