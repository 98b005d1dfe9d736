---------------------------- MODULE KeyLifecycle ----------------------------
(***************************************************************************)
(* The life of a key blob in PureSoftKeymasterContext: creation by         *)
(* generate and import, loading, upgrade and deletion, with the version    *)
(* information the blob is bound to and the secure key storage that a      *)
(* rollback-resistant or single-use key is tied to.  Blobs stay with the   *)
(* clients; everything else is in memory and lost when the process ends.   *)
(*                                                                         *)
(* A blob is the record of what its bits depend on, so a key id, which is  *)
(* a hash of the bits, is modelled by the blob itself: importing the same  *)
(* key twice yields the same id.  Nothing depends on the order of the ids  *)
(* in the storage's list, so it is a function from the slots in use, and a *)
(* slot that was erased is used again.                                     *)
(***************************************************************************)
EXTENDS Integers, FiniteSets, Functions

CONSTANTS
    SecureHardware,       \* the context pretends to be secure hardware
    MaxSlots,             \* slots of PureSoftSecureKeyStorage
    MaxLevel,             \* bound on versions and patch levels
    Materials,            \* key material the clients import
    KeyDescriptions,      \* descriptions the clients use
    MaxGenerated,         \* bound on the keys generated
    Unset                 \* no value

VARIABLES
    os_version, os_patchlevel, vendor_patchlevel, boot_patchlevel,
    in_early_boot,
    keyid_list,           \* keyid_list_ of the secure storage: slot -> key id
    held,                 \* the blobs clients hold
    generated,            \* number of keys generated so far
    \* History, read by properties only:
    born,                 \* blobs created by this process
    retired,              \* material of generated keys that were tied to
                          \* secure storage and have left it
    upgraded              \* the last blob UpgradeKey answered, until the
                          \* version information changes

versionVars == <<os_version, os_patchlevel, vendor_patchlevel, boot_patchlevel>>
vars == <<versionVars, in_early_boot, keyid_list, held, generated, born, retired, upgraded>>

Levels == 0..MaxLevel
LevelTags == {"OS_VERSION", "OS_PATCHLEVEL", "VENDOR_PATCHLEVEL", "BOOT_PATCHLEVEL"}
LevelSets == [LevelTags -> Levels \cup {Unset}]
NoLevels == [t \in LevelTags |-> Unset]

\* The tags of a key description that the steps below look at.  single_use is
\* USAGE_COUNT_LIMIT with the value 1.
Descriptions == [rollback_resistance : BOOLEAN, single_use : BOOLEAN, early_boot_only : BOOLEAN]

\* A blob: key material, description, whether USAGE_COUNT_LIMIT went into
\* hw_enforced, and the version tags in the two lists.
Blobs ==
    [material : Materials \cup (1..MaxGenerated), desc : Descriptions, limit_in_hw : BOOLEAN,
     hw : LevelSets, sw : LevelSets]

\* The hw_enforced list makes the blob depend on secure storage.
Tied(b) == b.desc.rollback_resistance \/ b.limit_in_hw

ASSUME LifecycleAssumption ==
    /\ SecureHardware \in BOOLEAN
    /\ MaxSlots \in Nat
    /\ KeyDescriptions \subseteq Descriptions
    /\ MaxLevel \in Nat
    /\ MaxGenerated \in Nat
    /\ Unset \notin Levels
    /\ Materials \cap (1..MaxGenerated) = {}

\* The version information of the context.
Current ==
    [t \in LevelTags |->
        CASE t = "OS_VERSION" -> os_version
          [] t = "OS_PATCHLEVEL" -> os_patchlevel
          [] t = "VENDOR_PATCHLEVEL" -> vendor_patchlevel
          [] t = "BOOT_PATCHLEVEL" -> boot_patchlevel]

(***************************************************************************)
(* Secure storage.                                                         *)
(***************************************************************************)

NumStored == Cardinality(DOMAIN keyid_list)

\* The ids for which KeyExists answers true.
Stored == Range(keyid_list)

HasSlot == NumStored < MaxSlots

\* WriteKey looks at the size again.
WriteKeyFails == NumStored >= MaxSlots

FreeSlot == CHOOSE i \in 1..(NumStored + 1) : i \notin DOMAIN keyid_list

\* keyid_list_ after push_back; and after an id was erased, wherever it occurs.
WithKey(b) ==
    [i \in DOMAIN keyid_list \cup {FreeSlot} |-> IF i = FreeSlot THEN b ELSE keyid_list[i]]
WithoutKey(b) == Restrict(keyid_list, {i \in DOMAIN keyid_list : keyid_list[i] # b})

(***************************************************************************)
(* Loading a key.                                                          *)
(***************************************************************************)

\* ParseKeyBlob of a blob this context made.
ParseKeyBlob(b) ==
    IF Tied(b) /\ (~SecureHardware \/ b \notin Stored)
    THEN "INVALID_KEY_BLOB" ELSE "OK"

\* The hw_enforced list is asked first.
KeyLevel(b, t) == IF b.hw[t] # Unset THEN b.hw[t] ELSE b.sw[t]

\* A tag is compared where both the key and the context have it.
CheckPatchLevel(b, t) ==
    IF KeyLevel(b, t) = Unset \/ Current[t] = Unset THEN "OK"
    ELSE IF KeyLevel(b, t) < Current[t] THEN "KEY_REQUIRES_UPGRADE"
    ELSE IF KeyLevel(b, t) > Current[t] THEN "INVALID_KEY_BLOB"
    ELSE "OK"

\* The first of the three that is not OK.
CheckVersionInfo(b) ==
    IF CheckPatchLevel(b, "OS_PATCHLEVEL") # "OK" THEN CheckPatchLevel(b, "OS_PATCHLEVEL")
    ELSE IF CheckPatchLevel(b, "VENDOR_PATCHLEVEL") # "OK" THEN CheckPatchLevel(b, "VENDOR_PATCHLEVEL")
    ELSE CheckPatchLevel(b, "BOOT_PATCHLEVEL")

LoadKey(b) ==
    IF ParseKeyBlob(b) # "OK" THEN ParseKeyBlob(b) ELSE CheckVersionInfo(b)

(***************************************************************************)
(* Creating a key.                                                         *)
(***************************************************************************)

CanStore == SecureHardware /\ HasSlot

\* A single-use key needs secure storage only if there is a slot for it;
\* otherwise its limit is only a software-enforced tag.
LimitInHardware(d) == CanStore /\ d.single_use

\* SetKeyBlobAuthorizations and ExtendKeyBlobAuthorizations: the version tags
\* go into hw_enforced if that list is not empty.
NewBlob(d, material) ==
    [material |-> material, desc |-> d, limit_in_hw |-> LimitInHardware(d),
     hw |-> IF SecureHardware THEN Current ELSE NoLevels,
     sw |-> IF SecureHardware THEN NoLevels ELSE Current]

\* ROLLBACK_RESISTANCE_UNAVAILABLE, or the error of WriteKey.
CannotCreate(d) ==
    \/ d.rollback_resistance /\ ~CanStore
    \/ (d.rollback_resistance \/ LimitInHardware(d)) /\ WriteKeyFails

\* CreateKeyBlob, and the certificate that the factories of asymmetric keys
\* make after it.  If that fails the client gets no blob but the slot is taken.
CreateKeyBlob(d, material) ==
    LET b == NewBlob(d, material) IN
    /\ UNCHANGED <<versionVars, in_early_boot, retired, upgraded>>
    /\ \/ CannotCreate(d) /\ UNCHANGED <<keyid_list, held, born>>
       \/ /\ ~CannotCreate(d)
          /\ keyid_list' = IF Tied(b) THEN WithKey(b) ELSE keyid_list
          /\ \/ held' = held \cup {b} /\ born' = born \cup {b}
             \/ UNCHANGED <<held, born>>             \* no certificate

GenerateKey(d) ==
    /\ generated < MaxGenerated
    /\ generated' = generated + 1
    /\ CreateKeyBlob(d, generated + 1)

\* ImportKey, unlike GenerateKey, looks at EARLY_BOOT_ONLY.
ImportKey(d, material) ==
    /\ UNCHANGED generated
    /\ IF d.early_boot_only /\ ~in_early_boot
       THEN UNCHANGED <<versionVars, in_early_boot, keyid_list, held, born, retired, upgraded>>
       ELSE CreateKeyBlob(d, material)

(***************************************************************************)
(* Upgrading a key.                                                        *)
(***************************************************************************)

\* The version tags of the sw_enforced list after FullUpgradeSoftKeyBlob.  The
\* OS version may go back to 0; a tag the context has no value for is kept.
UpgradedLevels(b) ==
    [t \in LevelTags |-> IF Current[t] = Unset THEN b.sw[t] ELSE Current[t]]

WouldDowngrade(b) ==
    \E t \in LevelTags :
        /\ Current[t] # Unset
        /\ b.sw[t] # Unset
        /\ b.sw[t] > Current[t]
        /\ ~(t = "OS_VERSION" /\ os_version = 0)

\* A slip: the upgraded blob takes a slot of its own.
UpgradeKeyStoring(b) ==
    /\ ParseKeyBlob(b) = "OK"
    /\ ~WouldDowngrade(b)
    /\ upgraded' = [b EXCEPT !.sw = UpgradedLevels(b)]
    /\ held' = held \cup {upgraded'}
    /\ keyid_list' = IF Tied(b) THEN WithKey(upgraded') ELSE keyid_list
    /\ UNCHANGED <<versionVars, in_early_boot, generated, born, retired>>

\* A slip: a tag is not upgraded.
UpgradeKeyPartly(b) ==
    /\ ParseKeyBlob(b) = "OK"
    /\ ~WouldDowngrade(b)
    /\ upgraded' = [b EXCEPT !.sw = [UpgradedLevels(b) EXCEPT
                                        !["BOOT_PATCHLEVEL"] = b.sw["BOOT_PATCHLEVEL"]]]
    /\ held' = held \cup {upgraded'}
    /\ UNCHANGED <<versionVars, in_early_boot, keyid_list, generated, born, retired>>

\* UpgradeKeyBlob.  If nothing changed the client keeps the blob it has.
UpgradeKey(b) ==
    /\ IF ParseKeyBlob(b) # "OK" \/ WouldDowngrade(b)
       THEN UNCHANGED <<upgraded, held>>
       ELSE /\ upgraded' = [b EXCEPT !.sw = UpgradedLevels(b)]
            /\ held' = held \cup {upgraded'}
    /\ UNCHANGED <<versionVars, in_early_boot, keyid_list, generated, born, retired>>

(***************************************************************************)
(* Deleting a key.                                                         *)
(***************************************************************************)

Generated(bs) == {b.material : b \in bs} \cap (1..MaxGenerated)

\* The storage's DeleteKey erases every entry with the key's id.
RemoveKey(b) ==
    /\ keyid_list' = WithoutKey(b)
    /\ retired' = retired \cup Generated(Stored \cap {b})
    /\ UNCHANGED <<versionVars, in_early_boot, held, generated, born, upgraded>>

\* DeleteKey does not parse the blob.  Without secure storage it does nothing.
DeleteKey(b) == IF SecureHardware THEN RemoveKey(b) ELSE UNCHANGED vars

\* FinishOperation with a single-use key.  A key whose id is stored was created,
\* and could begin operations, in this process; finishing with a key that has
\* left the storage meanwhile changes nothing.
SpendSingleUse(b) == b.limit_in_hw /\ b \in Stored /\ RemoveKey(b)

DeleteAllKeys ==
    /\ keyid_list' = <<>>
    /\ retired' = retired \cup Generated(Stored)
    /\ UNCHANGED <<versionVars, in_early_boot, held, generated, born, upgraded>>

(***************************************************************************)
(* Configuration and restart.                                              *)
(***************************************************************************)

Configure(version, patchlevel) ==
    /\ os_version' = version
    /\ os_patchlevel' = patchlevel
    /\ upgraded' = Unset
    /\ UNCHANGED <<vendor_patchlevel, boot_patchlevel, in_early_boot, keyid_list, held,
                   generated, born, retired>>

\* A slip: the value can be replaced.
SetVendorPatchlevelAgain(level) ==
    /\ vendor_patchlevel' = level
    /\ upgraded' = IF vendor_patchlevel = level THEN upgraded ELSE Unset
    /\ UNCHANGED <<os_version, os_patchlevel, boot_patchlevel, in_early_boot, keyid_list, held,
                   generated, born, retired>>

SetVendorPatchlevel(level) ==
    /\ vendor_patchlevel \in {Unset, level}          \* else INVALID_ARGUMENT
    /\ vendor_patchlevel' = level
    /\ upgraded' = IF vendor_patchlevel = level THEN upgraded ELSE Unset
    /\ UNCHANGED <<os_version, os_patchlevel, boot_patchlevel, in_early_boot, keyid_list, held,
                   generated, born, retired>>

SetBootPatchlevel(level) ==
    /\ boot_patchlevel \in {Unset, level}            \* else INVALID_ARGUMENT
    /\ boot_patchlevel' = level
    /\ upgraded' = IF boot_patchlevel = level THEN upgraded ELSE Unset
    /\ UNCHANGED <<os_version, os_patchlevel, vendor_patchlevel, in_early_boot, keyid_list, held,
                   generated, born, retired>>

EarlyBootEnded ==
    /\ in_early_boot' = FALSE
    /\ UNCHANGED <<versionVars, keyid_list, held, generated, born, retired, upgraded>>

\* What the constructors of the context, its enforcement and its storage set.
LifecycleInit ==
    /\ os_version = 0
    /\ os_patchlevel = 0
    /\ vendor_patchlevel = Unset
    /\ boot_patchlevel = Unset
    /\ in_early_boot = TRUE
    /\ keyid_list = <<>>
    /\ held = {}
    /\ generated = 0
    /\ born = {}
    /\ retired = {}
    /\ upgraded = Unset

\* The process ends and a new one starts.  The clients keep their blobs.
Restart ==
    /\ os_version' = 0
    /\ os_patchlevel' = 0
    /\ vendor_patchlevel' = Unset
    /\ boot_patchlevel' = Unset
    /\ in_early_boot' = TRUE
    /\ keyid_list' = <<>>
    /\ born' = {}
    /\ retired' = retired \cup Generated(Stored)
    /\ upgraded' = Unset
    /\ UNCHANGED <<held, generated>>

LifecycleNext ==
    \/ \E d \in KeyDescriptions : GenerateKey(d) \/ \E m \in Materials : ImportKey(d, m)
    \/ \E b \in held : UpgradeKey(b) \/ DeleteKey(b) \/ SpendSingleUse(b)
    \/ DeleteAllKeys
    \/ \E version, patchlevel \in Levels : Configure(version, patchlevel)
    \/ \E level \in Levels : SetVendorPatchlevel(level) \/ SetBootPatchlevel(level)
    \/ EarlyBootEnded
    \/ Restart

LifecycleSpec == LifecycleInit /\ [][LifecycleNext]_vars

(***************************************************************************)
(* Properties.                                                             *)
(***************************************************************************)

\* Every variable has its type, and keyid_list_ never outgrows the slots
\* PureSoftSecureKeyStorage was made with.
LifecycleTypeOK ==
    /\ {os_version, os_patchlevel} \subseteq Levels
    /\ {vendor_patchlevel, boot_patchlevel} \subseteq Levels \cup {Unset}
    /\ in_early_boot \in BOOLEAN
    /\ Stored \subseteq Blobs
    /\ NumStored \leq MaxSlots
    /\ held \subseteq Blobs
    /\ generated \in 0..MaxGenerated
    /\ born \subseteq held
    /\ retired \subseteq 1..MaxGenerated
    /\ upgraded \in held \cup {Unset}

\* A generated key whose id left the secure storage (DeleteKey, DeleteAllKeys,
\* its single use, a restart) is never parsed again, by whichever blob of it a
\* client kept: the original or one that UpgradeKey answered.
RetiredKeysStayRetired ==
    \A b \in held : b.material \in retired => ParseKeyBlob(b) # "OK"

\* A generated key that is tied to secure storage can be parsed for as long as
\* nothing retired it: no deletion of another key, however often keys are
\* upgraded or imported twice, makes its blob invalid.
LiveKeysStayStored ==
    \A b \in born : b.material \in (1..MaxGenerated) \ retired => ParseKeyBlob(b) = "OK"

\* Secure storage tells the live keys from the retired ones: a key tied to it stays stored
\* until it is deleted, used up or forgotten by a restart, and a blob of a key that is
\* gone, also an upgraded one, never loads again; storage stays within its slots.
StorageFollowsKeys == LifecycleTypeOK /\ RetiredKeysStayRetired /\ LiveKeysStayStored

\* A key created by this process passes the version check of LoadKey whenever
\* the OS patch level is that of its creation: vendor and boot patch levels
\* are set once, so they can neither outdate nor invalidate it.
FreshKeysLoad ==
    \A b \in born :
        KeyLevel(b, "OS_PATCHLEVEL") = os_patchlevel => CheckVersionInfo(b) = "OK"

\* "UpgradeKeyBlob ... constructs a new blob with the current format and OS
\* version info": the blob UpgradeKey answered passes the version check until
\* the version information changes.
UpgradedKeyIsCurrent == upgraded # Unset => CheckVersionInfo(upgraded) = "OK"
=============================================================================
