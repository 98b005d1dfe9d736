------------------------- MODULE KeyLifecycleProofs -------------------------
(***************************************************************************)
(* Proofs about KeyLifecycle: secure storage tells live keys from retired  *)
(* ones, and the version information of a blob stays consistent with that  *)
(* of the context that made or upgraded it.                                *)
(***************************************************************************)
EXTENDS KeyLifecycle, FiniteSetTheorems, TLAPS

(***************************************************************************)
(* The inductive invariant.                                                *)
(***************************************************************************)

\* The variables have their types, and the list is a function from finitely many slots.
ListInv ==
    /\ keyid_list \in [DOMAIN keyid_list -> Blobs]
    /\ IsFiniteSet(DOMAIN keyid_list)
    /\ NumStored <= MaxSlots

VersionTypes ==
    /\ {os_version, os_patchlevel} \subseteq Levels
    /\ {vendor_patchlevel, boot_patchlevel} \subseteq Levels \cup {Unset}
    /\ in_early_boot \in BOOLEAN

HeldTypes ==
    /\ held \subseteq Blobs
    /\ generated \in 0..MaxGenerated
    /\ born \subseteq held
    /\ upgraded \in held \cup {Unset}

Known == held \cup Stored

\* Generated keys are numbered in the order of their creation.
Numbered ==
    /\ \A b \in Known : b.material \in 1..MaxGenerated => b.material <= generated
    /\ retired \subseteq 1..generated

\* All blobs of a generated key, upgraded or not, are tied to storage, or none is; the
\* storage holds ids of tied blobs only, and of one blob of a generated key.
TiedAlike ==
    /\ \A b, c \in Known :
          b.material = c.material /\ b.material \in 1..MaxGenerated => Tied(b) = Tied(c)
    /\ \A b \in Stored : Tied(b) /\ SecureHardware
    /\ \A b, c \in Stored :
          b.material = c.material /\ b.material \in 1..MaxGenerated => b = c

\* What was retired was tied, and has left the storage.
RetiredGone ==
    /\ \A b \in Stored : b.material \notin retired
    /\ \A b \in held : b.material \in retired => Tied(b)

StorageInv ==
    ListInv /\ VersionTypes /\ HeldTypes /\ Numbered /\ TiedAlike /\ RetiredGone
    /\ LiveKeysStayStored

(***************************************************************************)
(* The storage's list.                                                     *)
(***************************************************************************)

\* There is a free slot: of n + 1 slots, n ids leave one.
LEMMA FreeSlotIsFree ==
    ASSUME ListInv
    PROVE  FreeSlot \in Nat /\ FreeSlot \notin DOMAIN keyid_list
<1>1. NumStored \in Nat
  BY FS_CardinalityType DEF ListInv, NumStored
<1>2. IsFiniteSet(1..(NumStored + 1)) /\ Cardinality(1..(NumStored + 1)) = NumStored + 1
  BY <1>1, FS_Interval
<1>3. ~(1..(NumStored + 1) \subseteq DOMAIN keyid_list)
  BY <1>1, <1>2, FS_Subset DEF ListInv, NumStored
<1>4. \E i \in 1..(NumStored + 1) : i \notin DOMAIN keyid_list
  BY <1>3
<1> QED
  BY <1>1, <1>4 DEF FreeSlot

\* WriteKey adds the id, takes one slot and leaves the other ids alone.
LEMMA WithKeyAdds ==
    ASSUME ListInv, NEW b \in Blobs, ~WriteKeyFails, keyid_list' = WithKey(b)
    PROVE  ListInv' /\ Stored' = Stored \cup {b}
<1>1. FreeSlot \in Nat /\ FreeSlot \notin DOMAIN keyid_list
  BY FreeSlotIsFree
<1> DEFINE s == FreeSlot
<1> HIDE DEF s
<1>2. keyid_list' = [i \in DOMAIN keyid_list \cup {s} |-> IF i = s THEN b ELSE keyid_list[i]]
  BY DEF WithKey, s
<1>3. s \notin DOMAIN keyid_list
  BY <1>1 DEF s
<1>4. DOMAIN keyid_list' = DOMAIN keyid_list \cup {s}
  BY <1>2
<1>5. /\ IsFiniteSet(DOMAIN keyid_list') /\ NumStored' = NumStored + 1
      /\ NumStored \in Nat
  BY <1>3, <1>4, FS_AddElement, FS_CardinalityType DEF ListInv, NumStored
<1>6. NumStored' <= MaxSlots
  BY <1>5, LifecycleAssumption DEF WriteKeyFails
<1>7. keyid_list' \in [DOMAIN keyid_list' -> Blobs]
  BY <1>2, <1>4 DEF ListInv
<1>8. Stored' = Stored \cup {b}
  BY <1>2, <1>3, <1>4 DEF Stored, Range
<1> QED
  BY <1>5, <1>6, <1>7, <1>8 DEF ListInv

\* DeleteKey takes the id out, however often it is there, and no other.
LEMMA WithoutKeyRemoves ==
    ASSUME ListInv, NEW b, keyid_list' = WithoutKey(b)
    PROVE  ListInv' /\ Stored' = Stored \ {b}
<1> DEFINE rest == {i \in DOMAIN keyid_list : keyid_list[i] # b}
<1>1. keyid_list' = [i \in rest |-> keyid_list[i]]
  BY DEF WithoutKey, Restrict
<1>2. DOMAIN keyid_list' = rest /\ rest \subseteq DOMAIN keyid_list
  BY <1>1
<1>3. IsFiniteSet(rest) /\ NumStored' <= NumStored /\ NumStored \in Nat /\ NumStored' \in Nat
  BY <1>2, FS_Subset, FS_CardinalityType DEF ListInv, NumStored
<1>4. NumStored' <= MaxSlots
  BY <1>3, LifecycleAssumption DEF ListInv
<1>5. keyid_list' \in [DOMAIN keyid_list' -> Blobs]
  BY <1>1, <1>2 DEF ListInv
<1>6. Stored' = Stored \ {b}
  BY <1>1, <1>2 DEF Stored, Range
<1> QED
  BY <1>2, <1>3, <1>4, <1>5, <1>6 DEF ListInv

\* DeleteAllKeys, and the start of a process, leave nothing.
LEMMA EmptyList ==
    ASSUME keyid_list' = <<>>
    PROVE  ListInv' /\ Stored' = {}
<1>1. DOMAIN keyid_list' = {} /\ keyid_list' \in [DOMAIN keyid_list' -> Blobs]
  OBVIOUS
<1>2. IsFiniteSet(DOMAIN keyid_list') /\ NumStored' = 0
  BY <1>1, FS_EmptySet DEF NumStored
<1> QED
  BY <1>1, <1>2, LifecycleAssumption DEF ListInv, Stored, Range

(***************************************************************************)
(* Creating a key.                                                         *)
(***************************************************************************)

\* The version information of the context is a set of version tags.
LEMMA CurrentType ==
    ASSUME VersionTypes
    PROVE  /\ Current \in LevelSets /\ NoLevels \in LevelSets
           /\ Current["OS_VERSION"] = os_version /\ Current["OS_PATCHLEVEL"] = os_patchlevel
           /\ Current["VENDOR_PATCHLEVEL"] = vendor_patchlevel
           /\ Current["BOOT_PATCHLEVEL"] = boot_patchlevel
BY DEF VersionTypes, Current, LevelSets, NoLevels, LevelTags

\* A new blob has the material and the description it was made for.
LEMMA NewBlobType ==
    ASSUME VersionTypes, NEW d \in Descriptions, NEW m \in Materials \cup (1..MaxGenerated)
    PROVE  /\ NewBlob(d, m) \in Blobs
           /\ NewBlob(d, m).material = m /\ NewBlob(d, m).desc = d
           /\ NewBlob(d, m).limit_in_hw = LimitInHardware(d)
<1>1. LimitInHardware(d) \in BOOLEAN
  BY LifecycleAssumption DEF LimitInHardware, CanStore, HasSlot, Descriptions
<1>2. /\ (IF SecureHardware THEN Current ELSE NoLevels) \in LevelSets
      /\ (IF SecureHardware THEN NoLevels ELSE Current) \in LevelSets
  BY CurrentType
<1> QED
  BY <1>1, <1>2 DEF NewBlob, Blobs

\* A key that was created keeps the invariant: its number is new, or the client chose its
\* material, and its id is stored if and only if it is tied to storage.
LEMMA CreatedKept ==
    ASSUME StorageInv, ListInv', UNCHANGED <<versionVars, in_early_boot, retired, upgraded>>,
           NEW b \in Blobs,
           \/ b.material \notin 1..MaxGenerated /\ generated' = generated
           \/ b.material = generated + 1 /\ generated' = generated + 1 /\ generated < MaxGenerated,
           Stored' = IF Tied(b) THEN Stored \cup {b} ELSE Stored,
           Tied(b) => SecureHardware,
           \/ held' = held \cup {b} /\ born' = born \cup {b}
           \/ UNCHANGED <<held, born>>
    PROVE  StorageInv'
<1> USE LifecycleAssumption
<1>0. /\ ListInv /\ VersionTypes /\ HeldTypes /\ Numbered /\ TiedAlike /\ RetiredGone
      /\ LiveKeysStayStored
  BY DEF StorageInv
<1>1. VersionTypes' /\ HeldTypes'
  <2>1. VersionTypes'
    BY <1>0 DEF VersionTypes, versionVars
  <2>2. generated' \in 0..MaxGenerated
    BY <1>0 DEF HeldTypes
  <2>3. held' \subseteq Blobs /\ held \subseteq held' /\ born' \subseteq held'
    BY <1>0 DEF HeldTypes
  <2>4. upgraded' \in held' \cup {Unset}
    BY <1>0, <2>3 DEF HeldTypes
  <2> QED
    BY <2>1, <2>2, <2>3, <2>4 DEF HeldTypes
<1>2. Known \subseteq Known' /\ Known' \subseteq Known \cup {b} /\ retired' = retired
  <2>1. retired' = retired
    OBVIOUS
  <2>2. /\ held \subseteq held' /\ held' \subseteq held \cup {b}
        /\ Stored \subseteq Stored' /\ Stored' \subseteq Stored \cup {b}
    OBVIOUS
  <2> QED
    BY <2>1, <2>2 DEF Known
<1>3. /\ b.material \notin retired
      /\ \A c \in Known : b.material \in 1..MaxGenerated => c.material # b.material
  <2>0. /\ generated \in Nat /\ generated <= MaxGenerated /\ MaxGenerated \in Nat
        /\ \A x \in retired : x \in Int /\ 1 <= x /\ x <= generated
    BY <1>0 DEF Numbered, HeldTypes
  <2>1. CASE b.material \notin 1..MaxGenerated
    BY <2>0, <2>1
  <2>2. CASE b.material = generated + 1 /\ generated < MaxGenerated
    <3>1. \A c \in Known : c.material # b.material
      BY <1>0, <2>0, <2>2 DEF Numbered
    <3> QED
      BY <2>0, <2>2, <3>1
  <2> QED
    BY <2>1, <2>2
<1>4. Numbered'
  BY <1>0, <1>2 DEF Numbered, HeldTypes
<1>5. TiedAlike'
  <2>1. \A x, y \in Known' :
           x.material = y.material /\ x.material \in 1..MaxGenerated => Tied(x) = Tied(y)
    BY <1>0, <1>2, <1>3 DEF TiedAlike
  <2>2. \A x \in Stored' : Tied(x) /\ SecureHardware
    BY <1>0 DEF TiedAlike
  <2>3. \A x, y \in Stored' :
           x.material = y.material /\ x.material \in 1..MaxGenerated => x = y
    BY <1>0, <1>3 DEF TiedAlike, Known
  <2> QED
    BY <2>1, <2>2, <2>3 DEF TiedAlike
<1>6. RetiredGone'
  BY <1>0, <1>2, <1>3 DEF RetiredGone
<1>7. LiveKeysStayStored'
  BY <1>0, <1>2 DEF LiveKeysStayStored, ParseKeyBlob
<1> QED
  BY <1>1, <1>4, <1>5, <1>6, <1>7 DEF StorageInv

\* CreateKeyBlob keeps the invariant, whether or not the certificate can be made.
LEMMA CreateStep ==
    ASSUME StorageInv, NEW d \in KeyDescriptions, NEW m, CreateKeyBlob(d, m),
           \/ m \in Materials /\ generated' = generated
           \/ m = generated + 1 /\ generated' = generated + 1 /\ generated < MaxGenerated
    PROVE  StorageInv'
<1> DEFINE b == NewBlob(d, m)
<1>0. ListInv /\ VersionTypes /\ HeldTypes
  BY DEF StorageInv
<1>1. m \in Materials \cup (1..MaxGenerated) /\ d \in Descriptions
  BY <1>0, LifecycleAssumption DEF HeldTypes
<1>2. b \in Blobs /\ b.material = m /\ b.desc = d /\ b.limit_in_hw = LimitInHardware(d)
  BY <1>0, <1>1, NewBlobType
<1>3. /\ UNCHANGED <<versionVars, in_early_boot, retired, upgraded>>
      /\ \/ CannotCreate(d) /\ UNCHANGED <<keyid_list, held, born>>
         \/ /\ ~CannotCreate(d)
            /\ keyid_list' = IF Tied(b) THEN WithKey(b) ELSE keyid_list
            /\ \/ held' = held \cup {b} /\ born' = born \cup {b}
               \/ UNCHANGED <<held, born>>
  BY DEF CreateKeyBlob
<1> HIDE DEF b
<1>4. CASE UNCHANGED <<keyid_list, held, born>>
  <2>1. Stored' = Stored /\ NumStored' = NumStored
    BY <1>4 DEF Stored, NumStored
  <2>2. ListInv' /\ VersionTypes' /\ HeldTypes'
    BY <1>0, <1>3, <1>4, <2>1, LifecycleAssumption
    DEF ListInv, VersionTypes, HeldTypes, versionVars
  <2>3. Numbered'
    BY <1>0, <1>3, <1>4, <2>1, LifecycleAssumption DEF StorageInv, HeldTypes, Numbered, Known
  <2> QED
    BY <1>3, <1>4, <2>1, <2>2, <2>3
    DEF StorageInv, TiedAlike, RetiredGone, LiveKeysStayStored, ParseKeyBlob, Known
<1>5. CASE /\ ~CannotCreate(d)
           /\ keyid_list' = IF Tied(b) THEN WithKey(b) ELSE keyid_list
           /\ \/ held' = held \cup {b} /\ born' = born \cup {b}
              \/ UNCHANGED <<held, born>>
  <2>1. Tied(b) => SecureHardware /\ ~WriteKeyFails
    BY <1>2, <1>5, Zenon DEF Tied, CannotCreate, LimitInHardware, CanStore
  <2>2. ListInv' /\ Stored' = IF Tied(b) THEN Stored \cup {b} ELSE Stored
    <3>1. CASE Tied(b)
      BY <1>0, <1>2, <1>5, <2>1, <3>1, WithKeyAdds
    <3>2. CASE ~Tied(b)
      BY <1>0, <1>5, <3>2 DEF ListInv, NumStored, Stored
    <3> QED
      BY <3>1, <3>2
  <2>3. \/ b.material \notin 1..MaxGenerated /\ generated' = generated
        \/ b.material = generated + 1 /\ generated' = generated + 1 /\ generated < MaxGenerated
    BY <1>2, LifecycleAssumption
  <2> QED
    BY <1>2, <1>3, <1>5, <2>1, <2>2, <2>3, CreatedKept
<1> QED
  BY <1>3, <1>4, <1>5

(***************************************************************************)
(* The other steps.                                                        *)
(***************************************************************************)

\* An upgraded blob is a blob of the same key, tied to storage if the old one is.
LEMMA UpgradedBlob ==
    ASSUME VersionTypes, NEW b \in Blobs
    PROVE  LET u == [b EXCEPT !.sw = UpgradedLevels(b)] IN
           /\ u \in Blobs /\ u.material = b.material /\ Tied(u) = Tied(b)
           /\ u.hw = b.hw /\ u.sw = UpgradedLevels(b)
<1>1. UpgradedLevels(b) \in LevelSets
  BY CurrentType DEF UpgradedLevels, LevelSets, Blobs
<1> QED
  BY <1>1 DEF Blobs, Tied

\* UpgradeKey touches neither the storage nor what it says of any key.
LEMMA UpgradeStep ==
    ASSUME StorageInv, NEW b \in held, UpgradeKey(b)
    PROVE  StorageInv'
<1>0. /\ ListInv /\ VersionTypes /\ HeldTypes /\ Numbered /\ TiedAlike /\ RetiredGone
      /\ LiveKeysStayStored
  BY DEF StorageInv
<1>1. UNCHANGED <<versionVars, in_early_boot, keyid_list, generated, born, retired>>
  BY DEF UpgradeKey
<1>2. Stored' = Stored /\ NumStored' = NumStored
  BY <1>1 DEF Stored, NumStored
<1>3. ListInv' /\ VersionTypes'
  BY <1>0, <1>1, <1>2 DEF ListInv, VersionTypes, versionVars
<1>4. LiveKeysStayStored'
  BY <1>0, <1>1, <1>2 DEF LiveKeysStayStored, ParseKeyBlob
<1> DEFINE u == [b EXCEPT !.sw = UpgradedLevels(b)]
<1>5. u \in Blobs /\ u.material = b.material /\ Tied(u) = Tied(b)
  BY <1>0, UpgradedBlob DEF HeldTypes
<1>6. CASE UNCHANGED <<upgraded, held>>
  BY <1>0, <1>1, <1>2, <1>3, <1>4, <1>6
  DEF StorageInv, HeldTypes, Numbered, TiedAlike, RetiredGone, Known
<1>7. CASE upgraded' = u /\ held' = held \cup {u}
  <2> HIDE DEF u
  <2>1. HeldTypes'
    BY <1>0, <1>1, <1>5, <1>7 DEF HeldTypes
  <2>2. Numbered'
    BY <1>0, <1>1, <1>2, <1>5, <1>7 DEF Numbered, Known
  <2>3. TiedAlike'
    BY <1>0, <1>1, <1>2, <1>5, <1>7 DEF TiedAlike, Known
  <2>4. RetiredGone'
    BY <1>0, <1>1, <1>2, <1>5, <1>7 DEF RetiredGone
  <2> QED
    BY <1>3, <1>4, <2>1, <2>2, <2>3, <2>4 DEF StorageInv
<1> QED
  BY <1>6, <1>7 DEF UpgradeKey

\* A step that takes ids out of the storage and retires their keys keeps the invariant.
LEMMA RemovedKept ==
    ASSUME StorageInv, ListInv', VersionTypes', NEW out \in SUBSET Stored,
           Stored' = Stored \ out, retired' = retired \cup Generated(out),
           UNCHANGED <<held, generated>>, born' \in {born, {}}, upgraded' \in {upgraded, Unset}
    PROVE  StorageInv'
<1>0. /\ HeldTypes /\ Numbered /\ TiedAlike /\ RetiredGone /\ LiveKeysStayStored
  BY DEF StorageInv
<1>1. /\ \A b \in out : b.material \in 1..MaxGenerated => b.material \in retired'
      /\ \A m \in retired' : m \in retired \/ \E b \in out : b.material = m /\ m \in 1..MaxGenerated
  BY DEF Generated
<1>2. HeldTypes'
  BY <1>0 DEF HeldTypes
<1>3. Numbered'
  <2>1. Known' \subseteq Known
    BY DEF Known
  <2>2. retired' \subseteq 1..generated
    <3>1. \A b \in out : b.material \in 1..MaxGenerated => b.material \in 1..generated
      BY <1>0 DEF Numbered, HeldTypes, Known
    <3> QED
      BY <1>0, <1>1, <3>1, Zenon DEF Numbered
  <2> QED
    BY <1>0, <2>1, <2>2 DEF Numbered
<1>4. TiedAlike'
  BY <1>0 DEF TiedAlike, Known
<1>5. RetiredGone'
  <2>1. ASSUME NEW b \in Stored' PROVE b.material \notin retired'
    BY <1>0, <1>1 DEF TiedAlike, RetiredGone
  <2>2. ASSUME NEW b \in held', b.material \in retired' PROVE Tied(b)
    BY <1>0, <1>1, <2>2 DEF TiedAlike, RetiredGone, Known
  <2> QED
    BY <2>1, <2>2 DEF RetiredGone
<1>6. LiveKeysStayStored'
  <2> SUFFICES ASSUME NEW b \in born', b.material \in (1..MaxGenerated) \ retired'
               PROVE  ParseKeyBlob(b)' = "OK"
    BY DEF LiveKeysStayStored
  <2>1. b \in born /\ b.material \in (1..MaxGenerated) \ retired
    OBVIOUS
  <2>2. ParseKeyBlob(b) = "OK" /\ b \notin out
    BY <1>0, <1>1, <2>1 DEF LiveKeysStayStored
  <2> QED
    BY <2>2 DEF ParseKeyBlob
<1> QED
  BY <1>2, <1>3, <1>4, <1>5, <1>6 DEF StorageInv

\* DeleteKey of the storage, for a deletion or a single use.
LEMMA RemoveStep ==
    ASSUME StorageInv, NEW b, RemoveKey(b)
    PROVE  StorageInv'
<1>1. ListInv' /\ Stored' = Stored \ {b}
  BY WithoutKeyRemoves DEF StorageInv, RemoveKey
<1>2. VersionTypes'
  BY DEF StorageInv, VersionTypes, RemoveKey, versionVars
<1>3. Stored \cap {b} \in SUBSET Stored /\ Stored \ {b} = Stored \ (Stored \cap {b})
  OBVIOUS
<1> QED
  BY <1>1, <1>2, <1>3, RemovedKept DEF RemoveKey

\* DeleteAllKeys and the end of the process empty the storage.
LEMMA EmptyStep ==
    ASSUME StorageInv, DeleteAllKeys \/ Restart
    PROVE  StorageInv'
<1>1. ListInv' /\ Stored' = {}
  BY EmptyList DEF DeleteAllKeys, Restart
<1>2. VersionTypes'
  <2>1. CASE DeleteAllKeys
    BY <2>1 DEF StorageInv, VersionTypes, DeleteAllKeys, versionVars
  <2>2. CASE Restart
    BY <2>2, LifecycleAssumption DEF VersionTypes, Restart, Levels
  <2> QED
    BY <2>1, <2>2
<1>3. Stored \in SUBSET Stored /\ {} = Stored \ Stored
  OBVIOUS
<1>4. /\ retired' = retired \cup Generated(Stored) /\ UNCHANGED <<held, generated>>
      /\ born' \in {born, {}} /\ upgraded' \in {upgraded, Unset}
  BY DEF DeleteAllKeys, Restart
<1> QED
  BY <1>1, <1>2, <1>3, <1>4, RemovedKept

\* The version information and early boot concern no stored key.
LEMMA ConfigurationStep ==
    ASSUME StorageInv,
           UNCHANGED <<keyid_list, held, generated, born, retired>>,
           VersionTypes', upgraded' \in {upgraded, Unset}
    PROVE  StorageInv'
<1>1. Stored' = Stored /\ NumStored' = NumStored
  BY DEF Stored, NumStored
<1>2. ListInv' /\ HeldTypes'
  BY <1>1 DEF StorageInv, ListInv, HeldTypes
<1>3. Numbered' /\ TiedAlike' /\ RetiredGone'
  BY <1>1 DEF StorageInv, Numbered, TiedAlike, RetiredGone, Known
<1>4. LiveKeysStayStored'
  BY <1>1 DEF StorageInv, LiveKeysStayStored, ParseKeyBlob
<1> QED
  BY <1>2, <1>3, <1>4 DEF StorageInv

\* The configuration actions assign values of the right kind.
LEMMA ConfigurationCalls ==
    ASSUME VersionTypes, NEW l \in Levels, NEW k \in Levels,
           \/ Configure(l, k) \/ SetVendorPatchlevel(l) \/ SetBootPatchlevel(l)
           \/ EarlyBootEnded
    PROVE  /\ UNCHANGED <<keyid_list, held, generated, born, retired>>
           /\ VersionTypes' /\ upgraded' \in {upgraded, Unset}
<1>1. CASE Configure(l, k)
  BY <1>1 DEF Configure, VersionTypes
<1>2. CASE SetVendorPatchlevel(l)
  BY <1>2 DEF SetVendorPatchlevel, VersionTypes
<1>3. CASE SetBootPatchlevel(l)
  BY <1>3 DEF SetBootPatchlevel, VersionTypes
<1>4. CASE EarlyBootEnded
  BY <1>4, Zenon DEF EarlyBootEnded, VersionTypes, versionVars
<1> QED
  BY <1>1, <1>2, <1>3, <1>4

\* GenerateKey and ImportKey.
LEMMA NewKeyStep ==
    ASSUME StorageInv, NEW d \in KeyDescriptions,
           GenerateKey(d) \/ \E m \in Materials : ImportKey(d, m)
    PROVE  StorageInv'
<1>1. CASE GenerateKey(d)
  BY <1>1, CreateStep DEF GenerateKey
<1>2. ASSUME NEW m \in Materials, ImportKey(d, m) PROVE StorageInv'
  <2>1. CASE CreateKeyBlob(d, m) /\ UNCHANGED generated
    BY <2>1, CreateStep
  <2>2. CASE /\ UNCHANGED generated
             /\ UNCHANGED <<versionVars, in_early_boot, keyid_list, held, born, retired, upgraded>>
    <3>1. VersionTypes'
      BY <2>2 DEF StorageInv, VersionTypes, versionVars
    <3> QED
      BY <2>2, <3>1, ConfigurationStep
  <2> QED
    BY <1>2, <2>1, <2>2 DEF ImportKey
<1> QED
  BY <1>1, <1>2

\* Nothing changes: a call that was refused, DeleteKey without secure storage.
LEMMA QuietStep ==
    ASSUME StorageInv, UNCHANGED vars
    PROVE  StorageInv'
<1>1. VersionTypes'
  BY DEF StorageInv, VersionTypes, vars, versionVars
<1> QED
  BY <1>1, ConfigurationStep DEF vars

\* Every step keeps the invariant.
LEMMA StorageStep ==
    ASSUME StorageInv, [LifecycleNext]_vars
    PROVE  StorageInv'
<1>1. CASE \E d \in KeyDescriptions : GenerateKey(d) \/ \E m \in Materials : ImportKey(d, m)
  BY <1>1, NewKeyStep
<1>2. ASSUME NEW b \in held, UpgradeKey(b) \/ DeleteKey(b) \/ SpendSingleUse(b)
      PROVE  StorageInv'
  <2>1. CASE UpgradeKey(b)
    BY <2>1, UpgradeStep
  <2>2. CASE RemoveKey(b)
    BY <2>2, RemoveStep
  <2>3. CASE UNCHANGED vars
    BY <2>3, QuietStep
  <2> QED
    BY <1>2, <2>1, <2>2, <2>3 DEF DeleteKey, SpendSingleUse
<1>3. CASE DeleteAllKeys \/ Restart
  BY <1>3, EmptyStep
<1>4. CASE \/ \E version, patchlevel \in Levels : Configure(version, patchlevel)
           \/ \E level \in Levels : SetVendorPatchlevel(level) \/ SetBootPatchlevel(level)
           \/ EarlyBootEnded
  <2>1. 0 \in Levels /\ VersionTypes
    BY LifecycleAssumption DEF Levels, StorageInv
  <2>2. /\ UNCHANGED <<keyid_list, held, generated, born, retired>>
        /\ VersionTypes' /\ upgraded' \in {upgraded, Unset}
    BY <1>4, <2>1, ConfigurationCalls
  <2> QED
    BY <2>2, ConfigurationStep
<1>5. CASE UNCHANGED vars
  BY <1>5, QuietStep
<1> QED
  BY <1>1, <1>2, <1>3, <1>4, <1>5 DEF LifecycleNext

\* A new process starts with an empty storage and no blobs.
LEMMA StorageStart == LifecycleInit => StorageInv
<1> SUFFICES ASSUME LifecycleInit PROVE StorageInv
  OBVIOUS
<1>1. DOMAIN keyid_list = {} /\ keyid_list \in [DOMAIN keyid_list -> Blobs] /\ Stored = {}
  BY DEF LifecycleInit, Stored, Range
<1>2. ListInv
  BY <1>1, FS_EmptySet, LifecycleAssumption DEF ListInv, NumStored
<1>3. VersionTypes /\ HeldTypes
  BY LifecycleAssumption DEF LifecycleInit, VersionTypes, HeldTypes, Levels
<1> QED
  BY <1>1, <1>2, <1>3
  DEF LifecycleInit, StorageInv, Numbered, TiedAlike, RetiredGone, LiveKeysStayStored, Known

\* The invariant holds throughout.
LEMMA StorageInvariance == LifecycleSpec => []StorageInv
BY StorageStart, StorageStep, PTL DEF LifecycleSpec

\* Secure storage follows the keys: a blob of a generated key whose id was deleted, spent or
\* forgotten, also one that UpgradeKey answered, never parses again; one that nothing
\* retired parses; and the list stays within the slots of PureSoftSecureKeyStorage.
THEOREM StorageIsExact == LifecycleSpec => []StorageFollowsKeys
<1>1. StorageInv => StorageFollowsKeys
  <2> SUFFICES ASSUME StorageInv PROVE StorageFollowsKeys
    OBVIOUS
  <2>1. Stored \subseteq Blobs
    BY DEF StorageInv, ListInv, Stored, Range
  <2>2. retired \subseteq 1..MaxGenerated
    BY LifecycleAssumption DEF StorageInv, Numbered, HeldTypes
  <2>3. LifecycleTypeOK
    BY <2>1, <2>2 DEF StorageInv, ListInv, VersionTypes, HeldTypes, LifecycleTypeOK
  <2>4. RetiredKeysStayRetired
    BY DEF StorageInv, RetiredGone, RetiredKeysStayRetired, ParseKeyBlob
  <2> QED
    BY <2>3, <2>4 DEF StorageInv, StorageFollowsKeys
<1> QED
  BY <1>1, StorageInvariance, PTL

(***************************************************************************)
(* Version information.                                                    *)
(***************************************************************************)

SetOnce == {"VENDOR_PATCHLEVEL", "BOOT_PATCHLEVEL"}

\* A key of this process has no vendor or boot patch level, or the one of the context.
BornInv ==
    \A b \in born, t \in SetOnce : KeyLevel(b, t) = Unset \/ KeyLevel(b, t) = Current[t]

\* A level that equals the context's passes the check.
LEMMA EqualLevelPasses ==
    ASSUME VersionTypes, NEW b, NEW t \in LevelTags,
           KeyLevel(b, t) = Unset \/ Current[t] = Unset \/ KeyLevel(b, t) = Current[t]
    PROVE  CheckPatchLevel(b, t) = "OK"
<1>1. Current[t] \in Levels \cup {Unset}
  BY CurrentType DEF LevelSets
<1>2. CASE KeyLevel(b, t) = Unset \/ Current[t] = Unset
  BY <1>2 DEF CheckPatchLevel
<1>3. CASE Current[t] # Unset /\ KeyLevel(b, t) = Current[t]
  <2>1. Current[t] \in Int
    BY <1>1, <1>3, LifecycleAssumption DEF Levels
  <2>2. ~(KeyLevel(b, t) < Current[t]) /\ ~(KeyLevel(b, t) > Current[t])
    BY <1>3, <2>1
  <2> QED
    BY <2>2 DEF CheckPatchLevel
<1> QED
  BY <1>2, <1>3

\* A new key has the context's version information.
LEMMA NewBlobLevels ==
    ASSUME VersionTypes, NEW d, NEW m, NEW t \in LevelTags
    PROVE  KeyLevel(NewBlob(d, m), t) = Current[t]
BY DEF KeyLevel, NewBlob, NoLevels

\* The vendor and boot patch levels change only from no value, and then no key of this
\* process has one.
LEMMA BornStep ==
    ASSUME StorageInv, BornInv, [LifecycleNext]_vars
    PROVE  BornInv'
<1>0. VersionTypes /\ SetOnce \subseteq LevelTags
  BY DEF StorageInv, SetOnce, LevelTags
<1>1. VersionTypes'
  BY StorageStep DEF StorageInv
<1>2. /\ Current["VENDOR_PATCHLEVEL"] = vendor_patchlevel
      /\ Current["BOOT_PATCHLEVEL"] = boot_patchlevel
      /\ Current'["VENDOR_PATCHLEVEL"] = vendor_patchlevel'
      /\ Current'["BOOT_PATCHLEVEL"] = boot_patchlevel'
  BY <1>0, <1>1, CurrentType DEF Current, LevelTags
<1>3. ASSUME born' \subseteq born,
             vendor_patchlevel \in {Unset, vendor_patchlevel'},
             boot_patchlevel \in {Unset, boot_patchlevel'}
      PROVE  BornInv'
  <2>1. \A t \in SetOnce : Current[t] \in {Unset, Current'[t]}
    BY <1>2, <1>3 DEF SetOnce
  <2>2. \A b \in born', t \in SetOnce :
           KeyLevel(b, t) = Unset \/ KeyLevel(b, t) = Current'[t]
    BY <1>3, <2>1 DEF BornInv
  <2> QED
    BY <2>2 DEF BornInv, KeyLevel
<1>4. ASSUME NEW d, NEW m, CreateKeyBlob(d, m) PROVE BornInv'
  <2>1. UNCHANGED <<vendor_patchlevel, boot_patchlevel, os_version, os_patchlevel>>
    BY <1>4 DEF CreateKeyBlob, versionVars
  <2>2. CASE UNCHANGED born
    BY <1>3, <2>1, <2>2
  <2>3. CASE born' = born \cup {NewBlob(d, m)}
    <3>1. Current' = Current
      BY <2>1 DEF Current
    <3>2. \A t \in SetOnce : KeyLevel(NewBlob(d, m), t) = Current[t]
      BY <1>0, NewBlobLevels
    <3>3. \A b \in born', t \in SetOnce :
             KeyLevel(b, t) = Unset \/ KeyLevel(b, t) = Current'[t]
      BY <2>3, <3>1, <3>2 DEF BornInv
    <3> QED
      BY <3>3 DEF BornInv, KeyLevel
  <2> QED
    BY <1>4, <2>2, <2>3 DEF CreateKeyBlob
<1>5. ASSUME NEW d, NEW m, GenerateKey(d) \/ ImportKey(d, m) PROVE BornInv'
  BY <1>3, <1>4, <1>5 DEF GenerateKey, ImportKey, versionVars
<1>6. ASSUME NEW b, UpgradeKey(b) \/ DeleteKey(b) \/ SpendSingleUse(b) PROVE BornInv'
  BY <1>3, <1>6 DEF UpgradeKey, DeleteKey, SpendSingleUse, RemoveKey, vars, versionVars
<1>7. CASE DeleteAllKeys \/ EarlyBootEnded
  BY <1>3, <1>7 DEF DeleteAllKeys, EarlyBootEnded, versionVars
<1>8. ASSUME NEW l, NEW k, Configure(l, k) \/ SetVendorPatchlevel(l) \/ SetBootPatchlevel(l)
      PROVE  BornInv'
  BY <1>3, <1>8, SMTT(20) DEF Configure, SetVendorPatchlevel, SetBootPatchlevel
<1>9. CASE Restart
  BY <1>9 DEF Restart, BornInv
<1>10. CASE UNCHANGED vars
  BY <1>3, <1>10 DEF vars, versionVars
<1> QED
  BY <1>5, <1>6, <1>7, <1>8, <1>9, <1>10 DEF LifecycleNext

\* A key created by this process passes the version check whenever the OS patch level is
\* that of its creation: the vendor and boot patch levels are set once.
THEOREM FreshKeys == LifecycleSpec => []FreshKeysLoad
<1>1. LifecycleInit => BornInv
  BY DEF LifecycleInit, BornInv
<1>2. StorageInv /\ BornInv /\ [LifecycleNext]_vars => BornInv'
  BY BornStep
<1>3. StorageInv /\ BornInv => FreshKeysLoad
  <2> SUFFICES ASSUME StorageInv, BornInv, NEW b \in born,
                      KeyLevel(b, "OS_PATCHLEVEL") = os_patchlevel
               PROVE  CheckVersionInfo(b) = "OK"
    BY DEF FreshKeysLoad
  <2>0. VersionTypes
    BY DEF StorageInv
  <2>1. CheckPatchLevel(b, "OS_PATCHLEVEL") = "OK"
    BY <2>0, CurrentType, EqualLevelPasses DEF LevelTags
  <2>2. /\ CheckPatchLevel(b, "VENDOR_PATCHLEVEL") = "OK"
        /\ CheckPatchLevel(b, "BOOT_PATCHLEVEL") = "OK"
    BY <2>0, EqualLevelPasses DEF BornInv, SetOnce, LevelTags
  <2> QED
    BY <2>1, <2>2 DEF CheckVersionInfo
<1> QED
  BY <1>1, <1>2, <1>3, StorageInvariance, PTL DEF LifecycleSpec

\* Without secure hardware the version tags are software-enforced, in every blob.
SoftLevels == \A b \in held : b.hw = NoLevels

\* The blob UpgradeKey answered has the context's levels, where the context has them.
UpgradedInv ==
    upgraded # Unset => \A t \in LevelTags : Current[t] = Unset \/ upgraded.sw[t] = Current[t]

\* UpgradeKey brings every software-enforced tag up to date, and any change of the version
\* information forgets which blob was answered last.
LEMMA UpgradedStep ==
    ASSUME ~SecureHardware, StorageInv, SoftLevels, UpgradedInv, [LifecycleNext]_vars
    PROVE  SoftLevels' /\ UpgradedInv'
<1>0. VersionTypes /\ held \subseteq Blobs
  BY DEF StorageInv, HeldTypes
<1>1. ASSUME held' = held, upgraded' = Unset PROVE SoftLevels' /\ UpgradedInv'
  BY <1>1 DEF SoftLevels, UpgradedInv
<1>2. ASSUME held' = held, upgraded' = upgraded, UNCHANGED versionVars
      PROVE  SoftLevels' /\ UpgradedInv'
  <2>1. Current' = Current
    BY <1>2 DEF Current, versionVars
  <2> QED
    BY <1>2, <2>1 DEF SoftLevels, UpgradedInv
<1>3. ASSUME NEW d, NEW m, CreateKeyBlob(d, m) PROVE SoftLevels' /\ UpgradedInv'
  <2>1. upgraded' = upgraded /\ UNCHANGED versionVars
    BY <1>3 DEF CreateKeyBlob
  <2>2. Current' = Current
    BY <2>1 DEF Current, versionVars
  <2>3. UpgradedInv'
    BY <2>1, <2>2 DEF UpgradedInv
  <2>4. NewBlob(d, m).hw = NoLevels /\ held' \subseteq held \cup {NewBlob(d, m)}
    BY <1>3 DEF NewBlob, CreateKeyBlob
  <2> QED
    BY <2>3, <2>4 DEF SoftLevels
<1>4. ASSUME NEW d, NEW m, GenerateKey(d) \/ ImportKey(d, m) PROVE SoftLevels' /\ UpgradedInv'
  BY <1>2, <1>3, <1>4 DEF GenerateKey, ImportKey
<1>5. ASSUME NEW b \in held, UpgradeKey(b) PROVE SoftLevels' /\ UpgradedInv'
  <2> DEFINE u == [b EXCEPT !.sw = UpgradedLevels(b)]
  <2>1. u.hw = b.hw /\ u.sw = UpgradedLevels(b)
    BY <1>0, UpgradedBlob
  <2>2. UNCHANGED versionVars
    BY <1>5 DEF UpgradeKey
  <2>3. CASE UNCHANGED <<upgraded, held>>
    BY <1>2, <2>2, <2>3
  <2>4. CASE upgraded' = u /\ held' = held \cup {u}
    <3> HIDE DEF u
    <3>1. SoftLevels'
      BY <2>1, <2>4 DEF SoftLevels
    <3>2. Current' = Current
      BY <2>2 DEF Current, versionVars
    <3>3. \A t \in LevelTags : Current[t] = Unset \/ u.sw[t] = Current[t]
      BY <2>1 DEF UpgradedLevels
    <3>4. UpgradedInv'
      BY <2>4, <3>2, <3>3 DEF UpgradedInv
    <3> QED
      BY <3>1, <3>4
  <2> QED
    BY <1>5, <2>3, <2>4 DEF UpgradeKey
<1>6. ASSUME NEW b, DeleteKey(b) \/ SpendSingleUse(b) PROVE SoftLevels' /\ UpgradedInv'
  BY <1>2, <1>6 DEF DeleteKey, SpendSingleUse, RemoveKey, vars
<1>7. CASE DeleteAllKeys \/ EarlyBootEnded
  BY <1>2, <1>7 DEF DeleteAllKeys, EarlyBootEnded
<1>8. ASSUME NEW l, NEW k, Configure(l, k) PROVE SoftLevels' /\ UpgradedInv'
  BY <1>1, <1>8 DEF Configure
<1>9. ASSUME NEW l, SetVendorPatchlevel(l) PROVE SoftLevels' /\ UpgradedInv'
  BY <1>1, <1>2, <1>9 DEF SetVendorPatchlevel, versionVars
<1>10. ASSUME NEW l, SetBootPatchlevel(l) PROVE SoftLevels' /\ UpgradedInv'
  BY <1>1, <1>2, <1>10 DEF SetBootPatchlevel, versionVars
<1>11. CASE Restart
  BY <1>1, <1>11 DEF Restart
<1>12. CASE UNCHANGED vars
  BY <1>2, <1>12 DEF vars
<1> QED
  BY <1>4, <1>5, <1>6, <1>7, <1>8, <1>9, <1>10, <1>11, <1>12 DEF LifecycleNext

\* In a context that is not secure hardware, the blob UpgradeKey answered passes the version
\* check until the version information changes.  (In secure hardware it need not: the tags
\* are then hw_enforced, and FullUpgradeSoftKeyBlob rewrites sw_enforced only.)
THEOREM SoftUpgrade == ~SecureHardware => (LifecycleSpec => []UpgradedKeyIsCurrent)
<1> SUFFICES ASSUME ~SecureHardware PROVE LifecycleSpec => []UpgradedKeyIsCurrent
  OBVIOUS
<1>1. LifecycleInit => SoftLevels /\ UpgradedInv
  BY DEF LifecycleInit, SoftLevels, UpgradedInv
<1>2. StorageInv /\ SoftLevels /\ UpgradedInv /\ [LifecycleNext]_vars => SoftLevels' /\ UpgradedInv'
  BY UpgradedStep
<1>3. StorageInv /\ SoftLevels /\ UpgradedInv => UpgradedKeyIsCurrent
  <2> SUFFICES ASSUME StorageInv, SoftLevels, UpgradedInv, upgraded # Unset
               PROVE  CheckVersionInfo(upgraded) = "OK"
    BY DEF UpgradedKeyIsCurrent
  <2>1. VersionTypes /\ upgraded \in held
    BY DEF StorageInv, HeldTypes
  <2>2. \A t \in LevelTags : KeyLevel(upgraded, t) = upgraded.sw[t]
    BY <2>1 DEF KeyLevel, SoftLevels, NoLevels
  <2>3. \A t \in LevelTags : CheckPatchLevel(upgraded, t) = "OK"
    BY <2>1, <2>2, EqualLevelPasses DEF UpgradedInv
  <2> QED
    BY <2>3 DEF CheckVersionInfo, LevelTags
<1> QED
  BY <1>1, <1>2, <1>3, StorageInvariance, PTL DEF LifecycleSpec
=============================================================================
