SPECIFICATION MCSpec
CONSTANTS
    Contexts = {"secure", "soft"}
    SecureHardware = TRUE
    MaxSlots = 2
    MaxLevel = 1
    StorageLevel = 0
    Materials = {m1}
    KeyDescriptions <- StoredKinds
    MaxGenerated = 2
    Unset = Unset
    MaxHeld = 3
CONSTRAINT FewLevels
INVARIANTS
    StorageFollowsKeys
    FreshKeysLoad
    UpgradedKeyIsCurrent
