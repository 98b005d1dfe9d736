SPECIFICATION MCSpec
CONSTANTS
    Contexts = {"secure"}
    SecureHardware = TRUE
    MaxSlots = 2
    MaxLevel = 1
    StorageLevel = 1
    Materials = {}
    KeyDescriptions <- PlainOnly
    MaxGenerated = 1
    Unset = Unset
    MaxHeld = 2
CONSTRAINT FewBlobs
INVARIANT UpgradedKeyIsCurrent
