SPECIFICATION KeysSpec
CONSTANTS
    Requests <- MCRequests
    ImeiLength = 3
    RotationPeriod = 10
    MaxChallenge = 2
    NONE = NONE
    Makes <- MCMakes
    Lists = {list1, list2}
    HiddenSets = {"hidden1", "hidden2"}
    Slots = {1}
    MaxBlobs = 2
    MaxSecrets = 3
SYMMETRY ListSymmetry
INVARIANTS
    
    UniqueIdRotates
    MadeKeysAreUsable
    BlobsReadAsMade
    DeletedStaysDeleted
