SPECIFICATION SharingSpec
CONSTANTS
    Parties = {p1, p2}
    Challenges = {7}
    AES_BLOCK_SIZE = 2
    SHA256_DIGEST_LENGTH = 3
    MaxList = 2
    MaxBoots = 2
    MaxTime = 2
    MaxTokens = 1
    NONE = NONE
    BROKEN = BROKEN
    Versions = {0, 2, 3}
    Damages = {"none", "formed", "algorithm", "curve", "mode", "tag"}
    Chains = {"two", "three", "other_root", "broken_link", "no_kid", "no_eek", "garbage"}
    ChallengeSizes = {64, 65}
    PatchLevels = {1, 2}
    BootInfos <- MCBootInfos
    Faults = {"none", "mac_key", "session_key", "GenerateKey"}
    MaxKeys = 2
    MaxListed = 2
    MaxStarts = 2
    UNSET = UNSET
SYMMETRY Symmetry
INVARIANTS
    SharedKeyFollowsTheList
    
    
    OwnKeysOnly
