SPECIFICATION TimedSpec
CONSTANTS
    k1 = k1
    k2 = k2
    k3 = k3
    k4 = k4
    k5 = k5
    k6 = k6
    k7 = k7
    k8 = k8
    Keys = {k1, k2, k3, k4, k5, k6, k7, k8}
    KeyAuths <- MCKeyAuths
    Purposes = {"SIGN", "ENCRYPT", "ATTEST_KEY"}
    Sids = {1}
    Handles = {}
    UINT32_MAX = 100
    MaxAccessTimeMapSize = 2
    MaxAccessCountMapSize = 1
    Ticks = {600, 1000}
    StartTimes = {1, 1000}
    MaxTime = 4000
    LockingTime = 1000
    MaxTokens = 2
    NoToken = NoToken
    NoGrant = NoGrant
INVARIANTS
    
    UsesWithinLimit
    LockedKeysNeedFreshToken
PROPERTIES
    EntriesTimeOut
CONSTRAINT OneThing
