SPECIFICATION DataSpec
CONSTANTS
    Base = 4
    Size32 = 2
    Size64 = 3
    Bytes = {1, 2}
    MaxSize = 3
    NONE = NONE
    k1 = k1
    k2 = k2
    k3 = k3
    k4 = k4
    Keys = {k1, k2, k3, k4}
    KeyAuths <- ListAuths
    Purposes = {"SIGN"}
    Sids = {1}
    Handles = {}
    NO_TIMEOUT = 100
    MaxAccessTimeMapSize = 2
    MaxAccessCountMapSize = 1
    Ticks = {400, 1000}
    StartTimes = {1}
    MaxTime = 4000
    MaxTokens = 0
    NoToken = NoToken
    NoGrant = NoGrant
INVARIANTS
    
    BufferIsQueue
PROPERTIES
    WireRoundTrip
    
    ListsImplementTables
