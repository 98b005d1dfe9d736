SPECIFICATION FairDeviceSpec
CONSTANTS
    k1 = k1
    k2 = k2
    Keys = {k1, k2}
    KeyAuths <- DeviceKeys
    Purposes = {"SIGN"}
    Sids = {1}
    Handles = {h1, h2}
    UINT32_MAX = 100
    MaxAccessTimeMapSize = 1
    MaxAccessCountMapSize = 1
    Ticks = {1}
    StartTimes = {1}
    MaxTime = 1
    MaxTokens = 1
    NoToken = NoToken
    NoGrant = NoGrant
    StoredKeys = {k2}
    SingleUseKeys = {k2}
    ConfirmedKeys = {k2}
    OperationTableSize = 1
    MaxMessage = 1
    InputSizes = {1}
    ConfirmationAnswers = {"UNIMPLEMENTED"}
    NoFinish = NoFinish
    Clients = {c1, c2}
    NoObject = NoObject
CONSTRAINT Quiet
INVARIANTS
    NoOrphanOperations
PROPERTIES
    TableDrains
