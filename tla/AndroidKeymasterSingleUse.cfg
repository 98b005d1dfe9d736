SPECIFICATION Spec
CONSTANTS
    k1 = k1
    k2 = k2
    k3 = k3
    k4 = k4
    Keys = {k1, k2, k3, k4}
    KeyAuths <- MCKeyAuths
    Purposes = {"SIGN", "VERIFY"}
    Sids = {1}
    Handles = {h1, h2, h3}
    UINT32_MAX = 100
    MaxAccessTimeMapSize = 1
    MaxAccessCountMapSize = 1
    Ticks = {1}
    StartTimes = {1}
    MaxTime = 1
    MaxTokens = 0
    NoToken = NoToken
    NoGrant = NoGrant
    StoredKeys = {k1, k2}
    SingleUseKeys = {k1}
    ConfirmedKeys = {k3}
    OperationTableSize = 2
    MaxMessage = 1
    InputSizes = {1}
    ConfirmationAnswers = {"OK", "NO_USER_CONFIRMATION"}
    NoFinish = NoFinish
CONSTRAINT Quiet
INVARIANT SingleUseKeyUsedOnce
