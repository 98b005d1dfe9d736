\* The block ciphers end with their operation.
SPECIFICATION OperationsSpec
CONSTANTS
    BlockSize = 2
    GCM_NONCE_SIZE = 3
    kMinGcmTagLength = 8
    kMaxGcmTagLength = 24
    MaxAad = 5
    MaxData = 4
    None = None
    Keys <- CipherKeys
    BeginParams <- CipherParams
    Messages <- Plaintexts
    KeyLen = 5
    Modulus = 27
    OrderLen = 3
    kPssOverhead = 2
    kPkcs1UndigestedSignaturePaddingOverhead = 2
    MAX_ED25519_MSG_SIZE = 6
    kMinHmacLength = 1
    NONE = NONE
    Base = 4
    Size32 = 2
    Size64 = 3
    kMaxChainEntryCount = 2
    kMaxSharingParams = 2
    NonceSize = 2
    KmVersions = {"KEYMASTER_1_1", "KEYMINT_3"}
INVARIANTS
    CipherMatchesOneShot
    DecryptInvertsEncrypt
    
    InverseOperationsAgree
    StartedIsAllowed
    ReceivedOrRefused
    SkewIsSafe
CHECK_DEADLOCK FALSE
