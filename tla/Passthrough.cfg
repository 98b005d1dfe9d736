SPECIFICATION PassthroughSpec
CONSTANTS
    NONE = NONE
    HwDigests <- MCDigests
    FullDigests = {"SHA256", "SHA512"}
    FailedQueries = {0, 5}
    Descriptions <- KeyDescriptions
    HwSlots = 1
    TableSize = 1
    MaxVersion = 2
    MaxInput = 0
CONSTRAINT FewFactories
INVARIANTS
    PassthroughKeysAreUsable
    
