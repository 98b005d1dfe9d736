SPECIFICATION DevicesSpec
CONSTANTS
    NONE = NONE
    Descriptions <- AllDescriptions
    LegacyKeys <- SoftwareKeys
    HwDigests <- NoneAndSha256
    HwHandles = {1}
    TableHandles = {1}
    FailedQuery = 2
    MaxKeys = 1
    MaxChunks = 1
CONSTRAINT UnusableAlone
INVARIANTS
    
    OperationsComputeWhole
    
    ImportsWhatWasWrapped
PROPERTIES
    FinishEnds
