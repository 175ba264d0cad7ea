\* One fault between the two statements of an item, then a retry.
CONSTANTS
    Handler = {h1, h2}
    Batch <- MCBatch
    RawId <- MCRawId
    Digest <- MCDigest
    Alnum <- MCAlnum
    Subscription = {}
    Customer = {}
    Null = Null
    InitialFreeCredit = 3
    Word = 256
    MaxCalls = 2
    MaxFaults = 1
SPECIFICATION Spec
CHECK_DEADLOCK FALSE
INVARIANTS
    AckedUnitIsCharged
