\* One delivery at a time, safety and liveness.
CONSTANTS
    Handler = {h1}
    Session <- MCSession
    RawId <- MCRawId
    Digest <- MCDigest
    Alnum <- MCAlnum
    Subscription = {"s1", "s2"}
    Customer = {"c1", "c2"}
    Null = Null
    InitialFreeCredit = 3
    Word = 256
    MaxNow = 2
    MaxFaults = 2
    MaxRepeats = 1
SPECIFICATION FairSpec
\* Customers need not buy anything, and redeliveries run out.
CHECK_DEADLOCK FALSE
INVARIANTS
    OnFileUnlessWithdrawn
PROPERTIES
    ReplacedOnlyAfterEnd
    EventuallyAcked
