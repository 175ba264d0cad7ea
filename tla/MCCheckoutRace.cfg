\* Two deliveries side by side, no fault.
CONSTANTS
    Handler = {h1, h2}
    Session <- MCPair
    RawId <- MCRawId
    Digest <- MCDigest
    Alnum <- MCAlnum
    Subscription = {"s1", "s2"}
    Customer = {"c1", "c2"}
    Null = Null
    InitialFreeCredit = 3
    Word = 256
    MaxNow = 1
    MaxFaults = 0
    MaxRepeats = 0
SPECIFICATION Spec
CHECK_DEADLOCK FALSE
INVARIANTS
    LiveSubscriptionOnFile
