\* Safety: deliveries side by side, faults, redelivery.
CONSTANTS
    Handler = {h1, h2}
    Session <- MCPair
    RawId <- MCRawId
    Digest <- MCDigest
    Alnum <- MCAlnum
    Subscription = {"s1", "s2"}
    Customer = {"c1", "c2"}
    Null = Null
    InitialFreeCredit = 3
    Word = 256
    MaxNow = 2
    MaxFaults = 1
    MaxRepeats = 1
SPECIFICATION Spec
SYMMETRY Symmetry
\* Customers need not buy anything, and redeliveries run out.
CHECK_DEADLOCK FALSE
INVARIANTS
    TypeOK
    AccountOfOneSession
    AckedIsFiled
    DecisionStillHolds
PROPERTIES
    SubscriptionNeverErased
