\* Safety: one call at a time among all other activity.
CONSTANTS
    Handler = {h1}
    Session <- MCSession
    Report <- MCReport
    Plan <- MCPlan
    RawId <- MCRawId
    Digest <- MCDigest
    Alnum <- MCAlnum
    Subscription = {"s1", "s2"}
    Customer = {"c1", "c2"}
    Null = Null
    InitialFreeCredit = 1
    Word = 256
    UnitsPerDollar = 1
    Period = 1
    MaxNow = 2
SPECIFICATION Spec
INVARIANTS
    TypeOK
    AnswerWasRight
    CreditStaysSpent
    ExhaustedWithinADollar
PROPERTIES
    OnlyStripeEntitles
