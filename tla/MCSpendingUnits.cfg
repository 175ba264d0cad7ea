\* Safety: three handlers, four calls, two faults.
CONSTANTS
    Handler = {h1, h2, h3}
    Batch <- MCBatch
    RawId <- MCRawId
    Digest <- MCDigest
    Alnum <- MCAlnum
    Subscription = {}
    Customer = {}
    Null = Null
    InitialFreeCredit = 3
    Word = 256
    MaxCalls = 4
    MaxFaults = 2
SPECIFICATION Spec
SYMMETRY Symmetry
\* Clients need not send anything, and the calls run out.
CHECK_DEADLOCK FALSE
INVARIANTS
    TypeOK
    CallInv
    ChargedAtMostOnce
    CreditRowBeforeUnit
    CreditMatchesCharges
    LossBoundedByFaults
    AckedIsRecorded
    ReportedOnce
    RefusedLeavesNoTrace
PROPERTIES
    CreditNeverRefilled
    LedgerSpec
