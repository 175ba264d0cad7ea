\* Two spending calls and a delivery side by side, one fault and one
\* redelivery after an acknowledgement; a cancellation may be scheduled,
\* withdrawn or carried out.  No symmetry, for the liveness.
CONSTANTS
    Spender = {p1, p2}
    Deliverer = {w1}
    Batch <- MCBatch
    Session <- MCSession
    RawId <- MCRawId
    Digest <- MCDigest
    Alnum <- MCAlnum
    Subscription = {"s1"}
    Customer = {"c1"}
    Null = Null
    \* Does not fit the 8-bit word: the credit opens at -1.
    InitialFreeCredit = 255
    Word = 256
    MaxCalls = 2
    MaxNow = 2
    MaxRepeats = 1
    MaxFaults = 1
SPECIFICATION FairSpec
\* Clients need not send anything, customers need not buy.
CHECK_DEADLOCK FALSE
INVARIANTS
    SpendingHolds
    HookHolds
PROPERTIES
    CallReturns
    EventuallyAcked
