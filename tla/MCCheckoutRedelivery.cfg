\* One delivery at a time and one fault.
CONSTANTS
    Handler = {h1}
    Session <- MCPair
    RawId <- MCRawId
    Digest <- MCDigest
    Alnum <- MCAlnum
    Subscription = {"s1", "s2"}
    Customer = {"c1", "c2"}
    Null = Null
    InitialFreeCredit = 3
    Word = 256
    MaxNow = 1
    MaxFaults = 1
    MaxRepeats = 0
SPECIFICATION Spec
CHECK_DEADLOCK FALSE
INVARIANTS
    CurrentNotInvalid
