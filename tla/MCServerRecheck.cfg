\* Claim: RPCs re-check, so a failure at start-up heals.
CONSTANTS
    Environment <- MCRouter
    Handler = {h1}
    Request <- MCHttpEvent
    MaxFaults = 0
SPECIFICATION FairSpec
PROPERTIES
    RPCsReCheck
