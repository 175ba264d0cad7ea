\* Both programs, every kind of environment and request, one fault.
CONSTANTS
    Environment <- MCEnvironment
    Handler = {h1, h2}
    Request <- MCRequest
    MaxFaults = 1
SPECIFICATION FairSpec
INVARIANTS
    TypeOK
    NilServiceNeverCalled
    ServingMeansReady
    AckedIsHandled
PROPERTIES
    StartupEnds
    EventuallyHandled
