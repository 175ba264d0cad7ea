\* Four binaries, one or two slots, no symmetry for the liveness.
CONSTANTS
    Binary = {b1, b2, b3, b4}
    NoBinary = NoBinary
    PkgParallel <- MCPkgParallel
SPECIFICATION FairSpec
\* The command ends.
CHECK_DEADLOCK FALSE
INVARIANTS
    TypeOK
    AtMostParallel
    IntegrationAlone
    VerdictIsTrue
PROPERTIES
    RunnerReturns
