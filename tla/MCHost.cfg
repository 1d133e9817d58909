CONSTANTS
    p1 = p1
    p2 = p2
    CLOCK_SIZE = 4
    WINDOWS = 8
    SALT_SIZE = 2
    UUID_TIME_INITIAL = 10
    ZeroBody = 0
    Bodies <- MCBodies
    Seeds <- MCSeeds
    ClockXor <- MCXor
    Seed <- MCSeed
    Expand <- MCExpand
    LocalSalt <- MCLocalSalt
    Node <- MCNode
    Processes <- MCProcesses
    Requests <- MCRequests
    Mints <- MCMints
    MayStepBack = TRUE
    MaxCalls = 4
    MaxRestarts = 1
SPECIFICATION Spec
INVARIANTS HostInv DuplicatesNeed NeverFarAhead
SYMMETRY Symmetry
CHECK_DEADLOCK FALSE
