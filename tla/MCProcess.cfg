CONSTANTS
    t1 = t1
    t2 = t2
    t3 = t3
    NoThread = NoThread
    CLOCK_SIZE = 4
    WINDOWS = 8
    SALT_SIZE = 2
    UUID_TIME_INITIAL = 10
    ZeroBody = 0
    Bodies <- MCBodies
    Seeds <- MCSeeds
    ClockXor <- MCXor
    Seed <- MCSeed
    Expand <- MCExpand
    LocalSalt <- MCLocalSalt
    Node <- MCNode
    Threads <- Threads3
    Requests <- Mixed
    Mints <- AnyMint
    MintMayFail = TRUE
    MaxCalls = 3
SPECIFICATION Spec
INVARIANTS GeneratorInv MutualExclusion ClaimsOrdered OneClockSeq WiresDistinct WindowsOrdered
SYMMETRY Symmetry
