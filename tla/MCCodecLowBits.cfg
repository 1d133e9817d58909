CONSTANTS
    CLOCK_SIZE = 4
    WINDOWS = 8
    SALT_SIZE = 2
    UUID_TIME_INITIAL = 10
    ZeroBody = 0
    Bodies <- MCBodies
    Seeds <- MCSeeds
    ClockXor <- MCXor
    Seed <- MCSeed
    Expand <- MCExpand
    LocalSalt <- MCLocalSalt
SPECIFICATION Spec
INVARIANTS LowBitsCleared
CHECK_DEADLOCK FALSE
