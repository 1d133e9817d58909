CONSTANTS
    WORD_BITS = 8
    STATE_SIZE = 7
    SHIFT_SIZE = 4
    F = 109
    INIT_SHIFT = 6
    TWIST = 155
    U = 3
    S = 2
    B = 156
    T = 4
    C = 224
    L = 5
    NoSeed = NoSeed
    Threads <- MCThreads
    Asked <- MCAsked
    Slots <- MCSlots
    SlotOf <- MCSlotOf
    Nodes <- MCNodes
    ZeroNode <- MCZero
    Compute <- expand_mt_compute
    BitXor <- MCXor
    BitAnd <- MCAnd
SPECIFICATION Spec
INVARIANTS CacheInv HitIsExact RepeatIsFree ReturnsDraw
