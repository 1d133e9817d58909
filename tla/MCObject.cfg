CONSTANTS
    BASE = 4
    VARIANTS = 2
    V1 = 1
    V6 = 2
    SALT_SIZE = 8
    UUID_TIME_INITIAL = 16777224
    ZeroBody = 0
    Seeds <- MCSeeds
    ClockXor <- MCXor
    Seed <- MCSeed
    Expand <- MCExpand
    LocalSalt <- MCLocalSalt
    TimeArgs <- MCTimes
    ClockArgs <- MCClocks
    NodeArgs <- MCNodes
    VariantArgs <- MCVariants
    VersionArgs <- MCVersions
    ByteArgs <- MCBytes
    CharArgs <- MCChars
    MaxWrites = 5
    EditWithin = 1
SPECIFICATION Spec
INVARIANTS TypeOK FieldsKept TextRoundTrips ValidAgrees DecodesToSent V6SortsByTime
