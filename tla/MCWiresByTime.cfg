CONSTANTS
    Payloads <- EdgePayloads
    Raws <- SomeRaws
    Junk <- NoJunk
    MaxIds = 2
SPECIFICATION WriteSpec
INVARIANTS SortsByTime
CHECK_DEADLOCK FALSE
