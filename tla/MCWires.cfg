CONSTANTS
    Payloads <- EdgePayloads
    Raws <- SomeRaws
    Junk <- NoJunk
    MaxIds = 2
SPECIFICATION WriteSpec
INVARIANTS LeadIsSafe HeadsReadBack SortsWithinALength
CHECK_DEADLOCK FALSE
