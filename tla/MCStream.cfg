CONSTANTS
    Payloads <- FewPayloads
    Raws <- SomeRaws
    Junk <- SomeJunk
    MaxIds = 2
SPECIFICATION FairSpec
INVARIANTS TypeOK ReadsWhatWasWritten StopsAtTheCut CheckerAgrees LooksUpKnown
PROPERTIES ReadingEnds
