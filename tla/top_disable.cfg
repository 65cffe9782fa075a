SPECIFICATION FairSpec
CONSTANTS
    n1 = n1
    n2 = n2
    n3 = n3
    Notices = {n1, n2, n3}
    N = 2
    SourceOf <- TwoSources
    MaxCount = 1
    MaxPercent = 50
    RatioFrom = 2
    MaxChanges = 1
    MaxFaults = 1
    MaxEdits = 1
INVARIANTS
    TypeOK
    LimitRespected
PROPERTIES
    AbsentTwiceOrListed
    MarksConverge
