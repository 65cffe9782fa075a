SPECIFICATION FairSpec
CONSTANTS
    s1 = s1
    s2 = s2
    Sources = {s1, s2}
    Threshold = 2
    Cooldown = 3
    MaxFaults = 5
INVARIANTS
    TypeOK
    RefusalRespected
PROPERTIES
    SourcesComeBack
