SPECIFICATION FairSpec
CONSTANTS
    i1 = i1
    i2 = i2
    i3 = i3
    q1 = q1
    q2 = q2
    q3 = q3
    q4 = q4
    Items = {i1, i2, i3}
    Chunks = {"a", "b", "c", "d"}
    BodyOf <- FreeBodies
    Foreign = "x"
    BlockIds = {q1, q2, q3, q4}
    NoItem = NoItem
    NoBlock = NoBlock
    MaxFaults = 2
    MaxChanges = 2
    MaxEdits = 0
INVARIANTS
    TypeOK
    CommittedIsExact
    OneLiveCandidate
    CurrentBodyKeptUnlessExtended
    NoBatchTwice
PROPERTIES
    ImplementsReplacement
    Converges
