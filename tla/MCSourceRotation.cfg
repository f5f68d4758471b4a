\* Two sources, two ticks in an iteration, two seconds of sleep.
SPECIFICATION FairSpec
CONSTANTS
    s1 = s1
    s2 = s2
    Sources = {s1, s2}
    FreshFor = 2
    Cycles = 2
    Chunks = 2
    CursorModulus = 2
INVARIANTS
    TypeOK
    TimestampIsNewest
    TickIsComplete
    ScanSkipsNobody
PROPERTIES
    OnlyMissingDropped
    EverySourceVisited
