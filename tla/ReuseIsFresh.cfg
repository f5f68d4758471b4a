\* The websocket keeps one side alive; the other one grows old unnoticed.
SPECIFICATION Spec
CONSTANTS
    s1 = s1
    s2 = s2
    Sources = {s1, s2}
    FreshFor = 2
    Cycles = 2
    Chunks = 1
    CursorModulus = 2
PROPERTIES
    ReuseIsFresh
