\* The master refreshes in time.
SPECIFICATION Spec
CONSTANTS
    Services = {s1, s2}
    s1 = s1
    s2 = s2
    NoOne = NoOne
    TTL = 3
    MaxGap = 2
INVARIANTS
    AtMostOneServing
PROPERTIES
    KeyReleasedByHolder
    StandbyTakesOver
    ShutdownCompletes
CHECK_DEADLOCK FALSE
