SPECIFICATION Spec
CONSTANTS
    Tasks <- OneTask
    t1 = t1
    Truncates = FALSE
    MaxUpdates = 2
    MaxEvents = 2
CHECK_DEADLOCK FALSE
INVARIANTS
    TypeOK
    KeptUntilKnown
PROPERTIES
    NoCallbackAfterAbort
    
