SPECIFICATION Spec
CONSTANTS
    Tasks <- TwoTasks
    Malformed <- SecondMalformed
    Accepts <- SomeAccepts
    t1 = t1
    t2 = t2
    Unasked <- SomeUnasked
    KnownId = FALSE
    MaxCalls = 3
    MaxVolunteer = 2
    MaxLosses = 1
    MaxUnread = 1
INVARIANTS
    TypeOK
    
CHECK_DEADLOCK FALSE
PROPERTIES
    
    
    JoinReturns
