SPECIFICATION Spec
CONSTANTS
    Jobs <- OneJob
    Tasks <- TwoTasks
    j1 = j1
    j2 = j2
    t1 = t1
    t2 = t2
    t3 = t3
    Placeholder = Placeholder
    NoJob = NoJob
    Capacity = 1
    MaxTasks = 2
    MaxRejected = 1
    SendTaskLost = FALSE
    Undefined = TRUE
    FinalStates <- Finishes
    MaxRevives = 0
    MaxRestarts = 1
SYMMETRY TaskSymmetry
CHECK_DEADLOCK FALSE
INVARIANTS
    RunOnce
PROPERTIES
    NoRunAfterEnd
