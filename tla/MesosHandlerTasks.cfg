SPECIFICATION Spec
CONSTANTS
    Jobs <- TwoJobs
    Tasks <- TwoTasks
    j1 = j1
    j2 = j2
    t1 = t1
    t2 = t2
    t3 = t3
    Placeholder = Placeholder
    NoJob = NoJob
    Capacity = 2
    MaxTasks = 2
    MaxRejected = 0
    SendTaskLost = FALSE
    Undefined = TRUE
    FinalStates <- Finishes
    MaxRevives = 0
    MaxRestarts = 0
SYMMETRY JobAndTaskSymmetry
CHECK_DEADLOCK FALSE
INVARIANTS
    TypeOK
    TasksAccounted
    KillReaches
    RunsInOnePlace
