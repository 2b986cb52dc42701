SPECIFICATION Spec
CONSTANTS
    Jobs <- OneJob
    Tasks <- ThreeTasks
    j1 = j1
    j2 = j2
    t1 = t1
    t2 = t2
    t3 = t3
    Placeholder = Placeholder
    NoJob = NoJob
    Capacity = 1
    MaxTasks = 2
    MaxRejected = 0
    SendTaskLost = TRUE
    Undefined = TRUE
    FinalStates <- Finishes
    MaxRevives = 1
    MaxRestarts = 0
CHECK_DEADLOCK FALSE
INVARIANTS
    TasksAccounted
    NoOvercommit
PROPERTIES
    EndIsFinal
    JobEndFollowedUp
