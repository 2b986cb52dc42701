SPECIFICATION Spec
CONSTANTS
    MaxDelay = 2
    Drivers = 1
    MaxMessages = 1
    MaxLosses = 1
    MaxTimers = 4
CHECK_DEADLOCK FALSE
INVARIANTS
    TypeOK
    ReaderAlive
PROPERTIES
    DueFires
    ReaderServes
    DeletionCompletes
