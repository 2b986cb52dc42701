\* A framework with a channel whose identifier is registered once; no database.
SPECIFICATION Spec
CONSTANTS
    Handlers = {h1, h2, h3}
    OfferLoops = {l1}
    Records = {r1}
    JobMonitor = JobMonitor
    ChannelMonitor = ChannelMonitor
    NoRecord = NoRecord
    NoOne = NoOne
    HttpFramework = FALSE
    DbActive = FALSE
    IdReuse = FALSE
\* Every message may have been handled and every loop may have ended.
CHECK_DEADLOCK FALSE
INVARIANTS
    ActiveLockDiscipline
PROPERTIES
    WaitersServed
