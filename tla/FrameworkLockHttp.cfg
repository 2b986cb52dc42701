\* An HTTP framework whose identifier is registered once; no database.
SPECIFICATION Spec
CONSTANTS
    Handlers = {h1, h2}
    OfferLoops = {l1}
    Records = {r1}
    JobMonitor = JobMonitor
    ChannelMonitor = ChannelMonitor
    NoRecord = NoRecord
    NoOne = NoOne
    HttpFramework = TRUE
    DbActive = FALSE
    IdReuse = FALSE
SYMMETRY Symmetry
INVARIANTS
    ActiveLockDiscipline
\* Every message may have been handled and every loop may have ended.
CHECK_DEADLOCK FALSE
