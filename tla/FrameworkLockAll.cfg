\* An HTTP framework, a database, and an identifier that is used again.
SPECIFICATION Spec
CONSTANTS
    Handlers = {h1, h2, h3, h4}
    OfferLoops = {l1, l2}
    Records = {r1, r2}
    JobMonitor = JobMonitor
    ChannelMonitor = ChannelMonitor
    NoRecord = NoRecord
    NoOne = NoOne
    HttpFramework = TRUE
    DbActive = TRUE
    IdReuse = TRUE
SYMMETRY Symmetry
\* Every message may have been handled and every loop may have ended.
CHECK_DEADLOCK FALSE
INVARIANTS
    MutualExclusion
