\* Two services, two distinct messages, a takeover or a restart, a crash
\* and failing Redis calls.
SPECIFICATION Spec
CONSTANTS
    Services = {s1, s2}
    s1 = s1
    s2 = s2
    Messages = {m1, m2}
    m1 = m1
    m2 = m2
    Copies = 1
    MaxCrashes = 1
    MaxStarts = 2
    RedisFails = TRUE
CHECK_DEADLOCK FALSE
PROPERTIES
    AtLeastOnceMailbox
    EveryMessageServed
