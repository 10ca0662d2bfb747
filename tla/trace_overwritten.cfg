SPECIFICATION TraceSpec
CONSTANTS
    Threads = {t1, t2}
    Phases = {Duration, Object}
    MaxEvents = 2
PROPERTY NeverOverwrittenEmpty
