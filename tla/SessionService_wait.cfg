SPECIFICATION FairSessionSpec
CONSTANTS
    Clients = {ts}
    Commands = {ts}
    Nobody = Nobody
    Requests = {"connect", "disconnect", "connection_state"}
    Tasks = {"connect","disconnect","watch"}
    Kinds = {"progress", "failure", "message"}
    Backlog = 1
    MaxRaised = 1
    MaxOther = 1
    MaxRuns = 1
    WatchCount = 2
INVARIANTS
    LifecycleIsFresh
PROPERTIES
    CommandEnds
CHECK_DEADLOCK FALSE
