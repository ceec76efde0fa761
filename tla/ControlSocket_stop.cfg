SPECIFICATION FairSpec
CONSTANTS
    Clients = {c1, c2}
    Nobody = Nobody
    Requests = {"command"}
    Kinds = {"event"}
    Backlog = 1
    MaxRaised = 2
PROPERTIES
    StopReturns
