SPECIFICATION FairDaemonSpec
CONSTANTS
    Clients = {ts, daemon}
    Daemon = daemon
    Nobody = Nobody
    Requests = {}
    Kinds = {"message", "other"}
    HookKinds = {"message"}
    Backlog = 0
    MaxRaised = 2
    MaxStarts = 2
INVARIANTS
    InboxInOrder
    InboxComplete
    HooksAfterJournal
PROPERTIES
    ImplementsDelivery
    EveryoneAnswered
    StopEnds
    MessagesMove
CHECK_DEADLOCK FALSE
