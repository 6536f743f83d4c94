SPECIFICATION Spec
CONSTANTS
    Nodes = {n1, n2}
    Shards = {s1}
    NoNode = NoNode
    r1 = r1
    r2 = r2
    Requests = {r1, r2}
    Stops = {2, 4, 6, 8, 10, 12}
    MaxEvents = 1
    MaxLog = 2
    Prompt = TRUE
    Scenarios <- MCScenarios
INVARIANTS OneActor RoutesToOwner PendingHasWakeup
PROPERTY RequestsAreServed
CHECK_DEADLOCK FALSE
