SPECIFICATION Spec
CONSTANTS
    a1 = a1
    a2 = a2
    c = c
    r1 = r1
    r2 = r2
    r3 = r3
    NoActor = NoActor
    Scheduler = Scheduler
    Actors = {a1, a2, c}
    Ids = {"a", "c"}
    IdOf <- MCIdOf
    Parent <- MCParent
    Requests = {r1, r2, r3}
    To <- MCTo
    Kind <- MCKind
    SelfStops = {r1}
    Panics = {r1}
    StartFails = {a2, c}
    Watches <- MCWatches
    Scenarios <- MCScenarios
INVARIANTS StopIsFinal
PROPERTIES NoOrphans WatchersAreTold ShutdownEnds CallsAreAnswered
CHECK_DEADLOCK FALSE
