SPECIFICATION Spec
CONSTANTS
    e1 = e1
    e2 = e2
    r1 = r1
    r2 = r2
    r3 = r3
    Entities = {e1, e2}
    Requests = {r1, r2, r3}
    Scenarios <- MCScenarios
    MaxIncarnations = 2
    MaxStops = 1
INVARIANTS OneActorPerEntity StartedIsPersisted
PROPERTIES RecoveredEntitiesStart EntityCallsAreAnswered
CHECK_DEADLOCK FALSE
