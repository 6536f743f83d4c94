SPECIFICATION Spec
CONSTANTS
    r1 = r1
    r2 = r2
    Requests = {r1, r2}
    Scenarios <- MCScenarios
    MaxAttempts = 2
    MaxTries = 2
    MaxBreaks = 2
INVARIANTS MessagesKeepTheirOrder HandledOnce
 
CHECK_DEADLOCK FALSE
