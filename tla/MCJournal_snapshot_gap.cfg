SPECIFICATION Spec
CONSTANTS
    Providers = {"memory"}
    Events = {1, 2}
    PersistPolicies = {"UntilSuccess"}
    RecoveryPolicies = {"UntilSuccess"}
    MaxAttempts = 1
    MaxIssued <- MCMaxIssuedShort
    MaxSnapshots = 1
    MaxStarts = 2
INVARIANT RecoversWhatWasPersisted
CHECK_DEADLOCK FALSE
