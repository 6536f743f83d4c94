SPECIFICATION Spec
CONSTANTS
    Providers = {"memory", "redis"}
    Events = {1, 2}
    PersistPolicies = {"UntilSuccess", "MaxAttempts", "ReturnErr", "StopActor"}
    RecoveryPolicies = {"UntilSuccess", "MaxAttempts", "StopActor"}
    MaxAttempts = 2
    MaxIssued <- MCMaxIssued
    MaxSnapshots = 2
    MaxStarts = 3
INVARIANTS RecoveryLosesAtMostOne NoSnapshotNoLoss NoDoubleApply
PROPERTY ClearKeepsRecoverable
CHECK_DEADLOCK FALSE
