SPECIFICATION Spec
CONSTANTS
    Thread = {t1, t2}
    Model = {small, large}
    Policy = {low, high}
    DefaultModel = small
    DefaultPolicy = low
    None = None
    MaxAttempts = 2
    MaxCalls = 3
    MaxCrashes = 1
    MaxQuits = 1
CHECK_DEADLOCK FALSE
INVARIANTS OldTierIsSilent
