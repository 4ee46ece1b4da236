SPECIFICATION Spec
CONSTANTS
    Thread = {t1, t2}
    Diff = {d1, d2}
    NoDiff = NoDiff
    EOL = EOL
    Torn = Torn
    Fault = {}
    MaxCalls = 2
    MaxCrashes = 0
CHECK_DEADLOCK FALSE
INVARIANTS LogOpens
