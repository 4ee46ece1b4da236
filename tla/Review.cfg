SPECIFICATION MCSpec
CONSTANTS
    Thread = {t1, t2}
    Diff = {d1, d2}
    NoDiff = NoDiff
    EOL = EOL
    Torn = Torn
    Fault = {"open", "line", "newline", "record"}
    MaxCalls = 4
    MaxCrashes = 1
CHECK_DEADLOCK FALSE
INVARIANTS ReviewInvariant AppliedAtMostOnce AnswersAreTrue UndisturbedLogIsWhole
PROPERTIES ImplementsLifecycle
