SPECIFICATION FairSpec
CONSTANTS
    a = a
    b = b
    c = c
    Job = {a, b, c}
    NoJob = NoJob
    Worker = {w1, w2}
    Priority <- MCPriority
    Submission <- MCSubmission
    FrameCount = 1
    MaxResumes = 1
    MaxCrashes = 1
CHECK_DEADLOCK FALSE
INVARIANTS RecoveryOK QueueComesBack 
PROPERTIES ImplementsPool EveryJobEnds
