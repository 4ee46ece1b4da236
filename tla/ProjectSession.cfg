SPECIFICATION FairSpec
CONSTANTS
    Path = {p, q}
    NoPath = NoPath
    Call = {c1, c2}
    NoCall = NoCall
    MaxRequests = 5
CHECK_DEADLOCK FALSE
INVARIANTS SessionInvariant OnTheChosenProject DirtyIsProtected CleanIsCovered
PROPERTIES ChangesAreSaved
