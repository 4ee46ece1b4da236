SPECIFICATION Spec
CONSTANTS
    MaxCards = 1
    NoSnapshot = noSnapshot
    MaxQueued = 1
    MaxComments = 2
    QueryLimit = 1
    MaxMessages = 2
    MaxCallbacks = 2
    MaxFaults = 1
INVARIANTS ReplayDoesNotRepost
