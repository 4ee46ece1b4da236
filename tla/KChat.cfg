SPECIFICATION Spec
CONSTANTS
    MaxCards = 3
    NoSnapshot = noSnapshot
    MaxQueued = 2
    MaxComments = 1
    QueryLimit = 1
    MaxMessages = 2
    MaxCallbacks = 2
    MaxFaults = 1
INVARIANTS LoopbackInvariant CommentsAreTheNewest RepostHasACause MirrorIsWhole
