SPECIFICATION FairSpec
CONSTANTS
    e1 = e1
    e2 = e2
    b1 = b1
    b2 = b2
    Entity = {e1, e2}
    Host = {e1}
    Kind <- MCKind
    Body = {b1, b2}
    NoParent = NoParent
    Absent = Absent
    Scope <- MCScope
    Command <- HostedCommands
    Batch <- HostedBatches
    Capacity = 0
    MaxCommands = 4
    MaxReopens = 2
INVARIANTS EngineInvariant MirrorNeverPanics
PROPERTIES CallsReturn
