SPECIFICATION HistorySpec
CONSTANTS
    e1 = e1
    e2 = e2
    b1 = b1
    b2 = b2
    Entity = {e1, e2}
    Host = {}
    Kind <- MCKind
    Body = {b1, b2}
    NoParent = NoParent
    Absent = Absent
    Scope <- MCScope
    Command <- FlatCommands
    Batch <- FlatBatches
    Capacity = 2
    MaxCommands = 4
    MaxReopens = 2
INVARIANTS LockStep JournalExplainsDisk StacksDrain JournalMatchesDisk
PROPERTIES ImplementsTimeline
