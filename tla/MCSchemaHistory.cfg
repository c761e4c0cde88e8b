SPECIFICATION Spec
CONSTANTS
    Scripts <- Names
    KindOf <- Kinds
    VersionOf <- Numbers
    Contents = {1, 2}
    Groupings <- Grouped
    Requests <- Asked
    MaxRows = 4
    MaxEdits = 2
INVARIANTS HistoryTellsTheSchema RepairUnblocks ValidationForesees
PROPERTY UndoIsExact
CHECK_DEADLOCK FALSE
