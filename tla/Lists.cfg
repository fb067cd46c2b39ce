SPECIFICATION FairSpec
CONSTANTS
    Lists <- AllLists
    N = 4
    Val = {1, 2}
    Static <- BuiltIn
    Modules = "modules"
    Type <- TypeOf
    jbd = 11
    Unknown = {19}
INVARIANTS WellFormed
PROPERTIES ImplementsCursor SortReturns
CHECK_DEADLOCK FALSE
