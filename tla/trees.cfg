SPECIFICATION TreesSpec
CONSTANTS
    Subs = {s1, s2, s3}
    PathSet <- MCPaths
    Commands <- MCCommands
    Kind <- MCKind
    CaseOf <- MCCaseOf
    NoCase = "none"
    Values <- MCValues
    Required <- MCRequired
    ReadOnly <- MCInterfaces
    Pushed <- MCInterfaces
    Order <- MCOrder
INVARIANTS
    RefcntExact
    RoutedByCover
    LinesComplete
    EditsExact
    Reloads
CHECK_DEADLOCK FALSE
