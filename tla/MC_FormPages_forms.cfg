SPECIFICATION FormFairSpec
CONSTANTS
    Pages <- AllPages
    Rows = {r1, r2}
    NoRow = NoRow
    Changes = {e1, e2}
    MaxOperations = 2
    MaxFailures = 2
CHECK_DEADLOCK FALSE
INVARIANTS
    ShownIsStored
    StoredOnce
PROPERTIES
    TypedIsKept
    ButtonsComeBack
