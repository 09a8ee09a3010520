SPECIFICATION Spec
CONSTANTS
    Pages <- AllPages
    Words = {any, word}
    NoWord = any
    Picks = {all, pick}
    NoPick = all
    LastPages <- Rows
    Operations = {o1, o2}
    MaxInputs = 2
    MaxFaults = 1
CHECK_DEADLOCK FALSE
INVARIANTS
    ListIsTrue
PROPERTIES
    CatchesUp
