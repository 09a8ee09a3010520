SPECIFICATION Spec
CONSTANTS
    Staff = {s1, s2}
    Readers = {r1, r2}
    Chapters = {c1, c2}
    Changes = {opening, e1}
    Opening = opening
    Numbers = {1, 2}
    Stars = {0, 5}
    MaxCalls = 3
    MaxFaults = 1
CHECK_DEADLOCK FALSE
INVARIANTS
    WorkKept
    CountsAgree
SYMMETRY MCSymmetry
