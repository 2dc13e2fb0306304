SPECIFICATION Spec
CONSTANTS
    Contexts = {c1, c2}
    Generations = {g1, g2}
    Windows = {w1, w2}
    Legacy = Legacy
    Absent = Absent
    None = None
    MaxLearned = 1
    MaxStarts = 2
    MaxCloud = 3
    Sides = {"local", "list"}
SYMMETRY Symmetry
INVARIANTS
    ServedIsActive
    ActiveIsWhole
    ListShowsOwnChanges
PROPERTY
    OnlyReviewedIsReplaced
