SPECIFICATION Spec
CONSTANTS
    Atoms = {a}
    Listeners = {}
    MaxBegun = 2
    MaxWrites = 1
INVARIANTS
    ShelfExplained
CHECK_DEADLOCK FALSE
