SPECIFICATION Spec
CONSTANTS
    Atoms = {a}
    Listeners = {}
    MaxBegun = 1
    MaxWrites = 1
INVARIANTS
    AddedIsHeld
CHECK_DEADLOCK FALSE
