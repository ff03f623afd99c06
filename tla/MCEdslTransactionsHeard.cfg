SPECIFICATION Spec
CONSTANTS
    Atoms = {a}
    Listeners = {k, l}
    MaxBegun = 2
    MaxWrites = 1
INVARIANTS
    WritesHeard
CHECK_DEADLOCK FALSE
