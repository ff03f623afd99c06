SPECIFICATION Spec
CONSTANTS
    Atoms = {a}
    Listeners = {l}
    MaxBegun = 2
    MaxWrites = 1
INVARIANTS
    StopIsFinal
CHECK_DEADLOCK FALSE
