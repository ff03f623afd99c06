SPECIFICATION Spec
CONSTANTS
    Atoms = {a}
    Listeners = {}
    MaxBegun = 3
    MaxWrites = 1
INVARIANTS
    ReportWhole
CHECK_DEADLOCK FALSE
