SPECIFICATION Spec
CONSTANTS
    Atoms = {a, b}
    Listeners = {l}
    MaxBegun = 3
    MaxWrites = 2
INVARIANTS
    RecordingConsistent
    ReportExact
    ListenersKept
    RestoredExactly
CHECK_DEADLOCK FALSE
