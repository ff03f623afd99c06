SPECIFICATION Spec
CONSTANTS
    f = f
    n = n
    one = one
    onef = onef
    op = op
    h1 = h1
    h2 = h2
    Handles = {h1, h2}
    Heads <- MCHeads
    Leaves = {one, onef, op}
    Operations = {op}
    ValueOf <- MCValues
    Batches <- MCBatches
    Patterns <- MCPatterns
    Importable = {n}
    MaxChanges = 3
INVARIANT
    StoresAgree
CHECK_DEADLOCK FALSE
