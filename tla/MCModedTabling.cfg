SPECIFICATION Spec
CONSTANTS
    m = m
    n = n
    g = g
    a = a
    b = b
    Calls = {m, n, g}
    Answers = {a, b}
    Programs <- MCPrograms
    MaxDepth = 5
    MaxActive = 2
    MaxKnown = 3
    MaxQueries = 2
    MaxEvictions = 1
INVARIANTS
    TypeOK
    ProducersNested
    TablesChangeNothing
    AnswersExact
PROPERTY
    QueriesEnd
CHECK_DEADLOCK FALSE
