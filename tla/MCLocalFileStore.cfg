\* Two processes on an existing vault file, with fairness.
SPECIFICATION FairSpec
CONSTANTS
    a = a
    b = b
    t1 = t1
    t2 = t2
    t3 = t3
    id1 = id1
    id2 = id2
    k1 = k1
    p1 = p1
    RecordIds = {id1}
    Keys = {k1}
    Proofs = {p1}
    NoRecord = NoRecord
    Never = Never
    Procs = {a, b}
    Tasks = {t1, t2, t3}
    ProcOf <- MCProcOf
    Calls <- MCFewCalls
    NoCall = NoCall
    NoTask = NoTask
    Missing = Missing
    FileExists = TRUE
    MaxTime = 0
INVARIANTS
    TypeOK
    WriteIsCurrent
PROPERTIES
    ImplementsBackend
    EveryCallReturns
    EveryClosureEnds
