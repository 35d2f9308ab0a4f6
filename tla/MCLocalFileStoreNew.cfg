\* One process that creates the vault file.
SPECIFICATION Spec
CONSTANTS
    a = a
    b = b
    t1 = t1
    t2 = t2
    t3 = t3
    id1 = id1
    id2 = id2
    k1 = k1
    p1 = p1
    RecordIds = {id1, id2}
    Keys = {k1}
    Proofs = {p1}
    NoRecord = NoRecord
    Never = Never
    Procs = {a}
    Tasks = {t1, t2}
    ProcOf <- MCProcOfTwo
    Calls <- MCCalls
    NoCall = NoCall
    NoTask = NoTask
    Missing = Missing
    FileExists = FALSE
    MaxTime = 1
INVARIANTS
    WriteIsCurrent
PROPERTIES
    ImplementsBackend
