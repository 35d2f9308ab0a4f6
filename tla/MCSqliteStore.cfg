\* Two tasks of one process, with fairness; the clock passes a full second.
SPECIFICATION FairSpec
CONSTANTS
    a = a
    b = b
    t1 = t1
    t2 = t2
    t3 = t3
    id1 = id1
    k1 = k1
    p1 = p1
    RecordIds = {id1}
    Keys = {k1}
    Proofs = {p1}
    NoRecord = NoRecord
    Never = Never
    Base = 2
    Procs = {a}
    Tasks = {t1, t2}
    ProcOf <- MCProcOfTwo
    Calls <- MCCalls
    NoCall = NoCall
    NoTask = NoTask
    MaxTime = 5
INVARIANT TypeOK
PROPERTIES
    ImplementsBackend
    EveryCallReturns
