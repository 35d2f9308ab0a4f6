\* An expiry past the year 9999.
SPECIFICATION Spec
CONSTANTS
    a = a
    b = b
    t1 = t1
    t2 = t2
    t3 = t3
    id1 = id1
    k1 = k1
    p1 = p1
    RecordIds = {id1}
    Keys = {k1}
    Proofs = {p1}
    NoRecord = NoRecord
    Never = Never
    Base = 2
    Procs = {a, b}
    Tasks = {t1, t2, t3}
    ProcOf <- MCProcOf
    Calls <- MCFarCalls
    NoCall = NoCall
    NoTask = NoTask
    MaxTime = 3
INVARIANT KeptUntilExpiry
