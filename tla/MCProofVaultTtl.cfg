\* A TTL between the limits of chrono and of i64.
SPECIFICATION Spec
CONSTANTS
    r1 = r1
    r2 = r2
    r3 = r3
    id1 = id1
    id2 = id2
    k1 = k1
    k2 = k2
    p1 = p1
    Requests <- MCRequests3
    RecordIds = {id1}
    Keys = {k1}
    Proofs = {p1}
    NoRecord = NoRecord
    Never = Never
    NoClaim = NoClaim
    WrongKey = WrongKey
    Ttls <- MCTtls
    I64Max = 12
    MaxDateTime = 8
    MaxTime = 2
SYMMETRY MCRequestSymmetry
INVARIANTS
    LargeTtlRefused
