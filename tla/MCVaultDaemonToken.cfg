\* A token set as 007 in the environment.
SPECIFICATION Spec
CONSTANTS
    p1 = p1
    p2 = p2
    p3 = p3
    p4 = p4
    r1 = r1
    r2 = r2
    Proofs = {p1, p2, p3, p4}
    Size <- MCSize
    Legacy = {p1, p2}
    Raw = {p2}
    Requests = {r1}
    Bodies <- TokenBodies
    Tokens = {"007", "7"}
    None = None
    MaxProofSize = 2
    Headroom = 4
    U32Max = 9
    MaxResponse = 10
    Envelope = 1
    Setups <- TokenSetups
    Interval = 1
    Perishable = {p1}
INVARIANT
    AuthAsConfigured
