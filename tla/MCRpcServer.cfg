\* Two proofs of the size allowed whose common response is over the response limit.
SPECIFICATION RpcSpec
CONSTANTS
    p1 = p1
    p2 = p2
    Proofs = {p1, p2}
    Size <- MCSize
    Legacy = {p1, p2}
    Raw = {}
    Requests = {r1}
    Bodies <- MCBodies
    Tokens = {"secret"}
    None = None
    MaxProofSize = 2
    Headroom = 2
    U32Max = 9
    MaxResponse = 5
    Envelope = 1
CHECK_DEADLOCK FALSE
INVARIANT
    DeletedOnSuccess
