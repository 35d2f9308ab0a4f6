-------------------------- MODULE MCLocalFileStore --------------------------
(* Small instances of LocalFileStore for TLC. *)
EXTENDS LocalFileStore, TLC

CONSTANTS a, b, t1, t2, t3, id1, id2, k1, p1

MCProcOf == t1 :> a @@ t2 :> a @@ t3 :> b
MCProcOfTwo == t1 :> a @@ t2 :> a

Lasting == [encrypted |-> [key |-> k1, proof |-> p1], expires_at |-> Never]
Fading == [encrypted |-> [key |-> k1, proof |-> p1], expires_at |-> 1]

\* Calls that meet on one record, and an insert beside it.
MCCalls ==
    {[kind |-> "insert", id |-> id1, rec |-> Fading],
     [kind |-> "insert", id |-> id2, rec |-> Lasting],
     [kind |-> "fetch", id |-> id1, rec |-> NoRecord],
     [kind |-> "delete", id |-> id1, rec |-> NoRecord],
     [kind |-> "delete_expired", id |-> id1, rec |-> NoRecord]}

\* For three tasks: one writer, one reader, one conditional writer.
MCFewCalls ==
    {[kind |-> "insert", id |-> id1, rec |-> Lasting],
     [kind |-> "fetch", id |-> id1, rec |-> NoRecord],
     [kind |-> "delete", id |-> id1, rec |-> NoRecord]}
=============================================================================
