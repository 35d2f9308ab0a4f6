--------------------------- MODULE MCSqliteStore ---------------------------
(* Small instances of SqliteStore for TLC. *)
EXTENDS SqliteStore, TLC

CONSTANTS a, b, t1, t2, t3, id1, k1, p1

MCProcOf == t1 :> a @@ t2 :> a @@ t3 :> b
MCProcOfTwo == t1 :> a @@ t2 :> a

Expiring(e) == [encrypted |-> [key |-> k1, proof |-> p1], expires_at |-> e]
Insert(id, e) == [kind |-> "insert", id |-> id, rec |-> Expiring(e)]
Other(kind) == [kind |-> kind, id |-> id1, rec |-> NoRecord]

\* Expiries on the second and with one digit after it; the clock reads both,
\* and instants with two digits.
MCCalls ==
    {Insert(id1, e) : e \in {Never, 2, 4}}
        \cup {Other("fetch"), Other("delete"), Other("delete_expired")}

\* One expiry a little ahead, one in the year 10000.
MCFarCalls ==
    {Insert(id1, 2), Insert(id1, Year10000), Other("delete_expired")}
=============================================================================
