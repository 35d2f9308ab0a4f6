--------------------------- MODULE MCVaultDaemon ---------------------------
(* A small instance of VaultDaemon for TLC. *)
EXTENDS VaultDaemon, TLC

CONSTANTS p1, p2, p3, p4, r1, r2

\* p1 is as large as a proof may be and may expire, p2 is not JSON, p4 is too large.
MCSize == p1 :> 2 @@ p2 :> 1 @@ p3 :> 2 @@ p4 :> 3

Request(auth, overhead, calls) == [auth |-> auth, overhead |-> overhead, calls |-> calls]
But(slip, method, p) == [method |-> method, proof |-> p, slip |-> slip]
Do(method, p) == But("none", method, p)

\* A retrieval, a store in the largest envelope, one that is too large, and a batch
\* with every slip whose response is exactly as large as one may be.
MCBodies ==
    {Request("7", 1, <<Do("retrieveProof", p1)>>),
     Request("7", 4, <<Do("storeProof", p3)>>),
     Request(None, 4, <<Do("storeProof", p4)>>),
     Request(None, 1, <<But("badTtl", "storeProof", p3), Do("storeProof", p4),
                        Do("discover", p1), But("malformed", "deleteProof", p1),
                        But("otherKey", "retrieveProof", p1), Do("retrieveProof", p1),
                        But("otherKey", "deleteProof", p2), Do("retrieveProof", p2)>>)}

NoLayer == <<>>
Local == [file |-> NoLayer, dotenv |-> NoLayer, env |-> NoLayer, cli |-> NoLayer]

MCSetups ==
    {\* plain HTTP to the outside behind a proxy; a token in the file, replaced by
     \* one in the environment, and an interval replaced on the command line
     [Local EXCEPT !.file = "auth_token" :> "secret" @@ "cleanup_interval_secs" :> "0",
                   !.dotenv = "auth_token" :> "",
                   !.env = "auth_token" :> "7" @@ "bind_address" :> "reachable",
                   !.cli = "insecure_no_tls" :> "true" @@ "cleanup_interval_secs" :> "300"],
     \* TLS on a reachable address, from two layers; an empty token; no background
     \* sweep
     [Local EXCEPT !.file = "tls_cert_path" :> "pem" @@ "auth_token" :> "",
                   !.cli = "tls_key_path" :> "pem" @@ "bind_address" :> "reachable"
                             @@ "cleanup_interval_secs" :> "0"],
     \* plain HTTP to the outside, asked for and taken back
     [Local EXCEPT !.file = "insecure_no_tls" :> "true" @@ "bind_address" :> "reachable",
                   !.env = "insecure_no_tls" :> "false"],
     \* a key without its certificate
     [Local EXCEPT !.dotenv = "tls_key_path" :> "pem"]}

\* A token with leading zeros, in the environment, and clients that send it as it
\* was written and as a number.
TokenSetups == {[Local EXCEPT !.env = "auth_token" :> "007"]}
TokenBodies == {Request(t, 1, <<Do("retrieveProof", p1)>>) : t \in {"007", "7"}}
=============================================================================
