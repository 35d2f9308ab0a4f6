---------------------------- MODULE MCRpcServer ----------------------------
(* A small instance of RpcServer for TLC: one batch of two retrievals. *)
EXTENDS RpcServer

CONSTANTS p1, p2

MCSize == [p \in {p1, p2} |-> 2]

Do(method, p) == [method |-> method, proof |-> p, slip |-> "none"]

MCBodies == {[auth |-> None, overhead |-> 1,
              calls |-> <<Do("retrieveProof", p1), Do("retrieveProof", p2)>>]}
=============================================================================
