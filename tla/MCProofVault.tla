---------------------------- MODULE MCProofVault ----------------------------
(* Small instances of ProofVault for TLC. *)
EXTENDS ProofVault, TLC

CONSTANTS r1, r2, r3, id1, id2, k1, k2, p1

MCRequests3 == {r1, r2, r3}

\* None, zero (refused), a TTL that lapses within MaxTime, one that leaves
\* chrono's range (9 > MaxDateTime) and one that leaves i64's (20 > I64Max).
MCTtls == {Never, 0, 1, 9, 20}

\* Requests, ids and keys are interchangeable.
MCRequestSymmetry == Permutations(Requests)
MCSymmetry ==
    MCRequestSymmetry \cup Permutations(RecordIds) \cup Permutations(Keys)
=============================================================================
