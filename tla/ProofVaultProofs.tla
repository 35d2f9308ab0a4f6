-------------------------- MODULE ProofVaultProofs --------------------------
(***************************************************************************)
(* Proofs about ProofVault for any number of requests, ids, keys, proofs   *)
(* and TTLs.  The inductive invariant follows a record through its life:   *)
(* before its insert nobody has seen it (Unborn), while it is stored it is *)
(* the one its store_proof built (Kept, Fetched), and once a request was   *)
(* told Ok it is gone and cannot come back (Gone, Forgotten).              *)
(***************************************************************************)
EXTENDS ProofVault, TLAPS

Reading == {"fetch", "check", "purge", "delete"}
Claimers == {"retrieve", "delete"}

\* Which method is at which stage, and what it holds there.
Stagewise ==
    \A r \in Requests :
        /\ pc[r] = "idle" =>
            op[r] = "none" /\ claim[r] = NoClaim /\ stored[r] = NoRecord
                /\ result[r] = "none" /\ before[r] = {}
        /\ pc[r] = "insert" => op[r] = "store" /\ claim[r] # NoClaim
        /\ pc[r] \in Reading => op[r] \in Claimers /\ claim[r] # NoClaim
        /\ pc[r] = "sweep" => op[r] = "cleanup"
        /\ pc[r] = "detached" =>
            /\ op[r] \in Methods
            /\ op[r] # "cleanup" => claim[r] # NoClaim
        /\ pc[r] = "fetch" => stored[r] = NoRecord
        /\ pc[r] \in {"check", "purge", "delete"} => stored[r] # NoRecord
        /\ op[r] = "store" /\ claim[r] # NoClaim => stored[r] # NoRecord
        /\ result[r] # "none" => pc[r] \in {"returned", "lost"}

\* No two store_proof calls share an id.
UniqueIds ==
    \A r, s \in Minters : SameRecord(r, s) => r = s

\* Until a record is inserted it is not stored and nobody has fetched it.
Unborn ==
    \A s \in Minters : pc[s] \in {"insert", "detached"} =>
        /\ records[claim[s].record_id] = NoRecord
        /\ \A r \in Requests : Claiming(r) /\ SameRecord(r, s) => stored[r] = NoRecord

\* What is stored was built by a store_proof ...
Kept ==
    \A id \in RecordIds : records[id] # NoRecord =>
        \E s \in Minters : claim[s].record_id = id /\ stored[s] = records[id]

\* ... and so was what a request has fetched.
Fetched ==
    \A r \in Requests : Claiming(r) /\ stored[r] # NoRecord =>
        \E s \in Minters : SameRecord(s, r) /\ stored[s] = stored[r]

\* A request that returned Ok had fetched the record, and it is gone.
Gone ==
    \A r \in Requests : Consumed(r) =>
        stored[r] # NoRecord /\ records[claim[r].record_id] = NoRecord

\* Whoever begins after that never fetches it.
Forgotten ==
    \A r, q \in Requests : r \in before[q] =>
        /\ pc[r] = "returned"
        /\ Consumed(r) /\ Claiming(q) /\ SameRecord(r, q) => stored[q] = NoRecord

IInv ==
    /\ TypeOK /\ Stagewise /\ UniqueIds /\ Unborn /\ Kept /\ Fetched
    /\ Gone /\ Forgotten /\ CancelUnique

-----------------------------------------------------------------------------
\* What the storage call of each method does.
LEMMA EffectOf ==
    ASSUME NEW r \in Requests
    PROVE  /\ op[r] = "store" => Effect(r) = Put(records, claim[r].record_id, stored[r])
           /\ op[r] \in Claimers => Effect(r) = Remove(records, claim[r].record_id)
           /\ op[r] = "cleanup" => Effect(r) = Sweep(records, clock[r])
BY DEF Effect, Claimers

\* Every storage call leaves well-typed contents behind.
LEMMA EffectType ==
    ASSUME TypeOK, NEW r \in Requests, op[r] \in Methods
    PROVE  Effect(r) \in Contents
BY EffectOf DEF TypeOK, Contents, Methods, Claimers, Put, Remove, Sweep

\* The invariant holds initially.
LEMMA InitInv == Init => IInv
BY NoRecordAssumption DEF Init, IInv, TypeOK, Stagewise, UniqueIds, Unborn, Kept, Fetched, Gone,
    Forgotten, CancelUnique, Consumed, Claiming, Minters, Contents, Empty, Stages,
    Awaiting, Writing, Methods, Reading, Claimers

\* Requests that end or sweep without a claim hold nothing.
LEMMA RefusalInv ==
    ASSUME IInv, NEW r \in Requests,
           \/ \E ttl \in Ttls : StoreReject(r, ttl) \/ StorePanic(r, ttl)
           \/ \E method \in Claimers : RejectToken(r, method)
           \/ CleanupBegin(r)
    PROVE  IInv'
<1>1. TypeOK' /\ Stagewise'
  BY DEF IInv, TypeOK, Stagewise, Stages, Awaiting, Writing, Methods, VaultError,
      Reading, Claimers, StoreReject, StorePanic, RejectToken, CleanupBegin, Begin,
      Goto, Return, Returned
<1>2. UniqueIds' /\ Kept' /\ Fetched'
  BY DEF IInv, TypeOK, Stagewise, UniqueIds, Kept, Fetched, Minters, SameRecord,
      Claiming, Claimers, StoreReject, StorePanic, RejectToken, CleanupBegin, Begin,
      Goto, Return, Returned
<1>3. Unborn'
  BY DEF IInv, TypeOK, Stagewise, UniqueIds, Unborn, Minters, SameRecord, Claiming,
      StoreReject, StorePanic, RejectToken, CleanupBegin, Begin, Goto, Return, Returned
<1>4. Gone' /\ CancelUnique'
  BY DEF IInv, TypeOK, Stagewise, Gone, CancelUnique, Consumed, Claiming, SameRecord,
      StoreReject, StorePanic, RejectToken, CleanupBegin, Begin, Goto, Return, Returned
<1>5. Forgotten'
  BY DEF IInv, TypeOK, Stagewise, Gone, Forgotten, Consumed, Claiming, SameRecord,
      StoreReject, StorePanic, RejectToken, CleanupBegin, Begin, Goto, Return, Returned
<1> QED BY <1>1, <1>2, <1>3, <1>4, <1>5 DEF IInv

\* A new id is held by nobody: Kept and Fetched say that whoever stores or holds
\* a record of an id has a store_proof that drew it.
LEMMA StoreEncryptInv ==
    ASSUME IInv, NEW r \in Requests,
           NEW ttl \in Ttls, NEW proof \in Proofs, NEW id \in RecordIds, NEW key \in Keys,
           StoreEncrypt(r, proof, ttl, id, key)
    PROVE  IInv'
<1>a. /\ [record_id |-> id, encryption_key |-> key] \in ClaimId
      /\ [encrypted |-> [key |-> key, proof |-> proof],
          expires_at |-> ExpiresAt(ttl, now)] \in StoredRecord
  <2>1. ExpiresAt(ttl, now) \in Nat \cup {Never}
    BY TtlAssumption DEF IInv, TypeOK, ExpiresAt
  <2> QED BY <2>1 DEF ClaimId, StoredRecord, EncryptedRecord
<1>1. TypeOK' /\ Stagewise'
  BY <1>a, NoRecordAssumption, NoClaimAssumption DEF IInv, TypeOK, Stagewise, Stages,
      Awaiting, Writing, Methods, VaultError, Reading, Claimers, StoreEncrypt, Begin,
      Goto, Returned
<1>2. UniqueIds' /\ Kept' /\ Fetched'
  BY DEF IInv, TypeOK, Stagewise, UniqueIds, Kept, Fetched, Minters, SameRecord,
      Claiming, Claimers, StoreEncrypt, Begin, Goto, Returned
<1>3. Unborn'
  BY <1>a DEF IInv, TypeOK, Stagewise, UniqueIds, Unborn, Minters, SameRecord, Claiming,
      StoreEncrypt, Begin, Goto, Returned, Kept, Fetched
<1>4. Gone' /\ CancelUnique'
  BY DEF IInv, TypeOK, Stagewise, Gone, CancelUnique, Consumed, Claiming, SameRecord,
      StoreEncrypt, Begin, Goto, Returned
<1>5. Forgotten'
  BY DEF IInv, TypeOK, Stagewise, Gone, Forgotten, Consumed, Claiming, SameRecord,
      StoreEncrypt, Begin, Goto, Returned
<1> QED BY <1>1, <1>2, <1>3, <1>4, <1>5 DEF IInv

\* The insert meets nobody who consumed the record, since nobody had seen it.
LEMMA StoreInsertInv ==
    ASSUME IInv, NEW r \in Requests,
           StoreInsert(r)
    PROVE  IInv'
<1>1. TypeOK' /\ Stagewise'
  BY EffectOf, EffectType DEF IInv, TypeOK, Stagewise, Stages, Awaiting, Writing,
      Methods, VaultError, Reading, Claimers, StoreInsert, Return, Contents, ClaimId,
      Put
<1>2. UniqueIds' /\ Kept' /\ Fetched'
  BY EffectOf, EffectType DEF IInv, TypeOK, Stagewise, UniqueIds, Kept, Fetched,
      Minters, SameRecord, Claiming, Claimers, StoreInsert, Return, Methods, Contents,
      ClaimId, Put, Reading, Awaiting, Writing
<1>3. Unborn'
  BY EffectOf, EffectType DEF IInv, TypeOK, Stagewise, UniqueIds, Unborn, Minters,
      SameRecord, Claiming, StoreInsert, Return, Methods, Contents, ClaimId, Put,
      Reading, Claimers, Awaiting, Writing
<1>4. Gone' /\ CancelUnique'
  BY EffectOf, EffectType DEF IInv, TypeOK, Stagewise, Gone, CancelUnique, Consumed,
      Claiming, SameRecord, StoreInsert, Return, Methods, Contents, ClaimId, Put,
      Reading, Claimers, Awaiting, Writing, Unborn, Minters, UniqueIds
<1>5. Forgotten'
  BY EffectOf, EffectType DEF IInv, TypeOK, Stagewise, Gone, Forgotten, Consumed,
      Claiming, SameRecord, StoreInsert, Return, Methods, Contents, ClaimId, Put,
      Reading, Claimers, Awaiting, Writing
<1> QED BY <1>1, <1>2, <1>3, <1>4, <1>5 DEF IInv

\* Whoever presents a token starts with nothing fetched.
LEMMA PresentTokenInv ==
    ASSUME IInv, NEW r \in Requests,
           NEW method \in Claimers, NEW token \in Tokens,
           PresentToken(r, method, token)
    PROVE  IInv'
<1>a. token \in ClaimId
  BY DEF IInv, TypeOK, Tokens, Issued, Minters, ClaimId
<1>1. TypeOK' /\ Stagewise'
  BY <1>a, NoClaimAssumption DEF IInv, TypeOK, Stagewise, Stages, Awaiting, Writing,
      Methods, VaultError, Reading, Claimers, PresentToken, Begin, Goto, Returned
<1>2. UniqueIds' /\ Kept' /\ Fetched'
  BY DEF IInv, TypeOK, Stagewise, UniqueIds, Kept, Fetched, Minters, SameRecord,
      Claiming, Claimers, PresentToken, Begin, Goto, Returned
<1>3. Unborn'
  BY DEF IInv, TypeOK, Stagewise, UniqueIds, Unborn, Minters, SameRecord, Claiming,
      PresentToken, Begin, Goto, Returned
<1>4. Gone' /\ CancelUnique'
  BY DEF IInv, TypeOK, Stagewise, Gone, CancelUnique, Consumed, Claiming, SameRecord,
      PresentToken, Begin, Goto, Returned
<1>5. Forgotten'
  BY DEF IInv, TypeOK, Stagewise, Gone, Forgotten, Consumed, Claiming, SameRecord,
      PresentToken, Begin, Goto, Returned
<1> QED BY <1>1, <1>2, <1>3, <1>4, <1>5 DEF IInv

\* A request fetches what is stored, hence not what is gone.
LEMMA FetchInv ==
    ASSUME IInv, NEW r \in Requests,
           Fetch(r)
    PROVE  IInv'
<1>1. TypeOK' /\ Stagewise'
  BY DEF IInv, TypeOK, Stagewise, Stages, Awaiting, Writing, Methods, VaultError,
      Reading, Claimers, Fetch, Goto, Return, ClaimId, Contents
<1>2. UniqueIds' /\ Kept' /\ Fetched'
  BY DEF IInv, TypeOK, Stagewise, UniqueIds, Kept, Fetched, Minters, SameRecord,
      Claiming, Claimers, Fetch, Goto, Return, ClaimId, Contents, Reading
<1>3. Unborn'
  BY DEF IInv, TypeOK, Stagewise, UniqueIds, Unborn, Minters, SameRecord, Claiming,
      Fetch, Goto, Return
<1>4. Gone' /\ CancelUnique'
  BY DEF IInv, TypeOK, Stagewise, Gone, CancelUnique, Consumed, Claiming, SameRecord,
      Fetch, Goto, Return
<1>5. Forgotten'
  BY DEF IInv, TypeOK, Stagewise, Gone, Forgotten, Consumed, Claiming, SameRecord,
      Fetch, Goto, Return
<1> QED BY <1>1, <1>2, <1>3, <1>4, <1>5 DEF IInv

\* The checks after a fetch, and dropping a request, only move it on.
LEMMA CheckInv ==
    ASSUME IInv, NEW r \in Requests,
           RetrieveCheck(r) \/ DeleteCheck(r) \/ DropRequest(r)
    PROVE  IInv'
<1>1. TypeOK' /\ Stagewise'
  BY DEF IInv, TypeOK, Stagewise, Stages, Awaiting, Writing, Methods, VaultError,
      Reading, Claimers, RetrieveCheck, DeleteCheck, DropRequest, Goto, Return
<1>2. UniqueIds' /\ Kept' /\ Fetched'
  BY DEF IInv, TypeOK, Stagewise, UniqueIds, Kept, Fetched, Minters, SameRecord,
      Claiming, Claimers, RetrieveCheck, DeleteCheck, DropRequest, Goto, Return
<1>3. Unborn'
  BY DEF IInv, TypeOK, Stagewise, UniqueIds, Unborn, Minters, SameRecord, Claiming,
      RetrieveCheck, DeleteCheck, DropRequest, Goto, Return, Reading, Claimers, Writing,
      Awaiting, Stages
<1>4. Gone' /\ CancelUnique'
  BY DEF IInv, TypeOK, Stagewise, Gone, CancelUnique, Consumed, Claiming, SameRecord,
      RetrieveCheck, DeleteCheck, DropRequest, Goto, Return
<1>5. Forgotten'
  BY DEF IInv, TypeOK, Stagewise, Gone, Forgotten, Consumed, Claiming, SameRecord,
      RetrieveCheck, DeleteCheck, DropRequest, Goto, Return, Reading, Writing, Awaiting
<1> QED BY <1>1, <1>2, <1>3, <1>4, <1>5 DEF IInv

\* A removal puts nothing back.  delete_proof confirms it only if the record was
\* there, so nobody before had it confirmed.
LEMMA RemovalInv ==
    ASSUME IInv, NEW r \in Requests,
           Purge(r) \/ RetrieveDelete(r) \/ DeleteDelete(r) \/ CleanupSweep(r)
    PROVE  IInv'
<1>1. TypeOK'
  BY EffectOf, EffectType DEF IInv, TypeOK, Stagewise, Stages, Awaiting, Writing,
      Methods, VaultError, Reading, Claimers, Purge, RetrieveDelete, DeleteDelete,
      CleanupSweep, Return, Contents, ClaimId, Remove, Sweep
<1>2. Stagewise'
  BY EffectOf, EffectType DEF IInv, TypeOK, Stagewise, Stages, Awaiting, Writing,
      Methods, VaultError, Reading, Claimers, Purge, RetrieveDelete, DeleteDelete,
      CleanupSweep, Return, Contents, ClaimId, Remove, Sweep
<1>3. UniqueIds'
  BY EffectOf, EffectType DEF IInv, TypeOK, Stagewise, UniqueIds, Kept, Fetched,
      Minters, SameRecord, Claiming, Claimers, Purge, RetrieveDelete, DeleteDelete,
      CleanupSweep, Return, Methods, Contents, ClaimId, Remove, Sweep, Reading,
      Awaiting, Writing
<1>4. Kept'
  BY EffectOf, EffectType DEF IInv, TypeOK, Stagewise, UniqueIds, Kept, Fetched,
      Minters, SameRecord, Claiming, Claimers, Purge, RetrieveDelete, DeleteDelete,
      CleanupSweep, Return, Methods, Contents, ClaimId, Remove, Sweep, Reading,
      Awaiting, Writing
<1>5. Fetched'
  BY EffectOf, EffectType DEF IInv, TypeOK, Stagewise, UniqueIds, Kept, Fetched,
      Minters, SameRecord, Claiming, Claimers, Purge, RetrieveDelete, DeleteDelete,
      CleanupSweep, Return, Methods, Contents, ClaimId, Remove, Sweep, Reading,
      Awaiting, Writing
<1>6. Unborn'
  BY EffectOf, EffectType DEF IInv, TypeOK, Stagewise, UniqueIds, Unborn, Minters,
      SameRecord, Claiming, Purge, RetrieveDelete, DeleteDelete, CleanupSweep, Return,
      Methods, Contents, ClaimId, Remove, Sweep, Reading, Claimers, Awaiting, Writing
<1>7. Gone' /\ CancelUnique'
  BY EffectOf, EffectType, SMTT(20) DEF IInv, TypeOK, Stagewise, Gone, CancelUnique, Consumed,
      Claiming, SameRecord, Purge, RetrieveDelete, DeleteDelete, CleanupSweep, Return,
      Methods, Contents, ClaimId, Remove, Sweep, Reading, Claimers, Awaiting, Writing,
      Unborn, Minters, UniqueIds
<1>8. Forgotten'
  BY EffectOf, EffectType DEF IInv, TypeOK, Stagewise, Gone, Forgotten, Consumed,
      Claiming, SameRecord, Purge, RetrieveDelete, DeleteDelete, CleanupSweep, Return,
      Methods, Contents, ClaimId, Remove, Sweep, Reading, Claimers, Awaiting, Writing
<1> QED BY <1>1, <1>2, <1>3, <1>4, <1>5, <1>6, <1>7, <1>8 DEF IInv

\* A failed call is never answered Ok, a dropped one not at all; the effect, if
\* any, is that of the call.
LEMMA FailureInv ==
    ASSUME IInv, NEW r \in Requests,
           StorageFails(r) \/ DetachedRun(r)
    PROVE  IInv'
<1>1. TypeOK'
  BY EffectOf, EffectType, SMTT(20) DEF IInv, TypeOK, Stagewise, Stages, Awaiting, Writing,
      Methods, VaultError, Reading, Claimers, StorageFails, OnStorageError, DetachedRun,
      Goto, Return, Contents, ClaimId, Put, Remove, Sweep
<1>2. Stagewise'
  BY EffectOf, EffectType DEF IInv, TypeOK, Stagewise, Stages, Awaiting, Writing,
      Methods, VaultError, Reading, Claimers, StorageFails, OnStorageError, DetachedRun,
      Goto, Return, Contents, ClaimId, Put, Remove, Sweep
<1>3. UniqueIds'
  BY EffectOf, EffectType DEF IInv, TypeOK, Stagewise, UniqueIds, Kept, Fetched,
      Minters, SameRecord, Claiming, Claimers, StorageFails, OnStorageError,
      DetachedRun, Goto, Return, Methods, Contents, ClaimId, Put, Remove, Sweep,
      Reading, Awaiting, Writing
<1>4. Kept'
  BY EffectOf, EffectType DEF IInv, TypeOK, Stagewise, UniqueIds, Kept, Fetched,
      Minters, SameRecord, Claiming, Claimers, StorageFails, OnStorageError,
      DetachedRun, Goto, Return, Methods, Contents, ClaimId, Put, Remove, Sweep,
      Reading, Awaiting, Writing
<1>5. Fetched'
  BY EffectOf, EffectType DEF IInv, TypeOK, Stagewise, UniqueIds, Kept, Fetched,
      Minters, SameRecord, Claiming, Claimers, StorageFails, OnStorageError,
      DetachedRun, Goto, Return, Methods, Contents, ClaimId, Put, Remove, Sweep,
      Reading, Awaiting, Writing
<1>6. Unborn'
  BY EffectOf, EffectType DEF IInv, TypeOK, Stagewise, UniqueIds, Unborn, Minters,
      SameRecord, Claiming, StorageFails, OnStorageError, DetachedRun, Goto, Return,
      Methods, Contents, ClaimId, Put, Remove, Sweep, Reading, Claimers, Awaiting,
      Writing
<1>7. Gone' /\ CancelUnique'
  BY EffectOf, EffectType DEF IInv, TypeOK, Stagewise, Gone, CancelUnique, Consumed,
      Claiming, SameRecord, StorageFails, OnStorageError, DetachedRun, Goto, Return,
      Methods, Contents, ClaimId, Put, Remove, Sweep, Reading, Claimers, Awaiting,
      Writing, Unborn, Minters, UniqueIds
<1>8. Forgotten'
  BY EffectOf, EffectType DEF IInv, TypeOK, Stagewise, Gone, Forgotten, Consumed,
      Claiming, SameRecord, StorageFails, OnStorageError, DetachedRun, Goto, Return,
      Methods, Contents, ClaimId, Put, Remove, Sweep, Reading, Claimers, Awaiting,
      Writing
<1> QED BY <1>1, <1>2, <1>3, <1>4, <1>5, <1>6, <1>7, <1>8 DEF IInv

\* A crash takes requests from their stages and nothing else.
LEMMA CrashInv ==
    ASSUME IInv, Crash
    PROVE  IInv'
<1>1. TypeOK' /\ Stagewise'
  BY DEF IInv, Crash, TypeOK, Stagewise, InFlight, Stages, Awaiting, Writing, Reading, Claimers
<1>2. UniqueIds' /\ Kept' /\ Fetched' /\ Gone' /\ CancelUnique'
  BY DEF IInv, Crash, UniqueIds, Kept, Fetched, Gone, CancelUnique, Minters, SameRecord,
      Claiming, Consumed
<1>3. Unborn'
  BY DEF IInv, Crash, TypeOK, Unborn, InFlight, Minters, SameRecord, Claiming, Awaiting, Writing
<1>4. Forgotten'
  BY DEF IInv, Crash, TypeOK, Forgotten, InFlight, SameRecord, Claiming, Consumed, Awaiting,
      Writing
<1> QED BY <1>1, <1>2, <1>3, <1>4 DEF IInv

\* Nor do the clock and stuttering disturb it.
LEMMA IdleInv ==
    ASSUME IInv, Tick \/ UNCHANGED vars
    PROVE  IInv'
<1>1. TypeOK' /\ Stagewise'
  BY DEF IInv, Tick, vars, TypeOK, Stagewise
<1>2. UniqueIds' /\ Unborn' /\ Kept' /\ Fetched' /\ Gone' /\ Forgotten' /\ CancelUnique'
  BY DEF IInv, Tick, vars, UniqueIds, Unborn, Kept, Fetched, Gone, Forgotten, CancelUnique,
      Minters, SameRecord, Claiming, Consumed
<1> QED BY <1>1, <1>2 DEF IInv

\* Every step preserves the invariant.
LEMMA NextInv == IInv /\ [Next]_vars => IInv'
<1> SUFFICES ASSUME IInv, [Next]_vars PROVE IInv'
  OBVIOUS
<1>1. ASSUME NEW r \in Requests,
             \/ \E ttl \in Ttls :
                 \/ StoreReject(r, ttl)
                 \/ StorePanic(r, ttl)
                 \/ \E proof \in Proofs, id \in RecordIds, key \in Keys :
                     StoreEncrypt(r, proof, ttl, id, key)
             \/ \E method \in Claimers :
                 \/ RejectToken(r, method)
                 \/ \E token \in Tokens : PresentToken(r, method, token)
             \/ CleanupBegin(r)
      PROVE  IInv'
  BY <1>1, RefusalInv, StoreEncryptInv, PresentTokenInv
<1>2. ASSUME NEW r \in Requests,
             \/ StoreInsert(r) \/ Fetch(r) \/ RetrieveCheck(r) \/ DeleteCheck(r)
             \/ Purge(r) \/ RetrieveDelete(r) \/ DeleteDelete(r) \/ CleanupSweep(r)
             \/ StorageFails(r) \/ DropRequest(r) \/ DetachedRun(r)
      PROVE  IInv'
  BY <1>2, StoreInsertInv, FetchInv, CheckInv, RemovalInv, FailureInv
<1>3. CASE Crash
  BY <1>3, CrashInv
<1>4. CASE Tick \/ Quiesced \/ UNCHANGED vars
  BY <1>4, IdleInv DEF Quiesced
<1> QED BY <1>1, <1>2, <1>3, <1>4 DEF Next, Claimers

\* It is an invariant of the specification.
LEMMA Invariance == Spec => []IInv
BY InitInv, NextInv, PTL DEF Spec

\* Type correctness of the vault.
THEOREM TypeCorrect == Spec => []TypeOK
<1>1. IInv => TypeOK
  BY DEF IInv
<1> QED BY <1>1, Invariance, PTL

\* Once retrieve_proof or delete_proof has returned Ok for a record, none that
\* begins later does, for any number of requests and through any sequence of
\* storage errors, dropped requests and crashes.
THEOREM SpentOnce == Spec => []ConsumedOnceInSequence
<1>1. IInv => ConsumedOnceInSequence
  BY DEF IInv, Gone, Forgotten, ConsumedOnceInSequence, Consumed
<1> QED BY <1>1, Invariance, PTL

\* However many delete_proof calls for one record overlap, one is confirmed.
THEOREM OneCancel == Spec => []CancelUnique
<1>1. IInv => CancelUnique
  BY DEF IInv
<1> QED BY <1>1, Invariance, PTL
=============================================================================
