------------------------ MODULE ProofVaultFateProofs ------------------------
(***************************************************************************)
(* What becomes of a record: proofs of NoSilentLoss, HonestDelivery,       *)
(* ExpiredIsFinal and CleanupComplete for any number of requests, ids,     *)
(* keys, proofs and TTLs.  IInv of ProofVaultProofs says who has seen a    *)
(* record; JInv adds with which right a request acts on it: a token with   *)
(* its key was issued before (Presented), a request on its way to the      *)
(* backend has the key, means to delete, or found the record expired       *)
(* (Armed, Cleared, Overdue).                                              *)
(***************************************************************************)
EXTENDS ProofVaultProofs

\* Nobody reads a clock that is ahead.
ClockPast == \A r \in Requests : clock[r] <= now

\* Whoever got an Ok has returned.
Answered == \A r \in Requests : result[r] = "Ok" => pc[r] = "returned"

\* store_proof encrypts under the key that it puts into the token.
Sealed == \A s \in Minters : stored[s].encrypted.key = claim[s].encryption_key

\* A token with a key that was drawn is one that a store_proof had returned.
Presented ==
    \A r \in Requests :
        Claiming(r) /\ claim[r].encryption_key # WrongKey =>
            \E s \in Minters \cap before[r] : claim[s] = claim[r]

\* Whoever removes a record has fetched it, and has a reason.
Armed ==
    \A r \in Requests :
        Claiming(r) /\ pc[r] \in {"purge", "delete", "detached"} =>
            /\ stored[r] # NoRecord
            /\ DueBy(stored[r], now) \/ op[r] = "delete" \/ Decrypts(r)

\* Whoever is past the checks found the record unexpired, and opened it.
Cleared ==
    \A r \in Requests :
        Claiming(r) /\ (pc[r] = "delete" \/ result[r] = "Ok") =>
            /\ ~IsExpired(stored[r], clock[r])
            /\ op[r] = "retrieve" => Decrypts(r)

\* ProofExpired is said of a record that has expired ...
Overdue ==
    \A r \in Requests :
        Claiming(r) /\ (pc[r] = "purge" \/ result[r] = "ProofExpired") =>
            stored[r] # NoRecord /\ IsExpired(stored[r], now)

\* ... and that had expired when any later request began.
OverdueBefore ==
    \A r, q \in Requests :
        r \in before[q] /\ Claiming(r) /\ result[r] = "ProofExpired" =>
            IsExpired(stored[r], clock[q])

JInv ==
    /\ ClockPast /\ Answered /\ Sealed /\ Presented /\ Armed /\ Cleared
    /\ Overdue /\ OverdueBefore /\ NoSilentLoss /\ CleanupComplete

-----------------------------------------------------------------------------
\* Requests that end or sweep without a claim touch no record.
LEMMA RefusalFate ==
    ASSUME IInv, IInv', JInv, NEW r \in Requests,
           \/ \E ttl \in Ttls : StoreReject(r, ttl) \/ StorePanic(r, ttl)
           \/ \E method \in Claimers : RejectToken(r, method)
           \/ CleanupBegin(r)
    PROVE  JInv'
<1>1. ClockPast' /\ Answered' /\ Sealed'
  BY DEF IInv, JInv, TypeOK, Stagewise, ClockPast, Answered, Sealed, Minters, Claimers,
      Reading, StoreReject, StorePanic, RejectToken, CleanupBegin, Begin, Goto, Return,
      Returned
<1>2. Presented'
  BY DEF IInv, JInv, TypeOK, Stagewise, Presented, Minters, Claiming, Claimers, Forgotten,
      UniqueIds, StoreReject, StorePanic, RejectToken, CleanupBegin, Begin, Goto, Return,
      Returned
<1>3. Armed' /\ Cleared'
  BY DEF IInv, JInv, TypeOK, Stagewise, Armed, Cleared, ClockPast, Claiming, Decrypts, DueBy,
      IsExpired, Reading, Claimers, StoredRecord, StoreReject, StorePanic, RejectToken,
      CleanupBegin, Begin, Goto, Return, Returned
<1>4. Overdue' /\ OverdueBefore'
  BY SMTT(20) DEF IInv, JInv, TypeOK, Stagewise, Overdue, OverdueBefore, Forgotten, Claiming,
      StoreReject, StorePanic, RejectToken, CleanupBegin, Begin, Goto, Return, Returned
<1>5. NoSilentLoss'
  <2>1. \A q \in Requests : Claiming(q) => Claiming(q)'
    BY DEF IInv, TypeOK, Stagewise, Claiming, StoreReject, StorePanic, RejectToken,
        CleanupBegin, Begin
  <2>2. Minters' \subseteq Minters /\ UNCHANGED <<records, now, claim, stored>>
    BY DEF IInv, TypeOK, Stagewise, Minters, StoreReject, StorePanic, RejectToken,
        CleanupBegin, Begin
  <2>3. \A s \in Minters : LossExplained(s) => LossExplained(s)'
    BY <2>1, <2>2 DEF IInv, TypeOK, Stagewise, LossExplained, SameRecord, Claiming, StoreReject,
        StorePanic, RejectToken, CleanupBegin, Begin
  <2>4. \A s \in Minters : result'[s] = "Ok" => result[s] = "Ok"
    BY DEF IInv, TypeOK, StoreReject, StorePanic, RejectToken, CleanupBegin, Goto, Return, Minters
  <2> QED BY <2>2, <2>3, <2>4 DEF JInv, NoSilentLoss
<1>6. CleanupComplete'
  BY DEF IInv, JInv, TypeOK, Stagewise, CleanupComplete, Minters, DueBy, Forgotten, Claimers,
      Reading, StoreReject, StorePanic, RejectToken, CleanupBegin, Begin, Goto, Return,
      Returned
<1> QED BY <1>1, <1>2, <1>3, <1>4, <1>5, <1>6 DEF JInv

\* A store_proof seals its record under the key of its token.
LEMMA StoreEncryptFate ==
    ASSUME IInv, IInv', JInv, NEW r \in Requests,
           NEW ttl \in Ttls, NEW proof \in Proofs, NEW id \in RecordIds, NEW key \in Keys,
           StoreEncrypt(r, proof, ttl, id, key)
    PROVE  JInv'
<1>1. ClockPast' /\ Answered' /\ Sealed'
  BY DEF IInv, JInv, TypeOK, Stagewise, ClockPast, Answered, Sealed, Minters, Claimers,
      Reading, StoreEncrypt, Begin, Goto, Returned
<1>2. Presented'
  BY DEF IInv, JInv, TypeOK, Stagewise, Presented, Minters, Claiming, Claimers, Forgotten,
      UniqueIds, StoreEncrypt, Begin, Goto, Returned
<1>3. Armed' /\ Cleared'
  BY DEF IInv, JInv, TypeOK, Stagewise, Armed, Cleared, ClockPast, Claiming, Decrypts, DueBy,
      IsExpired, Reading, Claimers, StoredRecord, StoreEncrypt, Begin, Goto, Returned
<1>4. Overdue' /\ OverdueBefore'
  BY DEF IInv, JInv, TypeOK, Stagewise, Overdue, OverdueBefore, Forgotten, ClockPast,
      Claiming, IsExpired, Reading, Claimers, StoredRecord, StoreEncrypt, Begin, Goto,
      Returned
<1>5. NoSilentLoss'
  BY DEF IInv, JInv, TypeOK, Stagewise, NoSilentLoss, LossExplained, Minters, SameRecord,
      Claiming, DueBy, Reading, Claimers, StoredRecord, StoreEncrypt, Begin, Goto, Returned
<1>6. CleanupComplete'
  BY DEF IInv, JInv, TypeOK, Stagewise, CleanupComplete, Minters, DueBy, Forgotten, Claimers,
      Reading, StoreEncrypt, Begin, Goto, Returned
<1> QED BY <1>1, <1>2, <1>3, <1>4, <1>5, <1>6 DEF JInv

\* The record that an Ok vouches for is there.
LEMMA StoreInsertFate ==
    ASSUME IInv, IInv', JInv, NEW r \in Requests,
           StoreInsert(r)
    PROVE  JInv'
<1>1. ClockPast' /\ Answered' /\ Sealed'
  BY EffectOf DEF IInv, JInv, TypeOK, Stagewise, ClockPast, Answered, Sealed, Minters,
      Claimers, Reading, StoreInsert, Return, Put, Contents, ClaimId
<1>2. Presented'
  BY EffectOf DEF IInv, JInv, TypeOK, Stagewise, Presented, Minters, Claiming, Claimers,
      Forgotten, UniqueIds, StoreInsert, Return, Put, Contents, ClaimId
<1>3. Armed' /\ Cleared'
  BY EffectOf DEF IInv, JInv, TypeOK, Stagewise, Armed, Cleared, ClockPast, Claiming,
      Decrypts, DueBy, IsExpired, Reading, Claimers, StoredRecord, StoreInsert, Return, Put,
      Contents, ClaimId
<1>4. Overdue' /\ OverdueBefore'
  BY EffectOf DEF IInv, JInv, TypeOK, Stagewise, Overdue, OverdueBefore, Forgotten, ClockPast,
      Claiming, IsExpired, Reading, Claimers, StoredRecord, StoreInsert, Return, Put,
      Contents, ClaimId
<1>5. NoSilentLoss'
  BY EffectOf DEF IInv, JInv, TypeOK, Stagewise, NoSilentLoss, LossExplained, Minters,
      SameRecord, Claiming, DueBy, Reading, Claimers, StoredRecord, StoreInsert, Return, Put,
      Contents, ClaimId
<1>6. CleanupComplete'
  BY EffectOf DEF IInv, JInv, TypeOK, Stagewise, CleanupComplete, Minters, Forgotten,
      UniqueIds, SameRecord, StoreInsert, Return, Put, Contents, ClaimId
<1> QED BY <1>1, <1>2, <1>3, <1>4, <1>5, <1>6 DEF JInv

\* A caller has its token from a store_proof that returned, or made up its key.
LEMMA PresentTokenFate ==
    ASSUME IInv, IInv', JInv, NEW r \in Requests,
           NEW method \in Claimers, NEW token \in Tokens,
           PresentToken(r, method, token)
    PROVE  JInv'
<1>1. ClockPast' /\ Answered' /\ Sealed'
  BY DEF IInv, JInv, TypeOK, Stagewise, ClockPast, Answered, Sealed, Minters, Claimers,
      Reading, PresentToken, Tokens, Issued, Begin, Goto, Returned
<1>2. Presented'
  <2>1. token.encryption_key # WrongKey =>
            \E s \in Minters \cap Returned : claim[s] = token
    BY DEF JInv, Answered, Tokens, Issued, Minters, Returned
  <2>2. Minters' = Minters /\ r \notin Minters
    BY DEF IInv, TypeOK, Stagewise, Minters, PresentToken, Begin, Claimers
  <2> QED BY <2>1, <2>2 DEF IInv, TypeOK, JInv, Presented, Claiming, PresentToken, Begin, Goto,
      Minters
<1>3. Armed' /\ Cleared'
  BY DEF IInv, JInv, TypeOK, Stagewise, Armed, Cleared, ClockPast, Claiming, Decrypts, DueBy,
      IsExpired, Reading, Claimers, StoredRecord, PresentToken, Tokens, Issued, Begin, Goto,
      Returned
<1>4. Overdue' /\ OverdueBefore'
  BY DEF IInv, JInv, TypeOK, Stagewise, Overdue, OverdueBefore, Forgotten, ClockPast,
      Claiming, IsExpired, Reading, Claimers, StoredRecord, PresentToken, Tokens, Issued,
      Begin, Goto, Returned
<1>5. NoSilentLoss'
  BY DEF IInv, JInv, TypeOK, Stagewise, NoSilentLoss, LossExplained, Minters, SameRecord,
      Claiming, DueBy, Reading, Claimers, StoredRecord, PresentToken, Tokens, Issued, Begin,
      Goto, Returned
<1>6. CleanupComplete'
  BY DEF IInv, JInv, TypeOK, Stagewise, CleanupComplete, Minters, DueBy, Forgotten, Claimers,
      Reading, PresentToken, Tokens, Issued, Begin, Goto, Returned
<1> QED BY <1>1, <1>2, <1>3, <1>4, <1>5, <1>6 DEF JInv

\* A fetch explains nothing away.
LEMMA FetchFate ==
    ASSUME IInv, IInv', JInv, NEW r \in Requests,
           Fetch(r)
    PROVE  JInv'
<1>1. ClockPast' /\ Answered' /\ Sealed'
  BY DEF IInv, JInv, TypeOK, Stagewise, ClockPast, Answered, Sealed, Minters, Claimers,
      Reading, Fetch, Goto, Return
<1>2. Presented'
  BY DEF IInv, JInv, TypeOK, Stagewise, Presented, Minters, Claiming, Claimers, Forgotten,
      UniqueIds, Fetch, Goto, Return
<1>3. Armed' /\ Cleared'
  BY DEF IInv, JInv, TypeOK, Stagewise, Armed, Cleared, ClockPast, Claiming, Decrypts, DueBy,
      IsExpired, Reading, Claimers, StoredRecord, Fetch, Goto, Return
<1>4. Overdue' /\ OverdueBefore'
  BY DEF IInv, JInv, TypeOK, Stagewise, Overdue, OverdueBefore, Forgotten, ClockPast,
      Claiming, IsExpired, Reading, Claimers, StoredRecord, Fetch, Goto, Return
<1>5. NoSilentLoss'
  BY DEF IInv, JInv, TypeOK, Stagewise, NoSilentLoss, LossExplained, Minters, SameRecord,
      Claiming, DueBy, Reading, Claimers, StoredRecord, Fetch, Goto, Return
<1>6. CleanupComplete'
  BY DEF IInv, JInv, TypeOK, Stagewise, CleanupComplete, Minters, DueBy, Forgotten, Claimers,
      Reading, Fetch, Goto, Return
<1> QED BY <1>1, <1>2, <1>3, <1>4, <1>5, <1>6 DEF JInv

\* The checks after a fetch decide with which right a request goes on.
LEMMA CheckFate ==
    ASSUME IInv, IInv', JInv, NEW r \in Requests,
           RetrieveCheck(r) \/ DeleteCheck(r) \/ DropRequest(r)
    PROVE  JInv'
<1>1. ClockPast' /\ Answered' /\ Sealed'
  BY DEF IInv, JInv, TypeOK, Stagewise, ClockPast, Answered, Sealed, Minters, Claimers,
      Reading, RetrieveCheck, DeleteCheck, DropRequest, Goto, Return, Writing, Awaiting
<1>2. Presented'
  BY DEF IInv, JInv, TypeOK, Stagewise, Presented, Minters, Claiming, Claimers, Forgotten,
      UniqueIds, RetrieveCheck, DeleteCheck, DropRequest, Goto, Return, Writing, Awaiting
<1>3. Armed' /\ Cleared'
  BY DEF IInv, JInv, TypeOK, Stagewise, Armed, Cleared, ClockPast, Claiming, Decrypts, DueBy,
      IsExpired, Reading, Claimers, StoredRecord, RetrieveCheck, DeleteCheck, DropRequest,
      Goto, Return, Writing, Awaiting
<1>4. Overdue' /\ OverdueBefore'
  BY DEF IInv, JInv, TypeOK, Stagewise, Overdue, OverdueBefore, Forgotten, ClockPast,
      Claiming, IsExpired, Reading, Claimers, StoredRecord, RetrieveCheck, DeleteCheck,
      DropRequest, Goto, Return, Writing, Awaiting
<1>5. NoSilentLoss'
  BY DEF IInv, JInv, TypeOK, Stagewise, NoSilentLoss, LossExplained, Minters, SameRecord,
      Claiming, DueBy, Reading, Claimers, StoredRecord, RetrieveCheck, DeleteCheck,
      DropRequest, Goto, Return, Writing, Awaiting
<1>6. CleanupComplete'
  BY DEF IInv, JInv, TypeOK, Stagewise, CleanupComplete, Minters, DueBy, Forgotten, Claimers,
      Reading, RetrieveCheck, DeleteCheck, DropRequest, Goto, Return, Writing, Awaiting
<1> QED BY <1>1, <1>2, <1>3, <1>4, <1>5, <1>6 DEF JInv
-----------------------------------------------------------------------------
\* Whoever is about to remove the record of a store_proof explains its loss: what
\* it fetched is that record, and the key that opened it is the one in the token.
LEMMA RemoverExplains ==
    ASSUME IInv, JInv, NEW r \in Requests, NEW s \in Minters,
           Claiming(r), pc[r] \in {"purge", "delete", "detached"}, SameRecord(r, s)
    PROVE  LossExplained(s)
<1>1. /\ stored[r] # NoRecord
      /\ DueBy(stored[r], now) \/ op[r] = "delete" \/ Decrypts(r)
  BY DEF JInv, Armed
<1>2. stored[s] = stored[r]
  BY <1>1 DEF IInv, Fetched, UniqueIds, SameRecord
<1>3. CASE DueBy(stored[r], now)
  BY <1>2, <1>3 DEF LossExplained
<1>4. CASE op[r] = "delete"
  BY <1>1, <1>4 DEF LossExplained
<1>5. CASE Decrypts(r)
  <2>1. claim[r].encryption_key = claim[s].encryption_key
    BY <1>2, <1>5 DEF Decrypts, JInv, Sealed
  <2>2. claim[r] \in ClaimId /\ claim[s] \in ClaimId
    BY DEF IInv, TypeOK, Claiming, Minters
  <2>3. claim[r] = claim[s]
    BY <2>1, <2>2 DEF ClaimId, SameRecord
  <2> QED BY <1>1, <2>3 DEF LossExplained
<1> QED BY <1>1, <1>3, <1>4, <1>5

\* So does a sweep: it removes what has lapsed by a past clock reading.
LEMMA SweeperExplains ==
    ASSUME IInv, JInv, NEW r \in Requests, NEW s \in Minters,
           records[claim[s].record_id] # NoRecord,
           Lapsed(records[claim[s].record_id], clock[r])
    PROVE  LossExplained(s)
<1>1. claim[s].record_id \in RecordIds
  BY DEF IInv, TypeOK, Minters, ClaimId
<1>2. stored[s] = records[claim[s].record_id]
  BY <1>1 DEF IInv, Kept, UniqueIds, SameRecord
<1>3. stored[s] \in StoredRecord
  BY <1>1, <1>2 DEF IInv, TypeOK, Contents
<1>4. DueBy(stored[s], now)
  <2>1. stored[s].expires_at # Never /\ stored[s].expires_at <= clock[r]
    BY <1>2 DEF Lapsed
  <2>2. stored[s].expires_at \in Nat
    BY <1>3, <2>1 DEF StoredRecord
  <2>3. clock[r] \in Nat /\ now \in Nat /\ clock[r] <= now
    BY DEF IInv, JInv, TypeOK, ClockPast
  <2> QED BY <2>1, <2>2, <2>3 DEF DueBy
<1> QED BY <1>4 DEF LossExplained

\* The stages whose storage call changes the contents.
Acting(r) == pc[r] \in {"insert", "purge", "delete", "sweep", "detached"}

\* Whatever storage call takes a record away, the loss is explained.
LEMMA EffectExplained ==
    ASSUME IInv, JInv, NEW r \in Requests, NEW s \in Minters, Acting(r),
           records[claim[s].record_id] # NoRecord,
           Effect(r)[claim[s].record_id] = NoRecord
    PROVE  LossExplained(s)
<1>1. /\ op[r] \in Methods
      /\ op[r] # "cleanup" => claim[r] \in ClaimId
      /\ op[r] = "store" => stored[r] # NoRecord
      /\ claim[s].record_id \in RecordIds
  BY DEF IInv, TypeOK, Stagewise, Acting, Reading, Claimers, Methods, Minters, ClaimId
<1>2. CASE op[r] = "store"
  BY <1>1, <1>2, EffectOf DEF Put, IInv, TypeOK, Contents, ClaimId
<1>3. CASE op[r] \in Claimers
  <2>1. SameRecord(r, s)
    BY <1>1, <1>3, EffectOf DEF Remove, IInv, TypeOK, Contents, ClaimId, SameRecord, Claimers
  <2>2. Claiming(r) /\ pc[r] \in {"purge", "delete", "detached"}
    BY <1>1, <1>3, NoClaimAssumption DEF Claiming, Acting, IInv, Stagewise, Claimers, Reading
  <2> QED BY <2>1, <2>2, RemoverExplains
<1>4. CASE op[r] = "cleanup"
  <2>1. Lapsed(records[claim[s].record_id], clock[r])
    BY <1>1, <1>4, EffectOf DEF Sweep
  <2> QED BY <2>1, SweeperExplains
<1> QED BY <1>1, <1>2, <1>3, <1>4 DEF Methods, Claimers

\* No storage call brings back a record whose store_proof has returned.
LEMMA EffectClean ==
    ASSUME IInv, NEW r \in Requests, NEW s \in Minters, Acting(r),
           pc[s] = "returned", records[claim[s].record_id] = NoRecord
    PROVE  Effect(r)[claim[s].record_id] = NoRecord
<1>1. /\ op[r] \in Methods
      /\ op[r] # "cleanup" => claim[r] \in ClaimId
      /\ claim[s].record_id \in RecordIds
  BY DEF IInv, TypeOK, Stagewise, Acting, Reading, Claimers, Methods, Minters, ClaimId
<1>2. CASE op[r] = "store"
  <2>1. ~SameRecord(r, s)
    BY <1>1, <1>2, NoClaimAssumption DEF IInv, UniqueIds, Minters, Acting
  <2> QED BY <1>1, <1>2, <2>1, EffectOf DEF Put, IInv, TypeOK, Contents, SameRecord, ClaimId
<1>3. CASE op[r] \in Claimers
  BY <1>1, <1>3, EffectOf DEF Remove, IInv, TypeOK, Contents, ClaimId
<1>4. CASE op[r] = "cleanup"
  BY <1>1, <1>4, EffectOf DEF Sweep
<1> QED BY <1>1, <1>2, <1>3, <1>4 DEF Methods, Claimers

\* A sweep takes every record that was due at its clock reading.
LEMMA SweepTakes ==
    ASSUME IInv, NEW r \in Requests, NEW s \in Minters, op[r] = "cleanup",
           DueBy(stored[s], clock[r])
    PROVE  Effect(r)[claim[s].record_id] = NoRecord
<1>1. claim[s].record_id \in RecordIds
  BY DEF IInv, TypeOK, Minters, ClaimId
<1>2. records[claim[s].record_id] # NoRecord => records[claim[s].record_id] = stored[s]
  BY <1>1 DEF IInv, Kept, UniqueIds, SameRecord
<1> QED BY <1>1, <1>2, EffectOf DEF Sweep, Lapsed, DueBy

\* A request that ends with its storage call, done or failed: it acted with the
\* right it had, and it is answered accordingly.
LEMMA EndFate ==
    ASSUME IInv, IInv', JInv, NEW r \in Requests,
           \/ Purge(r) \/ RetrieveDelete(r) \/ DeleteDelete(r) \/ CleanupSweep(r)
           \/ StorageFails(r) \/ DetachedRun(r)
    PROVE  JInv'
<1>1. /\ UNCHANGED <<now, op, claim, stored, clock, before>>
      /\ Minters' = Minters
      /\ \A q \in Requests : Claiming(q)' <=> Claiming(q)
  BY DEF Purge, RetrieveDelete, DeleteDelete, CleanupSweep, StorageFails, DetachedRun,
      Minters, Claiming
<1>2. /\ pc[r] \in Awaiting \cup {"detached"}
      /\ pc'[r] \in {"returned", "lost"}
      /\ \A q \in Requests \ {r} : pc'[q] = pc[q] /\ result'[q] = result[q]
      /\ result'[r] = "Ok" => pc'[r] = "returned" /\ pc[r] \in {"delete", "sweep"}
      /\ result'[r] = "ProofExpired" => pc[r] = "purge"
      /\ pc[r] = "returned" => pc'[r] = "returned"
  BY DEF IInv, TypeOK, Stagewise, Purge, RetrieveDelete, DeleteDelete, CleanupSweep, StorageFails,
      DetachedRun, OnStorageError, Goto, Return, Awaiting, Writing
<1>3. \/ records' = records
      \/ Acting(r) /\ records' = Effect(r)
  BY DEF Acting, Purge, RetrieveDelete, DeleteDelete, CleanupSweep, StorageFails,
      DetachedRun, Writing
<1>4. op[r] = "cleanup" /\ result'[r] = "Ok" => records' = Effect(r)
  BY DEF IInv, TypeOK, Stagewise, Purge, RetrieveDelete, DeleteDelete, CleanupSweep, StorageFails,
      DetachedRun, OnStorageError, Goto, Return, Awaiting, Writing
<1>5. ClockPast' /\ Answered' /\ Sealed' /\ Presented'
  BY <1>1, <1>2 DEF JInv, ClockPast, Answered, Sealed, Presented
<1>6. Armed' /\ Cleared'
  BY <1>1, <1>2 DEF IInv, JInv, Stagewise, Armed, Cleared, Decrypts, Claiming
<1>7. Overdue' /\ OverdueBefore'
  BY <1>1, <1>2 DEF IInv, JInv, Overdue, OverdueBefore, Forgotten, Awaiting, Writing
<1>8. NoSilentLoss'
  <2>1. \A s \in Minters : LossExplained(s) => LossExplained(s)'
    BY <1>1 DEF LossExplained, SameRecord
  <2>2. SUFFICES ASSUME NEW s \in Minters, result'[s] = "Ok",
                        records'[claim[s].record_id] = NoRecord
                 PROVE  LossExplained(s)
    BY <1>1, <2>1 DEF NoSilentLoss
  <2>3. result[s] = "Ok"
    BY <1>2, <2>2 DEF IInv, Stagewise, Minters, Reading, Claimers
  <2>4. CASE records[claim[s].record_id] = NoRecord
    BY <2>3, <2>4 DEF JInv, NoSilentLoss
  <2>5. CASE records[claim[s].record_id] # NoRecord
    BY <1>3, <2>2, <2>5, EffectExplained
  <2> QED BY <2>4, <2>5
<1>9. CleanupComplete'
  <2>1. SUFFICES ASSUME NEW q \in Requests, NEW s \in Minters,
                        op[q] = "cleanup", result'[q] = "Ok",
                        s \in before[q], result'[s] = "Ok", DueBy(stored[s], clock[q])
                 PROVE  records'[claim[s].record_id] = NoRecord
    BY <1>1 DEF CleanupComplete
  <2>2. pc[s] = "returned" /\ s # r /\ result[s] = "Ok"
    BY <1>2, <2>1 DEF IInv, Forgotten, Awaiting, Writing, Minters
  <2>3. CASE q = r
    BY <1>4, <2>1, <2>3, SweepTakes
  <2>4. CASE q # r
    BY <1>2, <1>3, <2>1, <2>2, <2>4, EffectClean DEF JInv, CleanupComplete
  <2> QED BY <2>3, <2>4
<1> QED BY <1>5, <1>6, <1>7, <1>8, <1>9 DEF JInv

\* A crash takes requests from their stages and answers nobody.
LEMMA CrashFate ==
    ASSUME IInv, JInv, Crash
    PROVE  JInv'
<1>1. ClockPast' /\ Sealed' /\ Presented' /\ OverdueBefore' /\ CleanupComplete'
  BY DEF JInv, Crash, ClockPast, Sealed, Presented, OverdueBefore, CleanupComplete, Minters,
      Claiming
<1>2. Answered' /\ Armed' /\ Cleared' /\ Overdue'
  BY DEF IInv, TypeOK, JInv, Crash, InFlight, Answered, Armed, Cleared, Overdue, Claiming,
      Decrypts, Awaiting, Writing
<1>3. NoSilentLoss'
  BY DEF JInv, Crash, NoSilentLoss, LossExplained, Minters, Claiming, SameRecord
<1> QED BY <1>1, <1>2, <1>3 DEF JInv

\* What is due, or expired, stays so.
LEMMA DueStays ==
    ASSUME NEW rec \in StoredRecord, NEW t \in Nat
    PROVE  /\ DueBy(rec, t) => DueBy(rec, t + 1)
           /\ IsExpired(rec, t) => IsExpired(rec, t + 1)
<1>1. rec.expires_at \in Nat \cup {Never}
  BY DEF StoredRecord
<1> QED BY <1>1 DEF DueBy, IsExpired

\* The clock only makes more records due.
LEMMA IdleFate ==
    ASSUME IInv, JInv, Tick \/ UNCHANGED vars
    PROVE  JInv'
<1>1. /\ now \in Nat
      /\ now' = now \/ now' = now + 1
      /\ UNCHANGED <<records, op, pc, claim, stored, clock, before, result>>
  BY DEF IInv, TypeOK, Tick, vars
<1>2. \A r \in Requests : stored[r] \in StoredRecord =>
        /\ DueBy(stored[r], now) => DueBy(stored[r], now')
        /\ IsExpired(stored[r], now) => IsExpired(stored[r], now')
  BY <1>1, DueStays
<1>3. \A r \in Requests : stored[r] # NoRecord => stored[r] \in StoredRecord
  BY DEF IInv, TypeOK
<1>4. ClockPast'
  BY <1>1 DEF IInv, TypeOK, JInv, ClockPast
<1>5. Answered' /\ Sealed' /\ Presented' /\ Cleared' /\ OverdueBefore' /\ CleanupComplete'
  BY <1>1 DEF JInv, Answered, Sealed, Presented, Cleared, OverdueBefore, CleanupComplete,
      Minters, Claiming, Decrypts
<1>6. Armed' /\ Overdue'
  BY <1>1, <1>2, <1>3 DEF JInv, Armed, Overdue, Claiming, Decrypts
<1>7. NoSilentLoss'
  <2>1. \A s \in Minters : stored[s] # NoRecord
    BY DEF IInv, Stagewise, Minters
  <2> QED BY <1>1, <1>2, <1>3, <2>1 DEF JInv, NoSilentLoss, LossExplained, Minters, Claiming,
      SameRecord
<1> QED BY <1>4, <1>5, <1>6, <1>7 DEF JInv

\* The invariant holds initially ...
LEMMA InitFate == Init => JInv
BY DEF Init, JInv, ClockPast, Answered, Sealed, Presented, Armed, Cleared, Overdue, OverdueBefore,
    NoSilentLoss, CleanupComplete, Minters, Claiming

\* ... and every step preserves it.
LEMMA NextFate == IInv /\ IInv' /\ JInv /\ [Next]_vars => JInv'
<1> SUFFICES ASSUME IInv, IInv', JInv, [Next]_vars PROVE JInv'
  OBVIOUS
<1>1. ASSUME NEW r \in Requests,
             \/ \E ttl \in Ttls :
                 \/ StoreReject(r, ttl)
                 \/ StorePanic(r, ttl)
                 \/ \E proof \in Proofs, id \in RecordIds, key \in Keys :
                     StoreEncrypt(r, proof, ttl, id, key)
             \/ \E method \in Claimers :
                 \/ RejectToken(r, method)
                 \/ \E token \in Tokens : PresentToken(r, method, token)
             \/ CleanupBegin(r)
      PROVE  JInv'
  BY <1>1, RefusalFate, StoreEncryptFate, PresentTokenFate
<1>2. ASSUME NEW r \in Requests,
             \/ StoreInsert(r) \/ Fetch(r) \/ RetrieveCheck(r) \/ DeleteCheck(r)
             \/ Purge(r) \/ RetrieveDelete(r) \/ DeleteDelete(r) \/ CleanupSweep(r)
             \/ StorageFails(r) \/ DropRequest(r) \/ DetachedRun(r)
      PROVE  JInv'
  BY <1>2, StoreInsertFate, FetchFate, CheckFate, EndFate
<1>3. CASE Crash
  BY <1>3, CrashFate
<1>4. CASE Tick \/ Quiesced \/ UNCHANGED vars
  BY <1>4, IdleFate DEF Quiesced
<1> QED BY <1>1, <1>2, <1>3, <1>4 DEF Next, Claimers

\* It is an invariant of the specification.
LEMMA FateInvariance == Spec => [](IInv /\ JInv)
<1>1. Init => IInv /\ JInv
  BY InitInv, InitFate
<1>2. (IInv /\ JInv) /\ [Next]_vars => (IInv /\ JInv)'
  BY NextInv, NextFate
<1> QED BY <1>1, <1>2, PTL DEF Spec

-----------------------------------------------------------------------------
\* A record whose claim id store_proof handed out leaves the backend only by its
\* expiry, by a retrieve_proof with that very token, or by a delete_proof that
\* fetched it: no wrong key, storage error, dropped request, crash or early sweep
\* costs the holder the proof.
THEOREM NoLoss == Spec => []NoSilentLoss
<1>1. JInv => NoSilentLoss
  BY DEF JInv
<1> QED BY <1>1, FateInvariance, PTL

\* A proof that retrieve_proof returns is the one that the store_proof which had
\* issued this very token was given, and it had not expired when the call began.
THEOREM Honest == Spec => []HonestDelivery
<1>1. IInv /\ JInv => HonestDelivery
  <2>1. SUFFICES ASSUME IInv, JInv, NEW r \in Requests, Consumed(r), op[r] = "retrieve"
                 PROVE  /\ \E s \in Minters \cap before[r] :
                            claim[s] = claim[r] /\ stored[s] = stored[r]
                        /\ ~IsExpired(stored[r], clock[r])
    BY DEF HonestDelivery
  <2>2. Claiming(r) /\ stored[r] \in StoredRecord
    BY <2>1 DEF IInv, TypeOK, Gone, Consumed
  <2>3. ~IsExpired(stored[r], clock[r]) /\ Decrypts(r)
    BY <2>1, <2>2 DEF JInv, Cleared, Consumed
  <2>4. claim[r].encryption_key # WrongKey
    BY <2>2, <2>3, KeyAssumption DEF Decrypts, StoredRecord, EncryptedRecord
  <2>5. PICK s \in Minters \cap before[r] : claim[s] = claim[r]
    BY <2>1, <2>2, <2>4 DEF JInv, Presented
  <2>6. stored[s] = stored[r]
    <3>1. PICK m \in Minters : SameRecord(m, r) /\ stored[m] = stored[r]
      BY <2>1, <2>2, NoRecordAssumption DEF IInv, Fetched
    <3> QED BY <2>1, <2>5, <3>1 DEF IInv, UniqueIds, SameRecord
  <2> QED BY <2>3, <2>5, <2>6
<1> QED BY <1>1, FateInvariance, PTL

\* Once a request was told ProofExpired, no later retrieve_proof or delete_proof
\* of that record succeeds, whether or not the purge did.
THEOREM ExpiredFinal == Spec => []ExpiredIsFinal
<1>1. IInv /\ JInv => ExpiredIsFinal
  <2>1. SUFFICES ASSUME IInv, JInv, NEW r \in Requests, NEW q \in Requests,
                        Claiming(r), result[r] = "ProofExpired",
                        Consumed(q), SameRecord(r, q), r \in before[q]
                 PROVE  FALSE
    BY DEF ExpiredIsFinal
  <2>2. stored[r] # NoRecord /\ IsExpired(stored[r], clock[q])
    BY <2>1 DEF JInv, Overdue, OverdueBefore
  <2>3. Claiming(q) /\ stored[q] # NoRecord /\ ~IsExpired(stored[q], clock[q])
    BY <2>1 DEF IInv, JInv, Gone, Cleared, Consumed
  <2>4. stored[q] = stored[r]
    BY <2>1, <2>2, <2>3 DEF IInv, Fetched, UniqueIds, SameRecord
  <2> QED BY <2>2, <2>3, <2>4
<1> QED BY <1>1, FateInvariance, PTL

\* A cleanup that returned Ok leaves no record behind that was stored before it
\* began and due at its clock reading, and none comes back.
THEOREM CleanupDone == Spec => []CleanupComplete
<1>1. JInv => CleanupComplete
  BY DEF JInv
<1> QED BY <1>1, FateInvariance, PTL
=============================================================================
