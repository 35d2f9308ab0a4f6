----------------------------- MODULE ProofVault -----------------------------
(***************************************************************************)
(* StandardVault (vault/proof_vault.rs): store_proof, retrieve_proof,      *)
(* delete_proof and cleanup, run concurrently by any number of requests    *)
(* over one storage backend.                                               *)
(*                                                                         *)
(* A request is one call of the ProofVault trait.  It takes one step per   *)
(* stretch of code between two awaits, so that every interleaving of the   *)
(* storage calls of different requests is a behaviour; a storage call is   *)
(* atomic (module StorageBackend states that contract and LocalFileStore   *)
(* shows that the file backend meets it).                                  *)
(*                                                                         *)
(* A storage call may fail before or after it took effect.  The caller may *)
(* drop a request at an await (an HTTP client that disconnects): the       *)
(* spawn_blocking closure it was waiting for still runs.  The process may  *)
(* crash and restart; stored records survive.                              *)
(***************************************************************************)
EXTENDS Records

CONSTANTS
    Requests,      \* calls made over the life of the vault
    Ttls,          \* values of expires_in_secs that are tried
    WrongKey,      \* key bytes no store_proof has drawn
    NoClaim,       \* a request holding no ClaimId
    I64Max,        \* the largest TTL i64::try_from accepts
    MaxDateTime,   \* the last instant chrono can represent
    MaxTime        \* bound of the clock

ASSUME TtlAssumption == Ttls \subseteq Nat \cup {Never}
ASSUME KeyAssumption == WrongKey \notin Keys
ASSUME LimitAssumption == {I64Max, MaxDateTime, MaxTime} \subseteq Nat

\* ClaimId: the storage key and the decryption key, the two halves of a token.
ClaimId == [record_id : RecordIds, encryption_key : Keys \cup {WrongKey}]

ASSUME NoClaimAssumption == NoClaim \notin ClaimId

VARIABLES
    records,   \* what the backend holds
    now,       \* Utc::now()
    op,        \* which method a request calls
    pc,        \* where it is
    claim,     \* its claim_id
    stored,    \* its local variable `stored`: built by store_proof, fetched by others
    clock,     \* the clock when it began (delete_expired's `now` for cleanup)
    before,    \* history: the requests that had returned when it began
    result     \* what it returned

vars == <<records, now, op, pc, claim, stored, clock, before, result>>

Methods == {"store", "retrieve", "delete", "cleanup"}

\* Waiting for a storage call that writes, and for any storage call.
Writing == {"insert", "purge", "delete", "sweep"}
Awaiting == Writing \cup {"fetch"}

\* "check" is the code after the fetch resolved; "detached" a dropped request
\* whose closure has yet to run; "lost" a request nobody will hear from again.
Stages == Awaiting \cup {"idle", "check", "detached", "returned", "lost"}

\* Serialization is missing: it arises in the JSON conversions of
\* PlaintextProof, which none of the four methods calls.
VaultError == {"InvalidParameter", "InvalidClaimId", "ProofNotFound",
               "ProofExpired", "DecryptionFailed", "Storage"}

Init ==
    /\ records = Empty
    /\ now = 0
    /\ op = [r \in Requests |-> "none"]
    /\ pc = [r \in Requests |-> "idle"]
    /\ claim = [r \in Requests |-> NoClaim]
    /\ stored = [r \in Requests |-> NoRecord]
    /\ clock = [r \in Requests |-> 0]
    /\ before = [r \in Requests |-> {}]
    /\ result = [r \in Requests |-> "none"]

-----------------------------------------------------------------------------
(* Requests, and the tokens that are about. *)

Returned == {r \in Requests : pc[r] = "returned"}

\* store_proof calls past the encryption: each has drawn an id and a key.
Minters == {r \in Requests : op[r] = "store" /\ claim[r] # NoClaim}

Issued == {claim[r] : r \in {m \in Minters : result[m] = "Ok"}}

\* Every token a caller can present: one it was given, or a well-formed one
\* with bytes of its own choosing in place of the key.
Tokens == Issued \cup [record_id : RecordIds, encryption_key : {WrongKey}]

Begin(r, method) ==
    /\ pc[r] = "idle"
    /\ op' = [op EXCEPT ![r] = method]
    /\ clock' = [clock EXCEPT ![r] = now]
    /\ before' = [before EXCEPT ![r] = Returned]

Goto(r, stage) ==
    /\ pc' = [pc EXCEPT ![r] = stage]
    /\ UNCHANGED result

Return(r, value) ==
    /\ pc' = [pc EXCEPT ![r] = "returned"]
    /\ result' = [result EXCEPT ![r] = value]

-----------------------------------------------------------------------------
(* store_proof *)

TtlAccepted(ttl) == ttl # Never => (ttl # 0 /\ ttl <= I64Max)

\* Mutant of ExpiresAt: the TTL taken off the current time.
ExpiresAtBackwards(ttl, t) == IF ttl = Never THEN Never ELSE t - ttl

ExpiresAt(ttl, t) == IF ttl = Never THEN Never ELSE t + ttl

\* chrono panics when the sum leaves its range.
TtlOverflows(ttl) == ttl # Never /\ now + ttl > MaxDateTime

StoreReject(r, ttl) ==
    /\ Begin(r, "store")
    /\ ~TtlAccepted(ttl)
    /\ Return(r, "InvalidParameter")
    /\ UNCHANGED <<records, now, claim, stored>>

StorePanic(r, ttl) ==
    /\ Begin(r, "store")
    /\ TtlAccepted(ttl) /\ TtlOverflows(ttl)
    /\ pc' = [pc EXCEPT ![r] = "lost"]
    /\ result' = [result EXCEPT ![r] = "Panicked"]
    /\ UNCHANGED <<records, now, claim, stored>>

\* Encrypt under a new key and build the record; ids and keys never collide.
StoreEncrypt(r, proof, ttl, id, key) ==
    /\ Begin(r, "store")
    /\ TtlAccepted(ttl) /\ ~TtlOverflows(ttl)
    /\ \A m \in Minters : claim[m].record_id # id /\ claim[m].encryption_key # key
    /\ claim' = [claim EXCEPT ![r] = [record_id |-> id, encryption_key |-> key]]
    /\ stored' = [stored EXCEPT ![r] =
            [encrypted |-> [key |-> key, proof |-> proof],
             expires_at |-> ExpiresAt(ttl, now)]]
    /\ Goto(r, "insert")
    /\ UNCHANGED <<records, now>>

\* What the storage call a request waits for does to the backend.
Effect(r) ==
    CASE op[r] = "store" -> Put(records, claim[r].record_id, stored[r])
      [] op[r] \in {"retrieve", "delete"} -> Remove(records, claim[r].record_id)
      [] op[r] = "cleanup" -> Sweep(records, clock[r])

StoreInsert(r) ==
    /\ pc[r] = "insert"
    /\ records' = Effect(r)
    /\ Return(r, "Ok")
    /\ UNCHANGED <<now, op, claim, stored, clock, before>>

-----------------------------------------------------------------------------
(* retrieve_proof and delete_proof *)

\* ClaimId::decode refuses the token.
RejectToken(r, method) ==
    /\ Begin(r, method)
    /\ Return(r, "InvalidClaimId")
    /\ UNCHANGED <<records, now, claim, stored>>

PresentToken(r, method, token) ==
    /\ Begin(r, method)
    /\ claim' = [claim EXCEPT ![r] = token]
    /\ Goto(r, "fetch")
    /\ UNCHANGED <<records, now, stored>>

Fetch(r) ==
    /\ pc[r] = "fetch"
    /\ LET found == records[claim[r].record_id] IN
        /\ stored' = [stored EXCEPT ![r] = found]
        /\ IF found = NoRecord THEN Return(r, "ProofNotFound") ELSE Goto(r, "check")
    /\ UNCHANGED <<records, now, op, claim, clock, before>>

\* Mutant of Decrypts: the authentication tag not checked.
DecryptsAnything(r) == TRUE

Decrypts(r) == stored[r].encrypted.key = claim[r].encryption_key

\* Mutant of RetrieveCheck: the proof handed out without deleting the record.
RetrieveCheckKeeping(r) ==
    /\ pc[r] = "check" /\ op[r] = "retrieve"
    /\ \/ IsExpired(stored[r], now) /\ Goto(r, "purge")
       \/ ~IsExpired(stored[r], now) /\ ~Decrypts(r) /\ Return(r, "DecryptionFailed")
       \/ ~IsExpired(stored[r], now) /\ Decrypts(r) /\ Return(r, "Ok")
    /\ UNCHANGED <<records, now, op, claim, stored, clock, before>>

\* Mutant of RetrieveCheck: the expiry not looked at.
RetrieveCheckLate(r) ==
    /\ pc[r] = "check" /\ op[r] = "retrieve"
    /\ IF Decrypts(r) THEN Goto(r, "delete") ELSE Return(r, "DecryptionFailed")
    /\ UNCHANGED <<records, now, op, claim, stored, clock, before>>

RetrieveCheck(r) ==
    /\ pc[r] = "check" /\ op[r] = "retrieve"
    /\ \/ IsExpired(stored[r], now) /\ Goto(r, "purge")
       \/ ~IsExpired(stored[r], now) /\ ~Decrypts(r) /\ Return(r, "DecryptionFailed")
       \/ ~IsExpired(stored[r], now) /\ Decrypts(r) /\ Goto(r, "delete")
    /\ UNCHANGED <<records, now, op, claim, stored, clock, before>>

\* The key half of the token plays no part in a deletion.
DeleteCheck(r) ==
    /\ pc[r] = "check" /\ op[r] = "delete"
    /\ Goto(r, IF IsExpired(stored[r], now) THEN "purge" ELSE "delete")
    /\ UNCHANGED <<records, now, op, claim, stored, clock, before>>

\* Delete an expired record; ProofExpired is the answer whether or not it was there.
Purge(r) ==
    /\ pc[r] = "purge"
    /\ records' = Effect(r)
    /\ Return(r, "ProofExpired")
    /\ UNCHANGED <<now, op, claim, stored, clock, before>>

\* retrieve_proof does not look at the boolean `delete` returns.
RetrieveDelete(r) ==
    /\ pc[r] = "delete" /\ op[r] = "retrieve"
    /\ records' = Effect(r)
    /\ Return(r, "Ok")
    /\ UNCHANGED <<now, op, claim, stored, clock, before>>

\* Mutant of DeleteDelete: the boolean ignored, as in retrieve_proof.
DeleteDeleteAlwaysOk(r) ==
    /\ pc[r] = "delete" /\ op[r] = "delete"
    /\ records' = Effect(r)
    /\ Return(r, "Ok")
    /\ UNCHANGED <<now, op, claim, stored, clock, before>>

DeleteDelete(r) ==
    /\ pc[r] = "delete" /\ op[r] = "delete"
    /\ records' = Effect(r)
    /\ Return(r, IF records[claim[r].record_id] = NoRecord THEN "ProofNotFound" ELSE "Ok")
    /\ UNCHANGED <<now, op, claim, stored, clock, before>>

-----------------------------------------------------------------------------
(* cleanup *)

CleanupBegin(r) ==
    /\ Begin(r, "cleanup")
    /\ Goto(r, "sweep")
    /\ UNCHANGED <<records, now, claim, stored>>

CleanupSweep(r) ==
    /\ pc[r] = "sweep"
    /\ records' = Effect(r)
    /\ Return(r, "Ok")
    /\ UNCHANGED <<now, op, claim, stored, clock, before>>

-----------------------------------------------------------------------------
(* Failures *)

\* A failed purge is logged and swallowed; any other error is passed on.
OnStorageError(r) == IF pc[r] = "purge" THEN "ProofExpired" ELSE "Storage"

\* The storage call returns Err: before its effect, or after it (the write
\* renamed the file and then failed to set its permissions).
StorageFails(r) ==
    /\ pc[r] \in Awaiting
    /\ \/ UNCHANGED records
       \/ pc[r] \in Writing /\ records' = Effect(r)
    /\ Return(r, OnStorageError(r))
    /\ UNCHANGED <<now, op, claim, stored, clock, before>>

\* The caller drops the future.  A write it awaited is already queued on the
\* blocking pool and runs ("detached"), or was still waiting for its turn.
DropRequest(r) ==
    /\ pc[r] \in Awaiting \cup {"check"}
    /\ \/ pc[r] \in Writing /\ Goto(r, "detached")
       \/ Goto(r, "lost")
    /\ UNCHANGED <<records, now, op, claim, stored, clock, before>>

DetachedRun(r) ==
    /\ pc[r] = "detached"
    /\ records' = Effect(r)
    /\ Goto(r, "lost")
    /\ UNCHANGED <<now, op, claim, stored, clock, before>>

InFlight == {r \in Requests : pc[r] \in Awaiting \cup {"check", "detached"}}

\* The process dies with every request in it; the next one opens the same store.
Crash ==
    /\ InFlight # {}
    /\ pc' = [r \in Requests |-> IF r \in InFlight THEN "lost" ELSE pc[r]]
    /\ UNCHANGED <<records, now, op, claim, stored, clock, before, result>>

Tick ==
    /\ now < MaxTime
    /\ now' = now + 1
    /\ UNCHANGED <<records, op, pc, claim, stored, clock, before, result>>

\* All requests have been made and have ended.
Quiesced ==
    /\ \A r \in Requests : pc[r] \in {"returned", "lost"}
    /\ now = MaxTime
    /\ UNCHANGED vars

-----------------------------------------------------------------------------
Next ==
    \/ \E r \in Requests :
        \/ \E ttl \in Ttls :
            \/ StoreReject(r, ttl)
            \/ StorePanic(r, ttl)
            \/ \E proof \in Proofs, id \in RecordIds, key \in Keys :
                StoreEncrypt(r, proof, ttl, id, key)
        \/ StoreInsert(r)
        \/ \E method \in {"retrieve", "delete"} :
            \/ RejectToken(r, method)
            \/ \E token \in Tokens : PresentToken(r, method, token)
        \/ Fetch(r)
        \/ RetrieveCheck(r) \/ DeleteCheck(r)
        \/ Purge(r) \/ RetrieveDelete(r) \/ DeleteDelete(r)
        \/ CleanupBegin(r) \/ CleanupSweep(r)
        \/ StorageFails(r) \/ DropRequest(r) \/ DetachedRun(r)
    \/ Crash
    \/ Tick
    \/ Quiesced

Spec == Init /\ [][Next]_vars
-----------------------------------------------------------------------------
(* Properties *)

\* Every variable has its type: in particular an expiry is never an instant
\* before the epoch of the model, and a result is one of VaultError's variants.
TypeOK ==
    /\ records \in Contents
    /\ now \in Nat
    /\ op \in [Requests -> Methods \cup {"none"}]
    /\ pc \in [Requests -> Stages]
    /\ claim \in [Requests -> ClaimId \cup {NoClaim}]
    /\ stored \in [Requests -> StoredRecord \cup {NoRecord}]
    /\ clock \in [Requests -> Nat]
    /\ before \in [Requests -> SUBSET Requests]
    /\ result \in [Requests -> VaultError \cup {"none", "Ok", "Panicked"}]

Claiming(r) == op[r] \in {"retrieve", "delete"} /\ claim[r] # NoClaim

Consumed(r) == Claiming(r) /\ result[r] = "Ok"

SameRecord(r, q) == claim[r].record_id = claim[q].record_id

\* A claim is spent for good: once retrieve_proof or delete_proof has returned
\* Ok for a record, no retrieve_proof or delete_proof that begins afterwards
\* returns Ok for it, whatever failed, was dropped or crashed in between.
ConsumedOnceInSequence ==
    \A r, q \in Requests :
        Consumed(r) /\ Consumed(q) /\ SameRecord(r, q) => r \notin before[q]

\* delete_proof reports a deletion to one caller only, even when several
\* delete_proof calls for one record overlap: they all fetch the record, and
\* the boolean of StorageBackend::delete decides between them.
CancelUnique ==
    \A r, q \in Requests :
        /\ Consumed(r) /\ op[r] = "delete"
        /\ Consumed(q) /\ op[q] = "delete"
        /\ SameRecord(r, q)
        => r = q

\* The expiry of a record has come by time t.
DueBy(rec, t) == rec.expires_at # Never /\ rec.expires_at <= t

\* What can make the record of a store_proof disappear: its expiry, a
\* retrieve_proof with its very token, or a delete_proof that fetched it.
LossExplained(s) ==
    \/ DueBy(stored[s], now)
    \/ \E r \in Requests :
        /\ Claiming(r) /\ SameRecord(r, s) /\ stored[r] # NoRecord
        /\ op[r] = "retrieve" => claim[r] = claim[s]

\* No silent loss: a record whose claim id store_proof handed out stays in the
\* backend until one of those three happened.  A retrieval with the wrong key,
\* a storage error, a dropped request, a crash or an early sweep never costs
\* the holder the proof.
NoSilentLoss ==
    \A s \in Minters :
        result[s] = "Ok" /\ records[claim[s].record_id] = NoRecord => LossExplained(s)

\* A proof that retrieve_proof returns is the one the store_proof that issued
\* this very token was given; that call had returned, and the record had not
\* expired, when the retrieval began.
HonestDelivery ==
    \A r \in Requests :
        Consumed(r) /\ op[r] = "retrieve" =>
            /\ \E s \in Minters \cap before[r] :
                claim[s] = claim[r] /\ stored[s] = stored[r]
            /\ ~IsExpired(stored[r], clock[r])

\* ProofExpired is final: after a request was told that a record has expired,
\* no retrieve_proof or delete_proof that begins later succeeds on it, although
\* the purge of the record may have failed and been swallowed.
ExpiredIsFinal ==
    \A r, q \in Requests :
        /\ Claiming(r) /\ result[r] = "ProofExpired"
        /\ Consumed(q) /\ SameRecord(r, q)
        => r \notin before[q]

\* A cleanup that returned Ok leaves nothing behind: every record stored before
\* it began whose expiry was not after its clock reading is gone, and stays so.
CleanupComplete ==
    \A q \in Requests, s \in Minters :
        /\ op[q] = "cleanup" /\ result[q] = "Ok"
        /\ s \in before[q] /\ result[s] = "Ok"
        /\ DueBy(stored[s], clock[q])
        => records[claim[s].record_id] = NoRecord

-----------------------------------------------------------------------------
(* What the documentation says and the code does not do: each is the one      *)
(* property of a run that TLC violates.                                       *)

\* README.md: the holder of the Claim_ID can decrypt the proof "exactly once".
\* Two overlapping retrieve_proof calls both fetch before either deletes.
ReleasedAtMostOnce ==
    \A r, q \in Requests :
        /\ Consumed(r) /\ op[r] = "retrieve"
        /\ Consumed(q) /\ op[q] = "retrieve"
        /\ SameRecord(r, q)
        => r = q

\* store_proof's own error message: a TTL that is too large is refused with
\* InvalidParameter.  The addition to Utc::now() panics first for some.
LargeTtlRefused == \A r \in Requests : result[r] # "Panicked"
=============================================================================
