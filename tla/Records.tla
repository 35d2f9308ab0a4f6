------------------------------ MODULE Records ------------------------------
(***************************************************************************)
(* The data every layer of the vault shares: the encrypted record of       *)
(* domain/record.rs, and the four operations of the StorageBackend trait   *)
(* (storage/backend.rs) as functions on a map from record ids to records.  *)
(*                                                                         *)
(* A ciphertext is abstracted to the pair of the key that sealed it and    *)
(* the proof inside (an ideal AEAD); nonce and stored_at are never read by *)
(* a decision of the code and are left out.  Times are natural numbers.    *)
(***************************************************************************)
EXTENDS Naturals

CONSTANTS
    RecordIds,   \* UUIDv4 storage keys
    Keys,        \* AES-256 keys drawn by store_proof
    Proofs,      \* plaintext proofs
    NoRecord,    \* "no record under this id"
    Never        \* the None of expires_at and of expires_in_secs

EncryptedRecord == [key : Keys, proof : Proofs]

StoredRecord == [encrypted : EncryptedRecord, expires_at : Nat \cup {Never}]

ASSUME NeverAssumption == Never \notin Nat
ASSUME NoRecordAssumption == NoRecord \notin StoredRecord

\* The contents of a backend: total functions, NoRecord where the map has no entry.
Contents == [RecordIds -> StoredRecord \cup {NoRecord}]

Empty == [id \in RecordIds |-> NoRecord]

\* StoredRecord::is_expired, with the clock reading t: strictly past the expiry.
IsExpired(rec, t) == rec.expires_at # Never /\ t > rec.expires_at

\* Mutant of Lapsed: `<` for `<=` in the sweep's comparison.
LapsedStrictly(rec, t) == rec.expires_at # Never /\ rec.expires_at < t

\* The records delete_expired drops at t.  The boundary t = expires_at is on
\* the other side of is_expired: the sweep already removes what a retrieval
\* at the same instant would still serve.
Lapsed(rec, t) == rec.expires_at # Never /\ rec.expires_at <= t

Put(s, id, rec) == [s EXCEPT ![id] = rec]

Remove(s, id) == [s EXCEPT ![id] = NoRecord]

\* Mutant of Sweep: the sense of the retain closure of delete_expired reversed.
SweepUnexpired(s, t) ==
    [id \in RecordIds |->
        IF s[id] # NoRecord /\ ~Lapsed(s[id], t) THEN NoRecord ELSE s[id]]

Sweep(s, t) ==
    [id \in RecordIds |->
        IF s[id] # NoRecord /\ Lapsed(s[id], t) THEN NoRecord ELSE s[id]]

-----------------------------------------------------------------------------
(* The calls of the trait.  A call carries the id and the record it needs;   *)
(* `cutoff` is the clock reading of delete_expired.                          *)

Kinds == {"insert", "fetch", "delete", "delete_expired"}

CallType == [kind : Kinds, id : RecordIds, rec : StoredRecord \cup {NoRecord}]

\* The contents after a call.
After(s, c, cutoff) ==
    CASE c.kind = "insert" -> Put(s, c.id, c.rec)
      [] c.kind = "fetch" -> s
      [] c.kind = "delete" -> Remove(s, c.id)
      [] c.kind = "delete_expired" -> Sweep(s, cutoff)

\* A reply: the record a fetch found (NoRecord stands for Err(NotFound)) and
\* the ids a call removed, of which delete reports whether there are any and
\* delete_expired how many.
ReplyType ==
    [status : {"pending", "ok", "err"}, found : StoredRecord \cup {NoRecord},
     removed : SUBSET RecordIds]

Pending == [status |-> "pending", found |-> NoRecord, removed |-> {}]
Failed == [status |-> "err", found |-> NoRecord, removed |-> {}]

Removed(s, t) == {id \in RecordIds : s[id] # NoRecord /\ t[id] = NoRecord}

Answer(s, c, cutoff) ==
    [status |-> "ok",
     found |-> IF c.kind = "fetch" THEN s[c.id] ELSE NoRecord,
     removed |-> Removed(s, After(s, c, cutoff))]
=============================================================================
