----------------------------- MODULE RpcServer -----------------------------
(***************************************************************************)
(* The JSON-RPC server (rpc/server.rs, rpc/api.rs, rpc/discovery.rs) with  *)
(* the bearer layer of auth.rs, from the request on the wire to the answer *)
(* at the client.  jsonrpsee is external: a body is one call or a batch,   *)
(* calls of a batch run in order, a single result past the response limit  *)
(* is replaced by an error, and so is a batch whose results together are.  *)
(*                                                                         *)
(* A vault call is one step here, so two never overlap; ProofVault has its *)
(* inside.  A proof stands for its record and its claim id.  With TLS, a   *)
(* detached task copies the answer from the inner plain server to the      *)
(* client.                                                                 *)
(***************************************************************************)
EXTENDS Naturals, Sequences, SequencesExt

CONSTANTS
    Proofs,         \* proofs, each stored at most once
    Size,           \* bytes of a proof as compact JSON
    Legacy,         \* proofs of an earlier session, in the vault at the start
    Raw,            \* proofs an embedding host stored that are not JSON
    Requests,       \* HTTP requests; each is sent once
    Bodies,         \* what a request may carry
    Tokens,         \* bearer tokens
    None,           \* no token, no body
    MaxProofSize,   \* max_proof_size_bytes
    Headroom,       \* the 4096 bytes for the JSON-RPC envelope
    U32Max,         \* the largest limit the transport takes
    MaxResponse,    \* max_response_body_size of jsonrpsee, left at its default
    Envelope        \* bytes of a response besides the proof

Methods == {"storeProof", "retrieveProof", "deleteProof", "discover"}

\* What may be wrong with the parameters: a claim id with another key, one that
\* does not decode, a TTL over i64::MAX.
Slips == {"none", "otherKey", "malformed", "badTtl"}

CallType == [method : Methods, proof : Proofs, slip : Slips]

\* `overhead` is what the body has besides its compact proofs: the envelope,
\* white space, escapes.  An empty batch is malformed and reaches no method.
BodyType ==
    [auth : Tokens \cup {None}, overhead : Nat, calls : Seq(CallType) \ {<<>>}]

ASSUME SizeAssumption == Size \in [Proofs -> Nat]
ASSUME LegacyAssumption == Legacy \subseteq Proofs /\ Raw \subseteq Legacy
ASSUME BodiesAssumption == Bodies \subseteq BodyType
ASSUME NoneAssumption == None \notin Tokens \cup BodyType
ASSUME LimitsAssumption ==
    {MaxProofSize, Headroom, U32Max, MaxResponse, Envelope} \subseteq Nat

VARIABLES
    server,     \* the ServerHandle: down, up, stopping, stopped
    secured,    \* a TLS listener is in front of it
    expected,   \* the token of the bearer layer, None when it is transparent
    stored,     \* the records in the vault that have not expired
    lapsed,     \* those that have
    stage,      \* per request: how far it is
    body,       \* per request: what it carries
    done,       \* per request: the results of the calls so far
    used,       \* per request: bytes of the response so far
    answer,     \* per request: what is sent back
    taken       \* per request, history: proofs that retrieve_proof gave the handler

serverVars == <<server, secured, expected>>
vaultVars == <<stored, lapsed>>
requestVars == <<stage, body, done, used, answer, taken>>
rpcVars == <<serverVars, vaultVars, requestVars>>

\* In the hands of the server; its connection is counted by stopped().
InFlight == {"sent", "reading", "calling", "answering"}
Ended == {"delivered", "refused", "gone", "cut"}
Stages == InFlight \cup Ended \cup {"idle", "proxying"}

\* The errors of the vault, and jsonrpsee's own for a result that is too large.
Codes == {"ok", "ProofNotFound", "ProofExpired", "InvalidClaimId", "DecryptionFailed",
          "InvalidParameter", "Storage", "Serialization", "TooBig"}

RequestsInit ==
    /\ stage = [r \in Requests |-> "idle"]
    /\ body = [r \in Requests |-> None]
    /\ done = [r \in Requests |-> <<>>]
    /\ used = [r \in Requests |-> 0]
    /\ answer = [r \in Requests |-> "none"]
    /\ taken = [r \in Requests |-> {}]

-----------------------------------------------------------------------------
(* The transport *)

\* The accept loop of the TLS listener is a task nobody stops.
Listening == server = "up" \/ (secured /\ server \in {"stopping", "stopped"})

Stores(b) ==
    {p \in Proofs : \E c \in ToSet(b.calls) : c.method = "storeProof" /\ c.proof = p}

\* Record ids and keys are fresh.
Fresh(b) ==
    \A r \in Requests : body[r] # None => Stores(body[r]) \cap Stores(b) = {}

Send(r, b) ==
    /\ stage[r] = "idle" /\ Listening /\ Fresh(b)
    /\ stage' = [stage EXCEPT ![r] = "sent"]
    /\ body' = [body EXCEPT ![r] = b]
    /\ UNCHANGED <<serverVars, vaultVars, done, used, answer, taken>>

\* A server that was told to stop closes a connection it has read nothing from,
\* and takes no new one, from the TLS proxy either.
Refuse(r) ==
    /\ stage[r] = "sent" /\ server \in {"stopping", "stopped"}
    /\ stage' = [stage EXCEPT ![r] = "refused"]
    /\ UNCHANGED <<serverVars, vaultVars, body, done, used, answer, taken>>

\* The response is complete.
Answer(r, a) ==
    /\ stage' = [stage EXCEPT ![r] = "answering"]
    /\ answer' = [answer EXCEPT ![r] = a]

\* BearerAuthService::call: transparent without a token; else the header has to
\* match before anything of the body is looked at.
Authenticate(r) ==
    /\ stage[r] = "sent" /\ server \in {"up", "stopping"}
    /\ IF expected = None \/ body[r].auth = expected
       THEN stage' = [stage EXCEPT ![r] = "reading"] /\ UNCHANGED answer
       ELSE Answer(r, "http401")
    /\ UNCHANGED <<serverVars, vaultVars, body, done, used, taken>>

BodySize(b) ==
    FoldLeft(LAMBDA n, c : IF c.method = "storeProof" THEN n + Size[c.proof] ELSE n,
             b.overhead, b.calls)

\* Mutant of HttpBodyLimit: the cap of the proof for the whole body.
HttpBodyLimitTight == IF MaxProofSize > U32Max THEN U32Max ELSE MaxProofSize

HttpBodyLimit ==
    IF MaxProofSize + Headroom > U32Max THEN U32Max ELSE MaxProofSize + Headroom

ReadBody(r) ==
    /\ stage[r] = "reading"
    /\ IF BodySize(body[r]) > HttpBodyLimit
       THEN Answer(r, "http413")
       ELSE stage' = [stage EXCEPT ![r] = "calling"] /\ UNCHANGED answer
    /\ UNCHANGED <<serverVars, vaultVars, body, done, used, taken>>

-----------------------------------------------------------------------------
(* The handlers of VaultRpcImpl: the outcomes of a call on the vault.  An     *)
(* error of the storage may come before or after its effect.                 *)

Outcome(code, s, l, got) == [code |-> code, stored |-> s, lapsed |-> l, got |-> got]

Unchanged(code) == Outcome(code, stored, lapsed, {})

\* The size is checked here, the TTL by the vault.
StoreProof(c) ==
    IF Size[c.proof] > MaxProofSize \/ c.slip = "badTtl" THEN {Unchanged("InvalidParameter")}
    ELSE {Outcome(code, stored \cup {c.proof}, lapsed, {}) : code \in {"ok", "Storage"}}
            \cup {Unchanged("Storage")}

\* A record that is there and has not expired is consumed.
Consume(p, code, got) ==
    {Outcome(code, stored \ {p}, lapsed, got), Outcome("Storage", stored \ {p}, lapsed, {})}

\* What retrieve_proof and delete_proof of the vault have in common: the claim id
\* is decoded, and a record that has expired is purged; an error of that purge
\* is ignored.  `live` are the outcomes for a record that has not.
Claim(c, live) ==
    IF c.slip = "malformed" THEN {Unchanged("InvalidClaimId")}
    ELSE {Unchanged("Storage")} \cup
         IF c.proof \in stored THEN live
         ELSE IF c.proof \in lapsed
         THEN {Unchanged("ProofExpired"), Outcome("ProofExpired", stored, lapsed \ {c.proof}, {})}
         ELSE {Unchanged("ProofNotFound")}

\* PlaintextProof::into_json: from_json wrote JSON, from_bytes may not have.
IntoJson(p) == IF p \in Raw THEN "Serialization" ELSE "ok"

\* Mutant of RetrieveProof: the size checked on the way out too, and `>=` for `>`.
RetrieveProofCapped(c) ==
    Claim(c, Consume(c.proof,
                     IF Size[c.proof] >= MaxProofSize THEN "Serialization" ELSE IntoJson(c.proof),
                     {c.proof}))

\* Decryption fails before the vault deletes the record, into_json after.
RetrieveProof(c) ==
    Claim(c, IF c.slip = "otherKey" THEN {Unchanged("DecryptionFailed")}
             ELSE Consume(c.proof, IntoJson(c.proof), {c.proof}))

\* The key half of the claim id is not looked at.
DeleteProof(c) == Claim(c, Consume(c.proof, "ok", {}))

\* rpc.discover serves the embedded OpenRPC text.
Discover == {Unchanged("ok")}

Outcomes(c) ==
    CASE c.method = "storeProof" -> StoreProof(c)
      [] c.method = "retrieveProof" -> RetrieveProof(c)
      [] c.method = "deleteProof" -> DeleteProof(c)
      [] c.method = "discover" -> Discover

CurrentCall(r) == body[r].calls[Len(done[r]) + 1]

ResponseSize(c, code) ==
    Envelope + IF c.method = "retrieveProof" /\ code = "ok" THEN Size[c.proof] ELSE 0

\* A result that is too large by itself is an error in its place.
Sent(c, code) == IF ResponseSize(c, code) > MaxResponse THEN "TooBig" ELSE code

\* One call of the body.  Results that together overflow end the batch.
Call(r) ==
    /\ stage[r] = "calling"
    /\ \E o \in Outcomes(CurrentCall(r)) : LET code == Sent(CurrentCall(r), o.code) IN
        /\ stored' = o.stored /\ lapsed' = o.lapsed
        /\ taken' = [taken EXCEPT ![r] = @ \cup o.got]
        /\ done' = [done EXCEPT ![r] = Append(@, code)]
        /\ used' = [used EXCEPT ![r] = @ + ResponseSize(CurrentCall(r), code)]
        /\ IF used'[r] > MaxResponse THEN Answer(r, "too_big")
           ELSE IF Len(done'[r]) = Len(body[r].calls) THEN Answer(r, "results")
           ELSE UNCHANGED <<stage, answer>>
    /\ UNCHANGED <<serverVars, body>>

-----------------------------------------------------------------------------
(* The way back *)

\* The connection task writes the answer to its socket.
Respond(r) ==
    /\ stage[r] = "answering"
    /\ stage' = [stage EXCEPT ![r] = IF secured THEN "proxying" ELSE "delivered"]
    /\ UNCHANGED <<serverVars, vaultVars, body, done, used, answer, taken>>

\* copy_bidirectional takes it on to the client.
Proxy(r) ==
    /\ stage[r] = "proxying"
    /\ stage' = [stage EXCEPT ![r] = "delivered"]
    /\ UNCHANGED <<serverVars, vaultVars, body, done, used, answer, taken>>

\* The client goes away, or a TTL that fits i64 and not chrono makes the vault
\* panic: the future is dropped, a storage call under way may still have its effect.
Disconnect(r) ==
    /\ stage[r] \in InFlight \cup {"proxying"}
    /\ stage' = [stage EXCEPT ![r] = "gone"]
    /\ \/ UNCHANGED vaultVars
       \/ /\ stage[r] = "calling"
          /\ \E o \in Outcomes(CurrentCall(r)) : stored' = o.stored /\ lapsed' = o.lapsed
    /\ UNCHANGED <<serverVars, body, done, used, answer, taken>>

Serve(r) ==
    Refuse(r) \/ Authenticate(r) \/ ReadBody(r) \/ Call(r) \/ Respond(r) \/ Proxy(r)

RpcNext ==
    \E r \in Requests : (\E b \in Bodies : Send(r, b)) \/ Serve(r) \/ Disconnect(r)

\* The server alone, without shutdown, plain and with any token.
RpcInit ==
    /\ server = "up" /\ secured = FALSE /\ expected \in Tokens \cup {None}
    /\ stored = Legacy /\ lapsed = {}
    /\ RequestsInit

RpcSpec == RpcInit /\ [][RpcNext]_rpcVars

-----------------------------------------------------------------------------
(* Properties *)

\* Every variable has its type.
RpcTypeOK ==
    /\ server \in {"down", "up", "stopping", "stopped"}
    /\ secured \in BOOLEAN /\ expected \in Tokens \cup {None}
    /\ stored \subseteq Proofs /\ lapsed \subseteq Proofs
    /\ stage \in [Requests -> Stages]
    /\ body \in [Requests -> Bodies \cup {None}]
    /\ done \in [Requests -> Seq(Codes)]
    /\ used \in [Requests -> Nat]
    /\ answer \in [Requests -> {"none", "results", "http401", "http413", "too_big"}]
    /\ taken \in [Requests -> SUBSET Proofs]

\* The proofs that are in the answer of r.
Returned(r) ==
    IF answer[r] # "results" THEN {}
    ELSE {p \in Proofs : \E i \in DOMAIN done[r] :
            /\ done[r][i] = "ok"
            /\ body[r].calls[i].method = "retrieveProof" /\ body[r].calls[i].proof = p}

\* api.rs: "the record is deleted on success".  A JSON proof that the vault gave
\* up to a retrieveProof is in the answer to it: no limit or error on the way
\* from the vault to the response eats it.  It takes a response limit that has
\* room for every batch of proofs a body may ask for.  Proofs that are not JSON are
\* left out: into_json fails after their deletion.
DeletedOnSuccess ==
    \A r \in Requests : answer[r] # "none" => taken[r] \ Raw \subseteq Returned(r)

\* One call with sound parameters, in an envelope that fits the headroom, with a
\* proof that fits the limit.
Modest(b) ==
    /\ Len(b.calls) = 1 /\ b.overhead <= Headroom /\ b.calls[1].slip = "none"
    /\ \A p \in Stores(b) : Size[p] <= MaxProofSize

\* server.rs: the transport limit "mirrors the semantic limit without rejecting
\* valid requests".  A modest request is not turned away for its size by either
\* check, and a proof over the limit does not get into the vault.  The comment
\* on the setting in config.rs and configuration.md say that the transport
\* "enforces the same cap on the full request body"; the code does not, it adds
\* the headroom that this property needs.
LimitsAgree ==
    /\ \A r \in Requests :
        body[r] # None /\ Modest(body[r])
            => answer[r] # "http413" /\ done[r] # <<"InvalidParameter">>
    /\ \A p \in (stored \cup lapsed) \ Legacy : Size[p] <= MaxProofSize
=============================================================================
