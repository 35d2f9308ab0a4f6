# Tari Vault in TLA+

Tari Vault (`src/`, a Rust crate and daemon) stores proofs encrypted and hands each one out to
whoever presents its claim id. `store_proof` encrypts a proof under a fresh AES-256-GCM key,
stores the ciphertext under a fresh record id and returns both halves as one token, the claim id.
`retrieve_proof` decrypts and deletes, `delete_proof` deletes, `cleanup` removes what has expired.

This directory models the parts of the system that change state, checks them with TLC on small
instances and proves the main results with TLAPS for every instance.

## 1. The system

| Component | State | Operations | Hard behaviours |
|---|---|---|---|
| `StandardVault` (`vault/proof_vault.rs`) | none of its own; the storage behind it | `store_proof`, `retrieve_proof`, `delete_proof`, `cleanup` | every method is several storage calls with awaits between them; requests interleave, fail half-way, are dropped when a client disconnects, die with the process |
| `StorageBackend`, `AnyBackend` (`storage/backend.rs`, `storage/mod.rs`) | a map from record ids to records | `insert`, `fetch`, `delete`, `delete_expired` | a call may fail after its effect; a call whose future was dropped may take effect later |
| `LocalFileStore` (`storage/local_file.rs`) | one JSON file, a `.lock` sidecar, a Mutex per process | `new` and the four calls | two levels of locks, a blocking closure that outlives its future, read-modify-rename of the whole file, several processes, crashes |
| `SqliteStore` (`storage/sqlite.rs`) | a SQLite table, a Mutex per process | `new` and the four calls | Mutex poisoning, expiry compared as text |
| Cleanup task (`vault/cleanup.rs`) | parent and child cancellation tokens, an interval timer | `spawn_cleanup_task`, `stop`, `stopped` | a biased select, cancellation between two polls, missed ticks, failing sweeps |
| Daemon (`main.rs`) | the step of `main` | start-up, Ctrl-C, shutdown | early exits after parts have started, parts that are waited for and parts that are not |
| RPC server and auth layer (`rpc/`, `auth.rs`) | the server handle, connections, the expected token | four methods, bearer check, TLS gate, TLS proxy | three size limits met at different points, clients that go away, requests in progress at shutdown |
| Configuration (`config.rs`, `main.rs`) | none | `load_config`, command-line overrides | precedence of five layers, values parsed and printed again |
| `ClaimId`, `StoredRecord`, `PlaintextProof` (`domain/`) | values | encode, decode, `is_expired` | boundary of the expiry comparison |

The RPC server and the cleanup task share one `Arc<StandardVault>`. The vault calls its backend
and nothing else; the backend runs each call on tokio's blocking pool. Several processes may open
one vault file.

What has to be right: a claim is spent once; nothing disappears but by a claim, a deletion or its
expiry; what is delivered is what was stored, and not after its expiry; concurrent writers of
the file do not lose each other's updates; no lock is left behind; the sweep goes on after errors
and stops when told to; a proof that the vault gives up reaches the response; the configured token
and TLS are in force; Ctrl-C ends the daemon, if no client holds it up, and cuts off no request at work. `PROJECT.json` lists the hazards, each at its line.

## 2. The modules

| Module | Models | Extends / instantiates |
|---|---|---|
| `Records` | `domain/record.rs` and the four calls as functions on a map | |
| `ProofVault` | `StandardVault` and all its concurrent requests | `Records` |
| `StorageBackend` | the contract of the trait: an abstract specification | `Records` |
| `LocalFileStore` | the file backend, all processes and tasks | `Records`; instantiates `StorageBackend` for the refinement |
| `Rfc3339` | how an instant is printed, and how the texts compare (external code) | |
| `SqliteStore` | the SQLite backend, all processes and tasks | `Records`, `Rfc3339`; instantiates `StorageBackend` for the refinement |
| `CleanupTask` | the background sweep | |
| `RpcServer` | the JSON-RPC server and the bearer layer, from the request to the answer | |
| `VaultConfig` | the layers of the configuration: operators only | |
| `VaultDaemon` | `main`, and everything it starts | `RpcServer`, `VaultConfig`; instantiates `CleanupTask` |
| `MCProofVault`, `MCLocalFileStore`, `MCSqliteStore`, `MCCleanupTask`, `MCRpcServer`, `MCVaultDaemon` | instances for TLC | the module they are named after |
| `ProofVaultProofs`, `LocalFileStoreProofs`, `SqliteStoreProofs`, `CleanupTaskProofs`, `RpcServerProofs` | inductive invariants and proofs | the module they are named after |
| `ProofVaultFateProofs` | the rest of the proofs about the vault | `ProofVaultProofs` |
| `VaultDaemonProofs` | inductive invariant and proofs | `VaultDaemon`, `RpcServerProofs` |

A definition `XxxMutated` introduced by "Mutant of Xxx" is a plausible bug in `Xxx`; it is used by
no specification and shows that a property can fail.

### Records

A ciphertext is the pair of the key that sealed it and the proof inside: AES-GCM is taken as
ideal. The nonce and `stored_at` influence no decision and are left out (the check of the nonce's
length at `proof_vault.rs:168` cannot fail on a record that `store_proof` wrote). Two comparisons
with the clock are kept apart as in the code: `is_expired` is `now > expires_at`, the sweep removes
`expires_at <= now`.

### ProofVault

A request is one call of the trait. Its local variables are functions on `Requests`: `claim` is
`claim_id`, `stored` the local of that name, `clock` the clock when it began. `pc` names the
storage call it awaits (`insert`, `fetch`, `purge`, `delete`, `sweep`), or `check` for the code
after the fetch. Every stretch of code between two awaits is one action, so the model has every
interleaving the executor can produce. A `cleanup` request begins when `delete_expired` reads the
clock: nothing before that point has an effect.

`StorageFails` lets any storage call return an error before or after its effect; the swallowed
error of a purge is in `OnStorageError` (json-rpc-reference.md:152 says "proof was deleted" of
ProofExpired; when the purge fails it was not, and `ExpiredIsFinal` says why that is harmless). `DropRequest` drops a future at an await: a write it had
queued runs later (`DetachedRun`) or, if it was still waiting for the process lock, never. `Crash` ends every
request of the process and keeps the store. Callers present tokens they were issued, or
well-formed tokens with other key bytes (`Tokens`), or malformed ones (`RejectToken`).

`before[r]` records which requests had returned when `r` began, so that a property can say
"later"; no action reads it. UUIDs and keys do not collide. The clock does not go back.

### StorageBackend and LocalFileStore

`StorageBackend` says that each call takes effect at one instant between call and return; that a
call that fails may have taken effect; that an abandoned one may still do so; and that
`delete_expired` uses some clock reading since its call. `ProofVault` is written against exactly
this: its `Effect` is one step, with the same failures around it.

In `LocalFileStore` a task has an async half (`pc`) and a closure on the blocking pool (`bpc`).
`Spawn` takes `process_lock`, reads the clock and queues the closure; `LockFile` takes the sidecar
lock; `ReadState` reads the file and computes; `Rename` is `write_atomic` up to the rename;
`SetPermissions` ends the closure. `ClosureFails` is an error at any of these, the one after the
rename included. `Drop` releases `process_lock` and leaves the closure running, so two
closures of one process can be on the pool at once (the diagram in security-model.md:175 says "one at
a time"); the sidecar lock still orders them. `Open`, `Create`
and `CreateFails` are `new`, which takes no lock.

The refinement mapping (`Backend`) puts the effect at the rename, or at the read when nothing is
written; `took` is a history variable that records it.

### Rfc3339 and SqliteStore

`SqliteStore` stores `expires_at.to_rfc3339()` and lets SQLite compare it with the text of the
clock. `Rfc3339` keeps what decides the order of such texts: a fraction that is left out when it is
zero and has as few groups of digits as it needs, the offset `+00:00` after it, and the sign in
front of a year past 9999. Groups are one digit in a small base, two to a fraction, and the years
up to 9999 are `Base` seconds. The texts are in the order of the instants because `+`, the first
character of the offset, sorts before `.` and before the digits; with `Z` for the offset they would
not be (the mutant `ToRfc3339WithZ`).

A call queues a closure (`Invoke`, which also reads the clock for `delete_expired`); the closure
takes the connection's Mutex (`LockConn`) and runs one statement (`Execute`), which SQLite makes
atomic and which survives a crash of the process. `ClosureFails` is an SQL error, a row whose expiry
does not parse, or a poisoned Mutex; `ClosurePanics` poisons it. `Drop`, `Crash` and the refinement
mapping are as in `LocalFileStore`.

### CleanupTask

Time is kept modulo the interval, which makes the state space finite without bounding time: `phase`
is the position in the interval, `due` how many deadlines have passed that no tick has consumed (none,
one, or more than one). `MissedTickBehavior::Skip` is in `PollTick`, which consumes them all; with
tokio's default, `Burst`, it would consume one at a time (the mutant `PollTickBurst`). The two
branches of the select are polled in two steps. A sweep that fails may have had its effect.

### RpcServer

A request goes through the stages of `stage`: `Send`, `Authenticate` (the bearer layer, before
anything of the body is looked at), `ReadBody` (the limit of the transport), one `Call` for each call
of the batch, `Respond` and, with TLS, `Proxy`. A vault call is one step here, with the
outcomes that a call has which overlaps no other, storage errors before and after the effect included;
what overlapping calls do to each other is the business of `ProofVault`. The `slip` of a call says what
is wrong with its parameters: a claim id with other key bytes, one that does not decode, or a TTL over
`i64::MAX`. A TTL that makes the vault panic (`vault_ttl`) ends the connection as a client that goes away
does, and is in `Disconnect`. A proof stands for its
record and its claim id; `stored` and `lapsed` are the records before and after their expiry. `Raw`
are proofs that an embedding host stored with `from_bytes`: `into_json` fails on them, after the
deletion.

Three limits are kept apart: the semantic limit on a proof (`MaxProofSize`, in `StoreProof`), the
transport limit on a body (`HttpBodyLimit`, with its headroom and its saturation at `u32::MAX`), and
jsonrpsee's limit on a response (`MaxResponse`), which the code does not set. jsonrpsee is external
and modelled by what the code relies on: the calls of a batch run in order, a single result
over the limit is replaced by an error in its place (`Sent`), results that together are over it are replaced
as a whole and end the batch, `stop` closes connections nothing was read
from, and `stopped` waits for the others.

### VaultConfig

A layer is a function from the keys it sets to their texts, and `LoadConfig` merges layers: the
environment over the `.env` file (`dotenv` sets only what the environment does not have) over the
config file over the defaults; `Effective` puts the command line on top. `TryParsing` is
`try_parsing(true)`: a text that reads as a number is parsed and printed again, so that the token
`007` in the environment is the token `7`. `Asked` states the precedence a second time, as the
documents do: the text of the highest layer that has the key, as it was written there. Where the two
differ (`Precedence` proves that it is only in that printing), the token in force is not the one that
was set: `daemon_token`.

### VaultDaemon

`main` is one action for each of its steps, in the code's order; `main` (the variable) is the step
that is next. `BailHalfTls`, `RefuseToStart` and `MainFails` are the errors that end it,
`Interrupt` is Ctrl-C, `StopServer`, `Drained`, `CancelCleanup` and `Join` the shutdown. `Kill` is any
other signal, at any point. `Exit` is what the end of the process does to everything in it:
connections and the TLS proxy are cut, a sweep is dropped and what it was deleting goes or stays. What the
storage call of a request that is cut off still does to the vault is not followed past the end: no
property of the daemon speaks of the vault then, and `ProofVault` has it as `Crash`. The
sweep is `CleanupTask` itself, instantiated on the expired records of the vault.

## 3. The runs

| Run | Instance | Shows |
|---|---|---|
| `vault` | 3 requests, 2 ids, TTLs none / 0 / 1 / beyond chrono / beyond i64, clock to 2 | all vault properties |
| `file` | 2 processes, 3 tasks, existing file, with fairness | no lost update, refinement of `StorageBackend`, every call returns, every closure ends |
| `file_new` | 1 process, 2 tasks, 2 ids, all calls, missing file, clock to 1 | no lost update and refinement with creation, sweeps and a moving clock |
| `sqlite` | 2 tasks of one process, all calls, expiries with and without a fraction, clock past a full second, with fairness | refinement of `StorageBackend`, every call returns |
| `cleanup` | 2 records, interval 3 | the background sweep |
| `daemon` | 4 set-ups, 2 requests of 4 kinds, 4 proofs, one of them perishable, with fairness | the daemon with its server, its sweep and its configuration |

The properties of the vault:

- `ConsumedOnceInSequence`: after an Ok for a record, no later request gets an Ok for it.
- `CancelUnique`: of overlapping deletions one is confirmed.
- `NoSilentLoss`: a record whose claim id was handed out is gone only after its expiry, a
  retrieval with that very token, or a deletion that fetched it.
- `HonestDelivery`: a delivered proof is the one stored under this token, by a call that had
  returned, and had not expired when the retrieval began.
- `ExpiredIsFinal`: after a ProofExpired no later request succeeds, although the purge may fail.
- `CleanupComplete`: a sweep that returned Ok left nothing behind that had expired by its clock.

Of the file backend: `WriteIsCurrent` (no lost update), `ImplementsBackend` (refinement),
`EveryCallReturns` and `EveryClosureEnds` (liveness). Of the SQLite backend: `ImplementsBackend`
and `EveryCallReturns`. Of the cleanup task: `NoBurst`,
`AtMostOneLateSweep`, `CancelStops`, `LapsedIsSwept`.

Of the daemon:

- `CleanExit`: a daemon that ends with Ok has let its sweep and every request it had begun finish.
  With TLS the proxy is not waited for: requests that no method ran for may be cut off, and so may
  complete answers on their way to the client.
- `ExposedOnlyIfAsked`: plain HTTP is served to the outside only if the configuration asks for it,
  by the precedence of `Asked`.
- `AuthAsConfigured`: while a token is configured, a method ran only for requests that carried it, and
  none that did was turned away. The token is the text as it was written; in this run printing it anew
  makes no difference, and `daemon_token` shows that it may.
- `DeletedOnSuccess`: a JSON proof that the vault gave up to a `retrieveProof` is in the answer. In
  this run the response limit has room for every batch; `rpc_lost` shows that it must.
- `LimitsAgree`: the two limits on a request neither turn away one that each of them should take, nor
  let a proof over the limit into the vault. A proof over the limit may meet either of the two: the
  transport answers HTTP 413 where json-rpc-reference.md:314 has only -32006. This is the promise of the
  comment at server.rs:132 ("without rejecting valid requests"). config.rs:60 promises something else, that
  the transport enforces the same cap on the whole body; the two cannot both hold, and the code does
  not do that (see below).
- `ShutdownEnds`: after Ctrl-C only a client that stalls for ever can keep the process from ending;
  calls at work, connections that go on coming in through the TLS listener and failing sweeps cannot.
  The condition on clients is part of the property, not of the fairness: the code has no
  time limit there (main.rs:196).
- `ExpiredGoes`: with a cleanup interval, an expired record goes while the daemon serves.

Six runs are expected to find a violation. Each states what a document or comment says and shows
that the code does something else:

| Run | Statement | What happens |
|---|---|---|
| `vault_once` | "exactly once" (README.md:11) | two overlapping retrievals both fetch before either deletes, and both return the proof; the sequential form is proved |
| `vault_ttl` | "expires_in_secs value is too large" (proof_vault.rs:109) | TTLs that fit i64 but not chrono panic at line 111 |
| `file_race` | the sidecar lock serialises processes (local_file.rs:22) | `new` does not take it: two processes creating the file can lose an acknowledged insert |
| `sqlite_far` | delete_expired removes records "whose `expires_at` has passed" (backend.rs:33) | a year past 9999 is printed with a `+` and sorts before every other: the record is swept at once |
| `rpc_lost` | "the record is deleted on success" (rpc/api.rs:39) | the response limit of jsonrpsee is left at its default: a batch of retrievals over it deletes the proofs and returns an error |
| `daemon_token` | the token set is "required in the `Authorization: Bearer <TOKEN>` header on every JSON-RPC request" (config.rs:20) | `VAULT__SERVER__AUTH_TOKEN=007` is parsed as a number: `Bearer 7` is let in, and `Bearer 007` is not |

Further disagreements met while modelling, which have no run of their own:

- `delete_proof` uses the record id of the token and never compares its key half (proof_vault.rs:232);
  proof_vault.rs:47 and data-flows.md:116 say that the full claim id is required. `ProofVault` and
  `RpcServer` model deletion with another key as what it is, a deletion.
- The transport limit is `max_proof_size_bytes` plus 4096 (server.rs:134), so methods run for bodies
  over the cap; config.rs:60 and configuration.md:52 say that the transport "enforces the same cap on
  the full request body". The comment at server.rs:132 and `LimitsAgree` are on the side of the code.
- `into_json` runs after the deletion (server.rs:70): a record that an embedding host stored and that
  is not JSON is deleted and the answer is an error, where rpc/api.rs:39 has "deleted on success".
  `RetrieveProof` models it, and `DeletedOnSuccess` leaves these records out.
- `stopped()` is awaited without a time limit (main.rs:196): a client that stops sending or reading
  keeps the process from ending. data-flows.md:193-200 shows Ctrl-C, stop, stopped, "exit 0". The
  condition of `ShutdownEnds` is exactly this.

### Bounds

Three requests are one store and two claimants, or a store, a sweep and a claimant: each vault
property relates at most two requests and the store behind them. Two ids let a sweep or a claim
touch the wrong record. A clock up to 2 has an instant before, at and after the expiry of TTL 1.
`I64Max = 12` and `MaxDateTime = 8` leave room for a TTL between the two limits and one beyond both.
Three tasks in two processes are two calls sharing a Mutex and one that shares only the file. Each
task makes one call: a process that goes on to call again is another task. In `sqlite` a second is 4 instants (`Base = 2`) and
the clock runs from 0 to 5, so that instants with no, one and two digits after the second meet on
both sides of a comparison; all are before `Year10000 = 8`, which only `sqlite_far` reaches. Two
tasks on one Mutex are a caller and one it may block; processes share only the table, whose
statements are atomic, so a second process adds nothing that a second task does not (`sqlite_far` has
two). In `daemon` sizes are scaled down: a proof may have 2 bytes, the
headroom is 4, a response may have 10. `p1` and `p3` are as large as a proof may be, `p4` is one byte
over, and its two bodies meet the two limits. The set-ups serve plain HTTP with a token from the third of
three layers and an interval from the second of two, and TLS with an empty token and no sweep; the other
two do not start. One body is a batch with each of the slips, whose response is exactly as
large as one may be. Two requests are one
that is at work while another comes, is refused or goes away. Interval 1 lets every tick be a deadline;
`cleanup` has the longer one. `rpc_lost` has one batch of two proofs of 2 bytes, which take 6 with
their envelopes; `daemon_token` has one request. Requests, ids and keys
are symmetric in the vault runs, which check invariants only.

### Fairness

`file`: a task that can go on is polled, the blocking pool runs a queued closure to its end,
and a lock that stays free is taken (weak fairness each; with finitely many calls no stronger
fairness of the locks is needed). Failures, drops and crashes are never fair. `sqlite`: the
same, where a closure may also end with an error (with a poisoned Mutex it must). `cleanup`: the loop
is polled and time passes (weak), a storage call ends one way or the other (weak), and storage does
not fail on every sweep for ever (strong, on `SweepOk`): an assumption about the environment,
without which no expired record need ever go. `daemon`: `main` and the sweep
as above, and a method that runs for a request comes back (weak, on `Call`). Nothing is assumed of
clients: reading a request and writing an answer wait for them, and the code has no timeout. Ctrl-C,
kills and failures are never fair.

Deadlock checking is on in every other run. In `ProofVault` the disjunct `Quiesced` stands for the end,
when all requests of the instance have been made; in `VaultDaemon` it is `Terminated`.
`rpc_lost` has one request and no such disjunct, so it does not check for deadlock.

## 4. The proofs

Every invariant that a passing run checks, and both refinements, are also proved with TLAPS, for any
sets of requests, tasks, records, bodies and set-ups and any limits. Almost none is inductive as it
stands; each proof module states the invariant it needs as a conjunction of named parts. TLC has
checked those invariants on the instances of the runs before they were proved.

| Module | Theorems | States | Hypothesis |
|---|---|---|---|
| `ProofVaultProofs` | `TypeCorrect`, `SpentOnce`, `OneCancel` | `TypeOK`, `ConsumedOnceInSequence`, `CancelUnique` | |
| `ProofVaultFateProofs` | `NoLoss`, `Honest`, `ExpiredFinal`, `CleanupDone` | `NoSilentLoss`, `HonestDelivery`, `ExpiredIsFinal`, `CleanupComplete` | |
| `LocalFileStoreProofs` | `TypeCorrect`, `NoLostUpdate`, `Implements` | `TypeOK`, `WriteIsCurrent`, `ImplementsBackend` | `NoCreationRace` |
| `SqliteStoreProofs` | `TextOrder`, `TypeCorrect`, `Implements` | the order of the texts, `TypeOK`, `ImplementsBackend` | years below 10000 (`TextOrder`), `FourDigitYears` (`Implements`) |
| `CleanupTaskProofs` | `TypeCorrect`, `TicksDoNotPileUp`, `OneLateSweep` | `TypeOK`, `NoBurst`, `AtMostOneLateSweep` | |
| `RpcServerProofs` | `DeliversWhatFits` | `DeletedOnSuccess` of the server alone | `ResponsesFit` |
| `VaultDaemonProofs` | `TypeCorrect`, `Precedence`, `ExitsClean`, `ExposureAsked`, `TokenRequired`, `Delivers`, `LimitsMirror` | `TypeOK`, the precedence of the layers, `CleanExit`, `ExposedOnlyIfAsked`, `AuthAsConfigured`, `DeletedOnSuccess`, `LimitsAgree` | `TokensReadBack` (`TokenRequired`), `ResponsesFit` (`Delivers`), `LimitUncut` (`LimitsMirror`) |

**The vault.** `IInv` follows a record through its life: before the insert it is neither stored nor held
by anyone (`Unborn`); a stored or fetched record is the one some `store_proof` built (`Kept`,
`Fetched`), and no two of them share an id (`UniqueIds`); after an Ok the record is gone (`Gone`)
and whoever begins afterwards never fetches it (`Forgotten`). `Unborn` is what keeps a late insert
from bringing a consumed record back, `Kept` and `Fetched` are what makes a fresh id fresh. `JInv` adds
by what right a request acts on a record: a token with a key that was drawn is one a returned
`store_proof` handed out (`Presented`); whoever is about to remove a record, a dropped request
whose write is still queued included, has fetched it and can open it, means to delete it, or found it
due (`Armed`); whoever is past the checks passed them (`Cleared`); and ProofExpired is said of a record
that has expired for everyone who begins later (`Overdue`, `OverdueBefore`), which is why the swallowed
error of a purge is harmless.

**The file backend.** `LockHeld` says that the closure between `LockFile` and its end is the one `flock` names.
`process_lock` does not occur in the argument, which is why dropped futures are harmless. For the
refinement, `RInv` says when a call has its effect: not before the rename, and what it will answer is
settled then (`EffectAtRename`). Each action of `LocalFileStore` maps to one step of `StorageBackend` or
to none. `NoCreationRace` says that the vault file exists or that a single process opens the vault; its
closures then only start once `new` has returned, so nothing is written beside the creation
(`FileStays`). Runs `file` and `file_new` satisfy it, each in one of the two ways, and `file_race` shows
that it is needed.

**The SQLite backend.** `TextOrder` is the lemma everything rests on: two texts differ first in
the seconds, at the point or in a digit of the fraction, and each time the earlier instant has the
smaller character. With it a statement that compares texts does what the contract says of the instants
(`LapsedAlike`). `FourDigitYears` says that the clock and all expiries are before the year 10000; run `sqlite` satisfies it,
and `sqlite_far` shows that it is needed.

**The sweep.** A tick still to be consumed belongs to the current interval (`TickUnused`), and after a
sweep that began late the loop polls the token before the timer (`LastSweep`).

**The server.** Each result is that of the call at its place, or the error that stands for it when it is too
large (`ResultsInPlace`), and the response is never
larger than what its calls can have added (`Accounted`). `ResponsesFit` says that the limit of the
response has room for every body, by a list of partial sums rather than by a recursive sum; run
`daemon` satisfies it, and `rpc_lost` shows that it is needed. `LimitUncut` says that
`max_proof_size_bytes` and the headroom together do not pass the largest `u32`: above it the transport
takes less than the limit on a proof allows. `OneCallSize` computes the size of a body with one call by
writing down the recursive function that a fold of one element is.

**The daemon.** The server follows `main` (`ServerFollows`); what it enforces is what the layers come to
(`Configured`), and whoever is past the bearer layer carries the token, and whoever it turned away does not
(`Admitted`). `Precedence` connects this with the texts as they were written; `TokensReadBack` says that
printing the token anew gives it back, which run `daemon` satisfies, and `daemon_token` shows that it is
needed. `ExposureAsked` needs no such hypothesis: "true" and an address are printed as they were.
`Winding` says who may still be at work when: past `stopped()` only requests that the TLS listener alone
has accepted, and none of them gets further, because the server has stopped.

The assumptions on constants are in the modules that declare them: markers such as `NoRecord` are
not records, TTLs are naturals or `Never`, limits are naturals, a body has at least one call, and a
configured token, as written and as printed anew, is one of `Tokens`. TLC evaluates them in every run.

Only model-checked:

- All liveness (`EveryCallReturns`, `EveryClosureEnds`, `CancelStops`, `LapsedIsSwept`, `ShutdownEnds`,
  `ExpiredGoes`): it needs fairness and ENABLED, which are beyond TLAPS here.
- The size of a body with several calls: it is a fold, and induction over its length is out of reach.
  No theorem needs it; `LimitsAgree` speaks of bodies with one call.

## 5. Not modelled

- Cryptography, zeroization of memory, logging and JSON layout.
- Power failure: `write_atomic` does not fsync, so a rename may survive a power cut that the data
  does not. The model has process crashes only.
- A clock that goes back, colliding UUIDs.
- The inside of SQLite: a statement is atomic, and durable against a crash of the process.
- WebSocket connections, malformed JSON-RPC and HTTP keep-alive: each request is a connection.
- `start_tls` starts the inner plain server before it binds the public address; when the bind
  fails the process ends with the inner server up. It is on loopback and nobody knows its port.
- That the token comparison takes constant time.
- Settings that decide nothing in the model: paths, the choice of the backend, the log level. (On
  the last, `--log-level` has the default value `info` at `main.rs:40`, so the level of the file or
  of the environment never takes effect without `RUST_LOG`; configuration.md:129 presents them as
  layers like the others.)

## 6. Plan

Done: `Records`, `ProofVault`, `StorageBackend`, `LocalFileStore`, `Rfc3339`,
`SqliteStore`, `CleanupTask`, `RpcServer`, `VaultConfig`, `VaultDaemon`, and the proofs above.

Next, in this order:

1. What the sweep promises inside the daemon (`NoBurst`, `AtMostOneLateSweep`), from the lemmas of
   `CleanupTaskProofs`.
2. The storage calls of `ProofVault` as steps of `StorageBackend`.
