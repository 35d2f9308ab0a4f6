--------------------------- MODULE LocalFileStore ---------------------------
(***************************************************************************)
(* LocalFileStore (storage/local_file.rs): one JSON file, opened by any    *)
(* number of processes, each running any number of async tasks.            *)
(*                                                                         *)
(* An operation takes the process's tokio Mutex, hands a closure to the    *)
(* blocking pool and awaits it.  The closure takes the exclusive lock of   *)
(* the .lock sidecar, reads the whole file, computes the new contents,     *)
(* renames a temporary file over the old one and sets its permissions.     *)
(* Dropping the future releases the Mutex and leaves the closure running;  *)
(* a crash ends the closure wherever it is and the kernel drops its lock.  *)
(*                                                                         *)
(* The temporary file is invisible until the rename, so creating, writing  *)
(* and flushing it is one step with it.  The page cache survives a process *)
(* crash; power failures are not modelled.                                 *)
(***************************************************************************)
EXTENDS Records

CONSTANTS
    Procs,        \* processes that share the vault file
    Tasks,        \* async tasks; each makes one call
    ProcOf,       \* the process a task runs in
    Calls,        \* the calls they may make
    NoCall,       \* a task that has not called yet
    NoTask,       \* a lock nobody holds
    Missing,      \* there is no vault file
    FileExists,   \* whether the vault file exists at the start
    MaxTime       \* bound of the clock

ASSUME ProcOfAssumption == ProcOf \in [Tasks -> Procs]
ASSUME CallsAssumption == Calls \subseteq CallType
ASSUME NoCallAssumption == NoCall \notin CallType
ASSUME NoTaskAssumption == NoTask \notin Tasks
ASSUME MissingAssumption == Missing \notin Contents
ASSUME FileExistsAssumption == FileExists \in BOOLEAN /\ MaxTime \in Nat

VARIABLES
    file,      \* the vault file: its contents, or Missing
    store,     \* per process: closed, creating, open
    plock,     \* per process: the task that holds process_lock
    flock,     \* the task whose closure holds the sidecar lock
    now,       \* Utc::now()
    call,      \* per task: the call it makes
    since,     \* per task: the clock when it made the call
    pc,        \* per task: the async side
    bpc,       \* per task: the closure on the blocking pool
    cutoff,    \* per task: `now` of delete_expired
    mem,       \* per task: the closure's `state`
    took,      \* per task, history: the call has taken effect
    reply      \* per task: the result of the closure

fileVars == <<file, store>>
lockVars == <<plock, flock>>
taskVars == <<call, since, pc>>
closureVars == <<bpc, cutoff, mem, took, reply>>
vars == <<file, store, plock, flock, now, call, since, pc, bpc, cutoff, mem, took, reply>>

AsyncStages == {"idle", "waiting", "awaiting", "returned", "dropped"}
ClosureStages == {"none", "queued", "locked", "read", "renamed", "ended"}

Init ==
    /\ file = IF FileExists THEN Empty ELSE Missing
    /\ store = [p \in Procs |-> "closed"]
    /\ plock = [p \in Procs |-> NoTask]
    /\ flock = NoTask
    /\ now = 0
    /\ call = [t \in Tasks |-> NoCall]
    /\ since = [t \in Tasks |-> 0]
    /\ pc = [t \in Tasks |-> "idle"]
    /\ bpc = [t \in Tasks |-> "none"]
    /\ cutoff = [t \in Tasks |-> 0]
    /\ mem = [t \in Tasks |-> Empty]
    /\ took = [t \in Tasks |-> FALSE]
    /\ reply = [t \in Tasks |-> Pending]

-----------------------------------------------------------------------------
(* LocalFileStore::new *)

\* vault_path.exists() decides, with no lock held.
Open(p) ==
    /\ store[p] = "closed"
    /\ store' = [store EXCEPT ![p] = IF file = Missing THEN "creating" ELSE "open"]
    /\ UNCHANGED <<file, lockVars, now, taskVars, closureVars>>

\* write_atomic of an empty map, over whatever is there by now.
Create(p) ==
    /\ store[p] = "creating"
    /\ store' = [store EXCEPT ![p] = "open"]
    /\ file' = Empty
    /\ UNCHANGED <<lockVars, now, taskVars, closureVars>>

\* The write fails, before or after the rename; the process gives up.
CreateFails(p) ==
    /\ store[p] = "creating"
    /\ store' = [store EXCEPT ![p] = "closed"]
    /\ file' \in {file, Empty}
    /\ UNCHANGED <<lockVars, now, taskVars, closureVars>>

-----------------------------------------------------------------------------
(* The async half of insert, fetch, delete and delete_expired *)

Invoke(t, c) ==
    /\ pc[t] = "idle" /\ store[ProcOf[t]] = "open"
    /\ pc' = [pc EXCEPT ![t] = "waiting"]
    /\ call' = [call EXCEPT ![t] = c]
    /\ since' = [since EXCEPT ![t] = now]
    /\ UNCHANGED <<fileVars, lockVars, now, closureVars>>

\* Mutant of Spawn: a second of grace taken off the clock reading.
SpawnWithGrace(t) ==
    /\ pc[t] = "waiting" /\ plock[ProcOf[t]] = NoTask
    /\ plock' = [plock EXCEPT ![ProcOf[t]] = t]
    /\ pc' = [pc EXCEPT ![t] = "awaiting"]
    /\ bpc' = [bpc EXCEPT ![t] = "queued"]
    /\ cutoff' = [cutoff EXCEPT ![t] = now - 1]
    /\ UNCHANGED <<fileVars, flock, now, call, since, mem, took, reply>>

\* Take process_lock, read the clock, queue the closure.
Spawn(t) ==
    /\ pc[t] = "waiting" /\ plock[ProcOf[t]] = NoTask
    /\ plock' = [plock EXCEPT ![ProcOf[t]] = t]
    /\ pc' = [pc EXCEPT ![t] = "awaiting"]
    /\ bpc' = [bpc EXCEPT ![t] = "queued"]
    /\ cutoff' = [cutoff EXCEPT ![t] = now]
    /\ UNCHANGED <<fileVars, flock, now, call, since, mem, took, reply>>

\* The closure has ended: hand its result on and drop process_lock's guard.
Return(t) ==
    /\ pc[t] = "awaiting" /\ bpc[t] = "ended"
    /\ pc' = [pc EXCEPT ![t] = "returned"]
    /\ plock' = [plock EXCEPT ![ProcOf[t]] = NoTask]
    /\ UNCHANGED <<fileVars, flock, now, call, since, closureVars>>

\* Mutant of PlockWithout: the guard leaked with the dropped future.
PlockLeaked(ts) == plock

\* process_lock without ts: the guard is dropped with the future that holds it.
PlockWithout(ts) ==
    [p \in Procs |-> IF plock[p] \in ts THEN NoTask ELSE plock[p]]

\* The future is dropped at one of its awaits; a closure it queued lives on.
Drop(t) ==
    /\ pc[t] \in {"waiting", "awaiting"}
    /\ pc' = [pc EXCEPT ![t] = "dropped"]
    /\ plock' = PlockWithout({t})
    /\ UNCHANGED <<fileVars, flock, now, call, since, closureVars>>

-----------------------------------------------------------------------------
(* The closure *)

\* Mutant of End: a result is handed on with the sidecar lock still held.
EndHoldingLock(t, result) ==
    /\ bpc' = [bpc EXCEPT ![t] = "ended"]
    /\ mem' = [mem EXCEPT ![t] = Empty]
    /\ reply' = [reply EXCEPT ![t] = result]
    /\ UNCHANGED flock

\* A closure ends with a result; its map and its guard of the sidecar lock go.
End(t, result) ==
    /\ bpc' = [bpc EXCEPT ![t] = "ended"]
    /\ mem' = [mem EXCEPT ![t] = Empty]
    /\ reply' = [reply EXCEPT ![t] = result]
    /\ flock' = IF flock = t THEN NoTask ELSE flock

\* Mutant of LockFile: a closure that does not wait for the sidecar lock.
LockFileShared(t) ==
    /\ bpc[t] = "queued"
    /\ bpc' = [bpc EXCEPT ![t] = "locked"]
    /\ flock' = t
    /\ UNCHANGED <<fileVars, plock, now, taskVars, cutoff, mem, took, reply>>

\* open_lock_file and write(): each closure locks through a descriptor of its
\* own, so the lock also excludes closures of the same process.
LockFile(t) ==
    /\ bpc[t] = "queued" /\ flock = NoTask
    /\ bpc' = [bpc EXCEPT ![t] = "locked"]
    /\ flock' = t
    /\ UNCHANGED <<fileVars, plock, now, taskVars, cutoff, mem, took, reply>>

\* Mutant of MustWrite: a deletion left in memory.
MustWriteInsertsOnly(t, s) == call[t].kind = "insert"

\* Whether the closure goes on to write_atomic: insert always, delete and
\* delete_expired when they removed something, fetch never.
MustWrite(t, s) ==
    \/ call[t].kind = "insert"
    \/ Removed(s, After(s, call[t], cutoff[t])) # {}

\* read_state, and the computation on the map it returns.
ReadState(t) ==
    /\ bpc[t] = "locked"
    /\ file # Missing
    /\ IF MustWrite(t, file)
       THEN /\ bpc' = [bpc EXCEPT ![t] = "read"]
            /\ reply' = [reply EXCEPT ![t] = Answer(file, call[t], cutoff[t])]
            /\ mem' = [mem EXCEPT ![t] = After(file, call[t], cutoff[t])]
            /\ UNCHANGED <<flock, took>>
       ELSE /\ End(t, Answer(file, call[t], cutoff[t]))
            /\ took' = [took EXCEPT ![t] = TRUE]
    /\ UNCHANGED <<fileVars, plock, now, taskVars, cutoff>>

\* write_atomic up to the rename, which makes the new contents visible.
Rename(t) ==
    /\ bpc[t] = "read"
    /\ file' = mem[t]
    /\ bpc' = [bpc EXCEPT ![t] = "renamed"]
    /\ took' = [took EXCEPT ![t] = TRUE]
    /\ UNCHANGED <<store, lockVars, now, taskVars, cutoff, mem, reply>>

SetPermissions(t) ==
    /\ bpc[t] = "renamed"
    /\ End(t, reply[t])
    /\ UNCHANGED <<fileVars, plock, now, taskVars, cutoff, took>>

\* Mutant of ClosureFails: the error of write_atomic dropped, the answer kept.
ClosureFailsQuietly(t) ==
    /\ bpc[t] \in {"queued", "locked", "read", "renamed"}
    /\ End(t, IF bpc[t] = "read" THEN reply[t] ELSE Failed)
    /\ UNCHANGED <<fileVars, plock, now, taskVars, cutoff, took>>

\* An I/O or JSON error at any of the closure's steps, the one after the
\* rename included.
ClosureFails(t) ==
    /\ bpc[t] \in {"queued", "locked", "read", "renamed"}
    /\ End(t, Failed)
    /\ UNCHANGED <<fileVars, plock, now, taskVars, cutoff, took>>

-----------------------------------------------------------------------------
(* The environment *)

TasksOf(p) == {t \in Tasks : ProcOf[t] = p}

\* A process dies: its tasks and closures with it, and the locks they hold.
Crash(p) ==
    /\ store[p] # "closed"
    /\ store' = [store EXCEPT ![p] = "closed"]
    /\ pc' = [t \in Tasks |->
            IF t \in TasksOf(p) /\ pc[t] \in {"waiting", "awaiting"}
            THEN "dropped" ELSE pc[t]]
    /\ bpc' = [t \in Tasks |->
            IF t \in TasksOf(p) /\ bpc[t] # "none" THEN "ended" ELSE bpc[t]]
    /\ mem' = [t \in Tasks |-> IF t \in TasksOf(p) THEN Empty ELSE mem[t]]
    /\ plock' = [plock EXCEPT ![p] = NoTask]
    /\ flock' = IF flock \in TasksOf(p) THEN NoTask ELSE flock
    /\ UNCHANGED <<file, now, call, since, cutoff, took, reply>>

Tick ==
    /\ now < MaxTime
    /\ now' = now + 1
    /\ UNCHANGED <<fileVars, lockVars, taskVars, closureVars>>

-----------------------------------------------------------------------------
Next ==
    \/ \E p \in Procs : Open(p) \/ Create(p) \/ CreateFails(p) \/ Crash(p)
    \/ \E t \in Tasks :
        \/ \E c \in Calls : Invoke(t, c)
        \/ Spawn(t) \/ Return(t) \/ Drop(t)
        \/ LockFile(t) \/ ReadState(t) \/ Rename(t) \/ SetPermissions(t)
        \/ ClosureFails(t)
    \/ Tick

\* The executor polls a task that can go on, the blocking pool runs a queued
\* closure to its end, and a lock that stays free is taken.
Fairness ==
    \A t \in Tasks :
        /\ WF_vars(Spawn(t)) /\ WF_vars(Return(t))
        /\ WF_vars(LockFile(t) \/ ReadState(t) \/ Rename(t) \/ SetPermissions(t))

Spec == Init /\ [][Next]_vars

FairSpec == Spec /\ Fairness
-----------------------------------------------------------------------------
(* Properties *)

\* Every variable has its type.
TypeOK ==
    /\ file \in Contents \cup {Missing}
    /\ store \in [Procs -> {"closed", "creating", "open"}]
    /\ plock \in [Procs -> Tasks \cup {NoTask}]
    /\ flock \in Tasks \cup {NoTask}
    /\ now \in Nat
    /\ call \in [Tasks -> CallType \cup {NoCall}]
    /\ since \in [Tasks -> Nat]
    /\ pc \in [Tasks -> AsyncStages]
    /\ bpc \in [Tasks -> ClosureStages]
    /\ cutoff \in [Tasks -> Nat]
    /\ mem \in [Tasks -> Contents]
    /\ took \in [Tasks -> BOOLEAN]
    /\ reply \in [Tasks -> ReplyType]

\* No lost update: what a closure is about to rename over the vault file is the
\* file as it is now with this one call applied, and so is the answer it will
\* give.  Nobody has replaced the file since read_state, not even the closure
\* of a dropped future, which no longer holds process_lock.
WriteIsCurrent ==
    \A t \in Tasks : bpc[t] = "read" =>
        /\ file # Missing
        /\ mem[t] = After(file, call[t], cutoff[t])
        /\ reply[t] = Answer(file, call[t], cutoff[t])

\* What the callers of the trait see: the contents, how far a call is, and its
\* answer, which is settled by the effect or by an error.
Visible == IF file = Missing THEN Empty ELSE file

StatusOf(t) ==
    CASE pc[t] = "idle" -> "idle"
      [] pc[t] \in {"waiting", "awaiting"} -> "called"
      [] pc[t] = "returned" -> "returned"
      [] pc[t] = "dropped" -> "abandoned"

ReplyOf(t) == IF took[t] \/ pc[t] = "returned" THEN reply[t] ELSE Pending

\* The contract of the trait, with the effect at the rename (or at read_state
\* when nothing is written).
Backend == INSTANCE StorageBackend WITH
    records <- Visible,
    status <- [t \in Tasks |-> StatusOf(t)],
    applied <- took,
    reply <- [t \in Tasks |-> ReplyOf(t)]

\* LocalFileStore implements StorageBackend: every call of every process
\* appears to take effect at one instant, through drops, errors and crashes.
ImplementsBackend == Backend!Spec

\* Every call comes back: a task that asked for process_lock returns or is
\* dropped.  No drop, failed closure or crash leaves a lock behind.
EveryCallReturns ==
    \A t \in Tasks : pc[t] = "waiting" ~> pc[t] \in {"returned", "dropped"}

\* A dropped call whose closure was queued still runs to its end: the blocking
\* pool finishes it although nobody waits for it.
EveryClosureEnds ==
    \A t \in Tasks : bpc[t] = "queued" ~> bpc[t] = "ended"

-----------------------------------------------------------------------------
(* What the documentation says and the code does not do *)

\* The documentation of LocalFileStore: the sidecar lock serialises access from
\* different processes, so an insert that returned Ok is in the file unless a
\* deletion was asked for.  `new` creates the file without taking that lock.
InsertsSurvive ==
    \A t \in Tasks :
        /\ pc[t] = "returned" /\ reply[t].status = "ok" /\ call[t].kind = "insert"
        /\ \A u \in Tasks : pc[u] # "idle" => call[u].kind \in {"insert", "fetch"}
        => file[call[t].id] # NoRecord
=============================================================================
