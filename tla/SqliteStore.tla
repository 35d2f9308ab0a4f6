---------------------------- MODULE SqliteStore ----------------------------
(***************************************************************************)
(* SqliteStore (storage/sqlite.rs): one table, opened by any number of     *)
(* processes.  Each call queues a closure on the blocking pool; the        *)
(* closure takes the std Mutex around the process's connection and runs    *)
(* one SQL statement, which SQLite makes atomic, and durable against a     *)
(* crash of the process.                                                   *)
(*                                                                         *)
(* Expiry instants are stored and compared as RFC 3339 text.  A panic      *)
(* under the Mutex poisons it; later calls of the process then fail.       *)
(***************************************************************************)
EXTENDS Records, Rfc3339

CONSTANTS
    Procs,     \* processes that share the database
    Tasks,     \* async tasks; each makes one call
    ProcOf,    \* the process a task runs in
    Calls,     \* the calls they may make
    NoCall,    \* a task that has not called yet
    NoTask,    \* a Mutex nobody holds
    MaxTime    \* bound of the clock

ASSUME ProcOfAssumption == ProcOf \in [Tasks -> Procs]
ASSUME CallsAssumption == Calls \subseteq CallType
ASSUME NoCallAssumption == NoCall \notin CallType
ASSUME NoTaskAssumption == NoTask \notin Tasks
ASSUME MaxTimeAssumption == MaxTime \in Nat

VARIABLES
    table,      \* the proofs table
    open,       \* the processes that have opened the database
    conn,       \* per process: the task whose closure holds the Mutex
    poisoned,   \* the processes whose Mutex is poisoned
    now,        \* Utc::now()
    call,       \* per task: the call it makes
    since,      \* per task: the clock when it made it, `now` of delete_expired
    pc,         \* per task: the async side
    bpc,        \* per task: the closure on the blocking pool
    took,       \* per task, history: the call has taken effect
    reply       \* per task: the result of the closure

vars == <<table, open, conn, poisoned, now, call, since, pc, bpc, took, reply>>
procVars == <<open, conn, poisoned>>
taskVars == <<call, since, pc>>
closureVars == <<bpc, took, reply>>

\* An empty database: the migration creates the table if it is not there.
Init ==
    /\ table = Empty
    /\ open = {} /\ poisoned = {}
    /\ conn = [p \in Procs |-> NoTask]
    /\ now = 0
    /\ call = [t \in Tasks |-> NoCall]
    /\ since = [t \in Tasks |-> 0]
    /\ pc = [t \in Tasks |-> "idle"]
    /\ bpc = [t \in Tasks |-> "none"]
    /\ took = [t \in Tasks |-> FALSE]
    /\ reply = [t \in Tasks |-> Pending]

-----------------------------------------------------------------------------
\* new(): open the file, set the pragmas, migrate.  All of it may be repeated
\* on a database that is in use, and an error leaves nothing behind.
Open(p) ==
    /\ p \notin open
    /\ open' = open \cup {p}
    /\ UNCHANGED <<table, conn, poisoned, now, taskVars, closureVars>>

\* Mutant of Invoke: a cutoff one unit before the clock, as `now - grace` would be.
InvokeWithGrace(t, c) ==
    /\ pc[t] = "idle" /\ ProcOf[t] \in open
    /\ pc' = [pc EXCEPT ![t] = "awaiting"]
    /\ call' = [call EXCEPT ![t] = c]
    /\ since' = [since EXCEPT ![t] = now - 1]
    /\ bpc' = [bpc EXCEPT ![t] = "queued"]
    /\ UNCHANGED <<table, procVars, now, took, reply>>

\* The async half runs to the await of the closure in one stretch.
Invoke(t, c) ==
    /\ pc[t] = "idle" /\ ProcOf[t] \in open
    /\ pc' = [pc EXCEPT ![t] = "awaiting"]
    /\ call' = [call EXCEPT ![t] = c]
    /\ since' = [since EXCEPT ![t] = now]
    /\ bpc' = [bpc EXCEPT ![t] = "queued"]
    /\ UNCHANGED <<table, procVars, now, took, reply>>

Return(t) ==
    /\ pc[t] = "awaiting" /\ bpc[t] = "ended"
    /\ pc' = [pc EXCEPT ![t] = "returned"]
    /\ UNCHANGED <<table, procVars, now, call, since, closureVars>>

\* The future is dropped; the closure lives on.
Drop(t) ==
    /\ pc[t] = "awaiting"
    /\ pc' = [pc EXCEPT ![t] = "dropped"]
    /\ UNCHANGED <<table, procVars, now, call, since, closureVars>>

-----------------------------------------------------------------------------
(* The closure *)

LockConn(t) ==
    /\ bpc[t] = "queued" /\ conn[ProcOf[t]] = NoTask /\ ProcOf[t] \notin poisoned
    /\ conn' = [conn EXCEPT ![ProcOf[t]] = t]
    /\ bpc' = [bpc EXCEPT ![t] = "locked"]
    /\ UNCHANGED <<table, open, poisoned, now, taskVars, took, reply>>

\* Mutant of Unlock: the Mutex not given back.
UnlockNot(t) == conn

\* The guard of the Mutex goes with the closure.
Unlock(t) ==
    [p \in Procs |-> IF conn[p] = t THEN NoTask ELSE conn[p]]

End(t, result) ==
    /\ bpc' = [bpc EXCEPT ![t] = "ended"]
    /\ reply' = [reply EXCEPT ![t] = result]
    /\ conn' = Unlock(t)

\* WHERE expires_at IS NOT NULL AND expires_at <= ?1, on the texts.
TextLapsed(rec, t) ==
    /\ rec.expires_at # Never
    /\ TextLeq(ToRfc3339(rec.expires_at), ToRfc3339(t))

\* The table after a statement.
Executed(s, c, t) ==
    CASE c.kind = "insert" -> Put(s, c.id, c.rec)
      [] c.kind = "fetch" -> s
      [] c.kind = "delete" -> Remove(s, c.id)
      [] c.kind = "delete_expired" ->
            [id \in RecordIds |->
                IF s[id] # NoRecord /\ TextLapsed(s[id], t) THEN NoRecord ELSE s[id]]

\* A row that fetch can turn into a record: parse_datetime takes its expiry.
Readable(rec) == rec.expires_at # Never => Parses(rec.expires_at)

\* One statement in autocommit mode, and the conversion of what it returns.
Execute(t) ==
    /\ bpc[t] = "locked"
    /\ call[t].kind = "fetch" /\ table[call[t].id] # NoRecord => Readable(table[call[t].id])
    /\ LET after == Executed(table, call[t], since[t]) IN
        /\ table' = after
        /\ took' = [took EXCEPT ![t] = TRUE]
        /\ End(t, [status |-> "ok",
                   found |-> IF call[t].kind = "fetch" THEN table[call[t].id] ELSE NoRecord,
                   removed |-> Removed(table, after)])
    /\ UNCHANGED <<open, poisoned, now, taskVars>>

\* An SQL error (a busy database, an unreadable row) or a poisoned Mutex.
ClosureFails(t) ==
    /\ \/ bpc[t] = "locked"
       \/ bpc[t] = "queued" /\ ProcOf[t] \in poisoned
    /\ End(t, Failed)
    /\ UNCHANGED <<table, open, poisoned, now, taskVars, took>>

\* A panic under the Mutex: the caller gets a JoinError.
ClosurePanics(t) ==
    /\ bpc[t] = "locked"
    /\ poisoned' = poisoned \cup {ProcOf[t]}
    /\ End(t, Failed)
    /\ UNCHANGED <<table, open, now, taskVars, took>>

-----------------------------------------------------------------------------
TasksOf(p) == {t \in Tasks : ProcOf[t] = p}

\* A process dies with its tasks, its closures and its Mutex.
Crash(p) ==
    /\ p \in open
    /\ open' = open \ {p} /\ poisoned' = poisoned \ {p}
    /\ conn' = [conn EXCEPT ![p] = NoTask]
    /\ pc' = [t \in Tasks |->
            IF t \in TasksOf(p) /\ pc[t] = "awaiting" THEN "dropped" ELSE pc[t]]
    /\ bpc' = [t \in Tasks |->
            IF t \in TasksOf(p) /\ bpc[t] # "none" THEN "ended" ELSE bpc[t]]
    /\ UNCHANGED <<table, now, call, since, took, reply>>

Tick ==
    /\ now < MaxTime
    /\ now' = now + 1
    /\ UNCHANGED <<table, procVars, taskVars, closureVars>>

Next ==
    \/ \E p \in Procs : Open(p) \/ Crash(p)
    \/ \E t \in Tasks :
        \/ \E c \in Calls : Invoke(t, c)
        \/ Return(t) \/ Drop(t)
        \/ LockConn(t) \/ Execute(t) \/ ClosureFails(t) \/ ClosurePanics(t)
    \/ Tick

Spec == Init /\ [][Next]_vars

\* A task that can go on is polled, and the blocking pool runs a closure to its
\* end, with a result or with an error.
Fairness ==
    \A t \in Tasks :
        /\ WF_vars(Return(t))
        /\ WF_vars(LockConn(t) \/ Execute(t) \/ ClosureFails(t))

FairSpec == Spec /\ Fairness

-----------------------------------------------------------------------------
(* Properties *)

\* Every variable has its type; an answer is one the trait can give.
TypeOK ==
    /\ table \in Contents
    /\ open \subseteq Procs /\ poisoned \subseteq Procs
    /\ conn \in [Procs -> Tasks \cup {NoTask}]
    /\ now \in Nat
    /\ call \in [Tasks -> CallType \cup {NoCall}]
    /\ since \in [Tasks -> Nat]
    /\ pc \in [Tasks -> {"idle", "awaiting", "returned", "dropped"}]
    /\ bpc \in [Tasks -> {"none", "queued", "locked", "ended"}]
    /\ took \in [Tasks -> BOOLEAN]
    /\ reply \in [Tasks -> ReplyType]

\* What the callers of the trait see: how far a call is, and its answer, which
\* is settled by the effect or by an error.
StatusOf(t) ==
    CASE pc[t] = "idle" -> "idle"
      [] pc[t] = "awaiting" -> "called"
      [] pc[t] = "returned" -> "returned"
      [] pc[t] = "dropped" -> "abandoned"

ReplyOf(t) == IF took[t] \/ pc[t] = "returned" THEN reply[t] ELSE Pending

\* The contract of the trait, with the effect at the statement.
Backend == INSTANCE StorageBackend WITH
    records <- table,
    status <- [t \in Tasks |-> StatusOf(t)],
    applied <- took,
    reply <- [t \in Tasks |-> ReplyOf(t)]

\* SqliteStore implements StorageBackend while every instant has a year of four
\* digits: in particular comparing expiry texts is comparing expiry instants,
\* whether or not they have a fraction of a second and however many digits it has.
ImplementsBackend == Backend!Spec

\* Every call comes back: with an answer, or with an error once the Mutex is
\* poisoned.  No drop, panic or crash leaves a caller waiting.
EveryCallReturns ==
    \A t \in Tasks : pc[t] = "awaiting" ~> pc[t] \in {"returned", "dropped"}

\* StorageBackend::delete_expired: it removes the records "whose expires_at has
\* passed".  A record that nobody deletes or replaces is there until then.
KeptUntilExpiry ==
    \A t \in Tasks :
        /\ pc[t] = "returned" /\ call[t].kind = "insert" /\ reply[t].status = "ok"
        /\ \A u \in Tasks \ {t} : pc[u] # "idle" => call[u].kind \notin {"insert", "delete"}
        /\ ~Lapsed(call[t].rec, now)
        => table[call[t].id] # NoRecord
=============================================================================
