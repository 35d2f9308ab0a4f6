--------------------------- MODULE StorageBackend ---------------------------
(***************************************************************************)
(* What the StorageBackend trait (storage/backend.rs) promises its         *)
(* callers: every call takes effect at one instant between its start and   *)
(* its return, or not at all; a call that fails, or that its caller        *)
(* abandons, may have taken effect or (if abandoned) may still do so.      *)
(* ProofVault is written against this contract; LocalFileStore and         *)
(* SqliteStore implement it.                                               *)
(***************************************************************************)
EXTENDS Records

CONSTANTS
    Tasks,    \* callers; each makes one call
    Calls,    \* the calls they may make
    NoCall    \* a task that has not called yet

VARIABLES
    records,   \* the contents of the backend
    now,       \* the clock
    call,      \* the call a task made
    since,     \* the clock when it made it
    status,    \* idle, called, returned, abandoned
    applied,   \* whether the call has taken effect
    reply      \* its answer, from the instant of the effect

vars == <<records, now, call, since, status, applied, reply>>

Init ==
    /\ records = Empty
    /\ now = 0
    /\ call = [t \in Tasks |-> NoCall]
    /\ since = [t \in Tasks |-> 0]
    /\ status = [t \in Tasks |-> "idle"]
    /\ applied = [t \in Tasks |-> FALSE]
    /\ reply = [t \in Tasks |-> Pending]

Invoke(t, c) ==
    /\ status[t] = "idle"
    /\ status' = [status EXCEPT ![t] = "called"]
    /\ call' = [call EXCEPT ![t] = c]
    /\ since' = [since EXCEPT ![t] = now]
    /\ UNCHANGED <<records, now, applied, reply>>

\* The instant of the effect.  delete_expired may use any clock reading it
\* took since the call began.
Apply(t, cutoff) ==
    /\ status[t] \in {"called", "abandoned"}
    /\ ~applied[t]
    /\ applied' = [applied EXCEPT ![t] = TRUE]
    /\ records' = After(records, call[t], cutoff)
    /\ reply' = [reply EXCEPT ![t] = Answer(records, call[t], cutoff)]
    /\ UNCHANGED <<now, call, since, status>>

\* A call that took effect runs into an error afterwards.
Spoil(t) ==
    /\ applied[t] /\ reply[t].status = "ok"
    /\ status[t] \in {"called", "abandoned"}
    /\ reply' = [reply EXCEPT ![t] = Failed]
    /\ UNCHANGED <<records, now, call, since, status, applied>>

Return(t) ==
    /\ status[t] = "called"
    /\ applied[t]
    /\ status' = [status EXCEPT ![t] = "returned"]
    /\ UNCHANGED <<records, now, call, since, applied, reply>>

\* A call that returns an error without having taken effect never will.
Fail(t) ==
    /\ status[t] = "called"
    /\ ~applied[t]
    /\ status' = [status EXCEPT ![t] = "returned"]
    /\ reply' = [reply EXCEPT ![t] = Failed]
    /\ UNCHANGED <<records, now, call, since, applied>>

\* The futures are dropped, or the process that waits for them dies.
Abandon(ts) ==
    /\ ts # {}
    /\ \A t \in ts : status[t] = "called"
    /\ status' = [t \in Tasks |-> IF t \in ts THEN "abandoned" ELSE status[t]]
    /\ UNCHANGED <<records, now, call, since, applied, reply>>

Tick ==
    /\ now' = now + 1
    /\ UNCHANGED <<records, call, since, status, applied, reply>>

Next ==
    \/ \E t \in Tasks :
        \/ \E c \in Calls : Invoke(t, c)
        \/ \E cutoff \in since[t] .. now : Apply(t, cutoff)
        \/ Spoil(t) \/ Return(t) \/ Fail(t)
    \/ \E ts \in SUBSET Tasks : Abandon(ts)
    \/ Tick

Spec == Init /\ [][Next]_vars
=============================================================================
