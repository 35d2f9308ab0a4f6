---------------------------- MODULE CleanupTask ----------------------------
(***************************************************************************)
(* The background sweep of vault/cleanup.rs: a loop over a biased select   *)
(* between a cancellation token and an interval timer.                     *)
(*                                                                         *)
(* Time is kept modulo the interval: `phase` is the position in the        *)
(* current interval and `due` the number of deadlines of the timer that    *)
(* have passed and that no tick has consumed yet.  A sweep that takes      *)
(* longer than the interval misses some; what becomes of them is decided   *)
(* by MissedTickBehavior::Skip at the next tick.                           *)
(*                                                                         *)
(* The two branches of the select are polled one after the other, so a     *)
(* token cancelled from another thread between the two polls is seen only  *)
(* at the next turn of the loop.                                           *)
(***************************************************************************)
EXTENDS Naturals

CONSTANTS
    Interval,   \* clock units between two deadlines of the timer
    Proofs      \* records that may expire while the task runs

ASSUME IntervalAssumption == Interval \in Nat \ {0}

VARIABLES
    parent,   \* the host's CancellationToken is cancelled
    child,    \* the task's own token is cancelled
    task,     \* where the loop is
    phase,    \* the clock, modulo Interval
    due,      \* deadlines that have passed and have not been consumed
    lapsed,   \* expired records in the backend
    swept,    \* those that the sweep in progress will remove
    begun,    \* history: sweeps begun in the current interval
    late      \* history: sweeps begun after child was cancelled

vars == <<parent, child, task, phase, due, lapsed, swept, begun, late>>
tokenVars == <<parent, child>>
timeVars == <<phase, due>>
proofVars == <<lapsed, swept>>
historyVars == <<begun, late>>

\* Deadlines are counted up to here: one, or more than one.
Many == 2

LoopStages == {"pollCancel", "pollTick", "parked", "sweeping", "deleting", "stopped"}

\* spawn_cleanup_task: the first tick of the timer is immediate.
Init ==
    /\ parent = FALSE /\ child = FALSE
    /\ task = "pollCancel"
    /\ phase = 0 /\ due = 1
    /\ lapsed \in SUBSET Proofs /\ swept = {}
    /\ begun = 0 /\ late = 0

-----------------------------------------------------------------------------
(* The loop *)

\* Mutant of PollCancel: the token only looked at when there is no tick to serve.
PollCancelLast ==
    /\ task = "pollCancel"
    /\ task' = IF child /\ due = 0 THEN "stopped" ELSE "pollTick"
    /\ UNCHANGED <<tokenVars, timeVars, proofVars, historyVars>>

\* task_token.cancelled() comes first: the select is biased.
PollCancel ==
    /\ task = "pollCancel"
    /\ task' = IF child THEN "stopped" ELSE "pollTick"
    /\ UNCHANGED <<tokenVars, timeVars, proofVars, historyVars>>

\* Mutant of PollTick: MissedTickBehavior::Burst, which is tokio's default: every
\* deadline that was missed gets its tick.
PollTickBurst ==
    /\ task = "pollTick"
    /\ task' = IF due > 0 THEN "sweeping" ELSE "parked"
    /\ due' = IF due > 0 THEN due - 1 ELSE 0
    /\ begun' = IF due > 0 THEN begun + 1 ELSE begun
    /\ late' = IF due > 0 /\ child THEN late + 1 ELSE late
    /\ UNCHANGED <<tokenVars, phase, proofVars>>

\* ticker.tick(): begin a sweep, or wait to be woken.  Skip: the next deadline is
\* the first one still to come, whatever was missed.
PollTick ==
    /\ task = "pollTick"
    /\ task' = IF due > 0 THEN "sweeping" ELSE "parked"
    /\ due' = 0
    /\ begun' = IF due > 0 THEN begun + 1 ELSE begun
    /\ late' = IF due > 0 /\ child THEN late + 1 ELSE late
    /\ UNCHANGED <<tokenVars, phase, proofVars>>

Wake ==
    /\ task = "parked" /\ (child \/ due > 0)
    /\ task' = "pollCancel"
    /\ UNCHANGED <<tokenVars, timeVars, proofVars, historyVars>>

\* vault.cleanup(): delete_expired reads the clock...
SweepReads ==
    /\ task = "sweeping"
    /\ task' = "deleting"
    /\ swept' = lapsed
    /\ UNCHANGED <<tokenVars, timeVars, lapsed, historyVars>>

\* ... and removes what had expired by then.
SweepOk ==
    /\ task = "deleting"
    /\ task' = "pollCancel"
    /\ lapsed' = lapsed \ swept /\ swept' = {}
    /\ UNCHANGED <<tokenVars, timeVars, historyVars>>

\* Mutant of SweepFails: the error leaves the loop.
SweepFailsForGood ==
    /\ task = "deleting"
    /\ task' = "stopped"
    /\ swept' = {}
    /\ UNCHANGED <<tokenVars, timeVars, lapsed, historyVars>>

\* Mutant of SweepFails: unwrap() in place of the match.
SweepFailsUnwrapped ==
    /\ task = "deleting"
    /\ task' = "panicked"
    /\ swept' = {}
    /\ UNCHANGED <<tokenVars, timeVars, lapsed, historyVars>>

\* Any error is logged and the loop goes on.  Nothing fails before the clock is
\* read; storage may report an error after its effect, too.
SweepFails ==
    /\ task = "deleting"
    /\ task' = "pollCancel"
    /\ lapsed' \in {lapsed, lapsed \ swept} /\ swept' = {}
    /\ UNCHANGED <<tokenVars, timeVars, historyVars>>

-----------------------------------------------------------------------------
(* The host *)

\* CleanupTask::stop cancels the child token alone.
Stop ==
    /\ ~child
    /\ child' = TRUE
    /\ UNCHANGED <<parent, task, timeVars, proofVars, historyVars>>

\* Mutant of CancelParent: a token of its own in place of a child token.
CancelParentAlone ==
    /\ ~parent
    /\ parent' = TRUE
    /\ UNCHANGED <<child, task, timeVars, proofVars, historyVars>>

\* Cancelling the host's token cancels its children.
CancelParent ==
    /\ ~parent
    /\ parent' = TRUE /\ child' = TRUE
    /\ UNCHANGED <<task, timeVars, proofVars, historyVars>>

\* Time passes; at the end of the interval there is a deadline.
Tick ==
    /\ phase' = (phase + 1) % Interval
    /\ due' = IF phase' = 0 /\ due < Many THEN due + 1 ELSE due
    /\ begun' = IF phase' = 0 THEN 0 ELSE begun
    /\ UNCHANGED <<tokenVars, task, proofVars, late>>

\* A stored record passes its expiry.
Lapse(x) ==
    /\ lapsed' = lapsed \cup {x}
    /\ UNCHANGED <<tokenVars, task, timeVars, swept, historyVars>>

-----------------------------------------------------------------------------
Loop == PollCancel \/ PollTick \/ Wake \/ SweepReads

Next ==
    \/ Loop \/ SweepOk \/ SweepFails
    \/ Stop \/ CancelParent \/ Tick
    \/ \E x \in Proofs : Lapse(x)

\* The runtime polls a task that can go on, time passes, a storage call ends
\* one way or the other, and storage does not fail on every sweep for ever.
Fairness ==
    /\ WF_vars(Loop) /\ WF_vars(Tick)
    /\ WF_vars(SweepOk \/ SweepFails) /\ SF_vars(SweepOk)

Spec == Init /\ [][Next]_vars /\ Fairness

-----------------------------------------------------------------------------
(* Properties *)

\* Every variable has its type.
TypeOK ==
    /\ parent \in BOOLEAN /\ child \in BOOLEAN
    /\ task \in LoopStages
    /\ phase \in 0 .. Interval - 1 /\ due \in 0 .. Many
    /\ lapsed \subseteq Proofs /\ swept \subseteq Proofs
    /\ begun \in Nat /\ late \in Nat

\* "Skip a tick if the sweep takes longer than the interval rather than letting
\* ticks pile up": however many deadlines a sweep missed, at most one sweep
\* begins in any interval of the timer.
NoBurst == begun <= 1

\* Once the task's token is cancelled at most one sweep still begins: the one
\* whose tick was being polled when the cancellation arrived.
AtMostOneLateSweep == late <= 1

\* Both ways of cancelling end the task: the host's token, through the child
\* token, and CleanupTask::stop; a sweep in progress or failing cannot keep it.
CancelStops == (parent \/ child) ~> task = "stopped"

\* An expired record is removed by some later sweep unless the task is
\* cancelled: failed sweeps are retried at the next tick.
LapsedIsSwept == \A x \in Proofs : x \in lapsed ~> (x \notin lapsed \/ child)
=============================================================================
