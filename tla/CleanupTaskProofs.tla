------------------------- MODULE CleanupTaskProofs -------------------------
(***************************************************************************)
(* Proofs about CleanupTask for any interval of the timer and any number   *)
(* of records.  Two facts carry them: a tick that is still to be consumed  *)
(* belongs to the current interval (TickUnused), and a sweep that began    *)
(* after the cancellation is followed by a poll of the token, never by     *)
(* another poll of the timer (LastSweep).                                  *)
(***************************************************************************)
EXTENDS CleanupTask, TLAPS

\* While a deadline waits to be consumed no sweep has begun in its interval.
TickUnused == begun <= 1 /\ (due > 0 => begun = 0)

\* After a late sweep the loop cannot reach the timer: PollCancel comes first.
LastSweep == late = 0 \/ (late = 1 /\ child /\ task # "pollTick")

IInv == TypeOK /\ TickUnused /\ LastSweep

-----------------------------------------------------------------------------
\* The position in the interval starts over.
LEMMA PhaseWraps ==
    ASSUME NEW p \in 0 .. Interval - 1
    PROVE  (p + 1) % Interval \in 0 .. Interval - 1
BY IntervalAssumption

\* The invariant holds initially.
LEMMA InitInv == Init => IInv
<1> SUFFICES ASSUME Init PROVE IInv
  OBVIOUS
<1>1. parent \in BOOLEAN /\ child \in BOOLEAN
  BY DEF Init
<1>2. phase \in 0 .. Interval - 1 /\ due \in 0 .. Many /\ begun \in Nat /\ late \in Nat
  BY IntervalAssumption DEF Init, Many
<1>3. TypeOK
  BY <1>1, <1>2 DEF Init, TypeOK, LoopStages
<1> QED BY <1>3 DEF Init, IInv, TickUnused, LastSweep

\* A sweep consumes the tick it serves; if it is late, it leaves the timer behind.
LEMMA PollInv ==
    ASSUME IInv, PollCancel \/ PollTick \/ Wake
    PROVE  IInv'
<1>1. TypeOK'
  <2>1. due' \in 0 .. Many
    BY DEF IInv, TypeOK, PollCancel, PollTick, Wake, timeVars, Many
  <2>2. begun' \in Nat /\ late' \in Nat
    BY DEF IInv, TypeOK, PollCancel, PollTick, Wake, historyVars
  <2>3. task' \in LoopStages
    BY DEF LoopStages, PollCancel, PollTick, Wake
  <2> QED BY <2>1, <2>2, <2>3 DEF IInv, TypeOK, PollCancel, PollTick, Wake, tokenVars, timeVars,
      proofVars
<1>2. TickUnused' /\ LastSweep'
  BY DEF IInv, TypeOK, TickUnused, LastSweep, PollCancel, PollTick, Wake, tokenVars, timeVars,
      proofVars, historyVars
<1> QED BY <1>1, <1>2 DEF IInv

\* However long a sweep takes and however it ends, the token is polled next.
LEMMA SweepInv ==
    ASSUME IInv, SweepReads \/ SweepOk \/ SweepFails
    PROVE  IInv'
BY DEF IInv, TypeOK, TickUnused, LastSweep, SweepReads, SweepOk, SweepFails, LoopStages, tokenVars,
    timeVars, proofVars, historyVars

\* Cancelling begins no sweep.
LEMMA CancelInv ==
    ASSUME IInv, Stop \/ CancelParent
    PROVE  IInv'
<1>1. parent' \in BOOLEAN /\ child' \in BOOLEAN
  BY DEF IInv, TypeOK, Stop, CancelParent
<1>2. UNCHANGED <<task, phase, due, lapsed, swept, begun, late>>
  BY DEF Stop, CancelParent, timeVars, proofVars, historyVars
<1>3. TypeOK'
  BY <1>1, <1>2 DEF IInv, TypeOK
<1>4. child'
  BY DEF Stop, CancelParent
<1> QED BY <1>2, <1>3, <1>4 DEF IInv, TickUnused, LastSweep

\* A deadline opens the next interval, in which no sweep has begun.
LEMMA TickInv ==
    ASSUME IInv, Tick
    PROVE  IInv'
<1>1. phase' \in 0 .. Interval - 1
  BY PhaseWraps DEF IInv, TypeOK, Tick
<1>2. due' \in 0 .. Many /\ begun' \in Nat
  BY DEF IInv, TypeOK, Tick, Many
<1>3. TypeOK'
  BY <1>1, <1>2 DEF IInv, TypeOK, Tick, tokenVars, proofVars
<1>4. TickUnused' /\ LastSweep'
  BY DEF IInv, TypeOK, TickUnused, LastSweep, Tick, tokenVars
<1> QED BY <1>3, <1>4 DEF IInv

\* Nor do expiring records and stuttering disturb it.
LEMMA IdleInv ==
    ASSUME IInv, (\E x \in Proofs : Lapse(x)) \/ UNCHANGED vars
    PROVE  IInv'
BY DEF IInv, TypeOK, TickUnused, LastSweep, Lapse, vars, tokenVars, timeVars, historyVars

\* It is an invariant of the specification.
LEMMA Invariance == Spec => []IInv
<1>1. IInv /\ [Next]_vars => IInv'
  BY PollInv, SweepInv, CancelInv, TickInv, IdleInv DEF Next, Loop
<1> QED BY <1>1, InitInv, PTL DEF Spec

-----------------------------------------------------------------------------
\* Type correctness of the background task: in particular the clock stays within
\* the interval.
THEOREM TypeCorrect == Spec => []TypeOK
<1>1. IInv => TypeOK
  BY DEF IInv
<1> QED BY <1>1, Invariance, PTL

\* However many deadlines a long sweep misses, at most one sweep begins in any
\* interval, whatever its length.
THEOREM TicksDoNotPileUp == Spec => []NoBurst
<1>1. IInv => NoBurst
  BY DEF IInv, TickUnused, NoBurst
<1> QED BY <1>1, Invariance, PTL

\* At most one sweep begins after the task's token was cancelled, although the
\* two branches of the select are polled one after the other.
THEOREM OneLateSweep == Spec => []AtMostOneLateSweep
<1>1. IInv => AtMostOneLateSweep
  BY DEF IInv, LastSweep, AtMostOneLateSweep
<1> QED BY <1>1, Invariance, PTL
=============================================================================
