------------------------ MODULE LocalFileStoreProofs ------------------------
(***************************************************************************)
(* Proofs about LocalFileStore for any number of processes, tasks and      *)
(* calls.  The argument rests on the sidecar lock alone: a closure between *)
(* LockFile and its end is the one flock names, so nobody else can rename  *)
(* in between.  process_lock plays no part, which is why dropped futures   *)
(* and other processes do no harm.                                         *)
(***************************************************************************)
EXTENDS LocalFileStore, TLAPS

Inside == {"locked", "read", "renamed"}

\* The closure inside the critical section is the holder of the lock.
LockHeld == \A t \in Tasks : bpc[t] \in Inside => flock = t

\* A closure carries out a call.
CallMade ==
    \A t \in Tasks :
        /\ bpc[t] # "none" => call[t] # NoCall
        /\ pc[t] = "waiting" => call[t] # NoCall
        /\ pc[t] = "idle" => bpc[t] = "none"

\* Creating the file races with nobody: it exists already, or only one process
\* opens the vault.
NoCreationRace == FileExists \/ \A p, q \in Procs : p = q

\* A file that exists stays, and nobody creates it a second time; while there is
\* none the vault is not open and no call has been made.
FileStays ==
    /\ \A p \in Procs : store[p] = "creating" => file = Missing
    /\ file = Missing =>
        /\ ~FileExists
        /\ \A p \in Procs : store[p] # "open"
        /\ \A t \in Tasks : pc[t] = "idle" /\ bpc[t] = "none"

IInv == TypeOK /\ LockHeld /\ CallMade /\ FileStays /\ WriteIsCurrent

-----------------------------------------------------------------------------
\* The contents and the answer that a closure computes are well typed.
LEMMA CallTypes ==
    ASSUME NEW s \in Contents, NEW c \in CallType, NEW t
    PROVE  After(s, c, t) \in Contents /\ Answer(s, c, t) \in ReplyType
<1>1. CASE c.kind = "insert"
  <2>1. After(s, c, t) = Put(s, c.id, c.rec)
    BY <1>1 DEF After
  <2> QED BY <2>1, <1>1 DEF Answer, Removed, Put, Contents, CallType, ReplyType
<1>2. CASE c.kind = "fetch"
  <2>1. After(s, c, t) = s
    BY <1>2 DEF After
  <2> QED BY <2>1, <1>2 DEF Answer, Removed, Contents, CallType, ReplyType
<1>3. CASE c.kind = "delete"
  <2>1. After(s, c, t) = Remove(s, c.id)
    BY <1>3 DEF After
  <2> QED BY <2>1, <1>3 DEF Answer, Removed, Remove, Contents, CallType, ReplyType
<1>4. CASE c.kind = "delete_expired"
  <2>1. After(s, c, t) = Sweep(s, t)
    BY <1>4 DEF After
  <2> QED BY <2>1, <1>4 DEF Answer, Removed, Sweep, Contents, CallType, ReplyType
<1> QED BY <1>1, <1>2, <1>3, <1>4 DEF CallType, Kinds

\* The invariant holds initially.
LEMMA InitInv == Init => IInv
<1>1. Empty \in Contents /\ Pending \in ReplyType
  BY DEF Empty, Contents, Pending, ReplyType
<1> QED
  BY <1>1, MissingAssumption DEF Init, IInv, TypeOK, LockHeld, CallMade, FileStays, WriteIsCurrent,
      Inside, AsyncStages, ClosureStages

\* Opening changes no task; the file is created by one process before any call.
LEMMA OpenInv ==
    ASSUME NoCreationRace, IInv, NEW p \in Procs, Open(p) \/ Create(p) \/ CreateFails(p)
    PROVE  IInv'
<1>1. UNCHANGED <<plock, flock, now, call, since, pc, bpc, cutoff, mem, took, reply>>
  BY DEF Open, Create, CreateFails, lockVars, taskVars, closureVars
<1>2. /\ file' = file \/ (file = Missing /\ file' = Empty)
      /\ \A q \in Procs \ {p} : store'[q] = store[q]
      /\ \/ store'[p] = "creating" /\ file = Missing /\ file' = file
         \/ store'[p] = "open" /\ file' # Missing
         \/ store'[p] = "closed"
      /\ store[p] \in {"closed", "creating"}
  <2>1. Empty # Missing
    BY MissingAssumption DEF Empty, Contents
  <2> QED BY <2>1 DEF IInv, TypeOK, FileStays, Open, Create, CreateFails
<1>3. TypeOK'
  <2>1. Empty \in Contents
    BY DEF Empty, Contents
  <2> QED BY <1>1, <1>2, <2>1 DEF IInv, TypeOK, Open, Create, CreateFails
<1>4. LockHeld' /\ CallMade'
  BY <1>1 DEF IInv, LockHeld, CallMade
<1>5. FileStays'
  <2>1. CASE file' = file
    BY <2>1, <1>1, <1>2 DEF IInv, FileStays
  <2>2. CASE file = Missing /\ file' = Empty
    <3>1. Empty # Missing
      BY MissingAssumption DEF Empty, Contents
    <3>2. \A q \in Procs : q = p
      BY <2>2 DEF NoCreationRace, IInv, FileStays
    <3> QED BY <2>2, <3>1, <3>2, <1>2 DEF FileStays
  <2> QED BY <2>1, <2>2, <1>2
<1>6. WriteIsCurrent'
  BY <1>1, <1>2 DEF IInv, FileStays, WriteIsCurrent
<1> QED BY <1>3, <1>4, <1>5, <1>6 DEF IInv

\* The async half leaves the file, the sidecar lock and the open closures alone.
LEMMA AsyncInv ==
    ASSUME IInv, NEW t \in Tasks,
           \/ \E c \in Calls : Invoke(t, c)
           \/ Spawn(t) \/ Return(t) \/ Drop(t)
    PROVE  IInv'
<1>1. TypeOK' /\ CallMade'
  BY CallsAssumption, NoCallAssumption, ProcOfAssumption
  DEF IInv, TypeOK, CallMade, Invoke, Spawn, Return, Drop, PlockWithout, fileVars,
      lockVars, closureVars, AsyncStages, ClosureStages
<1>2. LockHeld' /\ WriteIsCurrent'
  BY DEF IInv, TypeOK, LockHeld, CallMade, WriteIsCurrent, Inside, Invoke, Spawn,
      Return, Drop, fileVars, lockVars, closureVars
<1>3. FileStays'
  <2>1. UNCHANGED <<file, store>> /\ (pc[t] # "idle" \/ store[ProcOf[t]] = "open")
    BY DEF Invoke, Spawn, Return, Drop, fileVars
  <2>2. file # Missing
    BY <2>1, ProcOfAssumption DEF IInv, FileStays
  <2> QED BY <2>1, <2>2 DEF IInv, FileStays
<1> QED BY <1>1, <1>2, <1>3 DEF IInv

\* Whoever enters the critical section finds it empty.
LEMMA LockFileInv ==
    ASSUME IInv, NEW t \in Tasks, LockFile(t)
    PROVE  IInv'
BY NoTaskAssumption DEF IInv, TypeOK, LockHeld, CallMade, FileStays, WriteIsCurrent, Inside,
    LockFile, fileVars, taskVars, ClosureStages

\* What read_state computes is current by definition.
LEMMA ReadStateInv ==
    ASSUME IInv, NEW t \in Tasks, ReadState(t)
    PROVE  IInv'
<1>1. call[t] \in CallType /\ file \in Contents
  BY DEF IInv, TypeOK, CallMade, FileStays, ReadState
<1>2. /\ After(file, call[t], cutoff[t]) \in Contents
      /\ Answer(file, call[t], cutoff[t]) \in ReplyType
  BY <1>1, CallTypes
<1>3. Empty \in Contents
  BY DEF Empty, Contents
<1>4. TypeOK'
  <2>1. CASE MustWrite(t, file)
    BY <2>1, <1>2 DEF IInv, TypeOK, ReadState, fileVars, taskVars, ClosureStages
  <2>2. CASE ~MustWrite(t, file)
    <3>1. took' \in [Tasks -> BOOLEAN]
      BY <2>2 DEF IInv, TypeOK, ReadState
    <3>2. reply' \in [Tasks -> ReplyType] /\ mem' \in [Tasks -> Contents]
      BY <2>2, <1>2, <1>3 DEF IInv, TypeOK, ReadState, End
    <3> QED
      BY <2>2, <3>1, <3>2 DEF IInv, TypeOK, ReadState, End, fileVars, taskVars, ClosureStages
  <2> QED BY <2>1, <2>2
<1>5. LockHeld' /\ CallMade' /\ FileStays'
  BY DEF IInv, TypeOK, LockHeld, CallMade, FileStays, Inside, ReadState, End, fileVars,
      taskVars
<1>6. WriteIsCurrent'
  BY DEF IInv, TypeOK, WriteIsCurrent, FileStays, ReadState, End, fileVars, taskVars
<1> QED BY <1>4, <1>5, <1>6 DEF IInv

\* The file changes while every other closure is outside the critical section.
LEMMA RenameInv ==
    ASSUME IInv, NEW t \in Tasks, Rename(t)
    PROVE  IInv'
<1>1. mem[t] \in Contents
  BY DEF IInv, TypeOK
<1>2. TypeOK' /\ CallMade' /\ FileStays'
  BY <1>1, MissingAssumption
  DEF IInv, TypeOK, CallMade, FileStays, Rename, lockVars, taskVars, ClosureStages
<1>3. LockHeld' /\ WriteIsCurrent'
  BY DEF IInv, TypeOK, LockHeld, WriteIsCurrent, Inside, Rename, lockVars, taskVars
<1> QED BY <1>2, <1>3 DEF IInv

\* A closure that ends, well or not, leaves the critical section to the next.
LEMMA EndInv ==
    ASSUME IInv, NEW t \in Tasks, SetPermissions(t) \/ ClosureFails(t)
    PROVE  IInv'
<1>1. Empty \in Contents /\ Failed \in ReplyType
  BY DEF Empty, Contents, Failed, ReplyType
<1>2. TypeOK' /\ CallMade' /\ FileStays'
  BY <1>1 DEF IInv, TypeOK, CallMade, FileStays, SetPermissions, ClosureFails, End, fileVars,
      taskVars, ClosureStages
<1>3. LockHeld' /\ WriteIsCurrent'
  BY DEF IInv, TypeOK, LockHeld, WriteIsCurrent, Inside, SetPermissions, ClosureFails, End,
      fileVars, taskVars
<1> QED BY <1>2, <1>3 DEF IInv

\* A crash ends closures and frees the lock only if it ended the holder.
LEMMA CrashInv ==
    ASSUME IInv, NEW p \in Procs, Crash(p)
    PROVE  IInv'
<1>1. Empty \in Contents
  BY DEF Empty, Contents
<1>2. TypeOK' /\ CallMade' /\ FileStays'
  BY <1>1 DEF IInv, TypeOK, CallMade, FileStays, Crash, TasksOf, AsyncStages, ClosureStages
<1>3. LockHeld' /\ WriteIsCurrent'
  BY DEF IInv, TypeOK, LockHeld, WriteIsCurrent, Inside, Crash, TasksOf
<1> QED BY <1>2, <1>3 DEF IInv

\* Nor do the clock and stuttering disturb it.
LEMMA IdleInv ==
    ASSUME IInv, Tick \/ UNCHANGED vars
    PROVE  IInv'
BY DEF IInv, TypeOK, LockHeld, CallMade, FileStays, WriteIsCurrent, Tick, vars, fileVars,
    lockVars, taskVars, closureVars

\* Every step preserves the invariant.
LEMMA NextInv ==
    ASSUME NoCreationRace
    PROVE  IInv /\ [Next]_vars => IInv'
BY OpenInv, AsyncInv, LockFileInv, ReadStateInv, RenameInv, EndInv, CrashInv, IdleInv
DEF Next

\* Type correctness of the file backend.
THEOREM TypeCorrect ==
    ASSUME NoCreationRace
    PROVE  Spec => []TypeOK
<1>1. IInv => TypeOK
  BY DEF IInv
<1> QED BY <1>1, InitInv, NextInv, PTL DEF Spec

\* No lost update, for any number of processes and tasks on a vault file that
\* exists and any number of tasks of one process on a new one: what a closure is about to rename over the file is the file as it is
\* now with this one call applied.
THEOREM NoLostUpdate ==
    ASSUME NoCreationRace
    PROVE  Spec => []WriteIsCurrent
<1>1. IInv => WriteIsCurrent
  BY DEF IInv
<1> QED BY <1>1, InitInv, NextInv, PTL DEF Spec
-----------------------------------------------------------------------------
(* LocalFileStore implements StorageBackend.  RInv says how a call stands at  *)
(* the instants when the abstract one moves.                                  *)

\* The clock of delete_expired was read while the call was under way.
Timely ==
    \A t \in Tasks :
        /\ since[t] <= now
        /\ bpc[t] # "none" => since[t] <= cutoff[t] /\ cutoff[t] <= now

\* A call has no effect before the rename, and what it will answer is settled then.
EffectAtRename ==
    \A t \in Tasks :
        /\ bpc[t] \in {"none", "queued", "locked", "read"} => ~took[t]
        /\ bpc[t] = "renamed" => took[t] /\ reply[t].status = "ok"
        /\ pc[t] = "awaiting" /\ bpc[t] = "ended" /\ ~took[t] => reply[t] = Failed

\* A closure is queued after the wait for process_lock and ended before the return.
HandedOver ==
    \A t \in Tasks :
        /\ pc[t] = "waiting" => bpc[t] = "none"
        /\ pc[t] = "returned" => bpc[t] = "ended"

RInv == Timely /\ EffectAtRename /\ HandedOver

\* It holds initially ...
LEMMA InitRInv == Init => RInv
BY DEF Init, RInv, Timely, EffectAtRename, HandedOver

\* ... and every step preserves it.
LEMMA NextRInv == IInv /\ RInv /\ [Next]_vars => RInv'
<1> SUFFICES ASSUME IInv, RInv, [Next]_vars PROVE RInv'
  OBVIOUS
<1>1. ASSUME NEW p \in Procs, Open(p) \/ Create(p) \/ CreateFails(p)
      PROVE  RInv'
  BY <1>1 DEF RInv, Timely, EffectAtRename, HandedOver, Open, Create, CreateFails, lockVars,
      taskVars, closureVars
<1>2. ASSUME NEW t \in Tasks, NEW c \in Calls, Invoke(t, c)
      PROVE  RInv'
  BY <1>2 DEF IInv, TypeOK, CallMade, RInv, Timely, EffectAtRename, HandedOver, Invoke, fileVars,
      lockVars, closureVars
<1>3. ASSUME NEW t \in Tasks, Spawn(t)
      PROVE  RInv'
  BY <1>3 DEF IInv, TypeOK, CallMade, RInv, Timely, EffectAtRename, HandedOver, Spawn
<1>4. ASSUME NEW t \in Tasks, Return(t) \/ Drop(t)
      PROVE  RInv'
  BY <1>4 DEF IInv, TypeOK, CallMade, RInv, Timely, EffectAtRename, HandedOver, Return, Drop,
      closureVars
<1>5. ASSUME NEW t \in Tasks, LockFile(t)
      PROVE  RInv'
  BY <1>5 DEF IInv, TypeOK, RInv, Timely, EffectAtRename, HandedOver, LockFile, taskVars
<1>6. ASSUME NEW t \in Tasks, ReadState(t)
      PROVE  RInv'
  BY <1>6 DEF IInv, TypeOK, RInv, Timely, EffectAtRename, HandedOver, ReadState, End, taskVars
<1>7. ASSUME NEW t \in Tasks, Rename(t)
      PROVE  RInv'
  BY <1>7 DEF IInv, TypeOK, WriteIsCurrent, Answer, RInv, Timely, EffectAtRename, HandedOver,
      Rename, taskVars
<1>8. ASSUME NEW t \in Tasks, SetPermissions(t) \/ ClosureFails(t)
      PROVE  RInv'
  BY <1>8 DEF IInv, TypeOK, RInv, Timely, EffectAtRename, HandedOver, SetPermissions, ClosureFails,
      End, taskVars
<1>9. ASSUME NEW p \in Procs, Crash(p)
      PROVE  RInv'
  BY <1>9 DEF IInv, TypeOK, CallMade, RInv, Timely, EffectAtRename, HandedOver, Crash
<1>10. CASE Tick \/ UNCHANGED vars
  BY <1>10 DEF IInv, TypeOK, RInv, Timely, EffectAtRename, HandedOver, Tick, vars, taskVars,
      closureVars
<1> QED BY <1>1, <1>2, <1>3, <1>4, <1>5, <1>6, <1>7, <1>8, <1>9, <1>10 DEF Next
\* A call that writes nothing leaves the contents as they are.
LEMMA NoWriteNoChange ==
    ASSUME NEW s \in Contents, NEW c \in CallType, NEW t,
           c.kind # "insert", Removed(s, After(s, c, t)) = {}
    PROVE  After(s, c, t) = s
<1>1. CASE c.kind = "fetch"
  BY <1>1 DEF After
<1>2. CASE c.kind = "delete"
  <2>1. After(s, c, t) = Remove(s, c.id)
    BY <1>2 DEF After
  <2>2. c.id \in RecordIds /\ Remove(s, c.id)[c.id] = NoRecord
    BY DEF Remove, Contents, CallType
  <2>3. s[c.id] = NoRecord
    BY <2>1, <2>2 DEF Removed
  <2> QED BY <2>1, <2>3 DEF Remove, Contents
<1>3. CASE c.kind = "delete_expired"
  <2>1. After(s, c, t) = Sweep(s, t)
    BY <1>3 DEF After
  <2>2. \A id \in RecordIds : Sweep(s, t)[id] = s[id]
    BY <2>1 DEF Removed, Sweep
  <2> QED BY <2>1, <2>2 DEF Sweep, Contents
<1> QED BY <1>1, <1>2, <1>3 DEF CallType, Kinds

\* With a file there, what callers see of the contents is the file.
LEMMA SeeFile == file # Missing => Visible = file
BY DEF Visible

\* Invoking is invoking.
LEMMA InvokeRefines ==
    ASSUME IInv, IInv', RInv, NEW t \in Tasks, NEW c \in Calls, Invoke(t, c)
    PROVE  Backend!Invoke(t, c)
<1>1. Visible' = Visible
  BY DEF Invoke, fileVars, Visible
<1>2. StatusOf(t) = "idle" /\ StatusOf(t)' = "called"
  BY DEF Invoke, StatusOf, IInv, TypeOK
<1>3. \A u \in Tasks \ {t} : StatusOf(u)' = StatusOf(u)
  BY ZenonT(40) DEF Invoke, StatusOf, IInv, TypeOK
<1>4. \A u \in Tasks : ReplyOf(u)' = ReplyOf(u)
  BY DEF Invoke, ReplyOf, IInv, TypeOK, closureVars
<1>5. [u \in Tasks |-> StatusOf(u)]' = [[u \in Tasks |-> StatusOf(u)] EXCEPT ![t] = "called"]
  BY <1>2, <1>3
<1>6. [u \in Tasks |-> ReplyOf(u)]' = [u \in Tasks |-> ReplyOf(u)]
  BY <1>4
<1> QED BY <1>1, <1>2, <1>5, <1>6 DEF Invoke, closureVars, Backend!Invoke
\* Steps that callers cannot see: opening, taking either lock, computing, and
\* ending with an answer or an error that was settled before or is yet to be seen.
LEMMA Unseen ==
    ASSUME IInv, IInv', RInv,
           \/ \E p \in Procs : Open(p) \/ Create(p) \/ CreateFails(p)
           \/ \E t \in Tasks :
               \/ Spawn(t) \/ LockFile(t) \/ SetPermissions(t)
               \/ ReadState(t) /\ MustWrite(t, file)
               \/ ClosureFails(t) /\ ~took[t]
           \/ UNCHANGED vars
    PROVE  UNCHANGED Backend!vars
<1>0. Visible' = Visible
  <2>1. CASE \E p \in Procs : Create(p) \/ CreateFails(p)
    BY <2>1, MissingAssumption DEF IInv, FileStays, Create, CreateFails, Visible, Empty, Contents
  <2>2. CASE UNCHANGED file
    BY <2>2 DEF Visible
  <2> QED BY <2>1, <2>2 DEF Open, Spawn, LockFile, SetPermissions, ReadState, ClosureFails, fileVars,
        vars
<1>1. UNCHANGED <<now, call, since, took>>
  BY DEF IInv, Open, Create, CreateFails, Spawn, LockFile, SetPermissions, ReadState,
      ClosureFails, fileVars, taskVars, closureVars, vars
<1>2. \A u \in Tasks : StatusOf(u)' = StatusOf(u)
  BY ZenonT(40) DEF IInv, TypeOK, Open, Create, CreateFails, Spawn, LockFile, SetPermissions,
      ReadState, ClosureFails, taskVars, vars, StatusOf
<1>3. \A u \in Tasks : ReplyOf(u)' = ReplyOf(u)
  BY <1>1 DEF IInv, TypeOK, RInv, EffectAtRename, HandedOver, Open, Create, CreateFails, Spawn,
      LockFile, SetPermissions, ReadState, ClosureFails, End, taskVars, closureVars, vars, ReplyOf
<1>4. [u \in Tasks |-> StatusOf(u)]' = [u \in Tasks |-> StatusOf(u)]
  BY <1>2
<1>5. [u \in Tasks |-> ReplyOf(u)]' = [u \in Tasks |-> ReplyOf(u)]
  BY <1>3
<1> QED BY <1>0, <1>1, <1>4, <1>5 DEF Backend!vars

\* Returning hands on the answer, or the error of a closure without effect.
LEMMA ReturnRefines ==
    ASSUME IInv, RInv, NEW t \in Tasks, Return(t)
    PROVE  Backend!Return(t) \/ Backend!Fail(t)
<1>1. UNCHANGED <<file, now, call, since, took, reply>>
  BY DEF Return, fileVars, closureVars
<1>2. StatusOf(t) = "called" /\ StatusOf(t)' = "returned"
  BY DEF Return, StatusOf, IInv, TypeOK
<1>3. \A u \in Tasks \ {t} : StatusOf(u)' = StatusOf(u) /\ ReplyOf(u)' = ReplyOf(u)
  BY <1>1 DEF Return, StatusOf, ReplyOf, IInv, TypeOK
<1>4. [u \in Tasks |-> StatusOf(u)]' = [[u \in Tasks |-> StatusOf(u)] EXCEPT ![t] = "returned"]
  BY <1>2, <1>3
<1>5. CASE took[t]
  <2>1. ReplyOf(t)' = ReplyOf(t)
    BY <1>1, <1>5 DEF ReplyOf
  <2>2. [u \in Tasks |-> ReplyOf(u)]' = [u \in Tasks |-> ReplyOf(u)]
    BY <1>3, <2>1
  <2> QED BY <1>1, <1>2, <1>4, <1>5, <2>2 DEF Backend!Return, Visible
<1>6. CASE ~took[t]
  <2>1. ReplyOf(t)' = Failed
    BY <1>1, <1>6 DEF Return, ReplyOf, IInv, TypeOK, RInv, EffectAtRename
  <2>2. [u \in Tasks |-> ReplyOf(u)]' = [[u \in Tasks |-> ReplyOf(u)] EXCEPT ![t] = Failed]
    BY <1>3, <2>1
  <2> QED BY <1>1, <1>2, <1>4, <1>6, <2>2 DEF Backend!Fail, Visible, Failed, Backend!Failed
<1> QED BY <1>5, <1>6

\* A future that is dropped abandons its call, and a crash those of its process.
LEMMA AbandonRefines ==
    ASSUME IInv, RInv, NEW ts \in SUBSET Tasks,
           \A t \in ts : pc[t] \in {"waiting", "awaiting"},
           pc' = [t \in Tasks |-> IF t \in ts THEN "dropped" ELSE pc[t]],
           UNCHANGED <<file, now, call, since, took, reply>>
    PROVE  Backend!Abandon(ts) \/ UNCHANGED Backend!vars
<1>1. \A t \in ts : StatusOf(t) = "called"
  BY DEF StatusOf
<1>2. \A t \in Tasks : StatusOf(t)' = IF t \in ts THEN "abandoned" ELSE StatusOf(t)
  <2>1. \A t \in ts : StatusOf(t)' = "abandoned"
    BY DEF StatusOf
  <2>2. \A t \in Tasks \ ts : StatusOf(t)' = StatusOf(t)
    BY DEF StatusOf
  <2> QED BY <2>1, <2>2
<1>3. \A t \in Tasks : ReplyOf(t)' = ReplyOf(t)
  BY DEF ReplyOf
<1>4. [t \in Tasks |-> ReplyOf(t)]' = [t \in Tasks |-> ReplyOf(t)]
  BY <1>3
<1>5. CASE ts = {}
  <2>1. [t \in Tasks |-> StatusOf(t)]' = [t \in Tasks |-> StatusOf(t)]
    BY <1>2, <1>5
  <2> QED BY <1>4, <2>1 DEF Backend!vars, Visible
<1>6. CASE ts # {}
  <2>1. [t \in Tasks |-> StatusOf(t)]'
          = [t \in Tasks |-> IF t \in ts THEN "abandoned" ELSE [u \in Tasks |-> StatusOf(u)][t]]
    BY <1>2
  <2> QED BY <1>1, <1>4, <1>6, <2>1 DEF Backend!Abandon, Visible
<1> QED BY <1>5, <1>6

LEMMA DropRefines ==
    ASSUME IInv, RInv, NEW t \in Tasks, Drop(t)
    PROVE  Backend!Abandon({t}) \/ UNCHANGED Backend!vars
<1>1. pc' = [u \in Tasks |-> IF u \in {t} THEN "dropped" ELSE pc[u]]
  BY DEF Drop, IInv, TypeOK
<1> QED BY <1>1, AbandonRefines DEF Drop, fileVars, closureVars

LEMMA CrashRefines ==
    ASSUME IInv, RInv, NEW p \in Procs, Crash(p)
    PROVE  (\E ts \in SUBSET Tasks : Backend!Abandon(ts)) \/ UNCHANGED Backend!vars
<1> DEFINE ts == {t \in TasksOf(p) : pc[t] \in {"waiting", "awaiting"}}
<1>1. ts \in SUBSET Tasks /\ \A t \in ts : pc[t] \in {"waiting", "awaiting"}
  BY DEF TasksOf
<1>2. pc' = [u \in Tasks |-> IF u \in ts THEN "dropped" ELSE pc[u]]
  BY DEF Crash
<1>3. UNCHANGED <<file, now, call, since, took, reply>>
  BY DEF Crash
<1> HIDE DEF ts
<1> QED BY <1>1, <1>2, <1>3, AbandonRefines

\* The effect: what callers see of the contents becomes what the call makes of
\* them, at one instant, with a clock reading taken since the call began.
LEMMA ApplyRefines ==
    ASSUME IInv, RInv, NEW t \in Tasks,
           bpc[t] \in {"locked", "read"},
           Visible' = After(Visible, call[t], cutoff[t]),
           reply' = [reply EXCEPT ![t] = Answer(Visible, call[t], cutoff[t])],
           took' = [took EXCEPT ![t] = TRUE],
           UNCHANGED <<now, call, since, pc>>
    PROVE  \E x \in since[t] .. now : Backend!Apply(t, x)
<1>1. pc[t] \in {"awaiting", "dropped"} /\ ~took[t] /\ cutoff[t] \in since[t] .. now
  BY DEF IInv, TypeOK, CallMade, RInv, Timely, EffectAtRename, HandedOver, AsyncStages
<1>2. StatusOf(t) \in {"called", "abandoned"}
  BY <1>1 DEF StatusOf
<1>3. [u \in Tasks |-> StatusOf(u)]' = [u \in Tasks |-> StatusOf(u)]
  BY DEF StatusOf
<1>4. /\ ReplyOf(t)' = Answer(Visible, call[t], cutoff[t])
      /\ \A u \in Tasks \ {t} : ReplyOf(u)' = ReplyOf(u)
  BY DEF ReplyOf, IInv, TypeOK
<1>5. [u \in Tasks |-> ReplyOf(u)]'
        = [[u \in Tasks |-> ReplyOf(u)] EXCEPT ![t] = Answer(Visible, call[t], cutoff[t])]
  BY <1>4
<1>6. Backend!Apply(t, cutoff[t])
  BY <1>1, <1>2, <1>3, <1>5
  DEF Backend!Apply, After, Backend!After, Answer, Backend!Answer, Removed, Backend!Removed,
      Put, Backend!Put, Remove, Backend!Remove, Sweep, Backend!Sweep, Lapsed, Backend!Lapsed
<1> QED BY <1>1, <1>6

\* Nothing to write: the effect is at read_state.
LEMMA ReadRefines ==
    ASSUME IInv, IInv', RInv, NEW t \in Tasks, ReadState(t), ~MustWrite(t, file)
    PROVE  \E x \in since[t] .. now : Backend!Apply(t, x)
<1>1. file \in Contents /\ call[t] \in CallType
  BY DEF IInv, TypeOK, CallMade, FileStays, ReadState
<1>2. After(file, call[t], cutoff[t]) = file
  BY <1>1, NoWriteNoChange DEF MustWrite
<1>3. Visible = file /\ Visible' = file
  BY SeeFile DEF Visible, ReadState, fileVars
<1>4. /\ bpc[t] = "locked"
      /\ reply' = [reply EXCEPT ![t] = Answer(file, call[t], cutoff[t])]
      /\ took' = [took EXCEPT ![t] = TRUE]
      /\ UNCHANGED <<now, call, since, pc>>
  BY DEF ReadState, End, taskVars
<1> QED BY <1>2, <1>3, <1>4, ApplyRefines

\* Otherwise it is at the rename, of what WriteIsCurrent says was prepared.
LEMMA RenameRefines ==
    ASSUME IInv, IInv', RInv, NEW t \in Tasks, Rename(t)
    PROVE  \E x \in since[t] .. now : Backend!Apply(t, x)
<1>1. Visible = file /\ Visible' = file'
  BY MissingAssumption DEF IInv, TypeOK, WriteIsCurrent, Visible, Rename
<1>2. /\ file' = After(file, call[t], cutoff[t])
      /\ reply[t] = Answer(file, call[t], cutoff[t])
  BY DEF IInv, WriteIsCurrent, Rename
<1>3. reply' = [reply EXCEPT ![t] = Answer(file, call[t], cutoff[t])]
  BY <1>2 DEF Rename, IInv, TypeOK
<1>4. /\ bpc[t] = "read"
      /\ took' = [took EXCEPT ![t] = TRUE]
      /\ UNCHANGED <<now, call, since, pc>>
  BY DEF Rename, taskVars
<1> QED BY <1>1, <1>2, <1>3, <1>4, ApplyRefines

\* An error after the rename spoils the answer of a call that took effect.
LEMMA SpoilRefines ==
    ASSUME IInv, RInv, NEW t \in Tasks, ClosureFails(t), took[t]
    PROVE  Backend!Spoil(t)
<1>1. bpc[t] = "renamed" /\ reply[t].status = "ok" /\ pc[t] \in {"awaiting", "dropped"}
  BY DEF ClosureFails, IInv, TypeOK, CallMade, RInv, EffectAtRename, HandedOver, AsyncStages
<1>2. StatusOf(t) \in {"called", "abandoned"} /\ ReplyOf(t) = reply[t]
  BY <1>1 DEF StatusOf, ReplyOf
<1>3. UNCHANGED <<file, now, call, since, took, pc>>
      /\ reply' = [reply EXCEPT ![t] = Failed]
  BY DEF ClosureFails, End, fileVars, taskVars
<1>4. [u \in Tasks |-> StatusOf(u)]' = [u \in Tasks |-> StatusOf(u)]
  BY <1>3 DEF StatusOf
<1>5. ReplyOf(t)' = Failed /\ \A u \in Tasks \ {t} : ReplyOf(u)' = ReplyOf(u)
  BY <1>3 DEF ReplyOf, IInv, TypeOK
<1>6. [u \in Tasks |-> ReplyOf(u)]' = [[u \in Tasks |-> ReplyOf(u)] EXCEPT ![t] = Failed]
  BY <1>5
<1> QED BY <1>1, <1>2, <1>3, <1>4, <1>6 DEF Backend!Spoil, Visible, Failed, Backend!Failed

\* The clock is the clock.
LEMMA TickRefines ==
    ASSUME Tick
    PROVE  Backend!Tick
<1>1. [u \in Tasks |-> StatusOf(u)]' = [u \in Tasks |-> StatusOf(u)]
  BY DEF Tick, taskVars, StatusOf
<1>2. [u \in Tasks |-> ReplyOf(u)]' = [u \in Tasks |-> ReplyOf(u)]
  BY DEF Tick, taskVars, closureVars, ReplyOf
<1> QED BY <1>1, <1>2 DEF Tick, fileVars, taskVars, closureVars, Visible, Backend!Tick

\* The file backend implements the contract of the trait, for any number of
\* processes and tasks on a vault file that exists and for one process that
\* creates it: through drops, errors and
\* crashes every call appears to take effect at one instant, or not at all.
THEOREM Implements ==
    ASSUME NoCreationRace
    PROVE  Spec => ImplementsBackend
<1>1. Init => Backend!Init
  <2>1. Init => Visible = Empty
    BY MissingAssumption DEF Init, Visible, Empty, Contents
  <2>2. Init => [t \in Tasks |-> StatusOf(t)] = [t \in Tasks |-> "idle"]
    BY DEF Init, StatusOf
  <2>3. Init => [t \in Tasks |-> ReplyOf(t)] = [t \in Tasks |-> Pending]
    BY DEF Init, ReplyOf
  <2> QED BY <2>1, <2>2, <2>3 DEF Init, Backend!Init, Empty, Backend!Empty, Pending, Backend!Pending
<1>2. (IInv /\ RInv) /\ (IInv /\ RInv)' /\ [Next]_vars => [Backend!Next]_(Backend!vars)
  <2> SUFFICES ASSUME IInv, IInv', RInv, [Next]_vars
               PROVE  [Backend!Next]_(Backend!vars)
    OBVIOUS
  <2>1. ASSUME NEW t \in Tasks, NEW c \in Calls, Invoke(t, c)
        PROVE  Backend!Next
    BY <2>1, InvokeRefines DEF Backend!Next
  <2>2. ASSUME NEW t \in Tasks, Return(t)
        PROVE  Backend!Next
    BY <2>2, ReturnRefines DEF Backend!Next
  <2>3. ASSUME NEW t \in Tasks, Drop(t)
        PROVE  [Backend!Next]_(Backend!vars)
    BY <2>3, DropRefines DEF Backend!Next
  <2>4. ASSUME NEW p \in Procs, Crash(p)
        PROVE  [Backend!Next]_(Backend!vars)
    BY <2>4, CrashRefines DEF Backend!Next
  <2>5. ASSUME NEW t \in Tasks, \/ ReadState(t) /\ ~MustWrite(t, file)
                                \/ Rename(t)
        PROVE  Backend!Next
    BY <2>5, ReadRefines, RenameRefines DEF Backend!Next
  <2>6. ASSUME NEW t \in Tasks, ClosureFails(t) /\ took[t]
        PROVE  Backend!Next
    BY <2>6, SpoilRefines DEF Backend!Next
  <2>7. CASE Tick
    BY <2>7, TickRefines DEF Backend!Next
  <2> QED BY Unseen, <2>1, <2>2, <2>3, <2>4, <2>5, <2>6, <2>7 DEF Next
<1>3. Init => IInv /\ RInv
  BY InitInv, InitRInv
<1>4. (IInv /\ RInv) /\ [Next]_vars => (IInv /\ RInv)'
  BY NextInv, NextRInv
<1> QED BY <1>1, <1>2, <1>3, <1>4, PTL DEF Spec, ImplementsBackend, Backend!Spec
=============================================================================
