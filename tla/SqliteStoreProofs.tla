------------------------- MODULE SqliteStoreProofs -------------------------
(***************************************************************************)
(* Proofs about SqliteStore for any number of processes, tasks and calls.  *)
(* The comparison of expiry texts is the comparison of the instants while  *)
(* years have four digits (TextOrder): two texts differ first in the       *)
(* seconds, at the point, or in a digit of the fraction, and each time the *)
(* earlier instant has the smaller character.  With that the SQL statement *)
(* of a call does what StorageBackend says the call does.                  *)
(***************************************************************************)
EXTENDS SqliteStore, TLAPS

-----------------------------------------------------------------------------
(* The order of the texts *)

\* Division with remainder.
LEMMA Division ==
    ASSUME NEW a \in Nat, NEW b \in Nat \ {0}
    PROVE  /\ a \div b \in Nat /\ a % b \in 0 .. b - 1
           /\ a = b * (a \div b) + (a % b)
OBVIOUS

\* Numbers with a common divisor are ordered by their quotients ...
LEMMA QuotientFirst ==
    ASSUME NEW b \in Nat \ {0}, NEW q1 \in Nat, NEW q2 \in Nat,
           NEW r1 \in 0 .. b - 1, NEW r2 \in 0 .. b - 1,
           b * q1 + r1 < b * q2 + r2
    PROVE  q1 < q2 \/ (q1 = q2 /\ r1 < r2)
<1>1. SUFFICES ASSUME q2 < q1 PROVE FALSE
  OBVIOUS
<1>2. PICK d \in Nat : q1 = q2 + 1 + d
  <2>1. q1 - q2 - 1 \in Nat /\ q1 = q2 + 1 + (q1 - q2 - 1)
    BY <1>1
  <2> QED BY <2>1
<1>3. b * q1 = b * q2 + b + b * d /\ b * d \in Nat
  BY <1>2
<1> QED BY <1>3

\* ... and a number below b * c has a quotient below c.
LEMMA QuotientBelow ==
    ASSUME NEW b \in Nat \ {0}, NEW c \in Nat, NEW q \in Nat, NEW r \in 0 .. b - 1,
           b * q + r < b * c
    PROVE  q < c
<1>1. SUFFICES ASSUME c <= q PROVE FALSE
  OBVIOUS
<1>2. PICK d \in Nat : q = c + d
  <2>1. q - c \in Nat /\ q = c + (q - c)
    BY <1>1
  <2> QED BY <2>1
<1>3. b * q = b * c + b * d /\ b * d \in Nat
  BY <1>2
<1> QED BY <1>3

\* Texts that differ first at a position where one has the smaller character.
LEMMA FirstDifference ==
    ASSUME NEW a \in Seq(Nat), NEW b \in Seq(Nat), NEW k \in 1 .. Len(a), k <= Len(b),
           \A j \in 1 .. k - 1 : a[j] = b[j], a[k] < b[k]
    PROVE  TextLeq(a, b) /\ ~TextLeq(b, a)
<1>1. TextLeq(a, b)
  BY DEF TextLeq
<1>2. ~TextLeq(b, a)
  BY SMTT(20) DEF TextLeq
<1> QED BY <1>1, <1>2

\* An instant before the year 10000 in seconds and the two groups of its fraction.
Whole(i) == i \div Second
High(i) == (i % Second) \div Base
Low(i) == (i % Second) % Base

LEMMA Parts ==
    ASSUME NEW i \in Nat, i < Year10000
    PROVE  /\ Whole(i) \in 0 .. Base - 1 /\ High(i) \in 0 .. Base - 1 /\ Low(i) \in 0 .. Base - 1
           /\ i % Second \in 0 .. Second - 1
           /\ i = Second * Whole(i) + (i % Second)
           /\ i % Second = Base * High(i) + Low(i)
<1>1. Base \in Nat \ {0} /\ Second \in Nat \ {0}
  BY BaseAssumption DEF Second
<1>2. /\ Whole(i) \in Nat /\ i % Second \in 0 .. Second - 1
      /\ i = Second * Whole(i) + (i % Second)
  BY <1>1, Division DEF Whole
<1>3. /\ High(i) \in Nat /\ Low(i) \in 0 .. Base - 1
      /\ i % Second = Base * High(i) + Low(i)
  <2>1. i % Second \in Nat
    BY <1>1, <1>2
  <2> QED BY <1>1, <2>1, Division DEF High, Low
<1>4. Year10000 = Second * Base
  BY <1>1 DEF Year10000
<1>5. Whole(i) < Base
  BY <1>1, <1>2, <1>4, QuotientBelow
<1>6. High(i) < Base
  <2>1. Base * High(i) + Low(i) < Base * Base
    BY <1>1, <1>2, <1>3 DEF Second
  <2> QED BY <1>1, <1>3, <2>1, QuotientBelow
<1> QED BY <1>1, <1>2, <1>3, <1>5, <1>6

\* A text put together from a first character, a middle and a last character.
LEMMA Join ==
    ASSUME NEW x \in Nat, NEW s \in Seq(Nat), NEW y \in Nat, NEW c, c = <<x>> \o s \o <<y>>
    PROVE  /\ c \in Seq(Nat) /\ Len(c) = Len(s) + 2
           /\ c[1] = x /\ c[Len(s) + 2] = y
           /\ \A k \in 1 .. Len(s) : c[k + 1] = s[k]
<1> DEFINE h == <<x>> \o s
<1>1. /\ <<x>> \in Seq(Nat) /\ Len(<<x>>) = 1 /\ <<x>>[1] = x
      /\ <<y>> \in Seq(Nat) /\ Len(<<y>>) = 1 /\ <<y>>[1] = y
  OBVIOUS
<1>2. /\ h \in Seq(Nat) /\ Len(h) = Len(s) + 1 /\ h[1] = x
      /\ \A k \in 1 .. Len(s) : h[k + 1] = s[k]
  BY <1>1
<1>3. c = h \o <<y>>
  OBVIOUS
<1> HIDE DEF h
<1>4. /\ c \in Seq(Nat) /\ Len(c) = Len(s) + 2
      /\ \A k \in 1 .. Len(h) : c[k] = h[k]
  <2>1. c \in Seq(Nat) /\ Len(c) = Len(h) + 1
    BY SMTT(30), <1>1, <1>2, <1>3
  <2>2. \A k \in 1 .. Len(h) : c[k] = h[k]
    BY SMTT(30), <1>1, <1>2, <1>3
  <2> QED BY <1>2, <2>1, <2>2
<1>5. c[Len(h) + 1] = y
  BY <1>1, <1>2, <1>3
<1>6. \A k \in 1 .. Len(s) : k + 1 \in 1 .. Len(h)
  BY <1>2
<1> QED BY <1>2, <1>4, <1>5, <1>6

\* The text of an instant: seconds, and as many groups as the fraction needs.
LEMMA Shape ==
    ASSUME NEW i \in Nat, i < Year10000
    PROVE  LET a == ToRfc3339(i) IN
           /\ a \in Seq(Nat) /\ Len(a) >= 2 /\ a[1] = Digit(Whole(i))
           /\ High(i) = 0 /\ Low(i) = 0 => a[2] = Plus
           /\ High(i) # 0 \/ Low(i) # 0 =>
                /\ Len(a) >= 4 /\ a[2] = Dot /\ a[3] = Digit(High(i))
                /\ a[4] = IF Low(i) = 0 THEN Plus ELSE Digit(Low(i))
<1> DEFINE f == i % Second
           d == Fraction(f)
           a == ToRfc3339(i)
<1>1. /\ Whole(i) \in 0 .. Base - 1 /\ High(i) \in 0 .. Base - 1 /\ Low(i) \in 0 .. Base - 1
      /\ f \in Nat /\ f = Base * High(i) + Low(i) /\ Base \in Nat /\ Base > 1
  BY Parts, BaseAssumption
<1>2. Digit(Whole(i)) \in Nat /\ Digit(High(i)) \in Nat /\ Digit(Low(i)) \in Nat
      /\ Plus \in Nat /\ Dot \in Nat
  BY <1>1 DEF Digit, Plus, Dot
<1>3. Date(i \div Second) = <<Digit(Whole(i))>>
  BY <1>1 DEF Date, Whole
<1>4. f = 0 <=> High(i) = 0 /\ Low(i) = 0
  BY <1>1
<1>5. /\ High(i) = 0 /\ Low(i) = 0 => d = <<>>
      /\ High(i) # 0 /\ Low(i) = 0 => d = <<Dot, Digit(High(i))>>
      /\ Low(i) # 0 => d = <<Dot, Digit(High(i)), Digit(Low(i))>>
  BY <1>4 DEF Fraction, High, Low
<1>6. a = <<Digit(Whole(i))>> \o d \o <<Plus>>
  BY <1>3 DEF ToRfc3339
<1> SUFFICES /\ a \in Seq(Nat) /\ Len(a) >= 2 /\ a[1] = Digit(Whole(i))
             /\ High(i) = 0 /\ Low(i) = 0 => a[2] = Plus
             /\ High(i) # 0 \/ Low(i) # 0 =>
                  /\ Len(a) >= 4 /\ a[2] = Dot /\ a[3] = Digit(High(i))
                  /\ a[4] = IF Low(i) = 0 THEN Plus ELSE Digit(Low(i))
  OBVIOUS
<1> HIDE DEF f, d, a
<1>7. ASSUME d \in Seq(Nat)
      PROVE  /\ a \in Seq(Nat) /\ Len(a) = Len(d) + 2
             /\ a[1] = Digit(Whole(i)) /\ a[Len(d) + 2] = Plus
             /\ \A k \in 1 .. Len(d) : a[k + 1] = d[k]
  BY <1>2, <1>6, <1>7, Join
<1>8. CASE High(i) = 0 /\ Low(i) = 0
  <2>1. d \in Seq(Nat) /\ Len(d) = 0
    BY <1>5, <1>8
  <2>2. a \in Seq(Nat) /\ Len(a) = 2 /\ a[1] = Digit(Whole(i)) /\ a[2] = Plus
    BY <1>7, <2>1
  <2> QED BY <1>8, <2>2
<1>9. CASE High(i) # 0 /\ Low(i) = 0
  <2>1. d = <<Dot, Digit(High(i))>>
    BY <1>5, <1>9
  <2>2. d \in Seq(Nat) /\ Len(d) = 2 /\ d[1] = Dot /\ d[2] = Digit(High(i))
    BY <1>2, <2>1
  <2>3. 1 \in 1 .. Len(d) /\ 2 \in 1 .. Len(d) /\ Len(a) = 4 /\ a[4] = Plus
    BY <1>7, <2>2
  <2>4. a[1 + 1] = Dot /\ a[2 + 1] = Digit(High(i))
    BY <1>7, <2>2, <2>3
  <2> QED BY <1>7, <1>9, <2>2, <2>3, <2>4
<1>10. CASE Low(i) # 0
  <2>1. d = <<Dot, Digit(High(i)), Digit(Low(i))>>
    BY <1>5, <1>10
  <2>2. /\ d \in Seq(Nat) /\ Len(d) = 3
        /\ d[1] = Dot /\ d[2] = Digit(High(i)) /\ d[3] = Digit(Low(i))
    BY <1>2, <2>1
  <2>3. 1 \in 1 .. Len(d) /\ 2 \in 1 .. Len(d) /\ 3 \in 1 .. Len(d) /\ Len(a) = 5
    BY <1>7, <2>2
  <2>4. a[1 + 1] = Dot /\ a[2 + 1] = Digit(High(i)) /\ a[3 + 1] = Digit(Low(i))
    BY <1>7, <2>2, <2>3
  <2> QED BY <1>7, <1>10, <2>2, <2>3, <2>4
<1> QED BY <1>8, <1>9, <1>10

\* The earlier instant has the smaller text.
LEMMA Earlier ==
    ASSUME NEW i \in Nat, NEW j \in Nat, i < j, j < Year10000
    PROVE  TextLeq(ToRfc3339(i), ToRfc3339(j)) /\ ~TextLeq(ToRfc3339(j), ToRfc3339(i))
<1> DEFINE a == ToRfc3339(i)
           b == ToRfc3339(j)
<1>1. i < Year10000 /\ Base \in Nat \ {0} /\ Second \in Nat \ {0}
  BY BaseAssumption DEF Year10000, Second
<1>2. /\ Whole(i) \in Nat /\ High(i) \in Nat /\ Low(i) \in Nat
      /\ Whole(j) \in Nat /\ High(j) \in Nat /\ Low(j) \in Nat
  BY <1>1, Parts
<1>3. /\ a \in Seq(Nat) /\ Len(a) >= 2 /\ a[1] = Digit(Whole(i))
      /\ b \in Seq(Nat) /\ Len(b) >= 2 /\ b[1] = Digit(Whole(j))
      /\ High(i) = 0 /\ Low(i) = 0 => a[2] = Plus
      /\ High(i) # 0 \/ Low(i) # 0 =>
           /\ Len(a) >= 4 /\ a[2] = Dot /\ a[3] = Digit(High(i))
           /\ a[4] = IF Low(i) = 0 THEN Plus ELSE Digit(Low(i))
      /\ High(j) # 0 \/ Low(j) # 0 =>
           /\ Len(b) >= 4 /\ b[2] = Dot /\ b[3] = Digit(High(j))
           /\ b[4] = IF Low(j) = 0 THEN Plus ELSE Digit(Low(j))
  BY <1>1, Shape
<1> SUFFICES TextLeq(a, b) /\ ~TextLeq(b, a)
  OBVIOUS
<1> HIDE DEF a, b
<1>4. ASSUME NEW k \in 1 .. 4, k <= Len(a), k <= Len(b),
             \A m \in 1 .. k - 1 : a[m] = b[m], a[k] < b[k]
      PROVE  TextLeq(a, b) /\ ~TextLeq(b, a)
  <2>1. a \in Seq(Nat) /\ b \in Seq(Nat) /\ k \in 1 .. Len(a)
    BY <1>3, <1>4
  <2> QED BY <1>4, <2>1, FirstDifference
<1>5. \/ Whole(i) < Whole(j)
      \/ Whole(i) = Whole(j) /\ i % Second < j % Second
  <2>1. /\ i % Second \in 0 .. Second - 1 /\ i = Second * Whole(i) + (i % Second)
        /\ j % Second \in 0 .. Second - 1 /\ j = Second * Whole(j) + (j % Second)
    BY <1>1, Parts
  <2> QED BY <1>1, <1>2, <2>1, QuotientFirst
<1>6. CASE Whole(i) < Whole(j)
  <2>1. a[1] < b[1]
    BY <1>2, <1>3, <1>6 DEF Digit
  <2>2. 1 <= Len(a) /\ 1 <= Len(b) /\ \A m \in 1 .. 1 - 1 : a[m] = b[m]
    BY <1>3
  <2> QED BY <1>4, <2>1, <2>2
<1>7. CASE Whole(i) = Whole(j) /\ i % Second < j % Second
  <2>1. High(i) < High(j) \/ (High(i) = High(j) /\ Low(i) < Low(j))
    <3>1. /\ Low(i) \in 0 .. Base - 1 /\ i % Second = Base * High(i) + Low(i)
          /\ Low(j) \in 0 .. Base - 1 /\ j % Second = Base * High(j) + Low(j)
      BY <1>1, Parts
    <3> QED BY <1>1, <1>2, <1>7, <3>1, QuotientFirst
  <2>2. High(j) # 0 \/ Low(j) # 0
    BY <1>2, <2>1
  <2>3. a[1] = b[1]
    BY <1>3, <1>7
  <2>4. CASE High(i) = 0 /\ Low(i) = 0
    <3>1. a[2] = Plus /\ b[2] = Dot /\ 2 <= Len(a) /\ 2 <= Len(b)
      BY <1>3, <2>2, <2>4
    <3>2. a[2] < b[2]
      BY <3>1 DEF Plus, Dot
    <3>3. \A m \in 1 .. 2 - 1 : a[m] = b[m]
      BY <2>3
    <3> QED BY <1>4, <3>1, <3>2, <3>3
  <2>5. CASE High(i) # 0 \/ Low(i) # 0
    <3>1. /\ a[2] = b[2]
          /\ 3 <= Len(a) /\ 3 <= Len(b) /\ 4 <= Len(a) /\ 4 <= Len(b)
      <4>1. Len(a) \in Nat /\ Len(b) \in Nat
        BY <1>3
      <4>2. a[2] = Dot /\ b[2] = Dot /\ Len(a) >= 4 /\ Len(b) >= 4
        BY <1>3, <2>2, <2>5
      <4> QED BY <4>1, <4>2
    <3>2. CASE High(i) < High(j)
      <4>1. a[3] < b[3]
        BY <1>2, <1>3, <2>2, <2>5, <3>2 DEF Digit
      <4>2. \A m \in 1 .. 3 - 1 : a[m] = b[m]
        BY <2>3, <3>1
      <4> QED BY <1>4, <3>1, <4>1, <4>2
    <3>3. CASE High(i) = High(j) /\ Low(i) < Low(j)
      <4>1. a[4] < b[4]
        <5>1. Low(j) # 0
          BY <1>2, <3>3
        <5>2. b[4] = Digit(Low(j))
          BY <1>3, <5>1
        <5>3. a[4] = Plus \/ a[4] = Digit(Low(i))
          BY <1>3, <2>5
        <5> QED BY <1>2, <3>3, <5>2, <5>3 DEF Plus, Digit
      <4>2. \A m \in 1 .. 4 - 1 : a[m] = b[m]
        <5>1. a[3] = b[3]
          BY <1>3, <2>2, <2>5, <3>3
        <5> QED BY <2>3, <3>1, <5>1
      <4> QED BY <1>4, <3>1, <4>1, <4>2
    <3> QED BY <2>1, <3>2, <3>3
  <2> QED BY <2>4, <2>5
<1> QED BY <1>5, <1>6, <1>7

\* While years have four digits, comparing the texts that chrono prints is
\* comparing the instants, whatever fraction of a second they have.
THEOREM TextOrder ==
    ASSUME NEW i \in Nat, NEW j \in Nat, i < Year10000, j < Year10000
    PROVE  TextLeq(ToRfc3339(i), ToRfc3339(j)) <=> i <= j
<1>1. CASE i = j
  BY <1>1 DEF TextLeq
<1>2. CASE i < j
  BY <1>2, Earlier
<1>3. CASE j < i
  BY <1>3, Earlier
<1> QED BY <1>1, <1>2, <1>3
-----------------------------------------------------------------------------
(* Types.  CallMade: a closure carries out a call of Calls.                   *)

CallMade ==
    \A t \in Tasks :
        /\ call[t] \in Calls \cup {NoCall}
        /\ bpc[t] # "none" => call[t] # NoCall
        /\ pc[t] = "idle" => bpc[t] = "none"

IInv == TypeOK /\ CallMade

\* What the statement of a call leaves behind, and what it answers, is well typed.
LEMMA StatementTypes ==
    ASSUME NEW s \in Contents, NEW c \in CallType, NEW t
    PROVE  /\ Executed(s, c, t) \in Contents
           /\ [status |-> "ok",
               found |-> IF c.kind = "fetch" THEN s[c.id] ELSE NoRecord,
               removed |-> Removed(s, Executed(s, c, t))] \in ReplyType
<1>1. Executed(s, c, t) \in Contents
  <2>1. CASE c.kind = "insert"
    <3>1. Executed(s, c, t) = Put(s, c.id, c.rec)
      BY <2>1 DEF Executed
    <3> QED BY <3>1 DEF Put, Contents, CallType
  <2>2. CASE c.kind = "fetch"
    BY <2>2 DEF Executed
  <2>3. CASE c.kind = "delete"
    <3>1. Executed(s, c, t) = Remove(s, c.id)
      BY <2>3 DEF Executed
    <3> QED BY <3>1 DEF Remove, Contents
  <2>4. CASE c.kind = "delete_expired"
    <3>1. Executed(s, c, t) = [id \in RecordIds |->
            IF s[id] # NoRecord /\ TextLapsed(s[id], t) THEN NoRecord ELSE s[id]]
      BY <2>4 DEF Executed
    <3> QED BY <3>1 DEF Contents
  <2> QED BY <2>1, <2>2, <2>3, <2>4 DEF CallType, Kinds
<1>2. /\ (IF c.kind = "fetch" THEN s[c.id] ELSE NoRecord) \in StoredRecord \cup {NoRecord}
      /\ Removed(s, Executed(s, c, t)) \subseteq RecordIds
  BY DEF Contents, CallType, Removed
<1> QED BY <1>1, <1>2 DEF ReplyType

\* The invariant holds initially.
LEMMA InitInv == Init => IInv
<1>1. Empty \in Contents /\ Pending \in ReplyType
  BY DEF Empty, Contents, Pending, ReplyType
<1> QED BY <1>1 DEF Init, IInv, TypeOK, CallMade

\* The async half, and opening the database.
LEMMA AsyncInv ==
    ASSUME IInv,
           \/ \E p \in Procs : Open(p)
           \/ \E t \in Tasks : (\E c \in Calls : Invoke(t, c)) \/ Return(t) \/ Drop(t)
    PROVE  IInv'
BY CallsAssumption, NoCallAssumption
DEF IInv, TypeOK, CallMade, Open, Invoke, Return, Drop, procVars, taskVars, closureVars

\* A closure that takes the Mutex, or ends without a statement.
LEMMA ClosureInv ==
    ASSUME IInv, NEW t \in Tasks, LockConn(t) \/ ClosureFails(t) \/ ClosurePanics(t)
    PROVE  IInv'
<1>1. Failed \in ReplyType
  BY DEF Failed, ReplyType
<1> QED
  BY <1>1, ProcOfAssumption
  DEF IInv, TypeOK, CallMade, LockConn, ClosureFails, ClosurePanics, End, Unlock, taskVars

LEMMA ExecuteInv ==
    ASSUME IInv, NEW t \in Tasks, Execute(t)
    PROVE  IInv'
<1>1. table \in Contents /\ call[t] \in CallType
  BY CallsAssumption DEF IInv, TypeOK, CallMade, Execute
<1>2. table' \in Contents
  BY <1>1, StatementTypes DEF Execute
<1>3. reply' \in [Tasks -> ReplyType]
  BY <1>1, StatementTypes DEF Execute, End, IInv, TypeOK
<1>4. took' \in [Tasks -> BOOLEAN]
  BY DEF Execute, IInv, TypeOK
<1> QED
  BY <1>2, <1>3, <1>4 DEF IInv, TypeOK, CallMade, Execute, End, Unlock, taskVars

LEMMA CrashInv ==
    ASSUME IInv, NEW p \in Procs, Crash(p)
    PROVE  IInv'
BY DEF IInv, TypeOK, CallMade, Crash, TasksOf

LEMMA IdleInv ==
    ASSUME IInv, Tick \/ UNCHANGED vars
    PROVE  IInv'
BY DEF IInv, TypeOK, CallMade, Tick, vars, procVars, taskVars, closureVars

\* Every step preserves the invariant.
LEMMA NextInv == IInv /\ [Next]_vars => IInv'
BY AsyncInv, ClosureInv, ExecuteInv, CrashInv, IdleInv DEF Next

\* Type correctness of the SQLite backend.
THEOREM TypeCorrect == Spec => []TypeOK
<1>1. IInv => TypeOK
  BY DEF IInv
<1> QED BY <1>1, InitInv, NextInv, PTL DEF Spec
-----------------------------------------------------------------------------
(* SqliteStore implements StorageBackend while years have four digits.        *)

Dated(rec) == rec.expires_at # Never => rec.expires_at < Year10000

\* No clock reading and no expiry that a caller asks for reaches the year 10000.
FourDigitYears ==
    /\ MaxTime < Year10000
    /\ \A c \in Calls : c.rec # NoRecord => Dated(c.rec)

\* The clock of delete_expired was read while the call was under way.
Timely == now <= MaxTime /\ \A t \in Tasks : since[t] <= now

\* What callers asked for is all there is in the table.
TableDated == \A id \in RecordIds : table[id] # NoRecord => Dated(table[id])

\* A call has no effect before its statement; an error before it is final.
EffectAtStatement ==
    \A t \in Tasks :
        /\ bpc[t] \in {"none", "queued", "locked"} => ~took[t]
        /\ pc[t] = "awaiting" /\ bpc[t] = "ended" /\ ~took[t] => reply[t] = Failed
        /\ pc[t] = "returned" => bpc[t] = "ended"

RInv == Timely /\ TableDated /\ EffectAtStatement

\* Comparing texts sweeps what comparing instants does.
LEMMA LapsedAlike ==
    ASSUME NEW rec \in StoredRecord, Dated(rec), NEW t \in Nat, t < Year10000
    PROVE  TextLapsed(rec, t) <=> Lapsed(rec, t)
<1>1. CASE rec.expires_at = Never
  BY <1>1 DEF TextLapsed, Lapsed
<1>2. CASE rec.expires_at # Never
  <2>1. rec.expires_at \in Nat /\ rec.expires_at < Year10000
    BY <1>2 DEF StoredRecord, Dated
  <2> QED BY <1>2, <2>1, TextOrder DEF TextLapsed, Lapsed
<1> QED BY <1>1, <1>2

\* A statement does to the table what the trait says the call does.
LEMMA StatementIsCall ==
    ASSUME NEW s \in Contents, NEW c \in CallType, NEW t \in Nat, t < Year10000,
           \A id \in RecordIds : s[id] # NoRecord => Dated(s[id])
    PROVE  Executed(s, c, t) = After(s, c, t)
<1>1. CASE c.kind = "insert"
  BY <1>1 DEF Executed, After
<1>2. CASE c.kind = "fetch"
  BY <1>2 DEF Executed, After
<1>3. CASE c.kind = "delete"
  BY <1>3 DEF Executed, After
<1>4. CASE c.kind = "delete_expired"
  <2>1. \A id \in RecordIds : s[id] # NoRecord => (TextLapsed(s[id], t) <=> Lapsed(s[id], t))
    BY LapsedAlike DEF Contents
  <2>2. After(s, c, t) = Sweep(s, t)
    BY <1>4 DEF After
  <2>3. Executed(s, c, t) = [id \in RecordIds |->
          IF s[id] # NoRecord /\ TextLapsed(s[id], t) THEN NoRecord ELSE s[id]]
    BY <1>4 DEF Executed
  <2> QED BY <2>1, <2>2, <2>3 DEF Sweep
<1> QED BY <1>1, <1>2, <1>3, <1>4 DEF CallType, Kinds

\* A statement stores nothing but the record of its call.
LEMMA StatementDated ==
    ASSUME NEW s \in Contents, NEW c \in CallType, NEW t,
           \A id \in RecordIds : s[id] # NoRecord => Dated(s[id]),
           c.rec # NoRecord => Dated(c.rec),
           NEW id \in RecordIds, Executed(s, c, t)[id] # NoRecord
    PROVE  Dated(Executed(s, c, t)[id])
<1>1. \/ Executed(s, c, t)[id] = s[id]
      \/ Executed(s, c, t)[id] = c.rec
      \/ Executed(s, c, t)[id] = NoRecord
  <2>1. CASE c.kind = "insert"
    <3>1. Executed(s, c, t) = Put(s, c.id, c.rec)
      BY <2>1 DEF Executed
    <3> QED BY <3>1 DEF Put, Contents
  <2>2. CASE c.kind = "fetch"
    BY <2>2 DEF Executed
  <2>3. CASE c.kind = "delete"
    <3>1. Executed(s, c, t) = Remove(s, c.id)
      BY <2>3 DEF Executed
    <3> QED BY <3>1 DEF Remove, Contents
  <2>4. CASE c.kind = "delete_expired"
    <3>1. Executed(s, c, t) = [x \in RecordIds |->
            IF s[x] # NoRecord /\ TextLapsed(s[x], t) THEN NoRecord ELSE s[x]]
      BY <2>4 DEF Executed
    <3> QED BY <3>1
  <2> QED BY <2>1, <2>2, <2>3, <2>4 DEF CallType, Kinds
<1> QED BY <1>1

\* It holds initially ...
LEMMA InitRInv == Init => RInv
BY MaxTimeAssumption DEF Init, RInv, Timely, TableDated, EffectAtStatement, Empty

\* ... and every step preserves it.
LEMMA NextRInv ==
    ASSUME FourDigitYears, IInv, RInv, [Next]_vars
    PROVE  RInv'
<1>1. ASSUME NEW p \in Procs, Open(p)
      PROVE  RInv'
  BY <1>1 DEF RInv, Timely, TableDated, EffectAtStatement, Open, taskVars, closureVars
<1>2. ASSUME NEW t \in Tasks, NEW c \in Calls, Invoke(t, c)
      PROVE  RInv'
  BY <1>2 DEF IInv, TypeOK, CallMade, RInv, Timely, TableDated, EffectAtStatement, Invoke
<1>3. ASSUME NEW t \in Tasks, Return(t) \/ Drop(t)
      PROVE  RInv'
  BY <1>3 DEF IInv, TypeOK, RInv, Timely, TableDated, EffectAtStatement, Return, Drop, closureVars
<1>4. ASSUME NEW t \in Tasks, LockConn(t) \/ ClosureFails(t) \/ ClosurePanics(t)
      PROVE  RInv'
  BY <1>4 DEF IInv, TypeOK, RInv, Timely, TableDated, EffectAtStatement, LockConn, ClosureFails,
      ClosurePanics, End, taskVars
<1>5. ASSUME NEW t \in Tasks, Execute(t)
      PROVE  RInv'
  <2>1. call[t] \in Calls /\ call[t] \in CallType /\ table \in Contents
    BY <1>5, CallsAssumption DEF IInv, TypeOK, CallMade, Execute
  <2>2. TableDated'
    BY <1>5, <2>1, StatementDated DEF FourDigitYears, RInv, TableDated, Execute
  <2>3. Timely'
    BY <1>5 DEF RInv, Timely, Execute, taskVars
  <2>4. EffectAtStatement'
    BY <1>5 DEF IInv, TypeOK, RInv, EffectAtStatement, Execute, End, taskVars
  <2> QED BY <2>2, <2>3, <2>4 DEF RInv
<1>6. ASSUME NEW p \in Procs, Crash(p)
      PROVE  RInv'
  BY <1>6 DEF IInv, TypeOK, CallMade, RInv, Timely, TableDated, EffectAtStatement, Crash
<1>7. CASE Tick \/ UNCHANGED vars
  BY <1>7, MaxTimeAssumption DEF IInv, TypeOK, RInv, Timely, TableDated, EffectAtStatement, Tick,
      vars, taskVars, closureVars
<1> QED BY <1>1, <1>2, <1>3, <1>4, <1>5, <1>6, <1>7 DEF Next

\* Invoking is invoking.
LEMMA InvokeRefines ==
    ASSUME IInv, NEW t \in Tasks, NEW c \in Calls, Invoke(t, c)
    PROVE  Backend!Invoke(t, c)
<1>1. StatusOf(t) = "idle" /\ StatusOf(t)' = "called"
  BY DEF Invoke, StatusOf, IInv, TypeOK
<1>2. \A u \in Tasks \ {t} : StatusOf(u)' = StatusOf(u)
  BY DEF Invoke, StatusOf, IInv, TypeOK
<1>3. \A u \in Tasks : ReplyOf(u)' = ReplyOf(u)
  BY DEF Invoke, ReplyOf, IInv, TypeOK
<1>4. [u \in Tasks |-> StatusOf(u)]' = [[u \in Tasks |-> StatusOf(u)] EXCEPT ![t] = "called"]
  BY <1>1, <1>2
<1>5. [u \in Tasks |-> ReplyOf(u)]' = [u \in Tasks |-> ReplyOf(u)]
  BY <1>3
<1> QED BY <1>1, <1>4, <1>5 DEF Invoke, Backend!Invoke

\* Steps that callers cannot see: opening, taking the Mutex, an error not handed on yet.
LEMMA Unseen ==
    ASSUME IInv, RInv,
           \/ \E p \in Procs : Open(p)
           \/ \E t \in Tasks : LockConn(t) \/ ClosureFails(t) \/ ClosurePanics(t)
           \/ UNCHANGED vars
    PROVE  UNCHANGED Backend!vars
<1>1. UNCHANGED <<table, now, call, since, pc, took>>
  BY DEF Open, LockConn, ClosureFails, ClosurePanics, taskVars, closureVars, vars
<1>2. [u \in Tasks |-> StatusOf(u)]' = [u \in Tasks |-> StatusOf(u)]
  BY <1>1 DEF StatusOf
<1>3. \A u \in Tasks : ReplyOf(u)' = ReplyOf(u)
  BY <1>1 DEF IInv, TypeOK, RInv, EffectAtStatement, Open, LockConn, ClosureFails, ClosurePanics,
      End, closureVars, vars, ReplyOf
<1>4. [u \in Tasks |-> ReplyOf(u)]' = [u \in Tasks |-> ReplyOf(u)]
  BY <1>3
<1> QED BY <1>1, <1>2, <1>4 DEF Backend!vars

\* Returning hands on the answer, or the error of a closure without effect.
LEMMA ReturnRefines ==
    ASSUME IInv, RInv, NEW t \in Tasks, Return(t)
    PROVE  Backend!Return(t) \/ Backend!Fail(t)
<1>1. UNCHANGED <<table, now, call, since, took, reply>>
  BY DEF Return, closureVars
<1>2. StatusOf(t) = "called" /\ StatusOf(t)' = "returned"
  BY DEF Return, StatusOf, IInv, TypeOK
<1>3. \A u \in Tasks \ {t} : StatusOf(u)' = StatusOf(u) /\ ReplyOf(u)' = ReplyOf(u)
  BY <1>1 DEF Return, StatusOf, ReplyOf, IInv, TypeOK
<1>4. [u \in Tasks |-> StatusOf(u)]' = [[u \in Tasks |-> StatusOf(u)] EXCEPT ![t] = "returned"]
  BY <1>2, <1>3
<1>5. CASE took[t]
  <2>1. ReplyOf(t)' = ReplyOf(t)
    BY <1>1, <1>5 DEF ReplyOf
  <2>2. [u \in Tasks |-> ReplyOf(u)]' = [u \in Tasks |-> ReplyOf(u)]
    BY <1>3, <2>1
  <2> QED BY <1>1, <1>2, <1>4, <1>5, <2>2 DEF Backend!Return
<1>6. CASE ~took[t]
  <2>1. ReplyOf(t)' = Failed
    BY <1>1, <1>6 DEF Return, ReplyOf, IInv, TypeOK, RInv, EffectAtStatement
  <2>2. [u \in Tasks |-> ReplyOf(u)]' = [[u \in Tasks |-> ReplyOf(u)] EXCEPT ![t] = Failed]
    BY <1>3, <2>1
  <2> QED BY <1>1, <1>2, <1>4, <1>6, <2>2 DEF Backend!Fail, Failed, Backend!Failed
<1> QED BY <1>5, <1>6

\* A future that is dropped abandons its call, and a crash those of its process.
LEMMA AbandonRefines ==
    ASSUME NEW ts \in SUBSET Tasks,
           \A t \in ts : pc[t] = "awaiting",
           pc' = [t \in Tasks |-> IF t \in ts THEN "dropped" ELSE pc[t]],
           UNCHANGED <<table, now, call, since, took, reply>>
    PROVE  Backend!Abandon(ts) \/ UNCHANGED Backend!vars
<1>1. \A t \in ts : StatusOf(t) = "called"
  BY DEF StatusOf
<1>2. \A t \in Tasks : StatusOf(t)' = IF t \in ts THEN "abandoned" ELSE StatusOf(t)
  <2>1. \A t \in ts : StatusOf(t)' = "abandoned"
    BY DEF StatusOf
  <2>2. \A t \in Tasks \ ts : StatusOf(t)' = StatusOf(t)
    BY DEF StatusOf
  <2> QED BY <2>1, <2>2
<1>3. \A t \in Tasks : ReplyOf(t)' = ReplyOf(t)
  BY DEF ReplyOf
<1>4. [t \in Tasks |-> ReplyOf(t)]' = [t \in Tasks |-> ReplyOf(t)]
  BY <1>3
<1>5. CASE ts = {}
  <2>1. [t \in Tasks |-> StatusOf(t)]' = [t \in Tasks |-> StatusOf(t)]
    BY <1>2, <1>5
  <2> QED BY <1>4, <2>1 DEF Backend!vars
<1>6. CASE ts # {}
  <2>1. [t \in Tasks |-> StatusOf(t)]'
          = [t \in Tasks |-> IF t \in ts THEN "abandoned" ELSE [u \in Tasks |-> StatusOf(u)][t]]
    BY <1>2
  <2> QED BY <1>1, <1>4, <1>6, <2>1 DEF Backend!Abandon
<1> QED BY <1>5, <1>6

LEMMA DropRefines ==
    ASSUME IInv, NEW t \in Tasks, Drop(t)
    PROVE  Backend!Abandon({t}) \/ UNCHANGED Backend!vars
<1>1. pc' = [u \in Tasks |-> IF u \in {t} THEN "dropped" ELSE pc[u]]
  BY DEF Drop, IInv, TypeOK
<1> QED BY <1>1, AbandonRefines DEF Drop, closureVars

LEMMA CrashRefines ==
    ASSUME NEW p \in Procs, Crash(p)
    PROVE  (\E ts \in SUBSET Tasks : Backend!Abandon(ts)) \/ UNCHANGED Backend!vars
<1> DEFINE ts == {t \in TasksOf(p) : pc[t] = "awaiting"}
<1>1. ts \in SUBSET Tasks /\ \A t \in ts : pc[t] = "awaiting"
  BY DEF TasksOf
<1>2. pc' = [u \in Tasks |-> IF u \in ts THEN "dropped" ELSE pc[u]]
  BY DEF Crash
<1>3. UNCHANGED <<table, now, call, since, took, reply>>
  BY DEF Crash
<1> HIDE DEF ts
<1> QED BY <1>1, <1>2, <1>3, AbandonRefines

\* The statement is the effect, at the clock reading of the call.
LEMMA ExecuteRefines ==
    ASSUME FourDigitYears, IInv, RInv, NEW t \in Tasks, Execute(t)
    PROVE  \E x \in since[t] .. now : Backend!Apply(t, x)
<1>1. /\ table \in Contents /\ call[t] \in CallType
      /\ pc[t] \in {"awaiting", "dropped"} /\ ~took[t]
      /\ since[t] \in since[t] .. now /\ since[t] \in Nat /\ since[t] < Year10000
  <2>1. table \in Contents /\ call[t] \in CallType
    BY CallsAssumption DEF IInv, TypeOK, CallMade, Execute
  <2>2. pc[t] \in {"awaiting", "dropped"} /\ ~took[t]
    BY DEF IInv, TypeOK, CallMade, RInv, EffectAtStatement, Execute
  <2>3. since[t] \in Nat /\ now \in Nat /\ since[t] <= now /\ now <= MaxTime
    BY DEF IInv, TypeOK, RInv, Timely
  <2>4. MaxTime < Year10000 /\ Year10000 \in Nat
    BY BaseAssumption DEF FourDigitYears, Year10000, Second
  <2> QED BY <2>1, <2>2, <2>3, <2>4, MaxTimeAssumption
<1>2. Executed(table, call[t], since[t]) = After(table, call[t], since[t])
  BY <1>1, StatementIsCall DEF RInv, TableDated
<1>3. table' = After(table, call[t], since[t])
  BY <1>2 DEF Execute
<1>4. reply' = [reply EXCEPT ![t] = Answer(table, call[t], since[t])]
  BY <1>2 DEF Execute, End, Answer
<1>5. UNCHANGED <<now, call, since, pc>> /\ took' = [took EXCEPT ![t] = TRUE]
  BY DEF Execute, taskVars
<1>6. StatusOf(t) \in {"called", "abandoned"}
  BY <1>1 DEF StatusOf
<1>7. [u \in Tasks |-> StatusOf(u)]' = [u \in Tasks |-> StatusOf(u)]
  BY <1>5 DEF StatusOf
<1>8. /\ ReplyOf(t)' = Answer(table, call[t], since[t])
      /\ \A u \in Tasks \ {t} : ReplyOf(u)' = ReplyOf(u)
  BY <1>4, <1>5 DEF ReplyOf, IInv, TypeOK
<1>9. [u \in Tasks |-> ReplyOf(u)]'
        = [[u \in Tasks |-> ReplyOf(u)] EXCEPT ![t] = Answer(table, call[t], since[t])]
  BY <1>8
<1>10. Backend!Apply(t, since[t])
  BY <1>1, <1>3, <1>5, <1>6, <1>7, <1>9
  DEF Backend!Apply, After, Backend!After, Answer, Backend!Answer, Removed, Backend!Removed,
      Put, Backend!Put, Remove, Backend!Remove, Sweep, Backend!Sweep, Lapsed, Backend!Lapsed
<1> QED BY <1>1, <1>10

\* The clock is the clock.
LEMMA TickRefines ==
    ASSUME Tick
    PROVE  Backend!Tick
<1>1. [u \in Tasks |-> StatusOf(u)]' = [u \in Tasks |-> StatusOf(u)]
  BY DEF Tick, taskVars, StatusOf
<1>2. [u \in Tasks |-> ReplyOf(u)]' = [u \in Tasks |-> ReplyOf(u)]
  BY DEF Tick, taskVars, closureVars, ReplyOf
<1> QED BY <1>1, <1>2 DEF Tick, taskVars, closureVars, Backend!Tick

\* The SQLite backend implements the contract of the trait, for any number of
\* processes and tasks, as long as every instant has a year of four digits:
\* through drops, errors, panics and crashes every call appears to take effect at
\* one instant, or not at all, and delete_expired sweeps what has expired.
THEOREM Implements ==
    ASSUME FourDigitYears
    PROVE  Spec => ImplementsBackend
<1>1. Init => Backend!Init
  <2>1. Init => [t \in Tasks |-> StatusOf(t)] = [t \in Tasks |-> "idle"]
    BY DEF Init, StatusOf
  <2>2. Init => [t \in Tasks |-> ReplyOf(t)] = [t \in Tasks |-> Pending]
    BY DEF Init, ReplyOf
  <2> QED BY <2>1, <2>2 DEF Init, Backend!Init, Empty, Backend!Empty, Pending, Backend!Pending
<1>2. (IInv /\ RInv) /\ [Next]_vars => [Backend!Next]_(Backend!vars)
  <2> SUFFICES ASSUME IInv, RInv, [Next]_vars
               PROVE  [Backend!Next]_(Backend!vars)
    OBVIOUS
  <2>1. ASSUME NEW t \in Tasks, NEW c \in Calls, Invoke(t, c)
        PROVE  Backend!Next
    BY <2>1, InvokeRefines DEF Backend!Next
  <2>2. ASSUME NEW t \in Tasks, Return(t)
        PROVE  Backend!Next
    BY <2>2, ReturnRefines DEF Backend!Next
  <2>3. ASSUME NEW t \in Tasks, Drop(t)
        PROVE  [Backend!Next]_(Backend!vars)
    BY <2>3, DropRefines DEF Backend!Next
  <2>4. ASSUME NEW p \in Procs, Crash(p)
        PROVE  [Backend!Next]_(Backend!vars)
    BY <2>4, CrashRefines DEF Backend!Next
  <2>5. ASSUME NEW t \in Tasks, Execute(t)
        PROVE  Backend!Next
    BY <2>5, ExecuteRefines DEF Backend!Next
  <2>6. CASE Tick
    BY <2>6, TickRefines DEF Backend!Next
  <2> QED BY Unseen, <2>1, <2>2, <2>3, <2>4, <2>5, <2>6 DEF Next
<1>3. Init => IInv /\ RInv
  BY InitInv, InitRInv
<1>4. (IInv /\ RInv) /\ [Next]_vars => (IInv /\ RInv)'
  BY NextInv, NextRInv
<1> QED BY <1>1, <1>2, <1>3, <1>4, PTL DEF Spec, ImplementsBackend, Backend!Spec
=============================================================================
