-------------------------- MODULE RpcServerProofs --------------------------
(***************************************************************************)
(* Proofs about RpcServer for any requests, bodies, proofs and limits.     *)
(* Results are matched with the calls they answer (ResultsInPlace), the    *)
(* response is bounded by what its calls can add to it (Accounted), and a  *)
(* request turned away by the bearer layer or for its size has had no      *)
(* method run (TurnedAway).                                                *)
(***************************************************************************)
EXTENDS RpcServer, TLAPS

\* The bytes that a call adds to the response at most.
Largest(c) == ResponseSize(c, IntoJson(c.proof))

\* w[i] are the bytes of the response after i calls, if all of them succeed.
Sums(b, w) ==
    /\ w[0] = 0
    /\ \A i \in 1 .. Len(b.calls) : w[i] = w[i - 1] + Largest(b.calls[i])

\* The response limit has room for every batch a body may carry.
ResponsesFit ==
    \A b \in Bodies : \E w \in [0 .. Len(b.calls) -> 0 .. MaxResponse] : Sums(b, w)

\* The transport limit is not cut off at the largest u32.
LimitUncut == MaxProofSize + Headroom <= U32Max

-----------------------------------------------------------------------------
(* The invariant *)

\* How far a request is, and what it has to show for it.
Progress ==
    \A r \in Requests :
        /\ stage[r] = "idle" <=> body[r] = None
        /\ stage[r] \in {"idle", "sent", "reading"}
            => done[r] = <<>> /\ used[r] = 0 /\ taken[r] = {} /\ answer[r] = "none"
        /\ stage[r] = "calling" => answer[r] = "none" /\ Len(done[r]) < Len(body[r].calls)
        /\ stage[r] \in {"answering", "proxying"} => answer[r] # "none"

\* Turned away before any method ran.
TurnedAway ==
    \A r \in Requests :
        /\ answer[r] \in {"http401", "http413"} => done[r] = <<>> /\ taken[r] = {}
        /\ answer[r] = "http413" => BodySize(body[r]) > HttpBodyLimit

\* Call c retrieves p, and its result is p unless that alone is too large.
Retrieves(c, code, p) ==
    /\ c.method = "retrieveProof" /\ c.proof = p
    /\ code = "ok" \/ Largest(c) > MaxResponse

\* Call c stores a proof, and there is something wrong with it.
Invalid(c) == c.method = "storeProof" /\ (Size[c.proof] > MaxProofSize \/ c.slip # "none")

\* Every result is that of the call at its place.
ResultsInPlace ==
    \A r \in Requests :
        /\ \A p \in taken[r] \ Raw : \E i \in DOMAIN done[r] :
            i \in DOMAIN body[r].calls /\ Retrieves(body[r].calls[i], done[r][i], p)
        /\ \A i \in DOMAIN done[r] : done[r][i] = "InvalidParameter" =>
            i \in DOMAIN body[r].calls /\ Invalid(body[r].calls[i])

\* The response is no larger than its calls can make it.
Accounted ==
    \A r \in Requests :
        /\ body[r] # None =>
            \A w \in [0 .. Len(body[r].calls) -> Nat] :
                Sums(body[r], w) =>
                    /\ Len(done[r]) \in 0 .. Len(body[r].calls)
                    /\ used[r] <= w[Len(done[r])]
        /\ answer[r] = "too_big" => body[r] # None /\ used[r] > MaxResponse

\* Nothing over the limit is in the vault, but for what an earlier session left.
WithinLimit == \A p \in (stored \cup lapsed) \ Legacy : Size[p] <= MaxProofSize

RequestInv == Progress /\ TurnedAway /\ ResultsInPlace /\ Accounted

RpcInv == RpcTypeOK /\ RequestInv /\ WithinLimit

-----------------------------------------------------------------------------
\* What a call on the vault may come to.
LEMMA OutcomeTypes ==
    ASSUME NEW c \in CallType, stored \subseteq Proofs, lapsed \subseteq Proofs,
           NEW o \in Outcomes(c)
    PROVE  /\ o.code \in Codes
           /\ o.stored \subseteq Proofs /\ o.lapsed \subseteq Proofs /\ o.got \subseteq Proofs
           /\ \A p \in o.got \ Raw :
                o.code = "ok" /\ c.method = "retrieveProof" /\ c.proof = p
           /\ \A p \in o.stored \cup o.lapsed : p \in stored \cup lapsed \/ Size[p] <= MaxProofSize
           /\ o.code = "InvalidParameter" => Invalid(c)
           /\ c.method = "retrieveProof" /\ o.code = "ok" => c.proof \notin Raw
<1>0. c.method \in Methods /\ c.proof \in Proofs /\ Size[c.proof] \in Nat /\ MaxProofSize \in Nat
  BY SizeAssumption, LimitsAssumption DEF CallType
<1>1. CASE c.method = "storeProof"
  <2>1. o \in StoreProof(c)
    BY <1>1 DEF Outcomes
  <2> QED BY <2>1, <1>0, <1>1 DEF StoreProof, Unchanged, Outcome, Codes, Invalid
<1>2. CASE c.method = "retrieveProof"
  <2>1. o \in RetrieveProof(c)
    BY <1>2 DEF Outcomes
  <2> QED BY <2>1, <1>0, <1>2 DEF RetrieveProof, Claim, Consume, IntoJson, Unchanged, Outcome, Codes
<1>3. CASE c.method = "deleteProof"
  <2>1. o \in DeleteProof(c)
    BY <1>3 DEF Outcomes
  <2> QED BY <2>1, <1>0, <1>3 DEF DeleteProof, Claim, Consume, Unchanged, Outcome, Codes
<1>4. CASE c.method = "discover"
  <2>1. o = Unchanged("ok")
    BY <1>4 DEF Outcomes, Discover
  <2> QED BY <2>1, <1>0, <1>4 DEF Unchanged, Outcome, Codes
<1> QED BY <1>0, <1>1, <1>2, <1>3, <1>4 DEF Methods

\* The bytes of a call are at most the largest it can add.
LEMMA LargestBounds ==
    ASSUME NEW c \in CallType, NEW code,
           c.method = "retrieveProof" /\ code = "ok" => c.proof \notin Raw
    PROVE  /\ ResponseSize(c, code) \in Nat /\ Largest(c) \in Nat
           /\ ResponseSize(c, code) <= Largest(c)
BY SizeAssumption, LimitsAssumption DEF CallType, ResponseSize, Largest, IntoJson

\* What becomes of the result of a call on its way into the response.
LEMMA SentTypes ==
    ASSUME NEW c \in CallType, stored \subseteq Proofs, lapsed \subseteq Proofs,
           NEW o \in Outcomes(c)
    PROVE  /\ Sent(c, o.code) \in Codes /\ o.got \subseteq Proofs
           /\ \A p \in o.got \ Raw : Retrieves(c, Sent(c, o.code), p)
           /\ Sent(c, o.code) = "InvalidParameter" => Invalid(c)
           /\ ResponseSize(c, Sent(c, o.code)) \in Nat /\ Largest(c) \in Nat
           /\ ResponseSize(c, Sent(c, o.code)) <= Largest(c)
<1>1. /\ o.code \in Codes /\ o.got \subseteq Proofs
      /\ \A p \in o.got \ Raw :
            o.code = "ok" /\ c.method = "retrieveProof" /\ c.proof = p
      /\ o.code = "InvalidParameter" => Invalid(c)
      /\ c.method = "retrieveProof" /\ o.code = "ok" => c.proof \notin Raw
  BY OutcomeTypes
<1>2. Sent(c, o.code) = o.code \/ (Sent(c, o.code) = "TooBig" /\ ResponseSize(c, o.code) > MaxResponse)
  BY DEF Sent
<1>3. /\ ResponseSize(c, o.code) \in Nat /\ Largest(c) \in Nat
      /\ ResponseSize(c, o.code) <= Largest(c)
  BY <1>1, LargestBounds
<1>4. /\ ResponseSize(c, Sent(c, o.code)) \in Nat
      /\ ResponseSize(c, Sent(c, o.code)) <= Largest(c)
  BY <1>1, <1>2, LargestBounds
<1>5. ASSUME NEW p \in o.got \ Raw PROVE Retrieves(c, Sent(c, o.code), p)
  BY <1>1, <1>2, <1>3, LimitsAssumption DEF Retrieves
<1> QED BY <1>1, <1>2, <1>3, <1>4, <1>5 DEF Codes

\* The parts of a body that arrived.
LEMMA BodyParts ==
    ASSUME RpcTypeOK, NEW r \in Requests, body[r] # None
    PROVE  /\ body[r] \in Bodies
           /\ body[r].calls \in Seq(CallType)
           /\ body[r].auth \in Tokens \cup {None}
BY BodiesAssumption DEF RpcTypeOK, BodyType

\* A request that is calling has a call to make.
LEMMA CurrentCallType ==
    ASSUME RpcTypeOK, Progress, NEW r \in Requests, stage[r] = "calling"
    PROVE  /\ CurrentCall(r) \in CallType
           /\ CurrentCall(r) = body[r].calls[Len(done[r]) + 1]
           /\ Len(done[r]) + 1 \in 1 .. Len(body[r].calls)
           /\ Len(done[r]) \in Nat
<1>1. body[r] # None
  BY DEF Progress
<1>2. body[r].calls \in Seq(CallType) /\ done[r] \in Seq(Codes)
  BY <1>1, BodyParts DEF RpcTypeOK
<1>3. Len(done[r]) < Len(body[r].calls)
  BY DEF Progress
<1>4. Len(done[r]) + 1 \in 1 .. Len(body[r].calls)
  BY <1>2, <1>3
<1> QED BY <1>2, <1>4 DEF CurrentCall

-----------------------------------------------------------------------------
\* At the start no request has been sent.
LEMMA RequestsInitInv == RequestsInit => RequestInv
<1> SUFFICES ASSUME RequestsInit PROVE RequestInv
  OBVIOUS
<1> USE DEF RequestsInit
<1>1. Progress /\ TurnedAway
  BY DEF Progress, TurnedAway
<1>2. ResultsInPlace /\ Accounted
  BY DEF ResultsInPlace, Accounted
<1> QED BY <1>1, <1>2 DEF RequestInv

\* Nor is there anything in the vault but what an earlier session left.
LEMMA RpcStartInv ==
    ASSUME RequestsInit, stored = Legacy, lapsed = {}, secured \in BOOLEAN,
           server \in {"down", "up"}, expected \in Tokens \cup {None}
    PROVE  RpcInv
<1>1. /\ stage \in [Requests -> Stages]
      /\ body \in [Requests -> Bodies \cup {None}]
      /\ answer \in [Requests -> {"none", "results", "http401", "http413", "too_big"}]
  BY DEF RequestsInit, Stages
<1>2. /\ done \in [Requests -> Seq(Codes)]
      /\ used \in [Requests -> Nat]
      /\ taken \in [Requests -> SUBSET Proofs]
  BY DEF RequestsInit
<1>3. RpcTypeOK
  BY <1>1, <1>2, LegacyAssumption DEF RpcTypeOK
<1> QED BY <1>3, RequestsInitInv DEF RpcInv, WithinLimit

\* The way of a request after its answer, or out: nothing but its stage changes.
LEMMA MovesOn ==
    ASSUME RpcTypeOK, RequestInv,
           stage' \in [Requests -> Stages],
           UNCHANGED <<body, done, used, answer, taken>>,
           \A r \in Requests :
              \/ stage'[r] = stage[r]
              \/ stage[r] # "idle" /\ stage'[r] \in Ended
              \/ stage[r] = "answering" /\ stage'[r] = "proxying"
    PROVE  RequestInv'
<1>1. Progress'
  BY DEF RequestInv, Progress, Ended
<1>2. TurnedAway'
  BY DEF RequestInv, TurnedAway
<1>3. ResultsInPlace'
  BY DEF RequestInv, ResultsInPlace
<1>4. Accounted'
  BY DEF RequestInv, Accounted
<1> QED BY <1>1, <1>2, <1>3, <1>4 DEF RequestInv

\* Refused, written to the socket, copied to the client.
LEMMA WayBackInv ==
    ASSUME RpcInv, NEW r \in Requests, Refuse(r) \/ Respond(r) \/ Proxy(r)
    PROVE  RpcInv'
<1>1. RpcTypeOK'
  BY DEF RpcInv, RpcTypeOK, Refuse, Respond, Proxy, serverVars, vaultVars, Stages, InFlight, Ended
<1>2. RequestInv'
  BY <1>1, MovesOn DEF RpcInv, RpcTypeOK, Refuse, Respond, Proxy, Ended
<1>3. WithinLimit'
  BY DEF RpcInv, WithinLimit, Refuse, Respond, Proxy, vaultVars
<1> QED BY <1>1, <1>2, <1>3 DEF RpcInv

\* A request that is sent has had nothing done for it.
LEMMA SendInv ==
    ASSUME RpcInv, NEW r \in Requests, NEW b \in Bodies, Send(r, b)
    PROVE  RpcInv'
<1>0. b # None /\ b.calls \in Seq(CallType)
  BY NoneAssumption, BodiesAssumption DEF BodyType
<1>1. RpcTypeOK'
  BY DEF RpcInv, RpcTypeOK, Send, serverVars, vaultVars, Stages, InFlight
<1>2. Progress'
  BY <1>0 DEF RpcInv, RpcTypeOK, RequestInv, Progress, Send
<1>3. TurnedAway'
  BY DEF RpcInv, RpcTypeOK, RequestInv, Progress, TurnedAway, Send
<1>4. ResultsInPlace'
  BY DEF RpcInv, RpcTypeOK, RequestInv, Progress, ResultsInPlace, Send
<1>5. Accounted'
  <2> SUFFICES ASSUME NEW q \in Requests
               PROVE  (Accounted!(q))'
    BY DEF Accounted
  <2>1. CASE q # r
    BY <2>1 DEF RpcInv, RpcTypeOK, RequestInv, Accounted, Send
  <2>2. CASE q = r
    BY <2>2, <1>0 DEF RpcInv, RpcTypeOK, RequestInv, Progress, Sums, Send
  <2> QED BY <2>1, <2>2
<1>6. WithinLimit'
  BY DEF RpcInv, WithinLimit, Send, vaultVars
<1> QED BY <1>1, <1>2, <1>3, <1>4, <1>5, <1>6 DEF RpcInv, RequestInv

\* The two checks on the way in: what they turn away no method has run for.
LEMMA WayInInv ==
    ASSUME RpcInv, NEW r \in Requests, Authenticate(r) \/ ReadBody(r)
    PROVE  RpcInv'
<1>0. /\ stage[r] \in {"sent", "reading"}
      /\ UNCHANGED <<serverVars, vaultVars, body, done, used, taken>>
      /\ \/ stage' = [stage EXCEPT ![r] = "reading"] /\ answer' = answer
         \/ stage' = [stage EXCEPT ![r] = "calling"] /\ answer' = answer
         \/ /\ stage' = [stage EXCEPT ![r] = "answering"]
            /\ \/ answer' = [answer EXCEPT ![r] = "http401"]
               \/ /\ answer' = [answer EXCEPT ![r] = "http413"]
                  /\ BodySize(body[r]) > HttpBodyLimit
  BY DEF Authenticate, ReadBody, Answer
<1>1. RpcTypeOK'
  BY <1>0 DEF RpcInv, RpcTypeOK, serverVars, vaultVars, Stages, InFlight
<1>2. Progress'
  <2>1. body[r] # None /\ done[r] = <<>>
    BY <1>0 DEF RpcInv, RequestInv, Progress
  <2>2. body[r].calls \in Seq(CallType) \ {<<>>}
    BY <2>1, BodiesAssumption DEF RpcInv, RpcTypeOK, BodyType
  <2>3. Len(done[r]) < Len(body[r].calls)
    BY <2>1, <2>2
  <2> QED BY <1>0, <2>3 DEF RpcInv, RpcTypeOK, RequestInv, Progress
<1>3. TurnedAway'
  BY <1>0 DEF RpcInv, RpcTypeOK, RequestInv, Progress, TurnedAway
<1>4. ResultsInPlace'
  BY <1>0 DEF RpcInv, RequestInv, ResultsInPlace
<1>5. Accounted'
  BY <1>0 DEF RpcInv, RpcTypeOK, RequestInv, Accounted
<1>6. WithinLimit'
  BY <1>0 DEF RpcInv, WithinLimit, vaultVars
<1> QED BY <1>1, <1>2, <1>3, <1>4, <1>5, <1>6 DEF RpcInv, RequestInv

\* What a call does to the vault keeps within the limit.
LEMMA OutcomeWithin ==
    ASSUME RpcInv, NEW c \in CallType, NEW o \in Outcomes(c),
           stored' = o.stored, lapsed' = o.lapsed
    PROVE  stored' \subseteq Proofs /\ lapsed' \subseteq Proofs /\ WithinLimit'
<1>1. stored \subseteq Proofs /\ lapsed \subseteq Proofs
  BY DEF RpcInv, RpcTypeOK
<1> QED BY <1>1, OutcomeTypes DEF RpcInv, WithinLimit

\* The client goes away; the call under way may still have its effect.
LEMMA DisconnectInv ==
    ASSUME RpcInv, NEW r \in Requests, Disconnect(r)
    PROVE  RpcInv'
<1>1. stored' \subseteq Proofs /\ lapsed' \subseteq Proofs /\ WithinLimit'
  <2>1. CASE UNCHANGED vaultVars
    BY <2>1 DEF RpcInv, RpcTypeOK, WithinLimit, vaultVars
  <2>2. CASE /\ stage[r] = "calling"
             /\ \E o \in Outcomes(CurrentCall(r)) : stored' = o.stored /\ lapsed' = o.lapsed
    <3>1. CurrentCall(r) \in CallType
      BY <2>2, CurrentCallType DEF RpcInv, RequestInv
    <3> QED BY <2>2, <3>1, OutcomeWithin
  <2> QED BY <2>1, <2>2 DEF Disconnect
<1>2. RpcTypeOK'
  BY <1>1 DEF RpcInv, RpcTypeOK, Disconnect, serverVars, Stages, Ended
<1>3. RequestInv'
  BY <1>2, MovesOn DEF RpcInv, RpcTypeOK, Disconnect, Ended, InFlight
<1> QED BY <1>1, <1>2, <1>3 DEF RpcInv

\* A call: its result takes its place, and its bytes are counted.
LEMMA CallInv ==
    ASSUME RpcInv, NEW r \in Requests, Call(r)
    PROVE  RpcInv'
<1> DEFINE c == CurrentCall(r)
           n == Len(done[r])
<1>0. stage[r] = "calling" /\ body[r] # None /\ answer[r] = "none"
  BY DEF Call, RpcInv, RequestInv, Progress
<1>1. /\ c \in CallType /\ c = body[r].calls[n + 1]
      /\ n + 1 \in 1 .. Len(body[r].calls) /\ n \in Nat
  BY <1>0, CurrentCallType DEF RpcInv, RequestInv
<1>2. PICK o \in Outcomes(c) :
        /\ stored' = o.stored /\ lapsed' = o.lapsed
        /\ taken' = [taken EXCEPT ![r] = @ \cup o.got]
        /\ done' = [done EXCEPT ![r] = Append(@, Sent(c, o.code))]
        /\ used' = [used EXCEPT ![r] = @ + ResponseSize(c, Sent(c, o.code))]
        /\ IF used'[r] > MaxResponse THEN Answer(r, "too_big")
           ELSE IF Len(done'[r]) = Len(body[r].calls) THEN Answer(r, "results")
           ELSE UNCHANGED <<stage, answer>>
  BY DEF Call
<1>3. UNCHANGED <<serverVars, body>>
  BY DEF Call
<1> DEFINE code == Sent(c, o.code)
<1> HIDE DEF c, n
<1>4. /\ code \in Codes /\ o.got \subseteq Proofs
      /\ \A p \in o.got \ Raw : Retrieves(c, code, p)
      /\ code = "InvalidParameter" => Invalid(c)
      /\ ResponseSize(c, code) \in Nat /\ Largest(c) \in Nat
      /\ ResponseSize(c, code) <= Largest(c)
  BY <1>1, SentTypes DEF RpcInv, RpcTypeOK
<1>5. stored' \subseteq Proofs /\ lapsed' \subseteq Proofs /\ WithinLimit'
  BY <1>1, <1>2, OutcomeWithin
<1>6. done[r] \in Seq(Codes) /\ body[r].calls \in Seq(CallType) /\ used[r] \in Nat
  BY <1>0, BodyParts DEF RpcInv, RpcTypeOK
<1>7. /\ done'[r] = Append(done[r], code) /\ Len(done'[r]) = n + 1
      /\ done'[r] \in Seq(Codes)
      /\ DOMAIN done'[r] = 1 .. n + 1 /\ DOMAIN done[r] = 1 .. n
      /\ done'[r][n + 1] = code
      /\ \A i \in 1 .. n : done'[r][i] = done[r][i]
      /\ DOMAIN body[r].calls = 1 .. Len(body[r].calls)
  BY <1>2, <1>4, <1>6 DEF RpcInv, RpcTypeOK, n
<1>8. /\ used'[r] = used[r] + ResponseSize(c, code) /\ taken'[r] = taken[r] \cup o.got
      /\ body' = body
      /\ \A q \in Requests \ {r} : /\ used'[q] = used[q] /\ taken'[q] = taken[q]
                                   /\ done'[q] = done[q]
  BY <1>2, <1>3 DEF RpcInv, RpcTypeOK
<1> HIDE DEF code
<1>9. /\ \/ /\ used'[r] > MaxResponse
            /\ stage' = [stage EXCEPT ![r] = "answering"]
            /\ answer' = [answer EXCEPT ![r] = "too_big"]
         \/ /\ stage' = [stage EXCEPT ![r] = "answering"]
            /\ answer' = [answer EXCEPT ![r] = "results"]
         \/ /\ Len(done'[r]) # Len(body[r].calls)
            /\ stage' = stage /\ answer' = answer
  BY <1>2 DEF Answer
<1>10. RpcTypeOK'
  <2>1. used' \in [Requests -> Nat]
    BY <1>2, <1>4 DEF RpcInv, RpcTypeOK, code
  <2>2. done' \in [Requests -> Seq(Codes)]
    BY <1>2, <1>7 DEF RpcInv, RpcTypeOK
  <2>3. taken' \in [Requests -> SUBSET Proofs]
    BY <1>2, <1>4 DEF RpcInv, RpcTypeOK
  <2>4. stage' \in [Requests -> Stages]
        /\ answer' \in [Requests -> {"none", "results", "http401", "http413", "too_big"}]
    BY <1>9 DEF RpcInv, RpcTypeOK, Stages, InFlight
  <2> QED BY <2>1, <2>2, <2>3, <2>4, <1>3, <1>5 DEF RpcInv, RpcTypeOK, serverVars
<1>11. Progress'
  <2> SUFFICES ASSUME NEW q \in Requests PROVE (Progress!(q))'
    BY DEF Progress
  <2>1. CASE q = r
    BY <2>1, <1>0, <1>1, <1>7, <1>8, <1>9 DEF RpcInv, RpcTypeOK
  <2>2. CASE q # r
    BY <2>2, <1>8, <1>9 DEF RpcInv, RpcTypeOK, RequestInv, Progress
  <2> QED BY <2>1, <2>2
<1>12. TurnedAway'
  BY <1>0, <1>8, <1>9 DEF RpcInv, RpcTypeOK, RequestInv, TurnedAway
<1>13. ResultsInPlace'
  <2> SUFFICES ASSUME NEW q \in Requests PROVE (ResultsInPlace!(q))'
    BY DEF ResultsInPlace
  <2>1. CASE q = r
    <3>1. ASSUME NEW p \in taken'[r] \ Raw
          PROVE  \E i \in DOMAIN done'[r] :
                    i \in DOMAIN body'[r].calls /\ Retrieves(body'[r].calls[i], done'[r][i], p)
      <4>1. CASE p \in o.got
        <5>1. Retrieves(c, code, p)
          BY <4>1, <1>4
        <5>2. n + 1 \in DOMAIN done'[r] /\ n + 1 \in DOMAIN body'[r].calls
          BY <1>1, <1>7, <1>8
        <5>3. body'[r].calls[n + 1] = c /\ done'[r][n + 1] = code
          BY <1>1, <1>7, <1>8
        <5> QED BY <5>1, <5>2, <5>3
      <4>2. CASE p \in taken[r]
        <5>1. PICK i \in DOMAIN done[r] :
                i \in DOMAIN body[r].calls /\ Retrieves(body[r].calls[i], done[r][i], p)
          BY <4>2 DEF RpcInv, RequestInv, ResultsInPlace
        <5>2. i \in 1 .. n /\ i \in 1 .. n + 1
          BY <1>1, <1>7
        <5> QED BY <5>1, <5>2, <1>7, <1>8
      <4> QED BY <4>1, <4>2, <1>8
    <3>2. ASSUME NEW i \in DOMAIN done'[r], done'[r][i] = "InvalidParameter"
          PROVE  i \in DOMAIN body'[r].calls /\ Invalid(body'[r].calls[i])
      <4>1. CASE i = n + 1
        BY <4>1, <3>2, <1>1, <1>4, <1>7, <1>8
      <4>2. CASE i \in 1 .. n
        <5>1. i \in DOMAIN done[r] /\ done[r][i] = "InvalidParameter"
          BY <4>2, <3>2, <1>7
        <5>2. i \in DOMAIN body[r].calls /\ Invalid(body[r].calls[i])
          BY <5>1 DEF RpcInv, RequestInv, ResultsInPlace
        <5> QED BY <5>2, <1>8
      <4> QED BY <4>1, <4>2, <1>7, <1>1
    <3> QED BY <2>1, <3>1, <3>2
  <2>2. CASE q # r
    BY <2>2, <1>8 DEF RpcInv, RequestInv, ResultsInPlace
  <2> QED BY <2>1, <2>2
<1>14. Accounted'
  <2> SUFFICES ASSUME NEW q \in Requests PROVE (Accounted!(q))'
    BY DEF Accounted
  <2>1. CASE q = r
    <3>1. ASSUME NEW w \in [0 .. Len(body[r].calls) -> Nat], Sums(body[r], w)
          PROVE  n + 1 \in 0 .. Len(body[r].calls) /\ used'[r] <= w[n + 1]
      <4>1. used[r] <= w[n]
        BY <3>1, <1>0 DEF RpcInv, RequestInv, Accounted, n
      <4>2. w[n + 1] = w[(n + 1) - 1] + Largest(c)
        BY <3>1, <1>1 DEF Sums
      <4>3. (n + 1) - 1 = n /\ w[n] \in Nat
        BY <1>1
      <4> QED BY <4>1, <4>2, <4>3, <1>1, <1>4, <1>6, <1>8
    <3>2. answer'[r] = "too_big" => used'[r] > MaxResponse
      BY <1>0, <1>9 DEF RpcInv, RpcTypeOK
    <3> QED BY <2>1, <3>1, <3>2, <1>0, <1>7, <1>8
  <2>2. CASE q # r
    BY <2>2, <1>8, <1>9 DEF RpcInv, RpcTypeOK, RequestInv, Accounted
  <2> QED BY <2>1, <2>2
<1> QED BY <1>5, <1>10, <1>11, <1>12, <1>13, <1>14 DEF RpcInv, RequestInv

\* Every step of a request keeps the invariant.
LEMMA RequestStepInv ==
    ASSUME RpcInv, NEW r \in Requests,
           (\E b \in Bodies : Send(r, b)) \/ Serve(r) \/ Disconnect(r)
    PROVE  RpcInv'
BY SendInv, WayInInv, CallInv, WayBackInv, DisconnectInv DEF Serve

-----------------------------------------------------------------------------
\* The size of a body with one call.  A fold is a recursive function over the
\* subsets of the places; with one place the function can be written down.
LEMMA OneCallSize ==
    ASSUME NEW b \in BodyType, Len(b.calls) = 1
    PROVE  BodySize(b) = IF b.calls[1].method = "storeProof"
                         THEN b.overhead + Size[b.calls[1].proof] ELSE b.overhead
<1> DEFINE Plus(n, c) == IF c.method = "storeProof" THEN n + Size[c.proof] ELSE n
           Step(f) == [s \in SUBSET DOMAIN b.calls |->
                         IF s = {} THEN b.overhead
                         ELSE Plus(f[s \ {Max(s)}], b.calls[Max(s)])]
           fold == CHOOSE f : f = Step(f)
           known == [s \in SUBSET DOMAIN b.calls |->
                       IF s = {} THEN b.overhead ELSE Plus(b.overhead, b.calls[1])]
<1>1. BodySize(b) = fold[DOMAIN b.calls]
  BY Zenon DEF BodySize, FoldLeft, MapThenFoldSet
<1> HIDE DEF Plus
<1>2. DOMAIN b.calls = {1}
  BY DEF BodyType
<1>3. Max({1}) = 1 /\ {1} \ {1} = {}
  BY DEF Max
<1>4. known = Step(known)
  <2>1. known[{}] = b.overhead /\ Step(known)[{}] = b.overhead
    BY <1>2
  <2>2. known[{1}] = Plus(b.overhead, b.calls[1])
    BY <1>2
  <2>3. Step(known)[{1}] = Plus(known[{}], b.calls[1])
    <3> HIDE DEF known
    <3> QED BY <1>2, <1>3
  <2>4. known[{1}] = Step(known)[{1}]
    BY <2>1, <2>2, <2>3, Zenon
  <2>5. \A s \in SUBSET {1} : s = {} \/ s = {1}
    OBVIOUS
  <2>6. \A s \in SUBSET {1} : known[s] = Step(known)[s]
    <3> HIDE DEF known, Step
    <3> QED BY <2>1, <2>4, <2>5, Zenon
  <2> QED BY <2>6, <1>2
<1>5. fold = Step(fold)
  <2> HIDE DEF Step, known
  <2> QED BY <1>4
<1>6. fold[{}] = b.overhead /\ fold[{1}] = Plus(fold[{}], b.calls[1])
  <2> HIDE DEF fold
  <2>1. Step(fold)[{}] = b.overhead /\ Step(fold)[{1}] = Plus(fold[{}], b.calls[1])
    BY <1>2, <1>3
  <2> HIDE DEF Step
  <2> QED BY <1>5, <2>1
<1> HIDE DEF fold
<1> QED BY <1>1, <1>2, <1>6 DEF Plus

\* The two limits agree whenever the transport limit is not cut off.
LEMMA RpcLimits ==
    ASSUME RpcInv, LimitUncut
    PROVE  LimitsAgree
<1>1. ASSUME NEW r \in Requests, body[r] # None, Modest(body[r])
      PROVE  answer[r] # "http413" /\ done[r] # <<"InvalidParameter">>
  <2> DEFINE b == body[r]
             c == b.calls[1]
  <2>1. b \in BodyType /\ Len(b.calls) = 1 /\ b.overhead <= Headroom /\ c.slip = "none"
        /\ \A p \in Stores(b) : Size[p] <= MaxProofSize
    BY <1>1, BodiesAssumption DEF RpcInv, RpcTypeOK, Modest
  <2>2. /\ b.overhead \in Nat /\ c \in CallType /\ c.proof \in Proofs /\ Size[c.proof] \in Nat
        /\ {MaxProofSize, Headroom, U32Max} \subseteq Nat
    <3>1. b.overhead \in Nat /\ b.calls \in Seq(CallType)
      BY <2>1 DEF BodyType
    <3>2. c \in CallType
      BY <2>1, <3>1
    <3> QED BY <3>1, <3>2, SizeAssumption, LimitsAssumption DEF CallType
  <2>3. c.method = "storeProof" => Size[c.proof] <= MaxProofSize
    <3>1. c \in ToSet(b.calls)
      BY <2>1 DEF ToSet, BodyType
    <3>2. c.method = "storeProof" => c.proof \in Stores(b)
      BY <2>2, <3>1 DEF Stores
    <3> QED BY <2>1, <3>2
  <2>4. BodySize(b) <= HttpBodyLimit
    <3>1. BodySize(b) = IF c.method = "storeProof" THEN b.overhead + Size[c.proof] ELSE b.overhead
      BY <2>1, OneCallSize
    <3>2. HttpBodyLimit = MaxProofSize + Headroom
      BY <2>2 DEF HttpBodyLimit, LimitUncut
    <3> HIDE DEF b, c
    <3> QED BY <2>1, <2>2, <2>3, <3>1, <3>2
  <2>5. answer[r] # "http413"
    <3>1. BodySize(b) \in Nat /\ HttpBodyLimit \in Nat
      BY <2>1, <2>2, OneCallSize DEF HttpBodyLimit
    <3>2. answer[r] = "http413" => BodySize(b) > HttpBodyLimit
      BY DEF RpcInv, RequestInv, TurnedAway
    <3> QED BY <2>4, <3>1, <3>2
  <2>6. ASSUME done[r] = <<"InvalidParameter">> PROVE FALSE
    <3>1. 1 \in DOMAIN done[r] /\ done[r][1] = "InvalidParameter"
      BY <2>6
    <3>2. Invalid(c)
      BY <3>1 DEF RpcInv, RequestInv, ResultsInPlace
    <3> QED BY <2>1, <2>2, <2>3, <3>2 DEF Invalid
  <2> QED BY <2>5, <2>6
<1> QED BY <1>1 DEF LimitsAgree, RpcInv, WithinLimit

\* With room for every batch there is room for each of its results.
LEMMA EachFits ==
    ASSUME ResponsesFit, NEW b \in Bodies, NEW i \in DOMAIN b.calls
    PROVE  Largest(b.calls[i]) \in Nat /\ Largest(b.calls[i]) <= MaxResponse
<1>1. b.calls \in Seq(CallType) /\ i \in 1 .. Len(b.calls) /\ b.calls[i] \in CallType
  BY BodiesAssumption DEF BodyType
<1>2. Largest(b.calls[i]) \in Nat
  BY <1>1, LargestBounds
<1>3. PICK w \in [0 .. Len(b.calls) -> 0 .. MaxResponse] : Sums(b, w)
  BY DEF ResponsesFit
<1>4. w[i] = w[i - 1] + Largest(b.calls[i])
  BY <1>1, <1>3 DEF Sums
<1>5. i - 1 \in 0 .. Len(b.calls) /\ i \in 0 .. Len(b.calls)
  BY <1>1
<1>6. w[i] \in 0 .. MaxResponse /\ w[i - 1] \in 0 .. MaxResponse
  BY <1>3, <1>5
<1> QED BY <1>2, <1>4, <1>6, LimitsAssumption

\* With room in the response, a proof that the vault gave up is in the answer.
LEMMA RpcDelivers ==
    ASSUME RpcInv, ResponsesFit
    PROVE  DeletedOnSuccess
<1> SUFFICES ASSUME NEW r \in Requests, answer[r] # "none"
             PROVE  taken[r] \ Raw \subseteq Returned(r)
  BY DEF DeletedOnSuccess
<1>1. answer[r] # "too_big"
  <2> SUFFICES ASSUME answer[r] = "too_big" PROVE FALSE
    OBVIOUS
  <2>1. body[r] # None /\ body[r] \in Bodies /\ used[r] > MaxResponse /\ used[r] \in Nat
        /\ MaxResponse \in Nat
    BY LimitsAssumption DEF RpcInv, RpcTypeOK, RequestInv, Accounted
  <2>2. PICK w \in [0 .. Len(body[r].calls) -> 0 .. MaxResponse] : Sums(body[r], w)
    BY <2>1 DEF ResponsesFit
  <2>3. w \in [0 .. Len(body[r].calls) -> Nat]
    BY <2>1, <2>2
  <2>4. Len(done[r]) \in 0 .. Len(body[r].calls) /\ used[r] <= w[Len(done[r])]
    BY <2>1, <2>2, <2>3 DEF RpcInv, RequestInv, Accounted
  <2>5. w[Len(done[r])] \in 0 .. MaxResponse
    BY <2>2, <2>4
  <2> QED BY <2>1, <2>4, <2>5
<1>2. CASE answer[r] \in {"http401", "http413"}
  BY <1>2 DEF RpcInv, RequestInv, TurnedAway
<1>3. CASE answer[r] = "results"
  <2> SUFFICES ASSUME NEW p \in taken[r] \ Raw PROVE p \in Returned(r)
    OBVIOUS
  <2>1. p \in Proofs
    BY DEF RpcInv, RpcTypeOK
  <2>2. PICK i \in DOMAIN done[r] :
          i \in DOMAIN body[r].calls /\ Retrieves(body[r].calls[i], done[r][i], p)
    BY DEF RpcInv, RequestInv, ResultsInPlace
  <2>3. body[r] \in Bodies
    <3>1. body[r] # None
      BY <1>3 DEF RpcInv, RequestInv, Progress
    <3> QED BY <3>1, BodyParts DEF RpcInv
  <2>4. Largest(body[r].calls[i]) \in Nat /\ Largest(body[r].calls[i]) <= MaxResponse
    BY <2>2, <2>3, EachFits
  <2>5. /\ done[r][i] = "ok"
        /\ body[r].calls[i].method = "retrieveProof" /\ body[r].calls[i].proof = p
    BY <2>2, <2>4, LimitsAssumption DEF Retrieves
  <2> QED BY <1>3, <2>1, <2>5 DEF Returned
<1> QED BY <1>1, <1>2, <1>3 DEF RpcInv, RpcTypeOK

-----------------------------------------------------------------------------
\* The invariant of the server alone.
LEMMA RpcInvariance == RpcSpec => []RpcInv
<1>1. RpcInit => RpcInv
  <2>1. FALSE \in BOOLEAN
    OBVIOUS
  <2> QED BY <2>1, RpcStartInv DEF RpcInit
<1>2. RpcInv /\ [RpcNext]_rpcVars => RpcInv'
  <2> SUFFICES ASSUME RpcInv, [RpcNext]_rpcVars PROVE RpcInv'
    OBVIOUS
  <2>1. CASE RpcNext
    BY <2>1, RequestStepInv DEF RpcNext
  <2>2. CASE UNCHANGED rpcVars
    <3>1. RpcTypeOK' /\ WithinLimit'
      BY <2>2 DEF RpcInv, RpcTypeOK, WithinLimit, rpcVars, serverVars, vaultVars, requestVars
    <3>2. RequestInv'
      BY <2>2, MovesOn DEF RpcInv, RpcTypeOK, rpcVars, requestVars
    <3> QED BY <3>1, <3>2 DEF RpcInv
  <2> QED BY <2>1, <2>2
<1> QED BY <1>1, <1>2, PTL DEF RpcSpec

\* api.rs, "the record is deleted on success": a server whose response limit has
\* room for every batch returns every JSON proof the vault gave up, for any
\* bodies, proofs and tokens.
THEOREM DeliversWhatFits ==
    ASSUME ResponsesFit
    PROVE  RpcSpec => []DeletedOnSuccess
<1>1. RpcInv => DeletedOnSuccess
  BY RpcDelivers
<1> QED BY <1>1, RpcInvariance, PTL
=============================================================================
