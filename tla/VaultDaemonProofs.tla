------------------------- MODULE VaultDaemonProofs -------------------------
(***************************************************************************)
(* Proofs about VaultDaemon for any set-ups, requests, bodies, proofs,     *)
(* limits and interval.  The server follows main (ServerFollows), and what *)
(* it enforces is what the layers of the configuration come to             *)
(* (Configured), which stays so because nobody is being served when the    *)
(* server starts.  Past stopped() nothing is in flight but what only the   *)
(* TLS listener has seen, and nothing new gets further (Winding).          *)
(***************************************************************************)
EXTENDS VaultDaemon, RpcServerProofs

\* The steps of main before it serves.
Starting == {"load", "open", "sweep", "spawn", "tls", "listen"}

\* The server follows main.
ServerFollows ==
    /\ server = "up" <=> main \in {"serving", "stop"}
    /\ server = "stopping" <=> main = "drain"
    /\ server = "stopped" <=> main \in {"cancel", "join"}

\* What is in force is what the layers of the configuration come to.
Configured ==
    /\ main \notin {"load", "exited"} => cfg = Effective(setup)
    /\ server # "down" => secured = HasCert /\ TlsGate
    /\ server # "down" \/ (\E r \in Requests : stage[r] # "idle")
        => expected = FromConfig(Get(Effective(setup), "auth_token"))

\* A request that got past the bearer layer carries the token, one that did not
\* does not.
Admitted ==
    \A r \in Requests :
        /\ stage[r] \in {"reading", "calling"} \/ done[r] # <<>>
            => expected = None \/ body[r].auth = expected
        /\ answer[r] = "http401" => expected # None /\ body[r].auth # expected

\* Who may still be at work when.
Winding ==
    /\ exit # "none" <=> main = "exited"
    /\ main \in Starting => \A r \in Requests : stage[r] = "idle"
    /\ main \in {"cancel", "join"}
        => \A r \in Requests : stage[r] \in InFlight => secured /\ stage[r] = "sent"
    /\ main = "exited" =>
        /\ task \in {"unspawned", "stopped", "aborted"}
        /\ \A r \in Requests : stage[r] \in Ended \cup {"idle"}
    /\ \A r \in Requests : stage[r] = "cut" => main = "exited"
    /\ \A r \in Requests : stage[r] = "proxying" => secured

\* The types of main and of the sweep.
MainTypeOK ==
    /\ main \in Starting \cup {"serving", "stop", "drain", "cancel", "join", "exited"}
    /\ exit \in {"none", "ok", "err", "killed"}
    /\ setup \in Setups /\ DOMAIN cfg \subseteq Keys
    /\ task \in Sweeper!LoopStages \cup {"unspawned", "aborted"}
    /\ phase \in 0 .. Interval - 1 /\ due \in 0 .. Sweeper!Many
    /\ parent \in BOOLEAN /\ child \in BOOLEAN
    /\ swept \subseteq Proofs /\ begun \in Nat /\ late \in Nat

DaemonInv ==
    MainTypeOK /\ RpcInv /\ ServerFollows /\ Configured /\ Admitted /\ Winding /\ CleanExit

-----------------------------------------------------------------------------
\* load_config and the overrides of main: merging the environment over .env, the
\* file and the defaults, and the command line over all, gives every key the text
\* of the highest layer that has it, as the documentation says, and exactly the
\* keys that come from the environment or .env have it printed anew.
THEOREM Precedence ==
    ASSUME NEW s, NEW k
    PROVE  Get(Effective(s), k) =
             IF k \notin DOMAIN s.cli /\ k \in DOMAIN s.env \cup DOMAIN s.dotenv
             THEN Reprinted(Asked(s, k)) ELSE Asked(s, k)
<1> DEFINE L(i) == Ranked(s)[i]
           setters == {i \in 1 .. 5 : k \in DOMAIN L(i)}
           top == CHOOSE i \in setters : \A j \in setters : i <= j
<1>1. /\ L(1) = s.cli /\ L(2) = s.env /\ L(3) = s.dotenv
      /\ L(4) = s.file /\ L(5) = Defaults
  BY DEF Ranked
<1>2. Asked(s, k) = IF setters = {} THEN Unset ELSE L(top)[k]
  BY DEF Asked
<1>3. Get(Effective(s), k) =
        IF k \in DOMAIN s.cli THEN s.cli[k]
        ELSE IF k \in DOMAIN s.env THEN Reprinted(s.env[k])
        ELSE IF k \in DOMAIN s.dotenv THEN Reprinted(s.dotenv[k])
        ELSE IF k \in DOMAIN s.file THEN s.file[k]
        ELSE IF k \in DOMAIN Defaults THEN Defaults[k]
        ELSE Unset
  <2> DEFINE env == TryParsing(Over(s.env, s.dotenv))
             low == Over(s.file, Defaults)
  <2>1. /\ DOMAIN env = DOMAIN s.env \cup DOMAIN s.dotenv
        /\ k \in DOMAIN env => env[k] = Reprinted(IF k \in DOMAIN s.env THEN s.env[k] ELSE s.dotenv[k])
    BY DEF TryParsing, Over
  <2>2. /\ DOMAIN low = DOMAIN s.file \cup DOMAIN Defaults
        /\ k \in DOMAIN low => low[k] = IF k \in DOMAIN s.file THEN s.file[k] ELSE Defaults[k]
    BY DEF Over
  <2> HIDE DEF env, low
  <2>3. /\ DOMAIN Over(env, low) = DOMAIN env \cup DOMAIN low
        /\ k \in DOMAIN env \cup DOMAIN low
              => Over(env, low)[k] = IF k \in DOMAIN env THEN env[k] ELSE low[k]
    BY DEF Over
  <2>4. Effective(s) = Over(s.cli, Over(env, low))
    BY DEF Effective, LoadConfig, env, low
  <2>5. Get(Effective(s), k) = IF k \in DOMAIN s.cli THEN s.cli[k]
                              ELSE IF k \in DOMAIN Over(env, low) THEN Over(env, low)[k] ELSE Unset
    BY <2>4 DEF Get, Over
  <2> QED BY <2>1, <2>2, <2>3, <2>5
<1> HIDE DEF L
<1>4. setters # {} => top \in setters /\ \A j \in setters : top <= j
  <2> SUFFICES ASSUME NEW x \in setters PROVE \E i \in setters : \A j \in setters : i <= j
    OBVIOUS
  <2>1. CASE 1 \in setters  BY <2>1
  <2>2. CASE 1 \notin setters /\ 2 \in setters  BY <2>2
  <2>3. CASE 1 \notin setters /\ 2 \notin setters /\ 3 \in setters  BY <2>3
  <2>4. CASE 1 \notin setters /\ 2 \notin setters /\ 3 \notin setters /\ 4 \in setters  BY <2>4
  <2>5. CASE 1 \notin setters /\ 2 \notin setters /\ 3 \notin setters /\ 4 \notin setters  BY <2>5
  <2> QED BY <2>1, <2>2, <2>3, <2>4, <2>5
<1> HIDE DEF top
<1>5. CASE k \in DOMAIN s.cli
  <2>1. 1 \in setters
    BY <1>1, <1>5
  <2>2. top = 1
    BY <2>1, <1>4
  <2> QED BY <2>1, <2>2, <1>1, <1>2, <1>3, <1>5
<1>6. CASE k \notin DOMAIN s.cli /\ k \in DOMAIN s.env
  <2>1. 1 \notin setters /\ 2 \in setters
    BY <1>1, <1>6
  <2>2. top = 2
    BY <2>1, <1>4
  <2> QED BY <2>1, <2>2, <1>1, <1>2, <1>3, <1>6
<1>7. CASE k \notin DOMAIN s.cli /\ k \notin DOMAIN s.env /\ k \in DOMAIN s.dotenv
  <2>1. 1 \notin setters /\ 2 \notin setters /\ 3 \in setters
    BY <1>1, <1>7
  <2>2. top = 3
    BY <2>1, <1>4
  <2> QED BY <2>1, <2>2, <1>1, <1>2, <1>3, <1>7
<1>8. CASE /\ k \notin DOMAIN s.cli /\ k \notin DOMAIN s.env /\ k \notin DOMAIN s.dotenv
           /\ k \in DOMAIN s.file
  <2>1. 1 \notin setters /\ 2 \notin setters /\ 3 \notin setters /\ 4 \in setters
    BY <1>1, <1>8
  <2>2. top = 4
    BY <2>1, <1>4
  <2> QED BY <2>1, <2>2, <1>1, <1>2, <1>3, <1>8
<1>9. CASE /\ k \notin DOMAIN s.cli /\ k \notin DOMAIN s.env /\ k \notin DOMAIN s.dotenv
            /\ k \notin DOMAIN s.file
  <2>1. 1 \notin setters /\ 2 \notin setters /\ 3 \notin setters /\ 4 \notin setters
        /\ (5 \in setters <=> k \in DOMAIN Defaults)
    BY <1>1, <1>9
  <2>2. setters = IF k \in DOMAIN Defaults THEN {5} ELSE {}
    BY <2>1
  <2>3. k \in DOMAIN Defaults => top = 5
    BY <2>2, <1>4
  <2> QED BY <2>2, <2>3, <1>1, <1>2, <1>3, <1>9
<1> QED BY <1>5, <1>6, <1>7, <1>8, <1>9

\* The merged configuration has no keys but the known ones.
LEMMA EffectiveKeys ==
    ASSUME NEW s \in Setups
    PROVE  DOMAIN Effective(s) \subseteq Keys
<1>1. /\ DOMAIN s.file \subseteq Keys /\ DOMAIN s.dotenv \subseteq Keys
      /\ DOMAIN s.env \subseteq Keys /\ DOMAIN s.cli \subseteq Keys
  BY SetupsAssumption DEF IsSetup, IsLayer
<1>2. DOMAIN Defaults \subseteq Keys
  BY DEF Defaults, Keys
<1> QED BY <1>1, <1>2 DEF Effective, LoadConfig, TryParsing, Over

\* A step that leaves the requests alone and adds nothing to the vault.
LEMMA RpcKept ==
    ASSUME RpcInv, UNCHANGED requestVars,
           server' \in {"down", "up", "stopping", "stopped"}, secured' \in BOOLEAN,
           expected' \in Tokens \cup {None},
           stored' \subseteq stored, lapsed' \subseteq stored \cup lapsed
    PROVE  RpcInv'
<1>1. RpcTypeOK'
  BY DEF RpcInv, RpcTypeOK, requestVars
<1>2. RequestInv'
  BY MovesOn DEF RpcInv, RpcTypeOK, requestVars
<1>3. WithinLimit'
  BY DEF RpcInv, WithinLimit
<1> QED BY <1>1, <1>2, <1>3 DEF RpcInv

\* The invariant holds initially.
LEMMA DaemonInit == Init => DaemonInv
<1> SUFFICES ASSUME Init PROVE DaemonInv
  OBVIOUS
<1>1. FALSE \in BOOLEAN
  OBVIOUS
<1>2. RpcInv
  BY <1>1, RpcStartInv DEF Init
<1>3. MainTypeOK
  <2>1. /\ phase \in 0 .. Interval - 1 /\ due \in 0 .. Sweeper!Many
        /\ begun \in Nat /\ late \in Nat
    BY PeriodAssumption DEF Init, Sweeper!Many
  <2>2. DOMAIN cfg \subseteq Keys
    BY DEF Init, Defaults, Keys
  <2>3. parent \in BOOLEAN /\ child \in BOOLEAN
    BY <1>1 DEF Init
  <2> QED BY <2>1, <2>2, <2>3 DEF Init, MainTypeOK, Starting
<1>4. ServerFollows /\ Configured /\ Admitted
  BY DEF Init, RequestsInit, ServerFollows, Configured, Admitted
<1>5. Winding /\ CleanExit
  BY DEF Init, RequestsInit, Winding, CleanExit, Starting
<1> QED BY <1>2, <1>3, <1>4, <1>5 DEF DaemonInv

\* The end of the process: an Ok needs the steps before it.
LEMMA ExitInv ==
    ASSUME DaemonInv, NEW code \in {"ok", "err", "killed"}, main # "exited", Exit(code),
           code = "ok" => main = "join" /\ task \in {"unspawned", "stopped"}
    PROVE  DaemonInv'
<1>0. FALSE \in BOOLEAN
  OBVIOUS
<1>1. /\ main' = "exited" /\ exit' = code /\ server' = "down"
      /\ UNCHANGED <<setup, cfg, secured, expected, stored, body, done, used, answer, taken>>
      /\ task' = IF task \in {"unspawned", "stopped"} THEN task ELSE "aborted"
      /\ lapsed' \subseteq lapsed
  BY DEF Exit
<1>2. /\ stage' \in [Requests -> Stages]
      /\ \A r \in Requests :
            stage'[r] = IF stage[r] \in InFlight \cup {"proxying"} THEN "cut" ELSE stage[r]
  BY DEF Exit, DaemonInv, RpcInv, RpcTypeOK, Stages, Ended
<1>3. RpcInv'
  <2>1. RpcTypeOK'
    BY <1>1, <1>2 DEF DaemonInv, RpcInv, RpcTypeOK
  <2>2. RequestInv'
    BY <1>1, <1>2, MovesOn DEF DaemonInv, RpcInv, InFlight, Ended
  <2>3. WithinLimit'
    BY <1>1 DEF DaemonInv, RpcInv, WithinLimit
  <2> QED BY <2>1, <2>2, <2>3 DEF RpcInv
<1>4. MainTypeOK'
  <2>1. /\ phase' \in 0 .. Interval - 1 /\ due' \in 0 .. Sweeper!Many
        /\ begun' \in Nat /\ late' \in Nat /\ swept' \subseteq Proofs
    BY PeriodAssumption DEF Exit, Sweeper!Many
  <2>2. parent' \in BOOLEAN /\ child' \in BOOLEAN
    BY <1>0 DEF Exit
  <2> QED BY <2>1, <2>2, <1>1 DEF DaemonInv, MainTypeOK
<1>5. ServerFollows' /\ Admitted'
  BY <1>1, <1>2 DEF DaemonInv, ServerFollows, Admitted
<1>6. Configured'
  BY <1>1, <1>2 DEF DaemonInv, Configured, InFlight
<1>7. Winding'
  <2>1. \A r \in Requests : stage'[r] \in Ended \cup {"idle"}
    BY <1>2 DEF DaemonInv, RpcInv, RpcTypeOK, Stages, Ended
  <2> QED BY <1>1, <2>1 DEF DaemonInv, MainTypeOK, Winding, Starting, Ended
<1>8. CleanExit'
  <2> SUFFICES ASSUME code = "ok", NEW r \in Requests, stage'[r] = "cut"
               PROVE  secured /\ (done[r] = <<>> \/ answer[r] # "none")
    BY <1>1 DEF CleanExit
  <2>1. main = "join" /\ stage[r] # "cut"
    BY DEF DaemonInv, Winding
  <2>2. CASE stage[r] \in InFlight
    BY <2>1, <2>2 DEF DaemonInv, Winding, RpcInv, RequestInv, Progress
  <2>3. CASE stage[r] = "proxying"
    BY <2>3 DEF DaemonInv, Winding, RpcInv, RequestInv, Progress
  <2> QED BY <2>1, <2>2, <2>3, <1>2
<1> QED BY <1>3, <1>4, <1>5, <1>6, <1>7, <1>8 DEF DaemonInv

\* The steps of start-up that leave the server alone.
LEMMA StartInv ==
    ASSUME DaemonInv, ReadConfig \/ OpenStorage \/ StartupCleanup \/ SpawnCleanup \/ PairTls
    PROVE  DaemonInv'
<1>1. /\ main \in Starting /\ main' \in Starting \ {"load"}
      /\ UNCHANGED <<exit, setup, serverVars, stored, requestVars, parent, child, swept, begun, late>>
      /\ lapsed' \subseteq lapsed
      /\ cfg' = IF main = "load" THEN Effective(setup) ELSE cfg
  BY DEF ReadConfig, OpenStorage, StartupCleanup, SpawnCleanup, PairTls, Starting, sweeperVars,
      rpcVars, vaultVars
<1>2. RpcInv'
  BY <1>1, RpcKept DEF DaemonInv, RpcInv, RpcTypeOK, serverVars
<1>3. MainTypeOK'
  <2>1. DOMAIN cfg' \subseteq Keys
    BY <1>1, EffectiveKeys DEF DaemonInv, MainTypeOK
  <2>2. /\ task' \in Sweeper!LoopStages \cup {"unspawned", "aborted"}
        /\ phase' \in 0 .. Interval - 1
    BY PeriodAssumption DEF DaemonInv, MainTypeOK, ReadConfig, OpenStorage, StartupCleanup, SpawnCleanup,
        PairTls, sweeperVars, Sweeper!LoopStages
  <2>3. due' \in 0 .. Sweeper!Many
    BY DEF DaemonInv, MainTypeOK, ReadConfig, OpenStorage, StartupCleanup, SpawnCleanup,
        PairTls, sweeperVars, Sweeper!Many
  <2> QED BY <2>1, <2>2, <2>3, <1>1 DEF DaemonInv, MainTypeOK
<1>4. server = "down" /\ \A r \in Requests : stage[r] = "idle" /\ done[r] = <<>>
  BY <1>1 DEF DaemonInv, ServerFollows, Winding, Starting, RpcInv, RpcTypeOK, RequestInv, Progress
<1>5. ServerFollows' /\ Configured' /\ Admitted'
  BY <1>1, <1>4 DEF DaemonInv, ServerFollows, Configured, Admitted, Starting, serverVars, requestVars
<1>6. Winding' /\ CleanExit'
  BY <1>1, <1>4 DEF DaemonInv, Winding, CleanExit, Starting, requestVars, serverVars
<1> QED BY <1>2, <1>3, <1>5, <1>6 DEF DaemonInv

\* The server starts with the certificate and the token that are configured.
LEMMA ServeInv ==
    ASSUME DaemonInv, StartServer
    PROVE  DaemonInv'
<1>1. /\ main = "listen" /\ TlsGate /\ main' = "serving" /\ server' = "up" /\ secured' = HasCert
      /\ expected' = FromConfig(Get(cfg, "auth_token"))
      /\ UNCHANGED <<exit, setup, cfg, sweeperVars, vaultVars, requestVars>>
  BY DEF StartServer
<1>2. expected' = FromConfig(Get(Effective(setup), "auth_token")) /\ cfg = Effective(setup)
  BY <1>1 DEF DaemonInv, Configured
<1>3. expected' \in Tokens \cup {None}
  BY <1>2, TokensAssumption DEF DaemonInv, MainTypeOK, FromConfig
<1>4. secured' \in BOOLEAN
  BY <1>1 DEF HasCert
<1>5. RpcInv'
  BY <1>1, <1>3, <1>4, RpcKept DEF DaemonInv, vaultVars
<1>6. MainTypeOK'
  BY <1>1 DEF DaemonInv, MainTypeOK, sweeperVars
<1>7. \A r \in Requests : stage[r] = "idle" /\ done[r] = <<>> /\ answer[r] = "none"
  BY <1>1 DEF DaemonInv, Winding, Starting, RpcInv, RequestInv, Progress
<1>8. ServerFollows' /\ Admitted'
  BY <1>1, <1>7 DEF ServerFollows, Admitted, requestVars
<1>9. Configured'
  BY <1>1, <1>2 DEF Configured, HasCert, TlsGate
<1>10. Winding' /\ CleanExit'
  BY <1>1, <1>7 DEF DaemonInv, Winding, CleanExit, Starting, InFlight, requestVars
<1> QED BY <1>5, <1>6, <1>8, <1>9, <1>10 DEF DaemonInv

\* Ctrl-C, stop, stopped, cancel: when main goes on to the sweep, no request is at work.
LEMMA StopInv ==
    ASSUME DaemonInv, Interrupt \/ StopServer \/ Drained \/ CancelCleanup
    PROVE  DaemonInv'
<1>1. /\ UNCHANGED <<exit, setup, cfg, secured, expected, vaultVars, requestVars>>
      /\ UNCHANGED <<task, phase, due, swept, begun, late>>
      /\ parent' \in {parent, TRUE} /\ child' \in {child, TRUE}
      /\ \/ main = "serving" /\ main' = "stop" /\ server' = server
         \/ main = "stop" /\ main' = "drain" /\ server' = "stopping"
         \/ /\ main = "drain" /\ main' = "cancel" /\ server' = "stopped"
            /\ \A r \in Requests : stage[r] \in InFlight => secured /\ stage[r] = "sent"
         \/ main = "cancel" /\ main' = "join" /\ server' = server
  BY DEF Interrupt, StopServer, Drained, CancelCleanup, Sweeper!CancelParent, Sweeper!timeVars,
      Sweeper!proofVars, Sweeper!historyVars, sweeperVars, rpcVars, serverVars, vaultVars
<1>2. RpcInv'
  BY <1>1, RpcKept DEF DaemonInv, RpcInv, RpcTypeOK, vaultVars
<1>3. MainTypeOK'
  <2>1. parent' \in BOOLEAN /\ child' \in BOOLEAN
    BY <1>1 DEF DaemonInv, MainTypeOK
  <2> QED BY <1>1, <2>1 DEF DaemonInv, MainTypeOK
<1>4. ServerFollows' /\ Admitted'
  BY <1>1 DEF DaemonInv, ServerFollows, Admitted, requestVars
<1>5. Configured'
  BY <1>1 DEF DaemonInv, ServerFollows, Configured, HasCert, TlsGate, requestVars
<1>6. Winding' /\ CleanExit'
  BY <1>1 DEF DaemonInv, Winding, CleanExit, Starting, requestVars
<1> QED BY <1>2, <1>3, <1>4, <1>5, <1>6 DEF DaemonInv

\* What the sweep, the clock and expiring records change.
LEMMA BackgroundInv ==
    ASSUME DaemonInv, Sweep \/ Tick \/ \E p \in Perishable : Lapse(p)
    PROVE  DaemonInv'
<1> DEFINE Part == \/ Sweeper!PollCancel \/ Sweeper!PollTick \/ Sweeper!Wake
                   \/ Sweeper!SweepReads \/ Sweeper!SweepOk \/ Sweeper!SweepFails
                   \/ Sweeper!Tick \/ \E p \in stored : Sweeper!Lapse(p)
<1>0. /\ Part /\ stored' \subseteq stored
      /\ UNCHANGED <<daemonVars, serverVars, requestVars>>
  BY DEF Sweep, Tick, Lapse, Sweeper!Loop
<1> USE DEF Sweeper!PollCancel, Sweeper!PollTick, Sweeper!Wake, Sweeper!SweepReads,
      Sweeper!SweepOk, Sweeper!SweepFails, Sweeper!Tick, Sweeper!Lapse
<1>1. /\ UNCHANGED <<parent, child>> /\ lapsed' \subseteq stored \cup lapsed
      /\ swept' \in {swept, lapsed, {}}
  BY <1>0 DEF Sweeper!tokenVars, Sweeper!proofVars
<1>2. /\ task' \in Sweeper!LoopStages \cup {"unspawned", "aborted"}
      /\ main = "exited" => task' = task
  BY <1>0 DEF DaemonInv, MainTypeOK, Winding, Sweeper!LoopStages
<1>3. begun' \in Nat /\ late' \in Nat
  BY <1>0 DEF DaemonInv, MainTypeOK, Sweeper!historyVars
<1>4. phase' \in 0 .. Interval - 1
  <2>1. phase' = phase \/ phase' = (phase + 1) % Interval
    BY <1>0 DEF Sweeper!timeVars
  <2> QED BY <2>1, PeriodAssumption DEF DaemonInv, MainTypeOK
<1>5. due' \in 0 .. Sweeper!Many
  BY <1>0 DEF DaemonInv, MainTypeOK, Sweeper!timeVars, Sweeper!Many
<1> HIDE DEF Part
<1>6. RpcInv'
  BY <1>0, <1>1, RpcKept DEF DaemonInv, RpcInv, RpcTypeOK, serverVars
<1>7. MainTypeOK'
  BY <1>0, <1>1, <1>2, <1>3, <1>4, <1>5 DEF DaemonInv, MainTypeOK, RpcInv, RpcTypeOK, daemonVars
<1>8. ServerFollows' /\ Configured' /\ Admitted'
  BY <1>0, <1>1 DEF DaemonInv, ServerFollows, Configured, Admitted, HasCert, TlsGate, daemonVars,
      serverVars, requestVars
<1>9. Winding'
  BY <1>0, <1>1, <1>2 DEF DaemonInv, Winding, daemonVars, serverVars, requestVars
<1>10. CleanExit'
  <2>1. exit = "ok" => main = "exited"
    BY DEF DaemonInv, Winding
  <2> QED BY <1>0, <1>1, <1>2, <2>1 DEF DaemonInv, CleanExit, daemonVars, serverVars, requestVars
<1> QED BY <1>6, <1>7, <1>8, <1>9, <1>10 DEF DaemonInv

\* What a request and its client may do depends on how far main is.
LEMMA RequestInvKept ==
    ASSUME DaemonInv, NEW r \in Requests, Client(r) \/ ServeRequest(r)
    PROVE  DaemonInv'
<1>0. (\E b \in Bodies : Send(r, b)) \/ Serve(r) \/ Disconnect(r)
  BY DEF Client, ServeRequest
<1>1. RpcInv'
  BY <1>0, RequestStepInv DEF DaemonInv
<1>2. UNCHANGED <<daemonVars, sweeperVars, serverVars>>
  BY DEF Client, ServeRequest, Send, Serve, Refuse, Authenticate, ReadBody, Call, Respond, Proxy,
      Disconnect
<1>3. MainTypeOK'
  BY <1>2 DEF DaemonInv, MainTypeOK, daemonVars, sweeperVars
<1>4. /\ \A q \in Requests \ {r} :
            stage'[q] = stage[q] /\ done'[q] = done[q] /\ body'[q] = body[q] /\ answer'[q] = answer[q]
      /\ \/ /\ stage[r] = "idle" /\ Listening /\ stage'[r] = "sent"
            /\ done'[r] = done[r]
         \/ /\ stage[r] = "sent" /\ server \in {"up", "stopping"} /\ stage'[r] = "reading"
            /\ body'[r] = body[r] /\ done'[r] = done[r]
            /\ expected = None \/ body[r].auth = expected
         \/ /\ stage[r] \in {"sent", "reading"} /\ stage'[r] \in {"answering", "refused"}
            /\ body'[r] = body[r] /\ done'[r] = done[r]
            /\ stage'[r] = "answering" => server \in {"up", "stopping"} \/ stage[r] = "reading"
         \/ /\ stage[r] \in {"reading", "calling"} /\ stage'[r] \in {"calling", "answering"}
            /\ body'[r] = body[r]
         \/ /\ stage[r] = "answering" /\ body'[r] = body[r] /\ done'[r] = done[r]
            /\ stage'[r] = IF secured THEN "proxying" ELSE "delivered"
         \/ /\ stage[r] \in InFlight \cup {"proxying"} /\ stage'[r] \in {"delivered", "gone"}
            /\ body'[r] = body[r] /\ done'[r] = done[r]
  <2> USE DEF DaemonInv, RpcInv, RpcTypeOK
  <2>1. CASE \E b \in Bodies : Send(r, b)
    BY <2>1 DEF Send
  <2>2. CASE Refuse(r) \/ Authenticate(r) \/ ReadBody(r)
    BY <2>2 DEF Refuse, Authenticate, ReadBody, Answer
  <2>3. CASE Call(r)
    BY <2>3 DEF Call, Answer
  <2>4. CASE Respond(r) \/ Proxy(r) \/ Disconnect(r)
    BY <2>4 DEF Respond, Proxy, Disconnect
  <2> QED BY <1>0, <2>1, <2>2, <2>3, <2>4 DEF Serve
<1>5. main # "exited" /\ main \notin Starting
  BY <1>4 DEF DaemonInv, MainTypeOK, ServerFollows, Winding, Listening, Starting, InFlight, Ended
<1>6. ServerFollows'
  BY <1>2 DEF DaemonInv, ServerFollows, daemonVars, serverVars
<1>7. Configured'
  <2>1. server # "down"
    BY <1>5 DEF DaemonInv, MainTypeOK, ServerFollows
  <2> QED BY <1>2, <2>1 DEF DaemonInv, Configured, HasCert, TlsGate, daemonVars, serverVars
<1>8. Admitted'
  <2>1. \A q \in Requests : answer'[q] = "http401" =>
          /\ body'[q] = body[q]
          /\ answer[q] = "http401" \/ (expected # None /\ body[q].auth # expected)
    <3> USE DEF DaemonInv, RpcInv, RpcTypeOK
    <3>1. CASE \E b \in Bodies : Send(r, b)
      BY <3>1 DEF Send, RequestInv, Progress
    <3>2. CASE Refuse(r) \/ Authenticate(r) \/ ReadBody(r)
      BY <3>2 DEF Refuse, Authenticate, ReadBody, Answer
    <3>3. CASE Call(r)
      BY <3>3 DEF Call, Answer
    <3>4. CASE Respond(r) \/ Proxy(r) \/ Disconnect(r)
      BY <3>4 DEF Respond, Proxy, Disconnect
    <3> QED BY <1>0, <3>1, <3>2, <3>3, <3>4 DEF Serve
  <2>2. \A q \in Requests : stage'[q] \in {"reading", "calling"} \/ done'[q] # <<>>
          => expected = None \/ body'[q].auth = expected
    BY <1>4 DEF DaemonInv, Admitted, RpcInv, RequestInv, Progress, InFlight
  <2> QED BY <1>2, <2>1, <2>2 DEF DaemonInv, Admitted, serverVars
<1>9. Winding'
  <2>1. \A q \in Requests : stage'[q] # "cut" /\ (stage'[q] = "proxying" => secured)
    BY <1>4, <1>5 DEF DaemonInv, Winding
  <2>2. main \in {"cancel", "join"}
          => \A q \in Requests : stage'[q] \in InFlight => secured /\ stage'[q] = "sent"
    BY <1>4 DEF DaemonInv, Winding, ServerFollows, Listening, InFlight
  <2> QED BY <1>2, <1>5, <2>1, <2>2 DEF DaemonInv, Winding, daemonVars, serverVars
<1>10. CleanExit'
  BY <1>2, <1>5 DEF DaemonInv, Winding, CleanExit, daemonVars
<1> QED BY <1>1, <1>3, <1>6, <1>7, <1>8, <1>9, <1>10 DEF DaemonInv

\* The invariant holds in every behaviour.
LEMMA DaemonInvariance == Spec => []DaemonInv
<1>1. DaemonInv /\ [Next]_vars => DaemonInv'
  <2> SUFFICES ASSUME DaemonInv, [Next]_vars PROVE DaemonInv'
    OBVIOUS
  <2>1. CASE ReadConfig \/ OpenStorage \/ StartupCleanup \/ SpawnCleanup \/ PairTls
    BY <2>1, StartInv
  <2>2. CASE StartServer
    BY <2>2, ServeInv
  <2>3. CASE BailHalfTls \/ RefuseToStart \/ MainFails
    BY <2>3, ExitInv DEF BailHalfTls, RefuseToStart, MainFails
  <2>4. CASE Kill
    BY <2>4, ExitInv DEF Kill
  <2>5. CASE Join
    BY <2>5, ExitInv DEF Join
  <2>6. CASE Interrupt \/ StopServer \/ Drained \/ CancelCleanup
    BY <2>6, StopInv
  <2>7. CASE Sweep \/ Tick \/ \E p \in Perishable : Lapse(p)
    BY <2>7, BackgroundInv
  <2>8. CASE \E r \in Requests : Client(r) \/ ServeRequest(r)
    BY <2>8, RequestInvKept
  <2>9. CASE Terminated \/ UNCHANGED vars
    <3>1. UNCHANGED <<daemonVars, sweeperVars, serverVars, vaultVars, requestVars>>
      BY <2>9 DEF Terminated, vars, rpcVars
    <3>2. RpcInv'
      BY <3>1, RpcKept DEF DaemonInv, RpcInv, RpcTypeOK, serverVars, vaultVars
    <3> QED BY <3>1, <3>2 DEF DaemonInv, MainTypeOK, ServerFollows, Configured, Admitted, Winding,
        CleanExit, HasCert, TlsGate, daemonVars, sweeperVars, serverVars, requestVars
  <2> QED BY <2>1, <2>2, <2>3, <2>4, <2>5, <2>6, <2>7, <2>8, <2>9 DEF Next, MainStep
<1> QED BY <1>1, DaemonInit, PTL DEF Spec

-----------------------------------------------------------------------------
\* Type correctness of the daemon with its server, its sweep and its configuration.
THEOREM TypeCorrect == Spec => []TypeOK
<1>1. DaemonInv => TypeOK
  BY DEF DaemonInv, MainTypeOK, RpcInv, TypeOK, Starting
<1> QED BY <1>1, DaemonInvariance, PTL

\* main.rs, "Stop the RPC server first": a daemon that ends with Ok has let its
\* sweep and every request that a method had begun for finish, for any number of
\* requests and through disconnects, failed sweeps and refused connections.
THEOREM ExitsClean == Spec => []CleanExit
<1>1. DaemonInv => CleanExit
  BY DEF DaemonInv
<1> QED BY <1>1, DaemonInvariance, PTL

\* check_tls_for_non_loopback: whatever the layers of the configuration say, plain
\* HTTP is served to the outside only if the highest that speaks of it asks for it.
THEOREM ExposureAsked == Spec => []ExposedOnlyIfAsked
<1>1. DaemonInv => ExposedOnlyIfAsked
  <2> SUFFICES ASSUME DaemonInv, server # "down", ~secured, Asked(setup, "bind_address") # "loopback"
               PROVE  Asked(setup, "insecure_no_tls") = "true"
    BY DEF ExposedOnlyIfAsked
  <2>1. ~HasCert /\ TlsGate
    BY DEF DaemonInv, Configured
  <2>2. cfg = Effective(setup)
    BY DEF DaemonInv, MainTypeOK, ServerFollows, Configured, RpcInv, RpcTypeOK
  <2>3. \A k : Get(cfg, k) = Asked(setup, k) \/ Get(cfg, k) = Reprinted(Asked(setup, k))
    BY <2>2, Precedence
  <2>4. \A k : /\ Get(cfg, k) = "true" => Asked(setup, k) = "true"
               /\ Get(cfg, k) = "loopback" => Asked(setup, k) = "loopback"
    BY <2>3 DEF Reprinted
  <2> QED BY <2>1, <2>4 DEF TlsGate
<1> QED BY <1>1, DaemonInvariance, PTL

\* The token of every set-up reads back as it was written: printing it anew, if it
\* comes from the environment, makes no difference.
TokensReadBack ==
    \A s \in Setups : Reprinted(Asked(s, "auth_token")) = Asked(s, "auth_token")

\* BearerAuthService::call: with a token that reads back as it was written, no
\* method ever runs for a request that does not carry it and none that does is
\* turned away, for any tokens, requests and layers.
THEOREM TokenRequired ==
    ASSUME TokensReadBack
    PROVE  Spec => []AuthAsConfigured
<1>1. DaemonInv => AuthAsConfigured
  <2> DEFINE token == Asked(setup, "auth_token")
  <2> SUFFICES ASSUME DaemonInv, NEW r \in Requests
               PROVE  /\ done[r] # <<>> /\ token \notin {Unset, ""} => body[r].auth = token
                      /\ answer[r] = "http401" => token \notin {Unset, ""} /\ body[r].auth # token
    BY DEF AuthAsConfigured
  <2>1. token \in Tokens \cup {Unset, ""}
    BY TokensAssumption DEF DaemonInv, MainTypeOK
  <2>2. Get(Effective(setup), "auth_token") = token
    BY Precedence DEF TokensReadBack, DaemonInv, MainTypeOK
  <2>3. done[r] # <<>> \/ answer[r] = "http401" => stage[r] # "idle"
    BY DEF DaemonInv, RpcInv, RequestInv, Progress
  <2> HIDE DEF token
  <2>4. done[r] # <<>> \/ answer[r] = "http401" => expected = FromConfig(token)
    BY <2>2, <2>3 DEF DaemonInv, Configured
  <2> QED BY <2>1, <2>4, NoneAssumption DEF FromConfig, DaemonInv, Admitted
<1> QED BY <1>1, DaemonInvariance, PTL

\* The same of the daemon as of the server alone, through start-up, sweeps and
\* shutdown: what the vault gave up to a retrieveProof is in its answer, when
\* the response limit has room for every batch.
THEOREM Delivers ==
    ASSUME ResponsesFit
    PROVE  Spec => []DeletedOnSuccess
<1>1. DaemonInv => DeletedOnSuccess
  BY RpcDelivers DEF DaemonInv
<1> QED BY <1>1, DaemonInvariance, PTL

\* server.rs, "mirrors the semantic limit without rejecting valid requests": the
\* two limits on a request agree for any sizes, as long as the transport limit
\* is not cut off at the largest u32.
THEOREM LimitsMirror ==
    ASSUME LimitUncut
    PROVE  Spec => []LimitsAgree
<1>1. DaemonInv => LimitsAgree
  BY RpcLimits DEF DaemonInv
<1> QED BY <1>1, DaemonInvariance, PTL
=============================================================================
