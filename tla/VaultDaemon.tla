---------------------------- MODULE VaultDaemon ----------------------------
(***************************************************************************)
(* The daemon (main.rs): configuration, start-up in the order of the code, *)
(* service, and the shutdown that Ctrl-C begins.  It composes the server   *)
(* (RpcServer), which it starts, stops and waits for, the background sweep *)
(* (CleanupTask), which it spawns, cancels and joins, and the vault they   *)
(* share.                                                                  *)
(*                                                                         *)
(* When main returns, the runtime goes and every task in it: connections,  *)
(* the TLS proxy, and a sweep that nobody waited for.                      *)
(***************************************************************************)
EXTENDS RpcServer, VaultConfig

CONSTANTS
    Setups,       \* what the operator may have configured
    Interval,     \* clock units of the cleanup interval
    Perishable    \* proofs stored with a TTL

ASSUME SetupsAssumption == \A s \in Setups : IsSetup(s)
ASSUME TokensAssumption ==
    \A s \in Setups :
        {Asked(s, "auth_token"), Get(Effective(s), "auth_token")} \subseteq Tokens \cup {Unset, ""}
ASSUME PeriodAssumption == Interval \in Nat \ {0}
ASSUME PerishableAssumption == Perishable \subseteq Proofs

VARIABLES
    main,     \* the step of main that is next
    exit,     \* how the process ended: none yet, ok, err, killed
    setup,    \* what the operator configured
    cfg,      \* the VaultConfig that came of it
    parent, child, task, phase, due, swept, begun, late   \* CleanupTask

Sweeper == INSTANCE CleanupTask

daemonVars == <<main, exit, setup, cfg>>
\* CleanupTask without the records it shares with the vault.
sweeperVars == <<parent, child, task, phase, due, swept, begun, late>>
vars == <<daemonVars, sweeperVars, rpcVars>>

Init ==
    /\ main = "load" /\ exit = "none"
    /\ setup \in Setups /\ cfg = Defaults
    /\ task = "unspawned" /\ parent = FALSE /\ child = FALSE
    /\ phase = 0 /\ due = 0 /\ swept = {} /\ begun = 0 /\ late = 0
    /\ server = "down" /\ secured = FALSE /\ expected = None
    /\ stored = Legacy /\ lapsed = {}
    /\ RequestsInit

\* main returns or the process is killed.  A sweep that was deleting may get
\* through: the runtime waits for a closure that runs, and drops one that does not.
\* What the storage call of a request that is cut off still does to the vault is
\* not followed here: nobody serves the vault any more (ProofVault has it, as Crash).
Exit(code) ==
    /\ main' = "exited" /\ exit' = code
    /\ server' = "down"
    /\ stage' = [r \in Requests |->
            IF stage[r] \in InFlight \cup {"proxying"} THEN "cut" ELSE stage[r]]
    /\ task' = IF task \in {"unspawned", "stopped"} THEN task ELSE "aborted"
    /\ lapsed' \in IF task = "deleting" THEN {lapsed, lapsed \ swept} ELSE {lapsed}
    /\ parent' = FALSE /\ child' = FALSE /\ phase' = 0 /\ due' = 0
    /\ swept' = {} /\ begun' = 0 /\ late' = 0
    /\ UNCHANGED <<setup, cfg, secured, expected, stored, body, done, used, answer, taken>>

-----------------------------------------------------------------------------
(* Start-up *)

ReadConfig ==
    /\ main = "load"
    /\ main' = "open"
    /\ cfg' = Effective(setup)
    /\ UNCHANGED <<exit, setup, sweeperVars, rpcVars>>

OpenStorage ==
    /\ main = "open"
    /\ main' = "sweep"
    /\ UNCHANGED <<exit, setup, cfg, sweeperVars, rpcVars>>

StartupCleanup ==
    /\ main = "sweep"
    /\ main' = "spawn"
    /\ lapsed' = {}
    /\ UNCHANGED <<exit, setup, cfg, sweeperVars, serverVars, stored, requestVars>>

\* Mutant of SpawnCleanup: the interval read before the command line overrides it.
SpawnCleanupEarly ==
    /\ main = "spawn"
    /\ main' = "tls"
    /\ IF Get(LoadConfig(setup), "cleanup_interval_secs") = "0"
       THEN UNCHANGED <<task, phase, due>>
       ELSE task' = "pollCancel" /\ phase' = 0 /\ due' = 1
    /\ UNCHANGED <<exit, setup, cfg, parent, child, swept, begun, late, rpcVars>>

\* An interval of 0 means no background sweep.
SpawnCleanup ==
    /\ main = "spawn"
    /\ main' = "tls"
    /\ IF Get(cfg, "cleanup_interval_secs") = "0"
       THEN UNCHANGED <<task, phase, due>>
       ELSE task' = "pollCancel" /\ phase' = 0 /\ due' = 1
    /\ UNCHANGED <<exit, setup, cfg, parent, child, swept, begun, late, rpcVars>>

HasCert == Get(cfg, "tls_cert_path") # Unset
HasKey == Get(cfg, "tls_key_path") # Unset

\* A certificate without a key, or a key without a certificate, ends the start-up.
PairTls ==
    /\ main = "tls" /\ HasCert = HasKey
    /\ main' = "listen"
    /\ UNCHANGED <<exit, setup, cfg, sweeperVars, rpcVars>>

BailHalfTls == main = "tls" /\ HasCert # HasKey /\ Exit("err")

\* Mutant of TlsGate: a flag that is there taken for one that is true.
TlsGateFlagPresent ==
    HasCert \/ Get(cfg, "insecure_no_tls") # Unset \/ Get(cfg, "bind_address") = "loopback"

\* check_tls_for_non_loopback
TlsGate ==
    HasCert \/ Get(cfg, "insecure_no_tls") = "true" \/ Get(cfg, "bind_address") = "loopback"

\* Mutant of FromConfig: an empty token taken for a token.
FromConfigUnfiltered(token) == IF token = Unset THEN None ELSE token

\* BearerAuthLayer::from_config: an empty token disables authentication.
FromConfig(token) == IF token \in {Unset, ""} THEN None ELSE token

StartServer ==
    /\ main = "listen" /\ TlsGate
    /\ main' = "serving"
    /\ server' = "up" /\ secured' = HasCert
    /\ expected' = FromConfig(Get(cfg, "auth_token"))
    /\ UNCHANGED <<exit, setup, cfg, sweeperVars, vaultVars, requestVars>>

RefuseToStart == main = "listen" /\ ~TlsGate /\ Exit("err")

\* The other errors of main: the config file, the storage, its first sweep, the
\* certificate files, the bind, the wait for Ctrl-C, stop().
MainFails == main \in {"load", "open", "sweep", "listen", "serving", "stop"} /\ Exit("err")

-----------------------------------------------------------------------------
(* Shutdown *)

\* Ctrl-C, which main waits for only now; before, it kills the process.
Interrupt ==
    /\ main = "serving"
    /\ main' = "stop"
    /\ UNCHANGED <<exit, setup, cfg, sweeperVars, rpcVars>>

\* server_handle.stop()
StopServer ==
    /\ main = "stop"
    /\ main' = "drain" /\ server' = "stopping"
    /\ UNCHANGED <<exit, setup, cfg, sweeperVars, secured, expected, vaultVars, requestVars>>

\* Mutant of Drained: stop() not followed by stopped().
DrainedAtOnce ==
    /\ main = "drain"
    /\ main' = "cancel" /\ server' = "stopped"
    /\ UNCHANGED <<exit, setup, cfg, sweeperVars, secured, expected, vaultVars, requestVars>>

\* server_handle.stopped().await: every connection has ended.  One that only
\* the TLS listener has accepted does not count.
Drained ==
    /\ main = "drain"
    /\ \A r \in Requests : stage[r] \in InFlight => secured /\ stage[r] = "sent"
    /\ main' = "cancel" /\ server' = "stopped"
    /\ UNCHANGED <<exit, setup, cfg, sweeperVars, secured, expected, vaultVars, requestVars>>

CancelCleanup ==
    /\ main = "cancel"
    /\ main' = "join"
    /\ Sweeper!CancelParent
    /\ UNCHANGED <<exit, setup, cfg, serverVars, stored, requestVars>>

Join == main = "join" /\ task \in {"unspawned", "stopped"} /\ Exit("ok")

\* SIGTERM, SIGKILL, or Ctrl-C before main listens for it.
Kill == main # "exited" /\ Exit("killed")

-----------------------------------------------------------------------------
(* The parts at work *)

\* The loop of the background task.
Sweep ==
    /\ task \notin {"unspawned", "aborted"}
    /\ Sweeper!Loop \/ Sweeper!SweepOk \/ Sweeper!SweepFails
    /\ UNCHANGED <<daemonVars, serverVars, stored, requestVars>>

Tick ==
    /\ task \notin {"unspawned", "aborted"}
    /\ Sweeper!Tick
    /\ UNCHANGED <<daemonVars, serverVars, stored, requestVars>>

\* A record passes its expiry.
Lapse(p) ==
    /\ main # "exited" /\ p \in stored
    /\ stored' = stored \ {p} /\ Sweeper!Lapse(p)
    /\ UNCHANGED <<daemonVars, serverVars, requestVars>>

Client(r) ==
    /\ (\E b \in Bodies : Send(r, b)) \/ Disconnect(r)
    /\ UNCHANGED <<daemonVars, sweeperVars>>

ServeRequest(r) == Serve(r) /\ UNCHANGED <<daemonVars, sweeperVars>>

MainStep ==
    \/ ReadConfig \/ OpenStorage \/ StartupCleanup \/ SpawnCleanup
    \/ PairTls \/ BailHalfTls \/ StartServer \/ RefuseToStart
    \/ StopServer \/ Drained \/ CancelCleanup \/ Join

\* The process is no more.
Terminated == main = "exited" /\ UNCHANGED vars

Next ==
    \/ MainStep \/ MainFails \/ Interrupt \/ Kill
    \/ Sweep \/ Tick \/ \E p \in Perishable : Lapse(p)
    \/ \E r \in Requests : Client(r) \/ ServeRequest(r)
    \/ Terminated

\* The runtime polls what can go on; a storage call ends, and not every sweep
\* fails.  Nothing is assumed of clients: a request whose next byte is theirs to
\* send or to take may stay where it is for ever.
Fairness ==
    /\ WF_vars(MainStep) /\ WF_vars(Sweep) /\ WF_vars(Tick)
    /\ SF_vars(Sweep /\ Sweeper!SweepOk)
    /\ \A r \in Requests : WF_vars(Call(r) /\ UNCHANGED <<daemonVars, sweeperVars>>)

Spec == Init /\ [][Next]_vars /\ Fairness

-----------------------------------------------------------------------------
(* Properties *)

\* Every variable has its type.
TypeOK ==
    /\ main \in {"load", "open", "sweep", "spawn", "tls", "listen", "serving", "stop",
                 "drain", "cancel", "join", "exited"}
    /\ exit \in {"none", "ok", "err", "killed"}
    /\ setup \in Setups /\ DOMAIN cfg \subseteq Keys
    /\ task \in Sweeper!LoopStages \cup {"unspawned", "aborted"}
    /\ phase \in 0 .. Interval - 1 /\ due \in 0 .. Sweeper!Many
    /\ parent \in BOOLEAN /\ child \in BOOLEAN
    /\ swept \subseteq Proofs /\ begun \in Nat /\ late \in Nat
    /\ RpcTypeOK

\* "Stop the RPC server first": a daemon that ends with Ok has let every request
\* finish that it had begun, and its sweep.  What it cuts off is in the hands of
\* the TLS proxy, which nobody waits for: requests that no method ran for, and
\* answers that are complete.
CleanExit ==
    exit = "ok" =>
        /\ task \in {"unspawned", "stopped"}
        /\ \A r \in Requests : stage[r] = "cut" => secured /\ (done[r] = <<>> \/ answer[r] # "none")

\* Plain HTTP is served to the outside only if some layer of the configuration
\* asks for it and no higher one takes it back.
ExposedOnlyIfAsked ==
    server # "down" /\ ~secured /\ Asked(setup, "bind_address") # "loopback"
        => Asked(setup, "insecure_no_tls") = "true"

\* config.rs of auth_token: "Optional Bearer token required in the `Authorization:
\* Bearer <TOKEN>` header on every JSON-RPC request".  With the token as it is
\* written in the highest layer that has one: no method runs for a request
\* without it, and no request with it is turned away.
AuthAsConfigured ==
    LET token == Asked(setup, "auth_token") IN
    \A r \in Requests :
        /\ done[r] # <<>> /\ token \notin {Unset, ""} => body[r].auth = token
        /\ answer[r] = "http401" => token \notin {Unset, ""} /\ body[r].auth # token

\* stopped() waits for r, and r for its client: to send the rest of the request,
\* or to read the answer.
WaitsForClient(r) ==
    stage[r] \in {"sent", "reading", "answering"} /\ ~(secured /\ stage[r] = "sent")

\* After Ctrl-C nothing but a client holds up the end of the daemon: if none
\* stalls for ever, it ends, through calls at work, requests that keep coming in
\* through the TLS listener, and failing sweeps.  A client that does stall holds it
\* up for ever: main waits for stopped() without a time limit.
ShutdownEnds ==
    (\A r \in Requests : []<>~WaitsForClient(r)) => (main = "stop" ~> main = "exited")

\* With a cleanup interval, an expired record goes while the daemon serves.
ExpiredGoes ==
    \A p \in Perishable :
        (p \in lapsed /\ main = "serving" /\ Asked(setup, "cleanup_interval_secs") # "0")
            ~> (p \notin lapsed \/ main # "serving")
=============================================================================
