---------------------------- MODULE VaultConfig ----------------------------
(***************************************************************************)
(* The configuration (config.rs, and the overrides at the top of main.rs): *)
(* layers of settings, of which the highest that has a key gives it its    *)
(* value.  A layer is a function from the keys it sets to their texts.     *)
(*                                                                         *)
(* The keys that decide how the daemon starts are kept.  Sizes, paths and  *)
(* the backend are handed on unread, and the log level decides nothing.    *)
(***************************************************************************)
EXTENDS Naturals

Keys == {"bind_address", "auth_token", "tls_cert_path", "tls_key_path",
         "insecure_no_tls", "cleanup_interval_secs"}

\* Texts of settings.  An address is loopback or reachable from outside.
Texts == {"loopback", "reachable", "", "secret", "007", "7", "pem", "true", "false",
          "0", "300"}

IsLayer(l) == DOMAIN l \subseteq Keys /\ \A k \in DOMAIN l : l[k] \in Texts

\* What the operator wrote: the config file, the .env file, the environment and
\* the command line.
IsSetup(s) == \A l \in {s.file, s.dotenv, s.env, s.cli} : IsLayer(l)

Unset == "unset"

\* VaultConfig::default; the other keys are None or false when nobody sets them.
Defaults ==
    [k \in {"bind_address", "cleanup_interval_secs"} |->
        IF k = "bind_address" THEN "loopback" ELSE "300"]

\* Environment::try_parsing: a text that reads as a number is that number, and
\* is printed again where a string is wanted.
Reprinted(text) == IF text = "007" THEN "7" ELSE text

TryParsing(layer) == [k \in DOMAIN layer |-> Reprinted(layer[k])]

\* Layer l on top of layer m.
Over(l, m) == [k \in DOMAIN l \cup DOMAIN m |-> IF k \in DOMAIN l THEN l[k] ELSE m[k]]

\* Mutant of LoadConfig: dotenv_override() for dotenv().
LoadConfigOverride(s) == Over(TryParsing(Over(s.dotenv, s.env)), Over(s.file, Defaults))

\* load_config: dotenv() sets only variables that the environment does not have.
LoadConfig(s) == Over(TryParsing(Over(s.env, s.dotenv)), Over(s.file, Defaults))

\* main: "CLI flags take the highest priority".
Effective(s) == Over(s.cli, LoadConfig(s))

Get(cfg, k) == IF k \in DOMAIN cfg THEN cfg[k] ELSE Unset

-----------------------------------------------------------------------------
(* The reference: what the documentation makes of the layers, on the texts as   *)
(* they were written.                                                          *)

Ranked(s) == <<s.cli, s.env, s.dotenv, s.file, Defaults>>

Asked(s, k) ==
    LET setters == {i \in 1 .. 5 : k \in DOMAIN Ranked(s)[i]} IN
    IF setters = {} THEN Unset
    ELSE LET top == CHOOSE i \in setters : \A j \in setters : i <= j
         IN Ranked(s)[top][k]
=============================================================================
