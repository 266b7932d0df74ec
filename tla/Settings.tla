------------------------------ MODULE Settings ------------------------------
(***************************************************************************)
(* What a process is started with (AppState::open of backend/src/state.rs  *)
(* and backend/src/config.rs): outside production the files .env and       *)
(* .env.local fill in what the environment lacks, config.json says which   *)
(* database, and a production process without a good JWT_SECRET does not   *)
(* start.  One secret stands for all the variables.                        *)
(*                                                                         *)
(* A file is absent, a symlink to somewhere else, unreadable, or holds a   *)
(* value.                                                                  *)
(***************************************************************************)
EXTENDS Naturals

Values == {"good", "short", "placeholder"}

VARIABLES
  prod,      \* NODE_ENV is production
  shell,     \* JWT_SECRET in the environment of the supervisor, or "none"
  files,     \* the contents of .env, .env.local and .env.example
  config,    \* config.json: "sqlite", "other", or "broken", which counts as the defaults
  boot,      \* where the process is
  secret,    \* JWT_SECRET in its own environment
  path       \* the database it opened: "configured", "default" or "none"

settingsVars == <<prod, shell, files, config, boot, secret, path>>

Contents == {"absent", "symlink"} \cup Values

SettingsInit ==
  /\ prod \in BOOLEAN /\ shell \in {"none"} \cup Values
  /\ files \in [{".env", ".env.local", ".env.example"} -> Contents]
  /\ config \in {"sqlite", "other", "broken"}
  /\ boot = "down" /\ secret = "none" /\ path = "none"

Booted(l) == boot' = l /\ UNCHANGED <<prod, shell, config>>

\* The supervisor starts the process.
Exec ==
  /\ boot = "down"
  /\ secret' = shell /\ path' = "none"
  /\ Booted(IF prod THEN "load" ELSE "env")
  /\ UNCHANGED files

\* ensure_regular_env_file: a symlink is removed, and an absent .env made from the
\* template, which fails without one.
EnsureEnvFile ==
  /\ boot = "env"
  /\ LET gone == IF files[".env"] = "symlink" THEN "absent" ELSE files[".env"]
         made == IF gone = "absent" /\ files[".env.example"] # "absent"
                 THEN (IF files[".env.example"] = "symlink" THEN "elsewhere" ELSE files[".env.example"])
                 ELSE gone
     IN  files' = [files EXCEPT ![".env"] = made]
  /\ Booted("parse")
  /\ UNCHANGED <<secret, path>>

\* Mutant: links are followed.
FollowEnvFile(f) == IF files[f] = "symlink" THEN "elsewhere" ELSE IF files[f] = "absent" THEN "none" ELSE files[f]

\* parse_env_file: a symlink is refused.
ParseEnvFile(f) == IF files[f] \in {"absent", "symlink"} THEN "none" ELSE files[f]

\* load_local_env: .env.local wins over .env, and neither over the environment.
LoadLocalEnv ==
  /\ boot = "parse"
  /\ LET local == ParseEnvFile(".env.local")
         given == IF local # "none" THEN local ELSE ParseEnvFile(".env")
     IN  secret' = IF secret # "none" THEN secret ELSE given
  /\ Booted("load")
  /\ UNCHANGED <<files, path>>

\* check_prod_jwt_secret
SecretAccepted == prod => secret \notin {"none", "short", "placeholder"}

\* load_config: a file that cannot be read, or not as it should be, counts as the defaults.
LoadConfig == IF config = "broken" THEN "default" ELSE "configured"

\* open_in: load_config, the check of the secret, and the database, which may not open;
\* main ends the process when one fails.
OpenIn ==
  /\ boot = "load"
  /\ \/ /\ SecretAccepted /\ config # "other"
        /\ path' = LoadConfig /\ Booted("serving")
     \/ Booted("down") /\ UNCHANGED path
  /\ UNCHANGED <<files, secret>>

\* The process ends, and is started again over the files it left.
Ends == boot = "serving" /\ Booted("down") /\ UNCHANGED <<files, secret, path>>

SettingsNext == Exec \/ EnsureEnvFile \/ LoadLocalEnv \/ OpenIn \/ Ends

SettingsSpec == SettingsInit /\ [][SettingsNext]_settingsVars

-----------------------------------------------------------------------------
\* "production must not start, or it would serve sessions nobody can trust" (open_in),
\* whatever is in the files; and no secret comes from behind a symlink ("secret-leak
\* risk", is_symlink), unless the template itself is one.
ServesTrusted ==
  /\ boot = "serving" /\ prod => secret = "good" /\ shell = "good"
  /\ files[".env.example"] # "symlink" => secret # "elsewhere"
==============================================================================
