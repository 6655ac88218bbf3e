------------------------------ MODULE SaltGuard -----------------------------
(***************************************************************************)
(* The salt of a configuration and the checks made of it before a run      *)
(* (config/, utils/security.py, cli.py).  A salt is its text without the   *)
(* spaces around it, whether it has any, the length of the text and        *)
(* whether it is one of the known placeholders.                            *)
(***************************************************************************)
EXTENDS Naturals

CONSTANTS
  Env,      \* "${SECRET_SALT}"
  NoPrint   \* a configuration without a fingerprint

Fingerprint(salt) == salt.text

(* is_insecure_salt *)
Insecure(salt) == salt.placeholder \/ salt.length < 32

(* Without a variable the default, the empty string, is filled in, which the
   configuration does not accept. *)
Interpolated(config, env) == IF config.salt = Env THEN env ELSE config.salt

Valid(salt) == salt.length > 0

(* dump_config_to_yaml writes what was filled in. *)
Saved(salt, print) ==
  [salt |-> salt, print |-> IF print = NoPrint THEN Fingerprint(salt) ELSE print]

Mismatch(config, salt) == config.print # NoPrint /\ config.print # Fingerprint(salt)

(* is_production_connection, on the words found in the host and the path. *)
ProductionWords ==
  {"prod", "production", "live", "master", "main_db", "rds.amazonaws.com",
   "database.windows.net", "gcp.cloudsql"}
IsProduction(words) == words \cap ProductionWords # {}
=============================================================================
