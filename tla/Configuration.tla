--------------------------- MODULE Configuration ---------------------------
(***************************************************************************)
(* backend/settings.py: from the environment to the settings every request *)
(* reads.  An environment is a record of what the names stand for; any     *)
(* SettingsError is NoValue, since no caller tells them apart.             *)
(***************************************************************************)
EXTENDS Integers, Functions, FiniteSets, TLC

CONSTANT NoValue        \* what is absent: a variable, a header, a field

ROLES == {"admin", "security_analyst", "auditor", "viewer"}

\* _boolean: "true" or "false", nothing else.
Booleans(raw, names) == \A n \in names : raw[n] \in {"true", "false"}

\* _integer and _number, with the bounds that load_settings passes.
Bounds ==
  [ request_timeout |-> 1..3600, scan_timeout |-> 1..3600, max_file_bytes |-> 1..134217728,
    max_scan_files |-> 1..1000000, max_evidence |-> 1..1000000,
    duration_budget |-> 0..3600000, memory_budget |-> 0..4096 ]

Numbers(raw) == \A n \in DOMAIN Bounds : n \in DOMAIN raw => raw[n] \in Bounds[n]

\* _users: distinct strong passwords, none of them the secret, and the demo
\* account of ECDAT_DEMO_PASSWORD on top.
ValidUsers(raw) ==
  LET password == [n \in DOMAIN raw.users |-> raw.users[n].password]
  IN  /\ DOMAIN raw.users # {}
      /\ \A n \in DOMAIN raw.users :
           raw.users[n].role \in ROLES /\ password[n] \notin raw.weak
      /\ IsInjective(password)
      /\ raw.secret \notin Range(password)
      /\ raw.demo # NoValue =>
           /\ "demo" \notin DOMAIN raw.users
           /\ raw.demo \notin raw.weak \cup {raw.secret} \cup Range(password)

Users(raw) ==
  [n \in DOMAIN raw.users |-> raw.users[n].role]
    @@ IF raw.demo = NoValue THEN << >> ELSE "demo" :> "security_analyst"

\* Origins and scan roots; a root is the directory or "missing".
ValidScope(raw) ==
  LET production == raw.env = "production"
      unrestricted == raw.unrestricted = "true"
  IN  /\ raw.origins # {} /\ "malformed" \notin raw.origins
      /\ (raw.roots # {}) # unrestricted
      /\ production => "missing" \notin raw.roots /\ ~unrestricted /\ raw.role_header = "false"
      /\ raw.public_demo = "true" => Cardinality(raw.roots) = 1

\* load_settings, and the settings that routers and security read.
LoadSettings(raw) ==
  IF /\ raw.env \in {"local", "test", "production"}
     /\ raw.secret \notin raw.weak
     /\ ValidUsers(raw)
     /\ Booleans(raw, {"unrestricted", "role_header", "public_demo"})
     /\ ValidScope(raw)
     /\ raw.correlator \in {"v2", "v3"}
     /\ Numbers(raw)
  THEN [secret |-> raw.secret, users |-> Users(raw), publicDemo |-> raw.public_demo = "true",
        roleHeader |-> raw.role_header = "true"]
  ELSE NoValue
=============================================================================
