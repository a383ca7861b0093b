---------------------------- MODULE MCApiServer ----------------------------
(***************************************************************************)
(* A small server for TLC.                                                 *)
(***************************************************************************)
EXTENDS ApiServer

\* One address logs in to two accounts, directly and through a proxy, and one
\* account is tried from two addresses; scans are limited by the address.
MCCalls == 1..5
MCRequests == <<
  [rule |-> "login", peer |-> "a", forwarded |-> NoValue, role |-> NoValue, username |-> "u"],
  [rule |-> "login", peer |-> "b", forwarded |-> "a", role |-> NoValue, username |-> "v"],
  [rule |-> "login", peer |-> "p", forwarded |-> "a", role |-> NoValue, username |-> "v"],
  [rule |-> "post_scan", peer |-> "a", forwarded |-> NoValue, role |-> NoValue, username |-> NoValue],
  [rule |-> "post_scan", peer |-> "p", forwarded |-> "a", role |-> NoValue, username |-> NoValue] >>
MCThreshold == "login" :> 1 @@ "post_scan" :> 2
MCWindow == "login" :> 2 @@ "post_scan" :> 3

\* Three assets of one scan, so that a page of two is followed by another one, and one
\* of another scan.  Their sources fill the graph in different ways: asset 1 alone fits
\* it exactly, so that scan 1, which has more assets than a graph takes, leaves no node
\* for the second, and asset 4 has too many sources for the nodes and the edges.
Assorted == [a \in Assets |->
  [scan |-> IF a = 4 THEN 2 ELSE 1,
   algorithm |-> [base |-> CASE a = 2 -> "ECDSA" [] a = 4 -> "AES" [] OTHER -> "RSA",
                  suffix |-> "none"],
   rank |-> IF a = 2 THEN 1 ELSE 2, usage |-> "signature", location |-> 1,
   confidence |-> IF a = 1 THEN 90 ELSE 40, conflict |-> a = 2,
   kind |-> "observed_operation",
   sources |-> CASE a = 1 -> {"ast", "rule", "cert"} [] a = 4 -> {"ast", "rule", "cert", "dep"}
                 [] OTHER -> {"ast"}]]
MCCatalog == Assorted
MCInitial == Defaults
Sent == {"business_criticality" :> "high", "threat_horizon_years" :> 10,
               "business_criticality" :> "medium" @@ "migration_effort" :> "high"}
MCPayloads == Sent
Query(kind, scan, sort, label, asset) ==
  [kind |-> kind, scan |-> scan, sort |-> sort, label |-> label, asset |-> asset]
Reports == {
  Query("pages", 1, "confidence", NoValue, NoValue),
  Query("pages", NoValue, "priority", "MEDIUM", NoValue),
  Query("csv", NoValue, "score", NoValue, NoValue),
  Query("summary", NoValue, "name", NoValue, NoValue), Query("graph", 1, "name", NoValue, NoValue),
  Query("graph", NoValue, "name", NoValue, NoValue), Query("graph", NoValue, "name", NoValue, 1)}
MCQueries == Reports

\* A local server with the role header, one that does not load, and a public demo
\* that has demoted its only account.
Local ==
  [env |-> "local", secret |-> "s", weak |-> {"short"}, demo |-> NoValue,
   users |-> "u" :> [role |-> "admin", password |-> "pw"], origins |-> {"http://localhost:3000"},
   roots |-> {"repos"}, unrestricted |-> "false", role_header |-> "true",
   public_demo |-> "false", correlator |-> "v2"]
MCEnvironments == <<
  Local, [Local EXCEPT !.env = "production"],
  [Local EXCEPT !.env = "production", !.role_header = "false", !.public_demo = "true",
                !.users = "u" :> [role |-> "auditor", password |-> "pw"], !.demo = "pw2"]>>
Want(op, user, header) == [op |-> op, user |-> user, header |-> header]
MCWants == <<
  {Want("write", NoValue, "admin"), Want("audit_logs", NoValue, "viewer")},
  {Want("purge", "u", NoValue), Want("audit_logs", "public-demo", NoValue)},
  {Want("purge", NoValue, "admin"), Want("write", NoValue, "viewer")}>>

\* A fresh database, and one of an older release with and without a revision; the
\* upgrade and the stamp make it one that is up to date, a failed stamp leaves a whole
\* one without a revision.
MCTables == {"jobs", "leases"}
Database(tables, columns, revision, legacy) ==
  [tables |-> tables, columns |-> columns, revision |-> revision, legacy |-> legacy]
Databases == {
  Database({}, FALSE, "absent", FALSE), Database({"jobs"}, FALSE, "old", FALSE),
  Database({"jobs"}, FALSE, "absent", TRUE)}
MCSchemas == Databases
MCCreatorSets == {{1}, {1, 2}}

MCResponses ==
  {[method |-> "GET", path |-> [first |-> f, rest |-> "1"], status |-> "200"] : f \in {"scans", "api"}}
MCDurations == {-1, 1, 5, 9}
=============================================================================
