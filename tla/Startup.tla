------------------------------ MODULE Startup ------------------------------
(***************************************************************************)
(* The application's lifespan before it serves (backend/main.py), the      *)
(* readiness check and the recovery of stale jobs, of several replicas on  *)
(* one database.  The jobs move on meanwhile: what ScanControl does to a   *)
(* row is reduced here to claiming it, supervising it and finishing it.    *)
(*                                                                         *)
(* Ages are counted in units of which a supervised scan lasts MaxScan at   *)
(* most (timeout and grace) and recovery's threshold, 3 hours, is Stale.   *)
(***************************************************************************)
EXTENDS Integers, FiniteSets

CONSTANTS
  Replicas,
  Tables,        \* REQUIRED_TABLES
  Schemas,       \* databases a replica may find: [tables, columns, revision, legacy]
  CreatorSets,   \* which replicas may run with ECDAT_AUTO_CREATE_TABLES
  ScanJobs,
  MaxScan, Stale,
  MaxBootCrashes, \* bound on processes that die while they boot
  MaxStampFaults  \* bound on stamps that fail

ASSUME SchemaAssumption ==
  Schemas \subseteq [tables : SUBSET Tables, columns : BOOLEAN,
                     revision : {"absent", "old", "current"}, legacy : BOOLEAN]
\* Migrations make every column; a database without a revision is fresh, its tables
\* were made by this release's create_all, or (legacy) by that of an older release.
ASSUME MigrationAssumption == \A s \in Schemas :
  /\ s.revision = "current" => s.columns
  /\ s.revision = "absent" => s.tables = {} \/ s.columns \/ s.legacy
ASSUME StaleAssumption == MaxScan \in Nat /\ Stale \in Nat /\ MaxScan < Stale

VARIABLES
  creators,      \* the replicas that run with ECDAT_AUTO_CREATE_TABLES
  schema,        \* [tables, columns (all of them), revision, legacy (it was found
                 \* without a revision, with tables of an older release)]
  aware,         \* started_at is read with a time zone: the column was made by
                 \* the migrations on PostgreSQL, not by create_all or on SQLite
  boot,          \* replica -> [pc, revision, tables, found]
  scanJob,       \* job -> [status, age, supervised, waited, recovered]; waited: it
                 \* was claimed only after it had become stale in the queue
  bootCrashes,
  stampFaults

bootVars == <<creators, schema, aware, boot, scanJob, bootCrashes, stampFaults>>

Down == [pc |-> "down", revision |-> "absent", tables |-> {}, found |-> {}]
NoScanJob == [status |-> "none", age |-> 0, supervised |-> FALSE, waited |-> FALSE,
              recovered |-> FALSE]

StartupInit ==
  /\ creators \in CreatorSets
  /\ schema \in Schemas
  /\ aware \in IF schema.revision = "absent" THEN {FALSE} ELSE BOOLEAN
  /\ boot = [p \in Replicas |-> Down]
  /\ scanJob \in [ScanJobs -> {NoScanJob} \cup
                   {[NoScanJob EXCEPT !.status = s, !.age = Stale + 1] :
                      s \in {"queued", "running"}}]
  /\ bootCrashes = 0
  /\ stampFaults = 0

BootTo(p, l) == boot' = [boot EXCEPT ![p].pc = l]
----------------------------------------------------------------------------
\* lifespan

\* The revision is read; a database without the table has none.
ReadRevision(p) ==
  /\ boot[p].pc = "down"
  /\ boot' = [boot EXCEPT ![p].revision = schema.revision,
                          ![p].pc = IF p \in creators THEN "inspect" ELSE "recover"]
  /\ UNCHANGED <<creators, schema, aware, scanJob, bootCrashes, stampFaults>>

\* create_all first looks which tables are there ...
InspectTables(p) ==
  /\ boot[p].pc = "inspect"
  /\ boot' = [boot EXCEPT ![p].tables = schema.tables, ![p].pc = "create"]
  /\ UNCHANGED <<creators, schema, aware, scanJob, bootCrashes, stampFaults>>

\* Faulty variant: a revision that does not match is overwritten, too.
NeedsStampOnMismatch(p) == boot[p].revision # "current"

NeedsStamp(p) == boot[p].revision = "absent"

\* ... and then creates the missing ones in one transaction.  It adds no
\* columns.  A table another replica created meanwhile raises, which nothing
\* catches: the process ends.
CreateTables(p) ==
  LET missing == Tables \ boot[p].tables
  IN /\ boot[p].pc = "create"
     /\ \/ /\ missing \cap schema.tables = {}
           /\ schema' = [schema EXCEPT !.tables = @ \cup missing,
                                       !.columns = @ \/ missing = Tables]
           /\ BootTo(p, IF NeedsStamp(p) THEN "stamp" ELSE "recover")
        \/ /\ missing \cap schema.tables # {}
           /\ boot' = [boot EXCEPT ![p] = Down]
           /\ UNCHANGED schema
     /\ UNCHANGED <<creators, aware, scanJob, bootCrashes, stampFaults>>

\* The stamp; a failure is logged and the boot goes on.
Stamp(p) ==
  /\ boot[p].pc = "stamp"
  /\ BootTo(p, "recover")
  /\ \/ schema' = [schema EXCEPT !.revision = "current"] /\ UNCHANGED stampFaults
     \/ /\ stampFaults < MaxStampFaults
        /\ stampFaults' = stampFaults + 1
        /\ UNCHANGED schema
  /\ UNCHANGED <<creators, aware, scanJob, bootCrashes>>

\* Faulty variant: jobs are stale whatever their age.
StaleJobsOfAnyAge == {j \in ScanJobs : scanJob[j].status \in {"running", "queued"}}

\* find_stale_jobs
StaleJobs ==
  {j \in ScanJobs : scanJob[j].status \in {"running", "queued"} /\ scanJob[j].age > Stale}

FindStale(p) ==
  /\ boot[p].pc = "recover"
  /\ "jobs" \in schema.tables
  /\ boot' = [boot EXCEPT ![p] =
               [@ EXCEPT !.found = StaleJobs,
                         !.pc = IF StaleJobs = {} THEN "leases" ELSE "mark"]]
  /\ UNCHANGED <<creators, schema, aware, scanJob, bootCrashes, stampFaults>>

\* Faulty variant: the exception of a time without a zone is not caught.
MarkOrDie(p) ==
  /\ boot[p].pc = "mark"
  /\ aware \/ boot' = [boot EXCEPT ![p] = Down]
  /\ ~aware \/ BootTo(p, "leases")
  /\ UNCHANGED <<creators, schema, aware, scanJob, bootCrashes, stampFaults>>

\* recover_stale_jobs: every job found, whatever it has become since, in one
\* transaction; its outbox row stays as it is.  Subtracting a started_at
\* without a zone raises: the log says that recovery failed, and nothing is
\* written.
MarkStale(p) ==
  /\ boot[p].pc = "mark"
  /\ BootTo(p, "leases")
  /\ scanJob' = [j \in ScanJobs |->
       IF aware /\ j \in boot[p].found
       THEN [scanJob[j] EXCEPT !.status = "failed", !.recovered = TRUE] ELSE scanJob[j]]
  /\ UNCHANGED <<creators, schema, aware, bootCrashes, stampFaults>>

\* Without its tables, recovery and reconciliation raise and are logged.
RecoveryFails(p) ==
  /\ boot[p].pc = "recover"
  /\ "jobs" \notin schema.tables
  /\ BootTo(p, "leases")
  /\ UNCHANGED <<creators, schema, aware, scanJob, bootCrashes, stampFaults>>

\* Expired leases are reconciled (ScanControl's Restart) and the watchdog
\* starts; the process serves.
Serve(p) ==
  /\ boot[p].pc = "leases"
  /\ BootTo(p, "serving")
  /\ UNCHANGED <<creators, schema, aware, scanJob, bootCrashes, stampFaults>>

\* A process dies or is restarted (what it supervised is left by Abandon).
BootCrash(p) ==
  /\ boot[p].pc # "down" /\ bootCrashes < MaxBootCrashes
  /\ bootCrashes' = bootCrashes + 1
  /\ boot' = [boot EXCEPT ![p] = Down]
  /\ UNCHANGED <<creators, schema, aware, scanJob, stampFaults>>

\* alembic upgrade head, by an operator.
Upgrade ==
  /\ schema.revision = "old"
  /\ schema' = [schema EXCEPT !.tables = Tables, !.columns = TRUE, !.revision = "current"]
  /\ UNCHANGED <<creators, aware, boot, scanJob, bootCrashes, stampFaults>>

\* /ready with the given ECDAT_AUTO_CREATE_TABLES; columns are looked at only
\* if it is set.
Ready(autoCreate) ==
  /\ schema.tables = Tables
  /\ schema.revision = "current"
  /\ autoCreate => schema.columns
----------------------------------------------------------------------------
\* The jobs: accepted, claimed at once or when a later request finds them still
\* queued, supervised for MaxScan at most.

Accepted(j) ==
  /\ scanJob[j].status = "none"
  /\ \E p \in Replicas : boot[p].pc = "serving"
  /\ scanJob' = [scanJob EXCEPT ![j].status = "queued"]
  /\ UNCHANGED <<creators, schema, aware, boot, bootCrashes, stampFaults>>

Claimed(j) ==
  /\ scanJob[j].status = "queued"
  /\ scanJob' = [scanJob EXCEPT ![j] = [@ EXCEPT !.status = "running", !.age = 0,
                                                 !.supervised = TRUE,
                                                 !.waited = scanJob[j].age > Stale]]
  /\ UNCHANGED <<creators, schema, aware, boot, bootCrashes, stampFaults>>

\* The watchdog closes what nobody supervises; a supervisor closes its own.
Finished(j) ==
  /\ scanJob[j].status = "running"
  /\ scanJob' = [scanJob EXCEPT ![j].status = "completed", ![j].supervised = FALSE]
  /\ UNCHANGED <<creators, schema, aware, boot, bootCrashes, stampFaults>>

Abandon(j) ==
  /\ scanJob[j].supervised
  /\ scanJob' = [scanJob EXCEPT ![j].supervised = FALSE]
  /\ UNCHANGED <<creators, schema, aware, boot, bootCrashes, stampFaults>>

Grow ==
  /\ \A j \in ScanJobs : scanJob[j].supervised => scanJob[j].age < MaxScan
  /\ scanJob' = [j \in ScanJobs |->
                   IF scanJob[j].status \notin {"queued", "running"} \/ scanJob[j].age > Stale
                   THEN scanJob[j]
                   ELSE [scanJob[j] EXCEPT !.age = @ + 1]]
  /\ UNCHANGED <<creators, schema, aware, boot, bootCrashes, stampFaults>>

Boots(p) ==
  \/ ReadRevision(p) \/ InspectTables(p) \/ CreateTables(p) \/ Stamp(p)
  \/ FindStale(p) \/ MarkStale(p) \/ RecoveryFails(p) \/ Serve(p)

StartupNext ==
  \/ \E p \in Replicas : Boots(p) \/ BootCrash(p)
  \/ Upgrade
  \/ \E j \in ScanJobs : Accepted(j) \/ Claimed(j) \/ Finished(j) \/ Abandon(j)
  \/ Grow

\* A replica that is down is started again and its boot goes on.
StartupFairness == \A p \in Replicas : WF_bootVars(Boots(p))

StartupSpec == StartupInit /\ [][StartupNext]_bootVars /\ StartupFairness
----------------------------------------------------------------------------
\* Recovery takes no job from its supervisor, although it marks what it found a
\* while ago without looking again and other replicas claim and supervise
\* meanwhile.  The one exception is a job that was forgotten in the queue for
\* longer than the threshold and is dispatched at last between the two.
RecoverySparesLive ==
  \A j \in ScanJobs :
    scanJob[j].recovered /\ scanJob[j].supervised => scanJob[j].waited

\* A replica that serves a database it calls ready finds every column it needs
\* there, whichever replica created or stamped it, whoever crashed in between,
\* and whether or not its own environment makes it look at the columns.  The one
\* exception is an unversioned database of an older release, which a replica with
\* ECDAT_AUTO_CREATE_TABLES stamps as it is: a replica without it looks at no column
\* and calls it ready.
ReadyIsComplete ==
  \A autoCreate \in BOOLEAN :
    Ready(autoCreate) => schema.columns \/ (schema.legacy /\ ~autoCreate)

\* A replica that boots gets to serve: replicas that boot at the same time trip over
\* each other's tables, stamps fail and recovery raises, but not for ever.
BootCompletes ==
  \A p \in Replicas : boot[p].pc \notin {"down", "serving"} ~> boot[p].pc = "serving"
=============================================================================
