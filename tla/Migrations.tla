----------------------------- MODULE Migrations -----------------------------
(***************************************************************************)
(* runMigrations: every container migrates the database when it starts,    *)
(* one connection each, under a session advisory lock (db/migrate.ts).     *)
(* Migrations are numbered by journal order; containers of a rolling       *)
(* deploy may know fewer of them.  A database provisioned by db:push has   *)
(* the schema and no record of it; the code takes it to be up to date.     *)
(***************************************************************************)
EXTENDS Integers

CONSTANTS
    Migrators,      \* runs of the migrator
    Deploys,        \* what each run knows (journal: run -> number of migrations)
                    \* and the database was provisioned with by db:push (legacy)
    MaxStops,       \* bound: runs that crash or lose their connection
    BaselineStops   \* may a run stop between two inserts of the baseline?

ASSUME MigrationAssumption ==
    /\ \A d \in Deploys : d.journal \in [Migrators -> Nat] /\ d.legacy \in Nat
    \* The release that baselines a db:push schema is the one it was pushed by.
    /\ \A d \in Deploys : d.legacy > 0 => \A p \in Migrators : d.journal[p] = d.legacy
    /\ MaxStops \in Nat /\ BaselineStops \in BOOLEAN
    /\ "free" \notin Migrators

VARIABLES
    migrator,       \* each run
    lockedBy,       \* who holds the advisory lock
    recordedTags,   \* __bunmail_migrations
    schema,         \* migrations whose result the schema has
    ddl,            \* migration -> times its statements were committed
    deploy,         \* the deploy at hand
    stops

migrationVars == <<migrator, lockedBy, recordedTags, schema, ddl, deploy, stops>>

Free == "free"
Known(p) == 1..deploy.journal[p]
AllMigrations == UNION {Known(p) : p \in Migrators}
MigratorTo(p, at) == migrator' = [migrator EXCEPT ![p].at = at]

\* Mutant: the recorded tags are read before the lock is taken.
AcquireAfterReading(p) ==
    /\ migrator[p].at \in {"start", "read"}
    /\ IF migrator[p].at = "start"
       THEN /\ migrator' = [migrator EXCEPT ![p] = [at |-> "read", seen |-> recordedTags]]
            /\ UNCHANGED lockedBy
       ELSE /\ lockedBy = Free
            /\ lockedBy' = p
            /\ MigratorTo(p, "apply")
    /\ UNCHANGED <<recordedTags, schema, ddl, deploy, stops>>

\* pg_advisory_lock waits for the run that holds it.
AcquireLock(p) ==
    /\ migrator[p].at = "start"
    /\ lockedBy = Free
    /\ lockedBy' = p
    /\ MigratorTo(p, "locked")
    /\ UNCHANGED <<recordedTags, schema, ddl, deploy, stops>>

\* CREATE TABLE IF NOT EXISTS, the recorded tags, and isLegacySchema.
ReadRecorded(p) ==
    /\ migrator[p].at = "locked"
    /\ migrator' = [migrator EXCEPT ![p] =
                      [at |-> IF recordedTags = {} /\ schema # {} THEN "baseline" ELSE "apply",
                       seen |-> recordedTags]]
    /\ UNCHANGED <<lockedBy, recordedTags, schema, ddl, deploy, stops>>

\* Journal order.
NextTag(p) == CHOOSE m \in Known(p) \ migrator[p].seen :
                 \A k \in Known(p) \ migrator[p].seen : m <= k

\* The baseline records one migration after another, each by itself.
Baseline(p) ==
    /\ migrator[p].at = "baseline"
    /\ IF Known(p) \subseteq migrator[p].seen
       THEN MigratorTo(p, "apply") /\ UNCHANGED recordedTags
       ELSE /\ recordedTags' = recordedTags \cup {NextTag(p)}
            /\ migrator' = [migrator EXCEPT ![p].seen = @ \cup {NextTag(p)}]
    /\ UNCHANGED <<lockedBy, schema, ddl, deploy, stops>>

\* One migration: its statements and its tag in one transaction.
ApplyMigration(p) ==
    /\ migrator[p].at = "apply" /\ ~(Known(p) \subseteq migrator[p].seen)
    /\ LET m == NextTag(p) IN
       /\ schema' = schema \cup {m}
       /\ ddl' = [ddl EXCEPT ![m] = @ + 1]
       /\ recordedTags' = recordedTags \cup {m}
       /\ migrator' = [migrator EXCEPT ![p].seen = @ \cup {m}]
    /\ UNCHANGED <<lockedBy, deploy, stops>>

\* All are recorded: the lock is released and the container starts.
MigrationsDone(p) ==
    /\ migrator[p].at = "apply" /\ Known(p) \subseteq migrator[p].seen
    /\ MigratorTo(p, "done")
    /\ lockedBy' = Free
    /\ UNCHANGED <<recordedTags, schema, ddl, deploy, stops>>

\* Mutant: the lock was taken on another connection of a pool.
StopsKeepingLock(p) ==
    /\ migrator[p].at \notin {"start", "done"}
    /\ migrator[p].at = "baseline" => BaselineStops
    /\ stops < MaxStops
    /\ stops' = stops + 1
    /\ migrator' = [migrator EXCEPT ![p] = [at |-> "start", seen |-> {}]]
    /\ UNCHANGED <<lockedBy, recordedTags, schema, ddl, deploy>>

\* The run dies, or its connection does: the session takes its lock with it,
\* an open transaction rolls back, and the container is started again.
MigrationStops(p) ==
    /\ migrator[p].at \notin {"start", "done"}
    /\ migrator[p].at = "baseline" => BaselineStops
    /\ stops < MaxStops
    /\ stops' = stops + 1
    /\ migrator' = [migrator EXCEPT ![p] = [at |-> "start", seen |-> {}]]
    /\ lockedBy' = IF lockedBy = p THEN Free ELSE lockedBy
    /\ UNCHANGED <<recordedTags, schema, ddl, deploy>>

-----------------------------------------------------------------------------
MigrationInit ==
    /\ migrator = [p \in Migrators |-> [at |-> "start", seen |-> {}]]
    /\ lockedBy = Free
    /\ recordedTags = {}
    /\ deploy \in Deploys
    /\ schema = 1..deploy.legacy
    /\ ddl = [m \in AllMigrations |-> 0]
    /\ stops = 0

MigratorStep(p) ==
    AcquireLock(p) \/ ReadRecorded(p) \/ Baseline(p) \/ ApplyMigration(p) \/ MigrationsDone(p)

MigrationNext == \E p \in Migrators : MigratorStep(p) \/ MigrationStops(p)

MigrationSpec == MigrationInit /\ [][MigrationNext]_migrationVars
                               /\ \A p \in Migrators : WF_migrationVars(MigratorStep(p))

-----------------------------------------------------------------------------
\* "Record every existing migration as already-applied so we don't re-run DDL
\* and corrupt existing data": no migration's statements run twice, or over a
\* schema that has their result, whichever runs overlap, die and start again.
MigratedOnce ==
    \A m \in AllMigrations : ddl[m] <= IF m <= deploy.legacy THEN 0 ELSE 1

\* A container that starts finds the schema its code expects, and the schema
\* only ever grows by the next migration of the journal.
StartsMigrated ==
    /\ \A p \in Migrators : migrator[p].at = "done" => Known(p) \subseteq schema
    /\ \A m \in schema : \A k \in AllMigrations : k < m => k \in schema

\* Every container starts in the end: nobody waits for ever for the lock.
AllStart == \A p \in Migrators : <>(migrator[p].at = "done")

\* The schema is the journal's prefix the containers expect, each migration's
\* statements having run once.
SchemaIsMigrated == MigratedOnce /\ StartsMigrated
=============================================================================
