----------------------------- MODULE MCProgress -----------------------------
(***************************************************************************)
(* Parts that must get on by themselves, in one model for TLC: the webhook *)
(* outbox, the trash purge, the MX slots and the migrations at boot.  Each *)
(* behaviour is one of a single part, its focus; the others stay in one of *)
(* their initial states, where (but for the migrations) no action of       *)
(* theirs that is fair is enabled.                                         *)
(***************************************************************************)
EXTENDS MCWebhookDelivery, Tombstones, MxSlots, MCMigrations

VARIABLE focus

progressVars == <<focus, outboxVars, purgeVars, slotVars, migrationVars>>

\* Two deliveries to a bucket on one replica, one on another.
MCReplicaOf == [c1 |-> "r1", c2 |-> "r1", c3 |-> "r2"]

ProgressInit ==
    /\ focus \in {"outbox", "purge", "slots", "migrations"}
    /\ OutboxInit /\ PurgeInit
    /\ SlotInit /\ (focus # "slots" => installed = {})
    /\ MigrationInit /\ (focus # "migrations" => deploy.legacy = 0)

ProgressNext ==
    \/ /\ focus = "outbox" /\ OutboxNext
       /\ UNCHANGED <<focus, purgeVars, slotVars, migrationVars>>
    \/ /\ focus = "purge" /\ PurgeNext
       /\ UNCHANGED <<focus, outboxVars, slotVars, migrationVars>>
    \/ /\ focus = "slots" /\ SlotNext
       /\ UNCHANGED <<focus, outboxVars, purgeVars, migrationVars>>
    \/ /\ focus = "migrations" /\ MigrationNext
       /\ UNCHANGED <<focus, outboxVars, purgeVars, slotVars>>

\* The fairness of each part, as its own module states it; the migrations'
\* only while they are in focus, for they can go on in their initial state.
ProgressSpec ==
    /\ ProgressInit /\ [][ProgressNext]_progressVars
    /\ OutboxFairness /\ PurgeFairness /\ SlotFairness
    /\ \A p \in Migrators : WF_migrationVars(focus = "migrations" /\ MigratorStep(p))

\* Every container that boots starts in the end (AllStart), however often the
\* one that holds the migration lock dies (runMigrations).
ContainersStart == focus = "migrations" => AllStart
=============================================================================
