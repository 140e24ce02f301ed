----------------------------- MODULE Tombstones -----------------------------
(***************************************************************************)
(* Hard deletion of trashed emails with a tombstone left behind            *)
(* (tombstone.service.ts, email-trash.service.ts, trash/purge.service.ts). *)
(*                                                                         *)
(* deleteEmailsWithTombstones is one transaction of four statements that   *)
(* evaluates the same WHERE twice, in the SELECT and in the DELETE.  At    *)
(* Postgres' default isolation each statement sees what is committed when  *)
(* it starts, so the statements are steps of their own here.  The last     *)
(* one is taken together with the commit.                                  *)
(***************************************************************************)
EXTENDS Integers, FiniteSets

CONSTANTS
    Emails,
    Purges,          \* concurrent callers: the sweep, API calls, the dashboard
    MaxFailures,     \* bound on transactions rolled back by an error or a crash
    OpsDuringPurge   \* may emails be trashed or restored between the statements?

ASSUME PurgeAssumption == MaxFailures \in Nat /\ OpsDuringPurge \in BOOLEAN

VARIABLES
    place,      \* "live", "recent" or "old" in the trash, or "gone"
    bytes,      \* emails whose attachment bytes are stored
    tombs,      \* email_tombstones, committed
    swept,      \* tombstones removed by retention (history)
    txn,        \* the open transactions
    failures

purgeVars == <<place, bytes, tombs, swept, txn, failures>>

Trashed == {"recent", "old"}

\* The WHERE of a caller: which emails (one id, a key's, all), and whether
\* deleted_at must be before the retention cutoff.
Where == [emails : SUBSET Emails, old : BOOLEAN]
Idle == [pc |-> "idle", where |-> [emails |-> {}, old |-> FALSE], ids |-> {}]
Txn == [pc : {"idle", "selected", "inserted", "dropped"}, where : Where,
        ids : SUBSET Emails]

PurgeInit ==
    /\ place = [e \in Emails |-> "live"]
    /\ bytes = Emails
    /\ tombs = {}
    /\ swept = {}
    /\ txn = [p \in Purges |-> Idle]
    /\ failures = 0

Matches(where) ==
    {e \in where.emails : place[e] = "old" \/ (place[e] = "recent" /\ ~where.old)}

\* The wheres of permanentDeleteEmail, emptyEmailsTrash and runTrashPurge.
Wheres == {[emails |-> {e}, old |-> FALSE] : e \in Emails} \cup
          {[emails |-> Emails, old |-> FALSE], [emails |-> Emails, old |-> TRUE]}

\* The snapshot; a transaction that finds nothing ends at once.
SelectRows(p, where) ==
    /\ txn[p].pc = "idle"
    /\ Matches(where) # {}
    /\ txn' = [txn EXCEPT ![p] = [pc |-> "selected", where |-> where,
                                  ids |-> Matches(where)]]
    /\ UNCHANGED <<place, bytes, tombs, swept, failures>>

\* Tombstones inserted by other transactions and not committed yet.
Uncommitted(p) ==
    UNION {txn[q].ids : q \in {q \in Purges \ {p} : txn[q].pc \in {"inserted", "dropped"}}}

\* Mutant: the tombstones are committed on their own.
InsertOutsideTransaction(p) ==
    /\ txn[p].pc = "selected"
    /\ txn[p].ids \cap Uncommitted(p) = {}
    /\ txn' = [txn EXCEPT ![p] = IF txn[p].ids \cap tombs = {}
                                 THEN [@ EXCEPT !.pc = "inserted"] ELSE Idle]
    /\ tombs' = tombs \cup txn[p].ids
    /\ UNCHANGED <<place, bytes, swept, failures>>

\* The id is the primary key: an insert waits for another transaction that
\* inserted it, and fails, with the whole transaction, once it is committed.
InsertTombstones(p) ==
    /\ txn[p].pc = "selected"
    /\ txn[p].ids \cap Uncommitted(p) = {}
    /\ txn' = [txn EXCEPT ![p] = IF txn[p].ids \cap tombs = {}
                                 THEN [@ EXCEPT !.pc = "inserted"] ELSE Idle]
    /\ UNCHANGED <<place, bytes, tombs, swept, failures>>

DropAttachmentBytes(p) ==
    /\ txn[p].pc = "inserted"
    /\ txn' = [txn EXCEPT ![p].pc = "dropped"]
    /\ UNCHANGED <<place, bytes, tombs, swept, failures>>

\* Mutant: the delete forgets the retention cutoff of its WHERE.
DeleteTrashedRows(p) ==
    /\ txn[p].pc = "dropped"
    /\ LET hit == {e \in txn[p].where.emails : place[e] \in Trashed} IN
          /\ place' = [e \in Emails |-> IF e \in hit THEN "gone" ELSE place[e]]
          /\ bytes' = bytes \ (txn[p].ids \cup hit)
    /\ tombs' = tombs \cup txn[p].ids
    /\ txn' = [txn EXCEPT ![p] = Idle]
    /\ UNCHANGED <<swept, failures>>

\* The DELETE looks at its WHERE again, then everything commits.
DeleteRows(p) ==
    /\ txn[p].pc = "dropped"
    /\ place' = [e \in Emails |->
                   IF e \in Matches(txn[p].where) THEN "gone" ELSE place[e]]
    /\ bytes' = bytes \ (txn[p].ids \cup Matches(txn[p].where))
    /\ tombs' = tombs \cup txn[p].ids
    /\ txn' = [txn EXCEPT ![p] = Idle]
    /\ UNCHANGED <<swept, failures>>

Rollback(p) ==
    /\ txn[p].pc # "idle"
    /\ failures < MaxFailures
    /\ failures' = failures + 1
    /\ txn' = [txn EXCEPT ![p] = Idle]
    /\ UNCHANGED <<place, bytes, tombs, swept>>

MayMove == OpsDuringPurge \/ \A p \in Purges : txn[p].pc = "idle"

Trash(e) ==
    /\ MayMove
    /\ place[e] = "live"
    /\ place' = [place EXCEPT ![e] = "recent"]
    /\ UNCHANGED <<bytes, tombs, swept, txn, failures>>

Restore(e) ==
    /\ MayMove
    /\ place[e] \in Trashed
    /\ place' = [place EXCEPT ![e] = "live"]
    /\ UNCHANGED <<bytes, tombs, swept, txn, failures>>

\* The retention cutoff passes the email's deleted_at.  The cutoff of a sweep
\* is read when the sweep starts, so this is never seen inside one.
GrowOld(e) ==
    /\ place[e] = "recent"
    /\ \A p \in Purges : txn[p].pc # "idle" => ~txn[p].where.old
    /\ place' = [place EXCEPT ![e] = "old"]
    /\ UNCHANGED <<bytes, tombs, swept, txn, failures>>

PurgeOldTombstones ==
    \E S \in SUBSET tombs :
        /\ S # {}
        /\ tombs' = tombs \ S
        /\ swept' = swept \cup S
        /\ UNCHANGED <<place, bytes, txn, failures>>

PurgeStep(p) ==
    \/ \E where \in Wheres : SelectRows(p, where)
    \/ InsertTombstones(p) \/ DropAttachmentBytes(p) \/ DeleteRows(p)
    \/ Rollback(p)

PurgeNext ==
    \/ \E p \in Purges : PurgeStep(p)
    \/ \E e \in Emails : Trash(e) \/ Restore(e) \/ GrowOld(e)
    \/ PurgeOldTombstones

PurgeSpec == PurgeInit /\ [][PurgeNext]_purgeVars

\* A transaction goes on, and the sweep runs every six hours.  A user may
\* restore and trash an email for ever, and retention may come late.
PurgeFairness ==
    \A p \in Purges :
        /\ WF_purgeVars(DropAttachmentBytes(p) \/ DeleteRows(p))
        /\ SF_purgeVars(InsertTombstones(p))
        /\ SF_purgeVars(SelectRows(p, [emails |-> Emails, old |-> TRUE]))

FairPurgeSpec == PurgeSpec /\ PurgeFairness

-----------------------------------------------------------------------------
(* Properties.                                                             *)

\* The inductive strengthening: while a transaction is open, what its WHERE
\* matches is in its snapshot, and a snapshot row only stops matching by being
\* deleted.
SnapshotStands ==
    \A p \in Purges : txn[p].pc # "idle" =>
        /\ Matches(txn[p].where) \subseteq txn[p].ids
        /\ \A e \in txn[p].ids : e \in Matches(txn[p].where) \/ place[e] = "gone"

\* Emails, transactions and tombstones keep their types; a transaction is open
\* only while it has rows to delete (an insert of no rows is an error).
PurgeTypeOK ==
    /\ place \in [Emails -> {"live", "gone"} \cup Trashed]
    /\ bytes \subseteq Emails
    /\ tombs \subseteq Emails
    /\ swept \subseteq Emails
    /\ txn \in [Purges -> Txn]
    /\ \A p \in Purges : txn[p].pc # "idle" <=> txn[p].ids # {}
    /\ failures \in Nat

\* "Hard-deleting an email writes a snapshot before it actually deletes the
\* row": every email that is gone has, or had, its tombstone.
GoneHasTombstone ==
    \A e \in Emails : place[e] = "gone" => e \in tombs \cup swept

\* "A partial failure can never leave orphaned tombstones or
\* undeleted-but-tombstoned emails": a tombstone is of an email that is gone.
TombstonedIsGone ==
    \A e \in tombs : place[e] = "gone"

\* An email that is not gone keeps its attachment bytes, whatever purge of it
\* failed half way.
BytesKept ==
    \A e \in Emails : place[e] # "gone" => e \in bytes

\* A purge is all or nothing: of tombstone, attachment bytes and row, none is
\* written or removed without the others, whatever purges overlap or fail.
PurgeIsAtomic ==
    PurgeTypeOK /\ GoneHasTombstone /\ TombstonedIsGone /\ BytesKept

\* An email past the trash retention is purged in the end, unless it is
\* restored first: concurrent purges of it never block each other for good.
OldIsPurged ==
    \A e \in Emails : place[e] = "old" ~> place[e] \in {"gone", "live"}
=============================================================================
