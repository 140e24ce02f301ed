-------------------------- MODULE Database_proofs ---------------------------
(***************************************************************************)
(* Proofs about what rests on the database's transactions and locks: the   *)
(* tombstone transactions, for any emails, any number of concurrent purges *)
(* and any number of rolled-back ones; and the migrations that containers  *)
(* run as they start, for any number of containers, any journals and any   *)
(* number of runs that die, as long as none dies within the baseline (the  *)
(* run baseline_crash shows what that would do).                           *)
(***************************************************************************)
EXTENDS Tombstones, Migrations, TLAPS

(***************************************************************************)
(* Trash and tombstones.                                                   *)
(***************************************************************************)

\* The inductive invariant: with no email trashed or restored while a purge is
\* open, the two evaluations of its WHERE agree but for rows deleted meanwhile.
Kept ==
    PurgeTypeOK /\ SnapshotStands /\ TombstonedIsGone /\ GoneHasTombstone /\ BytesKept

\* Nothing is deleted at the start.
LEMMA InitKept == PurgeInit => Kept
  BY PurgeAssumption
  DEF PurgeInit, Kept, PurgeTypeOK, SnapshotStands, TombstonedIsGone, GoneHasTombstone, BytesKept,
      Trashed, Txn, Where, Idle

\* What a WHERE matches are trashed emails of its set.
LEMMA MatchesType ==
    ASSUME NEW where \in Where
    PROVE  /\ Matches(where) \subseteq Emails
           /\ \A e \in Matches(where) : place[e] # "gone"
  BY DEF Where, Matches

\* Every WHERE of a caller is one.
LEMMA WheresType == Wheres \subseteq Where
  <1>1. ASSUME NEW S \in SUBSET Emails, NEW b \in BOOLEAN
        PROVE  [emails |-> S, old |-> b] \in Where
    BY DEF Where
  <1>2. \A e \in Emails : {e} \in SUBSET Emails
    OBVIOUS
  <1>3. \A e \in Emails : [emails |-> {e}, old |-> FALSE] \in Where
    BY <1>1, <1>2
  <1>4. /\ [emails |-> Emails, old |-> FALSE] \in Where
        /\ [emails |-> Emails, old |-> TRUE] \in Where
    BY <1>1
  <1> QED BY <1>3, <1>4 DEF Wheres

\* Every statement of a purge keeps the invariant.
LEMMA PurgeKept ==
    ASSUME Kept, NEW p \in Purges, PurgeStep(p)
    PROVE  Kept'
  <1>t. /\ txn \in [Purges -> Txn] /\ place \in [Emails -> {"live", "gone"} \cup Trashed]
        /\ \A q \in Purges : /\ txn[q].where \in Where /\ txn[q].ids \subseteq Emails
                             /\ txn[q].pc # "idle" <=> txn[q].ids # {}
    BY DEF Kept, PurgeTypeOK, Txn
  <1>i. Idle \in Txn /\ Idle.pc = "idle" /\ Idle.ids = {}
    BY DEF Idle, Txn, Where
  <1>1. ASSUME NEW where \in Wheres, SelectRows(p, where)
        PROVE  Kept'
    <2> DEFINE t == [pc |-> "selected", where |-> where, ids |-> Matches(where)]
    <2>1. where \in Where
      BY WheresType
    <2>2. t \in Txn
      BY <2>1, MatchesType DEF Txn
    <2>3. /\ txn' = [txn EXCEPT ![p] = t] /\ Matches(where) # {}
          /\ UNCHANGED <<place, bytes, tombs, swept, failures>>
      BY <1>1 DEF SelectRows
    <2>4. t.pc = "selected" /\ t.where = where /\ t.ids = Matches(where)
      OBVIOUS
    <2> HIDE DEF t
    <2>5. PurgeTypeOK'
      BY <1>t, <2>2, <2>3, <2>4 DEF Kept, PurgeTypeOK
    <2>6. SnapshotStands'
      BY <1>t, <2>3, <2>4 DEF Kept, SnapshotStands, Matches
    <2> QED BY <2>3, <2>5, <2>6 DEF Kept, TombstonedIsGone, GoneHasTombstone, BytesKept
  <1>2. ASSUME NEW t \in Txn, txn' = [txn EXCEPT ![p] = t],
               t.pc # "idle" <=> t.ids # {},
               t.pc = "idle" \/ (txn[p].pc # "idle" /\ t.where = txn[p].where /\ t.ids = txn[p].ids),
               failures' \in Nat,
               UNCHANGED <<place, bytes, tombs, swept>>
        PROVE  Kept'
    <2>1. PurgeTypeOK'
      BY <1>t, <1>2 DEF Kept, PurgeTypeOK
    <2>2. SnapshotStands'
      BY <1>t, <1>2 DEF Kept, SnapshotStands, Matches
    <2> QED BY <1>2, <2>1, <2>2 DEF Kept, TombstonedIsGone, GoneHasTombstone, BytesKept
  <1>3. ASSUME NEW s \in {"inserted", "dropped"}
        PROVE  /\ [txn[p] EXCEPT !.pc = s] \in Txn
               /\ [txn[p] EXCEPT !.pc = s].pc = s
               /\ [txn[p] EXCEPT !.pc = s].where = txn[p].where
               /\ [txn[p] EXCEPT !.pc = s].ids = txn[p].ids
    BY <1>t DEF Txn
  <1>4. CASE InsertTombstones(p)
    <2> DEFINE t == IF txn[p].ids \cap tombs = {}
                    THEN [txn[p] EXCEPT !.pc = "inserted"] ELSE Idle
    <2>1. /\ txn[p].pc = "selected" /\ txn' = [txn EXCEPT ![p] = t]
          /\ UNCHANGED <<place, bytes, tombs, swept, failures>>
      BY <1>4 DEF InsertTombstones
    <2>2. /\ t \in Txn /\ (t.pc # "idle" <=> t.ids # {})
          /\ t.pc = "idle" \/ (txn[p].pc # "idle" /\ t.where = txn[p].where /\ t.ids = txn[p].ids)
      BY <1>t, <1>i, <1>3, <2>1
    <2> HIDE DEF t
    <2> QED BY <1>2, <2>1, <2>2 DEF Kept, PurgeTypeOK
  <1>5. CASE DropAttachmentBytes(p)
    <2> DEFINE t == [txn[p] EXCEPT !.pc = "dropped"]
    <2>1. /\ txn[p].pc = "inserted" /\ txn' = [txn EXCEPT ![p] = t]
          /\ UNCHANGED <<place, bytes, tombs, swept, failures>>
      BY <1>t, <1>5 DEF DropAttachmentBytes
    <2>2. /\ t \in Txn /\ (t.pc # "idle" <=> t.ids # {})
          /\ txn[p].pc # "idle" /\ t.where = txn[p].where /\ t.ids = txn[p].ids
      BY <1>t, <1>3, <2>1
    <2> HIDE DEF t
    <2> QED BY <1>2, <2>1, <2>2 DEF Kept, PurgeTypeOK
  <1>6. CASE DeleteRows(p)
    <2> DEFINE M == Matches(txn[p].where)
    <2>1. /\ txn[p].pc = "dropped"
          /\ place' = [e \in Emails |-> IF e \in M THEN "gone" ELSE place[e]]
          /\ bytes' = bytes \ (txn[p].ids \cup M)
          /\ tombs' = tombs \cup txn[p].ids
          /\ txn' = [txn EXCEPT ![p] = Idle]
          /\ UNCHANGED <<swept, failures>>
      BY <1>6 DEF DeleteRows
    <2>2. M \subseteq txn[p].ids /\ \A e \in txn[p].ids : e \in M \/ place[e] = "gone"
      BY <2>1 DEF Kept, SnapshotStands
    <2> HIDE DEF M
    <2>3. \A e \in Emails : place'[e] = "gone" <=> (e \in M \/ place[e] = "gone")
      BY <2>1
    <2>4. PurgeTypeOK'
      BY <1>t, <1>i, <2>1 DEF Kept, PurgeTypeOK
    <2>5. ASSUME NEW q \in Purges, txn'[q].pc # "idle"
          PROVE  /\ txn'[q] = txn[q] /\ txn[q].pc # "idle"
                 /\ \A e \in Emails : e \in Matches(txn[q].where)' <=>
                                      (e \in Matches(txn[q].where) /\ e \notin M)
      <3>1. txn'[q] = txn[q] /\ txn[q].pc # "idle"
        BY <1>t, <1>i, <2>1, <2>5
      <3>2. \A e \in Emails : IF e \in M THEN place'[e] = "gone" ELSE place'[e] = place[e]
        BY <2>1
      <3>3. Matches(txn[q].where)' = {e \in txn'[q].where.emails :
               place'[e] = "old" \/ (place'[e] = "recent" /\ ~txn'[q].where.old)}
        BY DEF Matches
      <3>4. txn[q].where.emails \subseteq Emails
        BY <1>t DEF Where
      <3> QED BY <3>1, <3>2, <3>3, <3>4 DEF Matches
    <2>6. SnapshotStands'
      <3> SUFFICES ASSUME NEW q \in Purges, txn'[q].pc # "idle"
                   PROVE  /\ Matches(txn[q].where)' \subseteq txn'[q].ids
                          /\ \A e \in txn'[q].ids :
                               e \in Matches(txn[q].where)' \/ place'[e] = "gone"
        BY DEF SnapshotStands
      <3>1. /\ Matches(txn[q].where) \subseteq txn[q].ids
            /\ \A e \in txn[q].ids : e \in Matches(txn[q].where) \/ place[e] = "gone"
        BY <2>5 DEF Kept, SnapshotStands
      <3>2. Matches(txn[q].where)' \subseteq Emails
        <4>1. txn'[q].where.emails \subseteq Emails
          BY <1>t, <2>5 DEF Where
        <4> QED BY <4>1 DEF Matches
      <3> QED BY <1>t, <2>3, <2>5, <3>1, <3>2
    <2>7. TombstonedIsGone'
      BY <1>t, <2>1, <2>2, <2>3 DEF Kept, PurgeTypeOK, TombstonedIsGone
    <2>8. GoneHasTombstone'
      BY <2>1, <2>2, <2>3 DEF Kept, GoneHasTombstone
    <2>9. BytesKept'
      BY <2>1, <2>2, <2>3 DEF Kept, BytesKept
    <2> QED BY <2>4, <2>6, <2>7, <2>8, <2>9 DEF Kept
  <1>7. CASE Rollback(p)
    <2>1. failures' \in Nat
      BY <1>7 DEF Kept, PurgeTypeOK, Rollback
    <2> QED BY <1>i, <1>2, <1>7, <2>1 DEF Rollback
  <1> QED BY <1>1, <1>4, <1>5, <1>6, <1>7 DEF PurgeStep

\* So does every other step, when emails do not move under an open purge.
LEMMA NextKept ==
    ASSUME ~OpsDuringPurge, Kept, [PurgeNext]_purgeVars
    PROVE  Kept'
  <1>1. ASSUME NEW e \in Emails, NEW s \in {"live", "recent"}, NEW r \in {"live"} \cup Trashed,
               MayMove, place[e] = r, place' = [place EXCEPT ![e] = s],
               UNCHANGED <<bytes, tombs, swept, txn, failures>>
        PROVE  Kept'
    <2>1. \A p \in Purges : txn'[p].pc = "idle"
      BY <1>1 DEF MayMove
    <2>2. PurgeTypeOK'
      BY <1>1 DEF Kept, PurgeTypeOK, Trashed
    <2>3. SnapshotStands'
      BY <2>1 DEF SnapshotStands
    <2>4. \A x \in Emails : place'[x] = "gone" <=> place[x] = "gone"
      BY <1>1 DEF Kept, PurgeTypeOK, Trashed
    <2>5. TombstonedIsGone' /\ GoneHasTombstone' /\ BytesKept'
      BY <1>1, <2>4 DEF Kept, PurgeTypeOK, TombstonedIsGone, GoneHasTombstone, BytesKept
    <2> QED BY <2>2, <2>3, <2>5 DEF Kept
  <1>2. ASSUME NEW e \in Emails, Trash(e) \/ Restore(e)
        PROVE  Kept'
    BY <1>1, <1>2 DEF Trash, Restore
  <1>3. ASSUME NEW e \in Emails, GrowOld(e)
        PROVE  Kept'
    <2>1. PurgeTypeOK'
      BY <1>3 DEF GrowOld, Kept, PurgeTypeOK, Trashed
    <2>2. \A x \in Emails : /\ place'[x] = "gone" <=> place[x] = "gone"
                            /\ x # e => place'[x] = place[x]
      BY <1>3 DEF GrowOld, Kept, PurgeTypeOK
    <2>3. place[e] = "recent" /\ place'[e] = "old"
      BY <1>3 DEF GrowOld, Kept, PurgeTypeOK
    <2>4. ASSUME NEW p \in Purges, txn[p].pc # "idle"
          PROVE  Matches(txn[p].where)' = Matches(txn[p].where)
      <3>1. ~txn[p].where.old /\ txn' = txn
        BY <1>3, <2>4 DEF GrowOld
      <3>2. txn[p].where.emails \subseteq Emails
        BY DEF Kept, PurgeTypeOK, Txn, Where
      <3> QED BY <2>2, <2>3, <3>1, <3>2 DEF Matches
    <2>5. SnapshotStands'
      <3>1. txn' = txn /\ \A p \in Purges : txn[p].ids \subseteq Emails
        BY <1>3 DEF GrowOld, Kept, PurgeTypeOK, Txn
      <3> QED BY <2>2, <2>4, <3>1 DEF Kept, SnapshotStands
    <2>6. TombstonedIsGone' /\ GoneHasTombstone' /\ BytesKept'
      BY <1>3, <2>2 DEF GrowOld, Kept, PurgeTypeOK, TombstonedIsGone, GoneHasTombstone, BytesKept
    <2> QED BY <2>1, <2>5, <2>6 DEF Kept
  <1>4. CASE PurgeOldTombstones
    <2>1. PurgeTypeOK'
      BY <1>4 DEF PurgeOldTombstones, Kept, PurgeTypeOK
    <2>2. SnapshotStands'
      BY <1>4 DEF PurgeOldTombstones, Kept, SnapshotStands, Matches
    <2>3. TombstonedIsGone' /\ GoneHasTombstone' /\ BytesKept'
      BY <1>4 DEF PurgeOldTombstones, Kept, TombstonedIsGone, GoneHasTombstone, BytesKept
    <2> QED BY <2>1, <2>2, <2>3 DEF Kept
  <1>5. CASE UNCHANGED purgeVars
    BY <1>5 DEF purgeVars, Kept, PurgeTypeOK, SnapshotStands, Matches, TombstonedIsGone, GoneHasTombstone, BytesKept
  <1> QED BY <1>2, <1>3, <1>4, <1>5, PurgeKept DEF PurgeNext

\* A tombstone is never of an email that is still there: whatever purges of the
\* same emails run at once and whichever of them roll back, as long as no email
\* is trashed or restored between the statements of one.
THEOREM NoOrphanTombstone == ASSUME ~OpsDuringPurge PROVE PurgeSpec => []TombstonedIsGone
  <1>1. Kept /\ [PurgeNext]_purgeVars => Kept'
    BY NextKept
  <1>2. Kept => TombstonedIsGone
    BY DEF Kept
  <1> QED BY InitKept, <1>1, <1>2, PTL DEF PurgeSpec

\* No email is deleted without its tombstone, under the same assumption.
THEOREM NoLostTombstone == ASSUME ~OpsDuringPurge PROVE PurgeSpec => []GoneHasTombstone
  <1>1. Kept /\ [PurgeNext]_purgeVars => Kept'
    BY NextKept
  <1>2. Kept => GoneHasTombstone
    BY DEF Kept
  <1> QED BY InitKept, <1>1, <1>2, PTL DEF PurgeSpec

\* A purge is all or nothing, for any emails and any number of purges at once,
\* failed ones included: types, tombstones, rows and bytes agree.
THEOREM AtomicPurge == ASSUME ~OpsDuringPurge PROVE PurgeSpec => []PurgeIsAtomic
  <1>1. Kept /\ [PurgeNext]_purgeVars => Kept'
    BY NextKept
  <1>2. Kept => PurgeIsAtomic
    BY DEF Kept, PurgeIsAtomic
  <1> QED BY InitKept, <1>1, <1>2, PTL DEF PurgeSpec

(***************************************************************************)
(* Schema migrations.                                                      *)
(***************************************************************************)

Holding == {"locked", "baseline", "apply"}

MigrationTypeOK ==
    /\ deploy \in Deploys
    /\ migrator \in [Migrators -> [at : {"start", "done"} \cup Holding, seen : SUBSET Nat]]
    /\ lockedBy \in Migrators \cup {Free}
    /\ ddl \in [AllMigrations -> Nat]
    /\ stops \in Nat

\* Under the lock there is one run, and what it has read is what is recorded.
OneMigrates ==
    \A p \in Migrators :
        /\ migrator[p].at \in Holding <=> lockedBy = p
        /\ migrator[p].at \in {"baseline", "apply"} => migrator[p].seen = recordedTags

\* The record is a prefix of the journal.
RecordIsPrefix == \E k \in Nat : recordedTags = 1..k

\* Without a legacy schema, the record tells what ran.
FreshIsRecorded ==
    deploy.legacy = 0 =>
        /\ schema = recordedTags
        /\ \A m \in AllMigrations : ddl[m] = IF m \in recordedTags THEN 1 ELSE 0
        /\ \A p \in Migrators : migrator[p].at # "baseline"

\* With one, nothing ever runs, and the record is empty or whole unless the
\* baseline is being written.
LegacyIsBaselined ==
    deploy.legacy > 0 =>
        /\ schema = 1..deploy.legacy
        /\ recordedTags \subseteq schema
        /\ \A m \in AllMigrations : ddl[m] = 0
        /\ (\A p \in Migrators : migrator[p].at # "baseline") => recordedTags \in {{}, schema}
        /\ \A p \in Migrators : migrator[p].at = "apply" => recordedTags = schema

DoneIsRecorded == \A p \in Migrators : migrator[p].at = "done" => Known(p) \subseteq recordedTags

\* The inductive invariant.
Migrated ==
    /\ MigrationTypeOK /\ OneMigrates /\ RecordIsPrefix
    /\ FreshIsRecorded /\ LegacyIsBaselined /\ DoneIsRecorded

\* What the deploy at hand is.
LEMMA DeployType ==
    ASSUME deploy \in Deploys
    PROVE  /\ deploy.journal \in [Migrators -> Nat] /\ deploy.legacy \in Nat
           /\ deploy.legacy > 0 => \A p \in Migrators : deploy.journal[p] = deploy.legacy
           /\ \A p \in Migrators : Known(p) = 1..deploy.journal[p]
           /\ \A p \in Migrators : Known(p) \subseteq AllMigrations
           /\ \A m \in AllMigrations : \E p \in Migrators : m \in Known(p)
  BY MigrationAssumption DEF Known, AllMigrations

\* The next migration after a prefix of the journal is the one that follows it.
LEMMA NextFollows ==
    ASSUME NEW p \in Migrators, NEW k \in Nat, deploy \in Deploys,
           migrator[p].seen = 1..k, ~(Known(p) \subseteq migrator[p].seen)
    PROVE  NextTag(p) = k + 1 /\ NextTag(p) \in Known(p)
  <1> DEFINE S == Known(p) \ migrator[p].seen
  <1>1. Known(p) = 1..deploy.journal[p] /\ deploy.journal[p] \in Nat
    BY DeployType
  <1>2. PICK n \in S : TRUE
    OBVIOUS
  <1>3. n \in Nat /\ n > k /\ n <= deploy.journal[p]
    BY <1>1, <1>2
  <1>4. k + 1 \in S /\ \A m \in S : m \in Nat /\ k + 1 <= m
    BY <1>1, <1>3
  <1> HIDE DEF S
  <1>5. \A x \in S : (\A m \in S : x <= m) => x = k + 1
    BY <1>4
  <1>6. NextTag(p) = CHOOSE m \in S : \A j \in S : m <= j
    BY DEF NextTag, S
  <1>7. NextTag(p) \in S /\ \A j \in S : NextTag(p) <= j
    BY <1>4, <1>6
  <1> QED BY <1>5, <1>7 DEF S

\* A prefix and its next element are a prefix.
LEMMA PrefixGrows == \A k \in Nat : (1..k) \cup {k + 1} = 1..(k + 1)
  OBVIOUS

\* Nothing is recorded at the start, and only a legacy schema is there.
LEMMA MigratedAtFirst == MigrationInit => Migrated
  <1> SUFFICES ASSUME MigrationInit PROVE Migrated
    OBVIOUS
  <1> USE DEF MigrationInit
  <1>1. MigrationTypeOK
    BY DEF MigrationTypeOK, Holding, Free
  <1>2. OneMigrates
    BY MigrationAssumption DEF OneMigrates, Holding, Free
  <1>3. RecordIsPrefix
    <2>1. 1..0 = {}
      OBVIOUS
    <2> QED BY <2>1 DEF RecordIsPrefix
  <1>4. FreshIsRecorded
    BY DEF FreshIsRecorded
  <1>5. LegacyIsBaselined
    BY DEF LegacyIsBaselined
  <1>6. DoneIsRecorded
    BY DEF DoneIsRecorded
  <1> QED BY <1>1, <1>2, <1>3, <1>4, <1>5, <1>6 DEF Migrated

\* Every step of a run keeps the invariant.
LEMMA StepMigrated ==
    ASSUME ~BaselineStops, Migrated, NEW p \in Migrators, MigratorStep(p) \/ MigrationStops(p)
    PROVE  Migrated'
  <1> USE DEF Migrated
  <1>t. /\ deploy \in Deploys /\ ddl \in [AllMigrations -> Nat] /\ stops \in Nat
        /\ migrator \in [Migrators -> [at : {"start", "done"} \cup Holding, seen : SUBSET Nat]]
        /\ lockedBy \in Migrators \cup {Free} /\ p # Free
    BY MigrationAssumption DEF MigrationTypeOK, Free
  <1>d. /\ deploy.journal \in [Migrators -> Nat] /\ deploy.legacy \in Nat
        /\ deploy.legacy > 0 => \A q \in Migrators : Known(q) = 1..deploy.legacy
        /\ \A q \in Migrators : Known(q) = 1..deploy.journal[q]
        /\ \A q \in Migrators : Known(q) \subseteq AllMigrations
    BY <1>t, DeployType
  <1>r. PICK k \in Nat : recordedTags = 1..k
    BY DEF RecordIsPrefix
  <1>s. recordedTags \subseteq Nat
    BY <1>r
  \* A step that changes only this run and the lock.
  <1>m. ASSUME NEW x \in [at : {"start", "done"} \cup Holding, seen : SUBSET Nat],
               NEW l \in Migrators \cup {Free},
               migrator' = [migrator EXCEPT ![p] = x], lockedBy' = l, stops' \in Nat,
               UNCHANGED <<recordedTags, schema, ddl, deploy>>,
               x.at \in Holding <=> l = p,
               \A q \in Migrators : q # p => (l = q <=> lockedBy = q),
               x.at \in {"baseline", "apply"} => x.seen = recordedTags,
               x.at = "baseline" => deploy.legacy > 0,
               migrator[p].at = "baseline" => x.at = "baseline" \/ recordedTags = schema,
               x.at = "apply" /\ deploy.legacy > 0 => recordedTags = schema,
               x.at = "done" => Known(p) \subseteq recordedTags
        PROVE  Migrated'
    <2>1. /\ \A q \in Migrators : migrator'[q] = IF q = p THEN x ELSE migrator[q]
          /\ deploy' = deploy /\ AllMigrations' = AllMigrations
          /\ \A q \in Migrators : Known(q)' = Known(q)
      BY <1>t, <1>m DEF AllMigrations, Known
    <2>2. MigrationTypeOK'
      BY <1>t, <1>m, <2>1 DEF MigrationTypeOK
    <2>3. OneMigrates'
      BY <1>m, <2>1 DEF OneMigrates
    <2>4. RecordIsPrefix'
      BY <1>m DEF RecordIsPrefix
    <2>5. FreshIsRecorded'
      BY <1>d, <1>m, <2>1 DEF FreshIsRecorded
    <2>6. LegacyIsBaselined'
      BY <1>m, <2>1 DEF LegacyIsBaselined
    <2>7. DoneIsRecorded'
      BY <1>m, <2>1 DEF DoneIsRecorded
    <2> QED BY <2>2, <2>3, <2>4, <2>5, <2>6, <2>7
  <1>1. CASE AcquireLock(p)
    <2> DEFINE x == [migrator[p] EXCEPT !.at = "locked"]
    <2>1. x \in [at : {"start", "done"} \cup Holding, seen : SUBSET Nat] /\ x.at = "locked"
      BY <1>t DEF Holding
    <2>2. /\ migrator' = [migrator EXCEPT ![p] = x] /\ lockedBy = Free /\ lockedBy' = p
          /\ migrator[p].at = "start"
          /\ UNCHANGED <<recordedTags, schema, ddl, deploy, stops>>
      BY <1>1 DEF AcquireLock, MigratorTo
    <2>3. \A q \in Migrators : q # Free
      BY MigrationAssumption DEF Free
    <2> HIDE DEF x
    <2> QED BY <1>m, <1>t, <2>1, <2>2, <2>3 DEF Holding
  <1>2. CASE ReadRecorded(p)
    <2> DEFINE x == [at |-> IF recordedTags = {} /\ schema # {} THEN "baseline" ELSE "apply",
                     seen |-> recordedTags]
    <2>1. /\ migrator' = [migrator EXCEPT ![p] = x] /\ migrator[p].at = "locked"
          /\ UNCHANGED <<lockedBy, recordedTags, schema, ddl, deploy, stops>>
      BY <1>2 DEF ReadRecorded
    <2>2. /\ x \in [at : {"start", "done"} \cup Holding, seen : SUBSET Nat]
          /\ x.at \in {"baseline", "apply"} /\ x.seen = recordedTags
          /\ x.at = "baseline" <=> recordedTags = {} /\ schema # {}
      BY <1>s DEF Holding
    <2>3. lockedBy = p /\ \A q \in Migrators : migrator[q].at = "baseline" => q = p
      BY <2>1 DEF OneMigrates, Holding
    <2>4. x.at = "baseline" => deploy.legacy > 0
      BY <1>d, <2>2 DEF FreshIsRecorded
    <2>5. x.at = "apply" /\ deploy.legacy > 0 => recordedTags = schema
      BY <2>1, <2>2, <2>3 DEF LegacyIsBaselined
    <2> HIDE DEF x
    <2> QED BY <1>m, <1>t, <2>1, <2>2, <2>3, <2>4, <2>5 DEF Holding
  \* A step that records the next migration.
  <1>n. ASSUME migrator[p].at \in {"baseline", "apply"}, ~(Known(p) \subseteq migrator[p].seen),
               migrator' = [migrator EXCEPT ![p].seen = @ \cup {NextTag(p)}],
               recordedTags' = recordedTags \cup {NextTag(p)},
               UNCHANGED <<lockedBy, deploy, stops>>,
               ddl' \in [AllMigrations -> Nat]
        PROVE  /\ MigrationTypeOK' /\ OneMigrates' /\ RecordIsPrefix' /\ DoneIsRecorded'
               /\ NextTag(p) = k + 1 /\ NextTag(p) \in Known(p)
               /\ \A q \in Migrators : migrator'[q].at = migrator[q].at
               /\ AllMigrations' = AllMigrations
    <2>1. migrator[p].seen = 1..k
      BY <1>n, <1>r DEF OneMigrates
    <2>2. NextTag(p) = k + 1 /\ NextTag(p) \in Known(p)
      BY <1>n, <1>t, <2>1, NextFollows
    <2>3. /\ \A q \in Migrators : migrator'[q] =
                IF q = p THEN [migrator[p] EXCEPT !.seen = (1..k) \cup {k + 1}] ELSE migrator[q]
          /\ AllMigrations' = AllMigrations
          /\ \A q \in Migrators : Known(q)' = Known(q)
      BY <1>n, <1>t, <2>1, <2>2 DEF AllMigrations, Known
    <2>4. /\ recordedTags' = (1..k) \cup {k + 1}
          /\ \A q \in Migrators : migrator'[q].at = migrator[q].at
          /\ migrator'[p].seen = (1..k) \cup {k + 1}
      BY <1>n, <1>r, <1>t, <2>2, <2>3
    <2>5. RecordIsPrefix'
      <3>1. recordedTags' = 1..(k + 1) /\ k + 1 \in Nat
        BY <1>r, <2>4, PrefixGrows
      <3> QED BY <3>1 DEF RecordIsPrefix
    <2>6. MigrationTypeOK'
      <3>1. (1..k) \cup {k + 1} \in SUBSET Nat
        OBVIOUS
      <3>2. [migrator[p] EXCEPT !.seen = (1..k) \cup {k + 1}]
              \in [at : {"start", "done"} \cup Holding, seen : SUBSET Nat]
        BY <1>t, <3>1
      <3>3. migrator' \in [Migrators -> [at : {"start", "done"} \cup Holding, seen : SUBSET Nat]]
        BY <1>n, <1>t, <2>3, <3>2
      <3> QED BY <1>n, <1>t, <2>3, <3>3 DEF MigrationTypeOK
    <2>7. OneMigrates'
      BY <1>n, <2>3, <2>4 DEF OneMigrates, Holding
    <2>8. DoneIsRecorded'
      BY <1>n, <2>3, <2>4 DEF DoneIsRecorded
    <2> QED BY <2>2, <2>3, <2>4, <2>5, <2>6, <2>7, <2>8
  <1>3. CASE Baseline(p) /\ Known(p) \subseteq migrator[p].seen
    <2> DEFINE x == [migrator[p] EXCEPT !.at = "apply"]
    <2>1. /\ migrator' = [migrator EXCEPT ![p] = x] /\ migrator[p].at = "baseline"
          /\ UNCHANGED <<lockedBy, recordedTags, schema, ddl, deploy, stops>>
      BY <1>3 DEF Baseline, MigratorTo
    <2>2. /\ x \in [at : {"start", "done"} \cup Holding, seen : SUBSET Nat]
          /\ x.at = "apply" /\ x.seen = migrator[p].seen
      BY <1>t DEF Holding
    <2>3. migrator[p].seen = recordedTags /\ lockedBy = p
      BY <2>1 DEF OneMigrates, Holding
    <2>4. deploy.legacy > 0
      BY <1>d, <2>1 DEF FreshIsRecorded
    <2>5. recordedTags = schema
      BY <1>3, <1>d, <2>3, <2>4 DEF LegacyIsBaselined
    <2> HIDE DEF x
    <2> QED BY <1>m, <1>t, <2>1, <2>2, <2>3, <2>4, <2>5 DEF Holding
  <1>4. CASE Baseline(p) /\ ~(Known(p) \subseteq migrator[p].seen)
    <2>1. /\ migrator[p].at = "baseline"
          /\ migrator' = [migrator EXCEPT ![p].seen = @ \cup {NextTag(p)}]
          /\ recordedTags' = recordedTags \cup {NextTag(p)}
          /\ UNCHANGED <<lockedBy, schema, ddl, deploy, stops>>
      BY <1>4 DEF Baseline
    <2>2. /\ MigrationTypeOK' /\ OneMigrates' /\ RecordIsPrefix' /\ DoneIsRecorded'
          /\ NextTag(p) \in Known(p)
          /\ \A q \in Migrators : migrator'[q].at = migrator[q].at
          /\ AllMigrations' = AllMigrations
      BY <1>4, <1>n, <1>t, <2>1
    <2>3. deploy.legacy > 0 /\ migrator'[p].at = "baseline"
      BY <1>d, <2>1, <2>2 DEF FreshIsRecorded
    <2>4. \A q \in Migrators : migrator'[q].at # "apply"
      BY <2>1, <2>2 DEF OneMigrates, Holding
    <2>5. LegacyIsBaselined'
      BY <1>d, <2>1, <2>2, <2>3, <2>4 DEF LegacyIsBaselined
    <2>6. FreshIsRecorded'
      BY <1>d, <2>1, <2>3 DEF FreshIsRecorded
    <2> QED BY <2>2, <2>5, <2>6
  <1>5. CASE ApplyMigration(p)
    <2>1. /\ migrator[p].at = "apply" /\ ~(Known(p) \subseteq migrator[p].seen)
          /\ schema' = schema \cup {NextTag(p)}
          /\ ddl' = [ddl EXCEPT ![NextTag(p)] = @ + 1]
          /\ migrator' = [migrator EXCEPT ![p].seen = @ \cup {NextTag(p)}]
          /\ recordedTags' = recordedTags \cup {NextTag(p)}
          /\ UNCHANGED <<lockedBy, deploy, stops>>
      BY <1>5 DEF ApplyMigration
    <2>2. ddl' \in [AllMigrations -> Nat]
      <3>1. NextTag(p) \in AllMigrations
        BY <1>d, <1>r, <1>t, <2>1, NextFollows DEF OneMigrates
      <3> HIDE DEF Migrated
      <3> QED BY <1>t, <2>1, <3>1
    <2>3. /\ MigrationTypeOK' /\ OneMigrates' /\ RecordIsPrefix' /\ DoneIsRecorded'
          /\ NextTag(p) = k + 1 /\ NextTag(p) \in Known(p)
          /\ \A q \in Migrators : migrator'[q].at = migrator[q].at
          /\ AllMigrations' = AllMigrations
      BY <1>n, <2>1, <2>2
    <2>4. migrator[p].seen = recordedTags
      BY <2>1 DEF OneMigrates
    <2>5. deploy.legacy = 0
      <3>1. deploy.legacy > 0 => recordedTags = 1..deploy.legacy
        BY <2>1 DEF LegacyIsBaselined
      <3> QED BY <1>d, <2>1, <2>4, <3>1
    <2>6. NextTag(p) \in AllMigrations /\ NextTag(p) \notin recordedTags
      BY <1>d, <1>r, <2>3
    <2>7. FreshIsRecorded'
      <3> HIDE DEF Migrated
      <3>1. /\ schema = recordedTags
            /\ \A m \in AllMigrations : ddl[m] = IF m \in recordedTags THEN 1 ELSE 0
            /\ \A q \in Migrators : migrator[q].at # "baseline"
        BY <2>5 DEF FreshIsRecorded, Migrated
      <3>2. \A m \in AllMigrations : ddl'[m] = IF m \in recordedTags' THEN 1 ELSE 0
        BY <1>t, <2>1, <2>6, <3>1
      <3> QED BY <2>1, <2>3, <3>1, <3>2 DEF FreshIsRecorded
    <2>8. LegacyIsBaselined'
      BY <2>1, <2>5 DEF LegacyIsBaselined
    <2> QED BY <2>3, <2>7, <2>8
  <1>6. CASE MigrationsDone(p)
    <2> DEFINE x == [migrator[p] EXCEPT !.at = "done"]
    <2>1. /\ migrator' = [migrator EXCEPT ![p] = x] /\ migrator[p].at = "apply"
          /\ Known(p) \subseteq migrator[p].seen /\ lockedBy' = Free
          /\ UNCHANGED <<recordedTags, schema, ddl, deploy, stops>>
      BY <1>6 DEF MigrationsDone, MigratorTo
    <2>2. x \in [at : {"start", "done"} \cup Holding, seen : SUBSET Nat] /\ x.at = "done"
      BY <1>t
    <2>3. migrator[p].seen = recordedTags /\ lockedBy = p /\ \A q \in Migrators : q # Free
      BY <2>1, MigrationAssumption DEF OneMigrates, Holding, Free
    <2> HIDE DEF x
    <2> QED BY <1>m, <1>t, <2>1, <2>2, <2>3 DEF Holding
  <1>7. CASE MigrationStops(p)
    <2> DEFINE x == [at |-> "start", seen |-> {}]
    <2>1. /\ migrator' = [migrator EXCEPT ![p] = x]
          /\ migrator[p].at \in Holding /\ migrator[p].at # "baseline"
          /\ stops' = stops + 1 /\ lockedBy' = IF lockedBy = p THEN Free ELSE lockedBy
          /\ UNCHANGED <<recordedTags, schema, ddl, deploy>>
      BY <1>7, <1>t DEF MigrationStops
    <2>2. x \in [at : {"start", "done"} \cup Holding, seen : SUBSET Nat] /\ x.at = "start"
      OBVIOUS
    <2>3. lockedBy = p /\ lockedBy' = Free /\ \A q \in Migrators : q # Free
      BY <2>1, MigrationAssumption DEF OneMigrates, Free
    <2>4. stops' \in Nat
      BY <1>t, <2>1
    <2> HIDE DEF x
    <2> QED BY <1>m, <1>t, <2>1, <2>2, <2>3, <2>4 DEF Holding
  <1> QED BY <1>1, <1>2, <1>3, <1>4, <1>5, <1>6, <1>7 DEF MigratorStep

\* No migration's statements run twice or over a schema that has their result,
\* and a container starts on the schema it expects: for every rolling deploy,
\* however the runs of the migrator overlap, die and start again.
THEOREM MigrationsAreSafe == ASSUME ~BaselineStops PROVE MigrationSpec => []SchemaIsMigrated
  <1>1. Migrated /\ [MigrationNext]_migrationVars => Migrated'
    <2> SUFFICES ASSUME Migrated, [MigrationNext]_migrationVars PROVE Migrated'
      OBVIOUS
    <2>1. CASE MigrationNext
      BY <2>1, StepMigrated DEF MigrationNext
    <2>2. CASE UNCHANGED migrationVars
      <3>1. /\ UNCHANGED <<migrator, lockedBy, recordedTags, schema, ddl, deploy, stops>>
            /\ AllMigrations' = AllMigrations
            /\ \A p \in Migrators : Known(p)' = Known(p)
        BY <2>2 DEF migrationVars, AllMigrations, Known
      <3>2. MigrationTypeOK' /\ OneMigrates' /\ RecordIsPrefix'
        BY <3>1 DEF Migrated, MigrationTypeOK, OneMigrates, RecordIsPrefix
      <3>3. FreshIsRecorded' /\ LegacyIsBaselined' /\ DoneIsRecorded'
        BY <3>1 DEF Migrated, FreshIsRecorded, LegacyIsBaselined, DoneIsRecorded
      <3> QED BY <3>2, <3>3 DEF Migrated
    <2> QED BY <2>1, <2>2
  <1>2. Migrated => SchemaIsMigrated
    <2> SUFFICES ASSUME Migrated PROVE SchemaIsMigrated
      OBVIOUS
    <2>1. /\ deploy.journal \in [Migrators -> Nat] /\ deploy.legacy \in Nat
          /\ deploy.legacy > 0 => \A q \in Migrators : deploy.journal[q] = deploy.legacy
          /\ \A q \in Migrators : Known(q) = 1..deploy.journal[q]
          /\ \A m \in AllMigrations : \E q \in Migrators : m \in Known(q)
      BY DeployType DEF Migrated, MigrationTypeOK
    <2>2. \A m \in AllMigrations : m \in Nat /\ m >= 1
      BY <2>1
    <2>3. recordedTags \subseteq schema /\ \E k \in Nat : schema = 1..k
      BY <2>1 DEF Migrated, FreshIsRecorded, LegacyIsBaselined, RecordIsPrefix
    <2>4. MigratedOnce
      BY <2>1, <2>2 DEF MigratedOnce, Migrated, FreshIsRecorded, LegacyIsBaselined
    <2>5. StartsMigrated
      BY <2>2, <2>3 DEF StartsMigrated, Migrated, DoneIsRecorded
    <2> QED BY <2>4, <2>5 DEF SchemaIsMigrated
  <1> QED BY MigratedAtFirst, <1>1, <1>2, PTL DEF MigrationSpec
=============================================================================
