--------------------------- MODULE PostgresProofs ---------------------------
(***************************************************************************)
(* Every statement, commit and rollback keeps the guarantees of the engine: *)
(* exclusive locks, first updater wins, snapshots current where nothing    *)
(* was missed.  One lemma per operation, for any contents of the rows.     *)
(***************************************************************************)
EXTENDS Postgres, TLAPS

EngineOK == EngineTypeOK /\ EngineInv

\* The state in which a behaviour starts.
LEMMA EngineInit == DbInit => EngineOK
BY DbAssumption DEF DbInit, EngineOK, EngineTypeOK, EngineInv, LocksExclusive,
   FirstUpdaterWins, SnapshotCurrent, EntriesFollowWrites, Nothing

\* BEGIN and the first statement of a Serializable transaction.
LEMMA TakeSnapshotKeeps ==
    ASSUME EngineOK, NEW t \in Tx, TakeSnapshot(t)
    PROVE  EngineOK'
BY DEF TakeSnapshot, EngineOK, EngineTypeOK, EngineInv, LocksExclusive,
   FirstUpdaterWins, SnapshotCurrent, EntriesFollowWrites

\* SELECT ... FOR UPDATE takes a lock that is free, on a row not missed.
LEMMA SelectForUpdateKeeps ==
    ASSUME EngineOK, NEW t \in Tx, NEW r \in Row, SelectForUpdate(t, r)
    PROVE  EngineOK'
BY DEF SelectForUpdate, Obtainable, Free, Stale, EngineOK, EngineTypeOK, EngineInv,
   LocksExclusive, FirstUpdaterWins, SnapshotCurrent, EntriesFollowWrites

\* An UPDATE, with or without the INSERT of an entry.
LEMMA WriteKeeps ==
    ASSUME EngineOK, NEW t \in Tx, NEW r \in Row, NEW c, Write(t, r, c)
    PROVE  EngineOK'
BY DEF Write, Put, Obtainable, Free, Stale, EngineOK, EngineTypeOK, EngineInv,
   LocksExclusive, FirstUpdaterWins, SnapshotCurrent, EntriesFollowWrites

LEMMA WriteAndLogKeeps ==
    ASSUME EngineOK, NEW t \in Tx, NEW r \in Row, NEW c, NEW e, WriteAndLog(t, r, c, e)
    PROVE  EngineOK'
BY DEF WriteAndLog, Put, Obtainable, Free, Stale, EngineOK, EngineTypeOK, EngineInv,
   LocksExclusive, FirstUpdaterWins, SnapshotCurrent, EntriesFollowWrites

\* A statement outside a transaction finds the row unlocked.
LEMMA AutoCommitKeeps ==
    ASSUME EngineOK, NEW r \in Row, NEW c, AutoCommit(r, c)
    PROVE  EngineOK'
BY DEF AutoCommit, EngineOK, EngineTypeOK, EngineInv,
   LocksExclusive, FirstUpdaterWins, SnapshotCurrent, EntriesFollowWrites

\* What t commits was locked, so no other transaction had locked it; those
\* that run on have missed it.
LEMMA CommitKeeps ==
    ASSUME EngineOK, NEW t \in Tx, Commit(t)
    PROVE  EngineOK'
BY DbAssumption DEF Commit, Release, Nothing, EngineOK, EngineTypeOK, EngineInv,
   LocksExclusive, FirstUpdaterWins, SnapshotCurrent, EntriesFollowWrites

LEMMA RollbackKeeps ==
    ASSUME EngineOK, NEW t \in Tx, Rollback(t)
    PROVE  EngineOK'
BY DbAssumption DEF Rollback, Release, Nothing, EngineOK, EngineTypeOK, EngineInv,
   LocksExclusive, FirstUpdaterWins, SnapshotCurrent, EntriesFollowWrites

LEMMA IdleKeeps == EngineOK /\ UNCHANGED dbVars => EngineOK'
BY DEF dbVars, EngineOK, EngineTypeOK, EngineInv,
   LocksExclusive, FirstUpdaterWins, SnapshotCurrent, EntriesFollowWrites
=============================================================================
