------------------------------ MODULE Postgres ------------------------------
(***************************************************************************)
(* The database as the services use it: PostgreSQL behind Prisma.  Rows    *)
(* are updated in place or inserted; a row is locked from the first        *)
(* statement that writes it (or selects it FOR UPDATE) to the end of the   *)
(* transaction, and a transaction runs at one of two isolation levels.     *)
(*                                                                         *)
(* Serializable      every read comes from the snapshot taken by the first *)
(*                   statement; to lock or write a row that another        *)
(*                   transaction has changed since then is an error that   *)
(*                   rolls the transaction back.                           *)
(* Read Committed    (what $transaction uses when no level is given) each  *)
(*                   statement reads what is committed at that moment, and *)
(*                   an UPDATE overwrites whatever is there once it holds  *)
(*                   the row.                                              *)
(*                                                                         *)
(* The code under src/ never sees the engine itself, so every definition   *)
(* here is external.  A Serializable transaction of this program writes    *)
(* each row it reads, except rows nobody updates; first-updater-wins       *)
(* therefore makes them serializable, and the extra aborts of PostgreSQL's *)
(* predicate locking are among the failures that may strike a transaction. *)
(***************************************************************************)
EXTENDS Integers, Sequences, FiniteSets

CONSTANTS
    Tx,        \* requests, each running at most one transaction at a time
    Row,       \* primary keys of the rows that are updated in place
    InitialDb  \* contents of those rows when the behaviour starts

ASSUME DbAssumption == DOMAIN InitialDb = Row

VARIABLES
    db,        \* db[r]: committed contents of row r
    ledger,    \* ledger[r]: insert-only rows that refer to r, in commit order
    serial,    \* transactions that hold a Serializable snapshot
    view,      \* view[t]: the snapshot of t under t's own writes
    wrote,     \* wrote[t]: rows t has written and not committed
    locks,     \* locks[t]: rows t has locked
    missed,    \* missed[t]: rows others have committed since t's snapshot
    inserted   \* inserted[t][r]: insert-only rows of t, not committed

dbVars == <<db, ledger, serial, view, wrote, locks, missed, inserted>>

Nothing == [r \in Row |-> <<>>]

DbInit ==
    /\ db = InitialDb
    /\ ledger = Nothing
    /\ serial = {}
    /\ view = [t \in Tx |-> InitialDb]
    /\ wrote = [t \in Tx |-> {}]
    /\ locks = [t \in Tx |-> {}]
    /\ missed = [t \in Tx |-> {}]
    /\ inserted = [t \in Tx |-> Nothing]

-----------------------------------------------------------------------------
(* What a statement of t finds.                                            *)

\* The contents of r that a statement of t reads.
Read(t, r) == IF t \in serial \/ r \in wrote[t] THEN view[t][r] ELSE db[r]

\* No other transaction holds the lock on r.
Free(t, r) == \A u \in Tx \ {t} : r \notin locks[u]

\* Mutant of Stale: the isolation level is left out, nothing is checked.
NeverStale(t, r) == FALSE

\* t may not lock or write r any more: r changed after t's snapshot.
Stale(t, r) == t \in serial /\ r \in missed[t]

\* The statement of t that needs the lock on r can go ahead.
Obtainable(t, r) == Free(t, r) /\ ~Stale(t, r)

-----------------------------------------------------------------------------
(* Statements.                                                             *)

\* First statement of a Serializable transaction.
TakeSnapshot(t) ==
    /\ serial' = serial \cup {t}
    /\ view' = [view EXCEPT ![t] = db]
    /\ UNCHANGED <<db, ledger, wrote, locks, missed, inserted>>

\* SELECT ... FOR UPDATE
SelectForUpdate(t, r) ==
    /\ Obtainable(t, r)
    /\ locks' = [locks EXCEPT ![t] = @ \cup {r}]
    /\ UNCHANGED <<db, ledger, serial, view, wrote, missed, inserted>>

\* What an UPDATE (or the INSERT of a fresh row) does to the row itself.
Put(t, r, contents) ==
    /\ Obtainable(t, r)
    /\ locks' = [locks EXCEPT ![t] = @ \cup {r}]
    /\ wrote' = [wrote EXCEPT ![t] = @ \cup {r}]
    /\ view' = [view EXCEPT ![t][r] = contents]
    /\ UNCHANGED <<db, ledger, serial, missed>>

Write(t, r, contents) == Put(t, r, contents) /\ UNCHANGED inserted

\* UPDATE of r, and the INSERT of an entry that refers to it.
WriteAndLog(t, r, contents, entry) ==
    /\ Put(t, r, contents)
    /\ inserted' = [inserted EXCEPT ![t][r] = Append(@, entry)]

\* A statement that is a transaction of its own.
AutoCommit(r, contents) ==
    /\ \A u \in Tx : r \notin locks[u]
    /\ db' = [db EXCEPT ![r] = contents]
    /\ missed' = [u \in Tx |-> IF u \in serial THEN missed[u] \cup {r}
                                               ELSE missed[u]]
    /\ UNCHANGED <<ledger, serial, view, wrote, locks, inserted>>

\* The end of t's transaction, either way.
Release(t) ==
    /\ serial' = serial \ {t}
    /\ view' = [view EXCEPT ![t] = InitialDb]
    /\ wrote' = [wrote EXCEPT ![t] = {}]
    /\ locks' = [locks EXCEPT ![t] = {}]
    /\ inserted' = [inserted EXCEPT ![t] = Nothing]

Commit(t) ==
    /\ db' = [r \in Row |-> IF r \in wrote[t] THEN view[t][r] ELSE db[r]]
    /\ ledger' = [r \in Row |-> ledger[r] \o inserted[t][r]]
    /\ missed' = [u \in Tx |-> IF u = t THEN {}
                               ELSE IF u \in serial THEN missed[u] \cup wrote[t]
                                                    ELSE missed[u]]
    /\ Release(t)

Rollback(t) ==
    /\ missed' = [missed EXCEPT ![t] = {}]
    /\ Release(t)
    /\ UNCHANGED <<db, ledger>>

-----------------------------------------------------------------------------
(* What the engine guarantees to the transactions above it.                *)

EngineTypeOK ==
    /\ DOMAIN db = Row
    /\ DOMAIN ledger = Row
    /\ serial \subseteq Tx
    /\ DOMAIN view = Tx /\ \A t \in Tx : DOMAIN view[t] = Row
    /\ wrote \in [Tx -> SUBSET Row]
    /\ locks \in [Tx -> SUBSET Row]
    /\ missed \in [Tx -> SUBSET Row]
    /\ DOMAIN inserted = Tx /\ \A t \in Tx : DOMAIN inserted[t] = Row

\* A row lock has one holder, and what is written is locked.
LocksExclusive ==
    /\ \A t, u \in Tx : t # u => locks[t] \cap locks[u] = {}
    /\ \A t \in Tx : wrote[t] \subseteq locks[t]

\* A row that a Serializable transaction has locked has not changed since
\* its snapshot, and cannot change before it ends.
FirstUpdaterWins ==
    \A t \in Tx : /\ locks[t] \cap missed[t] = {}
                  /\ t \notin serial => missed[t] = {}

\* Where nothing was missed and nothing written, the snapshot is current.
SnapshotCurrent ==
    \A t \in serial : \A r \in Row :
        r \notin missed[t] \cup wrote[t] => view[t][r] = db[r]

\* An entry is inserted only along with the update of the row it refers to.
EntriesFollowWrites ==
    \A t \in Tx : \A r \in Row : inserted[t][r] # <<>> => r \in wrote[t]

EngineInv ==
    LocksExclusive /\ FirstUpdaterWins /\ SnapshotCurrent /\ EntriesFollowWrites
=============================================================================
