----------------------------- MODULE SaleProofs -----------------------------
(***************************************************************************)
(* The statements of the wallets, and the sales that they record.  The     *)
(* balance is always the one that the last wallet_transactions row ends    *)
(* with, a row written by an order starts where the row before it ended,   *)
(* whatever deposits and withdrawals do meanwhile, and no wallet is        *)
(* overdrawn.                                                              *)
(*                                                                         *)
(* A sale goes through, or nothing happened.  Whatever a transaction of    *)
(* the orders service has done so far, measured by the committed rows, is  *)
(* the sale up to its step: what it read is still committed, since it has  *)
(* locked it.  At the commit the tables are the ones before plus one sale, *)
(* so an order, its payment and its earning are there together.            *)
(***************************************************************************)
EXTENDS PaymentFlowProofs

LedgerInv == PendingEntries /\ LedgerTracksBalance /\ OrderEntriesChained

-----------------------------------------------------------------------------
(* What stays when a step does not touch it.                               *)

LEMMA PendingKept ==
    ASSUME NEW t \in Tx, NEW u \in User, Pending(t, u),
           inserted'[t][u] = inserted[t][u], view'[t][u] = view[t][u],
           u \in wrote'[t] => u \in wrote[t],
           t \in serial' <=> t \in serial,
           inserted[t][u] # <<>> => db'[u] = db[u]
    PROVE  Pending(t, u)'
BY DEF Pending

LEMMA CommittedKept ==
    ASSUME LedgerTracksBalance, OrderEntriesChained, UNCHANGED ledger,
           \A u \in User : db'[u] = db[u]
    PROVE  LedgerTracksBalance' /\ OrderEntriesChained'
BY DEF LedgerTracksBalance, OrderEntriesChained, LastAfter, BalanceBeforeEntry

\* A statement on a row that is no wallet leaves every wallet's entries.
LEMMA OtherRowsKept ==
    ASSUME TypeInv, LedgerInv, NEW t \in Tx, NEW r \in Product \cup Tx, NEW c,
           Write(t, r, c)
    PROVE  LedgerInv'
<1>1. \A v \in Tx, u \in User :
        /\ inserted'[v][u] = inserted[v][u] /\ view'[v][u] = view[v][u]
        /\ u \in wrote'[v] => u \in wrote[v]
  BY OrderAssumption DEF Write, Put, TypeInv, TypeOK, TablesOK, EngineTypeOK
<1>2. UNCHANGED <<db, ledger, serial>>
  BY DEF Write, Put
<1> QED
  BY <1>1, <1>2, PendingKept, CommittedKept DEF LedgerInv, PendingEntries

-----------------------------------------------------------------------------
(* One more entry.                                                         *)

LEMMA EntryAppended ==
    ASSUME TypeInv, EngineInv, LedgerInv, NEW t \in Tx, NEW u \in User,
           NEW after \in Int, NEW e \in LedgerRow, WriteAndLog(t, u, after, e),
           e.after = after,
           \/ t \in serial /\ e.before = Read(t, u)
           \/ t \notin serial /\ wrote[t] = {} /\ e.type \in {"DEPOSIT", "WITHDRAWAL"}
    PROVE  LedgerInv'
<1> DEFINE new == inserted[t][u]
<1>1. /\ u \in Row /\ new \in Seq(LedgerRow) /\ DOMAIN view = Tx /\ DOMAIN view[t] = Row
      /\ DOMAIN inserted = Tx /\ DOMAIN inserted[t] = Row
      /\ wrote \in [Tx -> SUBSET Row]
  BY OrderAssumption DEF TypeInv, TypeOK, TablesOK, EngineTypeOK
<1>2. /\ inserted' = [inserted EXCEPT ![t][u] = Append(new, e)]
      /\ view' = [view EXCEPT ![t][u] = after]
      /\ wrote' = [wrote EXCEPT ![t] = @ \cup {u}]
      /\ UNCHANGED <<db, ledger, serial>>
      /\ ~Stale(t, u)
  BY DEF WriteAndLog, Put, Obtainable
<1>3. ASSUME NEW v \in Tx, NEW x \in User, v # t \/ x # u PROVE Pending(v, x)'
  <2>1. /\ inserted'[v][x] = inserted[v][x] /\ view'[v][x] = view[v][x]
        /\ x \in wrote'[v] => x \in wrote[v]
    BY <1>1, <1>2, <1>3
  <2> QED
    BY <1>2, <2>1, PendingKept DEF LedgerInv, PendingEntries
<1>4. Pending(t, u)'
  <2>1. /\ inserted'[t][u] = Append(new, e) /\ view'[t][u] = after
        /\ Pending(t, u)
    BY <1>1, <1>2 DEF LedgerInv, PendingEntries
  <2>2. CASE new = <<>>
    <3>1. inserted'[t][u] = <<e>>
      BY <2>1, <2>2
    <3>2. t \in serial => e.before = db[u]
      <4>1. u \notin wrote[t]
        BY <2>1, <2>2 DEF Pending
      <4>2. ASSUME t \in serial PROVE view[t][u] = db[u]
        BY <1>1, <1>2, <4>1, <4>2 DEF Stale, EngineInv, SnapshotCurrent
      <4> QED
        BY <4>2 DEF Read
    <3>3. e.type \in {"PAYMENT", "EARNING"} => t \in serial
      OBVIOUS
    <3> QED
      BY <1>2, <2>1, <3>1, <3>2, <3>3 DEF Pending
  <2>3. CASE new # <<>>
    <3>1. u \in wrote[t]
      BY <1>1, <2>3 DEF EngineInv, EntriesFollowWrites
    <3>2. t \in serial /\ e.before = new[Len(new)].after
      BY <2>1, <3>1 DEF Pending, Read
    <3>3. /\ Len(new) \in Nat \ {0} /\ Len(inserted'[t][u]) = Len(new) + 1
          /\ \A i \in 1 .. Len(new) : inserted'[t][u][i] = new[i]
          /\ inserted'[t][u][Len(new) + 1] = e
      BY <1>1, <2>1, <2>3
    <3>4. ASSUME NEW i \in 1 .. Len(inserted'[t][u]), i > 1
          PROVE  inserted'[t][u][i].type \in {"PAYMENT", "EARNING"} =>
                    inserted'[t][u][i].before = inserted'[t][u][i - 1].after
      <4>1. CASE i \in 1 .. Len(new)
        BY <2>1, <3>3, <3>4, <4>1 DEF Pending
      <4>2. CASE i = Len(new) + 1
        BY <3>2, <3>3, <4>2
      <4> QED
        BY <3>3, <4>1, <4>2
    <3>5. inserted'[t][u] # <<>> /\ inserted'[t][u][1].before = db[u]
      BY <2>1, <2>3, <3>2, <3>3 DEF Pending
    <3> QED
      BY <1>2, <2>1, <3>2, <3>3, <3>4, <3>5 DEF Pending
  <2> QED
    BY <2>2, <2>3
<1>5. LedgerTracksBalance' /\ OrderEntriesChained'
  BY <1>2, CommittedKept DEF LedgerInv
<1> QED
  BY <1>3, <1>4, <1>5 DEF LedgerInv, PendingEntries

-----------------------------------------------------------------------------
(* Commit: the pending entries become the end of the statement.            *)

OfOrder(e) == e.type \in {"PAYMENT", "EARNING"}

\* Where a statement that opened at start ends, and that it hangs together.
End(start, s) == IF s = <<>> THEN start ELSE s[Len(s)].after

Chained(start, s) ==
    \A i \in 1 .. Len(s) : OfOrder(s[i]) =>
        s[i].before = IF i = 1 THEN start ELSE s[i - 1].after

\* A statement that is chained, continued by entries that start from its end.
LEMMA ChainContinued ==
    ASSUME NEW start, NEW old \in Seq(LedgerRow), NEW new \in Seq(LedgerRow), new # <<>>,
           Chained(start, old), Chained(End(start, old), new)
    PROVE  /\ Chained(start, old \o new)
           /\ End(start, old \o new) = new[Len(new)].after
<1> DEFINE m == Len(old)
           n == Len(new)
           all == old \o new
<1>1. m \in Nat /\ n \in Nat \ {0} /\ Len(all) = m + n
  OBVIOUS
<1>2. \A i \in 1 .. m + n : all[i] = IF i <= m THEN old[i] ELSE new[i - m]
  OBVIOUS
<1>3. m = 0 <=> old = <<>>
  OBVIOUS
<1> HIDE DEF m, n, all
<1>4. all # <<>> /\ all[Len(all)] = new[n]
  BY <1>1, <1>2
<1>5. ASSUME NEW i \in 1 .. m + n, OfOrder(all[i])
      PROVE  all[i].before = IF i = 1 THEN start ELSE all[i - 1].after
  <2>1. CASE i <= m
    <3>1. all[i] = old[i]
      BY <1>1, <1>2, <2>1
    <3>2. ASSUME i # 1 PROVE all[i - 1] = old[i - 1]
      <4>1. i - 1 \in 1 .. m + n /\ i - 1 <= m
        BY <1>1, <2>1, <3>2
      <4> QED
        BY <1>2, <4>1
    <3>3. i \in 1 .. Len(old)
      BY <1>1, <2>1 DEF m
    <3> QED
      BY <1>5, <3>1, <3>2, <3>3 DEF Chained
  <2>2. CASE i = m + 1
    <3>1. all[i] = new[1] /\ (m > 0 => all[i - 1] = old[m])
      BY <1>1, <1>2, <2>2
    <3> QED
      BY <1>1, <1>3, <1>5, <2>2, <3>1 DEF m, Chained, End
  <2>3. CASE i > m + 1
    <3>1. i - m \in 1 .. Len(new) /\ i - m > 1
      BY <1>1, <2>3 DEF n
    <3>2. all[i] = new[i - m]
      BY <1>1, <1>2, <2>3
    <3>3. all[i - 1] = new[(i - m) - 1]
      <4>1. i - 1 \in 1 .. m + n /\ ~(i - 1 <= m) /\ (i - 1) - m = (i - m) - 1
        BY <1>1, <2>3
      <4> QED
        BY <1>2, <4>1
    <3>4. i # 1
      BY <1>1, <2>3
    <3> QED
      BY <1>5, <3>1, <3>2, <3>3, <3>4 DEF Chained
  <2> QED
    BY <1>1, <2>1, <2>2, <2>3
<1> QED
  BY <1>1, <1>4, <1>5 DEF n, all, Chained, End

LEMMA StatementsChained ==
    ASSUME LedgerTracksBalance, OrderEntriesChained, NEW u \in User
    PROVE  db[u] = End(InitialDb[u], ledger[u]) /\ Chained(InitialDb[u], ledger[u])
BY DEF LedgerTracksBalance, OrderEntriesChained, LastAfter, BalanceBeforeEntry, End,
   Chained, OfOrder

LEMMA CommitLedger ==
    ASSUME TypeInv, EngineInv, LedgerInv, NEW t \in Tx, Commit(t)
    PROVE  LedgerInv'
<1>1. /\ User \subseteq Row /\ ledger \in [Row -> Seq(LedgerRow)]
      /\ \A v \in Tx, u \in User : inserted[v][u] \in Seq(LedgerRow)
      /\ DOMAIN inserted = Tx /\ DOMAIN view = Tx
      /\ wrote \in [Tx -> SUBSET Row]
  BY OrderAssumption DEF TypeInv, TypeOK, TablesOK, EngineTypeOK
<1>2. /\ db' = [r \in Row |-> IF r \in wrote[t] THEN view[t][r] ELSE db[r]]
      /\ ledger' = [r \in Row |-> ledger[r] \o inserted[t][r]]
      /\ serial' = serial \ {t}
      /\ view' = [view EXCEPT ![t] = InitialDb]
      /\ wrote' = [wrote EXCEPT ![t] = {}]
      /\ inserted' = [inserted EXCEPT ![t] = Nothing]
  BY DEF Commit, Release
<1>3. ASSUME NEW u \in User PROVE Pending(t, u)'
  <2>1. inserted'[t][u] = <<>> /\ u \notin wrote'[t]
    BY <1>1, <1>2 DEF Nothing
  <2> QED
    BY <2>1 DEF Pending
<1>4. ASSUME NEW v \in Tx \ {t}, NEW u \in User PROVE Pending(v, u)'
  <2>1. /\ inserted'[v][u] = inserted[v][u] /\ view'[v][u] = view[v][u]
        /\ wrote'[v] = wrote[v]
        /\ v \in serial' <=> v \in serial
    BY <1>1, <1>2
  <2>2. ASSUME inserted[v][u] # <<>> PROVE db'[u] = db[u]
    <3>1. u \in wrote[v]
      BY <1>1, <2>2 DEF EngineInv, EntriesFollowWrites
    <3>2. u \notin wrote[t]
      BY <3>1 DEF EngineInv, LocksExclusive
    <3> QED
      BY <1>1, <1>2, <3>2
  <2> QED
    BY <2>1, <2>2, PendingKept DEF LedgerInv, PendingEntries
<1>5. ASSUME NEW u \in User
      PROVE  db'[u] = End(InitialDb[u], ledger'[u]) /\ Chained(InitialDb[u], ledger'[u])
  <2> DEFINE start == InitialDb[u]
             old == ledger[u]
             new == inserted[t][u]
  <2>1. ledger'[u] = old \o new /\ old \in Seq(LedgerRow) /\ new \in Seq(LedgerRow)
    BY <1>1, <1>2
  <2>2. db[u] = End(start, old) /\ Chained(start, old) /\ Pending(t, u)
    BY StatementsChained DEF LedgerInv, PendingEntries
  <2>3. u \in wrote[t] <=> new # <<>>
    BY <1>1, <2>2 DEF Pending, EngineInv, EntriesFollowWrites
  <2>4. CASE new = <<>>
    <3>1. ledger'[u] = ledger[u] /\ db'[u] = db[u]
      BY <1>1, <1>2, <2>1, <2>3, <2>4
    <3> QED
      BY <2>2, <3>1
  <2>5. CASE new # <<>>
    <3>1. Chained(End(start, old), new)
      <4>1. 1 \in 1 .. Len(new)
        BY <2>1, <2>5
      <4> QED
        BY <2>2, <2>5, <4>1 DEF OfOrder, Pending, Chained
    <3>2. db'[u] = new[Len(new)].after
      BY <1>1, <1>2, <2>2, <2>3, <2>5 DEF Pending
    <3>3. /\ Chained(start, old \o new)
          /\ End(start, old \o new) = new[Len(new)].after
      BY <2>1, <2>2, <2>5, <3>1, ChainContinued
    <3> QED
      BY <2>1, <3>2, <3>3
  <2> QED
    BY <2>4, <2>5
<1>6. LedgerTracksBalance' /\ OrderEntriesChained'
  BY <1>5 DEF LedgerTracksBalance, OrderEntriesChained, LastAfter, BalanceBeforeEntry,
     End, Chained, OfOrder
<1> QED
  BY <1>3, <1>4, <1>6 DEF LedgerInv, PendingEntries

LEMMA RollbackLedger ==
    ASSUME TypeInv, LedgerInv, NEW t \in Tx, Rollback(t)
    PROVE  LedgerInv'
<1>1. \A u \in User : inserted'[t][u] = <<>> /\ u \notin wrote'[t]
  BY OrderAssumption
     DEF Rollback, Release, Nothing, TypeInv, TypeOK, TablesOK, EngineTypeOK
<1>2. \A u \in User : Pending(t, u)'
  BY <1>1 DEF Pending
<1>3. \A v \in Tx \ {t}, u \in User :
        /\ inserted'[v][u] = inserted[v][u] /\ view'[v][u] = view[v][u]
        /\ wrote'[v] = wrote[v]
        /\ v \in serial' <=> v \in serial
  BY DEF Rollback, Release, TypeInv, TypeOK, TablesOK, EngineTypeOK
<1>4. UNCHANGED <<db, ledger>>
  BY DEF Rollback
<1>5. \A v \in Tx \ {t}, u \in User : Pending(v, u)'
  BY <1>3, <1>4, PendingKept DEF LedgerInv, PendingEntries
<1> QED
  BY <1>2, <1>4, <1>5, CommittedKept DEF LedgerInv, PendingEntries

-----------------------------------------------------------------------------
(* The steps.                                                              *)

LEMMA LedgerInit == Init => LedgerInv
<1> SUFFICES ASSUME Init PROVE LedgerInv
  OBVIOUS
<1>1. /\ \A u \in User : u \in Row /\ ledger[u] = <<>> /\ db[u] = InitialDb[u]
      /\ \A t \in Tx, u \in User : inserted[t][u] = <<>> /\ u \notin wrote[t]
  BY OrderAssumption DEF Init, DbInit, Nothing
<1> QED
  BY <1>1 DEF LedgerInv, PendingEntries, Pending, LedgerTracksBalance, LastAfter,
     OrderEntriesChained

\* A step that leaves the wallets, their entries and the snapshots that are
\* in use.
LEMMA LedgerKept ==
    ASSUME LedgerInv, UNCHANGED <<inserted, wrote, ledger>>,
           \A u \in User : db'[u] = db[u],
           \A v \in Tx : \/ view'[v] = view[v] /\ (v \in serial' <=> v \in serial)
                         \/ \A u \in User : u \notin wrote[v] /\ inserted[v][u] = <<>>
    PROVE  LedgerInv'
<1>1. ASSUME NEW v \in Tx, NEW u \in User PROVE Pending(v, u)'
  <2>1. CASE view'[v] = view[v] /\ (v \in serial' <=> v \in serial)
    BY <2>1, PendingKept DEF LedgerInv, PendingEntries
  <2>2. CASE u \notin wrote[v] /\ inserted[v][u] = <<>>
    BY <2>2 DEF Pending
  <2> QED
    BY <2>1, <2>2
<1> QED
  BY <1>1, CommittedKept DEF LedgerInv, PendingEntries

\* deposit and withdraw write a wallet outside any snapshot, as the first
\* write of their transaction.
LEMMA WriteWalletLedger ==
    ASSUME TypeInv, EngineInv, LedgerInv, NEW t \in Tx, WriteWallet(t)
    PROVE  LedgerInv'
<1> DEFINE u == req[t].user
           before == seen[t].amount
           after == BalanceAfter(req[t], before)
           e == Entry(EntryType(req[t]), req[t].amount, before, after, t)
<1>1. pc[t] = "writeWallet" /\ WriteAndLog(t, u, after, e)
  BY DEF WriteWallet
<1>2. /\ req[t].op \in {"deposit", "withdraw"}
      /\ t \notin serial /\ wrote[t] = {}
  BY <1>1 DEF TypeInv, StepsMatchRequests, StepMatches, TxSteps
<1>3. u \in User /\ req[t].amount \in Nat
  BY <1>2, RequestFacts DEF TypeInv, TypeOK
<1>4. before \in Int
  BY DEF TypeInv, TypeOK, RequestsOK, OrderRow
<1>5. after \in Int
  BY <1>3, <1>4 DEF BalanceAfter
<1> HIDE DEF u, before, after
<1>6. /\ e \in LedgerRow /\ e.after = after
      /\ e.type \in {"DEPOSIT", "WITHDRAWAL"}
  BY <1>3, <1>4, <1>5 DEF Entry, EntryType, LedgerRow
<1> HIDE DEF e
<1> QED
  BY <1>1, <1>2, <1>3, <1>5, <1>6, EntryAppended

LEMMA LedgerStep ==
    ASSUME TypeInv, EngineInv, LedgerInv, [Next]_vars
    PROVE  LedgerInv'
<1>1. CASE Quiet
  BY <1>1, LedgerKept DEF Quiet, dbVars
<1>2. ASSUME NEW t \in Tx, Effect(t) PROVE LedgerInv'
  <2>1. CASE Begins(t)
    <3>1. \A u \in User : u \notin wrote[t] /\ inserted[t][u] = <<>>
      BY <2>1, OrderAssumption
         DEF Begins, TypeInv, StepsMatchRequests, StepMatches, TxSteps, EngineInv,
            EntriesFollowWrites
    <3>2. /\ UNCHANGED <<db, inserted, wrote, ledger>>
          /\ \A v \in Tx \ {t} : view'[v] = view[v] /\ (v \in serial' <=> v \in serial)
      BY <2>1 DEF Begins, TakeSnapshot, TypeInv, TypeOK, TablesOK, EngineTypeOK
    <3> QED
      BY <3>1, <3>2, LedgerKept
  <2>2. CASE Locks(t)
    BY <2>2, LedgerKept DEF Locks, SelectForUpdate
  <2>3. CASE MovesMoney(t)
    <3>1. t \in serial
      BY <2>3, SaleFacts DEF MovesMoney, TxSteps
    <3> QED
      BY <2>3, <3>1, MoveIsWrite, EntryAppended
  <2>4. CASE DecrementStock(t)
    <3>1. ProductOf(t) \in Product
      BY <2>4, SaleFacts DEF DecrementStock, TxSteps
    <3> QED
      BY <2>4, <3>1, OtherRowsKept DEF DecrementStock
  <2>5. CASE SaveOrder(t)
    <3>1. OrderOf(t) \in Tx
      BY <2>5, SaleFacts DEF SaveOrder, TxSteps
    <3> QED
      BY <2>5, <3>1, OtherRowsKept DEF SaveOrder
  <2>6. CASE WriteWallet(t)
    BY <2>6, WriteWalletLedger
  <2>7. CASE Ends(t)
    BY <2>7, CommitLedger, RollbackLedger DEF Ends
  <2>8. CASE Publishes(t)
    <3>1. PICK r \in Product \cup Tx : \E row : AutoCommit(r, row)
      BY <2>8 DEF Publishes
    <3>2. \A u \in User : db'[u] = db[u]
      BY <3>1, OrderAssumption DEF AutoCommit, TypeInv, TypeOK, TablesOK, EngineTypeOK
    <3> QED
      BY <3>1, <3>2, LedgerKept DEF AutoCommit
  <2> QED
    BY <1>2, <2>1, <2>2, <2>3, <2>4, <2>5, <2>6, <2>7, <2>8 DEF Effect
<1> QED
  BY <1>1, <1>2, Effects

LEMMA LedgerInvHolds == Spec => []LedgerInv
<1>1. Init => TypeInv /\ EngineInv /\ LedgerInv
  BY TypeInit, EngineInit, LedgerInit DEF Init, EngineOK
<1>2. TypeInv /\ EngineInv /\ LedgerInv /\ [Next]_vars => (TypeInv /\ EngineInv /\ LedgerInv)'
  BY TypeStep, EngineStep, LedgerStep
<1> QED
  BY <1>1, <1>2, PTL DEF Spec

\* The balance of every wallet is the one that its last wallet_transactions
\* row ends with, whatever requests interleave, fail or lose their answer.
THEOREM BalanceIsTracked == Spec => []LedgerTracksBalance
<1>1. LedgerInv => LedgerTracksBalance
  BY DEF LedgerInv
<1> QED
  BY <1>1, LedgerInvHolds, PTL

\* A PAYMENT or an EARNING starts from the balance that the row before it
\* left, even while deposits and withdrawals run at Read Committed: the
\* Serializable order saw the latest balance, or it fails.
THEOREM OrderEntriesStayChained == Spec => []OrderEntriesChained
<1>1. LedgerInv => OrderEntriesChained
  BY DEF LedgerInv
<1> QED
  BY <1>1, LedgerInvHolds, PTL

-----------------------------------------------------------------------------
(* No debt.  The balance that a deposit or a withdrawal writes may be out  *)
(* of date, and is still computed from one that was there and covered it.  *)

BalanceInv ==
    /\ BalancesNonNegative
    /\ \A t \in Tx : \A u \in User : view[t][u] >= 0
    /\ \A t \in Tx : pc[t] = "writeWallet" => BalanceAfter(req[t], seen[t].amount) >= 0

LEMMA BalanceInit == Init => BalanceInv
<1>1. \A u \in User : u \in Row /\ InitialDb[u] >= 0
  BY WalletAssumption
<1> QED
  BY <1>1 DEF Init, DbInit, RequestInit, BalanceInv, BalancesNonNegative

\* What a statement reads of a wallet is a balance.
LEMMA BalanceRead ==
    ASSUME TypeInv, BalanceInv, NEW t \in Tx, NEW u \in User
    PROVE  Read(t, u) \in Nat
<1>1. Read(t, u) \in Int
  BY ReadTyped, OrderAssumption DEF TypeInv, TypeOK, Contents
<1>2. Read(t, u) >= 0
  BY DEF Read, BalanceInv, BalancesNonNegative
<1> QED
  BY <1>1, <1>2

\* The check of the balance comes before the write.
LEMMA ReadCovers ==
    ASSUME TypeInv, BalanceInv, NEW t \in Tx, Reads(t)
    PROVE  BalanceAfter(req'[t], seen'[t].amount) >= 0
<1>1. /\ req[t].op \in {"deposit", "withdraw"}
      /\ req[t].user \in User /\ req[t].amount \in Nat
  BY RequestFacts DEF Reads, TypeInv, TypeOK, StepsMatchRequests, StepMatches
<1>2. Read(t, req[t].user) \in Nat
  BY <1>1, BalanceRead
<1>3. req'[t] = req[t] /\ seen'[t].amount = Read(t, req[t].user)
  BY DEF Reads, Amount
<1> QED
  BY <1>1, <1>2, <1>3 DEF Reads, Refused, BalanceAfter

\* The one who pays has the money, the merchant gets more.
LEMMA MoveKeepsBalance ==
    ASSUME TypeInv, BalanceInv, NEW t \in Tx, MovesMoney(t)
    PROVE  \E u \in User : \E after \in Nat : Put(t, u, after)
<1>1. /\ AmountOf(t) \in Nat /\ MerchantOf(t) \in User
      /\ req[t].op = "walletOrder" => req[t].user \in User
  BY SaleFacts DEF MovesMoney, TxSteps
<1>2. CASE deductFromWallet(t, req[t].user, AmountOf(t), OrderOf(t)) /\ req[t].op = "walletOrder"
  <2>1. Read(t, req[t].user) - AmountOf(t) \in Nat
    BY <1>1, <1>2, BalanceRead DEF deductFromWallet, CannotPay
  <2> QED
    BY <1>1, <1>2, <2>1 DEF deductFromWallet, WriteAndLog
<1>3. CASE creditToWallet(t, MerchantOf(t), AmountOf(t), OrderOf(t))
  <2>1. Read(t, MerchantOf(t)) + AmountOf(t) \in Nat
    BY <1>1, BalanceRead
  <2> QED
    BY <1>1, <1>3, <2>1 DEF creditToWallet, WriteAndLog
<1> QED
  BY <1>2, <1>3 DEF MovesMoney

LEMMA BalanceStep ==
    ASSUME TypeInv, BalanceInv, [Next]_vars
    PROVE  BalanceInv'
<1>1. ASSUME \A t \in Tx : pc'[t] = "writeWallet" => Waits(t) \/ Reads(t),
             \A u \in User : db'[u] >= 0,
             \A t \in Tx : \A u \in User : view'[t][u] >= 0
      PROVE  BalanceInv'
  BY <1>1, ReadCovers DEF BalanceInv, BalancesNonNegative, Waits
<1>2. CASE Quiet
  BY <1>1, <1>2 DEF Quiet, dbVars, BalanceInv, BalancesNonNegative
<1>3. ASSUME NEW t \in Tx, Effect(t) PROVE BalanceInv'
  <2>1. \A u \in Tx : pc'[u] = "writeWallet" => Waits(u)
    BY <1>3 DEF Effect, Begins, Locks, MovesMoney, DecrementStock, SaveOrder, WriteWallet,
       Ends, Publishes, Goto, Answers, Others, Waits, TypeInv, TypeOK, RequestsOK
  <2>2. \A u \in User : db[u] >= 0 /\ u \in Row /\ u \notin Product /\ u \notin Tx
    BY OrderAssumption DEF BalanceInv, BalancesNonNegative
  <2>3. /\ DOMAIN db = Row /\ DOMAIN view = Tx
        /\ \A s \in Tx : DOMAIN view[s] = Row
    BY DEF TypeInv, TypeOK, TablesOK, EngineTypeOK
  <2>4. CASE Begins(t)
    BY <1>1, <2>1, <2>2, <2>3, <2>4 DEF Begins, TakeSnapshot, BalanceInv
  <2>5. CASE Locks(t)
    BY <1>1, <2>1, <2>2, <2>5 DEF Locks, SelectForUpdate, BalanceInv
  <2>6. CASE DecrementStock(t) \/ SaveOrder(t)
    <3>1. PICK r \in Product \cup Tx : \E c : Put(t, r, c)
      BY <2>6, SaleFacts DEF DecrementStock, SaveOrder, TxSteps, Write
    <3>2. UNCHANGED db /\ \A s \in Tx : \A u \in User : view'[s][u] = view[s][u]
      BY <2>2, <2>3, <3>1 DEF Put
    <3> QED
      BY <1>1, <2>1, <2>2, <3>2 DEF BalanceInv
  <2>7. CASE MovesMoney(t) \/ WriteWallet(t)
    <3>1. PICK r \in User : \E after \in Nat : Put(t, r, after)
      <4>1. CASE WriteWallet(t)
        <5>1. req[t].user \in User /\ BalanceAfter(req[t], seen[t].amount) >= 0
          BY <4>1, RequestFacts
             DEF WriteWallet, BalanceInv, TypeInv, TypeOK, StepsMatchRequests, StepMatches
        <5>2. BalanceAfter(req[t], seen[t].amount) \in Int
          <6>1. seen[t].amount \in Int /\ req[t].amount \in Nat
            BY <4>1, RequestFacts
               DEF WriteWallet, TypeInv, TypeOK, RequestsOK, OrderRow,
                   StepsMatchRequests, StepMatches
          <6> QED
            BY <6>1 DEF BalanceAfter
        <5> QED
          BY <4>1, <5>1, <5>2 DEF WriteWallet, WriteAndLog
      <4> QED
        BY <2>7, <4>1, MoveKeepsBalance
    <3>2. PICK after \in Nat : Put(t, r, after)
      BY <3>1
    <3>3. \A s \in Tx : \A u \in User :
            view'[s][u] = IF s = t /\ u = r THEN after ELSE view[s][u]
      BY <2>2, <2>3, <3>2 DEF Put
    <3> QED
      BY <1>1, <2>1, <2>2, <3>2, <3>3 DEF Put, BalanceInv
  <2>8. CASE Ends(t)
    <3>1. \A u \in User : InitialDb[u] >= 0
      BY WalletAssumption
    <3>2. view' = [view EXCEPT ![t] = InitialDb]
      BY <2>8 DEF Ends, Rollback, Commit, Release
    <3>3. \A u \in User : db'[u] = db[u] \/ db'[u] = view[t][u]
      BY <2>2, <2>8 DEF Ends, Rollback, Commit
    <3> QED
      BY <1>1, <2>1, <2>2, <2>3, <3>1, <3>2, <3>3 DEF BalanceInv
  <2>9. CASE Publishes(t)
    <3>1. UNCHANGED view /\ \A u \in User : db'[u] = db[u]
      BY <2>2, <2>3, <2>9 DEF Publishes, AutoCommit
    <3> QED
      BY <1>1, <2>1, <2>2, <3>1 DEF BalanceInv
  <2> QED
    BY <1>3, <2>4, <2>5, <2>6, <2>7, <2>8, <2>9 DEF Effect
<1> QED
  BY <1>2, <1>3, Effects

\* No wallet is ever overdrawn, although a withdrawal may write a balance
\* computed from a read that is out of date: it can lose somebody's update,
\* and cannot go below zero.
THEOREM NoDebt == Spec => []BalancesNonNegative
<1>1. Init => TypeInv /\ BalanceInv
  BY TypeInit, BalanceInit
<1>2. TypeInv /\ BalanceInv /\ [Next]_vars => (TypeInv /\ BalanceInv)'
  BY TypeStep, BalanceStep
<1>3. BalanceInv => BalancesNonNegative
  BY DEF BalanceInv
<1> QED
  BY <1>1, <1>2, <1>3, PTL DEF Spec

-----------------------------------------------------------------------------
(* The entries of one type for one order.                                  *)

LEMMA MarksAppended ==
    ASSUME NEW rows \in Seq(LedgerRow), NEW e, NEW type, NEW o
    PROVE  Marks(Append(rows, e), type, o) =
              Marks(rows, type, o) \cup
              (IF e.type = type /\ e.ref = o THEN {Len(rows) + 1} ELSE {})
<1> DEFINE more == Append(rows, e)
<1>1. /\ Len(more) = Len(rows) + 1 /\ Len(rows) \in Nat
      /\ \A i \in 1 .. Len(rows) : more[i] = rows[i]
      /\ more[Len(rows) + 1] = e
  OBVIOUS
<1> HIDE DEF more
<1> QED
  BY <1>1 DEF Marks, more

LEMMA NeverAppended ==
    ASSUME NEW rows \in Seq(LedgerRow), NEW e, NEW type, NEW o,
           e.type # type \/ e.ref # o, Never(rows, type, o)
    PROVE  Never(Append(rows, e), type, o)
BY MarksAppended DEF Never

LEMMA OnceAppended ==
    ASSUME NEW rows \in Seq(LedgerRow), NEW e, NEW type, NEW o, NEW amount,
           e.type # type \/ e.ref # o, Once(rows, type, o, amount)
    PROVE  Once(Append(rows, e), type, o, amount)
<1>1. PICK i \in Marks(rows, type, o) :
        Marks(rows, type, o) = {i} /\ rows[i].amount = amount
  BY DEF Once
<1>2. i \in 1 .. Len(rows)
  BY DEF Marks
<1>3. Append(rows, e)[i] = rows[i]
  BY <1>2
<1>4. Marks(Append(rows, e), type, o) = {i}
  BY <1>1, MarksAppended
<1> QED
  BY <1>1, <1>3, <1>4 DEF Once

LEMMA FirstAppended ==
    ASSUME NEW rows \in Seq(LedgerRow), NEW e, Never(rows, e.type, e.ref)
    PROVE  Once(Append(rows, e), e.type, e.ref, e.amount)
<1>1. Marks(Append(rows, e), e.type, e.ref) = {Len(rows) + 1}
  BY MarksAppended DEF Never
<1>2. Append(rows, e)[Len(rows) + 1] = e
  OBVIOUS
<1> QED
  BY <1>1, <1>2 DEF Once

LEMMA MarksJoined ==
    ASSUME NEW rows \in Seq(LedgerRow), NEW more \in Seq(LedgerRow), NEW type, NEW o
    PROVE  Marks(rows \o more, type, o) =
              Marks(rows, type, o) \cup {Len(rows) + i : i \in Marks(more, type, o)}
<1> DEFINE all == rows \o more
           m == Len(rows)
           n == Len(more)
<1>1. /\ m \in Nat /\ n \in Nat /\ Len(all) = m + n
      /\ \A i \in 1 .. m + n : all[i] = IF i <= m THEN rows[i] ELSE more[i - m]
  OBVIOUS
<1> HIDE DEF all, m, n
<1>2. ASSUME NEW i \in Marks(all, type, o)
      PROVE  i \in Marks(rows, type, o) \/ \E j \in Marks(more, type, o) : i = m + j
  <2>1. i \in 1 .. m + n /\ all[i].type = type /\ all[i].ref = o
    BY <1>1 DEF Marks
  <2>2. CASE i <= m
    BY <1>1, <2>1, <2>2 DEF Marks, m
  <2>3. CASE i > m
    <3>1. i - m \in 1 .. n /\ all[i] = more[i - m] /\ i = m + (i - m)
      BY <1>1, <2>1, <2>3
    <3> QED
      BY <2>1, <3>1 DEF Marks, n
  <2> QED
    BY <1>1, <2>1, <2>2, <2>3
<1>3. ASSUME NEW i \in Marks(rows, type, o) PROVE i \in Marks(all, type, o)
  BY <1>1 DEF Marks, m
<1>4. ASSUME NEW j \in Marks(more, type, o) PROVE m + j \in Marks(all, type, o)
  <2>1. j \in 1 .. n /\ more[j].type = type /\ more[j].ref = o
    BY DEF Marks, n
  <2>2. m + j \in 1 .. m + n /\ all[m + j] = more[j]
    BY <1>1, <2>1
  <2> QED
    BY <1>1, <2>1, <2>2 DEF Marks
<1> QED
  BY <1>2, <1>3, <1>4 DEF m, all

LEMMA NeverJoined ==
    ASSUME NEW rows \in Seq(LedgerRow), NEW more \in Seq(LedgerRow), NEW type, NEW o,
           Never(rows, type, o), Never(more, type, o)
    PROVE  Never(rows \o more, type, o)
BY MarksJoined DEF Never

LEMMA OnceStays ==
    ASSUME NEW rows \in Seq(LedgerRow), NEW more \in Seq(LedgerRow), NEW type, NEW o,
           NEW amount, Once(rows, type, o, amount), Never(more, type, o)
    PROVE  Once(rows \o more, type, o, amount)
<1>1. PICK i \in Marks(rows, type, o) :
        Marks(rows, type, o) = {i} /\ rows[i].amount = amount
  BY DEF Once
<1>2. Marks(rows \o more, type, o) = {i}
  BY <1>1, MarksJoined DEF Never
<1>3. (rows \o more)[i] = rows[i]
  BY DEF Marks
<1> QED
  BY <1>1, <1>2, <1>3 DEF Once

LEMMA OnceArrives ==
    ASSUME NEW rows \in Seq(LedgerRow), NEW more \in Seq(LedgerRow), NEW type, NEW o,
           NEW amount, Never(rows, type, o), Once(more, type, o, amount)
    PROVE  Once(rows \o more, type, o, amount)
<1>1. PICK i \in Marks(more, type, o) :
        Marks(more, type, o) = {i} /\ more[i].amount = amount
  BY DEF Once
<1>2. Marks(rows \o more, type, o) = {Len(rows) + i}
  BY <1>1, MarksJoined DEF Never
<1>3. (rows \o more)[Len(rows) + i] = more[i]
  BY DEF Marks
<1> QED
  BY <1>1, <1>2, <1>3 DEF Once

-----------------------------------------------------------------------------
(* What stays for a transaction while another one makes a step.            *)

\* The part of t in SalesInProgress and EntriesInProgress.
SaleOf(t) ==
    /\ t \in serial => req[t].op \in {"walletOrder", "webhook"} /\ WorkOnTables(t)
    /\ t \notin serial => wrote[t] \subseteq User
    /\ pc[t] = "commit" /\ t \notin serial => req[t].op \in {"deposit", "withdraw"}
    /\ req[t].op = "webhook" /\ (t \in serial \/ pc[t] = "beginCompletion") =>
          FoundOrder(t)

Entering(t, rows, type, o, now) ==
    IF now THEN Once(rows, type, o, AmountOf(t)) ELSE Never(rows, type, o)

EntriesOf(t) ==
    \A o \in Tx : \A u \in User :
        /\ Entering(t, inserted[t][u], "PAYMENT", o,
                    Debited(t) /\ o = OrderOf(t) /\ u = req[t].user)
        /\ Entering(t, inserted[t][u], "EARNING", o,
                    Credited(t) /\ o = OrderOf(t) /\ u = MerchantOf(t))

LEMMA PartsOfSales ==
    /\ SalesInProgress <=> \A t \in Tx : SaleOf(t)
    /\ EntriesInProgress <=> \A t \in Tx : EntriesOf(t)
BY DEF SalesInProgress, EntriesInProgress, SaleOf, EntriesOf, Entering

Apart(t) ==
    /\ Waits(t)
    /\ t \in serial' <=> t \in serial
    /\ view'[t] = view[t] /\ wrote'[t] = wrote[t] /\ locks'[t] = locks[t]
    /\ inserted'[t] = inserted[t]

\* What t's request is about does not change while t waits.
LEMMA SaleNamesKept ==
    ASSUME NEW t \in Tx, Apart(t)
    PROVE  /\ OrderOf(t)' = OrderOf(t) /\ ProductOf(t)' = ProductOf(t)
           /\ MerchantOf(t)' = MerchantOf(t)
           /\ t \in serial => AmountOf(t)' = AmountOf(t)
           /\ Buys(t)' = Buys(t)
           /\ Locked(t)' <=> Locked(t)
           /\ Debited(t)' <=> Debited(t)
           /\ Credited(t)' <=> Credited(t)
           /\ Taken(t)' <=> Taken(t)
           /\ Saved(t)' <=> Saved(t)
BY DEF Apart, Waits, OrderOf, ProductOf, MerchantOf, AmountOf, Read, Buys, Locked, Debited,
   Credited, Taken, Saved

LEMMA WorkKept ==
    ASSUME TypeInv, NEW t \in Tx, Apart(t), t \in serial, WorkOnTables(t),
           wrote[t] \subseteq locks[t], \A r \in locks[t] : db'[r] = db[r]
    PROVE  WorkOnTables(t)'
<1>1. /\ OrderOf(t)' = OrderOf(t) /\ ProductOf(t)' = ProductOf(t)
      /\ MerchantOf(t)' = MerchantOf(t) /\ AmountOf(t)' = AmountOf(t)
      /\ Buys(t)' = Buys(t) /\ req'[t] = req[t]
      /\ Locked(t)' <=> Locked(t)
      /\ Debited(t)' <=> Debited(t)
      /\ Credited(t)' <=> Credited(t)
      /\ Taken(t)' <=> Taken(t)
      /\ Saved(t)' <=> Saved(t)
  BY SaleNamesKept DEF Apart, Waits
<1>2. view'[t] = view[t] /\ wrote'[t] = wrote[t] /\ locks'[t] = locks[t]
  BY DEF Apart
<1>3. /\ Locked(t) => db'[ProductOf(t)] = db[ProductOf(t)]
      /\ Debited(t) => db'[req[t].user] = db[req[t].user]
      /\ Saved(t) => db'[OrderOf(t)] = db[OrderOf(t)]
  BY DEF WorkOnTables
<1>4. \A u \in User \cap wrote[t] : BalanceInSale(t, u)' = BalanceInSale(t, u)
  BY <1>1, <1>3 DEF BalanceInSale
<1> HIDE DEF Locked, Debited, Credited, Taken, Saved, Buys
<1> QED
  BY <1>1, <1>2, <1>3, <1>4 DEF WorkOnTables

LEMMA FoundKept ==
    ASSUME NEW t \in Tx, Waits(t), FoundOrder(t),
           \/ db'[req[t].order] = db[req[t].order]
           \/ db'[req[t].order] = [db[req[t].order] EXCEPT !.status = "COMPLETED"]
    PROVE  FoundOrder(t)'
<1>1. seen[t] \in OrderRow /\ seen'[t] = seen[t] /\ req'[t] = req[t]
  BY DEF FoundOrder, Waits
<1>2. \A row \in OrderRow : [[row EXCEPT !.status = "COMPLETED"] EXCEPT !.status = "COMPLETED"]
                            = [row EXCEPT !.status = "COMPLETED"]
  BY DEF OrderRow
<1> QED
  BY <1>1, <1>2 DEF FoundOrder

LEMMA EntriesKept ==
    ASSUME NEW t \in Tx, Apart(t), EntriesOf(t)
    PROVE  EntriesOf(t)'
<1>1. /\ OrderOf(t)' = OrderOf(t) /\ MerchantOf(t)' = MerchantOf(t)
      /\ req'[t] = req[t] /\ inserted'[t] = inserted[t]
      /\ t \in serial => AmountOf(t)' = AmountOf(t)
      /\ Debited(t)' <=> Debited(t)
      /\ Credited(t)' <=> Credited(t)
  BY SaleNamesKept DEF Apart, Waits
<1>2. t \notin serial => ~Debited(t) /\ ~Credited(t)
  BY DEF Debited, Credited, Locked
<1> QED
  BY <1>1, <1>2 DEF EntriesOf, Entering, Once, Never

\* A transaction that is on the way keeps its part of the invariant.
LEMMA SaleKept ==
    ASSUME TypeInv, EngineInv, NEW t \in Tx, Apart(t), SaleOf(t),
           \A r \in locks[t] : db'[r] = db[r],
           req[t].op = "webhook" =>
              \/ db'[req[t].order] = db[req[t].order]
              \/ db'[req[t].order] = [db[req[t].order] EXCEPT !.status = "COMPLETED"]
    PROVE  SaleOf(t)'
<1>1. wrote[t] \subseteq locks[t]
  BY DEF EngineInv, LocksExclusive
<1>2. /\ pc'[t] = pc[t] /\ req'[t] = req[t] /\ Waits(t)
      /\ t \in serial' <=> t \in serial
      /\ wrote'[t] = wrote[t]
  BY DEF Apart, Waits
<1> QED
  BY <1>1, <1>2, WorkKept, FoundKept DEF SaleOf

SaleInv == SalesInProgress /\ EntriesInProgress /\ OrdersSettled

\* SaleFacts up to the commit.
LEMMA InSale ==
    ASSUME TypeInv, NEW t \in Tx, SaleOf(t), t \in serial
    PROVE  /\ ProductOf(t) \in Product /\ MerchantOf(t) \in User
           /\ AmountOf(t) \in Nat /\ OrderOf(t) \in Tx
           /\ WorkOnTables(t)
           /\ req[t].op = "webhook" => FoundOrder(t) /\ ~Buys(t) /\ OrderOf(t) = req[t].order
           /\ req[t].op # "webhook" =>
                 Buys(t) /\ OrderOf(t) = t /\ req[t].user \in User
<1>1. req[t].op \in {"walletOrder", "webhook"} /\ WorkOnTables(t)
  BY DEF SaleOf
<1>2. CASE req[t].op = "walletOrder"
  <2>1. req[t].user \in User /\ req[t].product \in Product
    BY <1>2, RequestFacts DEF TypeInv, TypeOK
  <2>2. Read(t, req[t].product).price \in Nat
    BY <2>1, ReadTyped, OrderAssumption DEF TypeInv, TypeOK, Contents
  <2> QED
    BY <1>1, <1>2, <2>1, <2>2, OrderAssumption
       DEF ProductOf, MerchantOf, AmountOf, OrderOf, Buys
<1>3. CASE req[t].op = "webhook"
  <2>1. req[t].order \in Tx
    BY <1>3, RequestFacts DEF TypeInv, TypeOK
  <2>2. FoundOrder(t) /\ seen[t] \in OrderRow
    BY <1>3 DEF SaleOf, FoundOrder
  <2>3. seen[t].product \in Product /\ seen[t].amount \in Nat
    BY <2>2 DEF OrderRow
  <2> QED
    BY <1>1, <1>3, <2>1, <2>2, <2>3, OrderAssumption
       DEF ProductOf, MerchantOf, AmountOf, OrderOf, Buys
<1> QED
  BY <1>1, <1>2, <1>3

\* The only order among the rows a transaction has written is its own, ready
\* to commit.
LEMMA OwnOrder ==
    ASSUME TypeInv, NEW t \in Tx, SaleOf(t), NEW o \in Tx, o \in wrote[t]
    PROVE  t \in serial /\ Saved(t) /\ o = OrderOf(t)
<1>1. o \notin User /\ o \notin Product
  BY OrderAssumption
<1>2. t \in serial
  BY <1>1 DEF SaleOf
<1>3. /\ WorkOnTables(t) /\ ProductOf(t) \in Product /\ MerchantOf(t) \in User
      /\ Buys(t) => req[t].user \in User
  BY <1>2, InSale DEF Buys
<1>4. Debited(t) => Buys(t)
  BY DEF Debited
<1> QED
  BY <1>1, <1>2, <1>3, <1>4 DEF WorkOnTables

\* A number that an order has is answered, and stays as it is.
LEMMA PlacedStays ==
    ASSUME TypeInv, OrdersSettled, [Next]_vars, NEW o \in Tx, db[o] # NoOrder
    PROVE  pc[o] \in Answers /\ pc'[o] = pc[o] /\ req'[o] = req[o]
<1>1. pc[o] \in Answers /\ req[o].op # "webhook"
  BY DEF OrdersSettled, Buys
<1>2. ASSUME NEW t \in Tx, Move(t) PROVE pc'[o] = pc[o] /\ req'[o] = req[o]
  <2>1. ~(pc[t] \in {"idle", "createSession"}) \/ o # t
    BY <1>1 DEF Answers
  <2> QED
    BY <1>1, <1>2, <2>1 DEF Move, Enters, GoesOn, Opens, Settles, Same
<1> QED
  BY <1>1, <1>2, Moves

\* The order of a number changes only by being completed.
LEMMA OrderChanges ==
    ASSUME TypeInv, SaleInv, [Next]_vars, NEW o \in Tx, db[o] # NoOrder
    PROVE  db'[o] = db[o] \/ db'[o] = [db[o] EXCEPT !.status = "COMPLETED"]
<1>1. o \in Row /\ DOMAIN db = Row /\ o \notin Product
  BY OrderAssumption DEF TypeInv, TypeOK, TablesOK, EngineTypeOK
<1>2. pc[o] \in Answers
  BY PlacedStays DEF SaleInv
<1>3. CASE Quiet
  BY <1>3 DEF Quiet, dbVars
<1>4. ASSUME NEW t \in Tx, Effect(t)
      PROVE  db'[o] = db[o] \/ db'[o] = [db[o] EXCEPT !.status = "COMPLETED"]
  <2>1. CASE Begins(t) \/ Locks(t) \/ DecrementStock(t) \/ SaveOrder(t) \/ WriteWallet(t)
    BY <2>1 DEF Begins, TakeSnapshot, Locks, SelectForUpdate, DecrementStock, SaveOrder,
       WriteWallet, Write, WriteAndLog, Put
  <2>2. CASE MovesMoney(t)
    BY <2>2, MoveIsWrite DEF WriteAndLog, Put
  <2>3. CASE Rollback(t)
    BY <2>3 DEF Rollback
  <2>4. CASE pc[t] = "commit" /\ Commit(t) /\ o \in wrote[t]
    <3>1. SaleOf(t)
      BY PartsOfSales DEF SaleInv
    <3>2. t \in serial /\ Saved(t) /\ o = OrderOf(t)
      BY <2>4, <3>1, OwnOrder
    <3>3. t # o
      BY <1>2, <2>4 DEF Answers
    <3>4. ~Buys(t) /\ WorkOnTables(t)
      BY <3>1, <3>2, <3>3, InSale
    <3>5. view[t][o] = [db[o] EXCEPT !.status = "COMPLETED"]
      BY <3>2, <3>4 DEF WorkOnTables
    <3> QED
      BY <1>1, <2>4, <3>5 DEF Commit
  <2>5. CASE Commit(t) /\ o \notin wrote[t]
    BY <1>1, <2>5 DEF Commit
  <2>6. CASE Publishes(t)
    <3>1. pc[t] = "insertOrder" => o # t
      BY <1>2 DEF Answers
    <3> QED
      BY <1>1, <2>6, <3>1 DEF Publishes, AutoCommit
  <2> QED
    BY <1>4, <2>1, <2>2, <2>3, <2>4, <2>5, <2>6 DEF Effect, Ends
<1> QED
  BY <1>3, <1>4, Effects

-----------------------------------------------------------------------------
(* The steps.                                                              *)

\* Outside a sale nothing of an order is being entered.
LEMMA NoEntries ==
    ASSUME NEW t \in Tx, t \notin serial', \/ inserted'[t] = Nothing
                                           \/ t \notin serial /\ inserted'[t] = inserted[t],
           EntriesOf(t), User \subseteq Row
    PROVE  EntriesOf(t)'
<1>1. ~Debited(t)' /\ ~Credited(t)'
  BY DEF Debited, Credited, Locked
<1>2. \A o \in Tx : \A u \in User :
        Never(inserted'[t][u], "PAYMENT", o) /\ Never(inserted'[t][u], "EARNING", o)
  <2>1. CASE inserted'[t] = Nothing
    BY <2>1 DEF Nothing, Never, Marks
  <2>2. CASE t \notin serial /\ inserted'[t] = inserted[t]
    <3>1. ~Debited(t) /\ ~Credited(t)
      BY <2>2 DEF Debited, Credited, Locked
    <3> QED
      BY <2>2, <3>1 DEF EntriesOf, Entering
  <2> QED
    BY <2>1, <2>2
<1> QED
  BY <1>1, <1>2 DEF EntriesOf, Entering, Never

LEMMA FoundIsPlaced ==
    ASSUME NEW t \in Tx, FoundOrder(t)
    PROVE  db[req[t].order] \in OrderRow /\ db[req[t].order] # NoOrder
BY NoOrderIsNone DEF FoundOrder, OrderRow

\* What t can rely on when it is not the one that acts.
LEMMA OtherKept ==
    ASSUME TypeInv, EngineInv, SaleInv, [Next]_vars, NEW t \in Tx, Apart(t),
           \A r \in locks[t] : db'[r] = db[r]
    PROVE  SaleOf(t)' /\ EntriesOf(t)'
<1>1. SaleOf(t) /\ EntriesOf(t)
  BY PartsOfSales DEF SaleInv
<1>2. EntriesOf(t)'
  BY <1>1, EntriesKept
<1>3. CASE req[t].op = "webhook" /\ (t \in serial \/ pc[t] = "beginCompletion")
  <2>1. req[t].order \in Tx /\ db[req[t].order] # NoOrder
    BY <1>1, <1>3, RequestFacts, FoundIsPlaced DEF TypeInv, TypeOK, SaleOf
  <2> QED
    BY <1>1, <1>2, <2>1, OrderChanges, SaleKept
<1>4. CASE ~(req[t].op = "webhook" /\ (t \in serial \/ pc[t] = "beginCompletion"))
  <2>1. wrote[t] \subseteq locks[t]
    BY DEF EngineInv, LocksExclusive
  <2>2. t \in serial => WorkOnTables(t)'
    BY <1>1, <2>1, WorkKept DEF SaleOf
  <2>3. /\ t \in serial' <=> t \in serial
        /\ pc'[t] = pc[t] /\ req'[t] = req[t] /\ wrote'[t] = wrote[t]
    BY DEF Apart, Waits
  <2> HIDE DEF Apart
  <2> QED
    BY <1>1, <1>2, <1>4, <2>2, <2>3 DEF SaleOf
<1> QED
  BY <1>3, <1>4

LEMMA QuietSales ==
    ASSUME TypeInv, EngineInv, SaleInv, [Next]_vars, Quiet, NEW t \in Tx
    PROVE  SaleOf(t)' /\ EntriesOf(t)'
<1>1. UNCHANGED <<db, serial, view, wrote, locks, inserted>>
  BY DEF Quiet, dbVars
<1>2. TypeInv'
  BY TypeStep
<1>3. SaleOf(t) /\ EntriesOf(t)
  BY PartsOfSales DEF SaleInv
<1>4. CASE Waits(t)
  BY <1>1, <1>4, OtherKept DEF Apart
<1>5. CASE ~Waits(t)
  <2>1. pc'[t] \notin TxSteps \cup {"commit"}
    BY <1>5 DEF Quiet
  <2>2. t \notin serial' /\ t \notin serial
    BY <1>1, <1>2, <2>1 DEF TypeInv, StepsMatchRequests, StepMatches
  <2>3. EntriesOf(t)'
    BY <1>1, <1>3, <2>2, NoEntries, OrderAssumption
  <2>4. ASSUME pc'[t] = "beginCompletion", req'[t].op = "webhook" PROVE FoundOrder(t)'
    <3>1. Finds(t)
      BY <1>5, <2>4 DEF Quiet
    <3>2. seen'[t] \in OrderRow
      BY <1>2, <2>4 DEF TypeInv, CompletionsHaveOrders
    <3> QED
      BY <1>1, <3>1, <3>2 DEF Finds, FoundOrder
  <2>5. SaleOf(t)'
    BY <1>1, <1>3, <2>1, <2>2, <2>4 DEF SaleOf
  <2> QED
    BY <2>3, <2>5
<1> QED
  BY <1>4, <1>5

LEMMA BeginSales ==
    ASSUME TypeInv, EngineInv, SaleInv, [Next]_vars, NEW s \in Tx, Begins(s), NEW t \in Tx
    PROVE  SaleOf(t)' /\ EntriesOf(t)'
<1>1. /\ serial' = serial \cup {s} /\ view' = [view EXCEPT ![s] = db]
      /\ UNCHANGED <<db, wrote, locks, inserted>>
      /\ DOMAIN view = Tx
  BY DEF Begins, TakeSnapshot, TypeInv, TypeOK, TablesOK, EngineTypeOK
<1>2. CASE t # s
  <2>1. Apart(t)
    BY <1>1, <1>2 DEF Begins, Others, Apart
  <2> QED
    BY <1>1, <2>1, OtherKept
<1>3. CASE t = s
  <2>1. SaleOf(t) /\ EntriesOf(t) /\ wrote[t] = {} /\ t \notin serial
    BY <1>3, PartsOfSales
       DEF SaleInv, Begins, TypeInv, StepsMatchRequests, StepMatches, TxSteps
  <2>2. ~Locked(t)' /\ pc'[t] = "lockProduct"
    BY <1>3 DEF Begins, Locked
  <2>3. ~Debited(t)' /\ ~Credited(t)' /\ ~Taken(t)' /\ ~Saved(t)'
    BY <2>2 DEF Debited, Credited, Taken, Saved
  <2>4. EntriesOf(t)'
    <3>1. ~Debited(t) /\ ~Credited(t)
      BY <2>1 DEF Debited, Credited, Locked
    <3>2. inserted'[t] = inserted[t]
      BY <1>1
    <3> QED
      BY <2>1, <2>3, <3>1, <3>2 DEF EntriesOf, Entering, Never
  <2>5. WorkOnTables(t)'
    <3>1. wrote'[t] = {}
      BY <1>1, <2>1
    <3> HIDE DEF Locked, Debited, Credited, Taken, Saved
    <3> QED
      BY <2>2, <2>3, <3>1 DEF WorkOnTables
  <2>6. CASE pc[t] = "idle" /\ req'[t].op = "walletOrder"
    BY <1>1, <1>3, <2>2, <2>5, <2>6, <2>4 DEF SaleOf
  <2>7. CASE pc[t] = "beginCompletion" /\ seen'[t] = seen[t] /\ req'[t] = req[t]
    <3>1. req[t].op = "webhook"
      BY <2>7 DEF TypeInv, StepsMatchRequests, StepMatches
    <3>2. FoundOrder(t)'
      BY <1>1, <2>1, <2>7, <3>1 DEF SaleOf, FoundOrder
    <3> QED
      BY <1>1, <1>3, <2>2, <2>5, <2>7, <2>4, <3>1, <3>2 DEF SaleOf
  <2> QED
    BY <1>3, <2>6, <2>7 DEF Begins
<1> QED
  BY <1>2, <1>3

\* A row that a serializable transaction may write and has not written yet is
\* still the one in its snapshot.
LEMMA ReadIsCommitted ==
    ASSUME EngineInv, NEW t \in Tx, NEW r \in Row, t \in serial, Obtainable(t, r),
           r \notin wrote[t]
    PROVE  view[t][r] = db[r] /\ Read(t, r) = db[r]
BY DEF Obtainable, Stale, EngineInv, SnapshotCurrent, Read

LEMMA LockSales ==
    ASSUME TypeInv, EngineInv, SaleInv, [Next]_vars, NEW s \in Tx, Locks(s), NEW t \in Tx
    PROVE  SaleOf(t)' /\ EntriesOf(t)'
<1>1. /\ UNCHANGED <<db, serial, view, wrote, inserted, req, seen>>
      /\ locks' = [locks EXCEPT ![s] = @ \cup {ProductOf(s)}]
      /\ Obtainable(s, ProductOf(s)) /\ pc[s] = "lockProduct"
      /\ Sellable(s, Read(s, ProductOf(s)))
      /\ pc' = [pc EXCEPT ![s] = IF req[s].op = "webhook" THEN "credit" ELSE "debit"]
  BY DEF Locks, SelectForUpdate, Goto
<1>2. DOMAIN locks = Tx /\ DOMAIN pc = Tx
  BY DEF TypeInv, TypeOK, TablesOK, EngineTypeOK, RequestsOK
<1>3. CASE t # s
  <2>1. Apart(t)
    BY <1>1, <1>2, <1>3 DEF Apart, Waits
  <2> QED
    BY <1>1, <2>1, OtherKept
<1>4. CASE t = s
  <2>1. SaleOf(t) /\ EntriesOf(t)
    BY PartsOfSales DEF SaleInv
  <2>2. /\ t \in serial /\ ProductOf(t) \in Product /\ ProductOf(t) \in Row
        /\ WorkOnTables(t) /\ AmountOf(t)' = AmountOf(t) /\ Buys(t)' = Buys(t)
        /\ ProductOf(t)' = ProductOf(t) /\ OrderOf(t)' = OrderOf(t)
        /\ MerchantOf(t)' = MerchantOf(t)
    BY <1>1, <1>4, <2>1, SaleFacts, InSale, OrderAssumption
       DEF TxSteps, AmountOf, Read, ProductOf, OrderOf, MerchantOf, Buys
  <2>3. /\ ~Debited(t) /\ ~Credited(t) /\ ~Taken(t) /\ ~Saved(t)
        /\ wrote[t] = {}
    <3>1. ~Debited(t) /\ ~Credited(t) /\ ~Taken(t) /\ ~Saved(t)
      BY <1>1, <1>4 DEF Debited, Credited, Taken, Saved, Locked
    <3> QED
      BY <2>2, <3>1 DEF WorkOnTables
  <2>4. ~Debited(t)' /\ ~Credited(t)' /\ ~Taken(t)' /\ ~Saved(t)'
    BY <1>1, <1>2, <1>4 DEF Debited, Credited, Taken, Saved, Locked, Buys
  <2>5. /\ view[t][ProductOf(t)] = db[ProductOf(t)]
        /\ db[ProductOf(t)].stock > 0
        /\ Buys(t) => db[ProductOf(t)].active
    BY <1>1, <1>4, <2>2, <2>3, ReadIsCommitted DEF Sellable, Buys
  <2>6. WorkOnTables(t)'
    <3>1. wrote'[t] = {} /\ ProductOf(t) \in locks'[t]
      BY <1>1, <1>2, <1>4, <2>3
    <3> HIDE DEF Debited, Credited, Taken, Saved
    <3> QED
      BY <1>1, <2>2, <2>4, <2>5, <3>1 DEF WorkOnTables
  <2>7. EntriesOf(t)'
    BY <1>1, <2>1, <2>3, <2>4 DEF EntriesOf, Entering, Never
  <2>8. req[t].op = "webhook" => FoundOrder(t)'
    BY <1>1, <2>1, <2>2 DEF SaleOf, FoundOrder
  <2> QED
    BY <1>1, <2>1, <2>2, <2>6, <2>7, <2>8 DEF SaleOf
<1> QED
  BY <1>3, <1>4

\* A write of s is nothing to the others.
LEMMA OthersApart ==
    ASSUME TypeInv, NEW s \in Tx, NEW t \in Tx \ {s}, NEW r \in Row, NEW c, NEW step,
           Put(s, r, c), Goto(s, step),
           inserted' = inserted \/ \E new : inserted' = [inserted EXCEPT ![s][r] = new]
    PROVE  Apart(t) /\ \A x \in locks[t] : db'[x] = db[x]
<1>1. /\ UNCHANGED <<db, serial, req, seen>>
      /\ locks' = [locks EXCEPT ![s] = @ \cup {r}]
      /\ wrote' = [wrote EXCEPT ![s] = @ \cup {r}]
      /\ view' = [view EXCEPT ![s][r] = c]
      /\ pc' = [pc EXCEPT ![s] = step]
  BY DEF Put, Goto
<1>2. DOMAIN locks = Tx /\ DOMAIN pc = Tx /\ DOMAIN wrote = Tx /\ DOMAIN view = Tx
      /\ DOMAIN inserted = Tx
  BY DEF TypeInv, TypeOK, TablesOK, EngineTypeOK, RequestsOK
<1>3. inserted'[t] = inserted[t]
  BY <1>2
<1> QED
  BY <1>1, <1>2, <1>3 DEF Apart, Waits

\* The sale does not change its order, product and amount by writing.
LEMMA SaleNamesStay ==
    ASSUME NEW t \in Tx, t \in serial, UNCHANGED <<serial, req, seen>>,
           req[t].op # "webhook" => view'[t][req[t].product].price = view[t][req[t].product].price
    PROVE  /\ OrderOf(t)' = OrderOf(t) /\ ProductOf(t)' = ProductOf(t)
           /\ MerchantOf(t)' = MerchantOf(t) /\ AmountOf(t)' = AmountOf(t)
           /\ Buys(t)' = Buys(t)
BY DEF OrderOf, ProductOf, MerchantOf, AmountOf, Read, Buys

\* deductFromWallet: the sale has its payment.
LEMMA DebitSale ==
    ASSUME TypeInv, EngineInv, SaleInv, NEW t \in Tx, pc[t] = "debit",
           req[t].op = "walletOrder",
           deductFromWallet(t, req[t].user, AmountOf(t), OrderOf(t)), Goto(t, "credit")
    PROVE  SaleOf(t)' /\ EntriesOf(t)'
<1> DEFINE u == req[t].user
           a == AmountOf(t)
           e == Entry("PAYMENT", a, Read(t, u), Read(t, u) - a, OrderOf(t))
<1>1. SaleOf(t) /\ EntriesOf(t) /\ t \in serial
  BY PartsOfSales, SaleFacts DEF SaleInv, TxSteps
<1>2. /\ u \in User /\ a \in Nat /\ OrderOf(t) \in Tx /\ OrderOf(t) = t
      /\ MerchantOf(t) \in User /\ ProductOf(t) \in Product /\ WorkOnTables(t) /\ Buys(t)
      /\ req[t].product \in Product /\ u \in Row /\ ProductOf(t) # u /\ req[t].product # u
  BY <1>1, InSale, SaleFacts, OrderAssumption DEF TxSteps
<1>3. /\ Locked(t) /\ ~Debited(t) /\ ~Credited(t) /\ ~Taken(t) /\ ~Saved(t)
  BY <1>1 DEF Debited, Credited, Taken, Saved, Locked
<1>4. wrote[t] = {}
  BY <1>2, <1>3 DEF WorkOnTables
<1>5. /\ u \notin LockedWallets /\ ~(Read(t, u) < a) /\ Obtainable(t, u)
      /\ locks' = [locks EXCEPT ![t] = @ \cup {u}]
      /\ wrote' = [wrote EXCEPT ![t] = @ \cup {u}]
      /\ view' = [view EXCEPT ![t][u] = Read(t, u) - a]
      /\ inserted' = [inserted EXCEPT ![t][u] = Append(@, e)]
      /\ UNCHANGED <<db, serial, req, seen>>
      /\ pc' = [pc EXCEPT ![t] = "credit"]
  BY DEF deductFromWallet, CannotPay, WriteAndLog, Put, Goto
<1>6. Read(t, u) = db[u] /\ db[u] \in Int
  <2>1. Contents(u) = Int /\ db[u] \in Contents(u)
    BY <1>2 DEF TypeInv, TypeOK, TablesOK, Contents
  <2>2. u \notin wrote[t]
    BY <1>4
  <2> QED
    BY <1>1, <1>2, <1>5, <2>1, <2>2, ReadIsCommitted
<1>7. /\ DOMAIN locks = Tx /\ DOMAIN pc = Tx /\ DOMAIN wrote = Tx /\ DOMAIN view = Tx
      /\ DOMAIN view[t] = Row
      /\ inserted \in [Tx -> [Row -> Seq(LedgerRow)]]
  BY DEF TypeInv, TypeOK, TablesOK, EngineTypeOK, RequestsOK
<1> HIDE DEF u, a, e
<1>8. /\ \A r \in Row : view'[t][r] = IF r = u THEN db[u] - a ELSE view[t][r]
      /\ wrote'[t] = {u} /\ locks[t] \subseteq locks'[t]
      /\ \A r \in Row : inserted'[t][r] =
            IF r = u THEN Append(inserted[t][u], e) ELSE inserted[t][r]
      /\ pc'[t] = "credit"
  BY <1>2, <1>4, <1>5, <1>6, <1>7
<1>9. /\ OrderOf(t)' = OrderOf(t) /\ ProductOf(t)' = ProductOf(t)
      /\ MerchantOf(t)' = MerchantOf(t) /\ AmountOf(t)' = a /\ Buys(t)' = Buys(t)
  <2>1. req[t].product \in Row
    BY <1>2, OrderAssumption
  <2> QED
    BY <1>1, <1>2, <1>5, <1>8, <2>1, SaleNamesStay DEF a
<1>10. Locked(t)' /\ Debited(t)' /\ ~Credited(t)' /\ ~Taken(t)' /\ ~Saved(t)'
  BY <1>1, <1>2, <1>5, <1>8, <1>9 DEF Debited, Credited, Taken, Saved, Locked
<1>11. WorkOnTables(t)'
  <2>1. ProductOf(t) \in Row
    BY <1>2, OrderAssumption
  <2>2. view'[t][ProductOf(t)] = view[t][ProductOf(t)]
    BY <1>2, <1>8, <2>1
  <2>3. /\ ProductOf(t) \in locks[t] /\ db[ProductOf(t)].stock > 0
        /\ Buys(t) => db[ProductOf(t)].active
        /\ view[t][ProductOf(t)] = db[ProductOf(t)]
    BY <1>2, <1>3 DEF WorkOnTables
  <2>4. req'[t].user = u /\ db[u] >= a
    BY <1>2, <1>5, <1>6 DEF u
  <2>5. \A x \in User : x = u => BalanceInSale(t, x)' = db[u] - a
    <3> HIDE DEF Debited, Credited
    <3> QED
      BY <1>2, <1>5, <1>6, <1>9, <1>10, <2>4 DEF BalanceInSale
  <2> HIDE DEF Locked, Debited, Credited, Taken, Saved, Buys
  <2> QED
    BY <1>2, <1>5, <1>8, <1>9, <1>10, <2>2, <2>3, <2>4, <2>5 DEF WorkOnTables
<1>12. EntriesOf(t)'
  <2>1. /\ e.type = "PAYMENT" /\ e.ref = OrderOf(t) /\ e.amount = a
    BY DEF e, Entry
  <2>2. \A v \in User, o \in Tx :
          /\ inserted[t][v] \in Seq(LedgerRow) /\ v \in Row
          /\ Never(inserted[t][v], "PAYMENT", o) /\ Never(inserted[t][v], "EARNING", o)
    BY <1>1, <1>3, <1>7, OrderAssumption DEF EntriesOf, Entering
  <2>3. ASSUME NEW v \in User, NEW o \in Tx PROVE Never(inserted'[t][v], "EARNING", o)
    BY <1>2, <1>8, <2>1, <2>2, NeverAppended
  <2>4. ASSUME NEW v \in User, NEW o \in Tx, v # u \/ o # OrderOf(t)
        PROVE  Never(inserted'[t][v], "PAYMENT", o)
    BY <1>2, <1>8, <2>1, <2>2, <2>4, NeverAppended
  <2>5. Once(inserted'[t][u], "PAYMENT", OrderOf(t), a)
    BY <1>2, <1>8, <2>1, <2>2, FirstAppended
  <2>6. req'[t].user = u
    BY <1>5 DEF u
  <2> QED
    BY <1>2, <1>9, <1>10, <2>3, <2>4, <2>5, <2>6 DEF EntriesOf, Entering, Never, Once
<1> QED
  BY <1>1, <1>5, <1>8, <1>11, <1>12 DEF SaleOf

\* creditToWallet: the sale has its earning, which may be the buyer's own.
LEMMA CreditSale ==
    ASSUME TypeInv, EngineInv, SaleInv, NEW t \in Tx, pc[t] = "credit",
           creditToWallet(t, MerchantOf(t), AmountOf(t), OrderOf(t)), Goto(t, "decrement")
    PROVE  SaleOf(t)' /\ EntriesOf(t)'
<1> DEFINE u == MerchantOf(t)
           a == AmountOf(t)
           e == Entry("EARNING", a, Read(t, u), Read(t, u) + a, OrderOf(t))
<1>1. SaleOf(t) /\ EntriesOf(t) /\ t \in serial
  BY PartsOfSales, SaleFacts DEF SaleInv, TxSteps
<1>2. /\ u \in User /\ a \in Nat /\ OrderOf(t) \in Tx
      /\ ProductOf(t) \in Product /\ WorkOnTables(t)
      /\ req[t].op # "webhook" =>
            req[t].user \in User /\ req[t].product \in Product /\ req[t].product # u
      /\ u \in Row /\ ProductOf(t) # u
  BY <1>1, InSale, SaleFacts, OrderAssumption DEF TxSteps
<1>3. /\ Locked(t) /\ ~Credited(t) /\ ~Taken(t) /\ ~Saved(t) /\ (Debited(t) <=> Buys(t))
  BY <1>1 DEF Debited, Credited, Taken, Saved, Locked
<1>4. /\ wrote[t] = IF Debited(t) THEN {req[t].user} ELSE {}
      /\ Debited(t) => req[t].user \in User
  <2> HIDE DEF Debited
  <2> QED
    BY <1>2, <1>3, OrderAssumption DEF WorkOnTables, Buys
<1>5. /\ Obtainable(t, u)
      /\ locks' = [locks EXCEPT ![t] = @ \cup {u}]
      /\ wrote' = [wrote EXCEPT ![t] = @ \cup {u}]
      /\ view' = [view EXCEPT ![t][u] = Read(t, u) + a]
      /\ inserted' = [inserted EXCEPT ![t][u] = Append(@, e)]
      /\ UNCHANGED <<db, serial, req, seen>>
      /\ pc' = [pc EXCEPT ![t] = "decrement"]
  BY DEF creditToWallet, WriteAndLog, Put, Goto
<1>6. \A x \in User : db[x] \in Int
  BY OrderAssumption DEF TypeInv, TypeOK, TablesOK, Contents
<1>7. Read(t, u) = db[u] - (IF Debited(t) /\ u = req[t].user THEN a ELSE 0)
  <2>1. CASE u \in wrote[t]
    <3>1. Read(t, u) = BalanceInSale(t, u)
      BY <1>2, <2>1 DEF WorkOnTables, Read
    <3>2. Debited(t) /\ u = req[t].user /\ ~Credited(t)
      BY <1>3, <1>4, <2>1
    <3> HIDE DEF Debited, Credited
    <3> QED
      BY <1>2, <1>6, <3>1, <3>2 DEF BalanceInSale
  <2>2. CASE u \notin wrote[t]
    <3>1. Read(t, u) = db[u]
      BY <1>1, <1>2, <1>5, <2>2, ReadIsCommitted
    <3>2. ~(Debited(t) /\ u = req[t].user)
      BY <1>4, <2>2
    <3> QED
      BY <1>2, <1>6, <3>1, <3>2
  <2> QED
    BY <2>1, <2>2
<1>8. /\ DOMAIN locks = Tx /\ DOMAIN pc = Tx /\ DOMAIN wrote = Tx /\ DOMAIN view = Tx
      /\ DOMAIN view[t] = Row
      /\ inserted \in [Tx -> [Row -> Seq(LedgerRow)]]
  BY DEF TypeInv, TypeOK, TablesOK, EngineTypeOK, RequestsOK
<1> HIDE DEF u, a, e
<1>9. /\ \A r \in Row : view'[t][r] = IF r = u THEN Read(t, u) + a ELSE view[t][r]
      /\ wrote'[t] = wrote[t] \cup {u} /\ locks[t] \subseteq locks'[t]
      /\ \A r \in Row : inserted'[t][r] =
            IF r = u THEN Append(inserted[t][u], e) ELSE inserted[t][r]
      /\ pc'[t] = "decrement"
  BY <1>2, <1>5, <1>8
<1>10. /\ OrderOf(t)' = OrderOf(t) /\ ProductOf(t)' = ProductOf(t)
       /\ MerchantOf(t)' = u /\ AmountOf(t)' = a /\ Buys(t)' = Buys(t)
  <2>1. req[t].op # "webhook" => req[t].product \in Row
    BY <1>2, OrderAssumption
  <2> QED
    BY <1>1, <1>2, <1>5, <1>9, <2>1, SaleNamesStay DEF a, u
<1>11. /\ Locked(t)' /\ Credited(t)' /\ ~Taken(t)' /\ ~Saved(t)'
       /\ Debited(t)' <=> Debited(t)
  BY <1>1, <1>3, <1>5, <1>9, <1>10 DEF Debited, Credited, Taken, Saved, Locked
<1>12. req'[t] = req[t] /\ db' = db
  BY <1>5
<1>13. WorkOnTables(t)'
  <2>1. ProductOf(t) \in Row
    BY <1>2, OrderAssumption
  <2>2. view'[t][ProductOf(t)] = view[t][ProductOf(t)]
    BY <1>2, <1>9, <2>1
  <2>3. /\ ProductOf(t) \in locks[t] /\ db[ProductOf(t)].stock > 0
        /\ Buys(t) => db[ProductOf(t)].active
        /\ view[t][ProductOf(t)] = db[ProductOf(t)]
        /\ Debited(t) => req[t].user \notin LockedWallets /\ db[req[t].user] >= a
    BY <1>2, <1>3 DEF WorkOnTables, a
  <2>4. ASSUME NEW x \in User, x \in wrote'[t]
        PROVE  view'[t][x] = BalanceInSale(t, x)'
    <3> HIDE DEF Debited, Credited
    <3>1. BalanceInSale(t, x)' =
             db[x] - (IF Debited(t) /\ x = req[t].user THEN a ELSE 0)
                   + (IF x = u THEN a ELSE 0)
      BY <1>10, <1>11, <1>12 DEF BalanceInSale
    <3>2. CASE x = u
      BY <1>2, <1>6, <1>7, <1>9, <3>1, <3>2
    <3>3. CASE x # u
      <4>1. x \in wrote[t] /\ Debited(t) /\ x = req[t].user
        BY <1>4, <1>9, <2>4, <3>3
      <4>2. x \in Row /\ view[t][x] = BalanceInSale(t, x)
        BY <1>2, <4>1, OrderAssumption DEF WorkOnTables
      <4>3. BalanceInSale(t, x) = db[x] - a
        BY <1>2, <1>3, <1>6, <4>1 DEF BalanceInSale, a
      <4> QED
        BY <1>2, <1>6, <1>9, <3>1, <3>3, <4>1, <4>2, <4>3
    <3> QED
      BY <3>2, <3>3
  <2>5. wrote'[t] = (IF Debited(t)' THEN {req'[t].user} ELSE {}) \cup {u}
    BY <1>4, <1>9, <1>11, <1>12
  <2> HIDE DEF Locked, Debited, Credited, Taken, Saved, Buys
  <2> QED
    BY <1>9, <1>10, <1>11, <1>12, <2>2, <2>3, <2>4, <2>5 DEF WorkOnTables
<1>14. EntriesOf(t)'
  <2>1. /\ e.type = "EARNING" /\ e.ref = OrderOf(t) /\ e.amount = a
    BY DEF e, Entry
  <2>2. \A v \in User, o \in Tx :
          /\ inserted[t][v] \in Seq(LedgerRow) /\ v \in Row
          /\ Never(inserted[t][v], "EARNING", o)
          /\ Entering(t, inserted[t][v], "PAYMENT", o,
                      Debited(t) /\ o = OrderOf(t) /\ v = req[t].user)
    BY <1>1, <1>3, <1>8, OrderAssumption DEF EntriesOf, Entering
  <2>3. ASSUME NEW v \in User, NEW o \in Tx, v # u \/ o # OrderOf(t)
        PROVE  Never(inserted'[t][v], "EARNING", o)
    BY <1>2, <1>9, <2>1, <2>2, <2>3, NeverAppended
  <2>4. Once(inserted'[t][u], "EARNING", OrderOf(t), a)
    BY <1>2, <1>9, <2>1, <2>2, FirstAppended
  <2>5. ASSUME NEW v \in User, NEW o \in Tx, Debited(t) /\ o = OrderOf(t) /\ v = req[t].user
        PROVE  Once(inserted'[t][v], "PAYMENT", o, a)
    <3>1. Once(inserted[t][v], "PAYMENT", o, a)
      BY <2>2, <2>5 DEF Entering, a
    <3> QED
      BY <1>2, <1>9, <2>1, <2>2, <3>1, OnceAppended
  <2>6. ASSUME NEW v \in User, NEW o \in Tx, ~(Debited(t) /\ o = OrderOf(t) /\ v = req[t].user)
        PROVE  Never(inserted'[t][v], "PAYMENT", o)
    <3>1. Never(inserted[t][v], "PAYMENT", o)
      BY <2>2, <2>6 DEF Entering
    <3> QED
      BY <1>2, <1>9, <2>1, <2>2, <3>1, NeverAppended
  <2> HIDE DEF Debited, Credited
  <2> QED
    BY <1>10, <1>11, <1>12, <2>3, <2>4, <2>5, <2>6 DEF EntriesOf, Entering, Never, Once
<1>15. req[t].op = "webhook" => FoundOrder(t)'
  BY <1>1, <1>5 DEF SaleOf, FoundOrder
<1> QED
  BY <1>1, <1>5, <1>9, <1>13, <1>14, <1>15 DEF SaleOf

\* Statements of a sale that enter nothing leave its entries alone.
LEMMA SaleEntriesKept ==
    ASSUME NEW t \in Tx, EntriesOf(t), UNCHANGED <<inserted, req>>,
           OrderOf(t)' = OrderOf(t), MerchantOf(t)' = MerchantOf(t),
           AmountOf(t)' = AmountOf(t),
           Debited(t)' <=> Debited(t), Credited(t)' <=> Credited(t)
    PROVE  EntriesOf(t)'
BY DEF EntriesOf, Entering, Once, Never

\* The unit leaves the stock that is committed.
LEMMA DecrementSale ==
    ASSUME TypeInv, EngineInv, SaleInv, NEW t \in Tx, DecrementStock(t)
    PROVE  SaleOf(t)' /\ EntriesOf(t)'
<1> DEFINE p == ProductOf(t)
           row == [Read(t, p) EXCEPT !.stock = @ - 1]
<1>1. SaleOf(t) /\ EntriesOf(t) /\ t \in serial /\ pc[t] = "decrement"
  BY PartsOfSales, SaleFacts DEF SaleInv, TxSteps, DecrementStock
<1>2. /\ p \in Product /\ p \in Row /\ p \notin User /\ p \notin Tx
      /\ WorkOnTables(t) /\ MerchantOf(t) \in User /\ OrderOf(t) \in Tx
      /\ req[t].op # "webhook" => req[t].product = p /\ req[t].user \in User
  BY <1>1, InSale, SaleFacts, OrderAssumption DEF TxSteps, ProductOf
<1>3. /\ Locked(t) /\ Credited(t) /\ ~Taken(t) /\ ~Saved(t) /\ (Debited(t) <=> Buys(t))
  BY <1>1 DEF Debited, Credited, Taken, Saved, Locked
<1>4. Read(t, p) = view[t][p] /\ view[t][p] = db[p]
  BY <1>1, <1>2, <1>3 DEF WorkOnTables, Read
<1>5. db[p] \in [stock : Int, price : Nat, active : BOOLEAN]
  BY <1>2, OrderAssumption DEF TypeInv, TypeOK, TablesOK, Contents
<1>6. row = [db[p] EXCEPT !.stock = @ - 1] /\ row.price = db[p].price
  BY <1>4, <1>5
<1>7. /\ locks' = [locks EXCEPT ![t] = @ \cup {p}]
      /\ wrote' = [wrote EXCEPT ![t] = @ \cup {p}]
      /\ view' = [view EXCEPT ![t][p] = row]
      /\ UNCHANGED <<db, serial, inserted, req, seen>>
      /\ pc' = [pc EXCEPT ![t] = "saveOrder"]
  BY DEF DecrementStock, Write, Put, Goto
<1>8. /\ DOMAIN locks = Tx /\ DOMAIN pc = Tx /\ DOMAIN wrote = Tx /\ DOMAIN view = Tx
      /\ DOMAIN view[t] = Row
  BY DEF TypeInv, TypeOK, TablesOK, EngineTypeOK, RequestsOK
<1> HIDE DEF p, row
<1>9. /\ \A r \in Row : view'[t][r] = IF r = p THEN row ELSE view[t][r]
      /\ wrote'[t] = wrote[t] \cup {p} /\ locks'[t] = locks[t] \cup {p}
      /\ pc'[t] = "saveOrder"
  BY <1>2, <1>7, <1>8
<1>10. /\ OrderOf(t)' = OrderOf(t) /\ ProductOf(t)' = p
       /\ MerchantOf(t)' = MerchantOf(t) /\ AmountOf(t)' = AmountOf(t) /\ Buys(t)' = Buys(t)
  BY <1>1, <1>2, <1>4, <1>6, <1>7, <1>9, SaleNamesStay DEF p
<1>11. /\ Locked(t)' /\ Credited(t)' /\ Taken(t)' /\ ~Saved(t)'
       /\ Debited(t)' <=> Debited(t)
  BY <1>1, <1>3, <1>7, <1>9, <1>10 DEF Debited, Credited, Taken, Saved, Locked
<1>12. req'[t] = req[t] /\ db' = db
  BY <1>7
<1>13. WorkOnTables(t)'
  <2>1. /\ db[p].stock > 0
        /\ Buys(t) => db[p].active
        /\ Debited(t) => req[t].user \notin LockedWallets /\ db[req[t].user] >= AmountOf(t)
        /\ wrote[t] = (IF Debited(t) THEN {req[t].user} ELSE {}) \cup {MerchantOf(t)}
    <3> HIDE DEF Locked, Debited, Credited, Taken, Saved, Buys
    <3> QED
      BY <1>2, <1>3 DEF WorkOnTables, p
  <2>2. \A x \in User : BalanceInSale(t, x)' = BalanceInSale(t, x)
    <3> HIDE DEF Debited, Credited
    <3> QED
      BY <1>3, <1>10, <1>11, <1>12 DEF BalanceInSale
  <2>3. \A x \in User \cap wrote'[t] : view'[t][x] = BalanceInSale(t, x)'
    <3>1. \A x \in User \cap wrote'[t] : x \in User \cap wrote[t] /\ x \in Row /\ x # p
      BY <1>2, <1>9, OrderAssumption
    <3> QED
      BY <1>2, <1>9, <2>2, <3>1 DEF WorkOnTables
  <2>4. view'[t][p] = [db[p] EXCEPT !.stock = @ - 1] /\ p \in locks'[t]
    BY <1>2, <1>6, <1>9
  <2> HIDE DEF Locked, Debited, Credited, Taken, Saved, Buys
  <2> QED
    BY <1>9, <1>10, <1>11, <1>12, <2>1, <2>3, <2>4 DEF WorkOnTables
<1>14. EntriesOf(t)'
  BY <1>1, <1>3, <1>7, <1>10, <1>11, SaleEntriesKept
<1>15. req[t].op = "webhook" => FoundOrder(t)'
  BY <1>1, <1>7 DEF SaleOf, FoundOrder
<1> QED
  BY <1>1, <1>7, <1>9, <1>13, <1>14, <1>15 DEF SaleOf

\* The order that will be committed.
LEMMA SaveOrderSale ==
    ASSUME TypeInv, EngineInv, SaleInv, NEW t \in Tx, SaveOrder(t)
    PROVE  SaleOf(t)' /\ EntriesOf(t)'
<1> DEFINE o == OrderOf(t)
           row == IF req[t].op = "webhook"
                  THEN [Read(t, o) EXCEPT !.status = "COMPLETED"]
                  ELSE Order("COMPLETED", req[t].user, req[t].product, AmountOf(t))
<1>1. SaleOf(t) /\ EntriesOf(t) /\ t \in serial /\ pc[t] = "saveOrder"
  BY PartsOfSales, SaleFacts DEF SaleInv, TxSteps, SaveOrder
<1>2. /\ o \in Tx /\ o \in Row /\ o \notin User /\ o \notin Product
      /\ WorkOnTables(t) /\ MerchantOf(t) \in User /\ ProductOf(t) \in Product
      /\ ProductOf(t) \in Row
      /\ Buys(t) => req[t].user \in User
      /\ req[t].op # "webhook" =>
            Buys(t) /\ req[t].product = ProductOf(t) /\ req[t].product \in Product
      /\ req[t].op = "webhook" => ~Buys(t)
  BY <1>1, InSale, SaleFacts, OrderAssumption DEF TxSteps, ProductOf, Buys
<1>3. /\ Locked(t) /\ Credited(t) /\ Taken(t) /\ ~Saved(t) /\ (Debited(t) <=> Buys(t))
  BY <1>1 DEF Debited, Credited, Taken, Saved, Locked
<1>4. /\ wrote[t] = (IF Debited(t) THEN {req[t].user} ELSE {})
                    \cup {MerchantOf(t)} \cup {ProductOf(t)}
      /\ o \notin wrote[t]
  <2> HIDE DEF Locked, Debited, Credited, Taken, Saved, Buys
  <2> QED
    BY <1>2, <1>3 DEF WorkOnTables
<1>5. /\ Obtainable(t, o)
      /\ locks' = [locks EXCEPT ![t] = @ \cup {o}]
      /\ wrote' = [wrote EXCEPT ![t] = @ \cup {o}]
      /\ view' = [view EXCEPT ![t][o] = row]
      /\ UNCHANGED <<db, serial, inserted, req, seen>>
      /\ pc' = [pc EXCEPT ![t] = "commit"]
  BY DEF SaveOrder, Write, Put, Goto
<1>6. Read(t, o) = db[o]
  BY <1>1, <1>2, <1>4, <1>5, ReadIsCommitted
<1>7. /\ DOMAIN locks = Tx /\ DOMAIN pc = Tx /\ DOMAIN wrote = Tx /\ DOMAIN view = Tx
      /\ DOMAIN view[t] = Row
  BY DEF TypeInv, TypeOK, TablesOK, EngineTypeOK, RequestsOK
<1>8. row = IF Buys(t) THEN Order("COMPLETED", req[t].user, ProductOf(t), AmountOf(t))
                       ELSE [db[o] EXCEPT !.status = "COMPLETED"]
  BY <1>2, <1>6
<1> HIDE DEF o, row
<1>9. /\ \A r \in Row : view'[t][r] = IF r = o THEN row ELSE view[t][r]
      /\ wrote'[t] = wrote[t] \cup {o} /\ locks[t] \subseteq locks'[t]
      /\ pc'[t] = "commit"
  BY <1>2, <1>5, <1>7
<1>10. /\ OrderOf(t)' = o /\ ProductOf(t)' = ProductOf(t)
       /\ MerchantOf(t)' = MerchantOf(t) /\ AmountOf(t)' = AmountOf(t) /\ Buys(t)' = Buys(t)
  <2>1. req[t].op # "webhook" => req[t].product \in Row /\ req[t].product # o
    BY <1>2
  <2> QED
    BY <1>1, <1>5, <1>9, <2>1, SaleNamesStay DEF o
<1>11. /\ Locked(t)' /\ Credited(t)' /\ Taken(t)' /\ Saved(t)'
       /\ Debited(t)' <=> Debited(t)
  BY <1>1, <1>3, <1>5, <1>9, <1>10 DEF Debited, Credited, Taken, Saved, Locked
<1>12. req'[t] = req[t] /\ db' = db
  BY <1>5
<1>13. WorkOnTables(t)'
  <2>1. /\ ProductOf(t) \in locks[t] /\ db[ProductOf(t)].stock > 0
        /\ Buys(t) => db[ProductOf(t)].active
        /\ Debited(t) => req[t].user \notin LockedWallets /\ db[req[t].user] >= AmountOf(t)
        /\ view[t][ProductOf(t)] = [db[ProductOf(t)] EXCEPT !.stock = @ - 1]
    <3> HIDE DEF Locked, Debited, Credited, Taken, Saved, Buys
    <3> QED
      BY <1>2, <1>3 DEF WorkOnTables
  <2>2. \A x \in User : BalanceInSale(t, x)' = BalanceInSale(t, x)
    <3> HIDE DEF Debited, Credited
    <3> QED
      BY <1>3, <1>10, <1>11, <1>12 DEF BalanceInSale
  <2>3. \A x \in User \cap wrote'[t] : view'[t][x] = BalanceInSale(t, x)'
    <3>1. \A x \in User \cap wrote'[t] : x \in User \cap wrote[t] /\ x \in Row /\ x # o
      BY <1>2, <1>9, OrderAssumption
    <3> QED
      BY <1>2, <1>9, <2>2, <3>1 DEF WorkOnTables
  <2>4. /\ view'[t][ProductOf(t)] = view[t][ProductOf(t)] /\ ProductOf(t) \in locks'[t]
        /\ view'[t][o] = row
    BY <1>2, <1>9, <2>1
  <2> HIDE DEF Locked, Debited, Credited, Taken, Saved, Buys
  <2> QED
    BY <1>4, <1>8, <1>9, <1>10, <1>11, <1>12, <2>1, <2>3, <2>4 DEF WorkOnTables
<1>14. EntriesOf(t)'
  BY <1>1, <1>3, <1>5, <1>10, <1>11, SaleEntriesKept DEF o
<1>15. req[t].op = "webhook" => FoundOrder(t)'
  BY <1>1, <1>5 DEF SaleOf, FoundOrder
<1> QED
  BY <1>1, <1>5, <1>9, <1>13, <1>14, <1>15 DEF SaleOf

\* deposit and withdraw enter nothing of an order.
LEMMA WriteWalletSale ==
    ASSUME TypeInv, SaleInv, NEW t \in Tx, WriteWallet(t)
    PROVE  SaleOf(t)' /\ EntriesOf(t)'
<1> DEFINE u == req[t].user
           before == seen[t].amount
           e == Entry(EntryType(req[t]), req[t].amount, before,
                      BalanceAfter(req[t], before), t)
<1>1. /\ SaleOf(t) /\ EntriesOf(t) /\ t \notin serial
      /\ req[t].op \in {"deposit", "withdraw"}
      /\ u \in User /\ u \in Row
  BY PartsOfSales, RequestFacts, OrderAssumption
     DEF SaleInv, WriteWallet, TypeInv, TypeOK, StepsMatchRequests, StepMatches, TxSteps
<1>2. /\ wrote' = [wrote EXCEPT ![t] = @ \cup {u}]
      /\ inserted' = [inserted EXCEPT ![t][u] = Append(@, e)]
      /\ UNCHANGED <<serial, req>>
  BY DEF WriteWallet, WriteAndLog, Put, Goto
<1>3. /\ DOMAIN wrote = Tx
      /\ inserted \in [Tx -> [Row -> Seq(LedgerRow)]]
  BY DEF TypeInv, TypeOK, TablesOK, EngineTypeOK
<1>4. e.type \in {"DEPOSIT", "WITHDRAWAL"}
  BY DEF Entry, EntryType
<1> HIDE DEF u, before, e
<1>5. wrote'[t] \subseteq User
  BY <1>1, <1>2, <1>3 DEF SaleOf
<1>6. \A r \in Row : inserted'[t][r] =
         IF r = u THEN Append(inserted[t][u], e) ELSE inserted[t][r]
  BY <1>1, <1>2, <1>3
<1>7. ~Debited(t) /\ ~Credited(t) /\ ~Debited(t)' /\ ~Credited(t)'
  BY <1>1, <1>2 DEF Debited, Credited, Locked
<1>8. \A v \in User, o \in Tx :
        /\ inserted[t][v] \in Seq(LedgerRow) /\ v \in Row
        /\ Never(inserted[t][v], "PAYMENT", o) /\ Never(inserted[t][v], "EARNING", o)
  BY <1>1, <1>3, <1>7, OrderAssumption DEF EntriesOf, Entering
<1>9. \A v \in User, o \in Tx :
         Never(inserted'[t][v], "PAYMENT", o) /\ Never(inserted'[t][v], "EARNING", o)
  BY <1>1, <1>4, <1>6, <1>8, NeverAppended
<1>10. EntriesOf(t)'
  BY <1>7, <1>9 DEF EntriesOf, Entering, Never
<1> QED
  BY <1>1, <1>2, <1>5, <1>10 DEF SaleOf

LEMMA EndSales ==
    ASSUME TypeInv, EngineInv, SaleInv, [Next]_vars, NEW s \in Tx, Ends(s), NEW t \in Tx
    PROVE  SaleOf(t)' /\ EntriesOf(t)'
<1>1. /\ serial' = serial \ {s}
      /\ view' = [view EXCEPT ![s] = InitialDb]
      /\ wrote' = [wrote EXCEPT ![s] = {}]
      /\ locks' = [locks EXCEPT ![s] = {}]
      /\ inserted' = [inserted EXCEPT ![s] = Nothing]
      /\ \A r \in Row : db'[r] = db[r] \/ r \in wrote[s]
  BY DEF Ends, Rollback, Commit, Release
<1>2. /\ DOMAIN locks = Tx /\ DOMAIN wrote = Tx /\ DOMAIN view = Tx
      /\ DOMAIN inserted = Tx /\ \A x \in Tx : locks[x] \subseteq Row
  BY DEF TypeInv, TypeOK, TablesOK, EngineTypeOK
<1>3. CASE t # s
  <2>1. Apart(t)
    BY <1>1, <1>2, <1>3 DEF Ends, Others, Apart
  <2>2. \A r \in locks[t] : db'[r] = db[r]
    BY <1>1, <1>2, <1>3 DEF EngineInv, LocksExclusive
  <2> QED
    BY <2>1, <2>2, OtherKept
<1>4. CASE t = s
  <2>1. wrote'[t] = {} /\ inserted'[t] = Nothing /\ t \notin serial' /\ pc'[t] \in Answers
    BY <1>1, <1>2, <1>4 DEF Ends
  <2>2. EntriesOf(t)'
    BY <2>1, PartsOfSales, NoEntries, OrderAssumption DEF SaleInv
  <2> QED
    BY <2>1, <2>2 DEF SaleOf, Answers
<1> QED
  BY <1>3, <1>4

LEMMA PublishSales ==
    ASSUME TypeInv, EngineInv, SaleInv, [Next]_vars, NEW s \in Tx, Publishes(s), NEW t \in Tx
    PROVE  SaleOf(t)' /\ EntriesOf(t)'
<1>1. PICK r \in Row : \E row : AutoCommit(r, row)
  BY OrderAssumption DEF Publishes
<1>2. /\ \A x \in Tx : r \notin locks[x]
      /\ \A x \in Row : x # r => db'[x] = db[x]
      /\ UNCHANGED <<serial, view, wrote, locks, inserted>>
  BY <1>1 DEF AutoCommit, TypeInv, TypeOK, TablesOK, EngineTypeOK
<1>3. CASE t # s
  <2>1. Apart(t)
    BY <1>2, <1>3 DEF Publishes, Others, Apart
  <2>2. \A x \in locks[t] : db'[x] = db[x]
    BY <1>2 DEF TypeInv, TypeOK, TablesOK, EngineTypeOK
  <2> QED
    BY <2>1, <2>2, OtherKept
<1>4. CASE t = s
  <2>1. t \notin serial /\ wrote[t] = {} /\ EntriesOf(t)
    BY <1>4, PartsOfSales
       DEF SaleInv, Publishes, TypeInv, StepsMatchRequests, StepMatches, TxSteps
  <2>2. wrote'[t] = {} /\ inserted'[t] = inserted[t] /\ t \notin serial' /\ pc'[t] \in Answers
    BY <1>2, <1>4, <2>1 DEF Publishes
  <2>3. EntriesOf(t)'
    BY <2>1, <2>2, NoEntries, OrderAssumption
  <2> QED
    BY <2>2, <2>3 DEF SaleOf, Answers
<1> QED
  BY <1>3, <1>4

\* Every step keeps what every transaction has done so far a part of its sale.
LEMMA SalesStep ==
    ASSUME TypeInv, EngineInv, SaleInv, [Next]_vars
    PROVE  SalesInProgress' /\ EntriesInProgress'
<1> SUFFICES ASSUME NEW t \in Tx PROVE SaleOf(t)' /\ EntriesOf(t)'
  BY DEF SalesInProgress, EntriesInProgress, SaleOf, EntriesOf, Entering
<1>1. CASE Quiet
  BY <1>1, QuietSales
<1>2. ASSUME NEW s \in Tx, Effect(s) PROVE SaleOf(t)' /\ EntriesOf(t)'
  <2>1. CASE Begins(s)
    BY <2>1, BeginSales
  <2>2. CASE Locks(s)
    BY <2>2, LockSales
  <2>3. CASE Ends(s)
    BY <2>3, EndSales
  <2>4. CASE Publishes(s)
    BY <2>4, PublishSales
  <2>5. CASE MovesMoney(s)
    <3>1. CASE t = s
      BY <2>5, <3>1, DebitSale, CreditSale DEF MovesMoney
    <3>2. CASE t # s
      <4>1. PICK u \in User, after \in Int, e \in LedgerRow : WriteAndLog(s, u, after, e)
        BY <2>5, MoveIsWrite
      <4>2. PICK step \in {"credit", "decrement"} : Goto(s, step)
        BY <2>5 DEF MovesMoney
      <4>3. /\ u \in Row /\ Put(s, u, after)
            /\ inserted' = [inserted EXCEPT ![s][u] = Append(@, e)]
        BY <4>1, OrderAssumption DEF WriteAndLog
      <4> QED
        BY <3>2, <4>2, <4>3, OthersApart, OtherKept
    <3> QED
      BY <3>1, <3>2
  <2>6. CASE DecrementStock(s)
    <3>1. CASE t = s
      BY <2>6, <3>1, DecrementSale
    <3>2. CASE t # s
      <4>1. ProductOf(s) \in Row
        BY <2>6, SaleFacts, OrderAssumption DEF DecrementStock, TxSteps
      <4>2. PICK c : Put(s, ProductOf(s), c) /\ Goto(s, "saveOrder") /\ inserted' = inserted
        BY <2>6 DEF DecrementStock, Write
      <4> QED
        BY <3>2, <4>1, <4>2, OthersApart, OtherKept
    <3> QED
      BY <3>1, <3>2
  <2>7. CASE SaveOrder(s)
    <3>1. CASE t = s
      BY <2>7, <3>1, SaveOrderSale
    <3>2. CASE t # s
      <4>1. OrderOf(s) \in Row
        BY <2>7, SaleFacts, OrderAssumption DEF SaveOrder, TxSteps
      <4>2. PICK c : Put(s, OrderOf(s), c) /\ Goto(s, "commit") /\ inserted' = inserted
        BY <2>7 DEF SaveOrder, Write
      <4> QED
        BY <3>2, <4>1, <4>2, OthersApart, OtherKept
    <3> QED
      BY <3>1, <3>2
  <2>8. CASE WriteWallet(s)
    <3>1. CASE t = s
      BY <2>8, <3>1, WriteWalletSale
    <3>2. CASE t # s
      <4>1. req[s].user \in Row
        BY <2>8, RequestFacts, OrderAssumption
           DEF WriteWallet, TypeInv, TypeOK, StepsMatchRequests, StepMatches
      <4>2. PICK after, e : WriteAndLog(s, req[s].user, after, e) /\ Goto(s, "commit")
        BY <2>8 DEF WriteWallet
      <4>3. /\ Put(s, req[s].user, after)
            /\ inserted' = [inserted EXCEPT ![s][req[s].user] = Append(@, e)]
        BY <4>2 DEF WriteAndLog
      <4> QED
        BY <3>2, <4>1, <4>2, <4>3, OthersApart, OtherKept
    <3> QED
      BY <3>1, <3>2
  <2> QED
    BY <1>2, <2>1, <2>2, <2>3, <2>4, <2>5, <2>6, <2>7, <2>8 DEF Effect
<1> QED
  BY <1>1, <1>2, Effects

-----------------------------------------------------------------------------
(* The orders and the statements, at a commit.                             *)

\* What changes the tables: a commit, or a statement by itself.
LEMMA TableChanges ==
    ASSUME TypeInv, [Next]_vars
    PROVE  \/ UNCHANGED <<db, ledger>>
           \/ \E t \in Tx : /\ pc[t] = "commit" /\ Commit(t)
                            /\ pc'[t] \in Answers /\ UNCHANGED req /\ Others(t)
           \/ \E t \in Tx : Publishes(t)
<1>1. CASE Quiet
  BY <1>1 DEF Quiet, dbVars
<1>2. ASSUME NEW t \in Tx, MovesMoney(t) PROVE UNCHANGED <<db, ledger>>
  BY <1>2, MoveIsWrite DEF WriteAndLog, Put
<1>3. ASSUME NEW t \in Tx,
             \/ Begins(t) \/ Locks(t) \/ DecrementStock(t) \/ SaveOrder(t)
             \/ WriteWallet(t) \/ Rollback(t)
      PROVE  UNCHANGED <<db, ledger>>
  BY <1>3 DEF Begins, TakeSnapshot, Locks, SelectForUpdate, DecrementStock, SaveOrder,
     WriteWallet, Write, WriteAndLog, Put, Rollback
<1> QED
  BY <1>1, <1>2, <1>3, Effects DEF Effect, Ends

\* The entries that t commits for a number other than that of its order.
LEMMA NotItsOrder ==
    ASSUME TypeInv, SaleInv, NEW t \in Tx, pc[t] = "commit", NEW o \in Tx,
           t \in serial => o # OrderOf(t), NEW u \in User
    PROVE  /\ Never(inserted[t][u], "PAYMENT", o)
           /\ Never(inserted[t][u], "EARNING", o)
<1>1. EntriesOf(t)
  BY PartsOfSales DEF SaleInv
<1>2. (Debited(t) => t \in serial) /\ (Credited(t) => t \in serial)
  BY DEF Debited, Credited, Locked
<1> HIDE DEF Debited, Credited
<1> QED
  BY <1>1, <1>2 DEF EntriesOf, Entering

LEMMA OrderAtCommit ==
    ASSUME TypeInv, EngineInv, PaidInv, SaleInv, NEW t \in Tx, pc[t] = "commit", NEW o \in Tx,
           t \in serial, o = OrderOf(t)
    PROVE  /\ o \in wrote[t] /\ WorkOnTables(t) /\ Saved(t) /\ Taken(t) /\ Credited(t)
           /\ Debited(t) <=> Buys(t)
           /\ Buys(t) => o = t /\ db[o] = NoOrder
           /\ ~Buys(t) => db[o] # NoOrder /\ req[o].op = "gatewayOrder"
<1>1. SaleOf(t)
  BY PartsOfSales DEF SaleInv
<1>2. /\ Saved(t) /\ Taken(t) /\ Credited(t)
      /\ Debited(t) <=> Buys(t)
  BY DEF Saved, Taken, Credited, Debited, Locked
<1> HIDE DEF Saved, Taken, Credited, Debited
<1>3. WorkOnTables(t) /\ o \in wrote[t]
  <2>1. WorkOnTables(t)
    BY <1>1, InSale
  <2> QED
    BY <1>2, <2>1 DEF WorkOnTables
<1>4. CASE req[t].op = "webhook"
  <2>1. FoundOrder(t) /\ o = req[t].order /\ ~Buys(t)
    BY <1>1, <1>4, InSale
  <2>2. session[o] = "paid"
    BY <1>4, <2>1 DEF PaidInv, WebhooksReportPayments
  <2>3. req[o].op = "gatewayOrder"
    BY <2>2 DEF PaidInv, SessionsHaveOrders
  <2> QED
    BY <1>2, <1>3, <2>1, <2>3, FoundIsPlaced
<1>5. CASE req[t].op # "webhook"
  <2>1. Buys(t) /\ o = t
    BY <1>1, <1>5, InSale
  <2>2. db[o] = NoOrder
    BY <2>1 DEF SaleInv, OrdersSettled, Answers
  <2> QED
    BY <1>2, <1>3, <2>1, <2>2
<1> QED
  BY <1>4, <1>5

OrderSettled(o) ==
    /\ db[o] # NoOrder => Buys(o) \/ req[o].op = "gatewayOrder"
    /\ db[o] # NoOrder => pc[o] \in Answers
    /\ db[o] # NoOrder /\ Buys(o) => Settled(o)
    /\ db[o] = NoOrder => Untouched(o)

LEMMA TablesStay ==
    ASSUME TypeInv, SaleInv, [Next]_vars, UNCHANGED <<db, ledger>>, NEW o \in Tx
    PROVE  OrderSettled(o)'
<1>1. OrderSettled(o)
  BY DEF SaleInv, OrdersSettled, OrderSettled
<1>2. CASE db[o] = NoOrder
  BY <1>1, <1>2 DEF OrderSettled, Untouched, Never
<1>3. CASE db[o] # NoOrder
  <2>1. pc'[o] = pc[o] /\ req'[o] = req[o]
    BY <1>3, PlacedStays DEF SaleInv
  <2> QED
    BY <1>1, <1>3, <2>1 DEF OrderSettled, Settled, Buys, Once
<1> QED
  BY <1>2, <1>3

LEMMA PublishedOrders ==
    ASSUME TypeInv, SaleInv, [Next]_vars, NEW t \in Tx, Publishes(t), NEW o \in Tx
    PROVE  OrderSettled(o)'
<1>1. OrderSettled(o)
  BY DEF SaleInv, OrdersSettled, OrderSettled
<1>2. UNCHANGED <<ledger, req>> /\ pc'[t] \in Answers
  BY DEF Publishes, AutoCommit
<1>3. CASE db'[o] = db[o]
  <2>1. CASE db[o] = NoOrder
    BY <1>1, <1>2, <1>3, <2>1 DEF OrderSettled, Untouched, Never
  <2>2. CASE db[o] # NoOrder
    <3>1. pc'[o] = pc[o] /\ req'[o] = req[o]
      BY <2>2, PlacedStays DEF SaleInv
    <3> QED
      BY <1>1, <1>2, <1>3, <2>2, <3>1 DEF OrderSettled, Settled, Buys, Once
  <2> QED
    BY <2>1, <2>2
<1>4. CASE db'[o] # db[o]
  <2>1. o \in Row /\ DOMAIN db = Row /\ o \notin Product
    BY OrderAssumption DEF TypeInv, TypeOK, TablesOK, EngineTypeOK
  <2>2. PICK row \in OrderRow : pc[t] = "insertOrder" /\ AutoCommit(t, row)
    BY <1>4, <2>1 DEF Publishes, AutoCommit
  <2>3. o = t /\ db'[o] # NoOrder
    BY <1>4, <2>1, <2>2, NoOrderIsNone DEF AutoCommit
  <2>4. req[t].op = "gatewayOrder"
    BY <2>2 DEF TypeInv, StepsMatchRequests, StepMatches
  <2> QED
    BY <1>2, <2>3, <2>4 DEF OrderSettled, Buys
<1> QED
  BY <1>3, <1>4

LEMMA CommittedOrders ==
    ASSUME TypeInv, EngineInv, PaidInv, SaleInv, [Next]_vars,
           NEW t \in Tx, pc[t] = "commit", Commit(t), pc'[t] \in Answers, UNCHANGED req,
           NEW o \in Tx
    PROVE  OrderSettled(o)'
<1>1. OrderSettled(o) /\ SaleOf(t)
  BY PartsOfSales DEF SaleInv, OrdersSettled, OrderSettled
<1>2. /\ \A u \in User : /\ ledger'[u] = ledger[u] \o inserted[t][u]
                         /\ ledger[u] \in Seq(LedgerRow) /\ inserted[t][u] \in Seq(LedgerRow)
      /\ db'[o] = IF o \in wrote[t] THEN view[t][o] ELSE db[o]
      /\ \A x \in Tx : req[x].op = "walletOrder" =>
            req[x].user \in User /\ Owner[req[x].product] \in User
  BY RequestFacts, OrderAssumption DEF Commit, TypeInv, TypeOK, TablesOK
<1>3. CASE ~(t \in serial /\ o = OrderOf(t))
  <2>1. db'[o] = db[o]
    BY <1>1, <1>2, <1>3, OwnOrder
  <2>2. \A u \in User : /\ Never(inserted[t][u], "PAYMENT", o)
                        /\ Never(inserted[t][u], "EARNING", o)
    BY <1>3, NotItsOrder
  <2>3. CASE db[o] = NoOrder
    <3>1. \A u \in User : /\ Never(ledger'[u], "PAYMENT", o)
                          /\ Never(ledger'[u], "EARNING", o)
      <4>1. \A u \in User : /\ Never(ledger[u], "PAYMENT", o)
                            /\ Never(ledger[u], "EARNING", o)
        BY <1>1, <2>3 DEF OrderSettled, Untouched
      <4> SUFFICES ASSUME NEW u \in User
                   PROVE  /\ Never(ledger[u] \o inserted[t][u], "PAYMENT", o)
                          /\ Never(ledger[u] \o inserted[t][u], "EARNING", o)
        BY <1>2
      <4>2. ledger[u] \in Seq(LedgerRow) /\ inserted[t][u] \in Seq(LedgerRow)
        BY <1>2
      <4> QED
        BY <2>2, <4>1, <4>2, NeverJoined
    <3> QED
      BY <2>1, <2>3, <3>1 DEF OrderSettled, Untouched, Never
  <2>4. CASE db[o] # NoOrder
    <3>1. pc'[o] = pc[o]
      BY <2>4, PlacedStays DEF SaleInv
    <3>2. ASSUME Buys(o) PROVE Settled(o)'
      <4> DEFINE b == req[o].user
                 m == Owner[req[o].product]
      <4>1. b \in User /\ m \in User
        BY <1>2, <3>2 DEF Buys
      <4>2. /\ db[o].status = "COMPLETED"
            /\ Once(ledger[b], "PAYMENT", o, db[o].amount)
            /\ Once(ledger[m], "EARNING", o, db[o].amount)
        BY <1>1, <2>4, <3>2 DEF OrderSettled, Settled
      <4>3. /\ Once(ledger'[b], "PAYMENT", o, db[o].amount)
            /\ Once(ledger'[m], "EARNING", o, db[o].amount)
        <5>1. \A u \in {b, m} :
                /\ ledger'[u] = ledger[u] \o inserted[t][u]
                /\ ledger[u] \in Seq(LedgerRow) /\ inserted[t][u] \in Seq(LedgerRow)
                /\ Never(inserted[t][u], "PAYMENT", o) /\ Never(inserted[t][u], "EARNING", o)
          BY <1>2, <2>2, <4>1
        <5> HIDE DEF b, m
        <5>2. Once(ledger[b] \o inserted[t][b], "PAYMENT", o, db[o].amount)
          BY <4>2, <5>1, OnceStays
        <5>3. Once(ledger[m] \o inserted[t][m], "EARNING", o, db[o].amount)
          BY <4>2, <5>1, OnceStays
        <5> QED
          BY <5>1, <5>2, <5>3
      <4> QED
        BY <2>1, <4>2, <4>3 DEF Settled, Once
    <3> QED
      BY <1>1, <2>1, <2>4, <3>1, <3>2 DEF OrderSettled, Buys
  <2> QED
    BY <2>3, <2>4
<1>4. CASE t \in serial /\ o = OrderOf(t)
  <2>1. /\ o \in wrote[t] /\ WorkOnTables(t) /\ Saved(t) /\ Taken(t) /\ Credited(t)
        /\ Debited(t) <=> Buys(t)
        /\ Buys(t) => o = t /\ db[o] = NoOrder
        /\ ~Buys(t) => db[o] # NoOrder /\ req[o].op = "gatewayOrder"
    BY <1>4, OrderAtCommit
  <2>2. CASE Buys(t)
    <3> DEFINE b == req[o].user
               m == Owner[req[o].product]
               a == AmountOf(t)
    <3>1. /\ b \in User /\ m \in User /\ m = MerchantOf(t) /\ o = t /\ req[t].op = "walletOrder"
      BY <1>2, <2>1, <2>2 DEF Buys, MerchantOf, ProductOf
    <3>2. db'[o] = Order("COMPLETED", b, ProductOf(t), a)
      <4> HIDE DEF Saved, Taken, Credited, Debited
      <4>1. view[t][o] = Order("COMPLETED", req[t].user, ProductOf(t), AmountOf(t))
        BY <1>4, <2>1, <2>2 DEF WorkOnTables
      <4> QED
        BY <1>2, <2>1, <3>1, <4>1
    <3>3. db'[o] # NoOrder /\ db'[o].status = "COMPLETED" /\ db'[o].amount = a
      BY <3>2 DEF Order, NoOrder
    <3>4. /\ Never(ledger[b], "PAYMENT", o) /\ Never(ledger[m], "EARNING", o)
      BY <1>1, <2>1, <2>2, <3>1 DEF OrderSettled, Untouched
    <3>5. /\ Once(inserted[t][b], "PAYMENT", o, a)
          /\ Once(inserted[t][m], "EARNING", o, a)
      <4>1. EntriesOf(t)
        BY PartsOfSales DEF SaleInv
      <4> HIDE DEF Debited, Credited
      <4> QED
        BY <1>4, <2>1, <2>2, <3>1, <4>1 DEF EntriesOf, Entering
    <3>6. /\ Once(ledger'[b], "PAYMENT", o, a)
          /\ Once(ledger'[m], "EARNING", o, a)
      <4>1. \A u \in {b, m} :
              /\ ledger'[u] = ledger[u] \o inserted[t][u]
              /\ ledger[u] \in Seq(LedgerRow) /\ inserted[t][u] \in Seq(LedgerRow)
        BY <1>2, <3>1
      <4> HIDE DEF a, b, m
      <4>2. Once(ledger[b] \o inserted[t][b], "PAYMENT", o, a)
        BY <3>4, <3>5, <4>1, OnceArrives
      <4>3. Once(ledger[m] \o inserted[t][m], "EARNING", o, a)
        BY <3>4, <3>5, <4>1, OnceArrives
      <4> QED
        BY <4>1, <4>2, <4>3
    <3> HIDE DEF a
    <3>7. Settled(o)'
      BY <3>3, <3>6 DEF Settled, Once
    <3> QED
      BY <3>1, <3>3, <3>7 DEF OrderSettled, Buys
  <2>3. CASE ~Buys(t)
    <3>1. db'[o] # NoOrder /\ pc'[o] \in Answers
      BY <2>1, <2>3, OrdersStay, PlacedStays DEF SaleInv
    <3> QED
      BY <2>1, <2>3, <3>1 DEF OrderSettled, Buys
  <2> QED
    BY <2>2, <2>3
<1> QED
  BY <1>3, <1>4

LEMMA SaleStep ==
    ASSUME TypeInv, EngineInv, PaidInv, SaleInv, [Next]_vars
    PROVE  SaleInv'
<1>1. ASSUME NEW o \in Tx PROVE OrderSettled(o)'
  BY TableChanges, TablesStay, PublishedOrders, CommittedOrders
<1>2. OrdersSettled'
  BY <1>1 DEF OrdersSettled, OrderSettled
<1> QED
  BY <1>2, SalesStep DEF SaleInv

LEMMA SaleInit == Init => SaleInv
<1> SUFFICES ASSUME Init PROVE SaleInv
  OBVIOUS
<1>1. /\ \A u \in User : u \in Row /\ ledger[u] = <<>>
      /\ \A t \in Tx, u \in User : inserted[t][u] = <<>>
      /\ \A t \in Tx : /\ wrote[t] = {} /\ t \notin serial /\ db[t] = NoOrder
                       /\ pc[t] = "idle" /\ req[t] = NoRequest
  BY OrderAssumption, NoOrderAtFirst DEF Init, DbInit, RequestInit, Nothing
<1>2. SalesInProgress
  BY <1>1 DEF SalesInProgress, NoRequest
<1>3. \A t \in Tx : ~Debited(t) /\ ~Credited(t)
  BY <1>1 DEF Debited, Credited, Locked
<1>4. \A type, o : Never(<<>>, type, o)
  BY DEF Never, Marks
<1>5. EntriesInProgress
  BY <1>1, <1>3, <1>4 DEF EntriesInProgress
<1>6. OrdersSettled
  BY <1>1, <1>4 DEF OrdersSettled, Untouched
<1> QED
  BY <1>2, <1>5, <1>6 DEF SaleInv

LEMMA SaleHolds == Spec => [](TypeInv /\ EngineInv /\ PaidInv /\ SaleInv)
<1>1. Init => TypeInv /\ EngineInv /\ PaidInv /\ SaleInv
  BY TypeInit, EngineInit, PaidInit, SaleInit DEF Init, EngineOK
<1>2. TypeInv /\ EngineInv /\ PaidInv /\ SaleInv /\ [Next]_vars =>
        (TypeInv /\ EngineInv /\ PaidInv /\ SaleInv)'
  BY TypeStep, EngineStep, PaidStep, SaleStep
<1> QED
  BY <1>1, <1>2, PTL DEF Spec

\* A wallet order moves its amount from the buyer to the merchant exactly once,
\* or there is no order and nothing was moved, whatever interleaves with it,
\* fails, deadlocks or loses its answer.
THEOREM WalletOrdersSettle == Spec => []WalletOrderSettled
<1>1. TypeInv /\ SaleInv => WalletOrderSettled
  <2> SUFFICES ASSUME TypeInv, OrdersSettled, NEW o \in Tx, req[o].op = "walletOrder"
               PROVE  LET placed == db[o].status = "COMPLETED"
                          paid   == Entries(req[o].user, "PAYMENT", o)
                          earned == Entries(Owner[req[o].product], "EARNING", o)
                      IN  IF placed
                          THEN \E i \in paid, j \in earned :
                                  /\ paid = {i} /\ earned = {j}
                                  /\ ledger[req[o].user][i].amount = db[o].amount
                                  /\ ledger[Owner[req[o].product]][j].amount = db[o].amount
                          ELSE paid = {} /\ earned = {}
    BY DEF SaleInv, WalletOrderSettled
  <2>1. db[o] # NoOrder => Settled(o)
    BY DEF OrdersSettled, Buys
  <2>2. db[o] = NoOrder => Untouched(o)
    BY DEF OrdersSettled
  <2>3. req[o].user \in User /\ Owner[req[o].product] \in User
    BY RequestFacts, OrderAssumption DEF TypeInv, TypeOK
  <2>4. CASE db[o] # NoOrder
    BY <2>1, <2>4 DEF Settled, Once, Entries
  <2>5. CASE db[o] = NoOrder
    BY <2>2, <2>3, <2>5 DEF Untouched, Never, Entries, NoOrder
  <2> QED
    BY <2>4, <2>5
<1> QED
  BY <1>1, SaleHolds, PTL

\* All of it together: the invariant that the safety properties follow from.
THEOREM InvariantHolds == Spec => []IInv
<1> DEFINE Inv == TypeInv /\ EngineInv /\ PaidInv /\ StockInv /\ LedgerInv /\ SaleInv
<1>1. Init => Inv
  BY TypeInit, EngineInit, PaidInit, StockInit, LedgerInit, SaleInit DEF Init, EngineOK
<1>2. Inv /\ [Next]_vars => Inv'
  BY TypeStep, EngineStep, PaidStep, StockStep, LedgerStep, SaleStep
<1>3. Inv => IInv
  BY DEF IInv, TypeInv, StockInv, LedgerInv, SaleInv
<1> QED
  BY <1>1, <1>2, <1>3, PTL DEF Spec
=============================================================================
