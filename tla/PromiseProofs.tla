--------------------------- MODULE PromiseProofs ----------------------------
(***************************************************************************)
(* What the orders promise, under what it takes.  If merchants leave the   *)
(* stock alone, it is matched by the entries of the merchants.  If no      *)
(* payment is delivered as two events, no merchant is credited twice.  If  *)
(* nobody deposits or withdraws either, the orders service implements      *)
(* Sales: each commit is one indivisible sale.  And whoever repeats an     *)
(* order has it twice only where an answer was lost.                       *)
(***************************************************************************)
EXTENDS SaleProofs, Retries, FiniteSetTheorems

-----------------------------------------------------------------------------
(* The stock and the sales.                                                *)

\* No merchant sends a form that names the stock.  The form has a field for it,
\* which overwrites the stock with whatever the merchant thinks is left
\* (products.service.ts:152): then units can go without being sold.
StockLeftAlone == \A t \in Tx : \A r \in Arrivals[t] : ~EditsStock(r)

\* The earnings among some rows that are for an order of p, by the orders in
\* the table.
SoldIn(rows, table, p) ==
    {i \in 1 .. Len(rows) : rows[i].type = "EARNING" /\ table[rows[i].ref].product = p}

StockMatched(p) ==
    InitialDb[p].stock - db[p].stock = Cardinality(SoldIn(ledger[Owner[p]], db, p))

LEMMA SoldIsFinite ==
    ASSUME NEW rows \in Seq(LedgerRow), NEW table, NEW p
    PROVE  /\ IsFiniteSet(SoldIn(rows, table, p))
           /\ Cardinality(SoldIn(rows, table, p)) \in Nat
<1>1. IsFiniteSet(1 .. Len(rows))
  BY FS_Interval
<1>2. SoldIn(rows, table, p) \in SUBSET (1 .. Len(rows))
  BY DEF SoldIn
<1>3. IsFiniteSet(SoldIn(rows, table, p))
  BY <1>1, <1>2, FS_Subset
<1> QED
  BY <1>3, FS_CardinalityType

LEMMA SoldJoined ==
    ASSUME NEW rows \in Seq(LedgerRow), NEW more \in Seq(LedgerRow), NEW table, NEW p
    PROVE  SoldIn(rows \o more, table, p) =
              SoldIn(rows, table, p) \cup {Len(rows) + i : i \in SoldIn(more, table, p)}
<1> DEFINE all == rows \o more
           m == Len(rows)
           n == Len(more)
<1>1. /\ m \in Nat /\ n \in Nat /\ Len(all) = m + n
      /\ \A i \in 1 .. m + n : all[i] = IF i <= m THEN rows[i] ELSE more[i - m]
  OBVIOUS
<1> HIDE DEF all, m, n
<1>2. ASSUME NEW i \in SoldIn(all, table, p)
      PROVE  i \in SoldIn(rows, table, p) \/ \E j \in SoldIn(more, table, p) : i = m + j
  <2>1. /\ i \in 1 .. m + n /\ all[i].type = "EARNING"
        /\ table[all[i].ref].product = p
    BY <1>1 DEF SoldIn
  <2>2. CASE i <= m
    BY <1>1, <2>1, <2>2 DEF SoldIn, m
  <2>3. CASE i > m
    <3>1. i - m \in 1 .. n /\ all[i] = more[i - m] /\ i = m + (i - m)
      BY <1>1, <2>1, <2>3
    <3> QED
      BY <2>1, <3>1 DEF SoldIn, n
  <2> QED
    BY <1>1, <2>1, <2>2, <2>3
<1>3. ASSUME NEW i \in SoldIn(rows, table, p) PROVE i \in SoldIn(all, table, p)
  BY <1>1 DEF SoldIn, m
<1>4. ASSUME NEW j \in SoldIn(more, table, p) PROVE m + j \in SoldIn(all, table, p)
  <2>1. /\ j \in 1 .. n /\ more[j].type = "EARNING"
        /\ table[more[j].ref].product = p
    BY DEF SoldIn, n
  <2>2. m + j \in 1 .. m + n /\ all[m + j] = more[j]
    BY <1>1, <2>1
  <2> QED
    BY <1>1, <2>1, <2>2 DEF SoldIn
<1> QED
  BY <1>2, <1>3, <1>4 DEF m, all

LEMMA NoneSold ==
    ASSUME NEW rows \in Seq(LedgerRow), NEW more \in Seq(LedgerRow), NEW table, NEW p,
           SoldIn(more, table, p) = {}
    PROVE  SoldIn(rows \o more, table, p) = SoldIn(rows, table, p)
<1>1. ASSUME NEW j
      PROVE  j \in SoldIn(rows \o more, table, p) <=> j \in SoldIn(rows, table, p)
  BY SoldJoined
<1> QED
  BY <1>1

LEMMA OneSold ==
    ASSUME NEW rows \in Seq(LedgerRow), NEW more \in Seq(LedgerRow), NEW table, NEW p,
           NEW i, SoldIn(more, table, p) = {i}
    PROVE  /\ SoldIn(rows \o more, table, p) =
                 SoldIn(rows, table, p) \cup {Len(rows) + i}
           /\ Len(rows) + i \notin SoldIn(rows, table, p)
<1>1. SoldIn(rows \o more, table, p) = SoldIn(rows, table, p) \cup {Len(rows) + i}
  BY SoldJoined
<1>2. i \in 1 .. Len(more)
  BY DEF SoldIn
<1>3. Len(rows) + i \notin SoldIn(rows, table, p)
  <2>1. Len(rows) \in Nat /\ Len(more) \in Nat
    OBVIOUS
  <2>2. Len(rows) + i \notin 1 .. Len(rows)
    BY <1>2, <2>1
  <2> QED
    BY <2>2 DEF SoldIn
<1> QED
  BY <1>1, <1>3

\* Orders that are in the table keep their product, so that what is sold is
\* sold for good.
LEMMA SoldStays ==
    ASSUME TypeInv, SaleInv, [Next]_vars, NEW u \in User, NEW p
    PROVE  SoldIn(ledger[u], db', p) = SoldIn(ledger[u], db, p)
<1>1. ledger[u] \in Seq(LedgerRow)
  BY OrderAssumption DEF TypeInv, TypeOK, TablesOK
<1> SUFFICES ASSUME NEW i \in 1 .. Len(ledger[u]), ledger[u][i].type = "EARNING"
             PROVE  db'[ledger[u][i].ref].product = db[ledger[u][i].ref].product
  BY DEF SoldIn
<1> DEFINE o == ledger[u][i].ref
<1>2. o \in Tx
  <2>1. ledger[u][i] \in LedgerRow
    BY <1>1
  <2> QED
    BY <2>1 DEF LedgerRow
<1>3. db[o] # NoOrder
  <2>1. i \in Marks(ledger[u], "EARNING", o)
    BY DEF Marks
  <2> QED
    BY <1>2, <2>1 DEF SaleInv, OrdersSettled, Untouched, Never
<1>4. db[o] \in OrderRow
  BY <1>2, <1>3, OrderAssumption DEF TypeInv, TypeOK, TablesOK, Contents
<1> HIDE DEF o
<1>5. db'[o].product = db[o].product
  BY <1>2, <1>3, <1>4, OrderChanges DEF OrderRow
<1> QED
  BY <1>5 DEF o

LEMMA StockCommit ==
    ASSUME TypeInv, EngineInv, PaidInv, SaleInv, [Next]_vars,
           NEW t \in Tx, pc[t] = "commit", Commit(t),
           NEW p \in Product, StockMatched(p)
    PROVE  StockMatched(p)'
<1> DEFINE m == Owner[p]
           old == ledger[m]
           new == inserted[t][m]
<1>1. /\ m \in User /\ p \in Row /\ p \notin User /\ p \notin Tx
      /\ old \in Seq(LedgerRow) /\ new \in Seq(LedgerRow)
      /\ ledger'[m] = old \o new
      /\ db'[p] = IF p \in wrote[t] THEN view[t][p] ELSE db[p]
      /\ db[p] \in [stock : Int, price : Nat, active : BOOLEAN]
      /\ InitialDb[p].stock \in Int
  <2>1. m \in User /\ p \in Row /\ p \notin User /\ p \notin Tx /\ m \in Row
    BY OrderAssumption, ProductAssumption
  <2>2. old \in Seq(LedgerRow) /\ new \in Seq(LedgerRow)
    BY <2>1 DEF TypeInv, TypeOK, TablesOK
  <2>3. /\ ledger'[m] = old \o new
        /\ db'[p] = IF p \in wrote[t] THEN view[t][p] ELSE db[p]
    BY <2>1 DEF Commit
  <2>4. db[p] \in [stock : Int, price : Nat, active : BOOLEAN]
    BY <2>1 DEF TypeInv, TypeOK, TablesOK, Contents
  <2>5. InitialDb[p].stock \in Int
    BY ProductAssumption DEF ProductRow
  <2> QED
    BY <2>1, <2>2, <2>3, <2>4, <2>5
<1>2. SaleOf(t) /\ EntriesOf(t)
  BY PartsOfSales DEF SaleInv
<1>3. SoldIn(old, db', p) = SoldIn(old, db, p)
  BY <1>1, SoldStays
<1>4. ASSUME NEW i \in 1 .. Len(new), new[i].type = "EARNING"
      PROVE  /\ t \in serial /\ new[i].ref = OrderOf(t)
             /\ Credited(t) /\ m = MerchantOf(t)
  <2>1. new[i].ref \in Tx
    <3>1. new[i] \in LedgerRow
      BY <1>1
    <3> QED
      BY <3>1 DEF LedgerRow
  <2>2. i \in Marks(new, "EARNING", new[i].ref)
    BY <1>4 DEF Marks
  <2>3. Credited(t) /\ new[i].ref = OrderOf(t) /\ m = MerchantOf(t)
    <3> HIDE DEF Credited, m, new
    <3> QED
      BY <1>1, <1>2, <2>1, <2>2 DEF EntriesOf, Entering, Never, new
  <2> QED
    BY <2>3 DEF Credited, Locked
<1>5. CASE t \notin serial
  <2>1. SoldIn(new, db', p) = {}
    BY <1>4, <1>5 DEF SoldIn
  <2>2. db'[p] = db[p]
    BY <1>1, <1>2, <1>5 DEF SaleOf
  <2> HIDE DEF m, old, new
  <2>3. SoldIn(ledger'[m], db', p) = SoldIn(old, db, p)
    BY <1>1, <1>3, <2>1, NoneSold
  <2> QED
    BY <2>2, <2>3 DEF StockMatched, m, old
<1>6. CASE t \in serial
  <2> DEFINE o == OrderOf(t)
  <2>1. /\ o \in Tx /\ ProductOf(t) \in Product /\ MerchantOf(t) \in User
        /\ AmountOf(t) \in Nat /\ WorkOnTables(t)
        /\ Buys(t) => req[t].user \in User
        /\ ~Buys(t) => FoundOrder(t) /\ req[t].op = "webhook" /\ o = req[t].order
    BY <1>2, <1>6, InSale DEF Buys
  <2>2. /\ o \in wrote[t] /\ Saved(t) /\ Taken(t) /\ Credited(t)
        /\ Debited(t) <=> Buys(t)
    BY <1>6, <2>1, OrderAtCommit
  <2> HIDE DEF Saved, Taken, Credited, Debited
  <2>3. p \in wrote[t] <=> p = ProductOf(t)
    BY <1>1, <2>1, <2>2 DEF WorkOnTables
  <2>4. p = ProductOf(t) => view[t][p] = [db[p] EXCEPT !.stock = @ - 1]
    <3>1. Locked(t)
      BY <2>2 DEF Saved
    <3> QED
      BY <2>1, <2>2, <3>1 DEF WorkOnTables
  <2>5. db'[o].product = ProductOf(t)
    <3>1. db'[o] = view[t][o]
      BY <2>1, <2>2, OrderAssumption DEF Commit
    <3>2. CASE Buys(t)
      BY <2>1, <2>2, <3>1, <3>2 DEF WorkOnTables, Order
    <3>3. CASE ~Buys(t)
      <4>1. db'[o] = [db[o] EXCEPT !.status = "COMPLETED"]
        BY <2>1, <2>2, <3>1, <3>3 DEF WorkOnTables
      <4>2. seen[t] \in OrderRow /\ db[o] \in {seen[t], [seen[t] EXCEPT !.status = "COMPLETED"]}
        BY <2>1, <3>3 DEF FoundOrder
      <4>3. db'[o].product = seen[t].product
        <5> HIDE DEF o
        <5> QED
          BY <4>1, <4>2 DEF OrderRow
      <4> QED
        BY <2>1, <3>3, <4>3 DEF ProductOf
    <3> QED
      BY <3>2, <3>3
  <2>6. CASE p # ProductOf(t)
    <3>1. SoldIn(new, db', p) = {}
      BY <1>4, <2>5, <2>6 DEF SoldIn
    <3>2. db'[p] = db[p]
      BY <1>1, <2>3, <2>6
    <3> HIDE DEF m, old, new
    <3>3. SoldIn(ledger'[m], db', p) = SoldIn(old, db, p)
      BY <1>1, <1>3, <3>1, NoneSold
    <3> QED
      BY <3>2, <3>3 DEF StockMatched, m, old
  <2>7. CASE p = ProductOf(t)
    <3>1. m = MerchantOf(t)
      BY <2>7 DEF MerchantOf
    <3>2. Once(new, "EARNING", o, AmountOf(t))
      <4> HIDE DEF m, new, o
      <4> QED
        BY <1>1, <1>2, <2>1, <2>2, <3>1 DEF EntriesOf, Entering, new, o
    <3>3. PICK i : Marks(new, "EARNING", o) = {i}
      BY <3>2 DEF Once
    <3>4. SoldIn(new, db', p) = {i}
      <4>1. SoldIn(new, db', p) = Marks(new, "EARNING", o)
        BY <1>4, <2>5, <2>7 DEF SoldIn, Marks
      <4> QED
        BY <3>3, <4>1
    <3>5. db'[p].stock = db[p].stock - 1
      BY <1>1, <2>3, <2>4, <2>7
    <3> HIDE DEF m, old, new
    <3>6. /\ Cardinality(SoldIn(ledger'[m], db', p)) = Cardinality(SoldIn(old, db, p)) + 1
          /\ Cardinality(SoldIn(old, db, p)) \in Nat
      <4>1. /\ SoldIn(old \o new, db', p) = SoldIn(old, db', p) \cup {Len(old) + i}
            /\ Len(old) + i \notin SoldIn(old, db', p)
        <5>1. old \in Seq(LedgerRow) /\ new \in Seq(LedgerRow)
          BY <1>1
        <5> QED
          BY <3>4, <5>1, OneSold
      <4>2. IsFiniteSet(SoldIn(old, db, p)) /\ Cardinality(SoldIn(old, db, p)) \in Nat
        BY <1>1, SoldIsFinite
      <4>3. /\ SoldIn(ledger'[m], db', p) = SoldIn(old, db, p) \cup {Len(old) + i}
            /\ Len(old) + i \notin SoldIn(old, db, p)
        BY <1>1, <1>3, <4>1
      <4> QED
        BY <4>2, <4>3, FS_AddElement
    <3>7. InitialDb[p].stock - db[p].stock = Cardinality(SoldIn(old, db, p))
      BY DEF StockMatched, m, old
    <3>8. db[p].stock \in Int
      BY <1>1
    <3>9. InitialDb[p].stock - db'[p].stock = Cardinality(SoldIn(ledger'[m], db', p))
      BY <1>1, <3>5, <3>6, <3>7, <3>8
    <3> QED
      BY <3>9 DEF StockMatched, m
  <2> QED
    BY <2>6, <2>7
<1> QED
  BY <1>5, <1>6

LEMMA StockMatchStep ==
    ASSUME StockLeftAlone, TypeInv, EngineInv, PaidInv, SaleInv, [Next]_vars,
           NEW p \in Product, StockMatched(p)
    PROVE  StockMatched(p)'
<1>1. Owner[p] \in User /\ p \in Row /\ p \notin Tx /\ DOMAIN db = Row
  BY OrderAssumption DEF TypeInv, TypeOK, TablesOK, EngineTypeOK
<1>2. SoldIn(ledger[Owner[p]], db', p) = SoldIn(ledger[Owner[p]], db, p)
  BY <1>1, SoldStays
<1>3. CASE UNCHANGED <<db, ledger>>
  BY <1>3 DEF StockMatched
<1>4. ASSUME NEW t \in Tx, Publishes(t) PROVE StockMatched(p)'
  <2>1. ~EditsStock(req[t])
    <3>1. req[t] \in Arrivals[t] \/ req[t] = NoRequest
      BY DEF TypeInv, TypeOK, RequestsOK
    <3> QED
      BY <3>1 DEF StockLeftAlone, EditsStock, NoRequest
  <2>2. UNCHANGED ledger
    BY <1>4 DEF Publishes, AutoCommit
  <2>3. CASE \E q \in Product : \E row \in Contents(q) :
                AutoCommit(q, row) /\ row.stock = db[q].stock
    <3>1. PICK q \in Product : \E row \in Contents(q) :
              AutoCommit(q, row) /\ row.stock = db[q].stock
      BY <2>3
    <3>2. PICK row \in Contents(q) : AutoCommit(q, row) /\ row.stock = db[q].stock
      BY <3>1
    <3>3. db' = [db EXCEPT ![q] = row]
      BY <3>2 DEF AutoCommit
    <3>4. db'[p] = IF p = q THEN row ELSE db[p]
      BY <1>1, <3>3
    <3>5. db'[p].stock = db[p].stock
      BY <3>2, <3>4
    <3> QED
      BY <1>2, <2>2, <3>5 DEF StockMatched
  <2>4. CASE \E row \in OrderRow : AutoCommit(t, row)
    <3>1. db'[p] = db[p]
      BY <1>1, <2>4 DEF AutoCommit
    <3> QED
      BY <1>2, <2>2, <3>1 DEF StockMatched
  <2> QED
    BY <1>4, <2>1, <2>3, <2>4 DEF Publishes
<1> QED
  BY <1>3, <1>4, TableChanges, StockCommit

\* As long as merchants leave the stock alone, every unit that is gone was
\* sold: there is one EARNING for it, whatever orders, completions and failures
\* interleave.
THEOREM StockIsSold ==
    ASSUME StockLeftAlone
    PROVE  Spec => []StockMatchesSales
<1> DEFINE Inv == TypeInv /\ EngineInv /\ PaidInv /\ SaleInv
           Matched == \A p \in Product : StockMatched(p)
<1>1. Init => Matched
  <2> SUFFICES ASSUME Init, NEW p \in Product PROVE StockMatched(p)
    OBVIOUS
  <2>1. Owner[p] \in Row /\ p \in Row /\ InitialDb[p].stock \in Int
    BY OrderAssumption, ProductAssumption DEF ProductRow
  <2>2. ledger[Owner[p]] = <<>> /\ db[p] = InitialDb[p]
    BY <2>1 DEF Init, DbInit, Nothing
  <2>3. SoldIn(<<>>, db, p) = {}
    BY DEF SoldIn
  <2>4. Cardinality({}) = 0
    BY FS_EmptySet
  <2>5. Cardinality(SoldIn(ledger[Owner[p]], db, p)) = 0
    BY <2>2, <2>3, <2>4
  <2>6. InitialDb[p].stock - db[p].stock = 0
    BY <2>1, <2>2
  <2> QED
    BY <2>5, <2>6 DEF StockMatched
<1>2. Inv /\ Matched /\ [Next]_vars => Matched'
  BY StockMatchStep
<1>3. Matched => StockMatchesSales
  BY DEF StockMatched, StockMatchesSales, SoldIn
<1> HIDE DEF Inv, Matched
<1>4. Spec => []Inv
  BY SaleHolds DEF Inv
<1> QED
  BY <1>1, <1>2, <1>3, <1>4, PTL DEF Spec

-----------------------------------------------------------------------------
(* The credits of a gateway order.                                         *)

\* Stripe reports a payment as one event, which it repeats until it is
\* acknowledged: no two requests are the webhook of the same order.
OneDelivery ==
    \A s, t \in Tx : \A r \in Arrivals[s], q \in Arrivals[t] :
        r.op = "webhook" /\ q.op = "webhook" /\ r.order = q.order => s = t

Completes(t) ==
    req[t].op = "webhook" /\ (t \in serial \/ pc[t] = "beginCompletion")

AtMostOnce(rows, o) ==
    Never(rows, "EARNING", o) \/ \E a : Once(rows, "EARNING", o, a)

\* What a completion works on is still pending, nobody has earned from an
\* order that is, and nobody earns twice.
CreditInv ==
    /\ \A t \in Tx : Completes(t) => db[req[t].order].status = "PENDING"
    /\ \A o \in Tx : db[o].status = "PENDING" =>
          \A u \in User : Never(ledger[u], "EARNING", o)
    /\ \A o \in Tx : \A u \in User : AtMostOnce(ledger[u], o)

LEMMA OneWebhook ==
    ASSUME OneDelivery, TypeInv, NEW s \in Tx, NEW t \in Tx,
           req[s].op = "webhook", req[t].op = "webhook", req[s].order = req[t].order
    PROVE  s = t
<1>1. \A x \in Tx : req[x].op = "webhook" => req[x] \in Arrivals[x]
  BY DEF TypeInv, TypeOK, RequestsOK, NoRequest
<1> QED
  BY <1>1 DEF OneDelivery

\* A completion begins with an order that it finds pending.
LEMMA CompletionBegins ==
    ASSUME TypeInv, [Next]_vars, NEW t \in Tx, Completes(t)'
    PROVE  \/ Completes(t) /\ req'[t] = req[t]
           \/ UNCHANGED db /\ db[req'[t].order].status = "PENDING"
<1>1. CASE Quiet
  <2>1. UNCHANGED <<db, serial>>
    BY <1>1 DEF Quiet, dbVars
  <2>2. TypeInv'
    BY TypeStep
  <2>3. CASE Waits(t)
    BY <2>1, <2>3 DEF Waits, Completes
  <2>4. CASE ~Waits(t)
    <3>1. pc'[t] \notin TxSteps \cup {"commit"}
      BY <1>1, <2>4 DEF Quiet
    <3>2. t \notin serial'
      BY <2>2, <3>1 DEF TypeInv, StepsMatchRequests, StepMatches
    <3>3. Finds(t)
      BY <1>1, <2>4, <3>2 DEF Quiet, Completes
    <3> QED
      BY <2>1, <3>3 DEF Finds
  <2> QED
    BY <2>3, <2>4
<1>2. ASSUME NEW s \in Tx, Effect(s), s # t
      PROVE  Completes(t) /\ req'[t] = req[t]
  <2>1. /\ pc'[t] = pc[t] /\ req'[t] = req[t]
        /\ t \in serial' => t \in serial
    <3>1. CASE Begins(s)
      BY <1>2, <3>1 DEF Begins, TakeSnapshot, Others, Waits
    <3>2. CASE Locks(s)
      BY <1>2, <3>2 DEF Locks, SelectForUpdate, Goto, TypeInv, TypeOK, RequestsOK
    <3>3. CASE MovesMoney(s)
      BY <1>2, <3>3, MoveIsWrite DEF MovesMoney, WriteAndLog, Put, Goto, TypeInv, TypeOK,
         RequestsOK
    <3>4. CASE DecrementStock(s) \/ SaveOrder(s) \/ WriteWallet(s)
      BY <1>2, <3>4 DEF DecrementStock, SaveOrder, WriteWallet, Write, WriteAndLog, Put,
         Goto, TypeInv, TypeOK, RequestsOK
    <3>5. CASE Ends(s)
      BY <1>2, <3>5 DEF Ends, Rollback, Commit, Release, Others, Waits
    <3>6. CASE Publishes(s)
      BY <1>2, <3>6 DEF Publishes, AutoCommit, Others, Waits
    <3> QED
      BY <1>2, <3>1, <3>2, <3>3, <3>4, <3>5, <3>6 DEF Effect
  <2> QED
    BY <2>1 DEF Completes
<1>3. ASSUME Effect(t) PROVE Completes(t) /\ req'[t] = req[t]
  <2>1. CASE Begins(t)
    BY <2>1 DEF Begins, Completes
  <2>2. CASE Locks(t)
    BY <2>2 DEF Locks, SelectForUpdate, Goto, Completes, TypeInv, StepsMatchRequests,
       StepMatches, TypeOK, RequestsOK, TxSteps
  <2>3. CASE MovesMoney(t) \/ DecrementStock(t) \/ SaveOrder(t)
    <3>1. pc[t] \in TxSteps /\ req' = req
      BY <2>3 DEF MovesMoney, DecrementStock, SaveOrder, Goto, TxSteps
    <3> QED
      BY <3>1 DEF Completes, TypeInv, StepsMatchRequests, StepMatches
  <2>4. CASE WriteWallet(t)
    BY <2>4 DEF WriteWallet, Goto, Completes, TypeInv, StepsMatchRequests, StepMatches
  <2>5. CASE Ends(t)
    <3>1. t \notin serial' /\ pc'[t] \in Answers
      BY <2>5 DEF Ends, Rollback, Commit, Release
    <3> QED
      BY <3>1 DEF Completes, Answers
  <2>6. CASE Publishes(t)
    <3>1. serial' = serial /\ pc'[t] \in Answers /\ pc[t] \in {"saveProduct", "insertOrder"}
      BY <2>6 DEF Publishes, AutoCommit
    <3> QED
      BY <3>1 DEF Completes, Answers, TypeInv, StepsMatchRequests, StepMatches, TxSteps
  <2> QED
    BY <1>3, <2>1, <2>2, <2>3, <2>4, <2>5, <2>6 DEF Effect
<1> QED
  BY <1>1, <1>2, <1>3, Effects

\* Only the commit of a completion changes an order that is there.
LEMMA OrderCompleted ==
    ASSUME TypeInv, EngineInv, PaidInv, SaleInv, [Next]_vars,
           NEW o \in Tx, db[o] # NoOrder, db'[o] # db[o]
    PROVE  \E t \in Tx : /\ pc[t] = "commit" /\ t \in serial /\ Commit(t)
                         /\ pc'[t] \in Answers
                         /\ req[t].op = "webhook" /\ req[t].order = o
<1>1. o \in Row /\ DOMAIN db = Row /\ o \notin Product
  BY OrderAssumption DEF TypeInv, TypeOK, TablesOK, EngineTypeOK
<1>2. pc[o] \in Answers
  BY PlacedStays DEF SaleInv
<1>3. ~\E t \in Tx : Publishes(t)
  <2> SUFFICES ASSUME NEW t \in Tx, Publishes(t) PROVE FALSE
    OBVIOUS
  <2>1. pc[t] = "insertOrder" => o # t
    BY <1>2 DEF Answers
  <2> QED
    BY <1>1, <2>1 DEF Publishes, AutoCommit
<1>4. PICK t \in Tx : pc[t] = "commit" /\ Commit(t) /\ pc'[t] \in Answers
  BY <1>3, TableChanges
<1>5. o \in wrote[t]
  BY <1>1, <1>4 DEF Commit
<1>6. SaleOf(t)
  BY PartsOfSales DEF SaleInv
<1>7. t \in serial /\ o = OrderOf(t)
  BY <1>5, <1>6, OwnOrder
<1>8. ~Buys(t)
  BY <1>4, <1>7, OrderAtCommit
<1> QED
  BY <1>4, <1>6, <1>7, <1>8, InSale

\* A completion of t goes on with an order that stays pending: it would be t
\* itself that completes it.
LEMMA CompletionsKept ==
    ASSUME OneDelivery, TypeInv, EngineInv, PaidInv, SaleInv, CreditInv, [Next]_vars,
           NEW t \in Tx, Completes(t)'
    PROVE  db'[req'[t].order].status = "PENDING"
<1>1. CASE Completes(t) /\ req'[t] = req[t]
  <2> DEFINE o == req[t].order
  <2>1. o \in Tx /\ db[o].status = "PENDING" /\ req[t].op = "webhook"
    BY <1>1, RequestFacts DEF CreditInv, Completes, TypeInv, TypeOK
  <2>2. ASSUME db'[o] # db[o] PROVE FALSE
    <3> HIDE DEF o
    <3>1. db[o] # NoOrder
      BY <2>1 DEF NoOrder
    <3>2. PICK s \in Tx : /\ pc[s] = "commit" /\ s \in serial /\ Commit(s)
                          /\ pc'[s] \in Answers
                          /\ req[s].op = "webhook" /\ req[s].order = o
      BY <2>1, <2>2, <3>1, OrderCompleted
    <3>3. s = t
      BY <2>1, <3>2, OneWebhook DEF o
    <3>4. t \notin serial'
      BY <3>2, <3>3 DEF Commit, Release
    <3>5. pc'[t] \in Answers
      BY <3>2, <3>3
    <3> QED
      BY <3>4, <3>5 DEF Completes, Answers
  <2> QED
    BY <1>1, <2>1, <2>2
<1>2. CASE UNCHANGED db /\ db[req'[t].order].status = "PENDING"
  BY <1>2
<1> QED
  BY <1>1, <1>2, CompletionBegins

\* What a commit does for the earnings of o.
LEMMA CommittedEarnings ==
    ASSUME TypeInv, EngineInv, PaidInv, SaleInv, CreditInv, [Next]_vars,
           NEW t \in Tx, pc[t] = "commit", Commit(t), NEW o \in Tx, NEW u \in User
    PROVE  /\ db'[o].status = "PENDING" => Never(ledger'[u], "EARNING", o)
           /\ AtMostOnce(ledger'[u], o)
<1> DEFINE old == ledger[u]
           new == inserted[t][u]
<1>1. /\ old \in Seq(LedgerRow) /\ new \in Seq(LedgerRow) /\ ledger'[u] = old \o new
      /\ db'[o] = IF o \in wrote[t] THEN view[t][o] ELSE db[o]
  BY OrderAssumption DEF Commit, TypeInv, TypeOK, TablesOK
<1>2. /\ AtMostOnce(old, o)
      /\ db[o].status = "PENDING" => Never(old, "EARNING", o)
      /\ db[o] = NoOrder => Never(old, "EARNING", o)
  BY DEF CreditInv, SaleInv, OrdersSettled, Untouched
<1>3. SaleOf(t) /\ EntriesOf(t)
  BY PartsOfSales DEF SaleInv
<1>4. CASE ~(t \in serial /\ o = OrderOf(t))
  <2>1. Never(new, "EARNING", o)
    BY <1>4, NotItsOrder
  <2>2. db'[o] = db[o]
    BY <1>1, <1>3, <1>4, OwnOrder
  <2> HIDE DEF old, new
  <2>3. Never(old, "EARNING", o) => Never(old \o new, "EARNING", o)
    BY <1>1, <2>1, NeverJoined
  <2>4. ASSUME NEW a, Once(old, "EARNING", o, a)
        PROVE  Once(old \o new, "EARNING", o, a)
    BY <1>1, <2>1, <2>4, OnceStays
  <2> QED
    BY <1>1, <1>2, <2>2, <2>3, <2>4 DEF AtMostOnce
<1>5. CASE t \in serial /\ o = OrderOf(t)
  <2>1. /\ o \in wrote[t] /\ WorkOnTables(t) /\ Saved(t)
        /\ Buys(t) => db[o] = NoOrder
        /\ ~Buys(t) => db[o] # NoOrder
    BY <1>5, OrderAtCommit
  <2>2. Never(old, "EARNING", o)
    <3>1. ~Buys(t) => db[o].status = "PENDING"
      BY <1>3, <1>5, InSale DEF CreditInv, Completes
    <3> QED
      BY <1>2, <2>1, <3>1
  <2>3. db'[o].status = "COMPLETED"
    <3>1. db'[o] = IF Buys(t) THEN Order("COMPLETED", req[t].user, ProductOf(t), AmountOf(t))
                   ELSE [db[o] EXCEPT !.status = "COMPLETED"]
      <4> HIDE DEF Saved
      <4> QED
        BY <1>1, <1>5, <2>1 DEF WorkOnTables
    <3>2. db[o] # NoOrder => db[o] \in OrderRow
      BY OrderAssumption DEF TypeInv, TypeOK, TablesOK, Contents
    <3> QED
      BY <2>1, <3>1, <3>2 DEF Order, OrderRow
  <2>4. Never(new, "EARNING", o) \/ Once(new, "EARNING", o, AmountOf(t))
    <3> HIDE DEF new
    <3> QED
      BY <1>3 DEF EntriesOf, Entering, new
  <2> HIDE DEF old, new
  <2>5. Never(new, "EARNING", o) => Never(old \o new, "EARNING", o)
    BY <1>1, <2>2, NeverJoined
  <2>6. ASSUME NEW a, Once(new, "EARNING", o, a)
        PROVE  Once(old \o new, "EARNING", o, a)
    BY <1>1, <2>2, <2>6, OnceArrives
  <2> QED
    BY <1>1, <2>3, <2>4, <2>5, <2>6 DEF AtMostOnce
<1> QED
  BY <1>4, <1>5

LEMMA CreditStep ==
    ASSUME OneDelivery, TypeInv, EngineInv, PaidInv, SaleInv, CreditInv, [Next]_vars
    PROVE  CreditInv'
<1>1. ASSUME NEW t \in Tx, Completes(t)' PROVE db'[req'[t].order].status = "PENDING"
  BY <1>1, CompletionsKept
<1>2. ASSUME NEW o \in Tx, NEW u \in User
      PROVE  /\ db'[o].status = "PENDING" => Never(ledger'[u], "EARNING", o)
             /\ AtMostOnce(ledger'[u], o)
  <2>1. CASE UNCHANGED <<db, ledger>>
    BY <2>1 DEF CreditInv
  <2>2. CASE \E t \in Tx : pc[t] = "commit" /\ Commit(t)
    BY <2>2, CommittedEarnings
  <2>3. ASSUME NEW t \in Tx, Publishes(t)
        PROVE  /\ db'[o].status = "PENDING" => Never(ledger'[u], "EARNING", o)
               /\ AtMostOnce(ledger'[u], o)
    <3>1. UNCHANGED ledger
      BY <2>3 DEF Publishes, AutoCommit
    <3>2. db[o] # NoOrder => db'[o] = db[o]
      <4>1. o \in Row /\ DOMAIN db = Row /\ o \notin Product
        BY OrderAssumption DEF TypeInv, TypeOK, TablesOK, EngineTypeOK
      <4>2. db[o] # NoOrder => pc[o] \in Answers
        BY DEF SaleInv, OrdersSettled
      <4> QED
        BY <2>3, <4>1, <4>2 DEF Publishes, AutoCommit, Answers
    <3>3. db[o] = NoOrder => Never(ledger[u], "EARNING", o)
      BY DEF SaleInv, OrdersSettled, Untouched
    <3> QED
      BY <3>1, <3>2, <3>3 DEF CreditInv
  <2> QED
    BY <2>1, <2>2, <2>3, TableChanges
<1>3. (\A t \in Tx : Completes(t) => db[req[t].order].status = "PENDING")'
  BY <1>1
<1>4. (\A o \in Tx : db[o].status = "PENDING" =>
          \A u \in User : Never(ledger[u], "EARNING", o))'
  BY <1>2 DEF Never, Marks
<1>5. (\A o \in Tx : \A u \in User : AtMostOnce(ledger[u], o))'
  BY <1>2 DEF AtMostOnce, Never, Once, Marks
<1> QED
  BY <1>3, <1>4, <1>5 DEF CreditInv

LEMMA CreditInit == Init => CreditInv
<1> SUFFICES ASSUME Init PROVE CreditInv
  OBVIOUS
<1>1. /\ \A u \in User : ledger[u] = <<>>
      /\ \A t \in Tx : t \notin serial /\ pc[t] = "idle"
  BY OrderAssumption DEF Init, DbInit, RequestInit, Nothing
<1>2. \A o : Never(<<>>, "EARNING", o)
  BY DEF Never, Marks
<1> QED
  BY <1>1, <1>2 DEF CreditInv, Completes, AtMostOnce

LEMMA CreditHolds ==
    ASSUME OneDelivery
    PROVE  Spec => [](TypeInv /\ EngineInv /\ PaidInv /\ SaleInv /\ CreditInv)
<1> DEFINE Inv == TypeInv /\ EngineInv /\ PaidInv /\ SaleInv
<1>1. Inv /\ CreditInv /\ [Next]_vars => CreditInv'
  BY CreditStep
<1>2. Spec => []Inv
  BY SaleHolds
<1> HIDE DEF Inv
<1>3. Spec => [](Inv /\ CreditInv)
  BY <1>1, <1>2, CreditInit, PTL DEF Spec
<1> QED
  BY <1>3 DEF Inv

\* When a payment is delivered as one event, repeated as often as it takes, its
\* merchant is credited once: the status that completeGatewayOrder looks at
\* outside its transaction has not changed when it commits.
THEOREM CreditsHappenOnce ==
    ASSUME OneDelivery
    PROVE  Spec => []CreditedOnce
<1>1. CreditInv => CreditedOnce
  <2> SUFFICES ASSUME CreditInv, NEW o \in Tx, NEW u \in User
               PROVE  Cardinality(Entries(u, "EARNING", o)) <= 1
    BY DEF CreditedOnce
  <2> DEFINE marks == Entries(u, "EARNING", o)
  <2>1. marks = {} \/ \E i : marks = {i}
    BY DEF CreditInv, AtMostOnce, Never, Once, Entries
  <2> HIDE DEF marks
  <2>2. Cardinality(marks) \in {0, 1}
    BY <2>1, FS_EmptySet, FS_Singleton
  <2> QED
    BY <2>2 DEF marks
<1> QED
  BY <1>1, CreditHolds, PTL

-----------------------------------------------------------------------------
(* The promise, step by step.                                              *)

\* Nobody deposits or withdraws.
NoCash == \A t \in Tx : \A r \in Arrivals[t] : r.op \notin {"deposit", "withdraw"}

LEMMA PromisedRows ==
    ASSUME TypeInv
    PROVE  /\ \A u \in User : u \in Row /\ u \notin Product /\ u \notin Tx /\ db[u] \in Int
           /\ \A p \in Product : /\ p \in Row /\ p \notin User /\ p \notin Tx
                                 /\ db[p] \in [stock : Int, price : Nat, active : BOOLEAN]
                                 /\ Owner[p] \in User
           /\ \A o \in Tx : /\ o \in Row /\ o \notin User /\ o \notin Product
                            /\ db[o] \in OrderRow \cup {NoOrder}
           /\ DOMAIN db = Row
BY OrderAssumption DEF TypeInv, TypeOK, TablesOK, EngineTypeOK, Contents

\* Only the handler of t moves, and it neither had a quote nor has one.
LEMMA QuotesStay ==
    ASSUME NEW t \in Tx, Others(t), ~HoldsQuote(t), ~HoldsQuote(t)'
    PROVE  [o \in Tx |-> QuoteOf(o)]' = [o \in Tx |-> QuoteOf(o)]
<1>1. ASSUME NEW o \in Tx PROVE QuoteOf(o)' = QuoteOf(o)
  <2>1. CASE o = t
    BY <2>1 DEF QuoteOf
  <2>2. CASE o # t
    BY <2>2 DEF QuoteOf, HoldsQuote, Others, Waits
  <2> QED
    BY <2>1, <2>2
<1> QED
  BY <1>1

\* Only the handler of t moves, and the quote that it had is gone.
LEMMA QuoteGoes ==
    ASSUME NEW t \in Tx, Others(t), HoldsQuote(t), ~HoldsQuote(t)'
    PROVE  LET quote == [o \in Tx |-> QuoteOf(o)]
           IN  /\ quote' = [quote EXCEPT ![t] = NoOrder]
               /\ quote[t] = [user |-> req[t].user, product |-> req[t].product,
                              amount |-> seen[t].amount]
               /\ quote[t] # NoOrder
<1>1. ASSUME NEW o \in Tx
      PROVE  QuoteOf(o)' = IF o = t THEN NoOrder ELSE QuoteOf(o)
  <2>1. CASE o = t
    BY <2>1 DEF QuoteOf
  <2>2. CASE o # t
    BY <2>2 DEF QuoteOf, HoldsQuote, Others, Waits
  <2> QED
    BY <2>1, <2>2
<1>2. QuoteOf(t) = [user |-> req[t].user, product |-> req[t].product,
                    amount |-> seen[t].amount]
  BY DEF QuoteOf
<1>3. QuoteOf(t) # NoOrder
  BY <1>2 DEF NoOrder
<1> QED
  BY <1>1, <1>2, <1>3

\* A customer gets a quote for a product that is on sale.
LEMMA QuoteAsPromised ==
    ASSUME TypeInv, SaleInv, NEW t \in Tx, CreateGatewayOrder(t), HoldsQuote(t)'
    PROVE  Promise!SalesNext
<1> DEFINE quote == [o \in Tx |-> QuoteOf(o)]
           u == req'[t].user
           p == req'[t].product
           new == [user |-> u, product |-> p, amount |-> db[p].price]
<1>1. /\ pc[t] = "idle" /\ req'[t] \in Arrivals[t] /\ req'[t].op = "gatewayOrder"
      /\ db[p].active /\ db[p].stock > 0
      /\ seen'[t].amount = db[p].price
      /\ Others(t) /\ UNCHANGED db
  BY DEF CreateGatewayOrder, HoldsQuote, Others, Waits, Amount, dbVars, TypeInv, TypeOK,
     RequestsOK
<1>2. u \in User /\ p \in Product
  BY <1>1, OrderAssumption
<1>3. db[t] = NoOrder
  BY <1>1 DEF SaleInv, OrdersSettled, Answers
<1>4. quote[t] = NoOrder
  BY <1>1 DEF QuoteOf, HoldsQuote
<1>5. ASSUME NEW o \in Tx
      PROVE  QuoteOf(o)' = IF o = t THEN new ELSE QuoteOf(o)
  <2>1. CASE o = t
    BY <1>1, <2>1 DEF QuoteOf
  <2>2. CASE o # t
    BY <1>1, <2>2 DEF QuoteOf, HoldsQuote, Others, Waits
  <2> QED
    BY <2>1, <2>2
<1>6. quote' = [quote EXCEPT ![t] = new]
  BY <1>5
<1> HIDE DEF quote, u, p
<1>7. /\ [x \in Product |-> db[x]][p].active /\ [x \in Product |-> db[x]][p].stock > 0
      /\ [x \in Product |-> db[x]][p].price = db[p].price
      /\ [o \in Tx |-> db[o]][t] = NoOrder
  BY <1>1, <1>2, <1>3 DEF p
<1>8. /\ [v \in User |-> db'[v]] = [v \in User |-> db[v]]
      /\ [x \in Product |-> db'[x]] = [x \in Product |-> db[x]]
      /\ [o \in Tx |-> db'[o]] = [o \in Tx |-> db[o]]
  BY <1>1
<1>9. Promise!Quote(t, u, p)
  BY <1>4, <1>6, <1>7, <1>8 DEF Promise!Quote, Promise!OnSale, quote
<1> QED
  BY <1>2, <1>9 DEF Promise!SalesNext

\* Requests change quotes only at the start of a gateway order, at its INSERT
\* and when the request is lost.
LEMMA QuoteSteps ==
    ASSUME TypeInv, [Next]_vars
    PROVE  \/ [o \in Tx |-> QuoteOf(o)]' = [o \in Tx |-> QuoteOf(o)]
           \/ \E t \in Tx : CreateGatewayOrder(t) /\ HoldsQuote(t)'
           \/ \E t \in Tx : Others(t) /\ HoldsQuote(t) /\ ~HoldsQuote(t)'
<1> DEFINE Stay == [o \in Tx |-> QuoteOf(o)]' = [o \in Tx |-> QuoteOf(o)]
<1>1. CASE UNCHANGED requestVars
  BY <1>1 DEF requestVars, QuoteOf, HoldsQuote
<1>2. ASSUME NEW t \in Tx, Others(t), HoldsQuote(t)' => HoldsQuote(t) /\ Waits(t)
      PROVE  Stay \/ (HoldsQuote(t) /\ ~HoldsQuote(t)')
  <2>1. CASE HoldsQuote(t) /\ HoldsQuote(t)'
    BY <1>2, <2>1 DEF Others, Waits, QuoteOf, HoldsQuote
  <2> QED
    BY <1>2, <2>1, QuotesStay
<1> HIDE DEF Stay
<1>3. ASSUME NEW t \in Tx, Call(t), ~CreateGatewayOrder(t)
      PROVE  Others(t) /\ ~HoldsQuote(t)'
  BY <1>3 DEF Call, Deposit, Withdraw, UpdateProduct, CreateWalletOrder, Arrive, Others,
     Waits, HoldsQuote, TypeInv, TypeOK, RequestsOK
<1>4. ASSUME NEW t \in Tx, CreateGatewayOrder(t), ~HoldsQuote(t)' PROVE Stay
  <2>1. Others(t) /\ ~HoldsQuote(t)
    BY <1>4 DEF CreateGatewayOrder, Others, Waits, HoldsQuote, TypeInv, TypeOK, RequestsOK
  <2> QED
    BY <1>4, <2>1, QuotesStay DEF Stay
<1>5. ASSUME NEW t \in Tx, CreateCheckoutSession(t) PROVE Stay
  <2>1. ASSUME NEW o \in Tx PROVE QuoteOf(o)' = QuoteOf(o)
    BY <1>5 DEF CreateCheckoutSession, Goto, QuoteOf, HoldsQuote, TypeInv, TypeOK, RequestsOK
  <2> QED
    BY <2>1 DEF Stay
<1>6. ASSUME NEW t \in Tx, Handle(t), ~CreateCheckoutSession(t)
      PROVE  Others(t) /\ ~HoldsQuote(t)'
  <2>1. CASE WalletStep(t) \/ SaveProduct(t)
    BY <2>1 DEF WalletStep, ReadWallet, WriteWallet, DepositOverflow, CommitRequest,
       SaveProduct, SaveRow, Reject, Fail, Answer, Remember, Goto, Answers, Others, Waits,
       HoldsQuote, TypeInv, TypeOK, RequestsOK
  <2>2. CASE LockProduct(t) \/ Debit(t) \/ Credit(t) \/ CreditOverflow(t)
    BY <2>2 DEF LockProduct, Debit, Credit, CreditOverflow, Reject, Fail, Answer, Goto,
       Others, Waits, HoldsQuote, TypeInv, TypeOK, RequestsOK
  <2>3. CASE \/ DecrementStock(t) \/ SaveOrder(t) \/ SerializationFailure(t)
             \/ DeadlockVictim(t)
    BY <2>3 DEF DecrementStock, SaveOrder, SerializationFailure, DeadlockVictim, Fail,
       Answer, Goto, Others, Waits, HoldsQuote, TypeInv, TypeOK, RequestsOK
  <2>4. CASE InsertOrder(t) \/ FindOrder(t) \/ BeginCompletion(t)
    BY <2>4 DEF InsertOrder, FindOrder, BeginCompletion, Answer, Remember, Goto,
       Others, Waits, HoldsQuote, TypeInv, TypeOK, RequestsOK
  <2> QED
    BY <1>6, <2>1, <2>2, <2>3, <2>4 DEF Handle, OrderStep
<1>7. ASSUME NEW t \in Tx, Webhook(t) PROVE Others(t) /\ ~HoldsQuote(t)'
  BY <1>7 DEF Webhook, DeliverWebhook, Redeliver, Arrive, Goto, Others, Waits, HoldsQuote,
     TypeInv, TypeOK, RequestsOK
<1>8. ASSUME NEW t \in Tx, Loss(t) PROVE Others(t) /\ ~HoldsQuote(t)'
  BY <1>8 DEF Loss, Abort, LoseAnswer, LoseUrl, Others, Waits, HoldsQuote, TypeInv, TypeOK,
     RequestsOK
<1>9. ASSUME NEW t \in Tx, Customer(t) PROVE UNCHANGED requestVars
  BY <1>9 DEF Customer, Pay, Expire
<1>10. CASE UNCHANGED vars
  BY <1>1, <1>10 DEF vars
<1>11. ASSUME NEW t \in Tx, Call(t) \/ Handle(t) \/ Webhook(t) \/ Loss(t)
       PROVE  \/ Stay \/ (CreateGatewayOrder(t) /\ HoldsQuote(t)')
              \/ (Others(t) /\ HoldsQuote(t) /\ ~HoldsQuote(t)')
  BY <1>2, <1>3, <1>4, <1>5, <1>6, <1>7, <1>8, <1>11
<1> QED
  BY <1>1, <1>9, <1>10, <1>11 DEF Next, Idle, Stay

\* A step that leaves the rows alone gives a quote, drops one, or neither.
LEMMA QuietAsPromised ==
    ASSUME TypeInv, SaleInv, [Next]_vars, UNCHANGED <<db, ledger>>
    PROVE  [Promise!SalesNext]_(Promise!salesVars)
<1> DEFINE quote == [o \in Tx |-> QuoteOf(o)]
<1>1. /\ [u \in User |-> db'[u]] = [u \in User |-> db[u]]
      /\ [x \in Product |-> db'[x]] = [x \in Product |-> db[x]]
      /\ [o \in Tx |-> db'[o]] = [o \in Tx |-> db[o]]
  OBVIOUS
<1>2. CASE quote' = quote
  BY <1>1, <1>2 DEF Promise!salesVars
<1>3. ASSUME NEW t \in Tx, Others(t), HoldsQuote(t), ~HoldsQuote(t)'
      PROVE  Promise!SalesNext
  <2>1. quote' = [quote EXCEPT ![t] = NoOrder] /\ quote[t] # NoOrder
    BY <1>3, QuoteGoes
  <2>2. Promise!Forget(t)
    BY <1>1, <2>1 DEF Promise!Forget
  <2> QED
    BY <2>2 DEF Promise!SalesNext
<1> QED
  BY <1>2, <1>3, QuoteSteps, QuoteAsPromised

\* A statement by itself is an edit of a merchant, or places an order.
LEMMA PublishesAsPromised ==
    ASSUME TypeInv, SaleInv, StockInv, NEW t \in Tx, Publishes(t)
    PROVE  Promise!SalesNext
<1>1. CASE pc[t] = "saveProduct" /\ \E p \in Product : \E row \in Contents(p) :
              AutoCommit(p, row) /\ (db[p].stock >= 0 => row.stock >= 0)
  <2>1. PICK p \in Product : \E row \in Contents(p) :
              AutoCommit(p, row) /\ (db[p].stock >= 0 => row.stock >= 0)
    BY <1>1
  <2>2. PICK row \in Contents(p) : AutoCommit(p, row) /\ (db[p].stock >= 0 => row.stock >= 0)
    BY <2>1
  <2>3. db' = [db EXCEPT ![p] = row]
    BY <2>2 DEF AutoCommit
  <2>4. row \in [stock : Nat, price : Nat, active : BOOLEAN]
    <3>1. row \in [stock : Int, price : Nat, active : BOOLEAN] /\ row.stock >= 0
      BY <2>2, RowKinds DEF StockInv, NoOversell
    <3> QED
      BY <3>1
  <2>5. [u \in User |-> db'[u]] = [u \in User |-> db[u]]
    BY <2>3, PromisedRows
  <2>6. [o \in Tx |-> db'[o]] = [o \in Tx |-> db[o]]
    BY <2>3, PromisedRows
  <2>7. /\ [x \in Product |-> db'[x]] = [[x \in Product |-> db[x]] EXCEPT ![p] = row]
        /\ [x \in Product |-> db'[x]][p] = row
    BY <2>3, PromisedRows
  <2>8. [o \in Tx |-> QuoteOf(o)]' = [o \in Tx |-> QuoteOf(o)]
    BY <1>1, QuotesStay DEF Publishes, HoldsQuote, Answers
  <2>9. Promise!Edit(p)
    BY <2>4, <2>5, <2>6, <2>7, <2>8 DEF Promise!Edit
  <2> QED
    BY <2>9 DEF Promise!SalesNext
<1>2. CASE pc[t] = "insertOrder" /\ \E row \in OrderRow :
              /\ AutoCommit(t, row)
              /\ row = Order("PENDING", req[t].user, req[t].product, seen[t].amount)
  <2>1. PICK row \in OrderRow :
              /\ AutoCommit(t, row)
              /\ row = Order("PENDING", req[t].user, req[t].product, seen[t].amount)
    BY <1>2
  <2>2. db' = [db EXCEPT ![t] = row]
    BY <2>1 DEF AutoCommit
  <2>3. LET quote == [o \in Tx |-> QuoteOf(o)]
        IN  /\ quote' = [quote EXCEPT ![t] = NoOrder]
            /\ quote[t] = [user |-> req[t].user, product |-> req[t].product,
                           amount |-> seen[t].amount]
            /\ quote[t] # NoOrder
    BY <1>2, QuoteGoes DEF Publishes, HoldsQuote, Answers
  <2>4. db[t] = NoOrder
    BY <1>2 DEF SaleInv, OrdersSettled, Answers
  <2>5. [u \in User |-> db'[u]] = [u \in User |-> db[u]]
    BY <2>2, PromisedRows
  <2>6. [x \in Product |-> db'[x]] = [x \in Product |-> db[x]]
    BY <2>2, PromisedRows
  <2>7. /\ [o \in Tx |-> db'[o]] = [[o \in Tx |-> db[o]] EXCEPT ![t] = row]
        /\ [o \in Tx |-> db'[o]][t] = row
        /\ [o \in Tx |-> db[o]][t] = NoOrder
    BY <2>2, <2>4, PromisedRows
  <2> DEFINE quote == [o \in Tx |-> QuoteOf(o)]
  <2>8. row = [status |-> "PENDING", user |-> quote[t].user,
               product |-> quote[t].product, amount |-> quote[t].amount]
    BY <2>1, <2>3 DEF Order
  <2>9. quote' = [quote EXCEPT ![t] = NoOrder] /\ quote[t] # NoOrder
    BY <2>3
  <2>10. Promise!Place(t)
    BY <2>5, <2>6, <2>7, <2>8, <2>9 DEF Promise!Place
  <2> QED
    BY <2>10 DEF Promise!SalesNext
<1> QED
  BY <1>1, <1>2 DEF Publishes

\* What a sale commits to the three tables.
SaleDone(buys, o, p, m, a, b) ==
    /\ o \in Tx /\ p \in Product /\ m = Owner[p] /\ m \in User /\ a \in Nat
    /\ db[p].stock > 0
    /\ \A x \in Product :
          db'[x] = IF x = p THEN [db[p] EXCEPT !.stock = @ - 1] ELSE db[x]
    /\ \A x \in Tx \ {o} : db'[x] = db[x]
    /\ buys => db'[o] = Order("COMPLETED", b, p, a)
    /\ ~buys => db'[o] = [db[o] EXCEPT !.status = "COMPLETED"]
    /\ buys => \A u \in User :
          db'[u] = db[u] - (IF u = b THEN a ELSE 0)
                         + (IF u = m THEN a ELSE 0)
    /\ ~buys => \A u \in User :
          db'[u] = db[u] + (IF u = m THEN a ELSE 0)

LEMMA SaleCommitted ==
    ASSUME TypeInv, EngineInv, PaidInv, SaleInv, [Next]_vars,
           NEW t \in Tx, pc[t] = "commit", Commit(t), t \in serial,
           NEW o, o = OrderOf(t), NEW p, p = ProductOf(t), NEW m, m = MerchantOf(t),
           NEW a, a = AmountOf(t), NEW b, b = req[t].user
    PROVE  SaleDone(Buys(t), o, p, m, a, b)
<1>1. /\ o \in Tx /\ p \in Product /\ m \in User /\ a \in Nat /\ WorkOnTables(t)
      /\ Buys(t) => req[t].user \in User
      /\ m = Owner[p]
  BY InSale, PartsOfSales DEF SaleInv, Buys, MerchantOf
<1>2. /\ Saved(t) /\ Taken(t) /\ Credited(t)
      /\ Debited(t) <=> Buys(t)
      /\ Locked(t)
  BY OrderAtCommit, <1>1 DEF Saved
<1> HIDE DEF Saved, Taken, Credited, Debited, Locked
<1>3. wrote[t] = (IF Buys(t) THEN {req[t].user} ELSE {}) \cup {m} \cup {p} \cup {o}
  BY <1>1, <1>2 DEF WorkOnTables
<1>4. \A r \in Row : db'[r] = IF r \in wrote[t] THEN view[t][r] ELSE db[r]
  BY DEF Commit
<1>5. db[p].stock > 0 /\ view[t][p] = [db[p] EXCEPT !.stock = @ - 1]
  BY <1>1, <1>2 DEF WorkOnTables
<1>6. ASSUME NEW x \in Product
      PROVE  db'[x] = IF x = p THEN [db[p] EXCEPT !.stock = @ - 1] ELSE db[x]
  BY <1>1, <1>3, <1>4, <1>5, PromisedRows
<1>7. ASSUME NEW x \in Tx
      PROVE  db'[x] = IF x = o
                      THEN IF Buys(t) THEN Order("COMPLETED", req[t].user, p, a)
                           ELSE [db[o] EXCEPT !.status = "COMPLETED"]
                      ELSE db[x]
  <2>1. view[t][o] = IF Buys(t) THEN Order("COMPLETED", req[t].user, p, a)
                     ELSE [db[o] EXCEPT !.status = "COMPLETED"]
    BY <1>1, <1>2 DEF WorkOnTables
  <2>2. x \in wrote[t] <=> x = o
    BY <1>1, <1>3, PromisedRows
  <2>3. x \in Row
    BY PromisedRows
  <2> QED
    BY <1>4, <2>1, <2>2, <2>3
<1>8. ASSUME NEW u \in User
      PROVE  db'[u] = db[u] - (IF Buys(t) /\ u = req[t].user THEN a ELSE 0)
                            + (IF u = m THEN a ELSE 0)
  <2>1. u \in wrote[t] => view[t][u] = BalanceInSale(t, u)
    BY <1>1 DEF WorkOnTables
  <2>2. BalanceInSale(t, u) = db[u] - (IF Buys(t) /\ u = req[t].user THEN a ELSE 0)
                                    + (IF u = m THEN a ELSE 0)
    BY <1>2 DEF BalanceInSale
  <2>3. u \in wrote[t] <=> u = m \/ (Buys(t) /\ u = req[t].user)
    BY <1>1, <1>3, PromisedRows
  <2>4. u \in Row /\ db[u] \in Int
    BY PromisedRows
  <2> QED
    BY <1>4, <2>1, <2>2, <2>3, <2>4
<1>9. Buys(t) => \A u \in User :
         db'[u] = db[u] - (IF u = b THEN a ELSE 0) + (IF u = m THEN a ELSE 0)
  BY <1>8
<1>10. ~Buys(t) => \A u \in User : db'[u] = db[u] + (IF u = m THEN a ELSE 0)
  <2>1. \A u \in User : db[u] \in Int
    BY PromisedRows
  <2> QED
    BY <1>8, <2>1
<1> QED
  BY <1>1, <1>5, <1>6, <1>7, <1>9, <1>10 DEF SaleDone

LEMMA PurchaseAsPromised ==
    ASSUME TypeInv, EngineInv, PaidInv, SaleInv, [Next]_vars,
           NEW t \in Tx, pc[t] = "commit", Commit(t), t \in serial, Buys(t),
           NEW o, o = OrderOf(t), NEW p, p = ProductOf(t), NEW m, m = MerchantOf(t),
           NEW a, a = AmountOf(t), NEW b, b = req[t].user,
           [o1 \in Tx |-> QuoteOf(o1)]' = [o1 \in Tx |-> QuoteOf(o1)]
    PROVE  Promise!SalesNext
<1>1. /\ o \in Tx /\ p \in Product /\ m = Owner[p] /\ m \in User /\ a \in Nat
      /\ db[p].stock > 0
      /\ \A x \in Product :
            db'[x] = IF x = p THEN [db[p] EXCEPT !.stock = @ - 1] ELSE db[x]
      /\ \A x \in Tx \ {o} : db'[x] = db[x]
      /\ db'[o] = Order("COMPLETED", b, p, a)
      /\ \A u \in User : db'[u] = db[u] - (IF u = b THEN a ELSE 0)
                                        + (IF u = m THEN a ELSE 0)
  <2>1. SaleDone(Buys(t), o, p, m, a, b)
    BY SaleCommitted
  <2> QED
    BY <2>1 DEF SaleDone
<1>2. /\ b \in User /\ WorkOnTables(t) /\ p = req[t].product
  BY InSale, PartsOfSales DEF SaleInv, Buys, ProductOf
<1>3. /\ Debited(t) /\ Locked(t) /\ Taken(t)
      /\ o = t /\ db[o] = NoOrder
  <2>1. Debited(t) /\ o = t /\ db[o] = NoOrder /\ Taken(t)
    BY <1>1, OrderAtCommit
  <2> QED
    BY <2>1 DEF Debited
<1>4. a = db[p].price
  <2>1. a = view[t][p].price
    BY <1>2 DEF AmountOf, Read, Buys
  <2>2. view[t][p] = [db[p] EXCEPT !.stock = @ - 1]
    BY <1>2, <1>3 DEF WorkOnTables
  <2>3. db[p] \in [stock : Int, price : Nat, active : BOOLEAN]
    BY <1>1, PromisedRows
  <2> QED
    BY <2>1, <2>2, <2>3
<1>5. db[p].active /\ b \notin LockedWallets /\ db[b] >= a
  BY <1>2, <1>3 DEF WorkOnTables
<1>6. [u \in User |-> db'[u]] =
         [[[u \in User |-> db[u]] EXCEPT ![b] = @ - a] EXCEPT ![m] = @ + a]
  <2> DEFINE paid == [[u \in User |-> db[u]] EXCEPT ![b] = @ - a]
             new == [paid EXCEPT ![m] = @ + a]
  <2>1. ASSUME NEW u \in User PROVE paid[u] = IF u = b THEN db[u] - a ELSE db[u]
    BY <1>2
  <2>2. DOMAIN paid = User /\ paid = [u \in User |-> paid[u]]
    OBVIOUS
  <2>3. DOMAIN new = User /\ new = [u \in User |-> new[u]]
    OBVIOUS
  <2> HIDE DEF paid
  <2>4. ASSUME NEW u \in User PROVE new[u] = IF u = m THEN paid[u] + a ELSE paid[u]
    BY <2>2
  <2> HIDE DEF new
  <2>5. ASSUME NEW u \in User PROVE new[u] = db'[u]
    <3>1. db[u] \in Int
      BY PromisedRows
    <3> QED
      BY <1>1, <2>1, <2>4, <3>1
  <2>6. [u \in User |-> db'[u]] = new
    BY <2>3, <2>5
  <2> QED
    BY <2>6 DEF new, paid
<1>9. [x \in Product |-> db'[x]] =
         [[x \in Product |-> db[x]] EXCEPT ![p].stock = @ - 1]
  BY <1>1
<1>10. [x \in Tx |-> db'[x]] =
          [[x \in Tx |-> db[x]] EXCEPT ![o] = Order("COMPLETED", b, p, a)]
  BY <1>1
<1>7. Promise!Purchase(o, b, p)
  <2>1. [x \in Tx |-> db[x]][o] = NoOrder
    BY <1>1, <1>3
  <2>2. Promise!OnSale(p)
    BY <1>1, <1>5 DEF Promise!OnSale
  <2>3. [u \in User |-> db[u]][b] >= [x \in Product |-> db[x]][p].price
    BY <1>1, <1>2, <1>4, <1>5
  <2>4. [x \in Product |-> db[x]][p].price = a
    BY <1>1, <1>4
  <2>6. m = Owner[p]
    BY <1>1
  <2>5. Promise!TakeUnit(p)
    BY <1>9 DEF Promise!TakeUnit
  <2> QED
    BY <1>5, <1>6, <1>10, <2>1, <2>2, <2>3, <2>4, <2>5, <2>6 DEF Promise!Purchase, Order
<1>8. o \in Tx /\ b \in User /\ p \in Product
  BY <1>1, <1>2
<1> QED
  BY <1>7, <1>8 DEF Promise!SalesNext

LEMMA CompletionAsPromised ==
    ASSUME TypeInv, EngineInv, PaidInv, SaleInv, CreditInv, [Next]_vars,
           NEW t \in Tx, pc[t] = "commit", Commit(t), t \in serial, ~Buys(t),
           NEW o, o = OrderOf(t), NEW p, p = ProductOf(t), NEW m, m = MerchantOf(t),
           NEW a, a = AmountOf(t), NEW b, b = req[t].user,
           [o1 \in Tx |-> QuoteOf(o1)]' = [o1 \in Tx |-> QuoteOf(o1)]
    PROVE  Promise!SalesNext
<1>1. /\ o \in Tx /\ p \in Product /\ m = Owner[p] /\ m \in User /\ a \in Nat
      /\ db[p].stock > 0
      /\ \A x \in Product :
            db'[x] = IF x = p THEN [db[p] EXCEPT !.stock = @ - 1] ELSE db[x]
      /\ \A x \in Tx \ {o} : db'[x] = db[x]
      /\ db'[o] = [db[o] EXCEPT !.status = "COMPLETED"]
      /\ \A u \in User : db'[u] = db[u] + (IF u = m THEN a ELSE 0)
  <2>1. SaleDone(Buys(t), o, p, m, a, b)
    BY SaleCommitted
  <2> QED
    BY <2>1 DEF SaleDone
<1>2. req[t].op = "webhook" /\ o = req[t].order /\ FoundOrder(t)
  BY InSale, PartsOfSales DEF SaleInv
<1>3. db[o].status = "PENDING" /\ db[o] # NoOrder
  BY <1>2, FoundIsPlaced DEF CreditInv, Completes
<1>4. db[o].product = p /\ db[o].amount = a
  <2>1. p = seen[t].product /\ a = seen[t].amount
    BY <1>2 DEF ProductOf, AmountOf
  <2>2. /\ seen[t] \in OrderRow
        /\ db[o] \in {seen[t], [seen[t] EXCEPT !.status = "COMPLETED"]}
    BY <1>2 DEF FoundOrder
  <2> QED
    BY <2>1, <2>2 DEF OrderRow
<1>5. [u \in User |-> db'[u]] = [[u \in User |-> db[u]] EXCEPT ![m] = @ + a]
  <2>1. ASSUME NEW u \in User PROVE db'[u] = IF u = m THEN db[u] + a ELSE db[u]
    <3>1. db[u] \in Int
      BY PromisedRows
    <3> QED
      BY <1>1, <3>1
  <2> QED
    BY <1>1, <2>1
<1>8. [x \in Product |-> db'[x]] =
         [[x \in Product |-> db[x]] EXCEPT ![p].stock = @ - 1]
  BY <1>1
<1>6. Promise!Complete(o)
  <2> DEFINE order == [x \in Tx |-> db[x]]
             shelf == [x \in Product |-> db[x]]
  <2>1. /\ order[o] # NoOrder /\ order[o].status = "PENDING"
        /\ order[o].product = p /\ order[o].amount = a /\ shelf[p].stock > 0
    BY <1>1, <1>3, <1>4
  <2>4. m = Owner[p]
    BY <1>1
  <2>5. [u \in User |-> db'[u]] =
           [[u \in User |-> db[u]] EXCEPT ![Owner[order[o].product]] = @ + order[o].amount]
    BY <1>5, <2>1, <2>4
  <2>2. [x \in Product |-> db'[x]] =
           [[x \in Product |-> db[x]] EXCEPT ![order[o].product].stock = @ - 1]
    BY <1>8, <2>1
  <2>3. [x \in Tx |-> db'[x]] = [[x \in Tx |-> db[x]] EXCEPT ![o].status = "COMPLETED"]
    BY <1>1
  <2> QED
    BY <2>1, <2>2, <2>3, <2>5 DEF Promise!Complete, Promise!TakeUnit
<1>7. o \in Tx
  BY <1>1
<1> QED
  BY <1>6, <1>7 DEF Promise!SalesNext

LEMMA PromiseStep ==
    ASSUME NoCash, TypeInv, EngineInv, PaidInv, SaleInv, CreditInv, StockInv, [Next]_vars
    PROVE  [Promise!SalesNext]_(Promise!salesVars)
<1>1. CASE UNCHANGED <<db, ledger>>
  BY <1>1, QuietAsPromised
<1>2. ASSUME NEW t \in Tx, pc[t] = "commit", Commit(t), pc'[t] \in Answers, Others(t)
      PROVE  Promise!SalesNext
  <2>1. SaleOf(t)
    BY PartsOfSales DEF SaleInv
  <2>2. req[t] = NoRequest \/ req[t] \in Arrivals[t]
    BY DEF TypeInv, TypeOK, RequestsOK
  <2>3. t \in serial
    BY <1>2, <2>1, <2>2 DEF SaleOf, NoCash, NoRequest
  <2>4. [o \in Tx |-> QuoteOf(o)]' = [o \in Tx |-> QuoteOf(o)]
    BY <1>2, QuotesStay DEF HoldsQuote, Answers
  <2>5. CASE Buys(t)
    BY <1>2, <2>3, <2>5, <2>4, PurchaseAsPromised
  <2>6. CASE ~Buys(t)
    BY <1>2, <2>3, <2>6, <2>4, CompletionAsPromised
  <2> QED
    BY <2>5, <2>6
<1> QED
  BY <1>1, <1>2, TableChanges, PublishesAsPromised

LEMMA PromiseInit == Init => Promise!SalesInit
<1> SUFFICES ASSUME Init PROVE Promise!SalesInit
  OBVIOUS
<1>1. db = InitialDb
  BY DEF Init, DbInit
<1>2. [o \in Tx |-> db[o]] = [o \in Tx |-> NoOrder]
  BY <1>1, NoOrderAtFirst
<1>3. [o \in Tx |-> QuoteOf(o)] = [o \in Tx |-> NoOrder]
  BY DEF Init, RequestInit, QuoteOf, HoldsQuote
<1> QED
  BY <1>1, <1>2, <1>3 DEF Promise!SalesInit

\* Without deposits and withdrawals, and with one event for each payment, the
\* backend implements Sales: each transaction of the orders service takes
\* effect at its commit as one indivisible sale, or not at all.
THEOREM SalesTakeEffectAtOnce ==
    ASSUME OneDelivery, NoCash
    PROVE  Spec => SalesAreAtomic
<1> DEFINE Inv == TypeInv /\ EngineInv /\ PaidInv /\ SaleInv /\ CreditInv
           Step1 == [Promise!SalesNext]_(Promise!salesVars)
<1>1. Inv /\ StockInv /\ [Next]_vars => Step1
  BY PromiseStep
<1>2. Spec => []Inv
  BY CreditHolds
<1>3. Inv /\ StockInv /\ [Next]_vars => StockInv'
  BY StockStep
<1>4. Init => Promise!SalesInit /\ StockInv
  BY PromiseInit, StockInit
<1> HIDE DEF Inv
<1> QED
  BY <1>1, <1>2, <1>3, <1>4, PTL DEF Spec, SalesAreAtomic, Promise!SalesSpec

-----------------------------------------------------------------------------
(* Orders that are repeated.                                               *)

\* A step of a client who repeats is a step of the backend.
LEMMA RetriesAreCalls == [RetryNext]_retryVars => [Next]_vars
<1> SUFFICES ASSUME [RetryNext]_retryVars PROVE [Next]_vars
  OBVIOUS
<1>1. ASSUME NEW t \in Repeats, Repeat(t) PROVE t \in Tx /\ Call(t)
  BY <1>1, RetryAssumption DEF Repeat, Call
<1>2. ASSUME NEW t \in Tx, LoseEffect(t) \/ LoseRequest(t) PROVE Loss(t)
  BY <1>2 DEF LoseEffect, LoseRequest, Loss
<1> QED
  BY <1>1, <1>2 DEF RetryNext, Next, retryVars

\* A request that ends where its order is written is told so, unless it is lost.
LEMMA FailsByLoss ==
    ASSUME TypeInv, [RetryNext]_retryVars, NEW o \in Tx,
           pc[o] \in {"commit", "insertOrder"}, pc'[o] = "failed"
    PROVE  LoseEffect(o) \/ LoseRequest(o)
<1>1. DOMAIN pc = Tx
  BY DEF TypeInv, TypeOK, RequestsOK
<1>2. ASSUME NEW t \in Tx, pc'[o] # pc[o], Call(t) \/ Customer(t) PROVE FALSE
  BY <1>1, <1>2 DEF Call, Customer, Deposit, Withdraw, UpdateProduct,
     CreateWalletOrder, CreateGatewayOrder, Arrive, Pay, Expire, requestVars
<1>3. ASSUME NEW t \in Tx, WalletStep(t) \/ SaveProduct(t) PROVE FALSE
  BY <1>1, <1>3 DEF WalletStep, ReadWallet, WriteWallet, DepositOverflow, CommitRequest,
     SaveProduct, Reject, Fail, Answer, Remember, Goto
<1>4. ASSUME NEW t \in Tx, SerializationFailure(t) \/ DeadlockVictim(t) PROVE FALSE
  <2>1. Wanted(t) # {}
    BY <1>4 DEF SerializationFailure, DeadlockVictim, WaitsFor
  <2>2. pc[t] \notin {"commit", "insertOrder"}
    BY <2>1, WantedBy DEF TxSteps
  <2> QED
    BY <1>1, <1>4, <2>2 DEF SerializationFailure, DeadlockVictim, Fail, Answer
<1>5. ASSUME NEW t \in Tx, OrderStep(t) PROVE FALSE
  BY <1>1, <1>4, <1>5 DEF OrderStep, LockProduct, Debit, Credit, CreditOverflow,
     DecrementStock, SaveOrder, CreateCheckoutSession, InsertOrder, FindOrder,
     BeginCompletion, Reject, Fail, Answer,
     Remember, Goto
<1>6. ASSUME NEW t \in Tx, LoseEffect(t) \/ LoseRequest(t) PROVE t = o
  <2>1. pc' = [pc EXCEPT ![t] = "failed"]
    BY <1>6 DEF LoseEffect, LoseRequest, Abort, LoseAnswer, LoseUrl
  <2> QED
    BY <1>1, <2>1
<1>7. pc' # pc
  OBVIOUS
<1>8. ASSUME NEW t \in Repeats, Repeat(t) PROVE t \in Tx /\ Call(t)
  BY <1>8, RetryAssumption DEF Repeat, Call
<1> QED
  BY <1>2, <1>3, <1>5, <1>6, <1>7, <1>8
     DEF RetryNext, Handle, Idle, retryVars, vars, requestVars

\* An order comes into the database with the answer of the request it is of.
LEMMA OrderAppears ==
    ASSUME TypeInv, EngineInv, PaidInv, SaleInv, [Next]_vars,
           NEW o \in Tx, db[o] = NoOrder, db'[o] # NoOrder
    PROVE  pc[o] \in {"commit", "insertOrder"}
<1>1. o \in Row /\ DOMAIN db = Row /\ o \notin Product
  BY OrderAssumption DEF TypeInv, TypeOK, TablesOK, EngineTypeOK
<1>2. CASE \E t \in Tx : Publishes(t)
  BY <1>1, <1>2 DEF Publishes, AutoCommit
<1>3. ASSUME NEW t \in Tx, pc[t] = "commit", Commit(t) PROVE pc[o] = "commit"
  <2>1. o \in wrote[t]
    BY <1>1, <1>3 DEF Commit
  <2>2. SaleOf(t)
    BY PartsOfSales DEF SaleInv
  <2>3. t \in serial /\ o = OrderOf(t)
    BY <2>1, <2>2, OwnOrder
  <2> QED
    BY <1>3, <2>3, OrderAtCommit
<1> QED
  BY <1>2, <1>3, TableChanges

\* An order that appears while its client is told of a failure is noted.
LEMMA LossesStep ==
    ASSUME TypeInv, EngineInv, PaidInv, SaleInv, LossesKnown, [RetryNext]_retryVars
    PROVE  LossesKnown'
<1>1. [Next]_vars
  BY RetriesAreCalls
<1>2. unanswered \subseteq unanswered'
  BY DEF RetryNext, LoseEffect, LoseRequest, retryVars
<1>3. ASSUME NEW o \in LostOrders', o \notin LostOrders PROVE o \in unanswered'
  <2>1. o \in Tx /\ pc'[o] = "failed" /\ db'[o] # NoOrder
    BY <1>3 DEF LostOrders
  <2>2. db[o] = NoOrder
    BY <1>1, <1>3, <2>1, PlacedStays DEF LostOrders, SaleInv
  <2>3. pc[o] \in {"commit", "insertOrder"}
    BY <1>1, <2>1, <2>2, OrderAppears
  <2>4. ~LoseRequest(o)
    BY <2>1, <2>2 DEF LoseRequest, Abort, Rollback
  <2>5. LoseEffect(o)
    BY <2>1, <2>3, <2>4, FailsByLoss
  <2> QED
    BY <2>5 DEF LoseEffect
<1> QED
  BY <1>2, <1>3 DEF LossesKnown

LEMMA RepeatsStep ==
    ASSUME TypeInv, RepeatsFollowFailures, [RetryNext]_retryVars
    PROVE  RepeatsFollowFailures'
<1> USE DEF RepeatsFollowFailures
<1>1. \A t \in Repeats : t \in Tx /\ FirstTry[t] \in Tx /\ FirstTry[t] \notin Repeats
  BY RetryAssumption
<1>2. ASSUME NEW t \in Tx, Call(t) PROVE req'[t].op # "webhook"
  <2>1. t \in DOMAIN req
    BY DEF TypeInv, TypeOK, RequestsOK
  <2> QED
    BY <1>2, <2>1 DEF Call, Deposit, Withdraw, UpdateProduct, CreateWalletOrder,
       CreateGatewayOrder, Arrive
<1>3. CASE UNCHANGED vars
  BY <1>3 DEF vars, requestVars
<1>4. ASSUME NEW t \in Tx \ Repeats, Call(t) PROVE RepeatsFollowFailures'
  BY <1>1, <1>2, <1>4, CallMoves DEF Enters, Same
<1>5. ASSUME NEW t \in Repeats, Repeat(t) PROVE RepeatsFollowFailures'
  <2>1. t \in Tx /\ Call(t) /\ pc[FirstTry[t]] = "failed"
    BY <1>1, <1>5 DEF Repeat, Call
  <2> QED
    BY <1>1, <1>2, <2>1, CallMoves DEF Enters, Same
<1>6. ASSUME NEW t \in Tx,
             Handle(t) \/ Customer(t) \/ LoseEffect(t) \/ LoseRequest(t)
      PROVE  RepeatsFollowFailures'
  <2>1. GoesOn(t) \/ Opens(t) \/ UNCHANGED <<pc, req>>
    BY <1>6, HandleMoves, LossMoves
       DEF Customer, Pay, Expire, requestVars, LoseEffect, LoseRequest, Loss
  <2>2. /\ \A u \in Tx : req'[u] = req[u]
        /\ \A u \in Tx : pc[u] = "idle" => pc'[u] = "idle"
        /\ \A u \in Tx : pc[u] = "failed" => pc'[u] = "failed"
    BY <2>1 DEF GoesOn, Opens, Same, Answers
  <2> QED
    BY <1>1, <2>2
<1> QED
  BY <1>3, <1>4, <1>5, <1>6 DEF RetryNext, Idle, retryVars

LEMMA RetryStart == RetryInit => RetryInv
<1> SUFFICES ASSUME RetryInit PROVE RetryInv
  OBVIOUS
<1>1. \A t \in Tx : pc[t] = "idle" /\ req[t].op # "webhook"
  BY DEF RetryInit, Init, RequestInit, NoRequest
<1>2. LossesKnown
  BY <1>1 DEF LossesKnown, LostOrders
<1> QED
  BY <1>1, <1>2, RetryAssumption DEF RetryInv, RepeatsFollowFailures

\* Who repeats an order that failed has it twice only where the answer of the
\* first try was lost after its COMMIT: a conflict, a deadlock, a timeout or a
\* crash before it left nothing behind.
THEOREM RepeatsAreSafe == RetrySpec => []TwiceOnlyIfLost
<1> DEFINE Inv == TypeInv /\ EngineInv /\ PaidInv /\ SaleInv /\ RetryInv
<1>1. RetryInit => Inv
  BY TypeInit, EngineInit, PaidInit, SaleInit, RetryStart DEF RetryInit, Init, EngineOK
<1>2. Inv /\ [RetryNext]_retryVars => Inv'
  <2> SUFFICES ASSUME Inv, [RetryNext]_retryVars PROVE Inv'
    OBVIOUS
  <2>1. [Next]_vars
    BY RetriesAreCalls
  <2>2. (TypeInv /\ EngineInv /\ PaidInv /\ SaleInv)'
    BY <2>1, TypeStep, EngineStep, PaidStep, SaleStep
  <2>3. RetryInv'
    BY LossesStep, RepeatsStep DEF RetryInv
  <2> QED
    BY <2>2, <2>3
<1>3. Inv => TwiceOnlyIfLost
  <2> SUFFICES ASSUME Inv PROVE TwiceOnlyIfLost
    OBVIOUS
  <2>1. ASSUME NEW o \in Tx, LeftSomething(o) PROVE db[o] # NoOrder
    BY <2>1 DEF LeftSomething, SaleInv, OrdersSettled, Untouched, Never, Entries
  <2>2. ASSUME NEW t \in Repeats, LeftSomething(FirstTry[t]), LeftSomething(t)
        PROVE  FirstTry[t] \in LostOrders
    <3>1. t \in Tx /\ FirstTry[t] \in Tx
      BY RetryAssumption
    <3>2. db[t] # NoOrder /\ db[FirstTry[t]] # NoOrder
      BY <2>1, <2>2, <3>1
    <3>3. pc[t] \in Answers
      BY <3>1, <3>2 DEF SaleInv, OrdersSettled
    <3>4. pc[FirstTry[t]] = "failed"
      BY <3>3 DEF RetryInv, RepeatsFollowFailures, Answers
    <3> QED
      BY <3>1, <3>2, <3>4 DEF LostOrders
  <2>3. BoughtTwice \subseteq LostOrders
    BY <2>2 DEF BoughtTwice
  <2> QED
    BY <2>3 DEF TwiceOnlyIfLost, RetryInv, LossesKnown
<1> HIDE DEF Inv
<1> QED
  BY <1>1, <1>2, <1>3, PTL DEF RetrySpec
=============================================================================
