------------------------- MODULE PaymentFlowProofs --------------------------
(***************************************************************************)
(* The backend, for any users, products, requests and opening balances.    *)
(* First its types: they are inductive only together with what a step says *)
(* of the request it serves and with the existence of the order that a     *)
(* webhook completes.  Then its steps, sorted by what they do to the tables*)
(* into eight effects, through which all later proofs go, and its engine.  *)
(* Last what the orders keep on the way.  No oversell: a transaction takes *)
(* a unit of a row it has locked; the unit was there in its snapshot, and  *)
(* first updater wins keeps the snapshot the committed row until it ends.  *)
(* And nothing for nothing: an order is completed, and its merchant        *)
(* credited, only if Stripe took the money or a wallet order debits it,    *)
(* and who has paid finds the order in the database.                       *)
(***************************************************************************)
EXTENDS PaymentFlow, PostgresProofs

TypeInv == TypeOK /\ StepsMatchRequests /\ CompletionsHaveOrders

-----------------------------------------------------------------------------
(* The tables keep their types if what is written has the type of its row. *)

LEMMA OpeningRowsTyped == \A r \in Row : InitialDb[r] \in Contents(r)
<1>1. \A u \in User : InitialDb[u] \in Nat
  BY WalletAssumption
<1>2. \A p \in Product : InitialDb[p] \in ProductRow
  BY ProductAssumption
<1>3. \A p \in Product : InitialDb[p] \in
        [stock : Int, price : Nat, active : BOOLEAN]
  BY <1>2 DEF ProductRow
<1>4. /\ Row = User \cup Product \cup Tx
      /\ User \cap Product = {} /\ User \cap Tx = {} /\ Product \cap Tx = {}
  BY OrderAssumption
<1>5. \A r \in User : Contents(r) = Int
  BY DEF Contents
<1>6. \A r \in Product :
        Contents(r) = [stock : Int, price : Nat, active : BOOLEAN]
  BY <1>4 DEF Contents
<1>7. \A r \in Tx : Contents(r) = OrderRow \cup {NoOrder}
  BY <1>4 DEF Contents
<1>8. \A u \in User : InitialDb[u] \in Contents(u)
  BY <1>1, <1>5
<1>9. \A p \in Product : InitialDb[p] \in Contents(p)
  BY <1>3, <1>6
<1>10. \A o \in Tx : InitialDb[o] \in Contents(o)
  BY <1>7, NoOrderAtFirst
<1> QED
  BY <1>4, <1>8, <1>9, <1>10

LEMMA TablesInit == DbInit => TablesOK
<1>1. ASSUME DbInit PROVE \A r \in Row : <<>> \in Seq(LedgerRow)
  OBVIOUS
<1> QED
  BY <1>1, OpeningRowsTyped, DbAssumption DEF DbInit, TablesOK, EngineTypeOK, Nothing

LEMMA TablesSnapshot ==
    ASSUME TablesOK, NEW t \in Tx, TakeSnapshot(t) PROVE TablesOK'
BY DEF TablesOK, EngineTypeOK, TakeSnapshot, Contents

LEMMA TablesSelect ==
    ASSUME TablesOK, NEW t \in Tx, NEW r \in Row, SelectForUpdate(t, r)
    PROVE  TablesOK'
BY DEF TablesOK, EngineTypeOK, SelectForUpdate, Contents

LEMMA TablesWrite ==
    ASSUME TablesOK, NEW t \in Tx, NEW r \in Row, NEW c \in Contents(r),
           Write(t, r, c)
    PROVE  TablesOK'
BY DEF TablesOK, EngineTypeOK, Write, Put, Contents

LEMMA TablesWriteAndLog ==
    ASSUME TablesOK, NEW t \in Tx, NEW r \in Row, NEW c \in Contents(r),
           NEW e \in LedgerRow, WriteAndLog(t, r, c, e)
    PROVE  TablesOK'
<1>1. inserted' \in [Tx -> [Row -> Seq(LedgerRow)]]
  <2>1. Append(inserted[t][r], e) \in Seq(LedgerRow)
    BY DEF TablesOK
  <2>2. inserted \in [Tx -> [Row -> Seq(LedgerRow)]]
    BY DEF TablesOK
  <2> QED
    BY <2>1, <2>2 DEF WriteAndLog
<1> QED
  BY <1>1 DEF TablesOK, EngineTypeOK, WriteAndLog, Put, Contents

LEMMA TablesAutoCommit ==
    ASSUME TablesOK, NEW r \in Row, NEW c \in Contents(r), AutoCommit(r, c)
    PROVE  TablesOK'
BY DEF TablesOK, EngineTypeOK, AutoCommit, Contents

LEMMA TablesCommit ==
    ASSUME TablesOK, NEW t \in Tx, Commit(t) PROVE TablesOK'
BY OpeningRowsTyped, DbAssumption
   DEF TablesOK, EngineTypeOK, Commit, Release, Nothing, Contents

LEMMA TablesRollback ==
    ASSUME TablesOK, NEW t \in Tx, Rollback(t) PROVE TablesOK'
BY OpeningRowsTyped, DbAssumption
   DEF TablesOK, EngineTypeOK, Rollback, Release, Nothing, Contents

LEMMA TablesIdle == TablesOK /\ UNCHANGED dbVars => TablesOK'
BY DEF TablesOK, EngineTypeOK, dbVars, Contents

-----------------------------------------------------------------------------
(* What a request carries.                                                 *)

LEMMA RequestFacts ==
    ASSUME RequestsOK, NEW t \in Tx
    PROVE  /\ req[t].op \in {"deposit", "withdraw"} =>
                 req[t].user \in User /\ req[t].amount \in Nat
           /\ req[t].op \in {"updateProduct", "removeProduct"} =>
                 req[t].product \in Product
           /\ req[t].op \in {"walletOrder", "gatewayOrder"} =>
                 req[t].user \in User /\ req[t].product \in Product
           /\ req[t].op = "webhook" => req[t].order \in Tx
<1>1. CASE req[t] = NoRequest
  BY <1>1 DEF NoRequest
<1>2. CASE req[t] \in Arrivals[t]
  BY <1>2, WalletAssumption, ProductAssumption, OrderAssumption
<1> QED
  BY <1>1, <1>2 DEF RequestsOK

\* The three kinds of rows.
LEMMA RowKinds ==
    /\ Row = User \cup Product \cup Tx
    /\ User \cap Product = {} /\ User \cap Tx = {} /\ Product \cap Tx = {}
    /\ \A p \in Product : Owner[p] \in User
    /\ \A u \in User : Contents(u) = Int
    /\ \A p \in Product :
          Contents(p) = [stock : Int, price : Nat, active : BOOLEAN]
    /\ \A o \in Tx : Contents(o) = OrderRow \cup {NoOrder}
BY OrderAssumption DEF Contents

LEMMA NoOrderIsNone == NoOrder \notin OrderRow
BY DEF NoOrder, OrderRow

\* What a statement reads has the type of the row.
LEMMA ReadTyped ==
    ASSUME TablesOK, NEW t \in Tx, NEW r \in Row
    PROVE  Read(t, r) \in Contents(r)
BY DEF TablesOK, Read

-----------------------------------------------------------------------------
(* Steps that leave the tables alone.                                      *)

LEMMA WalletCallTyped ==
    ASSUME TypeInv, NEW t \in Tx, Deposit(t) \/ Withdraw(t), UNCHANGED session
    PROVE  TypeInv'
<1>1. PICK r \in Arrivals[t] :
        /\ r.op \in {"deposit", "withdraw"}
        /\ \/ Arrive(t, r, "rejected")
           \/ Arrive(t, r, "readWallet")
  BY DEF Deposit, Withdraw
<1>2. TablesOK' /\ UNCHANGED dbVars
  BY TablesIdle DEF Deposit, Withdraw, TypeInv, TypeOK
<1>3. RequestsOK'
  BY <1>1 DEF TypeInv, TypeOK, RequestsOK, Arrive, Step, Answers
<1>4. StepsMatchRequests'
  BY <1>1, <1>2
     DEF TypeInv, TypeOK, RequestsOK, StepsMatchRequests, StepMatches, Arrive,
     TxSteps, dbVars
<1>5. CompletionsHaveOrders'
  BY <1>1, <1>2
     DEF TypeInv, TypeOK, RequestsOK, CompletionsHaveOrders, Arrive, TxSteps,
     dbVars
<1> QED
  BY <1>2, <1>3, <1>4, <1>5 DEF TypeInv, TypeOK
LEMMA UpdateProductTyped ==
    ASSUME TypeInv, NEW t \in Tx, UpdateProduct(t), UNCHANGED session
    PROVE  TypeInv'
<1>1. PICK r \in Arrivals[t] :
        /\ r.op \in {"updateProduct", "removeProduct"}
        /\ Arrive(t, r, "rejected") \/ Arrive(t, r, "saveProduct")
  BY DEF UpdateProduct
<1>2. TablesOK' /\ UNCHANGED dbVars
  BY TablesIdle DEF UpdateProduct, TypeInv, TypeOK
<1>3. RequestsOK'
  BY <1>1, <1>2 DEF TypeInv, TypeOK, RequestsOK, Step, Answers, Arrive
<1>4. StepsMatchRequests'
  BY <1>1, <1>2
     DEF TypeInv, TypeOK, RequestsOK, StepsMatchRequests, StepMatches, TxSteps,
     Answers, dbVars, Arrive
<1>5. CompletionsHaveOrders'
  BY <1>1, <1>2
     DEF TypeInv, TypeOK, RequestsOK, StepsMatchRequests, StepMatches,
     CompletionsHaveOrders, TxSteps, Answers, dbVars, Arrive
<1> QED
  BY <1>2, <1>3, <1>4, <1>5 DEF TypeInv, TypeOK

LEMMA CreateGatewayOrderTyped ==
    ASSUME TypeInv, NEW t \in Tx, CreateGatewayOrder(t)
    PROVE  TypeInv'
<1>1. PICK r \in Arrivals[t] :
        /\ r.op = "gatewayOrder"
        /\ pc[t] = "idle"
        /\ req' = [req EXCEPT ![t] = r]
        /\ \/ /\ pc' = [pc EXCEPT ![t] = "rejected"]
              /\ seen' = [seen EXCEPT ![t] = Blank]
           \/ /\ pc' = [pc EXCEPT ![t] = "createSession"]
              /\ seen' = [seen EXCEPT ![t] = Amount(db[r.product].price)]
              /\ r.product \in Product
        /\ UNCHANGED <<dbVars, failures, session>>
  <2>1. PICK r \in Arrivals[t] :
          /\ r.op = "gatewayOrder"
          /\ req' = [req EXCEPT ![t] = r]
          /\ LET row == db[r.product]
                 ok  == row.active /\ row.stock > 0
             IN  /\ pc' = [pc EXCEPT ![t] = IF ok THEN "createSession" ELSE "rejected"]
                 /\ seen' = [seen EXCEPT ![t] = IF ok THEN Amount(row.price) ELSE Blank]
    BY DEF CreateGatewayOrder
  <2>2. r.product \in Product
    BY <2>1, OrderAssumption
  <2>3. CASE db[r.product].active /\ db[r.product].stock > 0
    BY <2>1, <2>2, <2>3 DEF CreateGatewayOrder
  <2>4. CASE ~(db[r.product].active /\ db[r.product].stock > 0)
    BY <2>1, <2>2, <2>4 DEF CreateGatewayOrder
  <2> QED
    BY <2>3, <2>4
<1>2. TablesOK' /\ UNCHANGED dbVars
  BY TablesIdle DEF CreateGatewayOrder, TypeInv, TypeOK
<1>3. r.product \in Product => db[r.product].price \in Nat
  BY OrderAssumption DEF TypeInv, TypeOK, TablesOK, Contents
<1>4. RequestsOK'
  BY <1>1, <1>2, <1>3
     DEF TypeInv, TypeOK, RequestsOK, Step, Answers, Amount, Blank,
     CreateGatewayOrder
<1>5. StepsMatchRequests'
  BY <1>1, <1>2, <1>3
     DEF TypeInv, TypeOK, RequestsOK, StepsMatchRequests, StepMatches, TxSteps,
     Answers, dbVars, Amount, Blank, CreateGatewayOrder
<1>6. CompletionsHaveOrders'
  BY <1>1, <1>2, <1>3
     DEF TypeInv, TypeOK, RequestsOK, StepsMatchRequests, StepMatches,
     CompletionsHaveOrders, TxSteps, Answers, dbVars, Amount, Blank,
     CreateGatewayOrder
<1> QED
  BY <1>2, <1>4, <1>5, <1>6 DEF TypeInv, TypeOK

LEMMA CreateCheckoutSessionTyped ==
    ASSUME TypeInv, NEW t \in Tx, CreateCheckoutSession(t)
    PROVE  TypeInv'
<1>1. /\ pc[t] = "createSession"
      /\ pc' = [pc EXCEPT ![t] = "insertOrder"]
      /\ UNCHANGED <<req, seen, failures>>
      /\ session' = [session EXCEPT ![t] = "open"]
  BY DEF CreateCheckoutSession, OpenSession, Goto
<1>2. TablesOK' /\ UNCHANGED dbVars
  BY TablesIdle DEF CreateCheckoutSession, TypeInv, TypeOK
<1>3. RequestsOK'
  BY <1>1, <1>2 DEF TypeInv, TypeOK, RequestsOK, Step, Answers, SessionState
<1>4. StepsMatchRequests'
  BY <1>1, <1>2
     DEF TypeInv, TypeOK, RequestsOK, StepsMatchRequests, StepMatches, TxSteps,
     Answers, dbVars, SessionState
<1>5. CompletionsHaveOrders'
  BY <1>1, <1>2
     DEF TypeInv, TypeOK, RequestsOK, StepsMatchRequests, StepMatches,
     CompletionsHaveOrders, TxSteps, Answers, dbVars, SessionState
<1> QED
  BY <1>2, <1>3, <1>4, <1>5 DEF TypeInv, TypeOK

LEMMA FindOrderTyped ==
    ASSUME TypeInv, NEW t \in Tx, FindOrder(t)
    PROVE  TypeInv'
<1>1. /\ pc[t] = "findOrder" /\ req[t].op = "webhook" /\ req[t].order \in Tx
      /\ t \notin serial
      /\ \/ pc' = [pc EXCEPT ![t] = "rejected"] /\ seen' = [seen EXCEPT ![t] = Blank]
         \/ pc' = [pc EXCEPT ![t] = "done"] /\ seen' = [seen EXCEPT ![t] = Blank]
         \/ /\ pc' = [pc EXCEPT ![t] = "beginCompletion"]
            /\ seen' = [seen EXCEPT ![t] = db[req[t].order]]
            /\ db[req[t].order] \in OrderRow
      /\ UNCHANGED <<req, failures, session>>
  <2>1. /\ pc[t] = "findOrder" /\ req[t].op = "webhook" /\ req[t].order \in Tx
        /\ t \notin serial
    BY RequestFacts
       DEF FindOrder, TypeInv, TypeOK, StepsMatchRequests, StepMatches, TxSteps
  <2>2. db[req[t].order] \in OrderRow \cup {NoOrder}
    BY <2>1, RowKinds DEF TypeInv, TypeOK, TablesOK
  <2>3. db[req[t].order].status = "PENDING" => db[req[t].order] \in OrderRow
    BY <2>2 DEF NoOrder
  <2> QED
    BY <2>1, <2>3 DEF FindOrder, Answer, Remember
<1>2. TablesOK' /\ UNCHANGED dbVars
  BY TablesIdle DEF FindOrder, TypeInv, TypeOK
<1>3. RequestsOK'
  BY <1>1, <1>2, NoOrderIsNone
     DEF TypeInv, TypeOK, RequestsOK, Step, Answers, Blank, Amount
<1>4. StepsMatchRequests'
  BY <1>1, <1>2, NoOrderIsNone
     DEF TypeInv, TypeOK, RequestsOK, StepsMatchRequests, StepMatches, TxSteps,
     Answers, dbVars, Blank, Amount
<1>5. CompletionsHaveOrders'
  BY <1>1, <1>2, NoOrderIsNone
     DEF TypeInv, TypeOK, RequestsOK, StepsMatchRequests, StepMatches,
     CompletionsHaveOrders, TxSteps, Answers, dbVars, Blank, Amount
<1> QED
  BY <1>2, <1>3, <1>4, <1>5 DEF TypeInv, TypeOK

LEMMA PayTyped ==
    ASSUME TypeInv, NEW t \in Tx, Pay(t)
    PROVE  TypeInv'
<1>1. session' = [session EXCEPT ![t] = "paid"] /\ UNCHANGED requestVars
  BY DEF Pay
<1>2. TablesOK' /\ UNCHANGED dbVars
  BY TablesIdle DEF Pay, TypeInv, TypeOK
<1>3. RequestsOK'
  BY <1>1, <1>2
     DEF TypeInv, TypeOK, RequestsOK, Step, Answers, SessionState, requestVars
<1>4. StepsMatchRequests'
  BY <1>1, <1>2
     DEF TypeInv, TypeOK, RequestsOK, StepsMatchRequests, StepMatches, TxSteps,
     Answers, dbVars, SessionState, requestVars
<1>5. CompletionsHaveOrders'
  BY <1>1, <1>2
     DEF TypeInv, TypeOK, RequestsOK, StepsMatchRequests, StepMatches,
     CompletionsHaveOrders, TxSteps, Answers, dbVars, SessionState, requestVars
<1> QED
  BY <1>2, <1>3, <1>4, <1>5 DEF TypeInv, TypeOK

LEMMA ExpireTyped ==
    ASSUME TypeInv, NEW t \in Tx, Expire(t)
    PROVE  TypeInv'
<1>1. session' = [session EXCEPT ![t] = "expired"] /\ UNCHANGED requestVars
  BY DEF Expire
<1>2. TablesOK' /\ UNCHANGED dbVars
  BY TablesIdle DEF Expire, TypeInv, TypeOK
<1>3. RequestsOK'
  BY <1>1, <1>2
     DEF TypeInv, TypeOK, RequestsOK, Step, Answers, SessionState, requestVars
<1>4. StepsMatchRequests'
  BY <1>1, <1>2
     DEF TypeInv, TypeOK, RequestsOK, StepsMatchRequests, StepMatches, TxSteps,
     Answers, dbVars, SessionState, requestVars
<1>5. CompletionsHaveOrders'
  BY <1>1, <1>2
     DEF TypeInv, TypeOK, RequestsOK, StepsMatchRequests, StepMatches,
     CompletionsHaveOrders, TxSteps, Answers, dbVars, SessionState, requestVars
<1> QED
  BY <1>2, <1>3, <1>4, <1>5 DEF TypeInv, TypeOK

LEMMA DeliverWebhookTyped ==
    ASSUME TypeInv, NEW t \in Tx, DeliverWebhook(t)
    PROVE  TypeInv'
<1>1. PICK r \in Arrivals[t] :
        /\ r.op = "webhook"
        /\ Arrive(t, r, "findOrder") \/ Arrive(t, r, "done")
        /\ UNCHANGED session
  BY DEF DeliverWebhook
<1>2. TablesOK' /\ UNCHANGED dbVars
  BY TablesIdle DEF DeliverWebhook, TypeInv, TypeOK
<1>3. RequestsOK'
  BY <1>1, <1>2 DEF TypeInv, TypeOK, RequestsOK, Step, Answers, Arrive
<1>4. StepsMatchRequests'
  BY <1>1, <1>2
     DEF TypeInv, TypeOK, RequestsOK, StepsMatchRequests, StepMatches, TxSteps,
     Answers, dbVars, Arrive
<1>5. CompletionsHaveOrders'
  BY <1>1, <1>2
     DEF TypeInv, TypeOK, RequestsOK, StepsMatchRequests, StepMatches,
     CompletionsHaveOrders, TxSteps, Answers, dbVars, Arrive
<1> QED
  BY <1>2, <1>3, <1>4, <1>5 DEF TypeInv, TypeOK

LEMMA RedeliverTyped ==
    ASSUME TypeInv, NEW t \in Tx, Redeliver(t)
    PROVE  TypeInv'
<1>1. /\ req[t].op = "webhook" /\ pc[t] \in {"rejected", "failed"}
      /\ pc' = [pc EXCEPT ![t] = "findOrder"]
      /\ UNCHANGED <<req, seen, failures, session>>
  BY DEF Redeliver, Goto
<1>2. TablesOK' /\ UNCHANGED dbVars
  BY TablesIdle DEF Redeliver, TypeInv, TypeOK
<1>3. RequestsOK'
  BY <1>1, <1>2 DEF TypeInv, TypeOK, RequestsOK, Step, Answers, Redeliver
<1>4. StepsMatchRequests'
  BY <1>1, <1>2
     DEF TypeInv, TypeOK, RequestsOK, StepsMatchRequests, StepMatches, TxSteps,
     Answers, dbVars, Redeliver
<1>5. CompletionsHaveOrders'
  BY <1>1, <1>2
     DEF TypeInv, TypeOK, RequestsOK, StepsMatchRequests, StepMatches,
     CompletionsHaveOrders, TxSteps, Answers, dbVars, Redeliver
<1> QED
  BY <1>2, <1>3, <1>4, <1>5 DEF TypeInv, TypeOK

LEMMA StutterTyped == TypeInv /\ UNCHANGED vars => TypeInv'
<1> SUFFICES ASSUME TypeInv, UNCHANGED vars PROVE TypeInv'
  OBVIOUS
<1>1. UNCHANGED <<dbVars, pc, req, seen, failures, session>>
  BY DEF vars, requestVars
<1>2. TablesOK'
  BY <1>1, TablesIdle DEF TypeInv, TypeOK
<1>3. RequestsOK'
  BY <1>1, <1>2 DEF TypeInv, TypeOK, RequestsOK, Step, Answers, vars
<1>4. StepsMatchRequests'
  BY <1>1, <1>2
     DEF TypeInv, TypeOK, RequestsOK, StepsMatchRequests, StepMatches, TxSteps,
     Answers, dbVars, vars
<1>5. CompletionsHaveOrders'
  BY <1>1, <1>2
     DEF TypeInv, TypeOK, RequestsOK, StepsMatchRequests, StepMatches,
     CompletionsHaveOrders, TxSteps, Answers, dbVars, vars
<1> QED
  BY <1>2, <1>3, <1>4, <1>5 DEF TypeInv, TypeOK

-----------------------------------------------------------------------------
(* The two ends of a transaction.                                          *)

LEMMA EndTyped ==
    ASSUME TypeInv, NEW t \in Tx, NEW a \in Answers,
           Rollback(t) \/ Commit(t),
           pc' = [pc EXCEPT ![t] = a], seen' = [seen EXCEPT ![t] = Blank],
           failures' \in 0 .. MaxFailures, UNCHANGED <<req, session>>
    PROVE  TypeInv'
<1>1. TablesOK'
  BY TablesRollback, TablesCommit DEF TypeInv, TypeOK
<1>2. RequestsOK'
  BY DEF TypeInv, TypeOK, RequestsOK, Answers, Blank, Amount
<1>3. serial' = serial \ {t}
  BY DEF Rollback, Commit, Release
<1>4. \A u \in Tx : IF u = t THEN wrote'[u] = {} /\ locks'[u] = {}
                             ELSE UNCHANGED <<wrote[u], locks[u]>>
  BY DEF Rollback, Commit, Release, TypeInv, TypeOK, TablesOK, EngineTypeOK
<1>5. StepsMatchRequests'
  BY <1>3, <1>4
     DEF TypeInv, TypeOK, RequestsOK, StepsMatchRequests, StepMatches, TxSteps,
     Answers
<1>6. \A u \in Tx \ {t} : view'[u] = view[u] /\ wrote'[u] = wrote[u]
  BY DEF Rollback, Commit, Release, TypeInv, TypeOK, TablesOK, EngineTypeOK
<1>7. wrote'[t] = {}
  BY DEF Rollback, Commit, Release, TypeInv, TypeOK, TablesOK, EngineTypeOK
<1>8. \A o \in Tx : db[o] # NoOrder => db'[o] # NoOrder
  <2>1. CASE Rollback(t)
    BY <2>1 DEF Rollback
  <2>2. CASE Commit(t)
    <3>1. \A o \in Tx : o \in Row /\ (o \in wrote[t] => view[t][o] # NoOrder)
      BY OrderAssumption DEF TypeInv, CompletionsHaveOrders
    <3>2. db' = [r \in Row |-> IF r \in wrote[t] THEN view[t][r] ELSE db[r]]
      BY <2>2 DEF Commit
    <3> QED
      BY <3>1, <3>2
  <2> QED
    BY <2>1, <2>2
<1>9. CompletionsHaveOrders'
  <2>1. ASSUME NEW u \in Tx, req'[u].op = "webhook",
               pc'[u] \in TxSteps \cup {"beginCompletion"}
        PROVE  /\ seen'[u] \in OrderRow
               /\ db'[req'[u].order] # NoOrder
               /\ u \in serial' => view'[u][req'[u].order] # NoOrder
    <3>1. u # t
      BY <2>1 DEF TypeInv, TypeOK, RequestsOK, Answers, TxSteps
    <3>2. req[u].order \in Tx
      BY <2>1, RequestFacts DEF TypeInv, TypeOK
    <3> QED
      BY <2>1, <3>1, <3>2, <1>3, <1>6, <1>8
         DEF TypeInv, TypeOK, RequestsOK, CompletionsHaveOrders
  <2>2. ASSUME NEW u \in Tx, NEW o \in Tx, o \in wrote'[u]
        PROVE  view'[u][o] # NoOrder
    BY <2>2, <1>6, <1>7 DEF TypeInv, CompletionsHaveOrders
  <2> QED
    BY <2>1, <2>2 DEF CompletionsHaveOrders
<1> QED
  BY <1>1, <1>2, <1>9, <1>5 DEF TypeInv, TypeOK

LEMMA FailureBound == TypeInv => failures \in 0 .. MaxFailures
BY DEF TypeInv, TypeOK, RequestsOK

LEMMA RejectTyped ==
    ASSUME TypeInv, NEW t \in Tx, Reject(t) \/ Fail(t), UNCHANGED session
    PROVE  TypeInv'
BY EndTyped, FailureBound DEF Reject, Fail, Answer, Answers

LEMMA CommitRequestTyped ==
    ASSUME TypeInv, NEW t \in Tx, CommitRequest(t), UNCHANGED session
    PROVE  TypeInv'
BY EndTyped, FailureBound DEF CommitRequest, Answer, Answers

LEMMA LossTyped ==
    ASSUME TypeInv, NEW t \in Tx, Abort(t) \/ LoseAnswer(t), UNCHANGED session
    PROVE  TypeInv'
<1>1. failures' \in 0 .. MaxFailures
  BY FailureBound, RequestAssumption DEF Abort, LoseAnswer
<1> QED
  BY <1>1, EndTyped DEF Abort, LoseAnswer, Answers

-----------------------------------------------------------------------------
(* Steps inside a transaction.  What such a step does to the tables is a   *)
(* lemma above; what is left is the same for all of them.                  *)

LEMMA InsideTyped ==
    ASSUME TypeInv, NEW t \in Tx, NEW step \in Step,
           TablesOK',
           UNCHANGED <<db, serial, req, failures, session>>,
           pc' = [pc EXCEPT ![t] = step],
           \/ seen' = seen
           \/ step = "writeWallet" /\ \E n \in Int : seen' = [seen EXCEPT ![t] = Amount(n)],
           step = "writeWallet" => pc[t] = "readWallet",
           step \in TxSteps \cup {"commit"} \/ t \notin serial,
           step \in TxSteps => pc[t] \in TxSteps,
           step = "debit" => req[t].op = "walletOrder",
           step \notin {"readWallet", "saveProduct", "createSession", "insertOrder",
                        "findOrder", "beginCompletion"},
           \A u \in Tx \ {t} : wrote'[u] = wrote[u] /\ locks'[u] = locks[u],
           step \in TxSteps \cup {"commit"} \/ UNCHANGED <<wrote, locks>>,
           \A u \in Tx : \A o \in Tx :
              \/ view'[u][o] = view[u][o]
                 /\ (o \in wrote'[u] => o \in wrote[u])
              \/ view'[u][o] # NoOrder
    PROVE  TypeInv'
<1>1. RequestsOK'
  BY DEF TypeInv, TypeOK, RequestsOK, Step, Amount
<1>2. StepsMatchRequests'
  <2>1. ASSUME NEW u \in Tx \ {t} PROVE StepMatches(u)'
    <3>1. pc'[u] = pc[u] /\ seen'[u] = seen[u]
      BY DEF TypeInv, TypeOK, RequestsOK
    <3> QED
      BY <3>1 DEF TypeInv, StepsMatchRequests, StepMatches
  <2>2. StepMatches(t)'
    <3>1. pc'[t] = step /\ StepMatches(t)
      BY DEF TypeInv, TypeOK, RequestsOK, StepsMatchRequests
    <3> QED
      BY <3>1 DEF StepMatches, TxSteps, Step
  <2> QED
    BY <2>1, <2>2 DEF StepsMatchRequests
<1>3. CompletionsHaveOrders'
  <2>1. ASSUME NEW u \in Tx, req'[u].op = "webhook",
               pc'[u] \in TxSteps \cup {"beginCompletion"}
        PROVE  /\ seen'[u] \in OrderRow
               /\ db'[req'[u].order] # NoOrder
               /\ u \in serial' => view'[u][req'[u].order] # NoOrder
    <3>1. pc[u] \in TxSteps \cup {"beginCompletion"}
      BY <2>1 DEF TypeInv, TypeOK, RequestsOK, Step, TxSteps
    <3>2. seen'[u] = seen[u]
      BY <2>1 DEF TypeInv, TypeOK, RequestsOK, TxSteps
    <3>3. req[u].order \in Tx
      BY <2>1, RequestFacts DEF TypeInv, TypeOK
    <3> QED
      BY <2>1, <3>1, <3>2, <3>3 DEF TypeInv, CompletionsHaveOrders
  <2>2. ASSUME NEW u \in Tx, NEW o \in Tx, o \in wrote'[u]
        PROVE  view'[u][o] # NoOrder
    BY <2>2 DEF TypeInv, CompletionsHaveOrders
  <2> QED
    BY <2>1, <2>2 DEF CompletionsHaveOrders
<1> QED
  BY <1>1, <1>2, <1>3 DEF TypeInv, TypeOK

\* What the transactions of the orders service work on.
LEMMA SaleFacts ==
    ASSUME TypeInv, NEW t \in Tx, pc[t] \in TxSteps
    PROVE  /\ ProductOf(t) \in Product
           /\ MerchantOf(t) \in User
           /\ AmountOf(t) \in Nat
           /\ OrderOf(t) \in Tx
           /\ t \in serial
           /\ req[t].op = "walletOrder" => req[t].user \in User /\ req[t].product \in Product
           /\ req[t].op = "webhook" => Read(t, OrderOf(t)) \in OrderRow
           /\ req[t].op \in {"walletOrder", "webhook"}
<1>1. req[t].op \in {"walletOrder", "webhook"} /\ t \in serial
  BY DEF TypeInv, StepsMatchRequests, StepMatches
<1>2. CASE req[t].op = "walletOrder"
  <2>1. req[t].user \in User /\ req[t].product \in Product
    BY <1>2, RequestFacts DEF TypeInv, TypeOK
  <2>2. Read(t, req[t].product).price \in Nat
    BY <2>1, ReadTyped, OrderAssumption DEF TypeInv, TypeOK, Contents
  <2> QED
    BY <1>1, <1>2, <2>1, <2>2, OrderAssumption
       DEF ProductOf, MerchantOf, AmountOf, OrderOf
<1>3. CASE req[t].op = "webhook"
  <2>1. req[t].order \in Tx
    BY <1>3, RequestFacts DEF TypeInv, TypeOK
  <2>2. seen[t] \in OrderRow /\ view[t][req[t].order] # NoOrder
    BY <1>1, <1>3 DEF TypeInv, CompletionsHaveOrders
  <2>3. view[t][req[t].order] \in OrderRow
    BY <2>1, <2>2, OrderAssumption DEF TypeInv, TypeOK, TablesOK, Contents
  <2>4. seen[t].product \in Product /\ seen[t].amount \in Nat
    BY <2>2 DEF OrderRow
  <2> QED
    BY <1>1, <1>3, <2>1, <2>3, <2>4, OrderAssumption
       DEF ProductOf, MerchantOf, AmountOf, OrderOf, Read
<1> QED
  BY <1>1, <1>2, <1>3

LEMMA ReadWalletTyped ==
    ASSUME TypeInv, NEW t \in Tx, ReadWallet(t), UNCHANGED session
    PROVE  TypeInv'
<1>1. CASE Reject(t)
  BY <1>1, RejectTyped
<1>2. CASE Remember(t, Amount(Read(t, req[t].user)), "writeWallet") /\ UNCHANGED dbVars
  <2>1. pc[t] = "readWallet" /\ req[t].op \in {"deposit", "withdraw"} /\ t \notin serial
    BY DEF ReadWallet, TypeInv, StepsMatchRequests, StepMatches, TxSteps
  <2>2. Read(t, req[t].user) \in Int
    BY <2>1, RequestFacts, ReadTyped, OrderAssumption DEF TypeInv, TypeOK, Contents
  <2>3. TablesOK'
    BY <1>2, TablesIdle DEF TypeInv, TypeOK
  <2> QED
    BY <1>2, <2>1, <2>2, <2>3, InsideTyped DEF Remember, dbVars, Step, TxSteps
<1> QED
  BY <1>1, <1>2 DEF ReadWallet

LEMMA WriteWalletTyped ==
    ASSUME TypeInv, NEW t \in Tx, WriteWallet(t), UNCHANGED session
    PROVE  TypeInv'
<1> DEFINE u == req[t].user
           before == seen[t].amount
           after == BalanceAfter(req[t], before)
           e == Entry(EntryType(req[t]), req[t].amount, before, after, t)
<1>1. /\ pc[t] = "writeWallet" /\ t \notin serial
      /\ req[t].op \in {"deposit", "withdraw"}
      /\ u \in User /\ req[t].amount \in Nat
  BY RequestFacts
     DEF WriteWallet, TypeInv, TypeOK, StepsMatchRequests, StepMatches, TxSteps
<1>2. before \in Int
  BY DEF TypeInv, TypeOK, RequestsOK, OrderRow
<1>3. after \in Int
  BY <1>1, <1>2 DEF BalanceAfter
<1>4. e \in LedgerRow
  BY <1>1, <1>2, <1>3 DEF Entry, EntryType, LedgerRow
<1>5. WriteAndLog(t, u, after, e) /\ Goto(t, "commit")
  BY DEF WriteWallet
<1>6. u \in Row /\ after \in Contents(u) /\ \A o \in Tx : o # u
  BY <1>1, <1>3, OrderAssumption DEF Contents
<1> HIDE DEF u, before, after, e
<1>7. TablesOK'
  BY <1>4, <1>5, <1>6, TablesWriteAndLog DEF TypeInv, TypeOK
<1>8. \A v, o \in Tx : view'[v][o] = view[v][o] /\ (o \in wrote'[v] => o \in wrote[v])
  BY <1>5, <1>6 DEF WriteAndLog, Put, TypeInv, TypeOK, TablesOK, EngineTypeOK
<1>9. \A v \in Tx \ {t} : wrote'[v] = wrote[v] /\ locks'[v] = locks[v]
  BY <1>5 DEF WriteAndLog, Put, TypeInv, TypeOK, TablesOK, EngineTypeOK
<1> QED
  BY <1>1, <1>5, <1>7, <1>8, <1>9, InsideTyped DEF WriteAndLog, Put, Goto, Step, TxSteps

LEMMA LockProductTyped ==
    ASSUME TypeInv, NEW t \in Tx, LockProduct(t)
    PROVE  TypeInv'
<1>1. CASE Reject(t)
  BY <1>1, RejectTyped DEF LockProduct
<1>2. CASE /\ SelectForUpdate(t, ProductOf(t))
           /\ Goto(t, IF req[t].op = "webhook" THEN "credit" ELSE "debit")
  <2>1. pc[t] = "lockProduct" /\ UNCHANGED session
    BY DEF LockProduct
  <2>2. ProductOf(t) \in Product /\ req[t].op \in {"walletOrder", "webhook"}
    BY <2>1, SaleFacts DEF TxSteps
  <2>3. TablesOK'
    BY <1>2, <2>2, TablesSelect, OrderAssumption DEF TypeInv, TypeOK
  <2>4. /\ UNCHANGED <<view, wrote, db, serial>>
        /\ \A v \in Tx \ {t} : locks'[v] = locks[v]
    BY <1>2 DEF SelectForUpdate, TypeInv, TypeOK, TablesOK, EngineTypeOK
  <2>5. PICK step \in {"credit", "debit"} :
          /\ Goto(t, step)
          /\ step = "debit" => req[t].op = "walletOrder"
    BY <1>2, <2>2
  <2> QED
    BY <2>1, <2>3, <2>4, <2>5, InsideTyped DEF Goto, Step, TxSteps
<1> QED
  BY <1>1, <1>2 DEF LockProduct

\* Debit and Credit: a wallet is updated and its entry inserted.
LEMMA WalletEntryTyped ==
    ASSUME TypeInv, NEW t \in Tx, pc[t] \in TxSteps, NEW u \in User,
           NEW step \in {"credit", "decrement"},
           deductFromWallet(t, u, AmountOf(t), OrderOf(t))
              \/ creditToWallet(t, u, AmountOf(t), OrderOf(t)),
           Goto(t, step), UNCHANGED session
    PROVE  TypeInv'
<1>1. AmountOf(t) \in Nat /\ OrderOf(t) \in Tx
  BY SaleFacts
<1>2. u \in Row /\ Contents(u) = Int /\ \A o \in Tx : o # u
  BY OrderAssumption DEF Contents
<1>3. Read(t, u) \in Int
  BY <1>2, ReadTyped DEF TypeInv, TypeOK
<1>4. PICK after \in Int, e \in LedgerRow : WriteAndLog(t, u, after, e)
  BY <1>1, <1>3 DEF deductFromWallet, creditToWallet, Entry, LedgerRow
<1>5. TablesOK'
  BY <1>2, <1>4, TablesWriteAndLog DEF TypeInv, TypeOK
<1>6. \A v, o \in Tx : view'[v][o] = view[v][o] /\ (o \in wrote'[v] => o \in wrote[v])
  BY <1>2, <1>4 DEF WriteAndLog, Put, TypeInv, TypeOK, TablesOK, EngineTypeOK
<1>7. \A v \in Tx \ {t} : wrote'[v] = wrote[v] /\ locks'[v] = locks[v]
  BY <1>4 DEF WriteAndLog, Put, TypeInv, TypeOK, TablesOK, EngineTypeOK
<1> QED
  BY <1>4, <1>5, <1>6, <1>7, InsideTyped DEF WriteAndLog, Put, Goto, Step, TxSteps

LEMMA DebitTyped ==
    ASSUME TypeInv, NEW t \in Tx, Debit(t)
    PROVE  TypeInv'
<1>1. pc[t] = "debit" /\ UNCHANGED session
  BY DEF Debit
<1>2. req[t].user \in User
  BY <1>1, SaleFacts DEF TxSteps, TypeInv, StepsMatchRequests, StepMatches
<1> QED
  BY <1>1, <1>2, RejectTyped, WalletEntryTyped DEF Debit, TxSteps

LEMMA CreditTyped ==
    ASSUME TypeInv, NEW t \in Tx, Credit(t)
    PROVE  TypeInv'
BY SaleFacts, WalletEntryTyped DEF Credit, TxSteps

LEMMA DecrementStockTyped ==
    ASSUME TypeInv, NEW t \in Tx, DecrementStock(t)
    PROVE  TypeInv'
<1> DEFINE p == ProductOf(t)
           row == [Read(t, p) EXCEPT !.stock = @ - 1]
<1>1. pc[t] = "decrement" /\ p \in Product
  BY SaleFacts DEF DecrementStock, TxSteps
<1>2. p \in Row /\ \A o \in Tx : o # p
  BY <1>1, OrderAssumption
<1>3. Read(t, p) \in [stock : Int, price : Nat, active : BOOLEAN]
  BY <1>1, <1>2, ReadTyped, OrderAssumption DEF TypeInv, TypeOK, Contents
<1>4. row \in Contents(p)
  <2>1. row \in [stock : Int, price : Nat, active : BOOLEAN]
    BY <1>3
  <2> QED
    BY <1>1, <2>1, OrderAssumption DEF Contents
<1>5. Write(t, p, row) /\ Goto(t, "saveOrder") /\ UNCHANGED session
  BY DEF DecrementStock
<1> HIDE DEF p, row
<1>6. TablesOK'
  BY <1>2, <1>4, <1>5, TablesWrite DEF TypeInv, TypeOK
<1>7. \A v, o \in Tx : view'[v][o] = view[v][o] /\ (o \in wrote'[v] => o \in wrote[v])
  BY <1>2, <1>5 DEF Write, Put, TypeInv, TypeOK, TablesOK, EngineTypeOK
<1>8. \A v \in Tx \ {t} : wrote'[v] = wrote[v] /\ locks'[v] = locks[v]
  BY <1>5 DEF Write, Put, TypeInv, TypeOK, TablesOK, EngineTypeOK
<1> QED
  BY <1>1, <1>5, <1>6, <1>7, <1>8, InsideTyped DEF Write, Put, Goto, Step, TxSteps

LEMMA SaveOrderTyped ==
    ASSUME TypeInv, NEW t \in Tx, SaveOrder(t)
    PROVE  TypeInv'
<1> DEFINE o == OrderOf(t)
           row == IF req[t].op = "webhook"
                  THEN [Read(t, o) EXCEPT !.status = "COMPLETED"]
                  ELSE Order("COMPLETED", req[t].user, req[t].product, AmountOf(t))
<1>1. /\ pc[t] = "saveOrder" /\ o \in Tx
      /\ req[t].op \in {"walletOrder", "webhook"}
  BY SaleFacts DEF SaveOrder, TxSteps
<1>2. row \in OrderRow
  <2>1. CASE req[t].op = "webhook"
    BY <1>1, <2>1, SaleFacts DEF TxSteps, OrderRow
  <2>2. CASE req[t].op = "walletOrder"
    BY <1>1, <2>2, SaleFacts DEF TxSteps, OrderRow, Order
  <2> QED
    BY <1>1, <2>1, <2>2
<1>3. Write(t, o, row) /\ Goto(t, "commit") /\ UNCHANGED session
  BY DEF SaveOrder
<1> HIDE DEF o, row
<1>4. o \in Row /\ row \in Contents(o) /\ row # NoOrder
  BY <1>1, <1>2, NoOrderIsNone, OrderAssumption DEF Contents
<1>5. TablesOK'
  BY <1>3, <1>4, TablesWrite DEF TypeInv, TypeOK
<1>6. \A v, x \in Tx :
        \/ view'[v][x] = view[v][x] /\ (x \in wrote'[v] => x \in wrote[v])
        \/ view'[v][x] # NoOrder
  BY <1>3, <1>4 DEF Write, Put, TypeInv, TypeOK, TablesOK, EngineTypeOK
<1>7. \A v \in Tx \ {t} : wrote'[v] = wrote[v] /\ locks'[v] = locks[v]
  BY <1>3 DEF Write, Put, TypeInv, TypeOK, TablesOK, EngineTypeOK
<1> QED
  BY <1>1, <1>3, <1>5, <1>6, <1>7, InsideTyped DEF Write, Put, Goto, Step, TxSteps

-----------------------------------------------------------------------------
(* Statements that begin a transaction, and those that are one.            *)

LEMMA CreateWalletOrderTyped ==
    ASSUME TypeInv, NEW t \in Tx, CreateWalletOrder(t)
    PROVE  TypeInv'
<1>1. PICK r \in Arrivals[t] :
        r.op = "walletOrder" /\ Arrive(t, r, "lockProduct") /\ TakeSnapshot(t)
        /\ UNCHANGED session
  BY DEF CreateWalletOrder
<1>2. TablesOK'
  BY <1>1, TablesSnapshot DEF TypeInv, TypeOK
<1>3. RequestsOK'
  BY <1>1 DEF TypeInv, TypeOK, RequestsOK, Step, Answers, Arrive
<1>4. StepsMatchRequests'
  BY <1>1
     DEF TypeInv, TypeOK, RequestsOK, StepsMatchRequests, StepMatches, TxSteps,
     Arrive, TakeSnapshot
<1>5. CompletionsHaveOrders'
  BY <1>1
     DEF TypeInv, TypeOK, TablesOK, EngineTypeOK, RequestsOK, StepsMatchRequests,
     StepMatches,
     CompletionsHaveOrders, TxSteps, Arrive, TakeSnapshot
<1> QED
  BY <1>2, <1>3, <1>4, <1>5 DEF TypeInv, TypeOK

LEMMA BeginCompletionTyped ==
    ASSUME TypeInv, NEW t \in Tx, BeginCompletion(t)
    PROVE  TypeInv'
<1>1. /\ pc[t] = "beginCompletion" /\ req[t].op = "webhook"
      /\ TakeSnapshot(t) /\ Goto(t, "lockProduct") /\ UNCHANGED session
  BY DEF BeginCompletion, TypeInv, StepsMatchRequests, StepMatches
<1>2. TablesOK'
  BY <1>1, TablesSnapshot DEF TypeInv, TypeOK
<1>3. RequestsOK'
  BY <1>1 DEF TypeInv, TypeOK, RequestsOK, Step, Goto
<1>4. StepsMatchRequests'
  BY <1>1
     DEF TypeInv, TypeOK, RequestsOK, StepsMatchRequests, StepMatches, TxSteps,
     Goto, TakeSnapshot
<1>5. CompletionsHaveOrders'
  BY <1>1
     DEF TypeInv, TypeOK, TablesOK, EngineTypeOK, RequestsOK, StepsMatchRequests,
     StepMatches,
     CompletionsHaveOrders, TxSteps, Goto, TakeSnapshot
<1> QED
  BY <1>2, <1>3, <1>4, <1>5 DEF TypeInv, TypeOK

\* The merchant's UPDATE and the INSERT of a pending order.
LEMMA AutoCommitTyped ==
    ASSUME TypeInv, NEW t \in Tx, pc[t] \notin TxSteps \cup {"commit"},
           NEW r \in Row, NEW c \in Contents(r), r \in Tx => c # NoOrder,
           AutoCommit(r, c), UNCHANGED <<req, session>>,
           NEW answer \in Answers, pc' = [pc EXCEPT ![t] = answer],
           seen' = [seen EXCEPT ![t] = Blank], failures' \in 0 .. MaxFailures
    PROVE  TypeInv'
<1>1. TablesOK'
  BY TablesAutoCommit DEF TypeInv, TypeOK
<1>2. RequestsOK'
  BY DEF TypeInv, TypeOK, RequestsOK, Answers, Blank, Amount
<1>3. StepsMatchRequests'
  BY DEF TypeInv, TypeOK, RequestsOK, StepsMatchRequests, StepMatches, TxSteps,
     Answers, AutoCommit
<1>4. \A o \in Tx : db[o] # NoOrder => db'[o] # NoOrder
  BY OrderAssumption DEF AutoCommit, TypeInv, TypeOK, TablesOK, EngineTypeOK
<1>5. \A u \in Tx : req[u].op = "webhook" => req[u].order \in Tx
  BY RequestFacts DEF TypeInv, TypeOK
<1>6. CompletionsHaveOrders'
  BY <1>4, <1>5 DEF TypeInv, TypeOK, RequestsOK, CompletionsHaveOrders, TxSteps, Answers,
     AutoCommit
<1> QED
  BY <1>1, <1>2, <1>3, <1>6 DEF TypeInv, TypeOK

LEMMA SaveProductTyped ==
    ASSUME TypeInv, NEW t \in Tx, SaveProduct(t), UNCHANGED session
    PROVE  TypeInv'
<1> DEFINE p == req[t].product
           row == IF req[t].op = "updateProduct"
                  THEN Edited(db[p], req[t].set)
                  ELSE Removed(db[p])
<1>1. /\ pc[t] = "saveProduct" /\ req[t].op \in {"updateProduct", "removeProduct"}
      /\ p \in Product
  BY RequestFacts
     DEF SaveProduct, SaveRow, TypeInv, TypeOK, StepsMatchRequests, StepMatches
<1>2. db[p] \in [stock : Int, price : Nat, active : BOOLEAN]
  BY <1>1, OrderAssumption DEF TypeInv, TypeOK, TablesOK, Contents
<1>3. req[t].op = "updateProduct" =>
        /\ "stock" \in DOMAIN req[t].set => req[t].set.stock \in Nat
        /\ "price" \in DOMAIN req[t].set => req[t].set.price \in Nat
        /\ "active" \in DOMAIN req[t].set => req[t].set.active \in BOOLEAN
  <2>1. req[t] \in Arrivals[t] \/ req[t] = NoRequest
    BY DEF TypeInv, TypeOK, RequestsOK
  <2> QED
    BY <2>1, ProductAssumption DEF NoRequest
<1>4. row \in [stock : Int, price : Nat, active : BOOLEAN]
  <2>1. CASE req[t].op = "updateProduct"
    BY <1>2, <1>3, <2>1 DEF Edited
  <2>2. CASE req[t].op = "removeProduct"
    BY <1>2, <2>2 DEF Removed
  <2> QED
    BY <1>1, <2>1, <2>2
<1>5. p \in Row /\ p \notin Tx /\ row \in Contents(p)
  BY <1>1, <1>4, OrderAssumption DEF Contents
<1>6. AutoCommit(p, row) /\ Answer(t, "done")
  BY DEF SaveProduct, SaveRow
<1> HIDE DEF p, row
<1>7. /\ pc' = [pc EXCEPT ![t] = "done"] /\ seen' = [seen EXCEPT ![t] = Blank]
      /\ UNCHANGED req /\ failures' \in 0 .. MaxFailures
  BY <1>6 DEF Answer, TypeInv, TypeOK, RequestsOK
<1>8. "done" \in Answers
  BY DEF Answers
<1> QED
  BY <1>1, <1>5, <1>6, <1>7, <1>8, AutoCommitTyped DEF TxSteps

LEMMA InsertOrderTyped ==
    ASSUME TypeInv, NEW t \in Tx, InsertOrder(t) \/ LoseUrl(t)
    PROVE  TypeInv'
<1> DEFINE row == Order("PENDING", req[t].user, req[t].product, seen[t].amount)
<1>1. /\ pc[t] = "insertOrder" /\ req[t].op = "gatewayOrder"
      /\ seen[t].amount \in Nat
  BY DEF InsertOrder, LoseUrl, TypeInv, StepsMatchRequests, StepMatches
<1>2. req[t].user \in User /\ req[t].product \in Product
  BY <1>1, RequestFacts DEF TypeInv, TypeOK
<1>3. row \in OrderRow
  BY <1>1, <1>2 DEF Order, OrderRow
<1>4. t \in Row /\ row \in Contents(t) /\ row # NoOrder
  BY <1>3, NoOrderIsNone, OrderAssumption DEF Contents
<1>5. AutoCommit(t, row) /\ UNCHANGED <<req, session>>
  BY DEF InsertOrder, LoseUrl, Answer
<1>6. /\ seen' = [seen EXCEPT ![t] = Blank]
      /\ \E answer \in Answers : pc' = [pc EXCEPT ![t] = answer]
  BY DEF InsertOrder, LoseUrl, Answer, Answers
<1>7. failures' \in 0 .. MaxFailures
  BY FailureBound, RequestAssumption DEF InsertOrder, LoseUrl, Answer, TypeInv, TypeOK
<1> HIDE DEF row
<1> QED
  BY <1>1, <1>4, <1>5, <1>6, <1>7, AutoCommitTyped DEF TxSteps

-----------------------------------------------------------------------------
(* The types hold.                                                         *)

LEMMA TypeInit == Init => TypeInv
<1> SUFFICES ASSUME Init PROVE TypeInv
  OBVIOUS
<1>1. TablesOK
  BY TablesInit DEF Init
<1>2. RequestsOK
  BY RequestAssumption
     DEF Init, RequestInit, StripeInit, RequestsOK, SessionState, Blank, Amount
<1>3. StepsMatchRequests
  BY DEF Init, RequestInit, DbInit, StepsMatchRequests, StepMatches, TxSteps
<1>4. CompletionsHaveOrders
  BY DEF Init, RequestInit, DbInit, CompletionsHaveOrders, TxSteps, NoRequest
<1> QED
  BY <1>1, <1>2, <1>3, <1>4 DEF TypeInv, TypeOK

LEMMA TypeStep == TypeInv /\ [Next]_vars => TypeInv'
<1> SUFFICES ASSUME TypeInv, [Next]_vars PROVE TypeInv'
  OBVIOUS
<1>1. CASE UNCHANGED vars
  BY <1>1, StutterTyped
<1>2. ASSUME NEW t \in Tx, Call(t) PROVE TypeInv'
  BY <1>2, WalletCallTyped, UpdateProductTyped, CreateWalletOrderTyped,
     CreateGatewayOrderTyped DEF Call
<1>3. ASSUME NEW t \in Tx, WalletStep(t) \/ SaveProduct(t), UNCHANGED session
      PROVE  TypeInv'
  BY <1>3, ReadWalletTyped, WriteWalletTyped, CommitRequestTyped, SaveProductTyped,
     RejectTyped DEF WalletStep, DepositOverflow
<1>4. ASSUME NEW t \in Tx, OrderStep(t) PROVE TypeInv'
  <2>1. CASE LockProduct(t) \/ Debit(t) \/ Credit(t) \/ DecrementStock(t) \/ SaveOrder(t)
    BY <2>1, LockProductTyped, DebitTyped, CreditTyped, DecrementStockTyped, SaveOrderTyped
  <2>2. CASE CreditOverflow(t) \/ SerializationFailure(t) \/ DeadlockVictim(t)
    BY <2>2, RejectTyped DEF CreditOverflow, SerializationFailure, DeadlockVictim
  <2>3. CASE CreateCheckoutSession(t) \/ InsertOrder(t) \/ FindOrder(t) \/ BeginCompletion(t)
    BY <2>3, CreateCheckoutSessionTyped, InsertOrderTyped, FindOrderTyped, BeginCompletionTyped
  <2> QED
    BY <1>4, <2>1, <2>2, <2>3 DEF OrderStep
<1>5. ASSUME NEW t \in Tx, Customer(t) \/ Webhook(t) PROVE TypeInv'
  BY <1>5, PayTyped, ExpireTyped, DeliverWebhookTyped, RedeliverTyped
     DEF Customer, Webhook
<1>6. ASSUME NEW t \in Tx, Loss(t) PROVE TypeInv'
  BY <1>6, LossTyped, InsertOrderTyped DEF Loss
<1> QED
  BY <1>1, <1>2, <1>3, <1>4, <1>5, <1>6 DEF Next, Handle, Idle

\* The types are right in every reachable state, and with them: each step
\* serves the kind of request it is written for, a webhook completes an order
\* that exists, and nobody holds a lock outside a transaction.
THEOREM TypesHold == Spec => [](TypeOK /\ StepsMatchRequests /\ CompletionsHaveOrders)
<1>1. Spec => []TypeInv
  BY TypeInit, TypeStep, PTL DEF Spec
<1> QED
  BY <1>1 DEF TypeInv

-----------------------------------------------------------------------------
(* The effects of a step on the tables.                                    *)

Waits(t) == pc'[t] = pc[t] /\ seen'[t] = seen[t] /\ req'[t] = req[t]

\* A deposit or a withdrawal has read a balance that it may go on with.
Reads(t) ==
    /\ pc[t] = "readWallet"
    /\ ~Refused(req[t], Read(t, req[t].user))
    /\ seen'[t] = Amount(Read(t, req[t].user))
    /\ req'[t] = req[t]

\* A webhook has found a pending order.
Finds(t) ==
    /\ seen'[t] = db[req[t].order] /\ seen'[t].status = "PENDING"
    /\ req'[t] = req[t]

\* The tables stay, and nobody enters or moves on in an order transaction,
\* comes to write a balance but from a read, or comes to complete an order that
\* was not found pending.
Quiet ==
    /\ UNCHANGED dbVars
    /\ \A t \in Tx : pc'[t] \in TxSteps \cup {"commit"} => Waits(t)
    /\ \A t \in Tx : pc'[t] = "writeWallet" => Waits(t) \/ Reads(t)
    /\ \A t \in Tx : pc'[t] = "beginCompletion" => Waits(t) \/ Finds(t)

Others(t) == \A u \in Tx \ {t} : Waits(u)

Begins(t) ==
    /\ \/ pc[t] = "idle" /\ req'[t].op = "walletOrder"
       \/ pc[t] = "beginCompletion" /\ seen'[t] = seen[t] /\ req'[t] = req[t]
    /\ TakeSnapshot(t)
    /\ pc'[t] = "lockProduct"
    /\ Others(t)

Locks(t) ==
    /\ pc[t] = "lockProduct" /\ Sellable(t, Read(t, ProductOf(t)))
    /\ SelectForUpdate(t, ProductOf(t))
    /\ Goto(t, IF req[t].op = "webhook" THEN "credit" ELSE "debit")

MovesMoney(t) ==
    /\ \/ /\ pc[t] = "debit" /\ req[t].op = "walletOrder"
          /\ deductFromWallet(t, req[t].user, AmountOf(t), OrderOf(t))
          /\ Goto(t, "credit")
       \/ /\ pc[t] = "credit"
          /\ creditToWallet(t, MerchantOf(t), AmountOf(t), OrderOf(t))
          /\ Goto(t, "decrement")

Ends(t) ==
    /\ Rollback(t) \/ (pc[t] = "commit" /\ Commit(t))
    /\ pc'[t] \in Answers
    /\ Others(t) /\ UNCHANGED req

\* The form of updateProduct names the stock.
EditsStock(r) == r.op = "updateProduct" /\ "stock" \in DOMAIN r.set

\* The statements that are transactions of their own touch no wallet, and
\* leave orders that are not completed, at the price that was quoted.
Publishes(t) ==
    /\ \/ pc[t] = "saveProduct" /\ \E p \in Product : \E row \in Contents(p) :
             /\ AutoCommit(p, row)
             /\ db[p].stock >= 0 => row.stock >= 0
             /\ ~EditsStock(req[t]) => row.stock = db[p].stock
       \/ pc[t] = "insertOrder" /\ \E row \in OrderRow :
             /\ AutoCommit(t, row)
             /\ row.status = "PENDING"
             /\ row = Order("PENDING", req[t].user, req[t].product, seen[t].amount)
    /\ pc'[t] \in Answers
    /\ Others(t) /\ UNCHANGED req

Effect(t) ==
    \/ Begins(t) \/ Locks(t) \/ MovesMoney(t) \/ DecrementStock(t) \/ SaveOrder(t)
    \/ WriteWallet(t) \/ Ends(t) \/ Publishes(t)

-----------------------------------------------------------------------------
(* Every step is quiet or has one of the effects.                          *)

LEMMA CallEffects ==
    ASSUME TypeInv, NEW t \in Tx, Call(t)
    PROVE  Quiet \/ Effect(t)
<1>1. CASE Deposit(t) \/ Withdraw(t) \/ UpdateProduct(t)
  BY <1>1 DEF Deposit, Withdraw, UpdateProduct, Arrive, Quiet, Waits, TxSteps, TypeInv, TypeOK,
     RequestsOK
<1>2. CASE CreateWalletOrder(t)
  BY <1>2 DEF CreateWalletOrder, Arrive, Effect, Begins, Others, Waits, TypeInv, TypeOK,
     RequestsOK, StepsMatchRequests, StepMatches, TxSteps
<1>3. CASE CreateGatewayOrder(t)
  <2>1. PICK step \in {"createSession", "rejected"} : pc' = [pc EXCEPT ![t] = step]
    BY <1>3 DEF CreateGatewayOrder
  <2> QED
    BY <1>3, <2>1 DEF CreateGatewayOrder, Quiet, Waits, TxSteps, TypeInv, TypeOK, RequestsOK
<1> QED
  BY <1>1, <1>2, <1>3 DEF Call

LEMMA EndEffects ==
    ASSUME TypeInv, NEW t \in Tx,
           Reject(t) \/ Fail(t) \/ CommitRequest(t) \/ Abort(t) \/ LoseAnswer(t)
    PROVE  Ends(t)
BY DEF Reject, Fail, CommitRequest, Abort, LoseAnswer, Answer, Ends, Others, Waits, Answers,
   TypeInv, TypeOK, RequestsOK

LEMMA SaveProductEffects ==
    ASSUME TypeInv, NEW t \in Tx, SaveProduct(t)
    PROVE  Publishes(t)
<1> DEFINE p == req[t].product
           row == IF req[t].op = "updateProduct"
                  THEN Edited(db[p], req[t].set)
                  ELSE Removed(db[p])
<1>1. /\ req[t].op \in {"updateProduct", "removeProduct"}
      /\ p \in Product
  BY RequestFacts
     DEF SaveProduct, SaveRow, TypeInv, TypeOK, StepsMatchRequests, StepMatches
<1>2. /\ row \in Contents(p)
      /\ db[p].stock >= 0 => row.stock >= 0
      /\ ~EditsStock(req[t]) => row.stock = db[p].stock
  <2>1. db[p] \in [stock : Int, price : Nat, active : BOOLEAN]
    BY <1>1, OrderAssumption DEF TypeInv, TypeOK, TablesOK, Contents
  <2>2. req[t].op = "updateProduct" =>
          /\ "stock" \in DOMAIN req[t].set => req[t].set.stock \in Nat
          /\ "price" \in DOMAIN req[t].set => req[t].set.price \in Nat
          /\ "active" \in DOMAIN req[t].set => req[t].set.active \in BOOLEAN
    <3>1. req[t] \in Arrivals[t] \/ req[t] = NoRequest
      BY DEF TypeInv, TypeOK, RequestsOK
    <3> QED
      BY <3>1, ProductAssumption DEF NoRequest
  <2>3. /\ row \in [stock : Int, price : Nat, active : BOOLEAN]
        /\ db[p].stock >= 0 => row.stock >= 0
        /\ ~EditsStock(req[t]) => row.stock = db[p].stock
    <3>1. CASE req[t].op = "updateProduct"
      BY <2>1, <2>2, <3>1 DEF Edited, EditsStock
    <3>2. CASE req[t].op = "removeProduct"
      BY <2>1, <3>2 DEF Removed, EditsStock
    <3> QED
      BY <1>1, <3>1, <3>2
  <2> QED
    BY <1>1, <2>3, OrderAssumption DEF Contents
<1>3. pc[t] = "saveProduct" /\ AutoCommit(p, row) /\ Answer(t, "done")
  BY DEF SaveProduct, SaveRow
<1> HIDE DEF p, row
<1> QED
  BY <1>1, <1>2, <1>3
     DEF Publishes, Answer, Others, Waits, Answers, TypeInv, TypeOK, RequestsOK

LEMMA InsertOrderEffects ==
    ASSUME TypeInv, NEW t \in Tx, InsertOrder(t) \/ LoseUrl(t)
    PROVE  Publishes(t)
<1> DEFINE row == Order("PENDING", req[t].user, req[t].product, seen[t].amount)
<1>1. req[t].op = "gatewayOrder" /\ seen[t].amount \in Nat
  BY DEF InsertOrder, LoseUrl, TypeInv, StepsMatchRequests, StepMatches
<1>2. req[t].user \in User /\ req[t].product \in Product
  BY <1>1, RequestFacts DEF TypeInv, TypeOK
<1>3. row \in OrderRow /\ row.status = "PENDING"
  BY <1>1, <1>2 DEF Order, OrderRow
<1>4. /\ pc[t] = "insertOrder" /\ AutoCommit(t, row) /\ UNCHANGED req
      /\ \E answer \in Answers : pc' = [pc EXCEPT ![t] = answer]
      /\ seen' = [seen EXCEPT ![t] = Blank]
      /\ row = Order("PENDING", req[t].user, req[t].product, seen[t].amount)
  BY DEF InsertOrder, LoseUrl, Answer, Answers
<1> HIDE DEF row
<1> QED
  BY <1>3, <1>4 DEF Publishes, Others, Waits, Answers, TypeInv, TypeOK, RequestsOK

LEMMA HandleEffects ==
    ASSUME TypeInv, NEW t \in Tx, Handle(t)
    PROVE  Quiet \/ Effect(t)
<1>1. CASE ReadWallet(t)
  <2>1. CASE Reject(t)
    BY <2>1, EndEffects DEF Effect
  <2>2. CASE ~Reject(t)
    <3>1. /\ Remember(t, Amount(Read(t, req[t].user)), "writeWallet") /\ UNCHANGED dbVars
          /\ pc[t] = "readWallet" /\ ~Refused(req[t], Read(t, req[t].user))
      BY <1>1, <2>2 DEF ReadWallet
    <3>2. Reads(t) /\ pc'[t] = "writeWallet" /\ Others(t)
      BY <3>1 DEF Remember, Reads, Others, Waits, TypeInv, TypeOK, RequestsOK
    <3> QED
      BY <3>1, <3>2 DEF Quiet, Others, Waits, TxSteps
  <2> QED
    BY <2>1, <2>2
<1>2. CASE WriteWallet(t) \/ DecrementStock(t) \/ SaveOrder(t)
  BY <1>2 DEF Effect
<1>3. CASE \/ CommitRequest(t) \/ DepositOverflow(t) \/ CreditOverflow(t)
           \/ SerializationFailure(t) \/ DeadlockVictim(t)
  BY <1>3, EndEffects
     DEF Effect, DepositOverflow, CreditOverflow, SerializationFailure, DeadlockVictim
<1>4. CASE SaveProduct(t) \/ InsertOrder(t)
  BY <1>4, SaveProductEffects, InsertOrderEffects DEF Effect
<1>5. CASE LockProduct(t)
  <2>1. CASE Reject(t)
    BY <2>1, EndEffects DEF Effect
  <2>2. CASE ~Reject(t)
    <3>1. /\ pc[t] = "lockProduct" /\ Sellable(t, Read(t, ProductOf(t)))
          /\ SelectForUpdate(t, ProductOf(t))
          /\ Goto(t, IF req[t].op = "webhook" THEN "credit" ELSE "debit")
      BY <1>5, <2>2 DEF LockProduct
    <3> QED
      BY <3>1 DEF Effect, Locks
  <2> QED
    BY <2>1, <2>2
<1>6. CASE Debit(t)
  <2>1. CASE Reject(t)
    BY <2>1, EndEffects DEF Effect
  <2>2. CASE ~Reject(t)
    BY <1>6, <2>2
       DEF Debit, Effect, MovesMoney, TypeInv, StepsMatchRequests, StepMatches
  <2> QED
    BY <2>1, <2>2
<1>7. CASE Credit(t)
  BY <1>7 DEF Credit, Effect, MovesMoney
<1>8. CASE CreateCheckoutSession(t)
  BY <1>8 DEF CreateCheckoutSession, Goto, Quiet, Waits, TxSteps, TypeInv, TypeOK, RequestsOK
<1>9. CASE FindOrder(t)
  <2>1. PICK step \in {"rejected", "done", "beginCompletion"} :
          /\ pc' = [pc EXCEPT ![t] = step]
          /\ \E row : /\ seen' = [seen EXCEPT ![t] = row]
                      /\ step = "beginCompletion" =>
                            row = db[req[t].order] /\ row.status = "PENDING"
          /\ UNCHANGED <<dbVars, req>>
    BY <1>9 DEF FindOrder, Answer, Remember
  <2>2. pc'[t] = "beginCompletion" => Finds(t)
    BY <2>1 DEF Finds, TypeInv, TypeOK, RequestsOK
  <2>3. pc'[t] = step /\ Others(t)
    BY <2>1 DEF Others, Waits, TypeInv, TypeOK, RequestsOK
  <2> QED
    BY <2>1, <2>2, <2>3 DEF Quiet, Others, Waits, TxSteps
<1>10. CASE BeginCompletion(t)
  BY <1>10
     DEF BeginCompletion, Goto, Effect, Begins, Others, Waits, TypeInv, TypeOK,
     RequestsOK,
     StepsMatchRequests, StepMatches, TxSteps
<1> QED
  BY <1>1, <1>2, <1>3, <1>4, <1>5, <1>6, <1>7, <1>8, <1>9, <1>10
     DEF Handle, WalletStep, OrderStep

\* Every step of the system is quiet or has one of the effects.
LEMMA Effects ==
    ASSUME TypeInv, [Next]_vars
    PROVE  Quiet \/ \E t \in Tx : Effect(t)
<1>1. CASE UNCHANGED vars
  BY <1>1 DEF vars, requestVars, Quiet, Waits
<1>2. ASSUME NEW t \in Tx, Pay(t) \/ Expire(t) PROVE Quiet
  BY <1>2 DEF Pay, Expire, requestVars, Quiet, Waits
<1>3. ASSUME NEW t \in Tx, DeliverWebhook(t) \/ Redeliver(t) PROVE Quiet
  BY <1>3 DEF DeliverWebhook, Redeliver, Arrive, Goto, Quiet, Waits, TxSteps, TypeInv, TypeOK,
     RequestsOK
<1>4. ASSUME NEW t \in Tx, Loss(t) PROVE Effect(t)
  BY <1>4, EndEffects, InsertOrderEffects DEF Loss, Effect
<1> QED
  BY <1>1, <1>2, <1>3, <1>4, CallEffects, HandleEffects
     DEF Next, Idle, Customer, Webhook

-----------------------------------------------------------------------------
(* The engine under this program.                                          *)

\* A wallet is moved by one UPDATE and one INSERT, of an entry of the types
\* that Debit and Credit write, from the balance that is read.
LEMMA MoveIsWrite ==
    ASSUME TypeInv, NEW t \in Tx, MovesMoney(t)
    PROVE  \E u \in User : \E after \in Int : \E e \in LedgerRow :
              /\ WriteAndLog(t, u, after, e)
              /\ e.before = Read(t, u) /\ e.after = after
              /\ e.ref = OrderOf(t)
<1>1. pc[t] \in TxSteps
  BY DEF MovesMoney, TxSteps
<1>2. /\ AmountOf(t) \in Nat /\ OrderOf(t) \in Tx /\ MerchantOf(t) \in User
      /\ req[t].op = "walletOrder" => req[t].user \in User
  BY <1>1, SaleFacts
<1>3. ASSUME NEW u \in User PROVE Read(t, u) \in Int
  BY ReadTyped, OrderAssumption DEF TypeInv, TypeOK, Contents
<1>4. CASE deductFromWallet(t, req[t].user, AmountOf(t), OrderOf(t)) /\ req[t].op = "walletOrder"
  <2> DEFINE u == req[t].user
             after == Read(t, u) - AmountOf(t)
             e == Entry("PAYMENT", AmountOf(t), Read(t, u), after, OrderOf(t))
  <2>1. after \in Int /\ e \in LedgerRow
    BY <1>2, <1>3, <1>4 DEF Entry, LedgerRow
  <2>2. e.before = Read(t, u) /\ e.after = after /\ e.ref = OrderOf(t)
    BY DEF Entry
  <2>3. WriteAndLog(t, u, after, e)
    BY <1>4 DEF deductFromWallet
  <2> QED
    BY <1>2, <1>4, <2>1, <2>2, <2>3
<1>5. CASE creditToWallet(t, MerchantOf(t), AmountOf(t), OrderOf(t))
  <2> DEFINE u == MerchantOf(t)
             after == Read(t, u) + AmountOf(t)
             e == Entry("EARNING", AmountOf(t), Read(t, u), after, OrderOf(t))
  <2>1. after \in Int /\ e \in LedgerRow
    BY <1>2, <1>3 DEF Entry, LedgerRow
  <2>2. e.before = Read(t, u) /\ e.after = after /\ e.ref = OrderOf(t)
    BY DEF Entry
  <2>3. WriteAndLog(t, u, after, e)
    BY <1>5 DEF creditToWallet
  <2> QED
    BY <1>2, <2>1, <2>2, <2>3
<1> QED
  BY <1>4, <1>5 DEF MovesMoney

LEMMA EngineStep ==
    ASSUME TypeInv, EngineInv, [Next]_vars
    PROVE  EngineInv'
<1>1. EngineOK
  BY DEF EngineOK, TypeInv, TypeOK, TablesOK
<1> SUFFICES EngineOK'
  BY DEF EngineOK
<1>2. CASE Quiet
  BY <1>1, <1>2, IdleKeeps DEF Quiet
<1>3. ASSUME NEW t \in Tx, Effect(t) PROVE EngineOK'
  <2>1. CASE Begins(t)
    BY <1>1, <2>1, TakeSnapshotKeeps DEF Begins
  <2>2. CASE Locks(t)
    <3>1. ProductOf(t) \in Row
      BY <2>2, SaleFacts, OrderAssumption DEF Locks, TxSteps
    <3> QED
      BY <1>1, <2>2, <3>1, SelectForUpdateKeeps DEF Locks
  <2>3. CASE MovesMoney(t)
    BY <1>1, <2>3, MoveIsWrite, WriteAndLogKeeps, OrderAssumption
  <2>4. CASE DecrementStock(t)
    <3>1. ProductOf(t) \in Row
      BY <2>4, SaleFacts, OrderAssumption DEF DecrementStock, TxSteps
    <3> QED
      BY <1>1, <2>4, <3>1, WriteKeeps DEF DecrementStock
  <2>5. CASE SaveOrder(t)
    <3>1. OrderOf(t) \in Row
      BY <2>5, SaleFacts, OrderAssumption DEF SaveOrder, TxSteps
    <3> QED
      BY <1>1, <2>5, <3>1, WriteKeeps DEF SaveOrder
  <2>6. CASE WriteWallet(t)
    <3>1. req[t].user \in Row
      BY <2>6, RequestFacts, OrderAssumption
         DEF WriteWallet, TypeInv, TypeOK, StepsMatchRequests, StepMatches
    <3> QED
      BY <1>1, <2>6, <3>1, WriteAndLogKeeps DEF WriteWallet
  <2>7. CASE Ends(t)
    BY <1>1, <2>7, CommitKeeps, RollbackKeeps DEF Ends
  <2>8. CASE Publishes(t)
    BY <1>1, <2>8, AutoCommitKeeps, OrderAssumption DEF Publishes
  <2> QED
    BY <1>3, <2>1, <2>2, <2>3, <2>4, <2>5, <2>6, <2>7, <2>8 DEF Effect
<1> QED
  BY <1>2, <1>3, Effects

\* Locks are exclusive, what a Serializable transaction has locked has not
\* changed since its snapshot, and a snapshot is current where nothing was
\* missed: the facts that the money and stock arguments rest on.
THEOREM EngineHolds == Spec => [](TypeInv /\ EngineInv)
<1>1. Init => TypeInv /\ EngineInv
  BY TypeInit, EngineInit DEF Init, EngineOK
<1>2. TypeInv /\ EngineInv /\ [Next]_vars => (TypeInv /\ EngineInv)'
  BY TypeStep, EngineStep
<1> QED
  BY <1>1, <1>2, PTL DEF Spec

-----------------------------------------------------------------------------
(* The stock.                                                              *)

StockInv == UnitsAreThere /\ NoOversell

\* A step that changes no product in any view, nor the product of anyone.
LEMMA ViewsKept ==
    ASSUME StockInv, UNCHANGED db,
           \A u \in Tx : \A p \in Product : view'[u][p] = view[u][p],
           \A u \in Tx : pc'[u] \in {"debit", "credit", "decrement"} =>
              /\ ProductOf(u)' = ProductOf(u) /\ ProductOf(u) \in Product
              /\ \/ pc[u] \in {"debit", "credit", "decrement"}
                 \/ view[u][ProductOf(u)].stock > 0
    PROVE  StockInv'
BY DEF StockInv, UnitsAreThere, NoOversell

\* The product of a request stays the same while its locals do.
LEMMA ProductKept ==
    ASSUME NEW u \in Tx, seen'[u] = seen[u], req'[u] = req[u]
    PROVE  ProductOf(u)' = ProductOf(u)
BY DEF ProductOf

LEMMA StockInit == Init => StockInv
<1>1. \A p \in Product : p \in Row /\ InitialDb[p].stock >= 0
  BY ProductAssumption DEF ProductRow
<1> QED
  BY <1>1 DEF Init, DbInit, RequestInit, StockInv, UnitsAreThere, NoOversell

LEMMA StockStep ==
    ASSUME TypeInv, EngineInv, StockInv, [Next]_vars
    PROVE  StockInv'
<1> DEFINE Holding == {"debit", "credit", "decrement"}
<1>1. \A u \in Tx : pc[u] \in Holding =>
        pc[u] \in TxSteps /\ ProductOf(u) \in Product /\ u \in serial
  BY SaleFacts DEF TxSteps
<1>2. CASE Quiet
  <2>1. \A u \in Tx : pc'[u] \in Holding =>
          /\ ProductOf(u)' = ProductOf(u) /\ ProductOf(u) \in Product
          /\ pc[u] \in Holding
    BY <1>1, <1>2, ProductKept DEF Quiet, Waits, TxSteps
  <2> QED
    BY <1>2, <2>1, ViewsKept DEF Quiet, dbVars
<1>3. ASSUME NEW t \in Tx, Effect(t) PROVE StockInv'
  <2>1. CASE Begins(t)
    <3>1. \A u \in Tx : pc'[u] \in Holding =>
            u # t /\ ProductOf(u)' = ProductOf(u) /\ pc[u] \in Holding
      BY <2>1, ProductKept DEF Begins, Others, Waits
    <3>2. view' = [view EXCEPT ![t] = db] /\ UNCHANGED db
      BY <2>1 DEF Begins, TakeSnapshot
    <3> QED
      BY <1>1, <3>1, <3>2
         DEF StockInv, UnitsAreThere, NoOversell, TypeInv, TypeOK, TablesOK,
            EngineTypeOK
  <2>2. CASE Locks(t)
    <3>1. t \in serial /\ ProductOf(t) \in Product
      BY <2>2, SaleFacts DEF Locks, TxSteps
    <3>2. view[t][ProductOf(t)].stock > 0
      BY <2>2, <3>1 DEF Locks, Sellable, Read
    <3>3. UNCHANGED <<db, view, req, seen>> /\ \A u \in Tx \ {t} : pc'[u] = pc[u]
      BY <2>2 DEF Locks, SelectForUpdate, Goto, TypeInv, TypeOK, RequestsOK
    <3> QED
      BY <1>1, <3>1, <3>2, <3>3, ProductKept, ViewsKept
  <2>3. CASE MovesMoney(t)
    <3>1. PICK v \in User, after \in Int, e \in LedgerRow : WriteAndLog(t, v, after, e)
      BY <2>3, MoveIsWrite
    <3>2. \A u \in Tx : \A p \in Product : view'[u][p] = view[u][p]
      BY <3>1, OrderAssumption
         DEF WriteAndLog, Put, TypeInv, TypeOK, TablesOK, EngineTypeOK
    <3>3. /\ UNCHANGED <<db, req, seen>> /\ pc[t] \in Holding
          /\ \A u \in Tx \ {t} : pc'[u] = pc[u]
      BY <2>3, <3>1 DEF MovesMoney, WriteAndLog, Put, Goto, TypeInv, TypeOK, RequestsOK
    <3> QED
      BY <1>1, <3>2, <3>3, ProductKept, ViewsKept
  <2>4. CASE DecrementStock(t)
    <3> DEFINE p == ProductOf(t)
               row == [view[t][p] EXCEPT !.stock = @ - 1]
    <3>1. p \in Product /\ p \in Row /\ t \in serial /\ view[t][p].stock > 0
      BY <1>1, <2>4, OrderAssumption DEF DecrementStock, StockInv, UnitsAreThere
    <3>2. view[t][p] \in [stock : Int, price : Nat, active : BOOLEAN]
      BY <3>1, OrderAssumption DEF TypeInv, TypeOK, TablesOK, Contents
    <3>3. row.stock >= 0
      BY <3>1, <3>2
    <3>4. view' = [view EXCEPT ![t][p] = row] /\ UNCHANGED <<db, req, seen>>
      BY <2>4, <3>1 DEF DecrementStock, Write, Put, Read, Goto
    <3>5. pc'[t] = "saveOrder" /\ \A u \in Tx \ {t} : pc'[u] = pc[u]
      BY <2>4 DEF DecrementStock, Goto, TypeInv, TypeOK, RequestsOK
    <3> HIDE DEF p, row
    <3>6. \A u \in Tx : \A x \in Product :
            view'[u][x] = IF u = t /\ x = p THEN row ELSE view[u][x]
      BY <3>1, <3>4, OrderAssumption DEF TypeInv, TypeOK, TablesOK, EngineTypeOK
    <3>7. \A u \in Tx : pc'[u] \in Holding =>
            /\ u # t /\ pc[u] \in Holding
            /\ ProductOf(u)' = ProductOf(u) /\ ProductOf(u) \in Product
      BY <1>1, <3>4, <3>5, ProductKept
    <3>8. \A u \in Tx : \A x \in Product : view'[u][x].stock >= 0
      BY <3>3, <3>6 DEF StockInv, UnitsAreThere
    <3>9. \A u \in Tx : pc'[u] \in Holding => view'[u][ProductOf(u)'].stock > 0
      BY <3>6, <3>7 DEF StockInv, UnitsAreThere
    <3> QED
      BY <3>4, <3>8, <3>9 DEF StockInv, UnitsAreThere, NoOversell
  <2>5. CASE SaveOrder(t) \/ WriteWallet(t)
    <3>1. PICK r \in User \cup Tx : \E c : Put(t, r, c)
      <4>1. CASE SaveOrder(t)
        BY <4>1, SaleFacts DEF SaveOrder, TxSteps, Write
      <4>2. CASE WriteWallet(t)
        BY <4>2, RequestFacts
           DEF WriteWallet, WriteAndLog, TypeInv, TypeOK, StepsMatchRequests,
              StepMatches
      <4> QED
        BY <2>5, <4>1, <4>2
    <3>2. \A u \in Tx : \A p \in Product : view'[u][p] = view[u][p]
      BY <3>1, OrderAssumption DEF Put, TypeInv, TypeOK, TablesOK, EngineTypeOK
    <3>3. /\ UNCHANGED <<db, req, seen>> /\ pc'[t] = "commit"
          /\ \A u \in Tx \ {t} : pc'[u] = pc[u]
      BY <2>5, <3>1 DEF SaveOrder, WriteWallet, Put, Goto, TypeInv, TypeOK, RequestsOK
    <3> QED
      BY <1>1, <3>2, <3>3, ProductKept, ViewsKept
  <2>6. CASE Ends(t)
    <3>1. \A u \in Tx : pc'[u] \in Holding =>
            u # t /\ ProductOf(u)' = ProductOf(u) /\ pc[u] \in Holding
      BY <2>6, ProductKept DEF Ends, Others, Waits, Answers
    <3>2. view' = [view EXCEPT ![t] = InitialDb]
      BY <2>6 DEF Ends, Rollback, Commit, Release
    <3>3. \A p \in Product : p \in Row /\ InitialDb[p].stock >= 0
      BY ProductAssumption DEF ProductRow
    <3>4. \A p \in Product : db'[p] = db[p] \/ db'[p] = view[t][p]
      BY <2>6, <3>3 DEF Ends, Rollback, Commit
    <3> QED
      BY <1>1, <3>1, <3>2, <3>3, <3>4
         DEF StockInv, UnitsAreThere, NoOversell, TypeInv, TypeOK, TablesOK,
            EngineTypeOK
  <2>7. CASE Publishes(t)
    <3>1. \A u \in Tx : pc'[u] \in Holding =>
            u # t /\ ProductOf(u)' = ProductOf(u) /\ pc[u] \in Holding
      BY <2>7, ProductKept DEF Publishes, Others, Waits, Answers
    <3>2. UNCHANGED view
      BY <2>7 DEF Publishes, AutoCommit
    <3>3. \A p \in Product : db'[p].stock >= 0
      <4>1. DOMAIN db = Row /\ \A p \in Product : db[p].stock >= 0 /\ p \in Row /\ p # t
        BY OrderAssumption
           DEF StockInv, NoOversell, TypeInv, TypeOK, TablesOK, EngineTypeOK
      <4>2. CASE \E row \in OrderRow : AutoCommit(t, row)
        BY <4>1, <4>2 DEF AutoCommit
      <4>3. ASSUME NEW x \in Product, NEW row, row.stock >= 0, AutoCommit(x, row)
            PROVE  \A p \in Product : db'[p].stock >= 0
        BY <4>1, <4>3 DEF AutoCommit
      <4> QED
        BY <2>7, <4>1, <4>2, <4>3 DEF Publishes
    <3> QED
      BY <1>1, <3>1, <3>2, <3>3 DEF StockInv, UnitsAreThere, NoOversell
  <2> QED
    BY <1>3, <2>1, <2>2, <2>3, <2>4, <2>5, <2>6, <2>7 DEF Effect
<1> QED
  BY <1>2, <1>3, Effects

\* However wallet orders, completions by the webhook and edits of the merchant
\* interleave, and whichever of them fail, the stock never goes below zero.
THEOREM StockHolds == Spec => []NoOversell
<1>1. Init => TypeInv /\ EngineInv /\ StockInv
  BY TypeInit, EngineInit, StockInit DEF Init, EngineOK
<1>2. TypeInv /\ EngineInv /\ StockInv /\ [Next]_vars => (TypeInv /\ EngineInv /\ StockInv)'
  BY TypeStep, EngineStep, StockStep
<1>3. StockInv => NoOversell
  BY DEF StockInv
<1> QED
  BY <1>1, <1>2, <1>3, PTL DEF Spec

-----------------------------------------------------------------------------
(* The steps of the backend sorted by what they do to requests and         *)
(* sessions.                                                               *)

Same(t) == \A u \in Tx \ {t} : pc'[u] = pc[u] /\ req'[u] = req[u]

\* Stripe reports a session with a first step only if it was paid.
Enters(t) ==
    /\ pc[t] = "idle" /\ pc'[t] # "idle"
    /\ Same(t) /\ UNCHANGED session
    /\ req'[t].op = "webhook" => pc'[t] = "done" \/ session[req'[t].order] = "paid"

\* Only a webhook goes on after an answer, and not after a good one; a
\* gateway order that is answered as done is in the database.
GoesOn(t) ==
    /\ pc[t] \notin {"idle", "done"} /\ pc'[t] # "idle"
    /\ pc[t] = "insertOrder" =>
          pc'[t] \in Answers /\ (pc'[t] = "done" => db'[t] # NoOrder)
    /\ pc[t] \in Answers => req[t].op = "webhook"
    /\ Same(t) /\ UNCHANGED <<req, session>>

Opens(t) ==
    /\ pc[t] = "createSession" /\ pc'[t] = "insertOrder"
    /\ session' = [session EXCEPT ![t] = "open"]
    /\ Same(t) /\ UNCHANGED req

Settles(t) ==
    /\ session[t] = "open"
    /\ \/ pc[t] = "done" /\ session' = [session EXCEPT ![t] = "paid"]
       \/ session' = [session EXCEPT ![t] = "expired"]
    /\ UNCHANGED <<pc, req>>

Move(t) == Enters(t) \/ GoesOn(t) \/ Opens(t) \/ Settles(t)

\* Only a statement that is due wants a row.
LEMMA WantedBy ==
    ASSUME NEW t \in Tx, Wanted(t) # {}
    PROVE  pc[t] \in TxSteps \cup {"writeWallet"}
BY DEF Wanted, TxSteps

\* A transaction ends for a request that is being served.
LEMMA EndMoves ==
    ASSUME TypeInv, NEW t \in Tx, Running(t), pc[t] # "insertOrder",
           \E a \in Answers : pc' = [pc EXCEPT ![t] = a], UNCHANGED <<req, session>>
    PROVE  GoesOn(t)
BY DEF GoesOn, Same, Running, Answers, TypeInv, TypeOK, RequestsOK

LEMMA CallMoves ==
    ASSUME TypeInv, NEW t \in Tx, Call(t)
    PROVE  Enters(t)
<1>1. CASE (Deposit(t) \/ Withdraw(t) \/ UpdateProduct(t)) /\ UNCHANGED session
  <2>1. PICK r \in Arrivals[t], step \in {"rejected", "readWallet", "saveProduct"} :
          r.op # "webhook" /\ Arrive(t, r, step)
    BY <1>1 DEF Deposit, Withdraw, UpdateProduct
  <2> QED
    BY <1>1, <2>1 DEF Arrive, Enters, Same, TypeInv, TypeOK, RequestsOK
<1>2. CASE CreateWalletOrder(t)
  BY <1>2 DEF CreateWalletOrder, Arrive, Enters, Same, TypeInv, TypeOK, RequestsOK
<1>3. CASE CreateGatewayOrder(t)
  <2>1. PICK r \in Arrivals[t], step \in {"rejected", "createSession"} :
          /\ r.op # "webhook"
          /\ pc[t] = "idle" /\ pc' = [pc EXCEPT ![t] = step]
          /\ req' = [req EXCEPT ![t] = r] /\ UNCHANGED session
    BY <1>3 DEF CreateGatewayOrder
  <2> QED
    BY <2>1 DEF Enters, Same, TypeInv, TypeOK, RequestsOK
<1> QED
  BY <1>1, <1>2, <1>3 DEF Call

LEMMA HandleMoves ==
    ASSUME TypeInv, NEW t \in Tx, Handle(t)
    PROVE  GoesOn(t) \/ Opens(t)
<1>1. CASE ReadWallet(t) /\ UNCHANGED session
  <2>1. \E step \in {"writeWallet", "rejected"} : pc' = [pc EXCEPT ![t] = step]
    BY <1>1 DEF ReadWallet, Reject, Answer, Remember
  <2>2. pc[t] = "readWallet" /\ UNCHANGED req
    BY <1>1 DEF ReadWallet, Reject, Answer, Remember
  <2> QED
    BY <1>1, <2>1, <2>2 DEF GoesOn, Same, Answers, TypeInv, TypeOK, RequestsOK
<1>2. CASE (WriteWallet(t) \/ DepositOverflow(t) \/ CommitRequest(t)) /\ UNCHANGED session
  BY <1>2 DEF WriteWallet, DepositOverflow, CommitRequest, Fail, Goto, Answer, GoesOn, Same,
     Answers, TypeInv, TypeOK, RequestsOK
<1>3. CASE SaveProduct(t) /\ UNCHANGED session
  BY <1>3 DEF SaveProduct, SaveRow, Answer, GoesOn, Same, Answers, TypeInv, TypeOK,
     RequestsOK
<1>4. CASE LockProduct(t) \/ Debit(t)
  <2>1. \E step \in {"rejected", "debit", "credit"} : pc' = [pc EXCEPT ![t] = step]
    BY <1>4 DEF LockProduct, Debit, Reject, Answer, Goto
  <2>2. pc[t] \in {"lockProduct", "debit"} /\ UNCHANGED <<req, session>>
    BY <1>4 DEF LockProduct, Debit, Reject, Answer, Goto
  <2> QED
    BY <2>1, <2>2 DEF GoesOn, Same, Answers, TypeInv, TypeOK, RequestsOK
<1>5. CASE \/ Credit(t) \/ CreditOverflow(t) \/ DecrementStock(t) \/ SaveOrder(t)
           \/ BeginCompletion(t)
  BY <1>5 DEF Credit, CreditOverflow, DecrementStock, SaveOrder, BeginCompletion, Fail,
     Answer, Goto, GoesOn, Same,
     Answers, TypeInv, TypeOK, RequestsOK
<1>6. CASE SerializationFailure(t) \/ DeadlockVictim(t)
  <2>1. Wanted(t) # {}
    BY <1>6 DEF SerializationFailure, DeadlockVictim, WaitsFor
  <2>2. Running(t) /\ pc[t] # "insertOrder"
    BY <2>1, WantedBy DEF Running, TxSteps, Answers
  <2> QED
    BY <1>6, <2>2, EndMoves DEF SerializationFailure, DeadlockVictim, Fail, Answer, Answers
<1>7. CASE CreateCheckoutSession(t)
  BY <1>7 DEF CreateCheckoutSession, OpenSession, Goto, Opens, Same, TypeInv, TypeOK,
     RequestsOK
<1>8. CASE InsertOrder(t)
  <2>1. t \in DOMAIN db
    BY OrderAssumption DEF TypeInv, TypeOK, TablesOK, EngineTypeOK
  <2>2. db'[t] # NoOrder
    BY <1>8, <2>1 DEF InsertOrder, AutoCommit, Order, NoOrder
  <2> QED
    BY <1>8, <2>2 DEF InsertOrder, Answer, GoesOn, Same, Answers, TypeInv, TypeOK,
       RequestsOK
<1>9. CASE FindOrder(t)
  <2>1. \E step \in {"rejected", "done", "beginCompletion"} : pc' = [pc EXCEPT ![t] = step]
    BY <1>9 DEF FindOrder, Answer, Remember
  <2>2. pc[t] = "findOrder" /\ UNCHANGED <<req, session>>
    BY <1>9 DEF FindOrder, Answer, Remember
  <2> QED
    BY <2>1, <2>2 DEF GoesOn, Same, Answers, TypeInv, TypeOK, RequestsOK
<1> QED
  BY <1>1, <1>2, <1>3, <1>4, <1>5, <1>6, <1>7, <1>8, <1>9
     DEF Handle, WalletStep, OrderStep

LEMMA LossMoves ==
    ASSUME TypeInv, NEW t \in Tx, Loss(t)
    PROVE  GoesOn(t)
<1>1. /\ Running(t) /\ pc' = [pc EXCEPT ![t] = "failed"]
      /\ UNCHANGED <<req, session>>
  BY DEF Loss, Abort, LoseAnswer, LoseUrl, Running, Answers
<1> QED
  BY <1>1 DEF GoesOn, Same, Running, Answers, TypeInv, TypeOK, RequestsOK

LEMMA Moves ==
    ASSUME TypeInv, [Next]_vars
    PROVE  UNCHANGED <<pc, req, session>> \/ \E t \in Tx : Move(t)
<1>1. CASE UNCHANGED vars
  BY <1>1 DEF vars, requestVars
<1>2. ASSUME NEW t \in Tx, Customer(t) PROVE Settles(t)
  BY <1>2 DEF Customer, Pay, Expire, requestVars, Settles
<1>3. ASSUME NEW t \in Tx, DeliverWebhook(t) PROVE Enters(t)
  <2>1. PICK r \in Arrivals[t] :
          \/ session[r.order] = "paid" /\ Arrive(t, r, "findOrder")
          \/ Arrive(t, r, "done")
    BY <1>3 DEF DeliverWebhook
  <2> QED
    BY <1>3, <2>1 DEF DeliverWebhook, Arrive, Enters, Same, TypeInv, TypeOK, RequestsOK
<1>4. ASSUME NEW t \in Tx, Redeliver(t) PROVE GoesOn(t)
  BY <1>4 DEF Redeliver, Goto, GoesOn, Same, Answers, TypeInv, TypeOK, RequestsOK
<1> QED
  BY <1>1, <1>2, <1>3, <1>4, CallMoves, HandleMoves, LossMoves
     DEF Next, Idle, Webhook, Move

-----------------------------------------------------------------------------
(* What is paid for.                                                       *)

\* The money of order o has been taken, by Stripe or out of a wallet.
Backed(o) == session[o] = "paid" \/ req[o].op = "walletOrder"

\* A session belongs to a gateway order that is being created or has been
\* answered, and whoever could pay it finds its order in the database.
SessionsHaveOrders ==
    /\ \A t \in Tx : pc[t] = "idle" => req[t] = NoRequest
    /\ \A o \in Tx : session[o] # "none" => pc[o] \in {"insertOrder"} \cup Answers
    /\ \A o \in Tx : session[o] # "none" => req[o].op = "gatewayOrder"
    /\ \A o \in Tx : session[o] # "none" /\ pc[o] = "done" => db[o] # NoOrder
    /\ \A o \in Tx : session[o] = "paid" => db[o] # NoOrder

WebhooksReportPayments ==
    \A t \in Tx : req[t].op = "webhook" /\ pc[t] # "done" =>
        session[req[t].order] = "paid"

EarningsBacked(rows) ==
    \A i \in 1 .. Len(rows) : rows[i].type = "EARNING" => Backed(rows[i].ref)

\* Nothing is completed or earned, committed or not, that is not paid for.
WorkIsBacked ==
    /\ \A o \in Tx : db[o].status = "COMPLETED" => Backed(o)
    /\ \A t, o \in Tx : o \in wrote[t] => Backed(o)
    /\ \A u \in User : EarningsBacked(ledger[u])
    /\ \A t \in Tx, u \in User : EarningsBacked(inserted[t][u])

PaidInv == SessionsHaveOrders /\ WebhooksReportPayments /\ WorkIsBacked

LEMMA PaidInit == Init => PaidInv
<1> SUFFICES ASSUME Init PROVE PaidInv
  OBVIOUS
<1>1. /\ \A u \in User : u \in Row /\ ledger[u] = <<>>
      /\ \A t \in Tx, u \in User : inserted[t][u] = <<>>
      /\ \A o \in Tx : db[o] = NoOrder
  BY OrderAssumption, NoOrderAtFirst DEF Init, DbInit, Nothing
<1>2. WorkIsBacked
  BY <1>1 DEF Init, DbInit, WorkIsBacked, EarningsBacked, NoOrder
<1>3. SessionsHaveOrders /\ WebhooksReportPayments
  BY DEF Init, RequestInit, StripeInit, SessionsHaveOrders, WebhooksReportPayments,
     NoRequest
<1> QED
  BY <1>2, <1>3 DEF PaidInv

\* An order that is in the database stays there.
LEMMA OrdersStay ==
    ASSUME TypeInv, [Next]_vars, NEW o \in Tx, db[o] # NoOrder
    PROVE  db'[o] # NoOrder
<1>1. o \in Row /\ DOMAIN db = Row /\ o \notin Product
  BY OrderAssumption DEF TypeInv, TypeOK, TablesOK, EngineTypeOK
<1>2. CASE Quiet
  BY <1>2 DEF Quiet, dbVars
<1>3. ASSUME NEW t \in Tx, Effect(t) PROVE db'[o] # NoOrder
  <2>1. CASE Begins(t) \/ Locks(t) \/ DecrementStock(t) \/ SaveOrder(t) \/ WriteWallet(t)
    BY <2>1 DEF Begins, TakeSnapshot, Locks, SelectForUpdate, DecrementStock, SaveOrder,
       WriteWallet, Write, WriteAndLog, Put
  <2>2. CASE MovesMoney(t)
    BY <2>2, MoveIsWrite DEF WriteAndLog, Put
  <2>3. CASE Ends(t)
    <3>1. o \in wrote[t] => view[t][o] # NoOrder
      BY DEF TypeInv, CompletionsHaveOrders
    <3> QED
      BY <1>1, <2>3, <3>1 DEF Ends, Commit, Rollback
  <2>4. CASE Publishes(t)
    BY <1>1, <2>4, NoOrderIsNone DEF Publishes, AutoCommit
  <2> QED
    BY <1>3, <2>1, <2>2, <2>3, <2>4 DEF Effect
<1> QED
  BY <1>2, <1>3, Effects

LEMMA SessionStep ==
    ASSUME TypeInv, SessionsHaveOrders, WebhooksReportPayments, [Next]_vars
    PROVE  /\ SessionsHaveOrders' /\ WebhooksReportPayments'
           /\ \A o \in Tx : Backed(o) => Backed(o)'
<1> USE DEF SessionsHaveOrders
<1>1. \A o \in Tx : db[o] # NoOrder => db'[o] # NoOrder
  BY OrdersStay
<1>2. DOMAIN session = Tx /\ DOMAIN session' = Tx
  BY TypeStep DEF TypeInv, TypeOK, RequestsOK
<1>3. \A u \in Tx : req[u].op = "webhook" => req[u].order \in Tx
  BY RequestFacts DEF TypeInv, TypeOK
<1>4. \A u \in Tx : pc[u] = "createSession" => req[u].op = "gatewayOrder"
  BY DEF TypeInv, StepsMatchRequests, StepMatches
<1>5. CASE UNCHANGED <<pc, req, session>>
  BY <1>1, <1>5 DEF WebhooksReportPayments, Backed
<1>6. ASSUME NEW t \in Tx, Enters(t)
      PROVE  /\ SessionsHaveOrders' /\ WebhooksReportPayments'
             /\ \A o \in Tx : Backed(o) => Backed(o)'
  BY <1>1, <1>3, <1>6 DEF Enters, Same, WebhooksReportPayments, Backed, Answers, NoRequest
<1>7. ASSUME NEW t \in Tx, GoesOn(t)
      PROVE  /\ SessionsHaveOrders' /\ WebhooksReportPayments'
             /\ \A o \in Tx : Backed(o) => Backed(o)'
  BY <1>1, <1>7 DEF GoesOn, Same, WebhooksReportPayments, Backed, Answers
<1>8. ASSUME NEW t \in Tx, Opens(t)
      PROVE  /\ SessionsHaveOrders' /\ WebhooksReportPayments'
             /\ \A o \in Tx : Backed(o) => Backed(o)'
  BY <1>1, <1>2, <1>3, <1>4, <1>8 DEF Opens, Same, WebhooksReportPayments, Backed, Answers
<1>9. ASSUME NEW t \in Tx, Settles(t)
      PROVE  /\ SessionsHaveOrders' /\ WebhooksReportPayments'
             /\ \A o \in Tx : Backed(o) => Backed(o)'
  BY <1>1, <1>2, <1>3, <1>9 DEF Settles, WebhooksReportPayments, Backed, Answers
<1> QED
  BY <1>5, <1>6, <1>7, <1>8, <1>9, Moves DEF Move

\* Whoever is inside an order transaction works for an order that is paid.
LEMMA ServedIsBacked ==
    ASSUME TypeInv, WebhooksReportPayments, NEW t \in Tx, pc[t] \in TxSteps
    PROVE  OrderOf(t) \in Tx /\ Backed(OrderOf(t))
<1>1. req[t].op \in {"walletOrder", "webhook"}
  BY DEF TypeInv, StepsMatchRequests, StepMatches
<1>2. pc[t] # "done"
  BY DEF TxSteps
<1> QED
  BY <1>1, <1>2, SaleFacts DEF OrderOf, Backed, WebhooksReportPayments

LEMMA EarningsAppended ==
    ASSUME NEW rows \in Seq(LedgerRow), EarningsBacked(rows), NEW e \in LedgerRow,
           e.type = "EARNING" => Backed(e.ref)
    PROVE  EarningsBacked(Append(rows, e))
BY DEF EarningsBacked

LEMMA EarningsJoined ==
    ASSUME NEW rows \in Seq(LedgerRow), EarningsBacked(rows),
           NEW more \in Seq(LedgerRow), EarningsBacked(more)
    PROVE  EarningsBacked(rows \o more)
<1> SUFFICES ASSUME NEW i \in 1 .. Len(rows \o more), (rows \o more)[i].type = "EARNING"
             PROVE  Backed((rows \o more)[i].ref)
  BY DEF EarningsBacked
<1>1. CASE i <= Len(rows)
  BY <1>1 DEF EarningsBacked
<1>2. CASE i > Len(rows)
  <2>1. /\ i - Len(rows) \in 1 .. Len(more)
        /\ (rows \o more)[i] = more[i - Len(rows)]
    BY <1>2
  <2> QED
    BY <2>1 DEF EarningsBacked
<1> QED
  BY <1>1, <1>2

\* The work as one state leaves it to the next, judged by what was paid for
\* before the step.
WorkPassed ==
    /\ \A o \in Tx : db'[o].status = "COMPLETED" => Backed(o)
    /\ \A t, o \in Tx : o \in wrote'[t] => Backed(o)
    /\ \A u \in User : EarningsBacked(ledger'[u])
    /\ \A t \in Tx, u \in User : EarningsBacked(inserted'[t][u])

\* UPDATE of a wallet with its entry, of an order that is paid for.
LEMMA EntryPassed ==
    ASSUME TypeInv, WorkIsBacked,
           NEW t \in Tx, NEW u \in User, NEW after, NEW e \in LedgerRow,
           e.type = "EARNING" => Backed(e.ref), WriteAndLog(t, u, after, e)
    PROVE  WorkPassed
<1>1. /\ u \in Row /\ u \notin Tx
      /\ wrote \in [Tx -> SUBSET Row] /\ inserted \in [Tx -> [Row -> Seq(LedgerRow)]]
  BY OrderAssumption DEF TypeInv, TypeOK, TablesOK, EngineTypeOK
<1>2. EarningsBacked(Append(inserted[t][u], e))
  BY <1>1, EarningsAppended DEF WorkIsBacked
<1>3. \A s \in Tx, v \in User : inserted'[s][v] =
        IF s = t /\ v = u THEN Append(inserted[t][u], e) ELSE inserted[s][v]
  BY <1>1, OrderAssumption DEF WriteAndLog
<1>4. \A s, o \in Tx : o \in wrote'[s] => o \in wrote[s]
  BY <1>1 DEF WriteAndLog, Put
<1> QED
  BY <1>2, <1>3, <1>4 DEF WorkPassed, WorkIsBacked, WriteAndLog, Put

LEMMA WorkPasses ==
    ASSUME TypeInv, WebhooksReportPayments, WorkIsBacked, [Next]_vars
    PROVE  WorkPassed
<1>1. CASE Quiet
  BY <1>1 DEF Quiet, dbVars, WorkPassed, WorkIsBacked
<1>2. ASSUME NEW t \in Tx, Effect(t) PROVE WorkPassed
  <2>1. CASE Begins(t) \/ Locks(t)
    BY <2>1 DEF Begins, TakeSnapshot, Locks, SelectForUpdate, WorkPassed, WorkIsBacked
  <2>2. CASE MovesMoney(t)
    <3>1. Backed(OrderOf(t))
      BY <2>2, ServedIsBacked DEF MovesMoney, TxSteps
    <3> QED
      BY <2>2, <3>1, MoveIsWrite, EntryPassed
  <2>3. CASE WriteWallet(t)
    <3> DEFINE before == seen[t].amount
               after == BalanceAfter(req[t], before)
               e == Entry(EntryType(req[t]), req[t].amount, before, after, t)
    <3>1. req[t].user \in User /\ e \in LedgerRow
      <4>1. req[t].user \in User /\ req[t].amount \in Nat
        BY <2>3, RequestFacts
           DEF WriteWallet, TypeInv, TypeOK, StepsMatchRequests, StepMatches
      <4>2. before \in Int
        BY DEF TypeInv, TypeOK, RequestsOK, OrderRow
      <4> QED
        BY <4>1, <4>2 DEF BalanceAfter, Entry, EntryType, LedgerRow
    <3>2. e.type # "EARNING"
      BY DEF Entry, EntryType
    <3>3. WriteAndLog(t, req[t].user, after, e)
      BY <2>3 DEF WriteWallet
    <3> HIDE DEF before, after, e
    <3> QED
      BY <3>1, <3>2, <3>3, EntryPassed
  <2>4. CASE DecrementStock(t)
    <3>1. ProductOf(t) \notin Tx
      BY <2>4, SaleFacts, OrderAssumption DEF DecrementStock, TxSteps
    <3>2. /\ wrote' = [wrote EXCEPT ![t] = @ \cup {ProductOf(t)}]
          /\ UNCHANGED <<db, ledger, inserted>>
      BY <2>4 DEF DecrementStock, Write, Put
    <3> QED
      BY <3>1, <3>2 DEF WorkPassed, WorkIsBacked, TypeInv, TypeOK, TablesOK, EngineTypeOK
  <2>5. CASE SaveOrder(t)
    <3>1. Backed(OrderOf(t))
      BY <2>5, ServedIsBacked DEF SaveOrder, TxSteps
    <3>2. /\ wrote' = [wrote EXCEPT ![t] = @ \cup {OrderOf(t)}]
          /\ UNCHANGED <<db, ledger, inserted>>
      BY <2>5 DEF SaveOrder, Write, Put
    <3> QED
      BY <3>1, <3>2 DEF WorkPassed, WorkIsBacked, TypeInv, TypeOK, TablesOK, EngineTypeOK
  <2>6. CASE Ends(t)
    <3>1. /\ User \subseteq Row /\ Tx \subseteq Row /\ wrote \in [Tx -> SUBSET Row]
          /\ ledger \in [Row -> Seq(LedgerRow)]
          /\ inserted \in [Tx -> [Row -> Seq(LedgerRow)]]
      BY OrderAssumption DEF TypeInv, TypeOK, TablesOK, EngineTypeOK
    <3>2. \A o \in Tx : db'[o] = db[o] \/ o \in wrote[t]
      BY <2>6, <3>1 DEF Ends, Rollback, Commit
    <3>3. \A s, o \in Tx : o \in wrote'[s] => o \in wrote[s]
      BY <2>6, <3>1 DEF Ends, Rollback, Commit, Release
    <3>4. \A u \in User : ledger'[u] = ledger[u] \/ ledger'[u] = ledger[u] \o inserted[t][u]
      BY <2>6, <3>1 DEF Ends, Rollback, Commit
    <3>5. \A u \in User : EarningsBacked(ledger'[u])
      BY <3>1, <3>4, EarningsJoined DEF WorkIsBacked
    <3>6. \A s \in Tx, u \in User : inserted'[s][u] = <<>> \/ inserted'[s][u] = inserted[s][u]
      <4>1. inserted' = [inserted EXCEPT ![t] = Nothing]
        BY <2>6 DEF Ends, Rollback, Commit, Release
      <4> QED
        BY <3>1, <4>1 DEF Nothing
    <3>7. EarningsBacked(<<>>)
      BY DEF EarningsBacked
    <3> QED
      BY <3>2, <3>3, <3>5, <3>6, <3>7 DEF WorkPassed, WorkIsBacked
  <2>7. CASE Publishes(t)
    <3>1. \A o \in Tx : db'[o] = db[o] \/ db'[o].status = "PENDING"
      BY <2>7, OrderAssumption
         DEF Publishes, AutoCommit, TypeInv, TypeOK, TablesOK, EngineTypeOK
    <3>2. UNCHANGED <<ledger, wrote, inserted>>
      BY <2>7 DEF Publishes, AutoCommit
    <3> QED
      BY <3>1, <3>2 DEF WorkPassed, WorkIsBacked
  <2> QED
    BY <1>2, <2>1, <2>2, <2>3, <2>4, <2>5, <2>6, <2>7 DEF Effect
<1> QED
  BY <1>1, <1>2, Effects

LEMMA PaidStep ==
    ASSUME TypeInv, PaidInv, [Next]_vars
    PROVE  PaidInv'
<1>1. SessionsHaveOrders' /\ WebhooksReportPayments'
  BY SessionStep DEF PaidInv
<1>2. \A o \in Tx : Backed(o) => Backed(o)'
  BY SessionStep DEF PaidInv
<1>3. WorkPassed
  BY WorkPasses DEF PaidInv
<1>4. WorkIsBacked'
  <2>1. /\ \A u \in User : ledger'[u] \in Seq(LedgerRow)
        /\ \A t \in Tx, u \in User : inserted'[t][u] \in Seq(LedgerRow)
    <3>1. TypeInv'
      BY TypeStep
    <3> QED
      BY <3>1, OrderAssumption DEF TypeInv, TypeOK, TablesOK
  <2>2. ASSUME NEW rows \in Seq(LedgerRow), EarningsBacked(rows),
               NEW i \in 1 .. Len(rows), rows[i].type = "EARNING"
        PROVE  Backed(rows[i].ref)'
    <3>1. rows[i] \in LedgerRow
      BY <2>2
    <3>2. rows[i].ref \in Tx
      BY <3>1 DEF LedgerRow
    <3>3. Backed(rows[i].ref)
      BY <2>2 DEF EarningsBacked
    <3> QED
      BY <1>2, <3>2, <3>3 DEF Backed
  <2> QED
    BY <1>2, <1>3, <2>1, <2>2 DEF WorkPassed, WorkIsBacked, EarningsBacked, Backed
<1> QED
  BY <1>1, <1>4 DEF PaidInv

LEMMA PaidHolds == Spec => [](TypeInv /\ PaidInv)
<1>1. Init => TypeInv /\ PaidInv
  BY TypeInit, PaidInit
<1>2. TypeInv /\ PaidInv /\ [Next]_vars => (TypeInv /\ PaidInv)'
  BY TypeStep, PaidStep
<1> QED
  BY <1>1, <1>2, PTL DEF Spec

\* Whatever interleaves, is lost or is delivered again: a gateway order is
\* completed, and an EARNING written for it, only after Stripe took the money.
THEOREM OnlyPaidIsCompleted == Spec => []CompletedWasPaid
<1>1. TypeInv /\ PaidInv => CompletedWasPaid
  <2> SUFFICES ASSUME TypeInv, PaidInv, NEW o \in Tx, req[o].op = "gatewayOrder",
                      \/ db[o].status = "COMPLETED"
                      \/ \E u \in User : Entries(u, "EARNING", o) # {}
               PROVE  Backed(o)
    BY DEF CompletedWasPaid, Backed
  <2> QED
    BY DEF PaidInv, WorkIsBacked, EarningsBacked, Entries, Marks
<1> QED
  BY <1>1, PaidHolds, PTL

\* Nobody can pay a session whose order is not in the database: the insert
\* comes before the URL is answered, and no order ever leaves.
THEOREM PaymentFindsOrder == Spec => []PaidSessionHasOrder
<1>1. TypeInv /\ PaidInv => PaidSessionHasOrder
  <2> SUFFICES ASSUME TypeInv, PaidInv, NEW o \in Tx, session[o] = "paid"
               PROVE  db[o].status \in {"PENDING", "COMPLETED"}
    BY DEF PaidSessionHasOrder
  <2>1. o \in Row /\ Contents(o) = OrderRow \cup {NoOrder}
    BY OrderAssumption DEF Contents
  <2>2. db[o] \in OrderRow
    BY <2>1 DEF PaidInv, SessionsHaveOrders, TypeInv, TypeOK, TablesOK
  <2> QED
    BY <2>2 DEF OrderRow
<1> QED
  BY <1>1, PaidHolds, PTL
=============================================================================
