------------------------------- MODULE Orders -------------------------------
(***************************************************************************)
(* orders.service.ts: an order paid from the wallet, an order paid through *)
(* Stripe, and its completion by the webhook.  The row of an order is keyed *)
(* by the request that creates it, and so is its checkout session; db[p]   *)
(* is the row of product p and db[u] the balance of user u.                *)
(*                                                                         *)
(*   wallet order    lockProduct -> debit -> credit -> decrement ->        *)
(*                   saveOrder -> commit        one Serializable tx        *)
(*   gateway order   createSession -> insertOrder          no transaction  *)
(*   completion      findOrder, then lockProduct -> credit -> decrement -> *)
(*                   saveOrder -> commit        one Serializable tx        *)
(***************************************************************************)
EXTENDS Wallets, Products, Stripe

ASSUME OrderAssumption ==
    /\ Row = User \cup Product \cup Tx
    /\ User \cap Product = {} /\ User \cap Tx = {} /\ Product \cap Tx = {}
    /\ Owner \in [Product -> User]
    /\ \A t \in Tx : \A r \in Arrivals[t] :
          /\ r.op \in {"walletOrder", "gatewayOrder"} =>
                r.user \in User /\ r.product \in Product
          /\ r.op = "webhook" => r.order \in Tx

OrderRow == [status : {"PENDING", "COMPLETED"}, user : User,
             product : Product, amount : Nat]

NoOrder == [status |-> "none"]

ASSUME NoOrderAtFirst == \A t \in Tx : InitialDb[t] = NoOrder

Order(status, user, product, amount) ==
    [status |-> status, user |-> user, product |-> product, amount |-> amount]

vars == <<dbVars, requestVars, session>>

-----------------------------------------------------------------------------
(* What the three transactions share.                                      *)

\* The order that t places or completes, its product and its amount.
OrderOf(t) == IF req[t].op = "webhook" THEN req[t].order ELSE t

ProductOf(t) ==
    IF req[t].op = "webhook" THEN seen[t].product ELSE req[t].product

\* Mutant of AmountOf: a completion credits the price of the day.
PriceNow(t) == Read(t, ProductOf(t)).price

AmountOf(t) ==
    IF req[t].op = "webhook" THEN seen[t].amount
                             ELSE Read(t, req[t].product).price

MerchantOf(t) == Owner[ProductOf(t)]

\* Mutant of Sellable: one too far.
SellableAtZero(t, row) == row.stock >= 0 /\ (req[t].op # "webhook" => row.active)

\* completeGatewayOrder checks the stock alone: the customer has paid.
Sellable(t, row) ==
    /\ row.stock > 0
    /\ req[t].op # "webhook" => row.active

\* SELECT ... FOR UPDATE: t waits for the product, and sees its snapshot.
LockProduct(t) ==
    /\ pc[t] = "lockProduct"
    /\ IF Sellable(t, Read(t, ProductOf(t)))
       THEN /\ SelectForUpdate(t, ProductOf(t))
            /\ Goto(t, IF req[t].op = "webhook" THEN "credit" ELSE "debit")
       ELSE Obtainable(t, ProductOf(t)) /\ Reject(t)
    /\ UNCHANGED session

Debit(t) ==
    /\ pc[t] = "debit"
    /\ IF CannotPay(t, req[t].user, AmountOf(t))
       THEN Reject(t)
       ELSE /\ deductFromWallet(t, req[t].user, AmountOf(t), OrderOf(t))
            /\ Goto(t, "credit")
    /\ UNCHANGED session

Credit(t) ==
    /\ pc[t] = "credit"
    /\ creditToWallet(t, MerchantOf(t), AmountOf(t), OrderOf(t))
    /\ Goto(t, "decrement")
    /\ UNCHANGED session

\* The wallet of the merchant cannot hold what the sale would make of it.
NoRoom(t) == ~Fits(Read(t, MerchantOf(t)) + AmountOf(t))

\* Mutant of CreditOverflow: what came before the credit stays.
OverflowKeepsDebit(t) ==
    pc[t] = "credit" /\ NoRoom(t) /\ FailKeepingWrites(t) /\ UNCHANGED session

\* 22003: the debit of the buyer goes with the transaction.
CreditOverflow(t) == pc[t] = "credit" /\ NoRoom(t) /\ Fail(t) /\ UNCHANGED session

\* Mutant of DecrementStock: the UPDATE is forgotten.
DecrementNothing(t) ==
    /\ pc[t] = "decrement"
    /\ Goto(t, "saveOrder")
    /\ UNCHANGED <<dbVars, session>>

\* availableUnits: { decrement: 1 }
DecrementStock(t) ==
    /\ pc[t] = "decrement"
    /\ Write(t, ProductOf(t), [Read(t, ProductOf(t)) EXCEPT !.stock = @ - 1])
    /\ Goto(t, "saveOrder")
    /\ UNCHANGED session

\* Mutant of SaveOrder: every order is updated, as if it were there.
UpdateOrder(t) ==
    /\ pc[t] = "saveOrder"
    /\ Write(t, OrderOf(t), [Read(t, OrderOf(t)) EXCEPT !.status = "COMPLETED"])
    /\ Goto(t, "commit")
    /\ UNCHANGED session

\* INSERT of a completed wallet order, UPDATE of a gateway order by its id:
\* whatever its status is by now.
SaveOrder(t) ==
    /\ pc[t] = "saveOrder"
    /\ Write(t, OrderOf(t),
             IF req[t].op = "webhook"
             THEN [Read(t, OrderOf(t)) EXCEPT !.status = "COMPLETED"]
             ELSE Order("COMPLETED", req[t].user, req[t].product, AmountOf(t)))
    /\ Goto(t, "commit")
    /\ UNCHANGED session

-----------------------------------------------------------------------------
(* How such a transaction ends badly.                                      *)

\* The row that t's next statement must hold.
Wanted(t) ==
    CASE pc[t] \in {"lockProduct", "decrement"} -> {ProductOf(t)}
      [] pc[t] = "debit" /\ ~CannotPay(t, req[t].user, AmountOf(t)) -> {req[t].user}
      [] pc[t] = "credit" /\ ~NoRoom(t) -> {MerchantOf(t)}
      [] pc[t] = "saveOrder" -> {OrderOf(t)}
      [] pc[t] = "writeWallet" /\ Fits(BalanceAfter(req[t], seen[t].amount)) ->
            {req[t].user}
      [] OTHER -> {}

\* Mutant of SerializationFailure: the statement is tried again, for ever, in
\* the transaction that has failed.
RetryStatement(t) == (\E r \in Wanted(t) : Stale(t, r)) /\ UNCHANGED vars

\* 40001, could not serialize access due to concurrent update: nobody retries.
SerializationFailure(t) ==
    /\ \E r \in Wanted(t) : Stale(t, r)
    /\ Fail(t)
    /\ UNCHANGED session

WaitsFor(t, u) == t # u /\ Wanted(t) \cap locks[u] # {}

\* 40P01, deadlock detected: one of those who wait for each other is told.
DeadlockVictim(t) ==
    /\ \E ring \in SUBSET Tx :
          /\ t \in ring
          /\ \A u \in ring : \E v \in ring : WaitsFor(u, v)
          /\ \A u \in ring : \E v \in ring : WaitsFor(v, u)
    /\ Fail(t)
    /\ UNCHANGED session

-----------------------------------------------------------------------------
(* createWalletOrder                                                       *)

\* Mutant of CreateWalletOrder: $transaction without an isolation level.
OrderAtReadCommitted(t) ==
    /\ \E r \in Arrivals[t] : r.op = "walletOrder" /\ Arrive(t, r, "lockProduct")
    /\ UNCHANGED <<dbVars, session>>

CreateWalletOrder(t) ==
    /\ \E r \in Arrivals[t] : r.op = "walletOrder" /\ Arrive(t, r, "lockProduct")
    /\ TakeSnapshot(t)
    /\ UNCHANGED session

-----------------------------------------------------------------------------
(* createGatewayOrder: three statements and a call, no transaction.        *)

\* The product is read and checked; its price is what the session will ask.
CreateGatewayOrder(t) ==
    /\ pc[t] = "idle"
    /\ \E r \in Arrivals[t] :
          /\ r.op = "gatewayOrder"
          /\ req' = [req EXCEPT ![t] = r]
          /\ LET row == db[r.product]
                 ok  == row.active /\ row.stock > 0
             IN  /\ pc' = [pc EXCEPT ![t] = IF ok THEN "createSession" ELSE "rejected"]
                 /\ seen' = [seen EXCEPT ![t] = IF ok THEN Amount(row.price) ELSE Blank]
    /\ UNCHANGED <<dbVars, failures, session>>

\* Mutant of CreateCheckoutSession: the URL is answered first.
AnswerSession(t) ==
    /\ pc[t] = "createSession"
    /\ OpenSession(t)
    /\ Answer(t, "done")
    /\ UNCHANGED dbVars

CreateCheckoutSession(t) ==
    /\ pc[t] = "createSession"
    /\ OpenSession(t)
    /\ Goto(t, "insertOrder")
    /\ UNCHANGED dbVars

\* The foreign key of the new row needs the product to be unlocked.
InsertOrder(t) ==
    /\ pc[t] = "insertOrder"
    /\ Free(t, req[t].product)
    /\ AutoCommit(t, Order("PENDING", req[t].user, req[t].product, seen[t].amount))
    /\ Answer(t, "done")
    /\ UNCHANGED session

\* A gateway order is inserted, and the answer with the URL is lost.
LoseUrl(t) ==
    /\ pc[t] = "insertOrder"
    /\ failures < MaxFailures
    /\ failures' = failures + 1
    /\ Free(t, req[t].product)
    /\ AutoCommit(t, Order("PENDING", req[t].user, req[t].product, seen[t].amount))
    /\ pc' = [pc EXCEPT ![t] = "failed"]
    /\ seen' = [seen EXCEPT ![t] = Blank]
    /\ UNCHANGED <<req, session>>

-----------------------------------------------------------------------------
(* completeGatewayOrder                                                    *)

\* Mutant of FindOrder: the status is not looked at.
FindAnyOrder(t) ==
    /\ pc[t] = "findOrder"
    /\ LET order == db[req[t].order]
       IN  \/ order.status = "none" /\ Answer(t, "rejected")
           \/ order.status # "none" /\ Remember(t, order, "beginCompletion")
    /\ UNCHANGED <<dbVars, session>>

\* findFirst, before and outside the transaction.
FindOrder(t) ==
    /\ pc[t] = "findOrder"
    /\ LET order == db[req[t].order]
       IN  \/ order.status = "none" /\ Answer(t, "rejected")
           \/ order.status = "COMPLETED" /\ Answer(t, "done")
           \/ order.status = "PENDING" /\ Remember(t, order, "beginCompletion")
    /\ UNCHANGED <<dbVars, session>>

BeginCompletion(t) ==
    /\ pc[t] = "beginCompletion"
    /\ TakeSnapshot(t)
    /\ Goto(t, "lockProduct")
    /\ UNCHANGED session

OrderStep(t) ==
    \/ LockProduct(t) \/ Debit(t) \/ Credit(t) \/ DecrementStock(t) \/ SaveOrder(t)
    \/ CreditOverflow(t) \/ SerializationFailure(t) \/ DeadlockVictim(t)
    \/ CreateCheckoutSession(t) \/ InsertOrder(t)
    \/ FindOrder(t) \/ BeginCompletion(t)
=============================================================================
