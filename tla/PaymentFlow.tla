---------------------------- MODULE PaymentFlow ----------------------------
(***************************************************************************)
(* The backend: every handler that moves money or stock, over one database *)
(* and one Stripe account, with the webhook of webhooks.controller.ts that *)
(* ties the two together.                                                  *)
(***************************************************************************)
EXTENDS Orders

Init == DbInit /\ RequestInit /\ StripeInit

-----------------------------------------------------------------------------
(* handleStripeWebhook                                                     *)

\* Mutant of DeliverWebhook: the type of the event is not looked at.
DeliverAnyEvent(t) ==
    /\ \E r \in Arrivals[t] :
          r.op = "webhook" /\ Reportable(r.order) /\ Arrive(t, r, "findOrder")
    /\ UNCHANGED <<dbVars, session>>

\* Stripe delivers an event.  "checkout.session.expired" is only logged.
DeliverWebhook(t) ==
    /\ \E r \in Arrivals[t] :
          /\ r.op = "webhook"
          /\ Reportable(r.order)
          /\ Arrive(t, r, IF session[r.order] = "paid" THEN "findOrder"
                                                       ELSE "done")
    /\ UNCHANGED <<dbVars, session>>

\* Mutant of Redeliver: an error that nobody foresaw is acknowledged.
RedeliverRejected(t) ==
    /\ req[t].op = "webhook"
    /\ pc[t] = "rejected"
    /\ Goto(t, "findOrder")
    /\ UNCHANGED <<dbVars, session>>

\* Any error was answered 400, and a crash not at all: Stripe tries again.
Redeliver(t) ==
    /\ req[t].op = "webhook"
    /\ pc[t] \in {"rejected", "failed"}
    /\ Goto(t, "findOrder")
    /\ UNCHANGED <<dbVars, session>>

-----------------------------------------------------------------------------
(* The system.                                                             *)

Call(t) ==
    \/ (Deposit(t) \/ Withdraw(t) \/ UpdateProduct(t)) /\ UNCHANGED session
    \/ CreateWalletOrder(t) \/ CreateGatewayOrder(t)

\* A step that the server owes a request that has arrived.
Handle(t) ==
    \/ (WalletStep(t) \/ SaveProduct(t)) /\ UNCHANGED session
    \/ OrderStep(t)

Customer(t) == Pay(t) \/ Expire(t)

Webhook(t) == DeliverWebhook(t) \/ Redeliver(t)

Loss(t) ==
    \/ (Abort(t) \/ LoseAnswer(t)) /\ UNCHANGED session
    \/ LoseUrl(t)

\* Every request that arrived has been answered.
Idle == (\A t \in Tx : ~Running(t)) /\ UNCHANGED vars

Next ==
    \/ \E t \in Tx : Call(t) \/ Handle(t) \/ Customer(t) \/ Webhook(t) \/ Loss(t)
    \/ Idle

Spec == Init /\ [][Next]_vars

\* Node runs each handler on, PostgreSQL grants a lock that is free and picks
\* a deadlock victim, and Stripe keeps delivering what was not acknowledged.
\* Nobody has to call, pay or fail.
Fairness == \A t \in Tx : WF_vars(Handle(t)) /\ WF_vars(Webhook(t))

FairSpec == Spec /\ Fairness

-----------------------------------------------------------------------------
(* Types.                                                                  *)

Step == {"readWallet", "writeWallet", "lockProduct", "debit", "credit",
         "decrement", "saveOrder", "commit", "createSession", "insertOrder",
         "findOrder", "beginCompletion", "saveProduct"}

LedgerRow == [type : {"DEPOSIT", "WITHDRAWAL", "PAYMENT", "EARNING"},
              amount : Nat, before : Int, after : Int, ref : Tx]

Contents(r) ==
    IF r \in User THEN Int
    ELSE IF r \in Product
         THEN [stock : Int, price : Nat, active : BOOLEAN]
         ELSE OrderRow \cup {NoOrder}

TablesOK ==
    /\ EngineTypeOK
    /\ \A r \in Row : db[r] \in Contents(r)
    /\ \A t \in Tx : \A r \in Row : view[t][r] \in Contents(r)
    /\ ledger \in [Row -> Seq(LedgerRow)]
    /\ inserted \in [Tx -> [Row -> Seq(LedgerRow)]]

RequestsOK ==
    /\ pc \in [Tx -> Step \cup Answers \cup {"idle"}]
    /\ DOMAIN req = Tx /\ \A t \in Tx : req[t] \in Arrivals[t] \cup {NoRequest}
    /\ seen \in [Tx -> [amount : Int] \cup OrderRow]
    /\ failures \in 0 .. MaxFailures
    /\ session \in [Tx -> SessionState]

TypeOK == TablesOK /\ RequestsOK

-----------------------------------------------------------------------------
(* Safety.                                                                 *)

\* The entries of one type for one order, among some rows and in u's statement.
Marks(rows, type, o) ==
    {i \in 1 .. Len(rows) : rows[i].type = type /\ rows[i].ref = o}

Entries(u, type, o) == Marks(ledger[u], type, o)

\* "Prevents overselling when multiple users buy simultaneously"
\* (README.md:35): no interleaving of wallet orders, completions and edits of
\* the merchant brings the stock below zero.
NoOversell == \A p \in Product : db[p].stock >= 0

\* As long as merchants leave the stock alone, each unit that left it was
\* sold: there is one EARNING for it.  Decrement and credit commit together
\* (orders.service.ts:86-103 and :299-316) and no decrement is lost.
StockMatchesSales ==
    \A p \in Product :
        InitialDb[p].stock - db[p].stock =
        Cardinality({i \in 1 .. Len(ledger[Owner[p]]) :
                        LET e == ledger[Owner[p]][i]
                        IN  e.type = "EARNING" /\ db[e.ref].product = p})

\* A wallet order moves its amount from the buyer to the merchant exactly
\* once, and nothing is charged for an order that does not exist: "Atomic
\* transactions ensure stock and balance are always consistent"
\* (README.md:34), through aborts, deadlocks and lost answers.
WalletOrderSettled ==
    \A o \in Tx : req[o].op = "walletOrder" =>
        LET placed == db[o].status = "COMPLETED"
            paid   == Entries(req[o].user, "PAYMENT", o)
            earned == Entries(Owner[req[o].product], "EARNING", o)
        IN  IF placed
            THEN \E i \in paid, j \in earned :
                    /\ paid = {i} /\ earned = {j}
                    /\ ledger[req[o].user][i].amount = db[o].amount
                    /\ ledger[Owner[req[o].product]][j].amount = db[o].amount
            ELSE paid = {} /\ earned = {}

\* The statement rows of orders continue the chain: a PAYMENT or an EARNING
\* starts from the balance that the row before it left, even while deposits
\* and withdrawals run at Read Committed on the same wallet: the Serializable
\* transaction either saw the latest balance or fails.
OrderEntriesChained ==
    \A u \in User : \A i \in 1 .. Len(ledger[u]) :
        ledger[u][i].type \in {"PAYMENT", "EARNING"} =>
            ledger[u][i].before = BalanceBeforeEntry(u, i)

\* A merchant is credited for a gateway order once, although Stripe delivers
\* the same payment again (orders.service.ts:272 looks at the status).
CreditedOnce ==
    \A o \in Tx : \A u \in User : Cardinality(Entries(u, "EARNING", o)) <= 1

\* A gateway order is completed, and its merchant credited, only if Stripe
\* took the money (webhooks.controller.ts:65-77).
CompletedWasPaid ==
    \A o \in Tx :
        /\ req[o].op = "gatewayOrder"
        /\ \/ db[o].status = "COMPLETED"
           \/ \E u \in User : Entries(u, "EARNING", o) # {}
        => session[o] = "paid"

\* The order of a session that can be paid is in the database before anyone
\* can pay, so that its webhook finds it (orders.service.ts:205-240 answers
\* the URL last).
PaidSessionHasOrder ==
    \A o \in Tx : session[o] = "paid" => db[o].status \in {"PENDING", "COMPLETED"}

-----------------------------------------------------------------------------
(* What the orders promise: the abstract specification Sales, read off the  *)
(* committed rows, and the quotes off the handlers that hold one.          *)

\* createGatewayOrder has looked at the product and has not stored the order.
HoldsQuote(t) == pc[t] \in {"createSession", "insertOrder"}

QuoteOf(t) ==
    IF HoldsQuote(t)
    THEN [user |-> req[t].user, product |-> req[t].product, amount |-> seen[t].amount]
    ELSE NoOrder

Promise == INSTANCE Sales WITH
    Id <- Tx, Buyer <- User, Item <- Product, Seller <- Owner,
    Blocked <- LockedWallets, None <- NoOrder,
    OpeningBalance <- [u \in User |-> InitialDb[u]],
    OpeningRow <- [x \in Product |-> InitialDb[x]],
    balance <- [u \in User |-> db[u]],
    shelf <- [x \in Product |-> db[x]],
    quote <- [o \in Tx |-> QuoteOf(o)],
    order <- [o \in Tx |-> db[o]]

\* Each transaction of the orders service takes effect at its commit as one
\* indivisible sale, or not at all (orders.service.ts:48-142, :278-346), as
\* long as nobody deposits or withdraws and no payment is delivered twice.
SalesAreAtomic == Promise!SalesSpec

-----------------------------------------------------------------------------
(* Liveness, under FairSpec.                                               *)

\* Every request is answered: waiting for row locks ends, in a deadlock too.
Answered == \A t \in Tx : Running(t) ~> ~Running(t)

\* "Completes pending orders when payment succeeds" (README.md:509).
PaidIsCompleted ==
    \A o \in Tx : session[o] = "paid" ~> db[o].status = "COMPLETED"

\* What the code achieves, whatever was lost on the way: a paid order is
\* completed, or there is a time when the webhook would find the product sold
\* out (orders.service.ts:294) or no room in the wallet of its merchant, whose
\* balance is a Decimal(12, 2) (wallets.service.ts:325, schema.prisma:44).
PaidSettles ==
    \A o \in Tx : session[o] = "paid" ~>
        \/ db[o].status = "COMPLETED"
        \/ /\ db[o].status = "PENDING"
           /\ \/ db[db[o].product].stock = 0
              \/ ~Fits(db[Owner[db[o].product]] + db[o].amount)

-----------------------------------------------------------------------------
(* The inductive invariant behind the safety properties.                   *)

\* A step belongs to one kind of request; transactions of the orders service
\* hold a snapshot from their first statement on, and only they do; a lock is
\* held only inside a transaction.
TxSteps == {"lockProduct", "debit", "credit", "decrement", "saveOrder"}

StepMatches(t) ==
    /\ pc[t] \in {"readWallet", "writeWallet"} =>
          req[t].op \in {"deposit", "withdraw"}
    /\ pc[t] = "saveProduct" => req[t].op \in {"updateProduct", "removeProduct"}
    /\ pc[t] \in {"createSession", "insertOrder"} =>
          req[t].op = "gatewayOrder" /\ seen[t].amount \in Nat
    /\ pc[t] = "debit" => req[t].op = "walletOrder"
    /\ pc[t] \in {"findOrder", "beginCompletion"} => req[t].op = "webhook"
    /\ pc[t] \in TxSteps => req[t].op \in {"walletOrder", "webhook"} /\ t \in serial
    /\ t \in serial => pc[t] \in TxSteps \cup {"commit"}
    /\ pc[t] \notin TxSteps \cup {"commit"} => locks[t] = {} /\ wrote[t] = {}

StepsMatchRequests == \A t \in Tx : StepMatches(t)

\* A completion holds an order that exists, and still exists in its snapshot;
\* what it or anyone writes over an order is an order.
CompletionsHaveOrders ==
    /\ \A t \in Tx : req[t].op = "webhook" /\ pc[t] \in TxSteps \cup {"beginCompletion"} =>
          /\ seen[t] \in OrderRow
          /\ db[req[t].order] # NoOrder
          /\ t \in serial => view[t][req[t].order] # NoOrder
    /\ \A t, o \in Tx : o \in wrote[t] => view[t][o] # NoOrder

\* The unit that a transaction is about to take was there when it locked the
\* product, and nobody has taken it since.
UnitsAreThere ==
    /\ \A t \in Tx : \A p \in Product : view[t][p].stock >= 0
    /\ \A t \in Tx : pc[t] \in {"debit", "credit", "decrement"} =>
          view[t][ProductOf(t)].stock > 0

\* The wallet_transactions rows that wait for t's commit: they come with the
\* update of the wallet, end at the balance that t is going to commit, and
\* those of an order start from the committed balance.
Pending(t, u) ==
    LET new == inserted[t][u]
    IN  /\ u \in wrote[t] => new # <<>> /\ view[t][u] = new[Len(new)].after
        /\ t \in serial /\ new # <<>> => new[1].before = db[u]
        /\ \A i \in 1 .. Len(new) :
              new[i].type \in {"PAYMENT", "EARNING"} =>
                  t \in serial /\ (i > 1 => new[i].before = new[i - 1].after)

PendingEntries == \A t \in Tx : \A u \in User : Pending(t, u)

\* The transaction of an order has got past one of its statements.
Buys(t) == req[t].op = "walletOrder"

Locked(t)   == t \in serial /\ pc[t] # "lockProduct"
Debited(t)  == Locked(t) /\ Buys(t) /\ pc[t] # "debit"
Credited(t) == Locked(t) /\ pc[t] \notin {"debit", "credit"}
Taken(t)    == Locked(t) /\ pc[t] \in {"saveOrder", "commit"}
Saved(t)    == Locked(t) /\ pc[t] = "commit"

\* What t has made of the balance of u.
BalanceInSale(t, u) ==
    db[u] - (IF Debited(t) /\ u = req[t].user THEN AmountOf(t) ELSE 0)
          + (IF Credited(t) /\ u = MerchantOf(t) THEN AmountOf(t) ELSE 0)

\* The sale in a transaction, measured by what is committed: the rows it reads
\* are the committed ones, and the rows it writes are those plus the sale.
WorkOnTables(t) ==
    /\ wrote[t] = (IF Debited(t) THEN {req[t].user} ELSE {})
                  \cup (IF Credited(t) THEN {MerchantOf(t)} ELSE {})
                  \cup (IF Taken(t) THEN {ProductOf(t)} ELSE {})
                  \cup (IF Saved(t) THEN {OrderOf(t)} ELSE {})
    /\ Locked(t) =>
          /\ ProductOf(t) \in locks[t]
          /\ db[ProductOf(t)].stock > 0
          /\ Buys(t) => db[ProductOf(t)].active
          /\ view[t][ProductOf(t)] =
                IF Taken(t) THEN [db[ProductOf(t)] EXCEPT !.stock = @ - 1]
                            ELSE db[ProductOf(t)]
    /\ Debited(t) =>
          req[t].user \notin LockedWallets /\ db[req[t].user] >= AmountOf(t)
    /\ \A u \in User \cap wrote[t] : view[t][u] = BalanceInSale(t, u)
    /\ Saved(t) =>
          view[t][OrderOf(t)] =
             IF Buys(t) THEN Order("COMPLETED", req[t].user, ProductOf(t), AmountOf(t))
                        ELSE [db[OrderOf(t)] EXCEPT !.status = "COMPLETED"]

\* The order that a completion found is the one in the database, but for its
\* status: another completion may have come in between.
FoundOrder(t) ==
    /\ seen[t] \in OrderRow
    /\ db[req[t].order] \in {seen[t], [seen[t] EXCEPT !.status = "COMPLETED"]}

SalesInProgress ==
    \A t \in Tx :
        /\ t \in serial => req[t].op \in {"walletOrder", "webhook"} /\ WorkOnTables(t)
        /\ t \notin serial => wrote[t] \subseteq User
        /\ pc[t] = "commit" /\ t \notin serial => req[t].op \in {"deposit", "withdraw"}
        /\ req[t].op = "webhook" /\ (t \in serial \/ pc[t] = "beginCompletion") =>
              FoundOrder(t)

Once(rows, type, o, amount) ==
    \E i \in Marks(rows, type, o) : Marks(rows, type, o) = {i} /\ rows[i].amount = amount

Never(rows, type, o) == Marks(rows, type, o) = {}

\* t is about to enter one payment and one earning, both of its own order.
EntriesInProgress ==
    \A t, o \in Tx : \A u \in User :
        /\ IF Debited(t) /\ o = OrderOf(t) /\ u = req[t].user
           THEN Once(inserted[t][u], "PAYMENT", o, AmountOf(t))
           ELSE Never(inserted[t][u], "PAYMENT", o)
        /\ IF Credited(t) /\ o = OrderOf(t) /\ u = MerchantOf(t)
           THEN Once(inserted[t][u], "EARNING", o, AmountOf(t))
           ELSE Never(inserted[t][u], "EARNING", o)

\* Nothing was placed, paid or earned under the number o.
Untouched(o) ==
    /\ db[o] = NoOrder
    /\ \A u \in User : Never(ledger[u], "PAYMENT", o) /\ Never(ledger[u], "EARNING", o)

\* What is placed, paid and earned under the number of a wallet order.
Settled(o) ==
    /\ db[o].status = "COMPLETED"
    /\ Once(ledger[req[o].user], "PAYMENT", o, db[o].amount)
    /\ Once(ledger[Owner[req[o].product]], "EARNING", o, db[o].amount)

OrdersSettled ==
    \A o \in Tx :
        /\ db[o] # NoOrder => Buys(o) \/ req[o].op = "gatewayOrder"
        /\ db[o] # NoOrder => pc[o] \in Answers
        /\ db[o] # NoOrder /\ Buys(o) => Settled(o)
        /\ db[o] = NoOrder => Untouched(o)

IInv ==
    /\ TypeOK
    /\ EngineInv
    /\ StepsMatchRequests
    /\ CompletionsHaveOrders
    /\ UnitsAreThere
    /\ NoOversell
    /\ PendingEntries
    /\ LedgerTracksBalance
    /\ OrderEntriesChained
    /\ SalesInProgress
    /\ EntriesInProgress
    /\ OrdersSettled
=============================================================================
