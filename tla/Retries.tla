------------------------------ MODULE Retries ------------------------------
(***************************************************************************)
(* Clients that repeat an order whose answer was an error or never came.   *)
(* The repetition is a request of its own, with the same body: the key     *)
(* that an order is stored under is drawn inside the handler               *)
(* (orders.service.ts:46, :155), and nothing ties it to the first try.     *)
(***************************************************************************)
EXTENDS PaymentFlow

CONSTANT FirstTry  \* FirstTry[t]: the request that t repeats, if t repeats one

Repeats == DOMAIN FirstTry

ASSUME RetryAssumption ==
    /\ Repeats \subseteq Tx
    /\ \A t \in Repeats : FirstTry[t] \in Tx \ Repeats

VARIABLE
    unanswered  \* history: requests that took effect and whose answer was lost

retryVars == <<vars, unanswered>>

RetryInit == Init /\ unanswered = {}

\* The client has seen the first try fail, whatever became of it in the
\* database, and sends the same body again.
Repeat(t) ==
    /\ pc[FirstTry[t]] = "failed"
    /\ CreateWalletOrder(t) \/ CreateGatewayOrder(t)
    /\ req'[t] = req[FirstTry[t]]

\* The same Loss as in PaymentFlow, with a note of what is lost after the
\* database has taken it.
LoseEffect(t) ==
    /\ \/ LoseAnswer(t) /\ UNCHANGED session
       \/ LoseUrl(t)
    /\ unanswered' = unanswered \cup {t}

LoseRequest(t) == Abort(t) /\ UNCHANGED <<session, unanswered>>

RetryNext ==
    \/ /\ \/ \E t \in Tx \ Repeats : Call(t)
          \/ \E t \in Repeats : Repeat(t)
          \/ \E t \in Tx : Handle(t) \/ Customer(t)
          \/ Idle
       /\ UNCHANGED unanswered
    \/ \E t \in Tx : LoseEffect(t) \/ LoseRequest(t)

RetrySpec == RetryInit /\ [][RetryNext]_retryVars

\* As in FairSpec; nobody has to repeat anything.
RetryFairSpec == RetrySpec /\ Fairness

-----------------------------------------------------------------------------
(* Properties.                                                             *)

\* The try o left something in the database: an order, or money that moved.
LeftSomething(o) ==
    \/ db[o] # NoOrder
    \/ \E u \in User : Entries(u, "PAYMENT", o) # {} \/ Entries(u, "EARNING", o) # {}

\* The first tries that took effect, and did so again when they were repeated.
BoughtTwice ==
    {FirstTry[t] : t \in {u \in Repeats : LeftSomething(FirstTry[u]) /\ LeftSomething(u)}}

\* Who repeats an order has it twice only where the answer of the first try was
\* lost after it had taken effect: a try that failed for any other reason, a
\* conflict, a deadlock, a timeout or a crash before COMMIT, left nothing behind
\* (orders.service.ts:48-142, :205).
TwiceOnlyIfLost == BoughtTwice \subseteq unanswered

\* "Idempotency Keys: Prevent duplicate order submissions"
\* (ARCHITECTURE.md:106), "Idempotency key to prevent duplicate orders"
\* (schema.prisma:165): a purchase that is submitted again is made once.
OrderedOnce ==
    \A t \in Repeats : db[FirstTry[t]] = NoOrder \/ db[t] = NoOrder

-----------------------------------------------------------------------------
(* The inductive invariant behind TwiceOnlyIfLost, along with IInv.        *)

\* The orders that were made though their clients were told of a failure.
LostOrders == {o \in Tx : pc[o] = "failed" /\ db[o] # NoOrder}

\* No answer but a lost one tells of a failure where there is an order.
LossesKnown == LostOrders \subseteq unanswered

\* Nobody repeats a try before it has failed, and it stays failed.
RepeatsFollowFailures ==
    /\ \A t \in Tx : req[t].op # "webhook"
    /\ \A t \in Repeats : pc[t] # "idle" => pc[FirstTry[t]] = "failed"

\* All that a repeated order depends on besides IInv.
RetryInv == LossesKnown /\ RepeatsFollowFailures
=============================================================================
