--------------------------- MODULE MCPaymentFlow ---------------------------
(***************************************************************************)
(* Instances of the backend for TLC.  The cfg files choose one scenario    *)
(* each: who may ask for what (Arrivals) and what the tables hold at first. *)
(***************************************************************************)
EXTENDS PaymentFlow, TLC

CONSTANTS t1, t2, t3, t4,    \* requests
          ann, bob, mia,     \* users; mia and ann sell
          p1, p2             \* products

MCRow == User \cup Product \cup Tx

\* Two units of money for everyone.
Opening(stock, cost) ==
    [r \in MCRow |->
        IF r \in User THEN 2
        ELSE IF r \in Product THEN [stock |-> stock, price |-> cost, active |-> TRUE]
        ELSE NoOrder]

OneUnit  == Opening(1, 1)
TwoUnits == Opening(2, 2)

MCOwner == [x \in Product |-> IF x = p1 THEN mia ELSE ann]

-----------------------------------------------------------------------------
(* Requests.                                                               *)

Put0(u, n)      == [op |-> "deposit", user |-> u, amount |-> n]
Take(u, n)      == [op |-> "withdraw", user |-> u, amount |-> n]
Buy(u, x)       == [op |-> "walletOrder", user |-> u, product |-> x]
BuyByCard(u, x) == [op |-> "gatewayOrder", user |-> u, product |-> x]
Event(o)        == [op |-> "webhook", order |-> o]
Edit(u, x, set) == [op |-> "updateProduct", user |-> u, product |-> x, set |-> set]
Delist(u, x)    == [op |-> "removeProduct", user |-> u, product |-> x]

-----------------------------------------------------------------------------
(* Scenarios.                                                              *)

\* The last unit: wallet buyers and the merchant's edits while money moves.
RaceArrivals ==
    [t \in Tx |->
        CASE t = t1 -> {Buy(ann, p1), Buy(mia, p1)}
          [] t = t2 -> {Buy(ann, p1), Buy(bob, p1)}
          [] t = t3 -> {Buy(bob, p1), Edit(mia, p1, [price |-> 2]), Delist(mia, p1),
                        Edit(ann, p1, [price |-> 2]), Take(ann, 1), Put0(ann, 5)}
          [] t = t4 -> {Put0(ann, 1), Put0(mia, 1), Take(ann, 2), Take(mia, 1)}]

\* Two card customers, or a card customer and a wallet buyer, or two merchants
\* who buy from each other and so deadlock; each payment has one delivery that
\* Stripe repeats until it is acknowledged.
CardArrivals ==
    [t \in Tx |->
        CASE t = t1 -> {BuyByCard(ann, p1), Buy(mia, p1), Buy(ann, p1), Buy(mia, p2)}
          [] t = t2 -> {BuyByCard(bob, p1), Buy(ann, p1), Buy(bob, p1), Delist(mia, p1),
                        Edit(mia, p1, [price |-> 1, stock |-> 2]),
                        Edit(mia, p1, [stock |-> 0])}
          [] t = t3 -> {Event(t1)}
          [] t = t4 -> {Event(t2)}]

\* One payment, delivered twice.
TwiceArrivals ==
    [t \in Tx |->
        CASE t = t1 -> {BuyByCard(ann, p1)}
          [] t \in {t3, t4} -> {Event(t1)}
          [] OTHER -> {}]

\* The unit that was there at the checkout is sold before the payment.
SoldOutArrivals ==
    [t \in Tx |->
        CASE t = t1 -> {BuyByCard(ann, p1)}
          [] t = t2 -> {Buy(bob, p1)}
          [] t = t3 -> {Event(t1)}
          [] OTHER -> {}]
=============================================================================
