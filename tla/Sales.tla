------------------------------- MODULE Sales -------------------------------
(***************************************************************************)
(* What the backend promises to buyers and merchants, with no database: a  *)
(* sale is one indivisible step.  Buying from the wallet moves the price   *)
(* from the buyer to the merchant and a unit out of the stock, at once; an *)
(* order paid by card is quoted a price and waits as pending at that price,*)
(* and its completion credits the merchant and takes the unit, at once and *)
(* only one time.                                                          *)
(***************************************************************************)
EXTENDS Integers

CONSTANTS
    Id,             \* orders
    Buyer,          \* users, who buy and sell
    Item,           \* products
    Seller,         \* Seller[p]: the user who sells p
    Blocked,        \* users who may not spend
    OpeningBalance, OpeningRow, None

VARIABLES
    balance,        \* balance[u]: what u owns
    shelf,          \* shelf[p]: stock, price and activity of p
    quote,          \* quote[o]: None, or what the customer of o is about to order
    order           \* order[o]: None, or the row of order o

salesVars == <<balance, shelf, quote, order>>

SalesInit ==
    /\ balance = OpeningBalance
    /\ shelf = OpeningRow
    /\ quote = [o \in Id |-> None]
    /\ order = [o \in Id |-> None]

OnSale(p) == shelf[p].active /\ shelf[p].stock > 0

TakeUnit(p) == shelf' = [shelf EXCEPT ![p].stock = @ - 1]

\* Buying from oneself moves nothing.
Purchase(o, u, p) ==
    /\ order[o] = None
    /\ OnSale(p)
    /\ u \notin Blocked
    /\ balance[u] >= shelf[p].price
    /\ balance' =
          LET paid == [balance EXCEPT ![u] = @ - shelf[p].price]
          IN  [paid EXCEPT ![Seller[p]] = @ + shelf[p].price]
    /\ TakeUnit(p)
    /\ order' = [order EXCEPT ![o] =
                    [status |-> "COMPLETED", user |-> u, product |-> p,
                     amount |-> shelf[p].price]]
    /\ UNCHANGED quote

\* A customer who pays by card is shown what p costs now.
Quote(o, u, p) ==
    /\ order[o] = None /\ quote[o] = None
    /\ OnSale(p)
    /\ quote' = [quote EXCEPT ![o] =
                    [user |-> u, product |-> p, amount |-> shelf[p].price]]
    /\ UNCHANGED <<balance, shelf, order>>

\* The order is stored at the quoted price, whatever p costs by now.
Place(o) ==
    /\ order[o] = None /\ quote[o] # None
    /\ order' = [order EXCEPT ![o] =
                    [status |-> "PENDING", user |-> quote[o].user,
                     product |-> quote[o].product, amount |-> quote[o].amount]]
    /\ quote' = [quote EXCEPT ![o] = None]
    /\ UNCHANGED <<balance, shelf>>

\* The quote comes to nothing.
Forget(o) ==
    /\ quote[o] # None
    /\ quote' = [quote EXCEPT ![o] = None]
    /\ UNCHANGED <<balance, shelf, order>>

Complete(o) ==
    /\ order[o] # None
    /\ order[o].status = "PENDING"
    /\ LET p == order[o].product
       IN  /\ shelf[p].stock > 0
           /\ balance' = [balance EXCEPT ![Seller[p]] = @ + order[o].amount]
           /\ TakeUnit(p)
    /\ order' = [order EXCEPT ![o].status = "COMPLETED"]
    /\ UNCHANGED quote

\* The merchant edits a product.
Edit(p) ==
    /\ shelf'[p] \in [stock : Nat, price : Nat, active : BOOLEAN]
    /\ shelf' = [shelf EXCEPT ![p] = shelf'[p]]
    /\ UNCHANGED <<balance, quote, order>>

SalesNext ==
    \/ \E o \in Id, u \in Buyer, p \in Item : Purchase(o, u, p) \/ Quote(o, u, p)
    \/ \E o \in Id : Place(o) \/ Forget(o) \/ Complete(o)
    \/ \E p \in Item : Edit(p)

SalesSpec == SalesInit /\ [][SalesNext]_salesVars
=============================================================================
