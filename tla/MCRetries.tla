----------------------------- MODULE MCRetries -----------------------------
(***************************************************************************)
(* Instances for TLC: two purchases, from the wallet or by card, each of   *)
(* which may be repeated once.  Two merchants who buy from each other lock *)
(* the wallets in both orders, and a deposit or a withdrawal of one of     *)
(* them disturbs, so that first tries fail without any loss.               *)
(***************************************************************************)
EXTENDS Retries, TLC

CONSTANTS t1, t2, t3, t4, t5, \* requests
          ann, bob, mia,     \* users; mia and bob sell
          p1, p2             \* products

\* Money and units enough for every try.
MCInitialDb ==
    [r \in Row |->
        IF r \in User THEN 2
        ELSE IF r \in Product THEN [stock |-> 3, price |-> 1, active |-> TRUE]
        ELSE NoOrder]

MCOwner == [x \in Product |-> IF x = p1 THEN mia ELSE bob]

MCFirstTry == [t \in {t3, t4} |-> IF t = t3 THEN t1 ELSE t2]

Buy(u, x)       == [op |-> "walletOrder", user |-> u, product |-> x]
BuyByCard(u, x) == [op |-> "gatewayOrder", user |-> u, product |-> x]
Put0(u, n)      == [op |-> "deposit", user |-> u, amount |-> n]
Take(u, n)      == [op |-> "withdraw", user |-> u, amount |-> n]

MCArrivals ==
    [t \in Tx |->
        CASE t \in {t1, t3} -> {Buy(bob, p1), BuyByCard(ann, p1)}
          [] t \in {t2, t4} -> {Buy(mia, p2), Buy(ann, p1), BuyByCard(ann, p2)}
          [] t = t5 -> {Put0(mia, 1), Take(bob, 1)}]

\* One purchase from the wallet.
OneArrivals ==
    [t \in Tx |-> IF t \in {t1, t3} THEN {Buy(ann, p1)} ELSE {}]
=============================================================================
