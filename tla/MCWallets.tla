----------------------------- MODULE MCWallets -----------------------------
(***************************************************************************)
(* The wallets service by itself for TLC: two requests over the wallet of  *)
(* ann and the locked wallet of bob, each a deposit or a withdrawal of any *)
(* amount that its limits tell apart.                                      *)
(***************************************************************************)
EXTENDS Wallets, TLC

CONSTANTS t1, t2,      \* requests
          ann, bob     \* users

Deposits(u, amounts)    == [op : {"deposit"}, user : {u}, amount : amounts]
Withdrawals(u, amounts) == [op : {"withdraw"}, user : {u}, amount : amounts]

\* ann opens with 3; the limits are MinWithdrawal = 2 and MaxDeposit = 3.
MCInitialDb == [u \in Row |-> 3]

MCArrivals ==
    [t \in Tx |->
        Deposits(ann, {1, 3, 4}) \cup Withdrawals(ann, 1 .. 3)
        \cup Deposits(bob, {1}) \cup Withdrawals(bob, {2})]
=============================================================================
