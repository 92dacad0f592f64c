------------------------------- MODULE Wallets -------------------------------
(***************************************************************************)
(* wallets.service.ts: deposits and withdrawals, and the two operations    *)
(* that the orders service calls inside its own transaction.  A wallet is  *)
(* the row of its user and holds the balance in cents; ledger[u] holds the *)
(* wallet_transactions of u.                                               *)
(*                                                                         *)
(* A balance is written as an absolute value computed from an earlier      *)
(* read.  deposit and withdraw ask for no isolation level and take no lock *)
(* before the UPDATE, so the value they write may be out of date.          *)
(***************************************************************************)
EXTENDS Requests

CONSTANTS
    User,           \* users, each with one wallet
    LockedWallets,  \* users whose wallet an administrator has locked
    MaxDeposit,     \* app.maximumDeposit
    MinWithdrawal,  \* app.minimumWithdrawal
    MaxBalance      \* what the column of the balance can hold: Decimal(12, 2)

ASSUME WalletAssumption ==
    /\ User \subseteq Row
    /\ MaxBalance \in Nat
    /\ \A u \in User : InitialDb[u] \in 0 .. MaxBalance
    /\ MaxDeposit \in Nat
    /\ MinWithdrawal \in Nat \ {0}
    /\ \A t \in Tx : \A r \in Arrivals[t] :
          r.op \in {"deposit", "withdraw"} =>
              r.user \in User /\ r.amount \in Nat

walletVars == <<dbVars, requestVars>>

Entry(type, amount, before, after, ref) ==
    [type |-> type, amount |-> amount, before |-> before, after |-> after,
     ref |-> ref]

-----------------------------------------------------------------------------
(* deposit and withdraw: a transaction at Read Committed.                  *)

Deposit(t) ==
    /\ \E r \in Arrivals[t] :
          /\ r.op = "deposit"
          /\ Arrive(t, r, IF r.amount > MaxDeposit THEN "rejected"
                                                   ELSE "readWallet")
    /\ UNCHANGED dbVars

Withdraw(t) ==
    /\ \E r \in Arrivals[t] :
          /\ r.op = "withdraw"
          /\ Arrive(t, r, IF r.amount < MinWithdrawal THEN "rejected"
                                                      ELSE "readWallet")
    /\ UNCHANGED dbVars

\* What deposit and withdraw check between the read and the write.
Refused(r, balance) ==
    \/ r.user \in LockedWallets
    \/ r.op = "withdraw" /\ balance < r.amount

ReadWallet(t) ==
    /\ pc[t] = "readWallet"
    /\ LET balance == Read(t, req[t].user)
       IN  IF Refused(req[t], balance)
           THEN Reject(t)
           ELSE Remember(t, Amount(balance), "writeWallet") /\ UNCHANGED dbVars

BalanceAfter(r, before) ==
    IF r.op = "deposit" THEN before + r.amount ELSE before - r.amount

\* The balance that an UPDATE computes can be stored.
Fits(after) == after <= MaxBalance

EntryType(r) == IF r.op = "deposit" THEN "DEPOSIT" ELSE "WITHDRAWAL"

\* Mutant of WriteWallet: { increment } in the UPDATE, and a row computed from
\* the earlier read.
WriteWalletRelative(t) ==
    /\ pc[t] = "writeWallet"
    /\ LET before == seen[t].amount
       IN  WriteAndLog(t, req[t].user, BalanceAfter(req[t], Read(t, req[t].user)),
                       Entry(EntryType(req[t]), req[t].amount, before,
                             BalanceAfter(req[t], before), t))
    /\ Goto(t, "commit")

WriteWallet(t) ==
    /\ pc[t] = "writeWallet"
    /\ LET before == seen[t].amount
           after == BalanceAfter(req[t], before)
       IN  /\ Fits(after)
           /\ WriteAndLog(t, req[t].user, after,
                          Entry(EntryType(req[t]), req[t].amount, before, after, t))
    /\ Goto(t, "commit")

\* 22003, numeric field overflow, comes before the UPDATE waits for the row.
DepositOverflow(t) ==
    /\ pc[t] = "writeWallet"
    /\ ~Fits(BalanceAfter(req[t], seen[t].amount))
    /\ Fail(t)

-----------------------------------------------------------------------------
(* What the orders service calls inside its Serializable transaction: the  *)
(* read sees the snapshot, so it and the write are one step.               *)

CannotPay(t, u, amount) == u \in LockedWallets \/ Read(t, u) < amount

deductFromWallet(t, u, amount, ref) ==
    LET before == Read(t, u)
        after == before - amount
    IN  /\ ~CannotPay(t, u, amount)
        /\ WriteAndLog(t, u, after, Entry("PAYMENT", amount, before, after, ref))

\* Mutant of creditToWallet: no wallet_transactions row.
creditWithoutEntry(t, u, amount, ref) == Write(t, u, Read(t, u) + amount)

creditToWallet(t, u, amount, ref) ==
    LET before == Read(t, u)
        after == before + amount
    IN  /\ Fits(after)
        /\ WriteAndLog(t, u, after, Entry("EARNING", amount, before, after, ref))

-----------------------------------------------------------------------------
(* The wallets service by itself.                                          *)

WalletInit == DbInit /\ RequestInit

WalletStep(t) ==
    ReadWallet(t) \/ WriteWallet(t) \/ DepositOverflow(t) \/ CommitRequest(t)

\* Every request that will be answered has been.
Quiescent == (\A t \in Tx : ~Running(t)) /\ UNCHANGED walletVars

WalletNext ==
    \/ \E t \in Tx :
          \/ Deposit(t) \/ Withdraw(t) \/ WalletStep(t)
          \/ Abort(t) \/ LoseAnswer(t)
    \/ Quiescent

WalletSpec == WalletInit /\ [][WalletNext]_walletVars

-----------------------------------------------------------------------------
(* Properties.                                                             *)

\* Where the wallet of u stands according to its statement.
LastAfter(u) ==
    IF ledger[u] = <<>> THEN InitialDb[u] ELSE ledger[u][Len(ledger[u])].after

BalanceBeforeEntry(u, i) ==
    IF i = 1 THEN InitialDb[u] ELSE ledger[u][i - 1].after

\* The balance is the one that the latest wallet_transactions row ends with,
\* however reads, writes and commits of several requests interleave: the
\* UPDATE of the wallet and the INSERT of its row commit together
\* (wallets.service.ts deposit, withdraw, deductFromWallet, creditToWallet).
LedgerTracksBalance == \A u \in User : db[u] = LastAfter(u)

\* Nobody's balance goes below zero, although deposits and withdrawals write
\* balances computed from reads that may be out of date
\* (wallets.service.ts:156 and :260 check a balance read earlier).
BalancesNonNegative == \A u \in User : db[u] >= 0

\* Every row of the statement starts where the row before it ended:
\* "Before/After Balance: Complete state tracking" (ARCHITECTURE.md:115), on
\* wallets that are read "with lock" (wallets.service.ts:74).
LedgerChained ==
    \A u \in User : \A i \in 1 .. Len(ledger[u]) :
        ledger[u][i].before = BalanceBeforeEntry(u, i)
=============================================================================
