------------------------------- MODULE Money -------------------------------
(***************************************************************************)
(* Money between its three forms: Decimal(12,2) in a column, a double in   *)
(* the process, an integer number of cents at Stripe.  Every operation     *)
(* reads columns into doubles, computes, and writes columns.               *)
(*                                                                         *)
(* An exact amount is a whole number of units, Cent of them to a cent.     *)
(* With a unit of 2^-n / 100 dollars each cent and each double of interest *)
(* is a whole number of units, so that nothing is lost here; what rounds   *)
(* is Double, Sent and Scaled, of which only the error is known: half a    *)
(* unit in the last place, below 2^-19 dollars in the range of the column. *)
(*                                                                         *)
(* Requests run one after the other: what they do to each other, and the   *)
(* limits and locks that they check first, is the subject of Wallets and   *)
(* Orders.                                                                 *)
(***************************************************************************)
EXTENDS Integers

CONSTANTS
    User,     \* users, each with a wallet
    Product,  \* products
    Owner,    \* Owner[x]: the merchant of x
    Cent,     \* units in a cent
    Slack,    \* how far off a rounding to a double may be, in units
    Limit,    \* the largest amount of a Decimal(12,2), in cents
    Asked,    \* amounts that clients send, in units
    Double,   \* Double[x]: the double nearest to x
    Sent,     \* Sent[x]: the decimal that stands for the double x in a statement
    Scaled    \* Scaled[x]: the double nearest to a hundred times the double x,
              \* which is a number of cents

\* Exact amounts that a computation meets: a sum of two doubles at most.
Span == 0 .. 2 * Limit * Cent + 4 * Slack

Rounding(f) ==
    /\ f \in [Span -> Nat]
    /\ \A x \in Span : -Slack <= f[x] - x /\ f[x] - x <= Slack

\* At most four roundings lie between two columns.
ASSUME MoneyAssumption ==
    /\ User \cap Product = {}
    /\ Owner \in [Product -> User]
    /\ Cent \in Nat /\ Slack \in Nat /\ Limit \in Nat
    /\ 8 * Slack < Cent
    /\ Asked \subseteq 0 .. Limit * Cent
    /\ Rounding(Double) /\ Rounding(Sent) /\ Rounding(Scaled)

VARIABLES
    column,   \* column[u]: balance of u, column[x]: price of x, in cents
    exact,    \* history, in units: what they would be if nothing were rounded
              \* after the last amount in fractions of a cent
    entry,    \* entry[u]: the last wallet_transactions row of u, with the
              \* amount that it is about, in units, as history
    verdict,  \* the last request that had to be covered by a balance
    charge    \* the last gateway order, and what its session asks

moneyVars == <<column, exact, entry, verdict, charge>>

EntryRow == [type : {"DEPOSIT", "WITHDRAWAL", "PAYMENT", "EARNING"}, asked : Nat,
             amount : 0 .. Limit, before : 0 .. Limit, after : 0 .. Limit]

NoEntry == [type |-> "DEPOSIT", asked |-> 0, amount |-> 0, before |-> 0, after |-> 0]
NoVerdict == [had |-> 0, wanted |-> 0, answer |-> "done"]
NoCharge == [price |-> 0, order |-> 0, unitAmount |-> 0]

MoneyInit ==
    /\ column = [r \in User \cup Product |-> 0]
    /\ exact = [r \in User \cup Product |-> 0]
    /\ entry = [u \in User |-> NoEntry]
    /\ verdict = NoVerdict
    /\ charge = NoCharge

-----------------------------------------------------------------------------
(* Conversions.                                                            *)

\* Number(decimal)
Number(cents) == Double[cents * Cent]

\* To a whole number of cents: halves go up, in Math.round and, as nothing is
\* negative here, in PostgreSQL's numeric.
Nearest(x) == (2 * x + Cent) \div (2 * Cent)

\* Mutant of Stored: digits that the column does not have are cut off.
CutOff(x) == Sent[x] \div Cent

\* A double written to a Decimal(12,2).
Stored(x) == Nearest(Sent[x])

\* Mutant of Fits: the column is wide enough for anything.
AlwaysFits(x) == TRUE

\* Beyond ten digits before the point: numeric field overflow.
Fits(x) == Stored(x) <= Limit

Plus(cents, amount) == Double[Number(cents) + amount]
Minus(cents, amount) == Double[Number(cents) - amount]

Entry(type, asked, amount, before, after) ==
    [type |-> type, asked |-> asked, amount |-> Stored(amount),
     before |-> Stored(Number(before)), after |-> Stored(after)]

\* Mutant of UnitAmount: Math.floor.
UnitAmountFloored(cents) == Scaled[Number(cents)] \div Cent

\* unit_amount: Math.round(productPrice * 100)
UnitAmount(cents) == Nearest(Scaled[Number(cents)])

-----------------------------------------------------------------------------
(* Operations.                                                             *)

\* History: a column that took the amount a and is now cents.  After whole
\* cents it should be sum; after a fraction the history begins anew.
Exactly(a, sum, cents) == IF a % Cent = 0 THEN sum ELSE cents * Cent

\* An error of the database: everything is rolled back.
Overflow == UNCHANGED moneyVars

Judge(u, amount, answer) ==
    verdict' = [had |-> column[u], wanted |-> amount, answer |-> answer]

Deposit(u, a) ==
    LET after == Plus(column[u], Double[a])
    IN  IF Fits(after)
        THEN /\ column' = [column EXCEPT ![u] = Stored(after)]
             /\ exact' = [exact EXCEPT ![u] = Exactly(a, @ + a, Stored(after))]
             /\ entry' = [entry EXCEPT ![u] =
                            Entry("DEPOSIT", a, Double[a], column[u], after)]
             /\ UNCHANGED <<verdict, charge>>
        ELSE Overflow

\* Mutant of Covers: a balance cannot be used up.
CoversMore(cents, amount) == Number(cents) > amount

\* balanceBefore < amount is refused: two doubles are compared.
Covers(cents, amount) == Number(cents) >= amount

Refuse(u, a) ==
    /\ ~Covers(column[u], Double[a])
    /\ Judge(u, a, "rejected")
    /\ UNCHANGED <<column, exact, entry, charge>>

Withdraw(u, a) ==
    \/ Refuse(u, a)
    \/ LET after == Minus(column[u], Double[a])
       IN  /\ Covers(column[u], Double[a])
           /\ column' = [column EXCEPT ![u] = Stored(after)]
           /\ exact' = [exact EXCEPT ![u] = Exactly(a, @ - a, Stored(after))]
           /\ entry' = [entry EXCEPT ![u] =
                          Entry("WITHDRAWAL", a, Double[a], column[u], after)]
           /\ Judge(u, a, "done")
           /\ UNCHANGED charge

\* create and update: the price of the form.
SetPrice(x, a) ==
    IF Fits(Double[a])
    THEN /\ column' = [column EXCEPT ![x] = Stored(Double[a])]
         /\ exact' = [exact EXCEPT ![x] = Exactly(a, a, Stored(Double[a]))]
         /\ UNCHANGED <<entry, verdict, charge>>
    ELSE Overflow

\* createWalletOrder: the debit is written before the wallet of the merchant,
\* who may be the buyer, is read.
Buy(u, x) ==
    LET v       == Owner[x]
        asked   == column[x] * Cent
        amount  == Number(column[x])
        left    == Minus(column[u], amount)
        debited == [column EXCEPT ![u] = Stored(left)]
        after   == Plus(debited[v], amount)
    IN  \/ Refuse(u, asked)
        \/ Covers(column[u], amount) /\ ~Fits(after) /\ Overflow
        \/ /\ Covers(column[u], amount)
           /\ Fits(after)
           /\ column' = [debited EXCEPT ![v] = Stored(after)]
           /\ exact' = [[exact EXCEPT ![u] = @ - exact[x]] EXCEPT ![v] = @ + exact[x]]
           /\ entry' = [entry EXCEPT
                          ![u] = Entry("PAYMENT", asked, amount, column[u], left),
                          ![v] = Entry("EARNING", asked, amount, debited[v], after)]
           /\ Judge(u, asked, "done")
           /\ UNCHANGED charge

\* createGatewayOrder: one read of the price goes to Stripe and to the order,
\* from which the merchant is credited.
BuyByCard(x) ==
    /\ charge' = [price |-> column[x], order |-> Stored(Number(column[x])),
                  unitAmount |-> UnitAmount(column[x])]
    /\ UNCHANGED <<column, exact, entry, verdict>>

MoneyNext ==
    \/ \E u \in User, a \in Asked : Deposit(u, a) \/ Withdraw(u, a)
    \/ \E x \in Product, a \in Asked : SetPrice(x, a)
    \/ \E u \in User, x \in Product : Buy(u, x)
    \/ \E x \in Product : BuyByCard(x)

MoneySpec == MoneyInit /\ [][MoneyNext]_moneyVars

-----------------------------------------------------------------------------
(* Properties.                                                             *)

\* Nothing leaves the range of its column, whatever fractions of a cent are
\* sent: a sum that needs eleven digits is refused by the database and not
\* stored (schema.prisma:44, :83-85, :115), and what a balance covers leaves
\* no less than nothing.
MoneyTypeOK ==
    /\ column \in [User \cup Product -> 0 .. Limit]
    /\ exact \in [User \cup Product -> Int]
    /\ entry \in [User -> EntryRow]
    /\ verdict \in [had : 0 .. Limit, wanted : Nat, answer : {"done", "rejected"}]
    /\ charge \in [price : 0 .. Limit, order : 0 .. Limit, unitAmount : Nat]

\* However many deposits, withdrawals and orders of whole cents follow each
\* other, and whatever fractions of a cent came before them, each balance is
\* the exact sum from there on, and each price the one that was asked, although
\* all of them went through doubles ("Decimal precision for financial data",
\* README.md:443; wallets.service.ts:87-94): errors do not add up.
MoneyIsExact == \A r \in User \cup Product : column[r] * Cent = exact[r]

\* What the row e moves the balance by, against what its amount says.
Gap(e) ==
    e.after - e.before - (IF e.type \in {"DEPOSIT", "EARNING"} THEN e.amount ELSE -e.amount)

\* The forms take fractions of a cent (deposit.dto.ts:4-5, withdraw.dto.ts:4-5),
\* and the amount and the balances of a row are rounded to cents one by one
\* (wallets.service.ts:87-108, :153-180): a row of the statement may be off, but
\* by no more than a cent, and by nothing if its own amount is in whole cents,
\* as that of an order is.  A row that always adds up, as "Never use
\* Float/Double: Prevents rounding errors" (ARCHITECTURE.md:111) and
\* "Before/After Balance: Complete state tracking" (:115) suggest, is more than
\* the code achieves.
EntryOffByACent ==
    \A u \in User :
        /\ Gap(entry[u]) \in -1 .. 1
        /\ entry[u].asked % Cent = 0 => Gap(entry[u]) = 0

\* What Stripe asks, what the order says and so what the merchant earns, is
\* the price to the cent (stripe.service.ts:62, orders.service.ts:192-213).
StripeAsksThePrice ==
    charge.unitAmount = charge.price /\ charge.order = charge.price

\* A balance covers a number of cents exactly when it is as large: the whole
\* balance can be spent and no cent more, although doubles are compared
\* (wallets.service.ts:156, :260).
RefusedOnlyIfPoor ==
    verdict.wanted % Cent = 0 =>
        (verdict.answer = "rejected" <=> verdict.had * Cent < verdict.wanted)
=============================================================================
