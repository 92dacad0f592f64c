# payment-flow, specified

TLA+ modules that model the backend of payment-flow (`src/backend/src`): wallets,
orders, the Stripe webhook, the product table and its cache, accounts and their
tokens, over the database they share; and, apart from these, the arithmetic of
money, clients that retry, and paginated reads. TLC checks them on small
instances; TLAPS proves each safety property of the passing runs, and both
refinements, for every number of users, products, requests and rows.

Run from this directory:

    tlc -workers 2 -config Race.cfg MCPaymentFlow.tla
    tlapm SaleProofs.tla

## 1. The system

A NestJS backend. Every request runs one handler; handlers interleave at each
`await`, in one Node process or in several behind one PostgreSQL, one Redis and
one Stripe account. All shared state is in those three.

| Part | State | Operations | Talks to |
| --- | --- | --- | --- |
| Wallets (`wallets/wallets.service.ts`) | rows of `wallets` (balance, isLocked) and of `wallet_transactions` (insert-only) | `deposit`, `withdraw`; `deductFromWallet`, `creditToWallet` inside a caller's transaction; reads | database |
| Orders (`orders/orders.service.ts`) | rows of `orders` | `createWalletOrder`, `createGatewayOrder`, `completeGatewayOrder`; reads | database, Wallets, Stripe |
| Webhooks (`webhooks/webhooks.controller.ts`) | none | `handleStripeWebhook` | Orders |
| Stripe (`common/services/stripe.service.ts`) | checkout sessions, events (at Stripe) | `createCheckoutSession`, `constructWebhookEvent` | the customer, Webhooks |
| Products (`products/products.service.ts`) | rows of `products`; cache entries `products:list` and one per product | `create`, `update`, `remove`; cache-aside `findAll`, `findOne`; `findByMerchant` | database, Redis |
| Database (`database/prisma.service.ts`, `prisma/schema.prisma`) | all tables | transactions at Serializable or Read Committed | |
| Exceptions and filters (`common/`) | none | map an exception to an answer | |
| Authentication (`auth/`) | rows of `users` (and a wallet each); tokens, at the clients | `register`, `login`, `refreshTokens`; `JwtStrategy.validate` | database |
| Guards (`common/guards/`) | none | `JwtAuthGuard`, `RolesGuard` before a handler | Authentication |
| Configuration and bootstrap | limits | | |

What is hard about it, and what would make it correct:

- **Balances are written as absolute values computed in the process.** `deposit`
  and `withdraw` read the wallet, check it, and write it, at Read Committed and
  without a lock. Orders do the same in a Serializable transaction. Correct: the
  balance is what the statement (`wallet_transactions`) ends with; rows of the
  statement chain; no balance below zero; an order never works from a balance
  that a deposit has replaced.
- **A unit is checked and taken by different statements.** Wallet orders, card
  completions and the merchant's edits all touch one product row. Correct: no
  stock below zero; every unit that left was sold.
- **An order is five statements.** Debit, credit, decrement and insert are one
  transaction that may time out, be chosen as a deadlock victim, fail to
  serialize, or die with the process. Correct: all or nothing; every request is
  answered, two merchants who buy from each other included.
- **A card order is not a transaction.** Product read, Stripe call and insert are
  separate, the payment happens at the customer's leisure, and the webhook comes
  at least once. Correct: the order exists before it can be paid; it is completed
  only if paid, at the amount asked, and once; a paid order is completed.
- **Cache-aside reads race with invalidation.** Correct: an edit deletes every
  entry it outdates, and what is wrong all the same has a reader that raced the
  edit, or a lost deletion, to explain it.
- **Registration checks, hashes, and then inserts.** Two of them for one address
  both find it free; the unique index decides inside the transaction, which may
  still be lost. Correct: an address is given once, with its wallet, and whoever
  is refused is refused for an account that is there.
- **Tokens outlive accounts.** Correct: what counts is the row, at every call.
- **Money is a Decimal(12,2) in a column, a double in the process, an integer at
  Stripe.** Correct: not a cent is lost, however many operations follow each other;
  a row of the statement moves the balance by its amount, in fractions of a cent,
  which the forms accept, as well.
- **Clients repeat what failed.** Correct: a try that failed left nothing.
- **A page and the number of rows are two queries**, and rows appear behind newer
  ones. Correct: a client that turns the pages misses nothing that was there.

`PROJECT.json` lists the hazards one by one, each at its line.

## 2. The modules

    Postgres  <-  Requests  <-  Wallets  \
                            <-  Products  > Orders  <-  PaymentFlow  <-  MCPaymentFlow
                            <-  Stripe   /                   |
                                                     refines Sales
                   Products  <-  Catalogue  <-  MCCatalogue
                   Wallets   <-  MCWallets
                   Requests  <-  Accounts  <-  MCAccounts
                                    |
                              refines Registry
                   PaymentFlow  <-  Retries  <-  MCRetries
                   Money  <-  MCMoney          Listings  <-  MCListings

and the proofs, each about the modules that it extends:

    PostgresProofs  <-  PaymentFlowProofs  <-  SaleProofs  <-  PromiseProofs (with Retries)
                    <-  CatalogueProofs, AccountsProofs        MoneyProofs, ListingsProofs

| Module | Models | State |
| --- | --- | --- |
| `Postgres` | the database as the services use it (external) | `db` committed rows, `ledger` committed insert-only rows, and per transaction its snapshot (`serial`, `view`), writes, locks, and the rows others committed since (`missed`) |
| `Requests` | the life of a request and of `$transaction`: arrive, step, answer, commit, roll back, be lost | `pc`, `req`, `seen` (locals that outlive an await), `failures` |
| `Wallets` | `wallets.service.ts` | balance of `u` is `db[u]`, its statement `ledger[u]` |
| `Products` | the product rows: `update`, `remove` | `db[p]`: stock, price, activity |
| `Stripe` | sessions as the customer sees them (external) | `session` |
| `Orders` | `orders.service.ts` | `db[t]`: the order that request `t` created |
| `PaymentFlow` | the whole backend with the webhook; the properties and the inductive invariant | |
| `Sales` | the abstract promise: a sale is one step, a card order is stored at the price that was quoted | `balance`, `shelf`, `quote`, `order` |
| `Catalogue` | `products.service.ts` with its cache, `create` included | `created`, `cache`, `excused` (history) |
| `Accounts` | `auth.service.ts`, `jwt.strategy.ts`, the two guards | `db[e]`: the user with address `e`; `db[t]`: the wallet of the user whom request `t` registered; `tokens`; `late` (history) |
| `Registry` | the abstract promise: an account and its wallet appear in one step, for a free address | `account`, `purses` |
| `Money` | conversions between column, double and Stripe, in the operations that move money | `column` in cents; `exact`, `verdict`, `charge` (history); `entry`: the last row of each statement, with the amount that was asked |
| `Retries` | `PaymentFlow` with clients that send an order again | `unanswered` (history): requests whose answer was lost after COMMIT |
| `Listings` | `getTransactions`, `findUserOrders`, `findMerchantOrders` and a client that turns the pages | `createdAt`, `rows`; `page`, `data`, `total`, `got`, `again` of the client |

An action is at most one statement sent to the database or one external call, with
everything the code does around it in the process. Statements become actions thus:

| Code | Actions |
| --- | --- |
| `deposit`, `withdraw` | `Deposit` / `Withdraw` (limits) -> `ReadWallet` -> `WriteWallet` -> `CommitRequest` |
| `createWalletOrder` | `CreateWalletOrder` (snapshot) -> `LockProduct` -> `Debit` -> `Credit` -> `DecrementStock` -> `SaveOrder` -> `CommitRequest` |
| `createGatewayOrder` | `CreateGatewayOrder` -> `CreateCheckoutSession` -> `InsertOrder` |
| `completeGatewayOrder` | `FindOrder` -> `BeginCompletion` -> `LockProduct` -> `Credit` -> `DecrementStock` -> `SaveOrder` -> `CommitRequest` |
| `handleStripeWebhook` | `DeliverWebhook`, `Redeliver` |
| `update`, `remove` | `UpdateProduct` (ownership) -> `SaveProduct`; in `Catalogue`: `EditProduct` -> `SaveEdit` -> `DropList` -> `DropPage` |
| `create` | `CreateProduct` -> `DropList` |
| `findAll`, `findOne` | `LookInCache` -> `Fetch` -> `Fill` |
| `register` | `Enter` -> `FindUser` -> `InsertUser` -> `InsertWallet` -> `Registered` |
| `login` | `Enter` -> `FindUser` -> `StampLogin` |
| `refreshTokens` | `Refresh` |
| any protected route | `CallRoute` (token) -> `Validate` (account, role) -> `Serve` |
| a paginated read | `FetchPage` and `CountRows`, in either order (`Promise.all`) -> `Receive` |
| errors of the engine | `SerializationFailure`, `DeadlockVictim`; `DepositOverflow`, `CreditOverflow` (a balance that the column cannot hold); `Abort` (timeout, lost connection, crash, before COMMIT), `LoseAnswer` and `LoseUrl` (after it) |

Decisions worth knowing:

- *Read and write of a wallet in an order are one step.* Inside a Serializable
  transaction the read sees the snapshot, so its place does not matter. In
  `deposit` and `withdraw` it does, and they are two steps.
- *First updater wins.* A Serializable transaction of this program writes each row
  it reads, except rows nobody updates, so lost updates are the anomaly to exclude
  and `Stale` excludes them. The extra aborts of predicate locking are among the
  failures (`Abort`).
- *A full wallet.* A balance beyond `MaxBalance` does not fit the Decimal(12,2) of
  its column: PostgreSQL refuses the UPDATE (22003) when it computes the new row,
  before it waits for the lock, and the whole transaction is rolled back, the debit
  of the buyer included. No filter knows the error: the request ends as `failed`.
- *`decrement`* is relative in SQL. Under a Serializable snapshot it is the
  snapshot's value minus one, because the row is locked and unchanged.
- *A row lock conflict with a foreign key*: `InsertOrder` waits until the product
  row is free, as the key check does.
- *`isLocked`* is never set by the code; `LockedWallets` stands for the wallets an
  operator has locked.
- *Merchants may buy their own products*: nothing in the code forbids it.
- *`SaveProduct` leaves the cache out*: no order reads the cache. `Catalogue` has
  the same handler with it, and reduces orders to `Sell`.
- *The unique index on the address* is the row itself: `InsertUser` waits until no
  other transaction holds the address, as PostgreSQL does, and then looks whether
  it is taken (P2002, which the filter answers with 409).
- *`isActive`* is read and never written by the code; `Deactivate` is an operator.
- *In `Money` the doubles are parameters.* `Double`, `Sent` and `Scaled` are any
  functions that are off by at most `Slack`, and a cent is `Cent` units with
  `8 * Slack < Cent`. IEEE doubles satisfy this with much to spare: below 10^10
  dollars half a unit in the last place is less than 2^-19 dollars, a cent is over
  5000 times that. Operations are one step there, since their interleavings are the
  subject of `Wallets` and `Orders`. A number computed outside `Span` would be
  beyond any column, and none is.
- *An answer can be lost after COMMIT in each kind of order*: `LoseAnswer`, and
  `LoseUrl` for the INSERT of a gateway order, which is a transaction of its own.
- *The cache is one store for all processes*, as the Redis of `redis.config.ts` is
  meant to be. Where several processes kept one store each, an edit would delete
  entries in one of them only; that case is not modelled.
- *Rows in flight*: in `Listings` a transaction may have inserted its row before the
  client begins, with a `createdAt` older than rows that it reads, and commit later
  (`InFlight`).
- *A quote* in `Sales` is what `createGatewayOrder` read and has not yet stored
  (`QuoteOf`): the session and the order carry that price, whatever the product
  costs by then. A request that is lost in between forgets its quote.
- *A price may be zero* in the column: the form asks for more than zero, and the
  column rounds to cents.
- *A removed product may be put on sale again* by an edit: the code does not look at
  `deletedAt`, and no document says that a removal is final.
- *`excused`* in `Catalogue` records that an entry was out of date when it was set
  or that its deletion was lost; no guard reads it.

Operators with a comment "Mutant of X" are X with a plausible bug; no
specification uses them. `PROJECT.json` says which property each one breaks, so
that every property is known to have something to say about the code.

## 3. What TLC checks

| Run | Instance | States | Shows |
| --- | --- | --- | --- |
| `Race` | 4 requests, 3 users, 1 product with one unit, balances of at most 3, 1 loss | 140,067 | buyers of the last unit, the merchant buying from herself, edits of the price, removal, deposits and withdrawals on the same wallets, some of which become too full: `IInv`, `NoOversell`, `StockMatchesSales` (orders from wallets, and no edit of the stock), `WalletOrderSettled`, `OrderEntriesChained`; `BalancesNonNegative` although updates can be lost |
| `Trade` | 2 orders, by wallet or card, of 2 products of 2 merchants, a repetition of each, a deposit or withdrawal, 1 loss | 42,796 | wallets locked in opposite orders: deadlocks arise and are resolved, everyone is answered (`Answered`), nothing half done stays (`LedgerTracksBalance`, `WalletOrderSettled`), and an order that is repeated is made twice only where the answer of its first try was lost after COMMIT (`TwiceOnlyIfLost`) |
| `Card` | 2 card or wallet orders with a delivery each, two merchants who buy from each other, or an edit of the merchant; 2 losses | 4,459 | `IInv` with completions and deadlocks at work; `CreditedOnce` when answers are lost and events repeated one after the other, `CompletedWasPaid`, `PaidSessionHasOrder`, `PaidSettles`; the transactions implement `Sales` (`SalesAreAtomic`) |
| `Catalogue` | 2 readers, 2 edits, 2 products, 1 loss | 398,266 | `StaleIsExplained` |
| `Accounts` | 3 requests that may register one of 2 addresses, log in or refresh; 1 call; 1 loss | 60,446 | `AccountInv`, `RegisteredOwnsAccount`, `RefusedMeansTaken`, `ClosedAccountsAreNotServed`; the registrations implement `Registry` (`OpensAtomically`); somebody gets the address (`AddressIsGiven`) |
| `Money` | 2 users, 1 product, amounts of 10, 14, 15 and 20 units where a cent is 10, each conversion rounding in a way of its own, a column of at most 5 cents | 238,041 | `MoneyTypeOK`, `MoneyIsExact`, `EntryOffByACent`, `StripeAsksThePrice`, `RefusedOnlyIfPoor`: what fractions of a cent do to a row and what they do not, sums that do not fit included |
| `Pages` | 4 rows at first, two of one millisecond, one in flight and one still to come, pages of 2 or 3 | 4,204 | `NothingSkipped`, `MissesAtMostArrivals`, `RepeatedOnlyIfMoved` |

Five runs end in a counterexample: the code and a document of the repository
disagree.

| Run | Property | The behaviour TLC finds |
| --- | --- | --- |
| `LostUpdate` | `LedgerChained` | two deposits read one balance; the second overwrites the first (`README.md:489` claims Serializable, `wallets.service.ts:74` "with lock"). This run has the wallets service alone |
| `Twice` | `CreditedOnce` | two deliveries of one payment both find the order pending; the second transaction starts after the first has committed, and completes the order again |
| `SoldOut` | `PaidIsCompleted` | the unit is sold from a wallet between checkout and payment; the paid order stays pending (`README.md:509`) |
| `StaleCache` | `InvalidatedByEdits` | a reader puts back an offer that it read before an edit (`README.md:496`) |
| `Resubmit` | `OrderedOnce` | the answer to an order is lost after the commit, the client sends the order again and buys twice (`ARCHITECTURE.md:106`, `schema.prisma:165`) |

Two more observations need no run of their own. The loser of a race between wallet
orders is answered 500: no filter knows a serialization failure or a deadlock
(`prisma-exception.filter.ts:21-49`), although `ARCHITECTURE.md:257` lists 409 for a
race; in the models it ends as `failed`. And the forms take any positive number
(`deposit.dto.ts:4-5`, `withdraw.dto.ts:4-5`), while the columns round the amount and
the balances of a row to cents one by one: 1.125 withdrawn from 10.00 is stored as
1.13 with 8.88 after it. `ARCHITECTURE.md:111` says that no float or double is used,
and `:115` that before and after are a complete record; in `Money` a row that does not
add up is reachable, and `EntryOffByACent` says how far off it can be.

`Card` and `Twice` check the same `CreditedOnce`: it holds while the deliveries of
one payment follow each other and fails when two of them overlap.

`StaleIsExplained` and `InvalidatedByEdits` are related in the same way: the first
holds, and names as the only explanations of a stale entry the reader that raced an
edit and the deletion that was lost; the second fails.

**Bounds.** Requests: four, since each hazard listed needs two or three actors and
the fourth disturbs them. `MaxFailures`: one loss may strike any step of any
request; `Card` has two, so that a redelivery can be lost again. `MaxBalance` is the
width of the balance column: in `Race`, `Trade`, `Card` and `LostUpdate` it is small
enough that a deposit or a merchant's earning does not fit, in the other runs of the
backend nothing reaches it. One or two units: the interesting stock is the last one. Money: a few cents, enough for one purchase
to succeed and the next to be refused, and in `Race` amounts on both sides of the
deposit limit. There are no other counters in the backend, and each request arrives
once (a webhook any number of times through `Redeliver`). `Money` has no bound
but the width of the columns (`Limit`), which is the code's own: the history `exact`
begins anew at each amount in fractions of a cent, and so stays near the column.
`Pages`: `MaxTime` is one tick of the clock, so that new rows share a millisecond with old ones or come
later; one row is in flight at the start, older than rows that are read; two late
rows move each page border past two rows.

**Deadlock** is checked in every run; a system in which every request is answered
stutters explicitly (`Idle`, `Quiescent`, `CatalogueIdle`, `AccountIdle`), so a state where some
request is stuck would be reported.

**Fairness** is weak, per request: `Handle(t)`, because Node resumes a handler
whose await is over, PostgreSQL grants a free lock and always picks a deadlock
victim; `Webhook(t)`, because Stripe keeps delivering an event until it is
acknowledged. (Stripe gives up after some days: `PaidSettles` holds of servers that
come back before that. A payment also counts as settled there once the product was
sold out, or the wallet of the merchant full, at any time while the order was
pending.) `Catalogue` has no liveness and needs no fairness. Nobody has to call, to
pay, to let a session expire, or to fail. `RetryFairSpec` (`Trade`) is `FairSpec` with clients who try again, and
they need not. `AccountFairSpec` has the same for the handlers of `Accounts`
(`AccountStep(t)`); a token need not expire and an operator need not act. Weak
fairness of the lock waits suffices: in an instance with finitely
many requests every holder ends.

## 4. What is proved

For all constants that satisfy the named assumptions of the modules
(`DbAssumption`, `RequestAssumption`, `WalletAssumption`, `ProductAssumption`,
`OrderAssumption`, `NoOrderAtFirst`, `RetryAssumption`, `CatalogueAssumption`,
`AccountAssumption`, `MoneyAssumption`, `ListingAssumption`):

| Theorem | Module | Says |
| --- | --- | --- |
| `TypesHold` | `PaymentFlowProofs` | `Spec => []TypeOK`, with the steps and completions invariants it needs |
| `EngineHolds` | `PaymentFlowProofs` | locks are exclusive, a locked row is unchanged since the snapshot, pending entries come with their wallet's update |
| `StockHolds` | `PaymentFlowProofs` | `Spec => []NoOversell` |
| `OnlyPaidIsCompleted` | `PaymentFlowProofs` | `Spec => []CompletedWasPaid` |
| `PaymentFindsOrder` | `PaymentFlowProofs` | `Spec => []PaidSessionHasOrder` |
| `BalanceIsTracked` | `SaleProofs` | `Spec => []LedgerTracksBalance` |
| `OrderEntriesStayChained` | `SaleProofs` | `Spec => []OrderEntriesChained` |
| `NoDebt` | `SaleProofs` | `Spec => []BalancesNonNegative` |
| `WalletOrdersSettle` | `SaleProofs` | `Spec => []WalletOrderSettled` |
| `InvariantHolds` | `SaleProofs` | `Spec => []IInv` |
| `StockIsSold` | `PromiseProofs` | under `StockLeftAlone`: `Spec => []StockMatchesSales` |
| `CreditsHappenOnce` | `PromiseProofs` | under `OneDelivery`: `Spec => []CreditedOnce` |
| `SalesTakeEffectAtOnce` | `PromiseProofs` | under `OneDelivery` and `NoCash`: `Spec => SalesAreAtomic`, the refinement |
| `RepeatsAreSafe` | `PromiseProofs` | `RetrySpec => []TwiceOnlyIfLost`: made twice only where the answer of the first try was lost after COMMIT |
| `StaleEntriesExplained` | `CatalogueProofs` | `CatalogueSpec => []StaleIsExplained` |
| `AccountsHold` | `AccountsProofs` | `AccountSpec => []AccountInv` |
| `RegisteredOwns`, `RefusalsAreConflicts`, `ClosedAreNotServed` | `AccountsProofs` | `RegisteredOwnsAccount`, `RefusedMeansTaken`, `ClosedAccountsAreNotServed` always hold |
| `AccountsImplementRegistry` | `AccountsProofs` | `AccountSpec => OpensAtomically`, the refinement |
| `ColumnsHold`, `EntriesNearlyAddUp`, `BalancesAreExact`, `StripeIsAskedThePrice`, `RefusalsAreExact` | `MoneyProofs` | `MoneyTypeOK`, `EntryOffByACent`, `MoneyIsExact`, `StripeAsksThePrice`, `RefusedOnlyIfPoor` always hold, whatever fractions of a cent clients send |
| `ReadersSkipNothing`, `ReadersMissFew`, `RestingListRepeatsNothing` | `ListingsProofs` | `NothingSkipped`, `MissesAtMostArrivals`, `RepeatedOnlyIfMoved` always hold |

Three theorems restrict the requests, since without that the code does not keep
the promise:

- `StockLeftAlone`: no merchant sends a form with a new stock. Such a form writes an
  absolute number (`products.service.ts:152`), and units go or come unsold.
- `OneDelivery`: a payment is reported by one event, which Stripe repeats until it
  is acknowledged; so no two requests are the webhook of one order, and
  redeliveries follow each other. `Twice` is the counterexample otherwise.
- `NoCash`: nobody deposits or withdraws. `Sales` has no step for them, and a
  deposit may overwrite the balance that a sale left (`LostUpdate`). What holds
  with them is in `IInv`, `WalletOrdersSettle` included.

`Card` is an instance that satisfies `OneDelivery` and `NoCash`.

**The engine and the stock.** None of the safety properties is inductive by
itself: that the stock stays above zero depends on what a transaction saw when it
locked the product and on nobody having changed it since. `IInv` adds what is
needed:

- `EngineInv`: a row has one lock holder; a Serializable transaction holds no row
  that it missed a change of; a snapshot is current where nothing was missed or
  written; an entry is inserted only with its wallet's update;
- `StepsMatchRequests`: which steps belong to which request, and that order
  transactions hold a snapshot;
- `CompletionsHaveOrders`: a completion works on an order that is there and stays;
- `UnitsAreThere`: between the lock and the decrement the unit is still there;
- `PendingEntries`: uncommitted statement rows end at the balance about to be
  committed, and those of an order start from the committed balance;
- `SalesInProgress`: what an order transaction has written so far is what is
  committed now, changed by the part of the sale up to its step: each row that it
  works on is locked, so the committed one is the one it read;
- `EntriesInProgress`: it is about to enter one payment and one earning, of its own
  order, and no others;
- `OrdersSettled`: each wallet order in the table is completed, paid once and earned
  once, and where there is no order there are no entries of one.

`PostgresProofs` shows, once, what each statement of the engine preserves.
`PaymentFlowProofs` reduces the actions of `Next` to the eight effects they can
have on the database, so that the later proofs have eight cases. It and
`SaleProofs` go through the eight effects; the interesting cases are `Commit`
(where the written balances meet the pending rows) and the order's own writes.
`Race` and `Card` check `IInv` with TLC on every reachable state of theirs.

**The sales.** A commit by itself says nothing of the order: it publishes whatever
was written. `SalesInProgress` and `EntriesInProgress` say what that is, so that at
the commit the tables are the old ones and one whole sale. `WalletOrderSettled`
then follows from `OrdersSettled`: an abort leaves nothing because nothing was
committed, and a lost answer leaves a settled order. A deposit at Read Committed may
overwrite the balance that the sale left, but never an entry of an order, and no
wallet that a sale holds. `StockIsSold` counts: a commit takes one unit
and adds one earning, in one step, and no other step does either.
For `CreditsHappenOnce` there is one more invariant, `CreditInv`: what a completion
works on is still pending, nobody has earned from an order that is pending, and
nobody earns twice. `completeGatewayOrder` looks at the status outside its
transaction; it is with one delivery only that nobody can change it in between.
The refinement maps the commit of a wallet order to `Purchase`, that of a
completion to `Complete`, the read of the price by a gateway order to `Quote`, its
INSERT to `Place`, its loss before that to `Forget`, an edit to `Edit`, and shows that
every other step changes nothing that `Sales` sees. `Place` has no choice of the
amount: what the order says is what was quoted, however the price has changed.

**Repetitions.** `TwiceOnlyIfLost` is about clients who repeat and not about the
code alone, so `RetryInv` says what the two have to do with each other: nobody
repeats a try that has not failed, and it stays failed; and an order that is in the
table although its client was told of a failure is one whose answer was lost
(`LossesKnown`; `unanswered` is a history variable that only the losses after COMMIT
write). An order enters the table at its own commit, and a request that ends there
as failed was lost there; whatever else ends as failed, by a timeout or a crash
before COMMIT, a conflict, a deadlock or a full wallet, has published nothing. Every step of `RetryNext` is one of `Next`, so
`IInv` carries over. `RetryInv` holds in each state of the instance of `Trade`, too.

**Who is paid** is an argument beside `IInv`. `PaidInv` says that
a session belongs to a gateway order that is being created or was answered, and
that it is in the database once anyone can pay (`SessionsHaveOrders`); that a webhook
at work reports a session that is paid (`WebhooksReportPayments`); and that whatever
is completed or earned, committed or not, belongs to an order that is paid or that
debits a wallet (`WorkIsBacked`). The steps are sorted once more, by the four moves
that they make with requests and sessions (`Moves`): a payment is never taken back,
so what was backed stays so, and the eight effects add only work for the order
that is served. `NoDebt` needs that a balance read at Read Committed, however old,
covered the withdrawal when it was checked: the value that is written is computed
from the same number (`BalanceInv`).

**The cache.** `CatalogueProofs` is independent: there the property is inductive
together with the types, because whoever outdates an offer owes the deletion of
each key that shows it from that step on.

**Accounts.** No property of accounts is inductive alone: it is the
uncommitted INSERT that decides. `AccountInv` says that a registration holds its
address from the INSERT to its end (`HoldsAddress`), and that the address is free as
long as it does; that each row is what one registration wrote, open or closed
(`RowsOwned`); that a token stands for an account (`TokensBacked`); and that the
account of a call that came too late is still closed when it is looked at
(`LateStaysClosed`). One lemma, `QuietStepKeeps`, covers the steps that change no
row; the commit and the operator have one each. The refinement then needs only
that a commit opens one account and one purse (`CommitOpens`) and that all other
steps stutter or close an account. `Accounts` checks `AccountInv` with TLC.

**Money.** A conversion of a whole number of cents is off by at most one
`Slack`, a sum of two by three, what is written by four, which is less than half a
cent: so that rounding to the column gives back the exact cent. `MoneyIsExact` is
inductive for that reason; an amount in fractions of a cent begins the history anew,
since what such an amount is meant to do to a balance is not said anywhere.
Comparisons need that two different numbers of cents are further apart than two
roundings. `EntryOffByACent` is about all amounts: a row holds three numbers, the
balance before, which is a whole number of cents, and the amount and the balance
after, each rounded to cents by half a cent and a few `Slack`; so what does not add
up is less than two cents, and is a whole number of them.

**Pages.** The place of a row in the list is the number of rows that are newer
(`Ahead`). It only grows, because no row is removed or changes its time, and a page
is an interval of places. `ListingInv` follows from that: the rows there at
first whose place is before the next page are given, and the page in hand goes on
from there, to the last of them if it is not full (`ReadSoFar`). A client who is
done had a page that was not full, so nothing is left; or has read as many pages
as the count of rows asked for: then the newest row that it missed has at least as
many rows before it as there were at first, none of them missed, so that the rows
that came make up for the missed ones. `ListingInv` holds in each state of the
instance of `Pages`, too.

**Model-checked only.** The liveness properties (`Answered`, `PaidSettles`,
`AddressIsGiven`) and anything about ENABLED, which are out of the
prover's reach.

## 5. What is left out

- Reads that only answer (`getWallet`, `findOne` of orders, `findByMerchant`,
  `retrieveSession`).
- DTO validation: arrivals are requests that passed it. Outside `Accounts` they
  have passed the guards, too. Page numbers below one, which the database refuses.
- Hashing and signing: a password is a value, a token is what it says.
- Messages, logging, status codes apart from done / rejected / failed.
- `payment_intent.*` events: they are only logged.
- A client that repeats a deposit or a withdrawal: there is no key at all, and no
  document that promises anything.

## 6. Plan

Done, in this order: `Postgres`, `Requests`, `Wallets`, `Products`, `Stripe`,
`Orders`, `PaymentFlow`, `Sales`, `Catalogue`, the proof of `IInv`; `Accounts` and
`Registry` with their proofs, `Money` with its proofs, `Retries`, `Listings`.
Then the proofs of `Listings`, of the sales in progress, and of everything that
rests on these: `StockMatchesSales`, `WalletOrderSettled`, `CreditedOnce`,
`TwiceOnlyIfLost`, `SalesAreAtomic`.

Next, in order of what it tells about the code:

1. *Cash in the promise.* Give `Sales` deposits and withdrawals, with the lost
   updates that they really have, so that the refinement no longer needs `NoCash`.
2. *Catalogue.* Compose it with the order transactions in place of `Sell`.
3. *Overlapping deliveries.* What still holds without `OneDelivery`: a completion
   too many is always a whole one, with its unit and its credit.
