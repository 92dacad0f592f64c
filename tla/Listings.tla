------------------------------ MODULE Listings ------------------------------
(***************************************************************************)
(* The paginated reads: getTransactions (wallets.service.ts:200),          *)
(* findUserOrders and findMerchantOrders (orders.service.ts:355, :393).    *)
(* All three ask for one page of the rows of one owner, newest first, and  *)
(* for their number, in two queries that Promise.all sends together, while *)
(* other requests insert rows.  A client reads page after page.            *)
(*                                                                         *)
(* createdAt is set, in milliseconds, some time before the commit of the   *)
(* transaction makes the row visible: rows appear behind newer ones, and   *)
(* two rows may bear one time, which leaves their order to each query.     *)
(***************************************************************************)
EXTENDS Integers, FiniteSets

CONSTANTS
    Entry,    \* rows that may be inserted
    Opening,  \* Opening[e]: createdAt of a row that is there at first
    InFlight, \* InFlight[e]: of a row inserted at first, but not committed
    Limits,   \* how many rows of a page clients ask for
    MaxTime   \* bound: how often the clock ticks

ASSUME ListingAssumption ==
    /\ Limits \subseteq Nat \ {0}
    /\ MaxTime \in Nat
    /\ DOMAIN Opening \subseteq Entry /\ IsFiniteSet(DOMAIN Opening)
    /\ \A e \in DOMAIN Opening : Opening[e] \in Int /\ Opening[e] <= 0
    /\ DOMAIN InFlight \subseteq Entry \ DOMAIN Opening
    /\ \A e \in DOMAIN InFlight : InFlight[e] \in Int /\ InFlight[e] <= 0

VARIABLES
    now,       \* the clock, in milliseconds
    createdAt, \* createdAt[e]: of the rows that were sent so far
    rows,      \* rows that are committed
    limit,     \* rows of a page, as the client asks
    page,      \* the page that the client has asked for
    data,      \* {} or, as a singleton, the rows of that page
    total,     \* {} or, as a singleton, the number of rows
    until,     \* how the client sees that it has everything
    got,       \* rows that it was given
    again      \* history: rows that it was given a second time

listingVars == <<now, createdAt, rows, limit, page, data, total, until, got, again>>

clientVars == <<limit, page, data, total, until, got, again>>

ListingInit ==
    /\ now = 0
    /\ createdAt = [e \in DOMAIN Opening \cup DOMAIN InFlight |->
                      IF e \in DOMAIN Opening THEN Opening[e] ELSE InFlight[e]]
    /\ rows = DOMAIN Opening
    /\ limit \in Limits
    /\ page = 1
    /\ data = {} /\ total = {}
    /\ until \in {"shortPage", "totalPages"}
    /\ got = {} /\ again = {}

-----------------------------------------------------------------------------
(* Those who write.                                                        *)

Tick ==
    /\ now < MaxTime
    /\ now' = now + 1
    /\ UNCHANGED <<createdAt, rows, clientVars>>

\* INSERT, inside a transaction.
Insert(e) ==
    /\ e \notin DOMAIN createdAt
    /\ createdAt' = [f \in DOMAIN createdAt \cup {e} |->
                        IF f = e THEN now ELSE createdAt[f]]
    /\ UNCHANGED <<now, rows, clientVars>>

\* A transaction that is rolled back never gets here.
CommitRow(e) ==
    /\ e \in DOMAIN createdAt \ rows
    /\ rows' = rows \cup {e}
    /\ UNCHANGED <<now, createdAt, clientVars>>

-----------------------------------------------------------------------------
(* A call.                                                                 *)

\* The n newest of S (ORDER BY createdAt DESC), equal times either way round.
Newest(S, n) ==
    {P \in SUBSET S :
        /\ Cardinality(P) = IF n < Cardinality(S) THEN n ELSE Cardinality(S)
        /\ \A e \in P, f \in S \ P : createdAt[e] >= createdAt[f]}

\* Mutant of Skip: pages are counted from zero.
SkipOne(p) == p * limit

\* Mutant of Skip: a page is taken for a row.
SkipRows(p) == p - 1

Skip(p) == (p - 1) * limit

FetchPage ==
    /\ data = {}
    /\ \E newer \in Newest(rows, Skip(page)) :
          \E found \in Newest(rows \ newer, limit) : data' = {found}
    /\ UNCHANGED <<now, createdAt, rows, limit, page, total, until, got, again>>

CountRows ==
    /\ total = {}
    /\ total' = {Cardinality(rows)}
    /\ UNCHANGED <<now, createdAt, rows, limit, page, data, until, got, again>>

\* Mutant of TotalPages: Math.floor.
FullPages(n) == n \div limit

\* Math.ceil(total / limit)
TotalPages(n) == (n + limit - 1) \div limit

\* The answer says that there is nothing further.
LastPage(found, n) ==
    IF until = "shortPage" THEN Cardinality(found) < limit
                           ELSE page >= TotalPages(n)

\* Promise.all is over.  The client asks for the next page, or has finished.
Receive ==
    /\ page # 0
    /\ \E found \in data, n \in total :
          /\ got' = got \cup found
          /\ again' = again \cup (got \cap found)
          /\ page' = IF LastPage(found, n) THEN 0 ELSE page + 1
          /\ IF LastPage(found, n) THEN UNCHANGED <<data, total>>
                                   ELSE data' = {} /\ total' = {}
    /\ UNCHANGED <<now, createdAt, rows, limit, until>>

Finished == page = 0

ListingNext ==
    \/ Tick
    \/ \E e \in Entry : Insert(e) \/ CommitRow(e)
    \/ FetchPage \/ CountRows \/ Receive
    \/ Finished /\ UNCHANGED listingVars

ListingSpec == ListingInit /\ [][ListingNext]_listingVars

-----------------------------------------------------------------------------
(* Properties.                                                             *)

\* Rows that came while the client was reading.
Arrived == rows \ DOMAIN Opening

\* No other row bears the time of e.
Alone(e) == \A f \in rows \ {e} : createdAt[f] # createdAt[e]

\* Rows that were there when the client began and that it was not given.
Missed == {e \in DOMAIN Opening \ got : Alone(e)}

\* A client that reads until a page is not full misses nothing that was there
\* when it began, whatever is committed meanwhile and however late: new rows
\* only move others to later pages (wallets.service.ts:210-218).  Two rows of
\* one millisecond may change places between two queries, and one be skipped.
NothingSkipped == Finished /\ until = "shortPage" => Missed = {}

\* A client that reads up to meta.totalPages may stop early, since the number
\* of rows and the page are two queries (wallets.service.ts:212-222), but
\* misses at most as many rows as appeared meanwhile: none in a statement
\* at rest, where the last page may be partly full or full.
MissesAtMostArrivals ==
    Finished /\ until = "totalPages" => Cardinality(Missed) <= Cardinality(Arrived)

\* A row is shown twice only if another came in between, or bears its time.
RepeatedOnlyIfMoved == Arrived = {} => \A e \in again : ~Alone(e)

-----------------------------------------------------------------------------
(* The inductive invariant behind them.                                    *)

ListingTypeOK ==
    /\ IsFiniteSet(rows) /\ DOMAIN Opening \subseteq rows
    /\ rows \subseteq DOMAIN createdAt
    /\ now \in Int /\ \A e \in DOMAIN createdAt : createdAt[e] \in Int
    /\ limit \in Nat \ {0} /\ page \in Nat
    /\ until \in {"shortPage", "totalPages"}
    /\ \A found \in data : found \subseteq rows
    /\ got \subseteq rows /\ again \subseteq rows
    /\ \A n \in total : n \in Nat

\* The rows that are listed before e, and the place of e after them.
Newer(e) == {f \in rows : createdAt[f] > createdAt[e]}

Ahead(e) == Cardinality(Newer(e))

\* What the client has been given: the rows that were there at first are
\* given as far as their place in the list is on a page that it has read, and
\* the page that it is about to receive goes on from there, to the last of
\* them if it is not full.
ReadSoFar ==
    page # 0 =>
        \A e \in DOMAIN Opening : Alone(e) =>
            /\ Ahead(e) < Skip(page) => e \in got
            /\ \A found \in data :
                  \/ e \in got \cup found
                  \/ Ahead(e) >= Skip(page) + limit /\ Cardinality(found) >= limit

\* The number of rows in the answer covers the rows that were there at first.
CountedEnough == \A n \in total : n >= Cardinality(DOMAIN Opening)

\* In a list at rest, the pages that were read end where the next one begins.
PagesApart ==
    Arrived = {} /\ page # 0 =>
        \A e \in rows : Alone(e) =>
            /\ e \in got => Ahead(e) < Skip(page)
            /\ \A found \in data : e \in found =>
                  Skip(page) <= Ahead(e) /\ Ahead(e) < Skip(page) + limit

\* What is read so far and what is still to come, with the properties.
ListingInv ==
    /\ ListingTypeOK
    /\ ReadSoFar
    /\ CountedEnough
    /\ PagesApart
    /\ NothingSkipped
    /\ MissesAtMostArrivals
    /\ RepeatedOnlyIfMoved
=============================================================================
