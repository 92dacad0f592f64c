---------------------------- MODULE ListingsProofs ----------------------------
(***************************************************************************)
(* What a client who reads page after page may count on, for any number of *)
(* rows, any size of a page and any insertions in between.  The argument   *)
(* goes by the place of a row in the list, which is the number of rows     *)
(* that are newer: it only grows, and a page holds an interval of places.  *)
(***************************************************************************)
EXTENDS Listings, FiniteSetTheorems, TLAPS

\* The number of rows of two sets that have none in common.
LEMMA DisjointSum ==
    ASSUME NEW S, NEW T, IsFiniteSet(S), IsFiniteSet(T), S \cap T = {}
    PROVE  /\ IsFiniteSet(S \cup T)
           /\ Cardinality(S \cup T) = Cardinality(S) + Cardinality(T)
           /\ Cardinality(S) \in Nat /\ Cardinality(T) \in Nat
<1>1. Cardinality(S \cap T) = 0
  BY FS_EmptySet
<1>2. Cardinality(S) \in Nat /\ Cardinality(T) \in Nat
  BY FS_CardinalityType
<1>3. /\ IsFiniteSet(S \cup T)
      /\ Cardinality(S \cup T) =
            Cardinality(S) + Cardinality(T) - Cardinality(S \cap T)
  BY FS_Union
<1> QED
  BY <1>1, <1>2, <1>3

LEMMA Smaller ==
    ASSUME NEW S, IsFiniteSet(S), NEW T, T \subseteq S
    PROVE  /\ IsFiniteSet(T) /\ Cardinality(T) <= Cardinality(S)
           /\ Cardinality(T) \in Nat /\ Cardinality(S) \in Nat
           /\ T # S => Cardinality(T) < Cardinality(S)
<1>1. IsFiniteSet(T) /\ Cardinality(T) <= Cardinality(S)
      /\ (Cardinality(S) = Cardinality(T) => S = T)
  BY FS_Subset
<1>2. Cardinality(T) \in Nat /\ Cardinality(S) \in Nat
  BY <1>1, FS_CardinalityType
<1> QED
  BY <1>1, <1>2

\* The n newest of some rows are those with fewer than n rows before them.
LEMMA NewestByPlace ==
    ASSUME NEW S, IsFiniteSet(S), \A f \in S : createdAt[f] \in Int,
           NEW n \in Nat, NEW P \in Newest(S, n),
           NEW e \in S, \A f \in S \ {e} : createdAt[f] # createdAt[e],
           NEW A, A = {f \in S : createdAt[f] > createdAt[e]}
    PROVE  /\ IsFiniteSet(P) /\ P \subseteq S
           /\ IsFiniteSet(A) /\ Cardinality(A) \in Nat
           /\ e \in P => Cardinality(A) < n
           /\ e \notin P => Cardinality(A) >= n /\ Cardinality(P) = n
<1>1. /\ P \subseteq S
      /\ Cardinality(P) = IF n < Cardinality(S) THEN n ELSE Cardinality(S)
      /\ \A f \in P, g \in S \ P : createdAt[f] >= createdAt[g]
  BY DEF Newest
<1>2. /\ IsFiniteSet(P) /\ Cardinality(P) \in Nat /\ Cardinality(S) \in Nat
      /\ P # S => Cardinality(P) < Cardinality(S)
  BY <1>1, Smaller
<1>3. IsFiniteSet(A) /\ Cardinality(A) \in Nat
  BY Smaller
<1>4. CASE e \in P
  <2>1. A \subseteq P /\ A # P
    BY <1>1, <1>4
  <2>2. Cardinality(A) < Cardinality(P)
    BY <1>2, <2>1, Smaller
  <2> QED
    BY <1>1, <1>2, <1>3, <1>4, <2>2
<1>5. CASE e \notin P
  <2>1. P \subseteq A
    BY <1>1, <1>5
  <2>2. Cardinality(P) <= Cardinality(A)
    BY <1>3, <2>1, Smaller
  <2>3. Cardinality(P) = n
    BY <1>1, <1>2, <1>5
  <2> QED
    BY <1>1, <1>2, <1>3, <1>5, <2>2, <2>3
<1> QED
  BY <1>4, <1>5

-----------------------------------------------------------------------------
(* A page.                                                                 *)

LEMMA PlaceType ==
    ASSUME ListingTypeOK, NEW e
    PROVE  /\ IsFiniteSet(Newer(e)) /\ Ahead(e) \in Nat
           /\ Newer(e) \subseteq rows
<1>1. Newer(e) \subseteq rows
  BY DEF Newer
<1> QED
  BY <1>1, Smaller DEF ListingTypeOK, Ahead

LEMMA SkipType ==
    ASSUME ListingTypeOK, page # 0
    PROVE  Skip(page) \in Nat
BY DEF ListingTypeOK, Skip

\* A row that is alone in its millisecond is on the page that its place is on.
LEMMA PageByPlace ==
    ASSUME ListingTypeOK, page # 0, NEW newer \in Newest(rows, Skip(page)),
           NEW found \in Newest(rows \ newer, limit), NEW e \in rows, Alone(e)
    PROVE  /\ e \in newer => Ahead(e) < Skip(page)
           /\ e \in found =>
                 Skip(page) <= Ahead(e) /\ Ahead(e) < Skip(page) + limit
           /\ e \notin newer \cup found =>
                 Ahead(e) >= Skip(page) + limit /\ Cardinality(found) = limit
<1> DEFINE A == {f \in rows \ newer : createdAt[f] > createdAt[e]}
<1>1. /\ IsFiniteSet(rows) /\ \A f \in rows : createdAt[f] \in Int
      /\ limit \in Nat
      /\ \A f \in rows \ {e} : createdAt[f] # createdAt[e]
  BY DEF ListingTypeOK, Alone
<1>2. Skip(page) \in Nat
  BY SkipType
<1>3. /\ IsFiniteSet(newer) /\ newer \subseteq rows
      /\ e \in newer => Ahead(e) < Skip(page)
      /\ e \notin newer => Cardinality(newer) = Skip(page)
  <2>1. Newer(e) = {f \in rows : createdAt[f] > createdAt[e]}
    BY DEF Newer
  <2>2. newer \in Newest(rows, Skip(page))
    OBVIOUS
  <2> HIDE DEF A
  <2>3. /\ IsFiniteSet(newer) /\ newer \subseteq rows
        /\ e \in newer => Cardinality(Newer(e)) < Skip(page)
        /\ e \notin newer => Cardinality(newer) = Skip(page)
    BY <1>1, <1>2, <2>1, <2>2, NewestByPlace
  <2> QED
    BY <2>3 DEF Ahead
<1>4. IsFiniteSet(rows \ newer)
  BY <1>1, Smaller
<1>5. found \subseteq rows \ newer
  BY DEF Newest
<1>6. ASSUME e \notin newer
      PROVE  /\ Ahead(e) = Skip(page) + Cardinality(A)
             /\ Cardinality(A) \in Nat
             /\ e \in found => Cardinality(A) < limit
             /\ e \notin found => Cardinality(A) >= limit /\ Cardinality(found) = limit
  <2>1. e \in rows \ newer
    BY <1>6
  <2>2. /\ IsFiniteSet(A) /\ Cardinality(A) \in Nat
        /\ e \in found => Cardinality(A) < limit
        /\ e \notin found => Cardinality(A) >= limit /\ Cardinality(found) = limit
    BY <1>1, <1>4, <2>1, NewestByPlace
  <2>3. \A f \in newer : createdAt[f] > createdAt[e]
    <3>1. \A f \in newer, g \in rows \ newer : createdAt[f] >= createdAt[g]
      BY DEF Newest
    <3>2. \A f \in newer : createdAt[f] \in Int /\ createdAt[f] # createdAt[e]
      BY <1>1, <1>3, <1>6
    <3> QED
      BY <1>1, <2>1, <3>1, <3>2
  <2>4. Newer(e) = newer \cup A /\ newer \cap A = {}
    BY <1>3, <2>3 DEF Newer
  <2>5. Cardinality(newer \cup A) = Cardinality(newer) + Cardinality(A)
    BY <1>3, <2>2, <2>4, DisjointSum
  <2> QED
    BY <1>3, <1>6, <2>2, <2>4, <2>5 DEF Ahead
<1> HIDE DEF A
<1> QED
  BY <1>1, <1>2, <1>3, <1>5, <1>6

\* Insertions move rows to later places, and give none a time of its own.
LEMMA PlacesGrow ==
    ASSUME ListingTypeOK, ListingTypeOK', rows \subseteq rows',
           \A f \in rows : createdAt'[f] = createdAt[f], NEW e \in rows
    PROVE  /\ Ahead(e) <= Ahead(e)'
           /\ Alone(e)' => Alone(e)
<1>1. Newer(e) \subseteq Newer(e)'
  BY DEF Newer
<1>2. IsFiniteSet(Newer(e)')
  <2>1. Newer(e)' \subseteq rows' /\ IsFiniteSet(rows')
    BY DEF Newer, ListingTypeOK
  <2> QED
    BY <2>1, Smaller
<1>3. Ahead(e) <= Ahead(e)'
  BY <1>1, <1>2, Smaller DEF Ahead
<1>4. Alone(e)' => Alone(e)
  BY DEF Alone
<1> QED
  BY <1>3, <1>4

-----------------------------------------------------------------------------
(* The end of the reading.                                                 *)

\* Math.ceil: so many pages have room for all rows.
LEMMA PagesSuffice ==
    ASSUME NEW n \in Nat, NEW l \in Nat \ {0}
    PROVE  /\ (n + l - 1) \div l \in Nat
           /\ ((n + l - 1) \div l) * l >= n
OBVIOUS

\* The newest of the rows that were missed.
LEMMA NewestMissed ==
    ASSUME ListingTypeOK, NEW M, M \subseteq rows, M # {}
    PROVE  \E e \in M : \A f \in M : ~ (createdAt[f] > createdAt[e])
<1> DEFINE T == {Newer(e) : e \in M}
<1>1. \A e \in M : Newer(e) \in SUBSET rows /\ IsFiniteSet(Newer(e))
  BY PlaceType
<1>2. T \subseteq FiniteSubsetsOf(rows) /\ T # {}
  BY <1>1 DEF FiniteSubsetsOf
<1>3. IsWellFoundedOn(StrictSubsetOrdering(rows), FiniteSubsetsOf(rows))
  BY FS_StrictSubsetOrderingWellFounded
<1>4. \E A \in T : \A B \in T : ~ (<<B, A>> \in StrictSubsetOrdering(rows))
  <2> HIDE DEF T
  <2> QED
    BY <1>2, <1>3, WFMin
<1>5. PICK e \in M : \A f \in M : ~ (<<Newer(f), Newer(e)>> \in StrictSubsetOrdering(rows))
  BY <1>4
<1>6. ASSUME NEW f \in M, createdAt[f] > createdAt[e] PROVE FALSE
  <2>1. e \in rows /\ f \in rows /\ \A g \in rows : createdAt[g] \in Int
    BY DEF ListingTypeOK
  <2>2. Newer(f) \subseteq Newer(e) /\ f \in Newer(e) /\ f \notin Newer(f)
    BY <1>6, <2>1 DEF Newer
  <2>3. <<Newer(f), Newer(e)>> \in (SUBSET rows) \X (SUBSET rows)
    BY <1>1
  <2> QED
    BY <1>5, <2>2, <2>3 DEF StrictSubsetOrdering
<1> QED
  BY <1>6

\* Rows that were missed take no more places than the rows that arrived, if
\* each of them is behind as many rows as there were at first.
LEMMA MissedAreFew ==
    ASSUME ListingTypeOK, NEW M, M \subseteq rows,
           \A e \in M : Ahead(e) >= Cardinality(DOMAIN Opening)
    PROVE  Cardinality(M) <= Cardinality(Arrived)
<1>1. /\ IsFiniteSet(rows) /\ Cardinality(rows) \in Nat
      /\ DOMAIN Opening \subseteq rows
  BY FS_CardinalityType DEF ListingTypeOK
<1>2. /\ IsFiniteSet(M) /\ Cardinality(M) \in Nat
      /\ IsFiniteSet(Arrived) /\ Cardinality(Arrived) \in Nat
      /\ IsFiniteSet(DOMAIN Opening) /\ Cardinality(DOMAIN Opening) \in Nat
  BY <1>1, Smaller DEF Arrived
<1>3. CASE M = {}
  BY <1>2, <1>3, FS_EmptySet
<1>4. CASE M # {}
  <2>1. PICK e \in M : \A f \in M : ~ (createdAt[f] > createdAt[e])
    BY <1>4, NewestMissed
  <2>2. Newer(e) \cap M = {} /\ Newer(e) \cup M \subseteq rows
    BY <2>1, PlaceType DEF Newer
  <2>3. IsFiniteSet(Newer(e)) /\ Ahead(e) \in Nat
    BY PlaceType
  <2>4. Ahead(e) + Cardinality(M) <= Cardinality(rows)
    <3>1. Cardinality(Newer(e) \cup M) = Cardinality(Newer(e)) + Cardinality(M)
      BY <1>2, <2>2, <2>3, DisjointSum
    <3>2. Cardinality(Newer(e) \cup M) <= Cardinality(rows)
      BY <1>1, <2>2, Smaller
    <3> QED
      BY <3>1, <3>2 DEF Ahead
  <2>5. Cardinality(rows) = Cardinality(DOMAIN Opening) + Cardinality(Arrived)
    <3>1. rows = DOMAIN Opening \cup Arrived /\ DOMAIN Opening \cap Arrived = {}
      BY <1>1 DEF Arrived
    <3> QED
      BY <1>2, <3>1, DisjointSum
  <2>6. Ahead(e) >= Cardinality(DOMAIN Opening)
    OBVIOUS
  <2> QED
    BY <1>1, <1>2, <2>3, <2>4, <2>5, <2>6
<1> QED
  BY <1>3, <1>4

-----------------------------------------------------------------------------
(* The invariant.                                                          *)

\* What is seen of a state where rows may have come, the client stands still.
LEMMA WritersKeep ==
    ASSUME ListingInv, ListingTypeOK', rows \subseteq rows',
           \A f \in rows : createdAt'[f] = createdAt[f],
           UNCHANGED <<limit, page, data, total, until, got, again>>
    PROVE  ListingInv'
<1> USE DEF ListingInv
<1>1. ASSUME NEW e \in rows
      PROVE  /\ Ahead(e) <= Ahead(e)' /\ (Alone(e)' => Alone(e))
             /\ Ahead(e) \in Nat /\ Ahead(e)' \in Nat
  <2>1. Ahead(e) <= Ahead(e)' /\ (Alone(e)' => Alone(e))
    BY PlacesGrow
  <2>2. Ahead(e) \in Nat
    BY PlaceType
  <2>3. Ahead(e)' \in Nat
    <3>1. Newer(e)' \subseteq rows' /\ IsFiniteSet(rows')
      BY DEF Newer, ListingTypeOK
    <3> QED
      BY <3>1, Smaller DEF Ahead
  <2> QED
    BY <2>1, <2>2, <2>3
<1>2. DOMAIN Opening \subseteq rows /\ limit \in Nat
  BY DEF ListingTypeOK
<1>3. page # 0 => Skip(page)' = Skip(page) /\ Skip(page) \in Nat
  BY SkipType DEF Skip
<1>4. ReadSoFar'
  BY <1>1, <1>2, <1>3 DEF ReadSoFar
<1>5. CountedEnough'
  BY DEF CountedEnough
<1>6. Missed' \subseteq Missed /\ Arrived \subseteq Arrived'
  BY <1>1, <1>2 DEF Missed, Arrived
<1>7. NothingSkipped'
  BY <1>6 DEF NothingSkipped, Finished
<1>8. MissesAtMostArrivals'
  <2>1. IsFiniteSet(Missed) /\ IsFiniteSet(Arrived')
    <3>1. Missed \subseteq rows /\ Arrived' \subseteq rows'
      BY <1>2 DEF Missed, Arrived
    <3> QED
      BY <3>1, Smaller DEF ListingTypeOK
  <2>2. /\ Cardinality(Missed') <= Cardinality(Missed)
        /\ Cardinality(Arrived) <= Cardinality(Arrived')
        /\ Cardinality(Missed) \in Nat /\ Cardinality(Missed') \in Nat
        /\ Cardinality(Arrived) \in Nat /\ Cardinality(Arrived') \in Nat
    BY <1>6, <2>1, Smaller
  <2> QED
    BY <2>2 DEF MissesAtMostArrivals, Finished
<1>9. Arrived' = {} => rows' = rows /\ Arrived = {}
  BY <1>2, <1>6 DEF Arrived
<1>10. rows' = rows => \A e \in rows : Ahead(e)' = Ahead(e) /\ (Alone(e) <=> Alone(e)')
  BY DEF Ahead, Newer, Alone
<1>11. PagesApart'
  BY <1>3, <1>9, <1>10 DEF PagesApart
<1>12. RepeatedOnlyIfMoved'
  <2>1. again \subseteq rows
    BY DEF ListingTypeOK
  <2> QED
    BY <1>9, <1>10, <2>1 DEF RepeatedOnlyIfMoved
<1> QED
  BY <1>4, <1>5, <1>7, <1>8, <1>11, <1>12

LEMMA FetchKeeps ==
    ASSUME ListingInv, FetchPage
    PROVE  ListingInv'
<1> USE DEF ListingInv
<1>1. PICK newer \in Newest(rows, Skip(page)) :
        \E found \in Newest(rows \ newer, limit) : data' = {found}
  BY DEF FetchPage
<1>2. PICK found \in Newest(rows \ newer, limit) : data' = {found}
  BY <1>1
<1>3. UNCHANGED <<now, createdAt, rows, limit, page, total, until, got, again>>
  BY DEF FetchPage
<1>4. found \subseteq rows \ newer
  BY DEF Newest
<1>5. ListingTypeOK'
  BY <1>2, <1>3, <1>4 DEF ListingTypeOK
<1>6. /\ \A e : Ahead(e)' = Ahead(e) /\ (Alone(e) <=> Alone(e)')
      /\ Skip(page)' = Skip(page)
  BY <1>3 DEF Ahead, Newer, Alone, Skip
<1>7. DOMAIN Opening \subseteq rows
  BY DEF ListingTypeOK
<1>8. ASSUME page # 0, NEW e \in rows, Alone(e)
      PROVE  /\ e \in newer => Ahead(e) < Skip(page)
             /\ e \in found => Skip(page) <= Ahead(e) /\ Ahead(e) < Skip(page) + limit
             /\ e \notin newer \cup found =>
                   Ahead(e) >= Skip(page) + limit /\ Cardinality(found) = limit
  BY <1>8, PageByPlace
<1>9. limit \in Nat
  BY DEF ListingTypeOK
<1>10. ReadSoFar'
  <2> SUFFICES ASSUME page # 0, NEW e \in DOMAIN Opening, Alone(e)
               PROVE  /\ Ahead(e) < Skip(page) => e \in got
                      /\ \/ e \in got \cup found
                         \/ /\ Ahead(e) >= Skip(page) + limit
                            /\ Cardinality(found) >= limit
    BY <1>2, <1>3, <1>6 DEF ReadSoFar
  <2>1. Ahead(e) < Skip(page) => e \in got
    BY DEF ReadSoFar
  <2> QED
    BY <1>7, <1>8, <1>9, <2>1
<1>11. PagesApart'
  <2> SUFFICES ASSUME Arrived = {}, page # 0, NEW e \in rows, Alone(e)
               PROVE  /\ e \in got => Ahead(e) < Skip(page)
                      /\ e \in found =>
                            Skip(page) <= Ahead(e) /\ Ahead(e) < Skip(page) + limit
    BY <1>2, <1>3, <1>6 DEF PagesApart, Arrived
  <2> QED
    BY <1>8 DEF PagesApart
<1>12. CountedEnough' /\ NothingSkipped' /\ MissesAtMostArrivals' /\ RepeatedOnlyIfMoved'
  BY <1>3
     DEF CountedEnough, NothingSkipped, MissesAtMostArrivals, RepeatedOnlyIfMoved, Finished,
     Missed, Arrived, Alone
<1> QED
  BY <1>5, <1>10, <1>11, <1>12

LEMMA CountKeeps ==
    ASSUME ListingInv, CountRows
    PROVE  ListingInv'
<1> USE DEF ListingInv
<1>1. /\ total' = {Cardinality(rows)}
      /\ UNCHANGED <<now, createdAt, rows, limit, page, data, until, got, again>>
  BY DEF CountRows
<1>2. /\ Cardinality(rows) \in Nat
      /\ Cardinality(rows) >= Cardinality(DOMAIN Opening)
  BY Smaller DEF ListingTypeOK
<1>3. ListingTypeOK' /\ CountedEnough'
  BY <1>1, <1>2 DEF ListingTypeOK, CountedEnough
<1>4. ReadSoFar' /\ PagesApart'
  BY <1>1 DEF ReadSoFar, PagesApart, Arrived, Ahead, Newer, Alone, Skip
<1>5. NothingSkipped' /\ MissesAtMostArrivals' /\ RepeatedOnlyIfMoved'
  BY <1>1
     DEF NothingSkipped, MissesAtMostArrivals, RepeatedOnlyIfMoved, Finished, Missed,
     Arrived, Alone
<1> QED
  BY <1>3, <1>4, <1>5

LEMMA ReceiveKeeps ==
    ASSUME ListingInv, Receive
    PROVE  ListingInv'
<1> USE DEF ListingInv
<1>1. PICK found \in data, n \in total :
        /\ got' = got \cup found
        /\ again' = again \cup (got \cap found)
        /\ page' = IF LastPage(found, n) THEN 0 ELSE page + 1
        /\ IF LastPage(found, n) THEN UNCHANGED <<data, total>>
                                 ELSE data' = {} /\ total' = {}
  BY DEF Receive
<1>2. page # 0 /\ UNCHANGED <<now, createdAt, rows, limit, until>>
  BY DEF Receive
<1>3. /\ \A e : Ahead(e)' = Ahead(e) /\ (Alone(e) <=> Alone(e)')
      /\ Arrived' = Arrived
  BY <1>2 DEF Ahead, Newer, Alone, Arrived
<1>4. /\ page \in Nat /\ limit \in Nat \ {0} /\ n \in Nat
      /\ DOMAIN Opening \subseteq rows /\ found \subseteq rows
      /\ IsFiniteSet(rows)
  BY DEF ListingTypeOK
<1>5. ListingTypeOK'
  <2>1. data' \subseteq data /\ total' \subseteq total /\ page' \in Nat
    BY <1>1, <1>4
  <2>2. got' \subseteq rows /\ again' \subseteq rows
    BY <1>1, <1>4 DEF ListingTypeOK
  <2> QED
    BY <1>2, <2>1, <2>2 DEF ListingTypeOK
<1>6. Skip(page) \in Nat /\ Skip(page) + limit = page * limit
      /\ (page + 1 - 1) * limit = page * limit
  BY <1>2, <1>4, SkipType DEF Skip
<1>7. ASSUME NEW e \in DOMAIN Opening, Alone(e)
      PROVE  \/ e \in got'
             \/ Ahead(e) >= page * limit /\ Cardinality(found) >= limit
  BY <1>1, <1>2, <1>6, <1>7 DEF ReadSoFar
<1>8. \A e \in rows : Ahead(e) \in Nat
  BY PlaceType
<1>9. ReadSoFar'
  <2>1. CASE LastPage(found, n)
    BY <1>1, <2>1 DEF ReadSoFar
  <2>2. CASE ~LastPage(found, n)
    <3>1. page' = page + 1 /\ data' = {} /\ Skip(page)' = page * limit
      <4>1. page' = page + 1 /\ data' = {}
        BY <1>1, <2>2
      <4>2. Skip(page)' = (page + 1 - 1) * limit
        BY <1>2, <1>4, <4>1 DEF Skip
      <4> QED
        BY <1>6, <4>1, <4>2
    <3>2. page * limit \in Nat
      BY <1>4
    <3> QED
      BY <1>3, <1>4, <1>7, <1>8, <3>1, <3>2 DEF ReadSoFar
  <2> QED
    BY <2>1, <2>2
<1>10. CountedEnough'
  BY <1>1 DEF CountedEnough
<1>11. ASSUME Arrived = {}, NEW e \in rows, Alone(e)
       PROVE  /\ e \in got => Ahead(e) < Skip(page)
              /\ e \in found => Skip(page) <= Ahead(e) /\ Ahead(e) < Skip(page) + limit
  BY <1>2, <1>11 DEF PagesApart
<1>12. PagesApart'
  <2>1. CASE LastPage(found, n)
    BY <1>1, <2>1 DEF PagesApart
  <2>2. CASE ~LastPage(found, n)
    <3>1. page' = page + 1 /\ data' = {} /\ Skip(page)' = page * limit
      <4>1. page' = page + 1 /\ data' = {}
        BY <1>1, <2>2
      <4>2. Skip(page)' = (page + 1 - 1) * limit
        BY <1>2, <1>4, <4>1 DEF Skip
      <4> QED
        BY <1>6, <4>1, <4>2
    <3>2. page * limit \in Nat
      BY <1>4
    <3>3. ASSUME Arrived = {}, NEW e \in rows, Alone(e), e \in got'
          PROVE  Ahead(e) < page * limit
      BY <1>1, <1>4, <1>6, <1>8, <1>11, <3>2, <3>3
    <3> QED
      BY <1>2, <1>3, <3>1, <3>3 DEF PagesApart
  <2> QED
    BY <2>1, <2>2
<1>13. RepeatedOnlyIfMoved'
  <2>1. ASSUME Arrived = {}, NEW e \in got \cap found, Alone(e) PROVE FALSE
    <3>1. e \in rows
      BY <1>4
    <3> QED
      BY <1>6, <1>8, <1>11, <2>1, <3>1
  <2> QED
    BY <1>1, <1>3, <2>1 DEF RepeatedOnlyIfMoved
<1>14. /\ \A e \in Missed' : e \in DOMAIN Opening /\ e \notin got' /\ Alone(e)
       /\ Missed' \subseteq rows
  BY <1>3, <1>4 DEF Missed
<1>15. NothingSkipped'
  <2> SUFFICES ASSUME page' = 0, until = "shortPage" PROVE Missed' = {}
    BY <1>2 DEF NothingSkipped, Finished
  <2>1. Cardinality(found) < limit
    BY <1>1, <1>4 DEF LastPage
  <2>2. Cardinality(found) \in Nat
    BY <1>4, Smaller
  <2> QED
    BY <1>4, <1>7, <1>14, <2>1, <2>2
<1>16. MissesAtMostArrivals'
  <2> SUFFICES ASSUME page' = 0, until = "totalPages"
               PROVE  Cardinality(Missed') <= Cardinality(Arrived)
    BY <1>2, <1>3 DEF MissesAtMostArrivals, Finished
  <2>1. page >= TotalPages(n)
    BY <1>1, <1>4 DEF LastPage
  <2>2. page * limit >= n
    <3>1. TotalPages(n) \in Nat /\ TotalPages(n) * limit >= n
      BY <1>4, PagesSuffice DEF TotalPages
    <3>2. page * limit >= TotalPages(n) * limit
      <4> DEFINE q == TotalPages(n)
      <4> HIDE DEF q
      <4>1. \A a, b, c \in Nat : a >= b => a * c >= b * c
        OBVIOUS
      <4> QED
        BY <1>4, <2>1, <3>1, <4>1
    <3>3. page * limit \in Nat /\ TotalPages(n) * limit \in Nat
      BY <1>4, <3>1
    <3> QED
      BY <1>4, <3>1, <3>2, <3>3
  <2>3. n >= Cardinality(DOMAIN Opening)
    BY DEF CountedEnough
  <2>4. Cardinality(DOMAIN Opening) \in Nat /\ page * limit \in Nat
    BY <1>4, Smaller
  <2>5. \A e \in Missed' : Ahead(e) >= Cardinality(DOMAIN Opening)
    BY <1>4, <1>7, <1>8, <1>14, <2>2, <2>3, <2>4
  <2> QED
    BY <1>14, <2>5, MissedAreFew
<1> QED
  BY <1>5, <1>9, <1>10, <1>12, <1>13, <1>15, <1>16

LEMMA ListingStep ==
    ASSUME ListingInv, [ListingNext]_listingVars
    PROVE  ListingInv'
<1>1. ListingTypeOK
  BY DEF ListingInv
<1>2. CASE Tick \/ UNCHANGED listingVars
  <2>1. ListingTypeOK' /\ UNCHANGED <<createdAt, rows, clientVars>>
    BY <1>1, <1>2 DEF ListingTypeOK, Tick, listingVars, clientVars
  <2> QED
    BY <2>1, WritersKeep DEF clientVars
<1>3. ASSUME NEW e \in Entry, Insert(e) PROVE ListingInv'
  <2>1. ListingTypeOK'
    BY <1>1, <1>3 DEF ListingTypeOK, Insert, clientVars
  <2>2. rows' = rows /\ \A f \in rows : createdAt'[f] = createdAt[f]
    BY <1>1, <1>3 DEF ListingTypeOK, Insert
  <2> QED
    BY <1>3, <2>1, <2>2, WritersKeep DEF Insert, clientVars
<1>4. ASSUME NEW e \in Entry, CommitRow(e) PROVE ListingInv'
  <2>1. IsFiniteSet(rows')
    BY <1>1, <1>4, FS_AddElement DEF ListingTypeOK, CommitRow
  <2>2. ListingTypeOK'
    BY <1>1, <1>4, <2>1 DEF ListingTypeOK, CommitRow, clientVars
  <2> QED
    BY <1>4, <2>2, WritersKeep DEF CommitRow, clientVars
<1> QED
  BY <1>2, <1>3, <1>4, FetchKeeps, CountKeeps, ReceiveKeeps DEF ListingNext

LEMMA ListingStart == ListingInit => ListingInv
<1> SUFFICES ASSUME ListingInit PROVE ListingInv
  OBVIOUS
<1>1. /\ rows = DOMAIN Opening
      /\ createdAt = [e \in DOMAIN Opening \cup DOMAIN InFlight |->
                        IF e \in DOMAIN Opening THEN Opening[e] ELSE InFlight[e]]
      /\ data = {} /\ total = {} /\ got = {} /\ again = {} /\ page = 1
  BY DEF ListingInit
<1>2. ListingTypeOK
  BY <1>1, ListingAssumption DEF ListingInit, ListingTypeOK
<1>3. Skip(page) = 0
  BY <1>1, <1>2 DEF Skip, ListingTypeOK
<1>4. \A e \in rows : Ahead(e) \in Nat
  BY <1>2, PlaceType
<1>5. ReadSoFar
  BY <1>1, <1>3, <1>4 DEF ReadSoFar
<1> QED
  BY <1>1, <1>2, <1>5
     DEF ListingInv, CountedEnough, PagesApart, NothingSkipped, MissesAtMostArrivals,
     RepeatedOnlyIfMoved, Finished

LEMMA ListingHolds == ListingSpec => []ListingInv
<1>1. ListingInv /\ [ListingNext]_listingVars => ListingInv'
  BY ListingStep
<1> QED
  BY <1>1, ListingStart, PTL DEF ListingSpec

\* A client who reads until a page is not full has seen all that was there when
\* it began, however many rows come in between and however late, but for rows
\* that share their millisecond.
THEOREM ReadersSkipNothing == ListingSpec => []NothingSkipped
<1>1. ListingInv => NothingSkipped
  BY DEF ListingInv
<1> QED
  BY <1>1, ListingHolds, PTL

\* A client who reads as many pages as the answer says there are misses at most
\* as many rows as came while it read.
THEOREM ReadersMissFew == ListingSpec => []MissesAtMostArrivals
<1>1. ListingInv => MissesAtMostArrivals
  BY DEF ListingInv
<1> QED
  BY <1>1, ListingHolds, PTL

\* In a list at rest no row is shown on two pages, but for rows that share
\* their millisecond.
THEOREM RestingListRepeatsNothing == ListingSpec => []RepeatedOnlyIfMoved
<1>1. ListingInv => RepeatedOnlyIfMoved
  BY DEF ListingInv
<1> QED
  BY <1>1, ListingHolds, PTL
=============================================================================
