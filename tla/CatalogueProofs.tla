-------------------------- MODULE CatalogueProofs --------------------------
(***************************************************************************)
(* Every entry of the product cache that misleads is explained: by an edit *)
(* that is about to delete it, by one that was lost half way, or by a      *)
(* reader that put in what it had read before an edit.  The argument is    *)
(* that a write of an offer makes its writer owe the deletion of every key *)
(* that shows the offer, and that a fill that does not mislead stays right *)
(* until the next such write.                                              *)
(***************************************************************************)
EXTENDS Catalogue, TLAPS

Offer == [stock : Int, price : Nat, active : BOOLEAN]

\* A product that is not created yet is in no entry and in no reader's hands.
CatalogueTypeOK ==
    /\ DOMAIN db = Row /\ \A x \in Product : db[x] \in Offer
    /\ created \subseteq Product
    /\ DOMAIN cache = Key
    /\ DOMAIN pc = Tx
    /\ DOMAIN req = Tx /\ \A t \in Tx : req[t] \in Arrivals[t] \cup {NoRequest}
    /\ DOMAIN seen = Tx
    /\ \A x \in Product : cache[x] # Missing => x \in created
    /\ cache[ListKey] # Missing => DOMAIN cache[ListKey] \subseteq Product
    /\ \A t \in Tx :
          /\ pc[t] \in {"fetch", "fill"} => req[t].op \in {"findAll", "findOne"}
          /\ pc[t] = "fill" =>
                /\ KeyOf(req[t]) \in created \cup {ListKey}
                /\ KeyOf(req[t]) = ListKey => DOMAIN seen[t].content \subseteq Product
          /\ pc[t] = "saveProduct" => req[t].op \in {"updateProduct", "removeProduct"}

CatalogueInv == CatalogueTypeOK /\ StaleIsExplained

-----------------------------------------------------------------------------

\* What the requests that have arrived are about.
LEMMA RequestKeys ==
    ASSUME CatalogueTypeOK, NEW t \in Tx
    PROVE  /\ req[t].op \in {"findAll", "findOne"} => KeyOf(req[t]) \in Key
           /\ req[t].op \in {"updateProduct", "removeProduct"} => req[t].product \in Product
<1>1. req[t] \in Arrivals[t] \/ req[t] = NoRequest
  BY DEF CatalogueTypeOK
<1> QED
  BY <1>1, CatalogueAssumption, ProductAssumption DEF NoRequest, KeyOf, Key

\* A step that writes no offer, adds no entry and forgets no deletion.
LEMMA EntriesKept ==
    ASSUME StaleIsExplained, UNCHANGED <<db, created>>,
           \A k \in Key : \/ cache'[k] = Missing
                          \/ cache'[k] = cache[k] /\ (k \in excused => k \in excused'),
           \A k \in Key : \A t \in Tx : Invalidating(t, k) =>
              \/ Invalidating(t, k)' \/ cache'[k] = Missing \/ k \in excused'
    PROVE  StaleIsExplained'
<1> SUFFICES ASSUME NEW k \in Key, Misleads(k)'
             PROVE  k \in excused' \/ \E t \in Tx : Invalidating(t, k)'
  BY DEF StaleIsExplained
<1>1. cache'[k] # Missing
  BY DEF Misleads
<1>2. cache'[k] = cache[k] /\ (k \in excused => k \in excused')
  BY <1>1
<1>3. Misleads(k)
  BY <1>2 DEF Misleads, Outdated, Listed
<1> QED
  BY <1>1, <1>2, <1>3 DEF StaleIsExplained

LEMMA CatalogueInitInv == CatalogueInit => CatalogueInv
<1> SUFFICES ASSUME CatalogueInit PROVE CatalogueInv
  OBVIOUS
<1>1. CatalogueTypeOK
  BY DbAssumption, ProductAssumption, CatalogueAssumption
     DEF CatalogueInit, DbInit, RequestInit, CatalogueTypeOK, ProductRow, Offer, Key
<1>2. StaleIsExplained
  BY DEF CatalogueInit, StaleIsExplained, Misleads
<1> QED
  BY <1>1, <1>2 DEF CatalogueInv

-----------------------------------------------------------------------------
(* Readers.                                                                *)

LEMMA LookInCacheKeeps ==
    ASSUME CatalogueInv, NEW t \in Tx, LookInCache(t)
    PROVE  CatalogueInv'
<1>1. PICK r \in Arrivals[t] :
        /\ r.op \in {"findAll", "findOne"} /\ pc[t] = "idle"
        /\ req' = [req EXCEPT ![t] = r]
        /\ \E step \in {"done", "fetch"} : pc' = [pc EXCEPT ![t] = step]
        /\ UNCHANGED <<db, created, cache, excused, seen>>
  BY DEF LookInCache, Arrive, dbVars
<1>2. CatalogueTypeOK'
  BY <1>1 DEF CatalogueInv, CatalogueTypeOK, Key
<1>3. \A k \in Key : \A u \in Tx : Invalidating(u, k) => Invalidating(u, k)'
  BY <1>1 DEF Invalidating, CatalogueInv, CatalogueTypeOK
<1> QED
  BY <1>1, <1>2, <1>3, EntriesKept DEF CatalogueInv

LEMMA FetchKeeps ==
    ASSUME CatalogueInv, NEW t \in Tx, Fetch(t)
    PROVE  CatalogueInv'
<1> DEFINE k == KeyOf(req[t])
<1>1. /\ pc[t] = "fetch" /\ UNCHANGED <<db, created, cache, excused, req>>
      /\ \/ /\ pc' = [pc EXCEPT ![t] = "fill"] /\ k \in created \cup {ListKey}
            /\ seen' = [seen EXCEPT ![t] = [content |-> Content(k)]]
         \/ /\ pc' = [pc EXCEPT ![t] = "rejected"]
            /\ seen' = [seen EXCEPT ![t] = Blank]
  BY DEF Fetch, Remember, Answer, dbVars
<1>2. k = ListKey => DOMAIN Content(k) \subseteq Product
  BY DEF Content, Listed, CatalogueInv, CatalogueTypeOK
<1> HIDE DEF k
<1>3. CatalogueTypeOK'
  BY <1>1, <1>2 DEF CatalogueInv, CatalogueTypeOK, Key, k
<1>4. \A x \in Key : \A u \in Tx : Invalidating(u, x) => Invalidating(u, x)'
  BY <1>1 DEF Invalidating, CatalogueInv, CatalogueTypeOK
<1> QED
  BY <1>1, <1>4, <1>3, EntriesKept DEF CatalogueInv

LEMMA FillKeeps ==
    ASSUME CatalogueInv, NEW t \in Tx, Fill(t)
    PROVE  CatalogueInv'
<1> DEFINE k == KeyOf(req[t])
<1>1. /\ pc[t] = "fill" /\ UNCHANGED <<db, created, req>>
      /\ pc' = [pc EXCEPT ![t] = "done"] /\ seen' = [seen EXCEPT ![t] = Blank]
      /\ cache' = [cache EXCEPT ![k] = seen[t].content]
      /\ excused' = IF Outdated(k, seen[t].content)
                    THEN excused \cup {k} ELSE excused \ {k}
  BY DEF Fill, Answer, dbVars
<1>2. k \in Key /\ k \in created \cup {ListKey}
  BY <1>1, RequestKeys DEF CatalogueInv, CatalogueTypeOK
<1>3. \A x \in Key : x # k => cache'[x] = cache[x] /\ (x \in excused' <=> x \in excused)
  BY <1>1, <1>2 DEF CatalogueInv, CatalogueTypeOK
<1>4. cache'[k] = seen[t].content
  BY <1>1, <1>2 DEF CatalogueInv, CatalogueTypeOK
<1>5. CatalogueTypeOK'
  <2>1. \A x \in Product : cache'[x] # Missing => x \in created
    BY <1>2, <1>3, CatalogueAssumption DEF CatalogueInv, CatalogueTypeOK, Key
  <2>2. DOMAIN cache' = Key
    BY <1>1 DEF CatalogueInv, CatalogueTypeOK
  <2>3. cache'[ListKey] # Missing => DOMAIN cache'[ListKey] \subseteq Product
    BY <1>1, <1>3, <1>4 DEF CatalogueInv, CatalogueTypeOK, Key
  <2> HIDE DEF k
  <2> QED
    BY <1>1, <2>1, <2>2, <2>3 DEF CatalogueInv, CatalogueTypeOK
<1>6. StaleIsExplained'
  <2> SUFFICES ASSUME NEW x \in Key, Misleads(x)'
               PROVE  x \in excused' \/ \E u \in Tx : Invalidating(u, x)'
    BY DEF StaleIsExplained
  <2>1. CASE x = k
    <3>1. Outdated(k, seen[t].content)
      BY <1>1, <1>4, <2>1 DEF Misleads, Outdated, Listed, SameOffer
    <3> QED
      BY <1>1, <2>1, <3>1
  <2>2. CASE x # k
    <3>1. Misleads(x)
      BY <1>1, <1>3, <2>2 DEF Misleads, Outdated, Listed
    <3>2. \A u \in Tx : Invalidating(u, x) => Invalidating(u, x)'
      BY <1>1 DEF Invalidating, CatalogueInv, CatalogueTypeOK
    <3> QED
      BY <1>3, <2>2, <3>1, <3>2 DEF CatalogueInv, StaleIsExplained
  <2> QED
    BY <2>1, <2>2
<1> QED
  BY <1>5, <1>6 DEF CatalogueInv

LEMMA LapseKeeps ==
    ASSUME CatalogueInv, NEW k \in Key, Lapse(k)
    PROVE  CatalogueInv'
<1>1. /\ cache' = [cache EXCEPT ![k] = Missing] /\ excused' = excused \ {k}
      /\ UNCHANGED <<db, created, pc, req, seen>>
  BY DEF Lapse, Drop, dbVars, requestVars
<1>2. CatalogueTypeOK'
  BY <1>1, CatalogueAssumption DEF CatalogueInv, CatalogueTypeOK, Key
<1>3. \A x \in Key : \/ cache'[x] = Missing
                     \/ cache'[x] = cache[x] /\ (x \in excused => x \in excused')
  BY <1>1 DEF CatalogueInv, CatalogueTypeOK
<1>4. \A x \in Key : \A u \in Tx : Invalidating(u, x) => Invalidating(u, x)'
  BY <1>1 DEF Invalidating
<1> QED
  BY <1>1, <1>2, <1>3, <1>4, EntriesKept DEF CatalogueInv

-----------------------------------------------------------------------------
(* Writers.                                                                *)

\* The offer of x is written by a request that will delete its entries.
LEMMA OfferWritten ==
    ASSUME CatalogueInv, NEW t \in Tx, NEW x \in Product,
           \A y \in Row : y # x => db'[y] = db[y],
           \A y \in Product : y # x => (y \in created' <=> y \in created),
           UNCHANGED <<cache, excused>>,
           Invalidating(t, ListKey)',
           Invalidating(t, x)' \/ cache[x] = Missing,
           \A k \in Key : \A u \in Tx : Invalidating(u, k) => Invalidating(u, k)'
    PROVE  StaleIsExplained'
<1> SUFFICES ASSUME NEW k \in Key, Misleads(k)'
             PROVE  k \in excused' \/ \E u \in Tx : Invalidating(u, k)'
  BY DEF StaleIsExplained
<1>1. CASE k = ListKey
  BY <1>1
<1>2. CASE k = x
  BY <1>2 DEF Misleads
<1>3. CASE k # ListKey /\ k # x
  <2>1. k \in Row /\ Misleads(k)
    BY <1>3, ProductAssumption DEF Misleads, Outdated, Key
  <2> QED
    BY <2>1 DEF CatalogueInv, StaleIsExplained
<1> QED
  BY <1>1, <1>2, <1>3

LEMMA CreateProductKeeps ==
    ASSUME CatalogueInv, NEW t \in Tx, CreateProduct(t)
    PROVE  CatalogueInv'
<1>1. PICK r \in Arrivals[t] :
        /\ r.op = "createProduct" /\ r.product \notin created /\ pc[t] = "idle"
        /\ db' = [db EXCEPT ![r.product] = r.row]
        /\ created' = created \cup {r.product}
        /\ req' = [req EXCEPT ![t] = r] /\ pc' = [pc EXCEPT ![t] = "dropList"]
        /\ UNCHANGED <<cache, excused, seen>>
  BY DEF CreateProduct, Arrive, AutoCommit
<1>2. r.product \in Product /\ r.row \in Offer
  BY <1>1, CatalogueAssumption DEF ProductRow, Offer
<1>3. CatalogueTypeOK'
  BY <1>1, <1>2 DEF CatalogueInv, CatalogueTypeOK
<1>4. \A k \in Key : \A u \in Tx : Invalidating(u, k) => Invalidating(u, k)'
  BY <1>1 DEF Invalidating, CatalogueInv, CatalogueTypeOK
<1>5. Invalidating(t, ListKey)' /\ cache[r.product] = Missing
  BY <1>1, <1>2 DEF Invalidating, CatalogueInv, CatalogueTypeOK
<1>6. \A y \in Row : y # r.product => db'[y] = db[y]
  BY <1>1 DEF CatalogueInv, CatalogueTypeOK
<1> QED
  BY <1>1, <1>2, <1>3, <1>4, <1>5, <1>6, OfferWritten DEF CatalogueInv

LEMMA EditProductKeeps ==
    ASSUME CatalogueInv, NEW t \in Tx, EditProduct(t)
    PROVE  CatalogueInv'
<1>1. PICK r \in Arrivals[t] :
        /\ r.op \in {"updateProduct", "removeProduct"} /\ pc[t] = "idle"
        /\ req' = [req EXCEPT ![t] = r]
        /\ \E step \in {"rejected", "saveProduct"} : pc' = [pc EXCEPT ![t] = step]
        /\ UNCHANGED <<db, created, cache, excused, seen>>
  BY DEF EditProduct, UpdateProduct, Arrive, dbVars
<1>2. CatalogueTypeOK'
  BY <1>1 DEF CatalogueInv, CatalogueTypeOK, Key
<1>3. \A k \in Key : \A u \in Tx : Invalidating(u, k) => Invalidating(u, k)'
  BY <1>1 DEF Invalidating, CatalogueInv, CatalogueTypeOK
<1> QED
  BY <1>1, <1>2, <1>3, EntriesKept DEF CatalogueInv

LEMMA SaveEditKeeps ==
    ASSUME CatalogueInv, NEW t \in Tx, SaveEdit(t)
    PROVE  CatalogueInv'
<1> DEFINE p == req[t].product
           row == IF req[t].op = "updateProduct"
                  THEN Edited(db[p], req[t].set)
                  ELSE Removed(db[p])
<1>1. /\ pc[t] = "saveProduct" /\ pc' = [pc EXCEPT ![t] = "dropList"]
      /\ db' = [db EXCEPT ![p] = row]
      /\ UNCHANGED <<created, cache, excused, req, seen>>
  BY DEF SaveEdit, SaveRow, AutoCommit, Goto
<1>2. req[t].op \in {"updateProduct", "removeProduct"} /\ p \in Product
  BY <1>1, RequestKeys DEF CatalogueInv, CatalogueTypeOK
<1>3. row \in Offer
  <2>1. db[p] \in Offer
    BY <1>2 DEF CatalogueInv, CatalogueTypeOK
  <2>2. CASE req[t].op = "removeProduct"
    BY <2>1, <2>2 DEF Removed, Offer
  <2>3. CASE req[t].op = "updateProduct"
    <3>1. req[t] \in Arrivals[t]
      BY <2>3 DEF CatalogueInv, CatalogueTypeOK, NoRequest
    <3>2. /\ "stock" \in DOMAIN req[t].set => req[t].set.stock \in Nat
          /\ "price" \in DOMAIN req[t].set => req[t].set.price \in Nat
          /\ "active" \in DOMAIN req[t].set => req[t].set.active \in BOOLEAN
      BY <2>3, <3>1, ProductAssumption
    <3> QED
      BY <2>1, <2>3, <3>2 DEF Edited, Offer
  <2> QED
    BY <1>2, <2>2, <2>3
<1> HIDE DEF row
<1>4. CatalogueTypeOK'
  BY <1>1, <1>2, <1>3 DEF CatalogueInv, CatalogueTypeOK
<1>5. \A k \in Key : \A u \in Tx : Invalidating(u, k) => Invalidating(u, k)'
  BY <1>1 DEF Invalidating, CatalogueInv, CatalogueTypeOK
<1>6. Invalidating(t, ListKey)' /\ Invalidating(t, p)'
  BY <1>1, <1>2 DEF Invalidating, CatalogueInv, CatalogueTypeOK
<1>7. \A y \in Row : y # p => db'[y] = db[y]
  BY <1>1 DEF CatalogueInv, CatalogueTypeOK
<1> QED
  BY <1>1, <1>2, <1>4, <1>5, <1>6, <1>7, OfferWritten DEF CatalogueInv

LEMMA DropKeeps ==
    ASSUME CatalogueInv, NEW t \in Tx, DropList(t) \/ DropPage(t)
    PROVE  CatalogueInv'
<1> DEFINE k == IF pc[t] = "dropList" THEN ListKey ELSE req[t].product
<1>1. /\ cache' = [cache EXCEPT ![k] = Missing] /\ excused' = excused \ {k}
      /\ UNCHANGED <<db, created, req>> /\ DOMAIN seen' = DOMAIN seen
      /\ \A u \in Tx \ {t} : seen'[u] = seen[u]
      /\ \/ pc[t] = "dropList" /\ pc' = [pc EXCEPT ![t] = "dropPage"]
         \/ /\ pc[t] = "dropList" /\ req[t].op = "createProduct"
            /\ pc' = [pc EXCEPT ![t] = "done"]
         \/ pc[t] = "dropPage" /\ pc' = [pc EXCEPT ![t] = "done"]
  BY DEF DropList, DropPage, Drop, Answer, Goto, dbVars, CatalogueInv, CatalogueTypeOK
<1>2. CatalogueTypeOK'
  BY <1>1, CatalogueAssumption DEF CatalogueInv, CatalogueTypeOK, Key
<1>3. \A x \in Key : \/ cache'[x] = Missing
                     \/ cache'[x] = cache[x] /\ (x \in excused => x \in excused')
  BY <1>1 DEF CatalogueInv, CatalogueTypeOK
<1>4. cache'[k] = Missing \/ k \notin Key
  BY <1>1 DEF CatalogueInv, CatalogueTypeOK
<1>5. ASSUME NEW x \in Key, NEW u \in Tx, Invalidating(u, x)
      PROVE  Invalidating(u, x)' \/ cache'[x] = Missing
  <2>1. CASE x = k
    BY <1>4, <2>1
  <2>2. CASE x # k
    BY <1>1, <1>5, <2>2 DEF Invalidating, CatalogueInv, CatalogueTypeOK
  <2> QED
    BY <2>1, <2>2
<1> QED
  BY <1>1, <1>2, <1>3, <1>5, EntriesKept DEF CatalogueInv

LEMMA CatalogueLossKeeps ==
    ASSUME CatalogueInv, NEW t \in Tx, CatalogueLoss(t)
    PROVE  CatalogueInv'
<1>1. /\ pc' = [pc EXCEPT ![t] = "failed"]
      /\ excused' = excused \cup {k \in Key : Invalidating(t, k)}
      /\ UNCHANGED <<db, created, cache, req>>
      /\ seen' = [seen EXCEPT ![t] = Blank]
  BY DEF CatalogueLoss, Abort, Rollback
<1>2. CatalogueTypeOK'
  BY <1>1 DEF CatalogueInv, CatalogueTypeOK
<1>3. \A k \in Key : \A u \in Tx : Invalidating(u, k) =>
        Invalidating(u, k)' \/ k \in excused'
  BY <1>1 DEF Invalidating, CatalogueInv, CatalogueTypeOK
<1> QED
  BY <1>1, <1>2, <1>3, EntriesKept DEF CatalogueInv

\* An order changes no offer and takes nothing into the list.
LEMMA SellKeeps ==
    ASSUME CatalogueInv, NEW x \in Product, Sell(x)
    PROVE  CatalogueInv'
<1>1. /\ x \in created /\ db[x].stock > 0 /\ db' = [db EXCEPT ![x] = [db[x] EXCEPT !.stock = @ - 1]]
      /\ UNCHANGED <<pc, req, seen, created, cache, excused>>
  BY DEF Sell, AutoCommit, requestVars
<1>2. x \in Row /\ db[x] \in Offer
  BY ProductAssumption DEF CatalogueInv, CatalogueTypeOK
<1>3. /\ \A y \in Product : y # x => db'[y] = db[y]
      /\ db'[x] \in Offer /\ SameOffer(db[x], db'[x]) /\ db'[x].stock = db[x].stock - 1
  BY <1>1, <1>2 DEF CatalogueInv, CatalogueTypeOK, Offer, SameOffer
<1>4. CatalogueTypeOK'
  BY <1>1, <1>3 DEF CatalogueInv, CatalogueTypeOK
<1>5. ASSUME NEW k \in Key, Misleads(k)' PROVE Misleads(k)
  <2>1. Listed' \subseteq Listed
    BY <1>1, <1>3 DEF Listed, SameOffer, CatalogueInv, CatalogueTypeOK
  <2>2. \A y \in Product : \A a : SameOffer(a, db[y]) => SameOffer(a, db'[y])
    BY <1>3 DEF SameOffer
  <2> QED
    BY <1>1, <1>5, <2>1, <2>2 DEF Misleads, Outdated, Key, CatalogueInv, CatalogueTypeOK
<1>6. \A k \in Key : \A u \in Tx : Invalidating(u, k) => Invalidating(u, k)'
  BY <1>1 DEF Invalidating
<1> QED
  BY <1>1, <1>4, <1>5, <1>6 DEF CatalogueInv, StaleIsExplained

LEMMA CatalogueIdleKeeps ==
    ASSUME CatalogueInv, UNCHANGED catalogueVars
    PROVE  CatalogueInv'
BY DEF CatalogueInv, CatalogueTypeOK, StaleIsExplained, Misleads, Outdated, Invalidating, Listed,
   catalogueVars, dbVars, requestVars

-----------------------------------------------------------------------------

\* An entry of the cache that shows an offer the merchant does not make is
\* explained by an edit under way, an edit lost half way, or a reader that
\* raced an edit; for any number of products, readers and edits.
THEOREM StaleEntriesExplained == CatalogueSpec => []StaleIsExplained
<1>1. ASSUME CatalogueInv, [CatalogueNext]_catalogueVars PROVE CatalogueInv'
  BY <1>1, LookInCacheKeeps, FetchKeeps, FillKeeps, LapseKeeps, CreateProductKeeps,
     EditProductKeeps, SaveEditKeeps, DropKeeps, CatalogueLossKeeps, SellKeeps,
     CatalogueIdleKeeps DEF CatalogueNext, CatalogueStep, CatalogueIdle
<1>2. CatalogueInv => StaleIsExplained
  BY DEF CatalogueInv
<1> QED
  BY <1>1, <1>2, CatalogueInitInv, PTL DEF CatalogueSpec
=============================================================================
