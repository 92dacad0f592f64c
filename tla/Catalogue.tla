----------------------------- MODULE Catalogue -----------------------------
(***************************************************************************)
(* products.service.ts with its cache.  findAll and findOne are            *)
(* cache-aside reads: look in the cache, else read the table and put what  *)
(* was read into the cache, for CACHE_TTL seconds.  create, update and     *)
(* remove write the table and then delete the entries that it outdates.    *)
(* Every await is a step, so a reader may put back what it read before a   *)
(* write whose deletions are already over; orders take units and delete    *)
(* nothing.                                                                *)
(***************************************************************************)
EXTENDS Products

CONSTANTS
    OnBoard,   \* products that exist when the behaviour starts
    ListKey,   \* 'products:list'; a product is the key of its own page
    Missing    \* no entry in the cache

ASSUME CatalogueAssumption ==
    /\ OnBoard \subseteq Product
    /\ ListKey \notin Product
    /\ \A t \in Tx : \A r \in Arrivals[t] :
          /\ r.op = "createProduct" =>
                r.product \in Product \ OnBoard /\ r.row \in ProductRow
          /\ r.op = "findOne" => r.product \in Product

VARIABLES
    created,   \* products that exist
    cache,     \* cache[k]: the entry under key k
    excused    \* history: keys whose entry misled when it was set, or whose
               \* deletion was lost with the request that owed it

catalogueVars == <<dbVars, requestVars, created, cache, excused>>

Key == Product \cup {ListKey}

CatalogueInit ==
    /\ DbInit
    /\ RequestInit
    /\ created = OnBoard
    /\ cache = [k \in Key |-> Missing]
    /\ excused = {}

Listed == {x \in created : db[x].active /\ db[x].stock > 0}

\* What the table says under key k.
Content(k) == IF k = ListKey THEN [x \in Listed |-> db[x]] ELSE db[k]

\* The fields that only the merchant changes.
SameOffer(a, b) == a.price = b.price /\ a.active = b.active

\* content, shown under k, shows an offer that the merchant does not make, or
\* the list leaves one out.
Outdated(k, content) ==
    IF k = ListKey
    THEN \/ \E x \in DOMAIN content : ~SameOffer(content[x], db[x])
         \/ Listed \ DOMAIN content # {}
    ELSE ~SameOffer(content, db[k])

-----------------------------------------------------------------------------
(* findAll and findOne.                                                    *)

KeyOf(r) == IF r.op = "findAll" THEN ListKey ELSE r.product

LookInCache(t) ==
    /\ \E r \in Arrivals[t] :
          /\ r.op \in {"findAll", "findOne"}
          /\ Arrive(t, r, IF cache[KeyOf(r)] # Missing THEN "done" ELSE "fetch")
    /\ UNCHANGED <<dbVars, created, cache, excused>>

Fetch(t) ==
    /\ pc[t] = "fetch"
    /\ LET k == KeyOf(req[t])
       IN  IF k = ListKey \/ k \in created
           THEN Remember(t, [content |-> Content(k)], "fill")
           ELSE Answer(t, "rejected")
    /\ UNCHANGED <<dbVars, created, cache, excused>>

Fill(t) ==
    /\ pc[t] = "fill"
    /\ LET k == KeyOf(req[t])
       IN  /\ cache' = [cache EXCEPT ![k] = seen[t].content]
           /\ excused' = IF Outdated(k, seen[t].content)
                         THEN excused \cup {k} ELSE excused \ {k}
    /\ Answer(t, "done")
    /\ UNCHANGED <<dbVars, created>>

Drop(k) ==
    /\ cache' = [cache EXCEPT ![k] = Missing]
    /\ excused' = excused \ {k}

\* The time to live of an entry is over.
Lapse(k) ==
    /\ cache[k] # Missing
    /\ Drop(k)
    /\ UNCHANGED <<dbVars, requestVars, created>>

-----------------------------------------------------------------------------
(* create, update and remove.                                              *)

CreateProduct(t) ==
    /\ \E r \in Arrivals[t] :
          /\ r.op = "createProduct"
          /\ r.product \notin created
          /\ AutoCommit(r.product, r.row)
          /\ created' = created \cup {r.product}
          /\ Arrive(t, r, "dropList")
    /\ UNCHANGED <<cache, excused>>

\* A merchant knows the id of a product that has been created.
EditProduct(t) ==
    /\ UpdateProduct(t)
    /\ req'[t].product \in created
    /\ UNCHANGED <<created, cache, excused>>

SaveEdit(t) ==
    /\ SaveRow(t)
    /\ Goto(t, "dropList")
    /\ UNCHANGED <<created, cache, excused>>

\* invalidateCache
DropList(t) ==
    /\ pc[t] = "dropList"
    /\ Drop(ListKey)
    /\ IF req[t].op = "createProduct" THEN Answer(t, "done") ELSE Goto(t, "dropPage")
    /\ UNCHANGED <<dbVars, created>>

\* Mutant of DropPage: only the list is deleted, as after a creation.
KeepPage(t) ==
    /\ pc[t] = "dropPage"
    /\ Answer(t, "done")
    /\ UNCHANGED <<dbVars, created, cache, excused>>

DropPage(t) ==
    /\ pc[t] = "dropPage"
    /\ Drop(req[t].product)
    /\ Answer(t, "done")
    /\ UNCHANGED <<dbVars, created>>

-----------------------------------------------------------------------------

\* An order takes a unit, of an inactive product too when it is the completion
\* of one placed before (orders.service.ts:294): no entry is deleted for that.
Sell(x) ==
    /\ x \in created /\ db[x].stock > 0
    /\ AutoCommit(x, [db[x] EXCEPT !.stock = @ - 1])
    /\ UNCHANGED <<requestVars, created, cache, excused>>

CatalogueStep(t) ==
    \/ Fetch(t) \/ Fill(t) \/ SaveEdit(t) \/ DropList(t) \/ DropPage(t)

\* t has written the table and is going to delete the entry under k.
Invalidating(t, k) ==
    \/ k = ListKey /\ pc[t] = "dropList"
    \/ /\ pc[t] \in {"dropList", "dropPage"}
       /\ req[t].op # "createProduct" /\ k = req[t].product

\* A crash, or Redis does not answer.
CatalogueLoss(t) ==
    /\ Abort(t)
    /\ excused' = excused \cup {k \in Key : Invalidating(t, k)}
    /\ UNCHANGED <<created, cache>>

CatalogueIdle == (\A t \in Tx : ~Running(t)) /\ UNCHANGED catalogueVars

CatalogueNext ==
    \/ \E t \in Tx :
          \/ LookInCache(t) \/ CreateProduct(t) \/ EditProduct(t)
          \/ CatalogueStep(t) \/ CatalogueLoss(t)
    \/ \E x \in Product : Sell(x)
    \/ \E k \in Key : Lapse(k)
    \/ CatalogueIdle

CatalogueSpec == CatalogueInit /\ [][CatalogueNext]_catalogueVars

-----------------------------------------------------------------------------
(* Properties.                                                             *)

\* Whoever looks under k is misled.
Misleads(k) == cache[k] # Missing /\ Outdated(k, cache[k])

\* An entry misleads only while an edit is about to delete it, when an edit
\* was lost half way, or when a reader put in what it had read before an edit:
\* update, remove and create delete every entry that they outdate
\* (products.service.ts:53, :168-169, :202-203), and orders outdate no offer.
StaleIsExplained ==
    \A k \in Key : Misleads(k) => k \in excused \/ \E t \in Tx : Invalidating(t, k)

\* "Cache automatically invalidated when products are created/updated/deleted"
\* (README.md:496): once every request is answered, and none was lost, nobody
\* is shown an old offer.
InvalidatedByEdits ==
    (\A t \in Tx : ~Running(t)) /\ failures = 0 => \A k \in Key : ~Misleads(k)
=============================================================================
