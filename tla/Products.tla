------------------------------ MODULE Products ------------------------------
(***************************************************************************)
(* products.service.ts, the rows of the products table: a merchant edits   *)
(* or removes a product.  merchantId never changes after the creation, so  *)
(* the ownership check reads a constant.  The UPDATE is one statement that *)
(* sets the fields of the form to absolute values and leaves the others.   *)
(***************************************************************************)
EXTENDS Requests

CONSTANTS
    Product,   \* products
    Owner      \* Owner[p]: the user who sells p (merchantId)

\* A row of the products table, prices in cents.  CreateProductDto asks for a
\* price above zero and a stock that is not negative; a price below half a cent
\* is stored as zero.
ProductRow == [stock : Nat, price : Nat, active : BOOLEAN]

ASSUME ProductAssumption ==
    /\ Product \subseteq Row
    /\ \A p \in Product : InitialDb[p] \in ProductRow
    /\ \A t \in Tx : \A r \in Arrivals[t] :
          /\ r.op \in {"updateProduct", "removeProduct"} => r.product \in Product
          /\ r.op = "updateProduct" =>
                /\ "stock" \in DOMAIN r.set => r.set.stock \in Nat
                /\ "price" \in DOMAIN r.set => r.set.price \in Nat
                /\ "active" \in DOMAIN r.set => r.set.active \in BOOLEAN

\* The row under the fields of the form (UpdateProductDto, all optional).
Edited(row, set) ==
    [stock  |-> IF "stock" \in DOMAIN set THEN set.stock ELSE row.stock,
     price  |-> IF "price" \in DOMAIN set THEN set.price ELSE row.price,
     active |-> IF "active" \in DOMAIN set THEN set.active ELSE row.active]

\* A soft delete; deletedAt is never read.
Removed(row) == [row EXCEPT !.active = FALSE]

UpdateProduct(t) ==
    /\ \E r \in Arrivals[t] :
          /\ r.op \in {"updateProduct", "removeProduct"}
          /\ Arrive(t, r, IF Owner[r.product] # r.user THEN "rejected"
                                                       ELSE "saveProduct")
    /\ UNCHANGED dbVars

\* The UPDATE waits for orders that hold the product.
SaveRow(t) ==
    /\ pc[t] = "saveProduct"
    /\ LET p == req[t].product
       IN  AutoCommit(p, IF req[t].op = "updateProduct"
                         THEN Edited(db[p], req[t].set)
                         ELSE Removed(db[p]))

\* With the catalogue left out: what follows drops cache entries, which no
\* order ever reads (Catalogue has them).
SaveProduct(t) == SaveRow(t) /\ Answer(t, "done")
=============================================================================
