---------------------------- MODULE MCCatalogue ----------------------------
(***************************************************************************)
(* Instances of the catalogue for TLC: p1 is on sale from the start, p2 is *)
(* created on the way; two readers, two edits.                             *)
(***************************************************************************)
EXTENDS Catalogue, TLC

CONSTANTS t1, t2, t3, t4,  \* requests
          ann, mia,        \* ann sells nothing, mia sells p1 and p2
          p1, p2           \* products

Shelf(stock, price) == [stock |-> stock, price |-> price, active |-> TRUE]

\* p2's row is there from its creation on.
MCInitialDb == [x \in Row |-> Shelf(1, 1)]

MCOwner == [x \in Product |-> mia]

Edit(u, x, set) == [op |-> "updateProduct", user |-> u, product |-> x, set |-> set]

Reads == {[op |-> "findAll"]} \cup [op : {"findOne"}, product : Product]

MCArrivals ==
    [t \in Tx |->
        CASE t \in {t1, t2} -> Reads
          [] t = t3 -> {Edit(mia, p1, [price |-> 2]), Edit(mia, p1, [stock |-> 0]),
                        Edit(ann, p1, [price |-> 2]),
                        [op |-> "removeProduct", user |-> mia, product |-> p1]}
          [] t = t4 -> {[op |-> "createProduct", user |-> mia, product |-> p2,
                         row |-> Shelf(1, 2)],
                        Edit(mia, p1, [price |-> 3]), Edit(mia, p1, [active |-> TRUE])}]
=============================================================================
