----------------------------- MODULE MCListings -----------------------------
(***************************************************************************)
(* An instance of the paginated reads for TLC: four rows at first, two of  *)
(* them of one millisecond, one in flight that is older than three of them,*)
(* and one more to come.                                                   *)
(***************************************************************************)
EXTENDS Listings, TLC

CONSTANTS e1, e2, e3, e4, e5, e6  \* rows

MCOpening ==
    [e \in {e1, e2, e3, e4} |-> CASE e = e1 -> -3 [] e \in {e2, e3} -> -1 [] e = e4 -> 0]

MCInFlight == [e \in {e5} |-> -2]
=============================================================================
