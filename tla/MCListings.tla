----------------------------- MODULE MCListings -----------------------------
(***************************************************************************)
(* Listings on small instances, with sums of either sign and accruals that *)
(* have to be rounded, and an answer that makes its batch fail.            *)
(***************************************************************************)
EXTENDS Listings, TLC

CONSTANTS u1, o1, o2, h1, h2

MCSums    == {-1, 3}
MCUpdates == {[status |-> "PROCESSED", accrual |-> 1],
              [status |-> "", accrual |-> 0]}

Symmetric == Permutations(Handlers) \union Permutations(OrderIds)
=============================================================================
