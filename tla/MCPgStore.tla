----------------------------- MODULE MCPgStore -----------------------------
(***************************************************************************)
(* PgStore on small instances.  Requests count in half hundredths of a     *)
(* point (Parts = 2), so that an amount may have to be rounded.            *)
(***************************************************************************)
EXTENDS PgStore, TLC

CONSTANTS u1, u2, o1, o2, h1, h2

\* A status that is no value of order_status_type is among the answers.
MCUpdatesBad == {[status |-> "PROCESSED", accrual |-> 1],
                 [status |-> "", accrual |-> 0]}

Symmetric == Permutations(Handlers) \union Permutations(OrderIds)
                \union Permutations(Users)
=============================================================================
