---------------------------- MODULE MCGophermart ----------------------------
(***************************************************************************)
(* Gophermart on small instances; amounts are whole hundredths.            *)
(***************************************************************************)
EXTENDS Gophermart, TLC

CONSTANTS u1, u2, o1, o2, h1, h2

\* Everything the loop may write: what the accrual system calculates, and
\* what is kept of a body that could not be decoded.
MCUpdates ==
    {[status |-> s, accrual |-> 0] :
        s \in {"", "REGISTERED", "PROCESSING", "INVALID", "PROCESSED"}}
    \union {[status |-> "PROCESSED", accrual |-> r] : r \in Rewards}

SymmetricRequests == Permutations(Handlers) \union Permutations(Users)

=============================================================================
