------------------------------ MODULE Listings ------------------------------
(***************************************************************************)
(* GET /api/user/orders, /api/user/balance and /api/user/withdrawals: what *)
(* a client is told while requests and the accrual loop change the tables  *)
(* of PgStore.tla.                                                         *)
(*                                                                         *)
(* Each listing is one SELECT that reads what is committed.  A client that *)
(* asks for one listing after another puts answers of different moments    *)
(* side by side; `seen` is an answer it keeps, and the committed rows are  *)
(* what any later answer is made of.  The order of a list is left out.     *)
(***************************************************************************)
EXTENDS PgStore

VARIABLE seen \* the last answer with a code 200 or 204: its user and rows

vars == <<pgVars, seen>>

Init == PgInit /\ seen = NoRow

\* WHERE user_id = $1
OfUser(table, u) ==
    [o \in OrderIds |-> IF table[o] # NoRow /\ table[o].user = u
                        THEN table[o] ELSE NoRow]

\* A list is answered with 200, or 204 if it is empty, the balance with 200.
Listed(list, u, rows) ==
    /\ Connected
    /\ seen' = [list |-> list, user |-> u, rows |-> rows]
    /\ UNCHANGED pgVars

GetOrders(u)      == Listed("orders", u, OfUser(orders, u))
GetWithdrawals(u) == Listed("withdrawals", u, OfUser(withdrawals, u))

\* Mutant: the row of the transaction at work is read (READ UNCOMMITTED).
GetBalanceUncommitted(u) ==
    \/ Listed("balance", u, Held(u))
    \/ \E t \in Txns : /\ uBalances[t][u] # NoRow
                       /\ Listed("balance", u, uBalances[t][u])

\* No row is not found, which GetBalance of service.go answers with zeros.
GetBalance(u) == Listed("balance", u, Held(u))

\* Mutant: the error after the last row (rows.Err) is not looked at.
GetFailsPartial ==
    /\ Fault
    /\ \E u \in Users, S \in SUBSET OrderIds :
          seen' = [list |-> "withdrawals", user |-> u,
                   rows |-> [o \in OrderIds |->
                       IF o \in S THEN OfUser(withdrawals, u)[o] ELSE NoRow]]
    /\ UNCHANGED <<tables, written, pc, arg, batch, credited, overlap>>

\* The query fails, or the connection does between two rows: 500, no list.
GetFails ==
    /\ Fault
    /\ UNCHANGED <<tables, written, pc, arg, batch, credited, overlap, seen>>

\* The tables change; what was told before a restart is no longer compared.
StoreStep == PgNext /\ seen' = IF Restart THEN NoRow ELSE seen

Next == \/ StoreStep
        \/ \E u \in Users : GetOrders(u) \/ GetWithdrawals(u) \/ GetBalance(u)
        \/ GetFails

Spec == Init /\ [][Next]_vars

-----------------------------------------------------------------------------
(***************************************************************************)
(* Properties: an answer compared with what any later answer will be.      *)
(***************************************************************************)

Saw(list) == seen # NoRow /\ seen.list = list

SumOf(rows)     == SumFunction([o \in Present(rows) |-> rows[o].sum])
AccrualOf(rows) == SumFunction([o \in Present(rows) |-> rows[o].accrual])

\* What a balance says has been withdrawn is covered by the withdrawals that
\* are listed after it, and what was listed is in every balance after it, as
\* long as the user has withdrawn no sum below zero: two tables, two requests,
\* and a transaction that may commit between them.
SpentIsListed ==
    /\ Saw("balance") /\ NoNegativeSum(seen.user) =>
          seen.rows.withdrawn <= SumOf(OfUser(withdrawals, seen.user))
    /\ Saw("withdrawals") /\ NoNegativeSum(seen.user) =>
          SumOf(seen.rows) <= Held(seen.user).withdrawn

\* Accruals that were listed with the orders are in every balance after it,
\* as points to spend or as points withdrawn, as long as the user has
\* withdrawn no sum below zero.
PaidIsHeld ==
    Saw("orders") /\ NoNegativeSum(seen.user) =>
        AccrualOf(seen.rows)
            <= Held(seen.user).current + Held(seen.user).withdrawn

\* A list leaves nothing out that an earlier one has shown, a withdrawal as
\* it was: no answer is a part of a list that could not be read to its end.
StaysListed ==
    [][\A list \in {"orders", "withdrawals"} :
          Saw(list) /\ Saw(list)' /\ seen'.user = seen.user =>
             \A o \in Present(seen.rows) :
                /\ seen'.rows[o] # NoRow
                /\ list = "withdrawals" => seen'.rows[o] = seen.rows[o]]_vars
=============================================================================
