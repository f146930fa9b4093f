------------------------------- MODULE Ledger -------------------------------
(***************************************************************************)
(* What the database of Gophermart promises to everybody who uses it: a    *)
(* ledger whose entries change in single atomic steps.  An order is        *)
(* accepted once, a withdrawal moves points from "current" to "withdrawn", *)
(* a settlement records what the accrual system answered and credits the   *)
(* owners, and a restart starts from an empty ledger.                      *)
(*                                                                         *)
(* The code checks the funds of a withdrawal against a row it has not      *)
(* locked.  The promise is therefore conditional: points are covered for a *)
(* user unless two withdrawals of that user have been in progress at the   *)
(* same time; "raced" is the set of these users.  Nor does it check the    *)
(* sign of a sum: an amount below zero gives points back, or, to a user    *)
(* without a balance, takes points that were never earned.                 *)
(*                                                                         *)
(* PgStore.tla is the detailed specification that implements this one.     *)
(***************************************************************************)
EXTENDS Integers, FiniteSets, FiniteSetsExt

CONSTANTS
    Users,      \* the users
    OrderIds,   \* the order numbers, of orders and of withdrawals
    NoRow,      \* the value of an absent row
    Amounts,    \* the amounts a withdrawal may move, as they are stored
    Updates     \* the answers [status, accrual] a settlement may record

VARIABLES
    orders,       \* order number -> [user, status, accrual], or NoRow
    balances,     \* user -> [current, withdrawn], or NoRow
    withdrawals,  \* order number -> [user, sum], or NoRow
    raced         \* users who have had two withdrawals in progress at once

vars == <<orders, balances, withdrawals, raced>>

Present(table) == {k \in DOMAIN table : table[k] # NoRow}

\* An absent balance counts as zero.
Held(u) == IF balances[u] = NoRow THEN [current |-> 0, withdrawn |-> 0]
                                  ELSE balances[u]

Init == /\ orders      = [o \in OrderIds |-> NoRow]
        /\ balances    = [u \in Users |-> NoRow]
        /\ withdrawals = [o \in OrderIds |-> NoRow]
        /\ raced       = {}

\* An order number is accepted for one user, once.
Accept(u, o) ==
    /\ orders[o] = NoRow
    /\ orders' = [orders EXCEPT ![o] = [user    |-> u,
                                        status  |-> "NEW",
                                        accrual |-> 0]]
    /\ UNCHANGED <<balances, withdrawals, raced>>

\* The balance moves and the withdrawal is recorded in one step.  Nobody
\* without a balance takes points; such a user's first row is the amount.
Withdraw(u, o, a) ==
    /\ withdrawals[o] = NoRow
    /\ u \in raced \/ a <= Held(u).current
    /\ balances[u] = NoRow => a <= 0
    /\ balances' = [balances EXCEPT ![u] =
                      IF balances[u] = NoRow
                      THEN [current |-> a, withdrawn |-> a]
                      ELSE [current   |-> balances[u].current - a,
                            withdrawn |-> balances[u].withdrawn + a]]
    /\ withdrawals' = [withdrawals EXCEPT ![o] = [user |-> u, sum |-> a]]
    /\ UNCHANGED <<orders, raced>>

\* What the settlement `answer` of the orders S gives to user u.
Credit(u, S, answer) ==
    SumFunction([o \in {p \in S : orders[p].user = u} |-> answer[o].accrual])

\* The answers for the orders S are recorded and paid out in one step.
Settle(S, answer) ==
    /\ orders' = [o \in OrderIds |->
                    IF o \in S THEN [user    |-> orders[o].user,
                                     status  |-> answer[o].status,
                                     accrual |-> answer[o].accrual]
                               ELSE orders[o]]
    /\ balances' = [u \in Users |->
                      IF \E o \in S : orders[o].user = u
                      THEN [current   |-> Held(u).current + Credit(u, S, answer),
                            withdrawn |-> Held(u).withdrawn]
                      ELSE balances[u]]
    /\ UNCHANGED <<withdrawals, raced>>

\* Two withdrawals of the user are in progress at the same time.
Race(u) == /\ raced' = raced \union {u}
           /\ UNCHANGED <<orders, balances, withdrawals>>

\* A restart of the service empties the ledger.
Reset == /\ orders'      = [o \in OrderIds |-> NoRow]
         /\ balances'    = [u \in Users |-> NoRow]
         /\ withdrawals' = [o \in OrderIds |-> NoRow]
         /\ raced'       = {}

Next ==
    \/ \E u \in Users, o \in OrderIds : Accept(u, o)
    \/ \E u \in Users, o \in OrderIds, a \in Amounts : Withdraw(u, o, a)
    \/ \E S \in SUBSET Present(orders) : \E answer \in [S -> Updates] :
          Settle(S, answer)
    \/ \E u \in Users : Race(u)
    \/ Reset

Spec == Init /\ [][Next]_vars
=============================================================================
