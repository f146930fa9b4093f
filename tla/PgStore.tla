------------------------------ MODULE PgStore ------------------------------
(***************************************************************************)
(* The PostgreSQL store of Gophermart (internal/common/store/pg/pg.go):    *)
(* the tables orders, balances and withdrawals, and the methods of PgStore *)
(* that change them, one action per SQL statement.  The statements of      *)
(* different connections interleave.                                       *)
(*                                                                         *)
(* The database is modelled as READ COMMITTED does it, the level the code  *)
(* gets by not asking for another: a statement reads what is committed     *)
(* when it runs, what a transaction wrote is visible to the others only    *)
(* after its COMMIT, and a row that a transaction wrote stays locked until *)
(* the transaction ends.                                                   *)
(*                                                                         *)
(* Handlers are the HTTP requests being served, Loop is the accrual loop   *)
(* and Zombie is a transaction whose COMMIT was sent and whose connection  *)
(* then failed: nobody waits for it any more, the server finishes it some  *)
(* time later.                                                             *)
(***************************************************************************)
EXTENDS Integers, FiniteSets, FiniteSetsExt

CONSTANTS
    Users,      \* user_id
    OrderIds,   \* order numbers, of orders and of withdrawals
    Handlers,   \* HTTP requests that may be served at the same time
    Loop,       \* the accrual loop
    Zombie,     \* a COMMIT in flight on a lost connection
    NoRow,      \* the value of an absent row, or of a row not written
    Sums,       \* the sums a withdrawal may ask for, of either sign
    Updates,    \* the answers [status, accrual] the loop may write
    Parts,      \* a sum or an accrual is counted in this part of a hundredth
    PoolSize,   \* connections of the pool
    MaxFaults,  \* bound: failing statements, commits and restarts
    MaxAccrual  \* bound: the accruals stored, all orders together

Statuses == {"NEW", "REGISTERED", "PROCESSING", "INVALID", "PROCESSED"}
Txns     == Handlers \union {Loop, Zombie}
Callers  == Handlers \union {Loop}

\* The columns of the tables; amounts are in hundredths of a point.
Order      == [user : Users, status : Statuses, accrual : Nat]
Balance    == [current : Int, withdrawn : Int]
Withdrawal == [user : Users, sum : Int]

\* What a request to withdraw asks for, and what the loop wants to write.
Asked == [user : Users, order : OrderIds, sum : Sums]
Rows  == {[user |-> u, status |-> a.status, accrual |-> a.accrual] :
            u \in Users, a \in Updates}

ASSUME PgAssumption ==
    /\ Loop \notin Handlers /\ Zombie \notin Handlers /\ Loop # Zombie
    /\ NoRow \notin Order \union Balance \union Withdrawal \union Asked
                          \union Rows
    /\ Sums \subseteq Int
    /\ \A a \in Updates : a.accrual \in Nat
    /\ Parts \in Nat \ {0}
    /\ MaxFaults \in Nat

\* order_id is a bigint, of orders and of withdrawals.
ASSUME OrderIdsFinite == IsFiniteSet(OrderIds)

VARIABLES
    orders,       \* the committed rows of orders
    balances,     \* the committed rows of balances
    withdrawals,  \* the committed rows of withdrawals
    uOrders,      \* uOrders[t]: the rows of orders t wrote and locks
    uBalances,    \* uBalances[t]: the rows of balances t wrote and locks
    uWithdrawals, \* uWithdrawals[t]: the rows of withdrawals t wrote
    pc,           \* pc[t]: the next statement of transaction t
    arg,          \* arg[t]: the withdrawal [user, order, sum] t carries out
    batch,        \* the updates the accrual loop is writing, by order
    credited,     \* the orders of the batch whose credit is written
    overlap,      \* users who have had two withdrawals in progress at once
    faults        \* how many faults have happened

pgVars == <<orders, balances, withdrawals, uOrders, uBalances, uWithdrawals,
            pc, arg, batch, credited, overlap, faults>>

tables  == <<orders, balances, withdrawals>>
written == <<uOrders, uBalances, uWithdrawals>>

NoOrders   == [o \in OrderIds |-> NoRow]
NoBalances == [u \in Users |-> NoRow]

\* A column decimal(19,2) keeps hundredths: halves are rounded away from zero.
Round(a) == IF a >= 0 THEN (2 * a + Parts) \div (2 * Parts)
                      ELSE -((Parts - 2 * a) \div (2 * Parts))

\* Writes over a table what a transaction wrote.
Over(table, rows) ==
    [k \in DOMAIN table |-> IF rows[k] # NoRow THEN rows[k] ELSE table[k]]

\* An absent row of balances scans as zero, GetBalance answers zero for it.
Held(u) == IF balances[u] = NoRow THEN [current |-> 0, withdrawn |-> 0]
                                  ELSE balances[u]

\* The row of u after queryBalanceDecDefault: the INSERT branch stores the
\* amount in both columns, the UPDATE branch moves it from one to the other.
Decreased(u, a) == IF balances[u] = NoRow
                   THEN [current |-> a, withdrawn |-> a]
                   ELSE [current   |-> balances[u].current - a,
                         withdrawn |-> balances[u].withdrawn + a]

\* t is carrying out a withdrawal of user u.
Withdrawing(t, u) == arg[t] # NoRow /\ arg[t].user = u

\* No other transaction holds the row.
OrderFree(t, o)      == \A s \in Txns \ {t} : uOrders[s][o] = NoRow
BalanceFree(t, u)    == \A s \in Txns \ {t} : uBalances[s][u] = NoRow
WithdrawalFree(t, o) == \A s \in Txns \ {t} : uWithdrawals[s][o] = NoRow

\* The keys a table has rows for.
Present(table) == {k \in DOMAIN table : table[k] # NoRow}

InBatch == Present(batch)

\* The rows of a table that belong to user u.
Owned(table, u) == {o \in Present(table) : table[o].user = u}

\* A connection of the pool is free.
Connected == Cardinality({c \in Callers : pc[c] # "idle"}) < PoolSize

PgInit ==
    /\ orders       = NoOrders
    /\ balances     = NoBalances
    /\ withdrawals  = NoOrders
    /\ uOrders      = [t \in Txns |-> NoOrders]
    /\ uBalances    = [t \in Txns |-> NoBalances]
    /\ uWithdrawals = [t \in Txns |-> NoOrders]
    /\ pc           = [t \in Txns |-> "idle"]
    /\ arg          = [t \in Txns |-> NoRow]
    /\ batch        = NoOrders
    /\ credited     = {}
    /\ overlap      = {}
    /\ faults       = 0

-----------------------------------------------------------------------------
(***************************************************************************)
(* The end of a transaction.                                               *)
(***************************************************************************)

\* The transaction gives up its rows and its connection.
Release(t) ==
    /\ uOrders'      = [uOrders EXCEPT ![t] = NoOrders]
    /\ uBalances'    = [uBalances EXCEPT ![t] = NoBalances]
    /\ uWithdrawals' = [uWithdrawals EXCEPT ![t] = NoOrders]
    /\ pc'           = [pc EXCEPT ![t] = "idle"]
    /\ arg'          = [arg EXCEPT ![t] = NoRow]
    /\ batch'        = IF t = Loop THEN NoOrders ELSE batch
    /\ credited'     = IF t = Loop THEN {} ELSE credited

\* The deferred Rollback: the method returns an error, nothing has changed.
Rollback(t) ==
    /\ Release(t)
    /\ UNCHANGED <<tables, overlap>>

\* What t wrote becomes visible.
Publish(t) ==
    /\ orders'      = Over(orders, uOrders[t])
    /\ balances'    = Over(balances, uBalances[t])
    /\ withdrawals' = Over(withdrawals, uWithdrawals[t])

Fault == faults < MaxFaults /\ faults' = faults + 1

\* Every statement of the transaction has been executed.
AtCommit(t) == \/ pc[t] = "commit"
               \/ pc[t] = "batch" /\ credited = InBatch

\* tx.Commit returns nil.
Commit(t) ==
    /\ AtCommit(t)
    /\ Publish(t)
    /\ Release(t)
    /\ UNCHANGED <<overlap, faults>>

\* Acquire, Begin, a statement or the COMMIT fails, or the context of the
\* request ends before the COMMIT is sent.
Fail(t) == /\ pc[t] # "idle"
           /\ Fault
           /\ Rollback(t)

\* The COMMIT is sent and the connection is lost (or the context of the
\* request ends) before the answer: the caller sees an error, the server
\* still holds the transaction.  Bound: one such transaction at a time.
LoseCommit(t) ==
    /\ AtCommit(t)
    /\ pc[Zombie] = "idle"
    /\ Fault
    /\ uOrders'      = [uOrders EXCEPT ![t] = NoOrders, ![Zombie] = uOrders[t]]
    /\ uBalances'    = [uBalances EXCEPT ![t] = NoBalances,
                                         ![Zombie] = uBalances[t]]
    /\ uWithdrawals' = [uWithdrawals EXCEPT ![t] = NoOrders,
                                            ![Zombie] = uWithdrawals[t]]
    /\ pc'       = [pc EXCEPT ![t] = "idle", ![Zombie] = "commit"]
    /\ arg'      = [arg EXCEPT ![t] = NoRow, ![Zombie] = arg[t]]
    /\ batch'    = IF t = Loop THEN NoOrders ELSE batch
    /\ credited' = IF t = Loop THEN {} ELSE credited
    /\ UNCHANGED <<tables, overlap>>

\* The server executes the COMMIT whose connection was lost, or gives it up.
LateCommit == /\ pc[Zombie] = "commit"
              /\ Publish(Zombie)
              /\ Release(Zombie)
              /\ UNCHANGED <<overlap, faults>>

LateAbort == /\ pc[Zombie] = "commit"
             /\ Release(Zombie)
             /\ UNCHANGED <<tables, overlap, faults>>

-----------------------------------------------------------------------------
(***************************************************************************)
(* InsertWithdraw: read the balance without a lock, compare, take the sum  *)
(* from the balance, record the withdrawal, commit.                        *)
(***************************************************************************)

InsertWithdraw(h, u, o, m) ==
    /\ pc[h] = "idle"
    /\ Connected
    /\ pc'  = [pc EXCEPT ![h] = "select"]
    /\ arg' = [arg EXCEPT ![h] = [user |-> u, order |-> o, sum |-> m]]
    /\ overlap' = IF \E t \in Txns : Withdrawing(t, u) THEN overlap \union {u}
                                                       ELSE overlap
    /\ UNCHANGED <<tables, written, batch, credited, faults>>

\* Mutant: only a row that was found is compared.
SelectEnoughOfRow(h) ==
    /\ pc[h] = "select"
    /\ \/ balances[arg[h].user] = NoRow
       \/ arg[h].sum <= Parts * Held(arg[h].user).current
    /\ pc' = [pc EXCEPT ![h] = "dec"]
    /\ UNCHANGED <<tables, written, arg, batch, credited, overlap, faults>>

SelectEnough(h) ==
    /\ pc[h] = "select"
    /\ arg[h].sum <= Parts * Held(arg[h].user).current
    /\ pc' = [pc EXCEPT ![h] = "dec"]
    /\ UNCHANGED <<tables, written, arg, batch, credited, overlap, faults>>

SelectNotEnough(h) ==
    /\ pc[h] = "select"
    /\ Parts * Held(arg[h].user).current < arg[h].sum
    /\ Rollback(h)
    /\ UNCHANGED faults

\* The SELECT fails and the error of Scan is dropped: the balance stays zero
\* and is compared.  The next statement of a failed transaction fails.
SelectFails(h) ==
    /\ pc[h] = "select"
    /\ Fault
    /\ Rollback(h)

\* Mutant: the row is written without waiting for the one who holds it.
DecBalanceUnlocked(h) ==
    LET u == arg[h].user
        a == Round(arg[h].sum)
    IN  /\ pc[h] = "dec"
        /\ uBalances' = [uBalances EXCEPT
               ![h] = [@ EXCEPT ![u] = Decreased(u, a)]]
        /\ pc' = [pc EXCEPT ![h] = "insert"]
        /\ UNCHANGED <<tables, uOrders, uWithdrawals, arg, batch, credited,
                       overlap, faults>>

\* queryBalanceDecDefault works on the row as it is committed once its lock
\* is free.
DecBalance(h) ==
    LET u == arg[h].user
        a == Round(arg[h].sum)
    IN  /\ pc[h] = "dec"
        /\ BalanceFree(h, u)
        /\ uBalances' = [uBalances EXCEPT
               ![h] = [@ EXCEPT ![u] = Decreased(u, a)]]
        /\ pc' = [pc EXCEPT ![h] = "insert"]
        /\ UNCHANGED <<tables, uOrders, uWithdrawals, arg, batch, credited,
                       overlap, faults>>

\* Mutant: the sum is listed without its sign.
InsertWithdrawalUnsigned(h) ==
    LET o == arg[h].order
        a == Round(arg[h].sum)
    IN  /\ pc[h] = "insert"
        /\ WithdrawalFree(h, o)
        /\ withdrawals[o] = NoRow
        /\ uWithdrawals' = [uWithdrawals EXCEPT ![h] = [@ EXCEPT ![o] =
               [user |-> arg[h].user, sum |-> IF a < 0 THEN -a ELSE a]]]
        /\ pc' = [pc EXCEPT ![h] = "commit"]
        /\ UNCHANGED <<tables, uOrders, uBalances, arg, batch, credited,
                       overlap, faults>>

InsertWithdrawal(h) ==
    LET o == arg[h].order
    IN  /\ pc[h] = "insert"
        /\ WithdrawalFree(h, o)
        /\ withdrawals[o] = NoRow
        /\ uWithdrawals' = [uWithdrawals EXCEPT ![h] = [@ EXCEPT ![o] =
               [user |-> arg[h].user, sum |-> Round(arg[h].sum)]]]
        /\ pc' = [pc EXCEPT ![h] = "commit"]
        /\ UNCHANGED <<tables, uOrders, uBalances, arg, batch, credited,
                       overlap, faults>>

\* Mutant: the error path commits what was written so far.
WithdrawalExistsCommits(h) ==
    /\ pc[h] = "insert"
    /\ WithdrawalFree(h, arg[h].order)
    /\ withdrawals[arg[h].order] # NoRow
    /\ Publish(h)
    /\ Release(h)
    /\ UNCHANGED <<overlap, faults>>

\* Mutant: conn.Release stands before the COMMIT instead of being deferred.
\* PostgreSQL frees the rows, the connection is not given back.
WithdrawalExistsLeaks(h) ==
    /\ pc[h] = "insert"
    /\ WithdrawalFree(h, arg[h].order)
    /\ withdrawals[arg[h].order] # NoRow
    /\ uBalances' = [uBalances EXCEPT ![h] = NoBalances]
    /\ pc' = [pc EXCEPT ![h] = "leaked"]
    /\ UNCHANGED <<tables, uOrders, uWithdrawals, arg, batch, credited,
                   overlap, faults>>

\* The primary key order_id of withdrawals: error 23505.
WithdrawalExists(h) ==
    /\ pc[h] = "insert"
    /\ WithdrawalFree(h, arg[h].order)
    /\ withdrawals[arg[h].order] # NoRow
    /\ Rollback(h)
    /\ UNCHANGED faults

-----------------------------------------------------------------------------
(***************************************************************************)
(* InsertOrder: one INSERT that commits by itself.  The check of the       *)
(* primary key waits for a transaction that is changing the row.           *)
(***************************************************************************)

\* Mutant: ON CONFLICT (order_id) DO UPDATE.
InsertOrderOver(h, u, o) ==
    /\ pc[h] = "idle"
    /\ Connected
    /\ OrderFree(h, o)
    /\ orders' = [orders EXCEPT ![o] =
                    [user |-> u, status |-> "NEW", accrual |-> 0]]
    /\ UNCHANGED <<balances, withdrawals, written, pc, arg, batch, credited,
                   overlap, faults>>

InsertOrder(h, u, o) ==
    /\ pc[h] = "idle"
    /\ Connected
    /\ OrderFree(h, o)
    /\ orders[o] = NoRow
    /\ orders' = [orders EXCEPT ![o] =
                    [user |-> u, status |-> "NEW", accrual |-> 0]]
    /\ UNCHANGED <<balances, withdrawals, written, pc, arg, batch, credited,
                   overlap, faults>>

\* The INSERT returns an error: it was not executed, or its answer was lost.
InsertOrderFails(h, u, o) ==
    /\ pc[h] = "idle"
    /\ Fault
    /\ \/ UNCHANGED orders
       \/ /\ Connected
          /\ OrderFree(h, o)
          /\ orders[o] = NoRow
          /\ orders' = [orders EXCEPT ![o] =
                          [user |-> u, status |-> "NEW", accrual |-> 0]]
    /\ UNCHANGED <<balances, withdrawals, written, pc, arg, batch, credited,
                   overlap>>

-----------------------------------------------------------------------------
(***************************************************************************)
(* UpdateOrdersBalancesBatch: in one transaction, every order of the batch *)
(* is updated and then the accrual of every order is credited.  b maps an  *)
(* order to the row to write, or to NoRow.                                 *)
(***************************************************************************)

UpdateOrdersBalancesBatch(b) ==
    /\ pc[Loop] = "idle"
    /\ Connected
    /\ pc' = [pc EXCEPT ![Loop] = "batch"]
    /\ batch' = b
    /\ credited' = {}
    /\ UNCHANGED <<tables, written, arg, overlap, faults>>

\* Mutant: the column status is of a type that takes every text.
UpdateOrderUntyped(o) ==
    /\ pc[Loop] = "batch"
    /\ o \in InBatch
    /\ uOrders[Loop][o] = NoRow
    /\ OrderFree(Loop, o)
    /\ orders[o] # NoRow
    /\ uOrders' = [uOrders EXCEPT ![Loop] = [@ EXCEPT ![o] =
           [user    |-> orders[o].user,
            status  |-> batch[o].status,
            accrual |-> Round(batch[o].accrual)]]]
    /\ UNCHANGED <<tables, uBalances, uWithdrawals, pc, arg, batch, credited,
                   overlap, faults>>

\* Mutant: the accrual is added to the one the row has, as a balance is.
UpdateOrderAdds(o) ==
    /\ pc[Loop] = "batch"
    /\ o \in InBatch
    /\ uOrders[Loop][o] = NoRow
    /\ batch[o].status \in Statuses
    /\ OrderFree(Loop, o)
    /\ orders[o] # NoRow
    /\ uOrders' = [uOrders EXCEPT ![Loop] = [@ EXCEPT ![o] =
           [user    |-> orders[o].user,
            status  |-> batch[o].status,
            accrual |-> orders[o].accrual + Round(batch[o].accrual)]]]
    /\ UNCHANGED <<tables, uBalances, uWithdrawals, pc, arg, batch, credited,
                   overlap, faults>>

\* queryCOrderDefault: the row is written whatever its status was.  No row
\* of orders is deleted while the process lives, so the row is there.
UpdateOrder(o) ==
    /\ pc[Loop] = "batch"
    /\ o \in InBatch
    /\ uOrders[Loop][o] = NoRow
    /\ batch[o].status \in Statuses
    /\ OrderFree(Loop, o)
    /\ orders[o] # NoRow
    /\ uOrders' = [uOrders EXCEPT ![Loop] = [@ EXCEPT ![o] =
           [user    |-> orders[o].user,
            status  |-> batch[o].status,
            accrual |-> Round(batch[o].accrual)]]]
    /\ UNCHANGED <<tables, uBalances, uWithdrawals, pc, arg, batch, credited,
                   overlap, faults>>

\* The status is not a value of order_status_type: the statement fails and
\* the whole transaction with it.
UpdateRejected(o) ==
    /\ pc[Loop] = "batch"
    /\ o \in InBatch
    /\ uOrders[Loop][o] = NoRow
    /\ batch[o].status \notin Statuses
    /\ Rollback(Loop)
    /\ UNCHANGED faults

\* Mutant: every credit is computed from the committed row.
CreditBalanceOfCommitted(o) ==
    LET u == batch[o].user
        a == Round(batch[o].accrual)
    IN  /\ pc[Loop] = "batch"
        /\ o \in InBatch \ credited
        /\ \A p \in InBatch : uOrders[Loop][p] # NoRow
        /\ BalanceFree(Loop, u)
        /\ uBalances' = [uBalances EXCEPT ![Loop] = [@ EXCEPT ![u] =
               [current   |-> Held(u).current + a,
                withdrawn |-> Held(u).withdrawn]]]
        /\ credited' = credited \union {o}
        /\ UNCHANGED <<tables, uOrders, uWithdrawals, pc, arg, batch,
                       overlap, faults>>

\* queryBalanceIncDefault, for the orders one after the other: a second
\* credit of the same user works on the row the first one wrote.
CreditBalance(o) ==
    LET u == batch[o].user
        a == Round(batch[o].accrual)
        base == IF uBalances[Loop][u] # NoRow THEN uBalances[Loop][u]
                                              ELSE Held(u)
    IN  /\ pc[Loop] = "batch"
        /\ o \in InBatch \ credited
        /\ \A p \in InBatch : uOrders[Loop][p] # NoRow
        /\ BalanceFree(Loop, u)
        /\ uBalances' = [uBalances EXCEPT ![Loop] = [@ EXCEPT ![u] =
               [current |-> base.current + a, withdrawn |-> base.withdrawn]]]
        /\ credited' = credited \union {o}
        /\ UNCHANGED <<tables, uOrders, uWithdrawals, pc, arg, batch,
                       overlap, faults>>

-----------------------------------------------------------------------------
(***************************************************************************)
(* The process dies and is started again.  What was not committed is lost; *)
(* the start runs goose DownTo 0 and Up, which drops and recreates every   *)
(* table.                                                                  *)
(***************************************************************************)
Restart ==
    /\ Fault
    /\ orders'       = NoOrders
    /\ balances'     = NoBalances
    /\ withdrawals'  = NoOrders
    /\ uOrders'      = [t \in Txns |-> NoOrders]
    /\ uBalances'    = [t \in Txns |-> NoBalances]
    /\ uWithdrawals' = [t \in Txns |-> NoOrders]
    /\ pc'           = [t \in Txns |-> "idle"]
    /\ arg'          = [t \in Txns |-> NoRow]
    /\ batch'        = NoOrders
    /\ credited'     = {}
    /\ overlap'      = {}

-----------------------------------------------------------------------------
(***************************************************************************)
(* The store under every load its callers can put on it.                   *)
(***************************************************************************)

\* All points that have been stored as current or withdrawn.
Points == MapThenSumSet(LAMBDA u : Held(u).current + Held(u).withdrawn, Users)

\* A batch updates stored orders of the right users.
Batch(b) ==
    /\ Present(b) # {}
    /\ \A o \in Present(b) : /\ orders[o] # NoRow
                             /\ b[o].user = orders[o].user

\* A MaxAccrual that is no number bounds nothing.
Bounded(b) ==
    MaxAccrual \in Nat =>
        Points + MapThenSumSet(LAMBDA o : b[o].accrual, Present(b)) <= MaxAccrual

Request(h) ==
    \/ \E u \in Users, o \in OrderIds, m \in Sums : InsertWithdraw(h, u, o, m)
    \/ \E u \in Users, o \in OrderIds :
          \/ InsertOrder(h, u, o)
          \/ InsertOrderFails(h, u, o)

Statement(h) == \/ SelectEnough(h)
                \/ SelectNotEnough(h)
                \/ SelectFails(h)
                \/ DecBalance(h)
                \/ InsertWithdrawal(h)
                \/ WithdrawalExists(h)

BatchStatement(o) == \/ UpdateOrder(o)
                     \/ UpdateRejected(o)
                     \/ CreditBalance(o)

PgNext ==
    \/ \E h \in Handlers : Request(h) \/ Statement(h)
    \/ \E b \in [OrderIds -> Rows \union {NoRow}] :
          UpdateOrdersBalancesBatch(b) /\ Batch(b) /\ Bounded(b)
    \/ \E o \in OrderIds : BatchStatement(o)
    \/ \E t \in Callers : Commit(t) \/ Fail(t) \/ LoseCommit(t)
    \/ LateCommit
    \/ LateAbort
    \/ Restart

PgSpec == PgInit /\ [][PgNext]_pgVars

-----------------------------------------------------------------------------
(***************************************************************************)
(* Properties.                                                             *)
(***************************************************************************)

\* The type of every variable: rows have the columns of their tables and the
\* accrual loop alone is at "batch".
TypeOK ==
    /\ orders       \in [OrderIds -> Order \union {NoRow}]
    /\ balances     \in [Users -> Balance \union {NoRow}]
    /\ withdrawals  \in [OrderIds -> Withdrawal \union {NoRow}]
    /\ uOrders      \in [Txns -> [OrderIds -> Order \union {NoRow}]]
    /\ uBalances    \in [Txns -> [Users -> Balance \union {NoRow}]]
    /\ uWithdrawals \in [Txns -> [OrderIds -> Withdrawal \union {NoRow}]]
    /\ pc           \in [Txns -> {"idle", "select", "dec", "insert",
                                  "commit", "batch"}]
    /\ arg          \in [Txns -> Asked \union {NoRow}]
    /\ batch        \in [OrderIds -> Rows \union {NoRow}]
    /\ credited     \in SUBSET OrderIds
    /\ overlap      \in SUBSET Users
    /\ faults       \in 0..MaxFaults

\* The withdrawals listed for a user add up to what the balance says has
\* been withdrawn: the two tables are written by different statements.
WithdrawnIsRecorded ==
    \A u \in Users :
        Held(u).withdrawn =
            SumFunction([o \in Owned(withdrawals, u) |-> withdrawals[o].sum])

\* No withdrawal of a sum below zero is recorded for the user.
NoNegativeSum(u) == \A o \in Owned(withdrawals, u) : withdrawals[o].sum >= 0

\* A user who never had two withdrawals in progress at once, and none of a
\* sum below zero, never spends more points than the balance holds, whatever
\* the accrual loop, lost commits and rounding do in between.
CoveredUnlessRaced ==
    \A u \in Users :
        u \notin overlap /\ NoNegativeSum(u) => Held(u).current >= 0

\* What SPECIFICATION.md promises: a withdrawal without enough points on the
\* account is refused (402), so no balance is ever negative.
BalanceNeverNegative == \A u \in Users : Held(u).current >= 0

\* This step records a withdrawal of a sum below zero for the user.
RecordsNegative(u) ==
    \E o \in OrderIds : /\ withdrawals[o] = NoRow /\ withdrawals'[o] # NoRow
                        /\ withdrawals'[o].user = u /\ withdrawals'[o].sum < 0

\* What a user has earned so far (points held and points withdrawn) shrinks
\* by a restart, or when the first row of the user comes from a sum below
\* zero; what was withdrawn shrinks by a restart or such a sum only.  An
\* update computed from a row that has changed since would lose points.
EarnedNeverLost ==
    [][\/ Restart
       \/ \A u \in Users :
             /\ \/ Held(u)'.withdrawn >= Held(u).withdrawn
                \/ RecordsNegative(u)
             /\ \/ Held(u)'.current + Held(u)'.withdrawn
                      >= Held(u).current + Held(u).withdrawn
                \/ RecordsNegative(u) /\ balances[u] = NoRow]_pgVars

\* Nothing keeps t from its next statement, whichever of the batch is next:
\* the row it needs is free.
GoesOn(t) ==
    \/ pc[t] = "select"
    \/ pc[t] = "dec" /\ BalanceFree(t, arg[t].user)
    \/ pc[t] = "insert" /\ WithdrawalFree(t, arg[t].order)
    \/ AtCommit(t)
    \/ /\ pc[t] = "batch"
       /\ \A o \in InBatch : uOrders[t][o] = NoRow => OrderFree(t, o)
       /\ \/ \E o \in InBatch : uOrders[t][o] = NoRow
          \/ \A o \in InBatch \ credited : BalanceFree(t, batch[o].user)

\* Whatever rows withdrawals, a batch and a lost commit have locked, one of
\* them can go on and will free its rows: they never wait for each other in
\* a circle, nor for a transaction that has ended.
NeverDeadlocked ==
    (\E t \in Txns : pc[t] # "idle") =>
        \E t \in Txns : pc[t] # "idle" /\ GoesOn(t)

(***************************************************************************)
(* FundsInv, the inductive invariant behind EarnedNeverLost and, with      *)
(* BooksInv, behind CoveredUnlessRaced.                                    *)
(***************************************************************************)

Checked == {"dec", "insert", "commit"}   \* after the comparison
Taken   == {"insert", "commit"}          \* after the change of the balance

\* Who can be where, and that a handler at work carries out a withdrawal.
PcShape ==
    /\ pc[Loop] \in {"idle", "batch"} /\ arg[Loop] = NoRow
    /\ pc[Zombie] \in {"idle", "commit"}
    /\ pc[Zombie] = "idle" => arg[Zombie] = NoRow
    /\ \A h \in Handlers : /\ pc[h] # "batch"
                           /\ pc[h] = "idle" <=> arg[h] = NoRow

\* A row of balances is written by one transaction at a time, and by none
\* that has ended.
LockExclusion ==
    /\ \A s, t \in Txns, u \in Users :
          uBalances[s][u] # NoRow /\ uBalances[t][u] # NoRow => s = t
    /\ \A t \in Txns, u \in Users : pc[t] = "idle" => uBalances[t][u] = NoRow

\* A transaction that is no withdrawal has only added points.
CreditsAdd ==
    \A t \in Txns, u \in Users :
        arg[t] = NoRow /\ uBalances[t][u] # NoRow =>
            /\ uBalances[t][u].current >= Held(u).current
            /\ uBalances[t][u].withdrawn = Held(u).withdrawn

\* A withdrawal has written its own user's row, after the comparison only,
\* and has moved the sum from the row as it still is committed.
WithdrawalMoves ==
    \A t \in Txns, u \in Users :
        arg[t] # NoRow =>
            /\ uBalances[t][u] # NoRow <=> pc[t] \in Taken /\ arg[t].user = u
            /\ uBalances[t][u] # NoRow =>
                 uBalances[t][u] = Decreased(u, Round(arg[t].sum))

\* The INSERT branch of queryBalanceDecDefault would give a sum above zero to
\* a user without a row; it is reached for sums up to zero only.
InsertBranchGivesNothing ==
    \A t \in Txns :
        arg[t] # NoRow /\ pc[t] \in Checked /\ balances[arg[t].user] = NoRow =>
            arg[t].sum <= 0

\* A user outside `overlap` has one withdrawal at most, and its sum is covered
\* once it was compared.
Covered ==
    \A u \in Users : u \notin overlap =>
        /\ \A s, t \in Txns : Withdrawing(s, u) /\ Withdrawing(t, u) => s = t
        /\ \A t \in Txns : Withdrawing(t, u) /\ pc[t] \in Checked =>
               Round(arg[t].sum) <= Held(u).current

FundsInv == /\ PcShape
            /\ LockExclusion
            /\ CreditsAdd
            /\ WithdrawalMoves
            /\ InsertBranchGivesNothing
            /\ Covered

(***************************************************************************)
(* BooksInv, the inductive invariant behind WithdrawnIsRecorded and        *)
(* ImplementsLedger: what a transaction has written in one table is what   *)
(* it has written in the other.                                            *)
(***************************************************************************)

\* Rows of orders are written by the batch of the loop, or by what is left of
\* one whose COMMIT was lost, with what the accrual system has answered.
OnlyBatches ==
    \A t \in Txns, o \in OrderIds : uOrders[t][o] # NoRow =>
        /\ t \in {Loop, Zombie} /\ arg[t] = NoRow /\ pc[t] # "idle"
        /\ \E a \in Updates : /\ uOrders[t][o].status = a.status
                              /\ uOrders[t][o].accrual = Round(a.accrual)

\* A row of orders is rewritten for the user it has.
OwnersKept ==
    \A t \in Txns, o \in OrderIds : uOrders[t][o] # NoRow =>
        orders[o] # NoRow /\ uOrders[t][o].user = orders[o].user

BatchOwned ==
    \A o \in InBatch : orders[o] # NoRow /\ batch[o].user = orders[o].user

\* A row of withdrawals is written once, by one transaction.
WrittenOnce ==
    \A t \in Txns, o \in OrderIds : uWithdrawals[t][o] # NoRow =>
        /\ withdrawals[o] = NoRow
        /\ \A s \in Txns : uWithdrawals[s][o] # NoRow => s = t

\* A withdrawal that has come to its COMMIT has recorded what was asked for,
\* and nobody else has recorded anything.
AskedRecorded ==
    \A t \in Txns, o \in OrderIds :
        /\ uWithdrawals[t][o] # NoRow <=>
             arg[t] # NoRow /\ pc[t] = "commit" /\ arg[t].order = o
        /\ uWithdrawals[t][o] # NoRow =>
             uWithdrawals[t][o] = [user |-> arg[t].user,
                                   sum  |-> Round(arg[t].sum)]

\* The loop writes its batch, and credits nobody before all of it is written.
BatchWritten ==
    /\ \A o \in OrderIds : uOrders[Loop][o] # NoRow =>
          /\ o \in InBatch
          /\ uOrders[Loop][o] = [user    |-> batch[o].user,
                                 status  |-> batch[o].status,
                                 accrual |-> Round(batch[o].accrual)]
    /\ credited \subseteq InBatch
    /\ credited # {} => \A o \in InBatch : uOrders[Loop][o] # NoRow

RowsWritten == /\ OnlyBatches
               /\ OwnersKept
               /\ BatchOwned
               /\ WrittenOnce
               /\ AskedRecorded
               /\ BatchWritten

\* The orders of user u that t has credited.
PaidBy(t, u) == {o \in IF t = Loop THEN credited ELSE Present(uOrders[t]) :
                    uOrders[t][o].user = u}

\* A batch has added to the balance of a user what it has written for the
\* orders of that user, to the row as it still is committed.
BatchPays ==
    \A t \in Txns, u \in Users : arg[t] = NoRow =>
        /\ uBalances[t][u] # NoRow <=> PaidBy(t, u) # {}
        /\ uBalances[t][u] # NoRow =>
             uBalances[t][u] =
                [current   |-> Held(u).current + SumFunction(
                                  [o \in PaidBy(t, u) |-> uOrders[t][o].accrual]),
                 withdrawn |-> Held(u).withdrawn]

\* The accruals that the orders of a user show are in the balance, unless it
\* has met a sum below zero.
AccrualsHeld ==
    \A u \in Users : NoNegativeSum(u) =>
        SumFunction([o \in Owned(orders, u) |-> orders[o].accrual])
            <= Held(u).current + Held(u).withdrawn

\* The three tables agree, and what is not yet committed in them agrees too:
\* a withdrawal that has taken points has recorded what it took, and a batch
\* has paid each user just what it wrote for the orders of that user.
BooksInv == /\ RowsWritten
            /\ BatchPays
            /\ WithdrawnIsRecorded
            /\ AccrualsHeld
            /\ CoveredUnlessRaced

\* The store implements the ledger: to those who see only committed rows
\* every operation is one atomic step.
AtomicLedger ==
    INSTANCE Ledger WITH
        raced   <- overlap,
        Amounts <- {Round(m) : m \in Sums},
        Updates <- {[status |-> a.status, accrual |-> Round(a.accrual)] :
                        a \in Updates}

ImplementsLedger == AtomicLedger!Spec
=============================================================================
