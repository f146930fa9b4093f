--------------------------- MODULE PgStoreProofs ---------------------------
(***************************************************************************)
(* What is proved about PgStore for all values of its constants.           *)
(***************************************************************************)
EXTENDS PgStore, TLAPS

-----------------------------------------------------------------------------
(***************************************************************************)
(* Rounding.                                                               *)
(***************************************************************************)

\* Division rounds down.
LEMMA DivBounds ==
    ASSUME NEW a \in Nat, NEW b \in Nat, b > 0
    PROVE  /\ a \div b \in Nat
           /\ b * (a \div b) <= a
  OBVIOUS

LEMMA DivAbove ==
    ASSUME NEW a \in Nat, NEW b \in Nat, b > 0
    PROVE  /\ a \div b \in Nat
           /\ a < b * (a \div b + 1)
  OBVIOUS

\* What numeric(19,2) stores for an accrual is a natural number.
LEMMA RoundNat ==
    ASSUME NEW a \in Nat
    PROVE  Round(a) \in Nat
<1>1. 2 * a + Parts \in Nat /\ 2 * Parts \in Nat /\ 2 * Parts > 0
  BY PgAssumption
<1> QED
  BY <1>1, DivBounds DEF Round

\* What numeric(19,2) stores for a sum, of either sign, is an integer.
LEMMA RoundInt ==
    ASSUME NEW a \in Int
    PROVE  Round(a) \in Int
<1>1. CASE a >= 0
  BY <1>1, RoundNat
<1>2. CASE ~(a >= 0)
  <2>1. Parts - 2 * a \in Nat /\ 2 * Parts \in Nat /\ 2 * Parts > 0
    BY <1>2, PgAssumption
  <2>2. (Parts - 2 * a) \div (2 * Parts) \in Nat
    BY <2>1, DivBounds
  <2> QED
    BY <1>2, <2>2 DEF Round
<1> QED
  BY <1>1, <1>2

\* InsertWithdraw compares the sum as it was asked for and takes the rounded
\* one: the rounding never takes more than the comparison has covered.
LEMMA RoundCovered ==
    ASSUME NEW m \in Int, NEW c \in Int, m <= Parts * c
    PROVE  Round(m) <= c
<1>0. Parts \in Nat /\ Parts > 0
  BY PgAssumption
<1>1. CASE m >= 0
  <2>1. 2 * m + Parts \in Nat /\ 2 * Parts \in Nat /\ 2 * Parts > 0
    BY <1>0, <1>1
  <2>2. PICK q \in Nat : q = Round(m) /\ (2 * Parts) * q <= 2 * m + Parts
    BY <1>1, <2>1, DivBounds DEF Round
  <2>3. ASSUME c < q PROVE FALSE
    <3>1. c + 1 <= q
      BY <2>2, <2>3
    <3>2. Parts * (c + 1) <= Parts * q
      BY <1>0, <2>2, <3>1
    <3>3. 2 * (Parts * q) <= 2 * m + Parts
      BY <1>0, <2>2
    <3>4. Parts * (c + 1) = Parts * c + Parts
      BY <1>0
    <3> QED
      BY <1>0, <2>2, <3>2, <3>3, <3>4
  <2> QED
    BY <2>2, <2>3
<1>2. CASE m < 0
  <2>1. Parts - 2 * m \in Nat /\ 2 * Parts \in Nat /\ 2 * Parts > 0
    BY <1>0, <1>2
  <2>2. PICK q \in Nat : /\ Round(m) = -q
                         /\ Parts - 2 * m < (2 * Parts) * (q + 1)
    BY <1>2, <2>1, DivAbove DEF Round
  <2>3. ASSUME c < -q PROVE FALSE
    <3>1. q + 1 <= -c
      BY <2>2, <2>3
    <3>2. Parts * (q + 1) <= Parts * (-c)
      BY <1>0, <2>2, <3>1
    <3>3. Parts * (-c) = -(Parts * c)
      BY <1>0
    <3>4. (2 * Parts) * (q + 1) = 2 * (Parts * (q + 1))
      BY <1>0
    <3>5. 2 * (Parts * (q + 1)) <= -(2 * m)
      BY <1>0, <2>2, <3>2, <3>3
    <3> QED
      BY <1>0, <2>2, <3>4, <3>5
  <2> QED
    BY <2>2, <2>3
<1> QED
  BY <1>1, <1>2

\* Without points nothing above zero is rounded to.
LEMMA RoundNone ==
    ASSUME NEW m \in Int, m <= 0
    PROVE  Round(m) <= 0
  BY RoundCovered, PgAssumption

LEMMA RoundZero == Round(0) = 0
  BY PgAssumption DEF Round

-----------------------------------------------------------------------------
(***************************************************************************)
(* Type correctness.                                                       *)
(***************************************************************************)

\* Every balance a statement works on is a balance.
LEMMA HeldType ==
    ASSUME TypeOK, NEW u \in Users
    PROVE  Held(u) \in Balance
  BY DEF TypeOK, Held, Balance

\* A row the loop writes has a user and an accrual.
LEMMA RowType ==
    ASSUME NEW r \in Rows
    PROVE  r.user \in Users /\ r.accrual \in Nat
  BY PgAssumption DEF Rows

\* A handler past the start of InsertWithdraw knows what was asked for.
LEMMA AskedType ==
    ASSUME TypeOK, PcShape, NEW h \in Handlers, pc[h] # "idle"
    PROVE  /\ arg[h] \in Asked
           /\ arg[h].user \in Users
           /\ arg[h].order \in OrderIds
           /\ arg[h].sum \in Int
<1>1. arg[h] \in Asked
  BY DEF TypeOK, PcShape, Txns
<1> QED
  BY <1>1, PgAssumption DEF Asked

LEMMA ReleaseType ==
    ASSUME TypeOK, NEW t \in Txns, Release(t)
    PROVE  /\ uOrders' \in [Txns -> [OrderIds -> Order \union {NoRow}]]
           /\ uBalances' \in [Txns -> [Users -> Balance \union {NoRow}]]
           /\ uWithdrawals' \in [Txns -> [OrderIds -> Withdrawal \union {NoRow}]]
           /\ pc' \in [Txns -> {"idle", "select", "dec", "insert", "commit",
                                "batch"}]
           /\ arg' \in [Txns -> Asked \union {NoRow}]
           /\ batch' \in [OrderIds -> Rows \union {NoRow}]
           /\ credited' \in SUBSET OrderIds
  BY DEF TypeOK, Release, NoOrders, NoBalances

LEMMA PublishType ==
    ASSUME TypeOK, NEW t \in Txns, Publish(t)
    PROVE  /\ orders' \in [OrderIds -> Order \union {NoRow}]
           /\ balances' \in [Users -> Balance \union {NoRow}]
           /\ withdrawals' \in [OrderIds -> Withdrawal \union {NoRow}]
  BY DEF TypeOK, Publish, Over

LEMMA RollbackType ==
    ASSUME TypeOK, NEW t \in Txns, Rollback(t), faults' \in 0..MaxFaults
    PROVE  TypeOK'
<1>1. Release(t) /\ UNCHANGED <<orders, balances, withdrawals, overlap>>
  BY DEF Rollback, tables
<1> QED
  BY <1>1, ReleaseType DEF TypeOK

LEMMA FaultType ==
    ASSUME TypeOK, Fault
    PROVE  faults' \in 0..MaxFaults
  BY PgAssumption DEF TypeOK, Fault

LEMMA TypeStep ==
    ASSUME TypeOK, PcShape, [PgNext]_pgVars
    PROVE  TypeOK'
<1> USE DEF tables, written, Txns, Callers
<1>1. ASSUME NEW h \in Handlers, NEW u \in Users, NEW o \in OrderIds,
             NEW m \in Sums, InsertWithdraw(h, u, o, m)
      PROVE  TypeOK'
  BY <1>1 DEF TypeOK, InsertWithdraw, Asked
<1>2. ASSUME NEW h \in Handlers, NEW u \in Users, NEW o \in OrderIds,
             InsertOrder(h, u, o)
      PROVE  TypeOK'
  BY <1>2 DEF TypeOK, InsertOrder, Order, Statuses
<1>3. ASSUME NEW h \in Handlers, NEW u \in Users, NEW o \in OrderIds,
             InsertOrderFails(h, u, o)
      PROVE  TypeOK'
  <2>1. faults' \in 0..MaxFaults
    BY <1>3, FaultType DEF InsertOrderFails
  <2> QED
    BY <1>3, <2>1 DEF TypeOK, InsertOrderFails, Order, Statuses
<1>4. ASSUME NEW h \in Handlers, SelectEnough(h)
      PROVE  TypeOK'
  BY <1>4 DEF TypeOK, SelectEnough
<1>5. ASSUME NEW h \in Handlers, SelectNotEnough(h)
      PROVE  TypeOK'
  BY <1>5, RollbackType DEF SelectNotEnough, TypeOK
<1>6. ASSUME NEW h \in Handlers, SelectFails(h)
      PROVE  TypeOK'
  BY <1>6, RollbackType, FaultType DEF SelectFails
<1>7. ASSUME NEW h \in Handlers, DecBalance(h)
      PROVE  TypeOK'
  <2> DEFINE u == arg[h].user
             a == Round(arg[h].sum)
  <2>1. u \in Users /\ a \in Int
    BY <1>7, AskedType, RoundInt DEF DecBalance
  <2>2. Decreased(u, a) \in Balance
    BY <2>1 DEF TypeOK, Balance, Decreased
  <2> QED
    BY <1>7, <2>1, <2>2 DEF DecBalance, TypeOK
<1>8. ASSUME NEW h \in Handlers, InsertWithdrawal(h)
      PROVE  TypeOK'
  <2> DEFINE w == [user |-> arg[h].user, sum |-> Round(arg[h].sum)]
  <2>1. w \in Withdrawal /\ arg[h].order \in OrderIds
    BY <1>8, AskedType, RoundInt DEF InsertWithdrawal, Withdrawal
  <2> QED
    BY <1>8, <2>1 DEF InsertWithdrawal, TypeOK
<1>9. ASSUME NEW h \in Handlers, WithdrawalExists(h)
      PROVE  TypeOK'
  BY <1>9, RollbackType DEF WithdrawalExists, TypeOK
<1>10. ASSUME NEW b \in [OrderIds -> Rows \union {NoRow}],
              UpdateOrdersBalancesBatch(b)
       PROVE  TypeOK'
  BY <1>10 DEF TypeOK, UpdateOrdersBalancesBatch
<1>11. ASSUME NEW o \in OrderIds, UpdateOrder(o)
       PROVE  TypeOK'
  <2> DEFINE r == [user    |-> orders[o].user,
                   status  |-> batch[o].status,
                   accrual |-> Round(batch[o].accrual)]
  <2>1. orders[o] \in Order /\ batch[o] \in Rows
    BY <1>11 DEF UpdateOrder, TypeOK, InBatch, Present
  <2>2. r \in Order
    BY <1>11, <2>1, RowType, RoundNat DEF UpdateOrder, Order
  <2> QED
    BY <1>11, <2>2 DEF UpdateOrder, TypeOK
<1>12. ASSUME NEW o \in OrderIds, UpdateRejected(o)
       PROVE  TypeOK'
  BY <1>12, RollbackType DEF UpdateRejected, TypeOK
<1>13. ASSUME NEW o \in OrderIds, CreditBalance(o)
       PROVE  TypeOK'
  <2> DEFINE u == batch[o].user
             a == Round(batch[o].accrual)
             base == IF uBalances[Loop][u] # NoRow THEN uBalances[Loop][u]
                                                   ELSE Held(u)
             b == [current   |-> base.current + a,
                   withdrawn |-> base.withdrawn]
  <2>1. batch[o] \in Rows
    BY <1>13 DEF CreditBalance, TypeOK, InBatch, Present
  <2>2. u \in Users /\ a \in Nat
    BY <2>1, RowType, RoundNat
  <2>3. base \in Balance
    BY <2>2, HeldType DEF TypeOK
  <2>4. b \in Balance
    BY <2>2, <2>3 DEF Balance
  <2> QED
    BY <1>13, <2>2, <2>4 DEF CreditBalance, TypeOK
<1>14. ASSUME NEW t \in Callers, Commit(t)
       PROVE  TypeOK'
  BY <1>14, PublishType, ReleaseType DEF Commit, TypeOK
<1>15. ASSUME NEW t \in Callers, Fail(t)
       PROVE  TypeOK'
  BY <1>15, RollbackType, FaultType DEF Fail
<1>16. ASSUME NEW t \in Callers, LoseCommit(t)
       PROVE  TypeOK'
  <2>1. faults' \in 0..MaxFaults
    BY <1>16, FaultType DEF LoseCommit
  <2> QED
    BY <1>16, <2>1 DEF LoseCommit, TypeOK, NoOrders, NoBalances
<1>17. CASE LateCommit
  BY <1>17, PublishType, ReleaseType DEF LateCommit, TypeOK
<1>18. CASE LateAbort
  BY <1>18, ReleaseType DEF LateAbort, TypeOK
<1>19. CASE Restart
  <2>1. faults' \in 0..MaxFaults
    BY <1>19, FaultType DEF Restart
  <2> QED
    BY <1>19, <2>1 DEF Restart, TypeOK, NoOrders, NoBalances
<1>20. CASE UNCHANGED pgVars
  BY <1>20 DEF TypeOK, pgVars
<1> QED
  BY <1>1, <1>2, <1>3, <1>4, <1>5, <1>6, <1>7, <1>8, <1>9, <1>10, <1>11,
     <1>12, <1>13, <1>14, <1>15, <1>16, <1>17, <1>18, <1>19, <1>20
     DEF PgNext, Request, Statement, BatchStatement

\* How a step can change what the funds depend on: the steps of PgNext,
\* those with the same effect on these variables taken together.
LEMMA StepCases ==
    ASSUME [PgNext]_pgVars
    PROVE  \/ UNCHANGED <<balances, uBalances, pc, arg, overlap>>
           \/ \E h \in Handlers, u \in Users, o \in OrderIds, m \in Sums :
                 InsertWithdraw(h, u, o, m)
           \/ \E h \in Handlers : \/ SelectEnough(h)
                                  \/ DecBalance(h)
                                  \/ InsertWithdrawal(h)
           \/ \E b : UpdateOrdersBalancesBatch(b)
           \/ \E o \in OrderIds : CreditBalance(o)
           \/ \E t \in Txns : Release(t) /\ UNCHANGED <<balances, overlap>>
           \/ \E t \in Txns : /\ AtCommit(t)
                              /\ Publish(t) /\ Release(t)
                              /\ UNCHANGED overlap
           \/ \E t \in Callers : LoseCommit(t)
           \/ Restart
<1> USE DEF tables, written, Txns, Callers
<1>1. ASSUME NEW t \in Txns, Rollback(t)
      PROVE  Release(t) /\ UNCHANGED <<balances, overlap>>
  BY <1>1 DEF Rollback
<1>2. ASSUME NEW h \in Handlers, Request(h)
      PROVE  \/ UNCHANGED <<balances, uBalances, pc, arg, overlap>>
             \/ \E u \in Users, o \in OrderIds, m \in Sums :
                   InsertWithdraw(h, u, o, m)
  BY <1>2 DEF Request, InsertOrder, InsertOrderFails
<1>3. ASSUME NEW h \in Handlers, Statement(h)
      PROVE  \/ SelectEnough(h) \/ DecBalance(h) \/ InsertWithdrawal(h)
             \/ Rollback(h)
  BY <1>3 DEF Statement, SelectNotEnough, SelectFails, WithdrawalExists
<1>4. ASSUME NEW o \in OrderIds, BatchStatement(o)
      PROVE  \/ UNCHANGED <<balances, uBalances, pc, arg, overlap>>
             \/ CreditBalance(o)
             \/ Rollback(Loop)
  BY <1>4 DEF BatchStatement, UpdateOrder, UpdateRejected
<1>5. ASSUME NEW t \in Callers, Commit(t) \/ Fail(t)
      PROVE  \/ AtCommit(t) /\ Publish(t) /\ Release(t) /\ UNCHANGED overlap
             \/ Rollback(t)
  BY <1>5 DEF Commit, Fail
<1>6. ASSUME LateCommit \/ LateAbort
      PROVE  \/ /\ AtCommit(Zombie) /\ Publish(Zombie) /\ Release(Zombie)
                /\ UNCHANGED overlap
             \/ Release(Zombie) /\ UNCHANGED <<balances, overlap>>
  BY <1>6 DEF LateCommit, LateAbort, AtCommit
<1>7. CASE UNCHANGED pgVars
  BY <1>7 DEF pgVars
<1>8. CASE PgNext
  <2>1. CASE \E h \in Handlers : Request(h) \/ Statement(h)
    BY <2>1, <1>1, <1>2, <1>3
  <2>2. CASE \E b \in [OrderIds -> Rows \union {NoRow}] :
                UpdateOrdersBalancesBatch(b) /\ Batch(b) /\ Bounded(b)
    BY <2>2
  <2>3. CASE \E o \in OrderIds : BatchStatement(o)
    BY <2>3, <1>1, <1>4
  <2>4. CASE \E t \in Callers : Commit(t) \/ Fail(t) \/ LoseCommit(t)
    BY <2>4, <1>1, <1>5
  <2>5. CASE LateCommit \/ LateAbort
    BY <2>5, <1>6
  <2>6. CASE Restart
    BY <2>6
  <2> QED
    BY <1>8, <2>1, <2>2, <2>3, <2>4, <2>5, <2>6 DEF PgNext
<1> QED
  BY <1>7, <1>8

LEMMA ShapeStep ==
    ASSUME TypeOK, PcShape, [PgNext]_pgVars
    PROVE  PcShape'
<1> USE PgAssumption DEF Txns, Callers
<1>1. CASE UNCHANGED <<balances, uBalances, pc, arg, overlap>>
  BY <1>1 DEF PcShape
<1>2. ASSUME NEW h \in Handlers, NEW u \in Users, NEW o \in OrderIds,
             NEW m \in Sums, InsertWithdraw(h, u, o, m)
      PROVE  PcShape'
  <2>1. [user |-> u, order |-> o, sum |-> m] # NoRow
    BY DEF Asked
  <2> QED
    BY <1>2, <2>1 DEF InsertWithdraw, PcShape, TypeOK
<1>3. ASSUME NEW h \in Handlers,
             SelectEnough(h) \/ DecBalance(h) \/ InsertWithdrawal(h)
      PROVE  PcShape'
  BY <1>3 DEF SelectEnough, DecBalance, InsertWithdrawal, PcShape, TypeOK
<1>4. ASSUME NEW b, UpdateOrdersBalancesBatch(b)
      PROVE  PcShape'
  BY <1>4 DEF UpdateOrdersBalancesBatch, PcShape, TypeOK
<1>5. ASSUME NEW o \in OrderIds, CreditBalance(o)
      PROVE  PcShape'
  BY <1>5 DEF CreditBalance, PcShape
<1>6. ASSUME NEW t \in Txns, Release(t)
      PROVE  PcShape'
  BY <1>6 DEF Release, PcShape, TypeOK
<1>7. ASSUME NEW t \in Callers, LoseCommit(t)
      PROVE  PcShape'
  BY <1>7 DEF LoseCommit, PcShape, TypeOK
<1>8. CASE Restart
  BY <1>8 DEF Restart, PcShape
<1> QED
  BY <1>1, <1>2, <1>3, <1>4, <1>5, <1>6, <1>7, <1>8, StepCases

LEMMA TypeInit == PgInit => TypeOK /\ PcShape
  BY PgAssumption DEF PgInit, TypeOK, PcShape, NoOrders, NoBalances, Txns

\* The rows of the tables always have the columns of the schema, with an
\* accrual that is never negative; every statement of pg.go keeps this.
THEOREM TypeCorrect == PgSpec => [](TypeOK /\ PcShape)
<1>1. PgInit => TypeOK /\ PcShape
  BY TypeInit
<1>2. TypeOK /\ PcShape /\ [PgNext]_pgVars => (TypeOK /\ PcShape)'
  BY TypeStep, ShapeStep
<1> QED
  BY <1>1, <1>2, PTL DEF PgSpec

-----------------------------------------------------------------------------
(***************************************************************************)
(* The funds.                                                              *)
(***************************************************************************)

LEMMA FundsInit == PgInit => FundsInv
<1> SUFFICES ASSUME PgInit PROVE FundsInv
  OBVIOUS
<1>1. PcShape
  BY PgAssumption DEF PgInit, PcShape, Txns
<1>2. LockExclusion /\ CreditsAdd /\ WithdrawalMoves /\ InsertBranchGivesNothing
  BY DEF PgInit, LockExclusion, CreditsAdd, WithdrawalMoves,
         InsertBranchGivesNothing, NoBalances
<1>3. Covered
  BY DEF PgInit, Covered, Withdrawing, Held, NoBalances
<1> QED
  BY <1>1, <1>2, <1>3 DEF FundsInv

\* A new withdrawal holds no row and has compared nothing.
LEMMA FundsInsertWithdraw ==
    ASSUME TypeOK, FundsInv, NEW h \in Handlers, NEW u \in Users,
           NEW o \in OrderIds, NEW m \in Sums, InsertWithdraw(h, u, o, m),
           PcShape'
    PROVE  FundsInv'
<1> USE DEF FundsInv, tables, written, Txns
<1> DEFINE w == [user |-> u, order |-> o, sum |-> m]
<1>1. /\ UNCHANGED <<balances, uBalances>>
      /\ pc[h] = "idle" /\ pc' = [pc EXCEPT ![h] = "select"]
      /\ arg[h] = NoRow /\ arg' = [arg EXCEPT ![h] = w]
      /\ w # NoRow /\ w.user = u
  BY PgAssumption DEF InsertWithdraw, PcShape, Asked
<1>2. \A v \in Users : Held(v)' = Held(v)
  BY <1>1 DEF Held
<1>3. \A v \in Users : uBalances[h][v] = NoRow
  BY <1>1 DEF LockExclusion
<1>4. LockExclusion'
  BY <1>1 DEF LockExclusion, TypeOK
<1>5. CreditsAdd'
  BY <1>1, <1>2 DEF CreditsAdd, TypeOK
<1>6. WithdrawalMoves'
  BY <1>1, <1>3 DEF WithdrawalMoves, TypeOK, Taken, Decreased
<1>7. InsertBranchGivesNothing'
  BY <1>1 DEF InsertBranchGivesNothing, TypeOK, Checked
<1>8. Covered'
  <2> SUFFICES ASSUME NEW v \in Users, v \notin overlap'
               PROVE  /\ \A s, t \in Txns : Withdrawing(s, v)'
                                          /\ Withdrawing(t, v)' => s = t
                      /\ \A t \in Txns : Withdrawing(t, v)'
                                       /\ pc'[t] \in Checked =>
                             Round(arg'[t].sum) <= Held(v)'.current
    BY DEF Covered
  <2>1. v \notin overlap
    BY DEF InsertWithdraw
  <2>2. v = u => \A t \in Txns : ~Withdrawing(t, v)
    BY DEF InsertWithdraw
  <2>3. \A t \in Txns : t # h => (Withdrawing(t, v)' <=> Withdrawing(t, v))
    BY <1>1 DEF Withdrawing, TypeOK
  <2>4. Withdrawing(h, v)' <=> v = u
    BY <1>1 DEF Withdrawing, TypeOK
  <2>5. \A t \in Txns : t # h => pc'[t] = pc[t] /\ arg'[t] = arg[t]
    BY <1>1 DEF TypeOK
  <2>6. pc'[h] \notin Checked
    BY <1>1 DEF TypeOK, Checked
  <2> QED
    BY <1>2, <2>1, <2>2, <2>3, <2>4, <2>5, <2>6 DEF Covered
<1> QED
  BY <1>4, <1>5, <1>6, <1>7, <1>8

\* The comparison covers the rounded sum; without a row nothing above zero
\* passes it.
LEMMA FundsSelectEnough ==
    ASSUME TypeOK, FundsInv, NEW h \in Handlers, SelectEnough(h), PcShape'
    PROVE  FundsInv'
<1> USE DEF FundsInv, tables, written, Txns
<1> DEFINE u == arg[h].user
<1>1. /\ UNCHANGED <<balances, uBalances, arg, overlap>>
      /\ pc[h] = "select" /\ pc' = [pc EXCEPT ![h] = "dec"]
  BY DEF SelectEnough
<1>2. \A v \in Users : Held(v)' = Held(v)
  BY <1>1 DEF Held
<1>3. u \in Users /\ arg[h].sum \in Int /\ Held(u).current \in Int
  BY <1>1, AskedType, HeldType DEF Balance
<1>4. Round(arg[h].sum) <= Held(u).current
  BY <1>3, RoundCovered DEF SelectEnough
<1>5. LockExclusion' /\ CreditsAdd'
  BY <1>1, <1>2 DEF LockExclusion, CreditsAdd, TypeOK
<1>6. WithdrawalMoves'
  BY <1>1 DEF WithdrawalMoves, TypeOK, Taken, Decreased
<1>7. InsertBranchGivesNothing'
  <2>1. balances[u] = NoRow => arg[h].sum <= 0
    <3> SUFFICES ASSUME balances[u] = NoRow PROVE arg[h].sum <= 0
      OBVIOUS
    <3>1. arg[h].sum <= Parts * 0
      BY DEF SelectEnough, Held
    <3> QED
      BY <1>3, <3>1, PgAssumption
  <2> QED
    BY <1>1, <2>1 DEF InsertBranchGivesNothing, TypeOK, Checked
<1>8. Covered'
  BY <1>1, <1>2, <1>4 DEF Covered, Withdrawing, TypeOK, Checked
<1> QED
  BY <1>5, <1>6, <1>7, <1>8

\* The row is free, so it is still the one that is committed.
LEMMA FundsDecBalance ==
    ASSUME TypeOK, FundsInv, NEW h \in Handlers, DecBalance(h), PcShape'
    PROVE  FundsInv'
<1> USE DEF FundsInv, tables, written, Txns
<1> DEFINE u == arg[h].user
           b == Decreased(u, Round(arg[h].sum))
<1>1. /\ UNCHANGED <<balances, arg, overlap>>
      /\ pc[h] = "dec" /\ pc' = [pc EXCEPT ![h] = "insert"]
      /\ arg[h] # NoRow
  BY DEF DecBalance, PcShape
<1>2. \A v \in Users : Held(v)' = Held(v)
  BY <1>1 DEF Held
<1>3. u \in Users /\ Round(arg[h].sum) \in Int
  BY <1>1, AskedType, RoundInt
<1>4. b \in Balance /\ b # NoRow
  BY <1>3, PgAssumption DEF TypeOK, Balance, Decreased
<1>5. uBalances' = [uBalances EXCEPT ![h] = [uBalances[h] EXCEPT ![u] = b]]
  BY DEF DecBalance
<1>6. \A v \in Users : uBalances[h][v] = NoRow
  BY <1>1 DEF WithdrawalMoves, Taken
<1>7. WithdrawalMoves'
  <2>1. ASSUME NEW t \in Txns, NEW v \in Users, arg'[t] # NoRow
        PROVE  /\ uBalances'[t][v] # NoRow
                    <=> pc'[t] \in Taken /\ arg'[t].user = v
               /\ uBalances'[t][v] # NoRow =>
                    uBalances'[t][v] = Decreased(v, Round(arg[t].sum))
    BY <1>1, <1>3, <1>4, <1>5, <1>6, <2>1 DEF WithdrawalMoves, TypeOK, Taken
  <2> QED
    BY <1>1, <2>1 DEF WithdrawalMoves, Decreased
<1> HIDE DEF b
<1>8. LockExclusion'
  BY <1>1, <1>3, <1>5, <1>6 DEF LockExclusion, TypeOK, DecBalance, BalanceFree
<1>9. CreditsAdd'
  BY <1>1, <1>2, <1>5 DEF CreditsAdd, TypeOK
<1>10. InsertBranchGivesNothing' /\ Covered'
  BY <1>1, <1>2 DEF InsertBranchGivesNothing, Covered, Withdrawing, TypeOK, Checked
<1> QED
  BY <1>7, <1>8, <1>9, <1>10

LEMMA FundsInsertWithdrawal ==
    ASSUME TypeOK, FundsInv, NEW h \in Handlers, InsertWithdrawal(h), PcShape'
    PROVE  FundsInv'
<1> USE DEF FundsInv, tables, written, Txns
<1>1. /\ UNCHANGED <<balances, uBalances, arg, overlap>>
      /\ pc[h] = "insert" /\ pc' = [pc EXCEPT ![h] = "commit"]
  BY DEF InsertWithdrawal
<1>2. \A v \in Users : Held(v)' = Held(v)
  BY <1>1 DEF Held
<1>3. LockExclusion' /\ CreditsAdd' /\ InsertBranchGivesNothing' /\ Covered'
  BY <1>1, <1>2 DEF LockExclusion, CreditsAdd, InsertBranchGivesNothing,
                    Covered, Withdrawing, Checked, TypeOK
<1>4. WithdrawalMoves'
  BY <1>1 DEF WithdrawalMoves, TypeOK, Taken, Decreased
<1> QED
  BY <1>3, <1>4

\* The batch of the loop is no withdrawal.
LEMMA FundsBatch ==
    ASSUME TypeOK, FundsInv, NEW b, UpdateOrdersBalancesBatch(b), PcShape'
    PROVE  FundsInv'
<1> USE DEF FundsInv, tables, written, Txns
<1>1. /\ UNCHANGED <<balances, uBalances, arg, overlap>>
      /\ pc[Loop] = "idle" /\ pc' = [pc EXCEPT ![Loop] = "batch"]
      /\ arg[Loop] = NoRow
  BY DEF UpdateOrdersBalancesBatch, PcShape
<1>2. \A v \in Users : Held(v)' = Held(v)
  BY <1>1 DEF Held
<1>3. LockExclusion' /\ CreditsAdd' /\ InsertBranchGivesNothing' /\ Covered'
  BY <1>1, <1>2 DEF LockExclusion, CreditsAdd, InsertBranchGivesNothing,
                    Covered, Withdrawing, Checked, TypeOK
<1>4. WithdrawalMoves'
  BY <1>1 DEF WithdrawalMoves, TypeOK, Taken, Decreased
<1> QED
  BY <1>3, <1>4

\* A credit adds to the row that is committed or to an earlier credit.
LEMMA FundsCreditBalance ==
    ASSUME TypeOK, FundsInv, NEW o \in OrderIds, CreditBalance(o), PcShape'
    PROVE  FundsInv'
<1> USE DEF FundsInv, tables, written, Txns
<1> DEFINE u == batch[o].user
           a == Round(batch[o].accrual)
           base == IF uBalances[Loop][u] # NoRow THEN uBalances[Loop][u]
                                                 ELSE Held(u)
           b == [current |-> base.current + a, withdrawn |-> base.withdrawn]
<1>1. /\ UNCHANGED <<balances, pc, arg, overlap>>
      /\ pc[Loop] = "batch" /\ arg[Loop] = NoRow
      /\ uBalances' = [uBalances EXCEPT
                          ![Loop] = [uBalances[Loop] EXCEPT ![u] = b]]
  BY DEF CreditBalance, PcShape
<1>2. \A v \in Users : Held(v)' = Held(v)
  BY <1>1 DEF Held
<1>3. batch[o] \in Rows
  BY DEF CreditBalance, TypeOK, InBatch, Present
<1>4. u \in Users /\ a \in Nat
  BY <1>3, RowType, RoundNat
<1>5. base \in Balance /\ Held(u) \in Balance
  BY <1>4, HeldType DEF TypeOK
<1>6. base.current >= Held(u).current /\ base.withdrawn = Held(u).withdrawn
  BY <1>1, <1>4, <1>5 DEF CreditsAdd, Balance
<1>7. b.current >= Held(u).current /\ b.withdrawn = Held(u).withdrawn
  BY <1>4, <1>5, <1>6 DEF Balance
<1> HIDE DEF b
<1>8. LockExclusion'
  BY <1>1, <1>4 DEF LockExclusion, TypeOK, CreditBalance, BalanceFree
<1>9. CreditsAdd'
  BY <1>1, <1>2, <1>4, <1>7 DEF CreditsAdd, TypeOK
<1>10. WithdrawalMoves'
  BY <1>1 DEF WithdrawalMoves, TypeOK, Decreased
<1>11. InsertBranchGivesNothing' /\ Covered'
  BY <1>1, <1>2 DEF InsertBranchGivesNothing, Covered, Withdrawing
<1> QED
  BY <1>8, <1>9, <1>10, <1>11

\* A transaction that ends without a trace in the tables.
LEMMA FundsRelease ==
    ASSUME TypeOK, FundsInv, NEW t \in Txns, Release(t),
           UNCHANGED <<balances, overlap>>, PcShape'
    PROVE  FundsInv'
<1> USE DEF FundsInv
<1>1. /\ uBalances' = [uBalances EXCEPT ![t] = NoBalances]
      /\ pc' = [pc EXCEPT ![t] = "idle"] /\ arg' = [arg EXCEPT ![t] = NoRow]
  BY DEF Release
<1>2. \A v \in Users : Held(v)' = Held(v)
  BY DEF Held
<1>3. \A v \in Users : uBalances'[t][v] = NoRow
  BY <1>1 DEF TypeOK, NoBalances
<1>4. \A s \in Txns : s # t => /\ uBalances'[s] = uBalances[s]
                               /\ pc'[s] = pc[s] /\ arg'[s] = arg[s]
  BY <1>1 DEF TypeOK
<1>5. pc'[t] = "idle" /\ arg'[t] = NoRow
  BY <1>1 DEF TypeOK
<1> QED
  BY <1>2, <1>3, <1>4, <1>5
     DEF LockExclusion, CreditsAdd, WithdrawalMoves, Taken, Decreased,
         InsertBranchGivesNothing, Covered, Withdrawing, Checked

\* What a committed transaction did to a user: its row if it wrote one.
LEMMA PublishHeld ==
    ASSUME TypeOK, NEW t \in Txns, Publish(t), NEW v \in Users
    PROVE  /\ uBalances[t][v] = NoRow => /\ balances'[v] = balances[v]
                                         /\ Held(v)' = Held(v)
           /\ uBalances[t][v] # NoRow => /\ balances'[v] = uBalances[t][v]
                                         /\ Held(v)' = uBalances[t][v]
  BY DEF TypeOK, Publish, Over, Held

\* The committing transaction is the only one that wrote its rows: what the
\* others wrote was computed from rows that stay as they are.
LEMMA FundsCommit ==
    ASSUME TypeOK, FundsInv, NEW t \in Txns, AtCommit(t), Publish(t),
           Release(t), UNCHANGED overlap, PcShape'
    PROVE  FundsInv'
<1> USE DEF FundsInv
<1>1. /\ uBalances' = [uBalances EXCEPT ![t] = NoBalances]
      /\ pc' = [pc EXCEPT ![t] = "idle"] /\ arg' = [arg EXCEPT ![t] = NoRow]
  BY DEF Release
<1>2. \A v \in Users : uBalances'[t][v] = NoRow
  BY <1>1 DEF TypeOK, NoBalances
<1>3. \A s \in Txns : s # t => /\ uBalances'[s] = uBalances[s]
                               /\ pc'[s] = pc[s] /\ arg'[s] = arg[s]
  BY <1>1 DEF TypeOK
<1>4. pc'[t] = "idle" /\ arg'[t] = NoRow
  BY <1>1 DEF TypeOK
<1>5. \A v \in Users :
         /\ uBalances[t][v] = NoRow => /\ Held(v)' = Held(v)
                                       /\ balances'[v] = balances[v]
         /\ uBalances[t][v] # NoRow => Held(v)' = uBalances[t][v]
         /\ balances'[v] = NoRow => balances[v] = NoRow
  BY PublishHeld
<1>6. LockExclusion'
  BY <1>2, <1>3, <1>4 DEF LockExclusion
<1>7. \A s \in Txns, v \in Users : uBalances'[s][v] # NoRow =>
         /\ s # t /\ uBalances[t][v] = NoRow
         /\ Held(v)' = Held(v) /\ balances'[v] = balances[v]
  BY <1>2, <1>3, <1>5 DEF LockExclusion
<1>8. CreditsAdd'
  BY <1>3, <1>7 DEF CreditsAdd
<1>9. WithdrawalMoves'
  <2> SUFFICES ASSUME NEW s \in Txns, NEW v \in Users, arg'[s] # NoRow
               PROVE  /\ uBalances'[s][v] # NoRow
                           <=> pc'[s] \in Taken /\ arg'[s].user = v
                      /\ uBalances'[s][v] # NoRow =>
                           uBalances'[s][v] = Decreased(v, Round(arg[s].sum))'
    BY DEF WithdrawalMoves
  <2>1. /\ s # t /\ uBalances'[s] = uBalances[s]
        /\ pc'[s] = pc[s] /\ arg'[s] = arg[s]
    BY <1>3, <1>4
  <2>2. uBalances'[s][v] # NoRow => balances'[v] = balances[v]
    BY <1>7
  <2>3. /\ uBalances[s][v] # NoRow <=> pc[s] \in Taken /\ arg[s].user = v
        /\ uBalances[s][v] # NoRow =>
             uBalances[s][v] = Decreased(v, Round(arg[s].sum))
    BY <2>1 DEF WithdrawalMoves
  <2> QED
    BY <2>1, <2>2, <2>3 DEF Decreased
<1>10. InsertBranchGivesNothing'
  <2> SUFFICES ASSUME NEW s \in Txns, arg'[s] # NoRow, pc'[s] \in Checked,
                      balances'[arg'[s].user] = NoRow
               PROVE  arg'[s].sum <= 0
    BY DEF InsertBranchGivesNothing
  <2>1. s # t /\ arg'[s] = arg[s] /\ pc'[s] = pc[s]
    BY <1>3, <1>4
  <2>2. arg[s].user \in Users
    BY <2>1 DEF TypeOK, Asked
  <2> QED
    BY <1>5, <2>1, <2>2 DEF InsertBranchGivesNothing
<1>11. Covered'
  <2> SUFFICES ASSUME NEW v \in Users, v \notin overlap
               PROVE  /\ \A s, r \in Txns : Withdrawing(s, v)'
                                          /\ Withdrawing(r, v)' => s = r
                      /\ \A s \in Txns : Withdrawing(s, v)'
                                       /\ pc'[s] \in Checked =>
                             Round(arg'[s].sum) <= Held(v)'.current
    BY DEF Covered
  <2>1. ~Withdrawing(t, v)'
    BY <1>4 DEF Withdrawing
  <2>2. \A s \in Txns : s # t => (Withdrawing(s, v)' <=> Withdrawing(s, v))
    BY <1>3 DEF Withdrawing
  <2>3. \A s, r \in Txns : Withdrawing(s, v)' /\ Withdrawing(r, v)' => s = r
    BY <2>1, <2>2 DEF Covered
  <2>4. Held(v) \in Balance /\ Held(v)' \in Balance
    BY HeldType, PublishHeld DEF TypeOK
  <2>5. CASE Withdrawing(t, v)
    BY <2>1, <2>2, <2>3, <2>5 DEF Covered
  <2>6. CASE ~Withdrawing(t, v)
    <3>1. Held(v)'.current >= Held(v).current
      <4>1. uBalances[t][v] # NoRow => arg[t] = NoRow
        BY <2>6 DEF WithdrawalMoves, Withdrawing
      <4> QED
        BY <1>5, <2>4, <4>1 DEF CreditsAdd, Balance
    <3>2. \A s \in Txns : Withdrawing(s, v) => Round(arg[s].sum) \in Int
      BY RoundInt, PgAssumption DEF TypeOK, Withdrawing, Asked
    <3>3. ASSUME NEW s \in Txns, Withdrawing(s, v)', pc'[s] \in Checked
          PROVE  Round(arg'[s].sum) <= Held(v)'.current
      <4>1. Withdrawing(s, v) /\ pc[s] \in Checked /\ arg'[s] = arg[s]
        BY <1>3, <2>1, <2>2, <3>3
      <4>2. Round(arg[s].sum) <= Held(v).current /\ Round(arg[s].sum) \in Int
        BY <3>2, <4>1 DEF Covered
      <4> QED
        BY <2>4, <3>1, <4>1, <4>2 DEF Balance
    <3> QED
      BY <2>3, <3>3
  <2> QED
    BY <2>5, <2>6
<1> QED
  BY <1>6, <1>8, <1>9, <1>10, <1>11

\* A lost COMMIT changes hands and nothing else.
LEMMA FundsLoseCommit ==
    ASSUME TypeOK, FundsInv, NEW t \in Callers, LoseCommit(t), PcShape'
    PROVE  FundsInv'
<1> USE DEF FundsInv, tables, written
<1>1. t \in Txns /\ Zombie \in Txns /\ t # Zombie
  BY PgAssumption DEF Txns, Callers
<1>2. /\ UNCHANGED <<balances, overlap>>
      /\ pc[t] \in {"commit", "batch"} /\ pc[Zombie] = "idle"
      /\ uBalances' = [uBalances EXCEPT ![t] = NoBalances,
                                        ![Zombie] = uBalances[t]]
      /\ pc' = [pc EXCEPT ![t] = "idle", ![Zombie] = "commit"]
      /\ arg' = [arg EXCEPT ![t] = NoRow, ![Zombie] = arg[t]]
  BY DEF LoseCommit, AtCommit
<1>3. arg[t] # NoRow => pc[t] = "commit"
  BY <1>2, PgAssumption DEF PcShape, Callers
<1>4. \A v \in Users : Held(v)' = Held(v)
  BY <1>2 DEF Held
<1>5. \A v \in Users : uBalances'[t][v] = NoRow
  BY <1>1, <1>2 DEF TypeOK, NoBalances
<1>6. pc'[t] = "idle" /\ arg'[t] = NoRow
  BY <1>1, <1>2 DEF TypeOK
<1>7. /\ uBalances'[Zombie] = uBalances[t]
      /\ pc'[Zombie] = "commit" /\ arg'[Zombie] = arg[t]
  BY <1>1, <1>2 DEF TypeOK
<1>8. \A s \in Txns : s # t /\ s # Zombie =>
         /\ uBalances'[s] = uBalances[s] /\ pc'[s] = pc[s] /\ arg'[s] = arg[s]
  BY <1>1, <1>2 DEF TypeOK
<1>9. \A v \in Users : uBalances[Zombie][v] = NoRow
  BY <1>1, <1>2 DEF LockExclusion
<1>10. arg[Zombie] = NoRow
  BY <1>2 DEF PcShape
<1>11. LockExclusion'
  BY <1>1, <1>5, <1>6, <1>7, <1>8, <1>9 DEF LockExclusion
<1>12. CreditsAdd'
  BY <1>1, <1>4, <1>5, <1>6, <1>7, <1>8 DEF CreditsAdd
<1>13. WithdrawalMoves'
  <2> SUFFICES ASSUME NEW s \in Txns, NEW v \in Users, arg'[s] # NoRow
               PROVE  /\ uBalances'[s][v] # NoRow
                           <=> pc'[s] \in Taken /\ arg'[s].user = v
                      /\ uBalances'[s][v] # NoRow =>
                           uBalances'[s][v] = Decreased(v, Round(arg[s].sum))'
    BY DEF WithdrawalMoves
  <2>1. CASE s = Zombie
    <3>1. /\ arg[t] # NoRow /\ arg'[s] = arg[t] /\ uBalances'[s] = uBalances[t]
          /\ pc[t] \in Taken /\ pc'[s] \in Taken
      BY <1>3, <1>7, <2>1 DEF Taken
    <3>2. /\ uBalances[t][v] # NoRow <=> arg[t].user = v
          /\ uBalances[t][v] # NoRow =>
               uBalances[t][v] = Decreased(v, Round(arg[t].sum))
      BY <1>1, <3>1 DEF WithdrawalMoves
    <3> QED
      BY <1>2, <3>1, <3>2 DEF Decreased
  <2>2. CASE s # Zombie
    <3>1. /\ s # t /\ arg[s] # NoRow
          /\ arg'[s] = arg[s] /\ uBalances'[s] = uBalances[s] /\ pc'[s] = pc[s]
      BY <1>6, <1>8, <2>2
    <3>2. /\ uBalances[s][v] # NoRow <=> pc[s] \in Taken /\ arg[s].user = v
          /\ uBalances[s][v] # NoRow =>
               uBalances[s][v] = Decreased(v, Round(arg[s].sum))
      BY <3>1 DEF WithdrawalMoves
    <3> QED
      BY <1>2, <3>1, <3>2 DEF Decreased
  <2> QED
    BY <2>1, <2>2
<1>14. InsertBranchGivesNothing'
  <2> SUFFICES ASSUME NEW s \in Txns, arg'[s] # NoRow, pc'[s] \in Checked,
                      balances[arg'[s].user] = NoRow
               PROVE  arg'[s].sum <= 0
    BY <1>2 DEF InsertBranchGivesNothing
  <2>1. CASE s = Zombie
    BY <1>1, <1>3, <1>7, <2>1 DEF InsertBranchGivesNothing, Checked
  <2>2. CASE s # Zombie
    BY <1>6, <1>8, <2>2 DEF InsertBranchGivesNothing
  <2> QED
    BY <2>1, <2>2
<1>15. Covered'
  <2> SUFFICES ASSUME NEW v \in Users, v \notin overlap
               PROVE  /\ \A s, r \in Txns : Withdrawing(s, v)'
                                          /\ Withdrawing(r, v)' => s = r
                      /\ \A s \in Txns : Withdrawing(s, v)'
                                       /\ pc'[s] \in Checked =>
                             Round(arg'[s].sum) <= Held(v).current
    BY <1>2, <1>4 DEF Covered
  <2>1. ~Withdrawing(t, v)' /\ ~Withdrawing(Zombie, v)
    BY <1>6, <1>10 DEF Withdrawing
  <2>2. Withdrawing(Zombie, v)' <=> Withdrawing(t, v)
    BY <1>7 DEF Withdrawing
  <2>3. \A s \in Txns : s # t /\ s # Zombie =>
           (Withdrawing(s, v)' <=> Withdrawing(s, v))
    BY <1>8 DEF Withdrawing
  <2>4. \A s, r \in Txns : Withdrawing(s, v)' /\ Withdrawing(r, v)' => s = r
    BY <1>1, <2>1, <2>2, <2>3 DEF Covered
  <2>5. ASSUME NEW s \in Txns, Withdrawing(s, v)', pc'[s] \in Checked
        PROVE  Round(arg'[s].sum) <= Held(v).current
    <3>1. CASE s = Zombie
      <4>1. Withdrawing(t, v) /\ pc[t] \in Checked /\ arg'[s] = arg[t]
        BY <1>3, <1>7, <2>2, <2>5, <3>1 DEF Withdrawing, Checked
      <4> QED
        BY <1>1, <4>1 DEF Covered
    <3>2. CASE s # Zombie
      BY <1>8, <2>1, <2>3, <2>5, <3>2 DEF Covered
    <3> QED
      BY <3>1, <3>2
  <2> QED
    BY <2>4, <2>5 DEF Covered
<1> QED
  BY <1>11, <1>12, <1>13, <1>14, <1>15

LEMMA FundsStep ==
    ASSUME TypeOK, FundsInv, [PgNext]_pgVars
    PROVE  FundsInv'
<1>1. PcShape'
  BY ShapeStep DEF FundsInv
<1>2. CASE UNCHANGED <<balances, uBalances, pc, arg, overlap>>
  <2>1. \A v \in Users : Held(v)' = Held(v)
    BY <1>2 DEF Held
  <2> QED
    BY <1>1, <1>2, <2>1 DEF FundsInv, LockExclusion, CreditsAdd, Covered,
                            WithdrawalMoves, InsertBranchGivesNothing, Withdrawing,
                            Decreased
<1>3. CASE Restart
  BY <1>1, <1>3 DEF Restart, FundsInv, LockExclusion, CreditsAdd, Covered,
                    WithdrawalMoves, InsertBranchGivesNothing, Withdrawing, Held,
                    NoBalances
<1> QED
  BY <1>1, <1>2, <1>3, StepCases, FundsInsertWithdraw, FundsSelectEnough,
     FundsDecBalance, FundsInsertWithdrawal, FundsBatch, FundsCreditBalance,
     FundsRelease, FundsCommit, FundsLoseCommit

\* Between its comparison and its COMMIT the balance of a withdrawal stays
\* what the statements of InsertWithdraw and of the batch make it, whoever
\* else is at work: row locks have one holder, a batch only adds.
THEOREM FundsKept == PgSpec => [](TypeOK /\ FundsInv)
<1>1. PgInit => TypeOK /\ FundsInv
  BY TypeInit, FundsInit
<1>2. TypeOK /\ FundsInv /\ [PgNext]_pgVars => (TypeOK /\ FundsInv)'
  BY TypeStep, FundsStep DEF FundsInv
<1> QED
  BY <1>1, <1>2, PTL DEF PgSpec

\* What the COMMIT of a withdrawal does to the balances: the row of its user
\* becomes what queryBalanceDecDefault has written, the others stay.
LEMMA CommitMoves ==
    ASSUME TypeOK, FundsInv, NEW t \in Txns, Publish(t), AtCommit(t),
           arg[t] # NoRow, NEW u \in Users
    PROVE  /\ Round(arg[t].sum) \in Int
           /\ arg[t].user # u => balances'[u] = balances[u] /\ Held(u)' = Held(u)
           /\ arg[t].user = u =>
                /\ balances'[u] = Decreased(u, Round(arg[t].sum))
                /\ Held(u)' = Decreased(u, Round(arg[t].sum))
                /\ balances[u] = NoRow => Round(arg[t].sum) <= 0
                /\ u \notin overlap => Round(arg[t].sum) <= Held(u).current
<1>1. arg[t].sum \in Int
  BY PgAssumption DEF TypeOK, Asked
<1>2. Round(arg[t].sum) \in Int
  BY <1>1, RoundInt
<1>3. pc[t] \in Taken /\ pc[t] \in Checked
  BY DEF AtCommit, FundsInv, PcShape, Txns, Taken, Checked
<1>4. /\ uBalances[t][u] # NoRow <=> arg[t].user = u
      /\ uBalances[t][u] # NoRow =>
           uBalances[t][u] = Decreased(u, Round(arg[t].sum))
  BY <1>3 DEF FundsInv, WithdrawalMoves
<1>5. /\ uBalances[t][u] = NoRow => /\ balances'[u] = balances[u]
                                    /\ Held(u)' = Held(u)
      /\ uBalances[t][u] # NoRow => /\ balances'[u] = uBalances[t][u]
                                    /\ Held(u)' = uBalances[t][u]
  BY PublishHeld
<1>6. arg[t].user = u /\ balances[u] = NoRow => Round(arg[t].sum) <= 0
  <2>1. arg[t].user = u /\ balances[u] = NoRow => arg[t].sum <= 0
    BY <1>3 DEF FundsInv, InsertBranchGivesNothing
  <2> QED
    BY <1>1, <2>1, RoundNone
<1>7. arg[t].user = u /\ u \notin overlap => Round(arg[t].sum) <= Held(u).current
  BY <1>3 DEF FundsInv, Covered, Withdrawing
<1> QED
  BY <1>2, <1>4, <1>5, <1>6, <1>7
=============================================================================
