-------------------------- MODULE GophermartProofs --------------------------
(***************************************************************************)
(* That the service uses the store as the theorems about the store assume  *)
(* and that the codes it answers are true, and, in the second part, what   *)
(* becomes of an order and of its points, for any number of users, orders  *)
(* and requests, whatever the accrual system calculates.                   *)
(***************************************************************************)
EXTENDS Gophermart, LedgerProofs

-----------------------------------------------------------------------------
(***************************************************************************)
(* What a step of the service does to the tables of orders and of          *)
(* withdrawals, and to the transactions that write them.                   *)
(***************************************************************************)

rows == <<orders, withdrawals, uOrders, uWithdrawals>>

Inserted == \E u \in Users, o \in OrderIds \ Malformed :
    /\ orders[o] = NoRow
    /\ orders' = [orders EXCEPT ![o] = NewOrder(u)]
    /\ UNCHANGED <<withdrawals, uOrders, uWithdrawals, pc, arg>>

Begun == \E h \in Handlers, u \in Users, o \in OrderIds \ Malformed, m \in Sums :
    /\ pc' = [pc EXCEPT ![h] = "select"]
    /\ arg' = [arg EXCEPT ![h] = [user |-> u, order |-> o, sum |-> m]]
    /\ UNCHANGED rows

\* pc moves on, but to no COMMIT.
Moved == \E t \in Callers, s \in {"dec", "insert", "batch"} :
    pc' = [pc EXCEPT ![t] = s] /\ UNCHANGED <<rows, arg>>

Ended == \E t \in Txns : Release(t) /\ UNCHANGED <<orders, withdrawals>>

Committed == \E t \in Txns : Publish(t) /\ Release(t)

RowEffects ==
    \/ UNCHANGED <<rows, pc, arg>>
    \/ Inserted
    \/ Begun
    \/ Moved
    \/ \E h \in Handlers : InsertWithdrawal(h)
    \/ \E o \in OrderIds : UpdateOrder(o)
    \/ Ended
    \/ Committed
    \/ \E t \in Callers : LoseCommit(t)

LEMMA RollbackEffect ==
    ASSUME NEW t \in Txns, Rollback(t)
    PROVE  RowEffects
  BY DEF Rollback, RowEffects, Ended, tables

LEMMA CommitEffect ==
    ASSUME NEW t \in Txns, Publish(t), Release(t)
    PROVE  RowEffects
  BY DEF RowEffects, Committed

\* Every step but a restart is one of these.
LEMMA Effects ==
    ASSUME [Next]_vars, ~RestartProcess
    PROVE  RowEffects
<1> USE DEF pgVars, tables, written, rows, Txns, Callers
<1>1. ASSUME NEW h \in Handlers, NEW u \in Users, NEW o \in OrderIds,
             PostOrder(h, u, o)
      PROVE  RowEffects
  <2>1. CASE OrderAccepted(h, u, o) \/ OrderFails(h, u, o)
    BY <1>1, <2>1
       DEF OrderAccepted, OrderFails, InsertOrder, InsertOrderFails,
           RowEffects, Inserted, NewOrder
  <2>2. CASE OrderRejected(h, u, o) \/ OrderExists(h, u, o)
    BY <2>2 DEF OrderRejected, OrderExists, RowEffects
  <2> QED
    BY <1>1, <2>1, <2>2 DEF PostOrder
<1>2. ASSUME NEW h \in Handlers,
             \/ GetOneOrder(h) \/ LookupFails(h)
             \/ \E u \in Users, o \in OrderIds : WithdrawRejected(h, u, o)
      PROVE  RowEffects
  BY <1>2 DEF GetOneOrder, LookupFails, WithdrawRejected, RowEffects
<1>3. ASSUME NEW h \in Handlers, NEW u \in Users, NEW o \in OrderIds,
             NEW m \in Sums, PostWithdraw(h, u, o, m)
      PROVE  RowEffects
  BY <1>3 DEF PostWithdraw, InsertWithdraw, RowEffects, Begun
<1>4. ASSUME NEW h \in Handlers, WithdrawStatement(h)
      PROVE  RowEffects
  BY <1>4 DEF WithdrawStatement, SelectEnough, DecBalance, RowEffects, Moved
<1>5. ASSUME NEW h \in Handlers, WithdrawAnswered(h)
      PROVE  RowEffects
  BY <1>5, RollbackEffect, CommitEffect
     DEF WithdrawAnswered, Commit, SelectNotEnough, WithdrawalExists
<1>6. ASSUME NEW h \in Handlers, WithdrawFails(h)
      PROVE  RowEffects
  BY <1>6, RollbackEffect DEF WithdrawFails, SelectFails, Fail, RowEffects
<1>7. CASE \/ GetOrdersForProcess \/ NothingNew
           \/ \E o \in OrderIds : AnswerComes(o) \/ NoAnswer(o) \/ Calculate(o)
  BY <1>7 DEF GetOrdersForProcess, NothingNew, AnswerComes, NoAnswer, Calculate,
              RowEffects
<1>8. CASE UpdateOrdersAndBalances
  BY <1>8 DEF UpdateOrdersAndBalances, UpdateOrdersBalancesBatch, RowEffects,
              Moved
<1>9. ASSUME NEW o \in OrderIds, LoopStatement(o)
      PROVE  RowEffects
  BY <1>9, RollbackEffect
     DEF LoopStatement, BatchStatement, UpdateRejected, CreditBalance, RowEffects
<1>10. CASE LoopCommit \/ LoopFails
  BY <1>10, RollbackEffect, CommitEffect
     DEF LoopCommit, LoopFails, Commit, Fail, RowEffects
<1>11. CASE ServerFinishes
  BY <1>11, CommitEffect
     DEF ServerFinishes, LateCommit, LateAbort, RowEffects, Ended
<1>12. CASE UNCHANGED vars
  BY <1>12 DEF vars, RowEffects
<1> QED
  BY <1>1, <1>2, <1>3, <1>4, <1>5, <1>6, <1>7, <1>8, <1>9, <1>10, <1>11, <1>12
     DEF Next

-----------------------------------------------------------------------------
(***************************************************************************)
(* Rows keep their owners, numbers that are malformed have none.           *)
(***************************************************************************)

\* A request that has come to its COMMIT has recorded its withdrawal.
CommitsRecorded ==
    \A h \in Handlers : pc[h] = "commit" =>
        LET row == uWithdrawals[h][arg[h].order]
        IN  row # NoRow /\ row.user = arg[h].user

NeverStored ==
    \A o \in Malformed :
        /\ orders[o] = NoRow /\ withdrawals[o] = NoRow
        /\ \A t \in Txns : /\ uWithdrawals[t][o] = NoRow
                           /\ arg[t] # NoRow => arg[t].order # o

RowsInv == OwnersKept /\ WrittenOnce /\ CommitsRecorded /\ NeverStored

\* While the process lives no row goes away or changes hands.
RowsStay ==
    \A o \in OrderIds :
        /\ orders[o] # NoRow => /\ orders'[o] # NoRow
                                /\ orders'[o].user = orders[o].user
        /\ withdrawals[o] # NoRow => withdrawals'[o] = withdrawals[o]

LEMMA RowsInserted ==
    ASSUME TypeOK, PcShape, RowsInv, Inserted
    PROVE  RowsInv' /\ RowsStay
<1> USE DEF RowsInv, Inserted
<1>1. NoRow \notin {NewOrder(u) : u \in Users}
  BY PgAssumption DEF NewOrder, Order, Statuses
<1>2. RowsStay
  BY <1>1 DEF RowsStay, TypeOK
<1>3. OwnersKept'
  BY <1>1 DEF OwnersKept, TypeOK
<1>4. WrittenOnce' /\ CommitsRecorded'
  BY DEF WrittenOnce, CommitsRecorded
<1>5. NeverStored'
  BY GophermartAssumption DEF NeverStored, TypeOK
<1> QED
  BY <1>2, <1>3, <1>4, <1>5

LEMMA RowsBegun ==
    ASSUME TypeOK, PcShape, RowsInv, Begun
    PROVE  RowsInv' /\ RowsStay
<1> USE DEF RowsInv, Begun, rows
<1>1. RowsStay /\ OwnersKept' /\ WrittenOnce'
  BY DEF RowsStay, OwnersKept, WrittenOnce
<1>2. CommitsRecorded'
  BY DEF CommitsRecorded, TypeOK, Txns
<1>3. NeverStored'
  BY DEF NeverStored, TypeOK, Txns
<1> QED
  BY <1>1, <1>2, <1>3

LEMMA RowsMoved ==
    ASSUME TypeOK, PcShape, RowsInv, Moved \/ UNCHANGED <<rows, pc, arg>>
    PROVE  RowsInv' /\ RowsStay
<1> USE DEF RowsInv, Moved, rows
<1>1. RowsStay /\ OwnersKept' /\ WrittenOnce' /\ NeverStored'
  BY DEF RowsStay, OwnersKept, WrittenOnce, NeverStored
<1>2. CommitsRecorded'
  BY DEF CommitsRecorded, TypeOK, Txns, Callers
<1> QED
  BY <1>1, <1>2

LEMMA RowsInsertWithdrawal ==
    ASSUME TypeOK, PcShape, RowsInv, NEW h \in Handlers, InsertWithdrawal(h)
    PROVE  RowsInv' /\ RowsStay
<1> USE DEF RowsInv, InsertWithdrawal, tables
<1> DEFINE w == [user |-> arg[h].user, sum |-> Round(arg[h].sum)]
           o == arg[h].order
<1>1. h \in Txns /\ o \in OrderIds /\ o \notin Malformed
  BY AskedType DEF Txns, NeverStored, PcShape
<1>2. w \in Withdrawal /\ w # NoRow
  BY AskedType, RoundInt, PgAssumption DEF Withdrawal
<1> HIDE DEF w, o
<1>3. uWithdrawals' = [uWithdrawals EXCEPT ![h] = [@ EXCEPT ![o] = w]]
  BY DEF w, o
<1>4. RowsStay /\ OwnersKept'
  BY DEF RowsStay, OwnersKept
<1>5. WrittenOnce'
  BY <1>1, <1>3 DEF WrittenOnce, TypeOK, WithdrawalFree, o
<1>6. CommitsRecorded'
  <2>1. \A g \in Handlers \ {h} : /\ pc'[g] = pc[g] /\ arg'[g] = arg[g]
                                  /\ uWithdrawals'[g] = uWithdrawals[g]
    BY <1>1, <1>3 DEF TypeOK, Txns
  <2>2. arg'[h] = arg[h] /\ uWithdrawals'[h][o] = w
    BY <1>1, <1>3 DEF TypeOK
  <2>3. w.user = arg[h].user
    BY DEF w
  <2> QED
    BY <1>2, <2>1, <2>2, <2>3 DEF CommitsRecorded, o
<1>7. NeverStored'
  BY <1>1, <1>3 DEF NeverStored, TypeOK
<1> QED
  BY <1>4, <1>5, <1>6, <1>7

LEMMA RowsUpdateOrder ==
    ASSUME TypeOK, PcShape, RowsInv, NEW o \in OrderIds, UpdateOrder(o)
    PROVE  RowsInv' /\ RowsStay
<1> USE DEF RowsInv, UpdateOrder, tables
<1>1. RowsStay /\ WrittenOnce' /\ CommitsRecorded' /\ NeverStored'
  BY DEF RowsStay, WrittenOnce, CommitsRecorded, NeverStored
<1>2. OwnersKept'
  BY DEF OwnersKept, TypeOK
<1> QED
  BY <1>1, <1>2

LEMMA RowsEnded ==
    ASSUME TypeOK, PcShape, RowsInv, Ended
    PROVE  RowsInv' /\ RowsStay
<1> PICK t \in Txns : Release(t) /\ UNCHANGED <<orders, withdrawals>>
  BY DEF Ended
<1> USE DEF RowsInv, Release, NoOrders
<1>1. RowsStay
  BY DEF RowsStay
<1>2. OwnersKept'
  BY DEF OwnersKept, TypeOK
<1>3. WrittenOnce'
  BY DEF WrittenOnce, TypeOK
<1>4. CommitsRecorded'
  BY DEF CommitsRecorded, TypeOK, Txns
<1>5. NeverStored'
  BY GophermartAssumption DEF NeverStored, TypeOK
<1> QED
  BY <1>1, <1>2, <1>3, <1>4, <1>5

LEMMA RowsCommitted ==
    ASSUME TypeOK, PcShape, RowsInv, Committed
    PROVE  RowsInv' /\ RowsStay
<1> PICK t \in Txns : Publish(t) /\ Release(t)
  BY DEF Committed
<1> USE DEF RowsInv
<1>1. /\ \A o \in OrderIds :
            /\ orders'[o] = IF uOrders[t][o] # NoRow THEN uOrders[t][o]
                                                     ELSE orders[o]
            /\ withdrawals'[o] = IF uWithdrawals[t][o] # NoRow
                                 THEN uWithdrawals[t][o] ELSE withdrawals[o]
      /\ \A s \in Txns, o \in OrderIds :
            /\ uOrders'[s][o] = IF s = t THEN NoRow ELSE uOrders[s][o]
            /\ uWithdrawals'[s][o] = IF s = t THEN NoRow
                                              ELSE uWithdrawals[s][o]
      /\ \A s \in Txns : /\ pc'[s] = IF s = t THEN "idle" ELSE pc[s]
                         /\ arg'[s] = IF s = t THEN NoRow ELSE arg[s]
  BY DEF TypeOK, Publish, Over, Release, NoOrders
<1>2. RowsStay
  BY <1>1 DEF RowsStay, OwnersKept, WrittenOnce
<1>3. OwnersKept'
  BY <1>1 DEF OwnersKept
<1>4. WrittenOnce'
  BY <1>1 DEF WrittenOnce
<1>5. CommitsRecorded'
  <2> SUFFICES ASSUME NEW h \in Handlers, pc'[h] = "commit"
               PROVE  /\ uWithdrawals'[h][arg'[h].order] # NoRow
                      /\ uWithdrawals'[h][arg'[h].order].user = arg'[h].user
    BY DEF CommitsRecorded
  <2>1. h \in Txns /\ h # t /\ pc[h] = "commit" /\ arg'[h] = arg[h]
    BY <1>1 DEF Txns
  <2>2. arg[h].order \in OrderIds
    BY <2>1, AskedType
  <2> QED
    BY <1>1, <2>1, <2>2 DEF CommitsRecorded
<1>6. NeverStored'
  <2> SUFFICES ASSUME NEW o \in Malformed
               PROVE  /\ orders'[o] = NoRow /\ withdrawals'[o] = NoRow
                      /\ \A s \in Txns : /\ uWithdrawals'[s][o] = NoRow
                                         /\ arg'[s] # NoRow => arg'[s].order # o
    BY DEF NeverStored
  <2>1. o \in OrderIds /\ orders[o] = NoRow /\ uOrders[t][o] = NoRow
    BY GophermartAssumption DEF NeverStored, OwnersKept
  <2> QED
    BY <1>1, <2>1 DEF NeverStored
<1> QED
  BY <1>2, <1>3, <1>4, <1>5, <1>6

\* What the lost COMMIT has written goes on to the Zombie.
LEMMA RowsLoseCommit ==
    ASSUME TypeOK, PcShape, RowsInv, NEW t \in Callers, LoseCommit(t)
    PROVE  RowsInv' /\ RowsStay
<1> USE DEF RowsInv
<1>1. t \in Txns /\ Zombie \in Txns /\ t # Zombie
  BY PgAssumption DEF Txns, Callers
<1>2. /\ UNCHANGED <<orders, withdrawals>>
      /\ \A s \in Txns, o \in OrderIds :
            /\ uOrders'[s][o] = IF s = t THEN NoRow
                                ELSE IF s = Zombie THEN uOrders[t][o]
                                ELSE uOrders[s][o]
            /\ uWithdrawals'[s][o] = IF s = t THEN NoRow
                                     ELSE IF s = Zombie THEN uWithdrawals[t][o]
                                     ELSE uWithdrawals[s][o]
      /\ \A s \in Txns : arg'[s] = IF s = t THEN NoRow
                                   ELSE IF s = Zombie THEN arg[t]
                                   ELSE arg[s]
      /\ \A s \in Txns \ {Zombie} : pc'[s] = IF s = t THEN "idle" ELSE pc[s]
  BY <1>1 DEF LoseCommit, TypeOK, NoOrders, tables
<1>3. RowsStay
  BY <1>2 DEF RowsStay
<1>4. OwnersKept'
  BY <1>1, <1>2 DEF OwnersKept
<1>5. WrittenOnce'
  BY <1>1, <1>2 DEF WrittenOnce
<1>6. CommitsRecorded'
  <2> SUFFICES ASSUME NEW h \in Handlers, pc'[h] = "commit"
               PROVE  /\ uWithdrawals'[h][arg'[h].order] # NoRow
                      /\ uWithdrawals'[h][arg'[h].order].user = arg'[h].user
    BY DEF CommitsRecorded
  <2>1. h \in Txns /\ h # t /\ h # Zombie
    BY <1>2, PgAssumption DEF Txns
  <2>2. pc[h] = "commit" /\ arg'[h] = arg[h]
    BY <1>2, <2>1
  <2>3. arg[h].order \in OrderIds
    BY <2>2, AskedType
  <2> QED
    BY <1>2, <2>1, <2>2, <2>3 DEF CommitsRecorded
<1>7. NeverStored'
  <2> SUFFICES ASSUME NEW o \in Malformed
               PROVE  /\ orders'[o] = NoRow /\ withdrawals'[o] = NoRow
                      /\ \A s \in Txns : /\ uWithdrawals'[s][o] = NoRow
                                         /\ arg'[s] # NoRow => arg'[s].order # o
    BY DEF NeverStored
  <2>1. o \in OrderIds
    BY GophermartAssumption
  <2>2. /\ orders[o] = NoRow /\ withdrawals[o] = NoRow
        /\ uWithdrawals[t][o] = NoRow
        /\ arg[t] # NoRow => arg[t].order # o
    BY <1>1 DEF NeverStored
  <2> QED
    BY <1>1, <1>2, <2>1, <2>2 DEF NeverStored
<1> QED
  BY <1>3, <1>4, <1>5, <1>6, <1>7

LEMMA RowsStep ==
    ASSUME TypeOK, PcShape, RowsInv, RowEffects
    PROVE  RowsInv' /\ RowsStay
  BY RowsInserted, RowsBegun, RowsMoved, RowsInsertWithdrawal, RowsUpdateOrder,
     RowsEnded, RowsCommitted, RowsLoseCommit DEF RowEffects

-----------------------------------------------------------------------------
(***************************************************************************)
(* The service: types, lookups, the cycle of the loop, and the replies.    *)
(***************************************************************************)

LookType  == looking \in [Handlers -> [user : Users, order : OrderIds]
                                         \union {NoRow}]
ReplyType == reply \in [Handlers -> Reply \union {NoRow}]
CycleType == /\ polling \in BOOLEAN
             /\ snap \in [OrderIds -> Order \union {NoRow}]
             /\ asked \subseteq Present(snap)
             /\ Present(answers) \subseteq asked

\* RegisterOrder looks up a row that is there.
LookupsHaveRows ==
    \A h \in Handlers : looking[h] # NoRow =>
        pc[h] = "idle" /\ orders[looking[h].order] # NoRow

\* The loop knows orders by their users, and answers by their orders.
CycleOwned ==
    /\ answers \in [OrderIds -> Rows \union {NoRow}]
    /\ \A o \in OrderIds : snap[o] # NoRow =>
          orders[o] # NoRow /\ snap[o].user = orders[o].user
    /\ \A o \in OrderIds : answers[o] # NoRow =>
          snap[o] # NoRow /\ answers[o].user = snap[o].user

\* The accrual system's results are some the loop may write.
Calculated ==
    accrual \in [OrderIds -> {Unknown} \union {a \in Updates :
                     /\ a.status \in Stages
                     /\ a = [status |-> a.status, accrual |-> a.accrual]}]

TrueReply(r) ==
    /\ r.op = "order" =>
         /\ r.code \in {200, 202} => /\ orders[r.order] # NoRow
                                     /\ orders[r.order].user = r.user
         /\ r.code = 409 => /\ orders[r.order] # NoRow
                            /\ orders[r.order].user # r.user
         /\ r.code = 422 => r.order \in Malformed
    /\ r.op = "withdraw" =>
         /\ r.code = 200 => /\ withdrawals[r.order] # NoRow
                            /\ withdrawals[r.order].user = r.user
         /\ r.code = 422 => r.order \in Malformed

Accepts(r, o) == r # NoRow /\ r.op = "order" /\ r.code = 202 /\ r.order = o

TrueReplies ==
    /\ \A h \in Handlers : reply[h] # NoRow => TrueReply(reply[h])
    /\ \A g, h \in Handlers, o \in OrderIds :
          Accepts(reply[g], o) /\ Accepts(reply[h], o) => g = h

StoreInv == TypeOK /\ PcShape /\ RowsInv
SvcInv   == /\ LookType /\ ReplyType /\ CycleType
            /\ LookupsHaveRows /\ CycleOwned /\ Calculated /\ TrueReplies

LEMMA ServiceInit == Init => StoreInv /\ SvcInv
<1> SUFFICES ASSUME Init PROVE StoreInv /\ SvcInv
  OBVIOUS
<1> USE DEF Init
<1>1. TypeOK /\ PcShape
  BY TypeInit
<1>2. RowsInv
  BY GophermartAssumption
     DEF PgInit, RowsInv, OwnersKept, WrittenOnce, CommitsRecorded, NeverStored,
         NoOrders, Txns
<1>3. LookType /\ ReplyType /\ CycleType /\ LookupsHaveRows /\ CycleOwned
  BY DEF LookType, ReplyType, CycleType, LookupsHaveRows, CycleOwned, NoOrders,
         Present
<1>4. Calculated /\ TrueReplies
  BY DEF Calculated, TrueReplies, Accepts
<1> QED
  BY <1>1, <1>2, <1>3, <1>4 DEF StoreInv, SvcInv

-----------------------------------------------------------------------------
(***************************************************************************)
(* Every step is one of the store's specification.                         *)
(***************************************************************************)

\* An answer brings the user of the order that was read, and a result.
LEMMA ReadType ==
    ASSUME Calculated, NEW o \in OrderIds, accrual[o] # Unknown,
           NEW a \in Read(o)
    PROVE  [status |-> a.status, accrual |-> a.accrual] \in Updates
  BY GophermartAssumption DEF Calculated, Read

LEMMA NewsIsBatch ==
    ASSUME StoreInv, SvcInv, News # NoOrders
    PROVE  /\ News \in [OrderIds -> Rows \union {NoRow}]
           /\ Batch(News) /\ Bounded(News)
<1> USE DEF StoreInv, SvcInv
<1>1. News \in [OrderIds -> Rows \union {NoRow}]
  BY DEF News, CycleOwned
<1>2. \A o \in OrderIds : News[o] # NoRow => News[o] = answers[o]
  BY DEF News
<1>3. Present(News) # {}
  BY <1>1 DEF Present, NoOrders
<1>4. \A o \in Present(News) : /\ orders[o] # NoRow
                               /\ News[o].user = orders[o].user
  BY <1>1, <1>2 DEF Present, CycleOwned
<1>5. Bounded(News)
  BY GophermartAssumption DEF Bounded
<1> QED
  BY <1>1, <1>3, <1>4, <1>5 DEF Batch

LEMMA StoreStep ==
    ASSUME StoreInv, SvcInv, [Next]_vars
    PROVE  [PgNext]_pgVars
<1> USE DEF PgNext, Request, Statement, Callers
<1>1. ASSUME NEW h \in Handlers, NEW u \in Users, NEW o \in OrderIds,
             PostOrder(h, u, o)
      PROVE  [PgNext]_pgVars
  BY <1>1 DEF PostOrder, OrderAccepted, OrderRejected, OrderExists, OrderFails
<1>2. ASSUME NEW h \in Handlers, LookupFails(h)
      PROVE  [PgNext]_pgVars
  <2>1. pc[h] = "idle" /\ looking[h].user \in Users /\ looking[h].order \in OrderIds
    BY <1>2 DEF SvcInv, LookType, LookupsHaveRows, LookupFails
  <2>2. InsertOrderFails(h, looking[h].user, looking[h].order)
    BY <1>2, <2>1 DEF LookupFails, InsertOrderFails, tables
  <2> QED
    BY <2>1, <2>2
<1>3. ASSUME NEW h \in Handlers,
             \/ GetOneOrder(h) \/ WithdrawStatement(h)
             \/ \E u \in Users, o \in OrderIds : WithdrawRejected(h, u, o)
             \/ \E u \in Users, o \in OrderIds, m \in Sums :
                   PostWithdraw(h, u, o, m)
      PROVE  [PgNext]_pgVars
  BY <1>3 DEF GetOneOrder, WithdrawStatement, WithdrawRejected, PostWithdraw
<1>4. ASSUME NEW h \in Handlers, WithdrawAnswered(h) \/ WithdrawFails(h)
      PROVE  [PgNext]_pgVars
  BY <1>4 DEF WithdrawAnswered, WithdrawFails
<1>5. CASE \/ GetOrdersForProcess \/ NothingNew
           \/ \E o \in OrderIds : AnswerComes(o) \/ NoAnswer(o) \/ Calculate(o)
  BY <1>5 DEF GetOrdersForProcess, NothingNew, AnswerComes, NoAnswer, Calculate
<1>6. CASE UpdateOrdersAndBalances
  BY <1>6, NewsIsBatch DEF UpdateOrdersAndBalances
<1>7. CASE \/ \E o \in OrderIds : LoopStatement(o)
           \/ LoopCommit \/ LoopFails \/ ServerFinishes \/ RestartProcess
  BY <1>7 DEF LoopStatement, LoopCommit, LoopFails, ServerFinishes,
              RestartProcess
<1>8. CASE UNCHANGED vars
  BY <1>8 DEF vars
<1> QED
  BY <1>1, <1>2, <1>3, <1>4, <1>5, <1>6, <1>7, <1>8 DEF Next

-----------------------------------------------------------------------------
(***************************************************************************)
(* Every step keeps what the service knows.                                *)
(***************************************************************************)

\* A request that looks up a row calls nothing else.
LEMMA LooksOnly ==
    ASSUME StoreInv, [Next]_vars, ~RestartProcess,
           NEW g \in Handlers, pc[g] = "idle", looking[g] # NoRow
    PROVE  pc'[g] = "idle"
<1> USE DEF StoreInv, TypeOK, PcShape, Txns, Callers, tables, written, Release,
            Rollback
<1>1. g \in Txns /\ pc \in [Txns -> {"idle", "select", "dec", "insert",
                                     "commit", "batch"}]
      /\ g # Loop /\ g # Zombie
  BY PgAssumption
<1>2. ASSUME NEW h \in Handlers, NEW u \in Users, NEW o \in OrderIds,
             \/ PostOrder(h, u, o) \/ WithdrawRejected(h, u, o)
             \/ \E m \in Sums : PostWithdraw(h, u, o, m)
      PROVE  pc'[g] = "idle"
  BY <1>1, <1>2
     DEF PostOrder, OrderAccepted, OrderRejected, OrderExists, OrderFails,
         InsertOrder, InsertOrderFails, WithdrawRejected, PostWithdraw,
         InsertWithdraw, Idle, pgVars
<1>3. ASSUME NEW h \in Handlers,
             GetOneOrder(h) \/ LookupFails(h) \/ WithdrawStatement(h)
      PROVE  pc'[g] = "idle"
  BY <1>1, <1>3
     DEF GetOneOrder, LookupFails, WithdrawStatement, SelectEnough, DecBalance,
         InsertWithdrawal, pgVars
<1>4. ASSUME NEW h \in Handlers, WithdrawAnswered(h) \/ WithdrawFails(h)
      PROVE  pc'[g] = "idle"
  BY <1>1, <1>4
     DEF WithdrawAnswered, WithdrawFails, Commit, SelectNotEnough,
         WithdrawalExists, SelectFails, Fail, LoseCommit
<1>5. CASE \/ GetOrdersForProcess \/ NothingNew
           \/ \E o \in OrderIds : AnswerComes(o) \/ NoAnswer(o) \/ Calculate(o)
  BY <1>5 DEF GetOrdersForProcess, NothingNew, AnswerComes, NoAnswer, Calculate,
              pgVars
<1>6. CASE UpdateOrdersAndBalances \/ LoopCommit \/ LoopFails \/ ServerFinishes
  BY <1>1, <1>6
     DEF UpdateOrdersAndBalances, UpdateOrdersBalancesBatch, LoopCommit, Commit,
         LoopFails, Fail, LoseCommit, ServerFinishes, LateCommit, LateAbort
<1>7. ASSUME NEW o \in OrderIds, LoopStatement(o)
      PROVE  pc'[g] = "idle"
  BY <1>1, <1>7 DEF LoopStatement, BatchStatement, UpdateOrder, UpdateRejected,
                    CreditBalance
<1>8. CASE UNCHANGED vars
  BY <1>8 DEF vars, pgVars
<1> QED
  BY <1>2, <1>3, <1>4, <1>5, <1>6, <1>7, <1>8 DEF Next

\* What else a step does to `looking`.
LEMMA LookCases ==
    ASSUME [Next]_vars, ~RestartProcess
    PROVE  \/ UNCHANGED looking
           \/ \E h \in Handlers, u \in Users, o \in OrderIds : OrderExists(h, u, o)
           \/ \E h \in Handlers : looking' = [looking EXCEPT ![h] = NoRow]
  BY DEF Next, vars, svcVars, PostOrder, OrderAccepted, OrderRejected, OrderFails,
         GetOneOrder, LookupFails, WithdrawRejected, PostWithdraw,
         WithdrawStatement, WithdrawAnswered, WithdrawFails, GetOrdersForProcess,
         AnswerComes, NoAnswer, LoopStatement, Calculate,
         UpdateOrdersAndBalances, NothingNew, EndOfCycle, LoopCommit, LoopFails,
         ServerFinishes

LEMMA LookStep ==
    ASSUME StoreInv, SvcInv, [Next]_vars, ~RestartProcess, RowsStay
    PROVE  LookType' /\ LookupsHaveRows'
<1> USE DEF SvcInv, LookType, LookupsHaveRows
<1>1. \A g \in Handlers : looking[g] # NoRow =>
         pc'[g] = "idle" /\ orders'[looking[g].order] # NoRow
  BY LooksOnly DEF RowsStay
<1>2. ASSUME NEW h \in Handlers, NEW u \in Users, NEW o \in OrderIds,
             OrderExists(h, u, o)
      PROVE  LookType' /\ LookupsHaveRows'
  <2>1. /\ looking' = [looking EXCEPT ![h] = [user |-> u, order |-> o]]
        /\ pc'[h] = "idle" /\ orders'[o] # NoRow
    BY <1>2 DEF OrderExists, Idle, pgVars
  <2> QED
    BY <1>1, <2>1
<1>3. ASSUME NEW h \in Handlers, looking' = [looking EXCEPT ![h] = NoRow]
      PROVE  LookType' /\ LookupsHaveRows'
  BY <1>1, <1>3
<1>4. CASE UNCHANGED looking
  BY <1>1, <1>4
<1> QED
  BY <1>2, <1>3, <1>4, LookCases

LEMMA CycleStep ==
    ASSUME StoreInv, SvcInv, [Next]_vars, ~RestartProcess, RowsStay
    PROVE  CycleType' /\ CycleOwned'
<1> USE DEF SvcInv, CycleType, CycleOwned
<1>1. CASE UNCHANGED loopVars
  BY <1>1 DEF loopVars, RowsStay, Present
<1>2. CASE GetOrdersForProcess
  <2>1. \A o \in OrderIds : snap'[o] # NoRow =>
           orders[o] # NoRow /\ snap'[o] = orders[o]
    BY <1>2 DEF GetOrdersForProcess, Unfinished, Present
  <2>2. CycleType'
    BY <1>2 DEF GetOrdersForProcess, StoreInv, TypeOK, NoOrders, Present
  <2> QED
    BY <1>2, <2>1, <2>2 DEF GetOrdersForProcess, RowsStay, NoOrders
<1>3. ASSUME NEW o \in OrderIds, AnswerComes(o)
      PROVE  CycleType' /\ CycleOwned'
  <2>1. PICK a \in Read(o) :
           answers' = [answers EXCEPT ![o] = [user    |-> snap[o].user,
                                              status  |-> a.status,
                                              accrual |-> a.accrual]]
    BY <1>3 DEF AnswerComes
  <2>2. /\ UNCHANGED <<polling, snap>> /\ asked' = asked \union {o}
        /\ snap[o] # NoRow /\ snap[o].user \in Users
    BY <1>3 DEF AnswerComes, Present, Order
  <2>3. [user |-> snap[o].user, status |-> a.status, accrual |-> a.accrual]
           \in Rows
    <3>1. [status |-> a.status, accrual |-> a.accrual] \in Updates
      BY <1>3, ReadType DEF AnswerComes
    <3> QED
      BY <2>2, <3>1 DEF Rows
  <2>4. CycleType'
    BY <2>1, <2>2 DEF Present
  <2> QED
    BY <2>1, <2>2, <2>3, <2>4 DEF RowsStay
<1>4. ASSUME NEW o \in OrderIds, NoAnswer(o)
      PROVE  CycleType' /\ CycleOwned'
  BY <1>4 DEF NoAnswer, RowsStay, Present
<1>5. CASE EndOfCycle
  BY <1>5 DEF EndOfCycle, NoOrders, Present
<1>6. \/ UNCHANGED loopVars \/ GetOrdersForProcess \/ EndOfCycle
      \/ \E o \in OrderIds : AnswerComes(o) \/ NoAnswer(o)
  BY DEF Next, vars, PostOrder, OrderAccepted, OrderRejected, OrderExists,
         OrderFails, GetOneOrder, LookupFails, WithdrawRejected, PostWithdraw,
         WithdrawStatement, WithdrawAnswered, WithdrawFails, LoopStatement,
         Calculate, UpdateOrdersAndBalances, NothingNew, LoopCommit, LoopFails,
         ServerFinishes
<1> QED
  BY <1>1, <1>2, <1>3, <1>4, <1>5, <1>6

LEMMA CalculatedStep ==
    ASSUME Calculated, [Next]_vars
    PROVE  Calculated'
<1>1. ASSUME NEW o \in OrderIds, Calculate(o)
      PROVE  Calculated'
  <2>1. PICK s \in Stages, r \in Rewards \union {0} :
           /\ s # "PROCESSED" => r = 0
           /\ accrual' = [accrual EXCEPT ![o] = [status  |-> s,
                                                 accrual |-> r]]
    BY <1>1 DEF Calculate
  <2>2. [status |-> s, accrual |-> r] \in Updates
    BY <2>1, GophermartAssumption
  <2> QED
    BY <2>1, <2>2 DEF Calculated
<1>2. UNCHANGED accrual \/ \E o \in OrderIds : Calculate(o)
  BY DEF Next, vars, PostOrder, OrderAccepted, OrderRejected, OrderExists,
         OrderFails, GetOneOrder, LookupFails, WithdrawRejected, PostWithdraw,
         WithdrawStatement, WithdrawAnswered, WithdrawFails, LoopStatement,
         GetOrdersForProcess, AnswerComes, NoAnswer, EndOfCycle,
         UpdateOrdersAndBalances, NothingNew, LoopCommit, LoopFails,
         ServerFinishes, RestartProcess
<1> QED
  BY <1>1, <1>2 DEF Calculated

\* What an answer may say of the order o to the user u.
Truthful(op, u, o, code) ==
    \/ /\ op = "order" /\ code = 202
       /\ orders[o] = NoRow /\ orders'[o] = NewOrder(u)
    \/ /\ op = "order" /\ code \in {200, 409}
       /\ orders'[o] # NoRow
       /\ code = 200 <=> orders'[o].user = u
    \/ /\ op = "withdraw" /\ code = 200
       /\ withdrawals'[o] # NoRow /\ withdrawals'[o].user = u
    \/ /\ op \in {"order", "withdraw"} /\ code = 422
       /\ o \in Malformed
    \/ /\ op \in {"order", "withdraw"} /\ code \in {402, 500}

Answered == \E h \in Handlers, u \in Users, o \in OrderIds :
    \E op \in {"order", "withdraw"}, code \in {200, 202, 402, 409, 422, 500} :
        Answer(h, op, u, o, code) /\ Truthful(op, u, o, code)

LEMMA RequestAnswered ==
    ASSUME StoreInv, SvcInv, NEW h \in Handlers, NEW u \in Users,
           NEW o \in OrderIds, PostOrder(h, u, o) \/ WithdrawRejected(h, u, o)
    PROVE  UNCHANGED reply \/ Answered
<1>1. CASE OrderAccepted(h, u, o)
  <2>1. Truthful("order", u, o, 202)
    BY <1>1 DEF OrderAccepted, InsertOrder, Truthful, NewOrder, StoreInv, TypeOK
  <2> QED
    BY <1>1, <2>1 DEF OrderAccepted, Answered
<1>2. CASE OrderRejected(h, u, o) \/ WithdrawRejected(h, u, o)
  BY <1>2 DEF OrderRejected, WithdrawRejected, Answered, Truthful
<1>3. CASE OrderFails(h, u, o)
  BY <1>3 DEF OrderFails, Answered, Truthful
<1>4. CASE OrderExists(h, u, o)
  BY <1>4 DEF OrderExists
<1> QED
  BY <1>1, <1>2, <1>3, <1>4 DEF PostOrder

LEMMA LookupAnswered ==
    ASSUME StoreInv, SvcInv, NEW h \in Handlers, GetOneOrder(h) \/ LookupFails(h)
    PROVE  Answered
<1> DEFINE u == looking[h].user
           o == looking[h].order
<1>1. u \in Users /\ o \in OrderIds /\ orders[o] # NoRow
  BY DEF SvcInv, LookType, LookupsHaveRows, GetOneOrder, LookupFails
<1>2. CASE GetOneOrder(h)
  <2>1. PICK code \in {200, 409} : /\ Answer(h, "order", u, o, code)
                                   /\ code = 200 <=> orders[o].user = u
    BY <1>2 DEF GetOneOrder
  <2>2. orders' = orders
    BY <1>2 DEF GetOneOrder, pgVars
  <2>3. Truthful("order", u, o, code)
    BY <1>1, <2>1, <2>2 DEF Truthful
  <2> QED
    BY <1>1, <2>1, <2>3 DEF Answered
<1>3. CASE LookupFails(h)
  BY <1>1, <1>3 DEF LookupFails, Answered, Truthful
<1> QED
  BY <1>2, <1>3

\* A withdrawal that is committed has its row.
LEMMA WithdrawalAnswered ==
    ASSUME StoreInv, SvcInv, NEW h \in Handlers,
           WithdrawAnswered(h) \/ WithdrawFails(h)
    PROVE  Answered
<1> DEFINE u == arg[h].user
           o == arg[h].order
<1> USE DEF StoreInv
<1>1. h \in Txns /\ h # Loop
  BY PgAssumption DEF Txns
<1>2. pc[h] # "idle"
  BY DEF WithdrawAnswered, WithdrawFails, Commit, AtCommit, SelectNotEnough,
         WithdrawalExists, SelectFails, Fail, LoseCommit
<1>3. u \in Users /\ o \in OrderIds
  BY <1>2, AskedType
<1>4. CASE Commit(h) /\ Answer(h, "withdraw", u, o, 200)
  <2>1. pc[h] = "commit"
    BY <1>4 DEF Commit, AtCommit, PcShape
  <2>2. uWithdrawals[h][o] # NoRow /\ uWithdrawals[h][o].user = u
    BY <2>1 DEF RowsInv, CommitsRecorded
  <2>3. withdrawals'[o] = uWithdrawals[h][o]
    BY <1>1, <1>3, <1>4, <2>2 DEF Commit, Publish, Over, TypeOK
  <2>4. Truthful("withdraw", u, o, 200)
    BY <2>2, <2>3 DEF Truthful
  <2> QED
    BY <1>3, <1>4, <2>4 DEF Answered
<1>5. CASE \E code \in {402, 500} : Answer(h, "withdraw", u, o, code)
  BY <1>3, <1>5 DEF Answered, Truthful
<1> QED
  BY <1>4, <1>5 DEF WithdrawAnswered, WithdrawFails

LEMMA ReplyCases ==
    ASSUME StoreInv, SvcInv, [Next]_vars, ~RestartProcess
    PROVE  \/ UNCHANGED reply
           \/ Answered
           \/ \E h \in Handlers : reply' = [reply EXCEPT ![h] = NoRow]
<1>1. ASSUME NEW h \in Handlers, NEW u \in Users, NEW o \in OrderIds,
             PostOrder(h, u, o) \/ WithdrawRejected(h, u, o)
      PROVE  UNCHANGED reply \/ Answered
  BY <1>1, RequestAnswered
<1>2. ASSUME NEW h \in Handlers,
             \/ GetOneOrder(h) \/ LookupFails(h)
             \/ WithdrawAnswered(h) \/ WithdrawFails(h)
      PROVE  Answered
  BY <1>2, LookupAnswered, WithdrawalAnswered
<1>3. CASE \E h \in Handlers, u \in Users, o \in OrderIds, m \in Sums :
              PostWithdraw(h, u, o, m)
  BY <1>3 DEF PostWithdraw
<1>4. CASE \/ \E h \in Handlers : WithdrawStatement(h)
           \/ GetOrdersForProcess \/ UpdateOrdersAndBalances \/ NothingNew
           \/ \E o \in OrderIds : \/ AnswerComes(o) \/ NoAnswer(o)
                                  \/ LoopStatement(o) \/ Calculate(o)
           \/ LoopCommit \/ LoopFails \/ ServerFinishes \/ UNCHANGED vars
  BY <1>4 DEF vars, svcVars, WithdrawStatement, GetOrdersForProcess,
              UpdateOrdersAndBalances, NothingNew, EndOfCycle, AnswerComes,
              NoAnswer, LoopStatement, Calculate, LoopCommit, LoopFails,
              ServerFinishes
<1> QED
  BY <1>1, <1>2, <1>3, <1>4 DEF Next

\* An answer stays true, for no row goes away or changes hands.
LEMMA TrueStays ==
    ASSUME ReplyType, RowsStay, NEW h \in Handlers, reply[h] # NoRow,
           TrueReply(reply[h]), reply'[h] = reply[h]
    PROVE  TrueReply(reply[h])'
<1>1. reply[h] \in Reply /\ reply[h].order \in OrderIds
  BY DEF ReplyType, Reply
<1> QED
  BY <1>1 DEF TrueReply, RowsStay

LEMMA ReplyStep ==
    ASSUME StoreInv, SvcInv, [Next]_vars, ~RestartProcess, RowsStay
    PROVE  ReplyType' /\ TrueReplies'
<1> USE DEF SvcInv
<1>1. \A h \in Handlers : reply[h] # NoRow /\ reply'[h] = reply[h] =>
                              TrueReply(reply[h])'
  BY TrueStays DEF TrueReplies
<1>2. CASE UNCHANGED reply
  <2>1. ReplyType'
    BY <1>2 DEF ReplyType
  <2>2. \A h \in Handlers : reply'[h] # NoRow => TrueReply(reply[h])'
    BY <1>1, <1>2
  <2> QED
    BY <1>2, <2>1, <2>2 DEF TrueReplies, Accepts
<1>3. ASSUME NEW h \in Handlers, reply' = [reply EXCEPT ![h] = NoRow]
      PROVE  ReplyType' /\ TrueReplies'
  <2>1. ReplyType'
    BY <1>3 DEF ReplyType
  <2>2. \A g \in Handlers : reply'[g] # NoRow => reply'[g] = reply[g]
    BY <1>3 DEF ReplyType
  <2> QED
    BY <1>1, <2>1, <2>2 DEF TrueReplies, Accepts
<1>4. CASE Answered
  <2>1. PICK h \in Handlers, u \in Users, o \in OrderIds,
             op \in {"order", "withdraw"},
             code \in {200, 202, 402, 409, 422, 500} :
                Answer(h, op, u, o, code) /\ Truthful(op, u, o, code)
    BY <1>4 DEF Answered
  <2> DEFINE r == [op |-> op, user |-> u, order |-> o, code |-> code]
  <2>2. reply' = [reply EXCEPT ![h] = r] /\ r \in Reply
    BY <2>1 DEF Answer, Reply
  <2>3. /\ r.op = op /\ r.user = u /\ r.order = o /\ r.code = code
    OBVIOUS
  <2> HIDE DEF r
  <2>4. ReplyType' /\ reply'[h] = r
    BY <2>2 DEF ReplyType
  <2>5. \A g \in Handlers \ {h} : reply'[g] = reply[g]
    BY <2>2 DEF ReplyType
  <2>6. NewOrder(u) # NoRow /\ NewOrder(u).user = u
    BY PgAssumption DEF NewOrder, Order, Statuses
  <2>7. TrueReply(reply[h])'
    BY <2>1, <2>3, <2>4, <2>6 DEF Truthful, TrueReply
  <2>8. \A g \in Handlers : reply'[g] # NoRow => TrueReply(reply[g])'
    BY <1>1, <2>5, <2>7
  <2>9. ASSUME NEW g \in Handlers \ {h}, NEW p \in OrderIds,
               Accepts(r, p), Accepts(reply[g], p)
        PROVE  FALSE
    <3>1. orders[p] = NoRow
      BY <2>1, <2>3, <2>9 DEF Accepts, Truthful
    <3> QED
      BY <2>9, <3>1 DEF Accepts, TrueReplies, TrueReply
  <2>10. ASSUME NEW f \in Handlers, NEW g \in Handlers, NEW p \in OrderIds,
                Accepts(reply'[f], p), Accepts(reply'[g], p)
         PROVE  f = g
    BY <2>4, <2>5, <2>9, <2>10 DEF TrueReplies
  <2> QED
    BY <2>4, <2>8, <2>10 DEF TrueReplies, Accepts
<1> QED
  BY <1>2, <1>3, <1>4, ReplyCases

\* A restart forgets the rows and the answers, not what was calculated.
LEMMA RestartStep ==
    ASSUME StoreInv, SvcInv, RestartProcess
    PROVE  RowsInv' /\ SvcInv'
<1> USE DEF RestartProcess, Restart, NoOrders
<1>1. RowsInv'
  BY GophermartAssumption
     DEF RowsInv, OwnersKept, WrittenOnce, CommitsRecorded, NeverStored, Txns
<1>2. LookType' /\ ReplyType' /\ CycleType' /\ LookupsHaveRows' /\ CycleOwned'
  BY DEF LookType, ReplyType, CycleType, LookupsHaveRows, CycleOwned, Present
<1>3. Calculated' /\ TrueReplies'
  BY DEF SvcInv, Calculated, TrueReplies, Accepts
<1> QED
  BY <1>1, <1>2, <1>3 DEF SvcInv

LEMMA ServiceStep ==
    ASSUME StoreInv, SvcInv, [Next]_vars
    PROVE  StoreInv' /\ SvcInv'
<1>1. TypeOK' /\ PcShape'
  BY StoreStep, TypeStep, ShapeStep DEF StoreInv
<1>2. CASE RestartProcess
  BY <1>1, <1>2, RestartStep DEF StoreInv
<1>3. CASE ~RestartProcess
  <2>1. RowsInv' /\ RowsStay
    BY <1>3, Effects, RowsStep DEF StoreInv
  <2>2. LookType' /\ LookupsHaveRows'
    BY <1>3, <2>1, LookStep
  <2>3. CycleType' /\ CycleOwned'
    BY <1>3, <2>1, CycleStep
  <2>4. ReplyType' /\ TrueReplies'
    BY <1>3, <2>1, ReplyStep
  <2>5. Calculated'
    BY CalculatedStep DEF SvcInv
  <2> QED
    BY <1>1, <2>1, <2>2, <2>3, <2>4, <2>5 DEF StoreInv, SvcInv
<1> QED
  BY <1>2, <1>3

\* The inductive invariant of the service on its store: rows keep their
\* owners, a lookup finds the row that RegisterOrder was refused for, the
\* loop's snapshot and answers stay with their orders, replies stay true.
THEOREM ServiceCorrect == Spec => [](StoreInv /\ SvcInv)
<1>1. Init => StoreInv /\ SvcInv
  BY ServiceInit
<1>2. StoreInv /\ SvcInv /\ [Next]_vars => (StoreInv /\ SvcInv)'
  BY ServiceStep
<1> QED
  BY <1>1, <1>2, PTL DEF Spec

\* Whatever requests come and whatever the accrual system answers, the
\* service calls the store as PgStore.tla expects: no handler starts a
\* second call, and a batch names stored orders of the right users.
THEOREM UsesStore == Spec => StoreUsedAsSpecified
<1>1. Init => PgInit
  BY DEF Init
<1>2. StoreInv /\ SvcInv /\ [Next]_vars => [PgNext]_pgVars
  BY StoreStep
<1> QED
  BY <1>1, <1>2, ServiceCorrect, PTL DEF Spec, StoreUsedAsSpecified, PgSpec

\* So in the service a balance is covered unless two withdrawals of its user
\* were in progress at once or a sum below zero was withdrawn, and a step that
\* takes earned points away is a restart or records such a sum.
THEOREM ServiceFunds == Spec => []CoveredUnlessRaced /\ EarnedNeverLost
  BY UsesStore, FundsCovered, EarnedKept DEF StoreUsedAsSpecified

\* And what the service does to its tables is a ledger that changes in single
\* steps, in which the withdrawals of a user add up to the balance's total.
THEOREM ServiceIsLedger == Spec => []WithdrawnIsRecorded /\ ImplementsLedger
  BY UsesStore, WithdrawalsRecorded, StoreIsLedger DEF StoreUsedAsSpecified

\* The lookups, the replies, the cycle and the accrual system's results have
\* their types: an answer always belongs to an order of the snapshot.
THEOREM ServiceTyped == Spec => []SvcTypeOK
<1>1. ASSUME Calculated
      PROVE  accrual \in [OrderIds -> [status : Statuses, accrual : Nat]]
  <2>1. Unknown \in [status : Statuses, accrual : Nat]
    BY DEF Unknown, Statuses
  <2>2. ASSUME NEW a \in Updates, a.status \in Stages,
               a = [status |-> a.status, accrual |-> a.accrual]
        PROVE  a \in [status : Statuses, accrual : Nat]
    <3>1. a.status \in Statuses /\ a.accrual \in Nat
      BY <2>2, PgAssumption, GophermartAssumption
    <3> QED
      BY <2>2, <3>1
  <2> QED
    BY <1>1, <2>1, <2>2 DEF Calculated
<1>2. SvcInv => SvcTypeOK
  BY <1>1 DEF SvcInv, SvcTypeOK, LookType, ReplyType, CycleType
<1> QED
  BY <1>2, ServiceCorrect, PTL

\* The codes of POST orders and POST withdraw are true when they are given
\* and as long as the process lives, however the requests interleave with
\* each other and with the loop: above all, one order is accepted once.
THEOREM TrueAnswers == Spec => []RepliesAreTrue
<1>1. StoreInv /\ SvcInv => RepliesAreTrue
  <2> SUFFICES ASSUME StoreInv, SvcInv, NEW h \in Handlers, reply[h] # NoRow
               PROVE  LET r == reply[h]
                      IN  /\ r.op = "order" =>
                               /\ r.code \in {200, 202} =>
                                    orders[r.order].user = r.user
                               /\ r.code = 409 => orders[r.order].user # r.user
                               /\ r.code = 422 => orders[r.order] = NoRow
                               /\ r.code = 202 =>
                                    \A g \in Handlers \ {h} :
                                       reply[g] # NoRow =>
                                          reply[g] # [r EXCEPT !.user =
                                                        reply[g].user]
                          /\ r.op = "withdraw" =>
                               /\ r.code = 200 =>
                                    withdrawals[r.order].user = r.user
                               /\ r.code = 422 => withdrawals[r.order] = NoRow
    BY DEF RepliesAreTrue
  <2>1. TrueReply(reply[h]) /\ reply[h] \in Reply
    BY DEF SvcInv, TrueReplies, ReplyType
  <2>2. reply[h].code = 422 => /\ orders[reply[h].order] = NoRow
                               /\ withdrawals[reply[h].order] = NoRow
    BY <2>1 DEF TrueReply, StoreInv, RowsInv, NeverStored, Reply
  <2>3. ASSUME NEW g \in Handlers \ {h}, reply[g] # NoRow,
               reply[h].op = "order", reply[h].code = 202,
               reply[g] = [reply[h] EXCEPT !.user = reply[g].user]
        PROVE  FALSE
    <3>1. Accepts(reply[g], reply[h].order) /\ Accepts(reply[h], reply[h].order)
      BY <2>1, <2>3 DEF Accepts, Reply
    <3> QED
      BY <2>1, <3>1 DEF SvcInv, TrueReplies, Reply
  <2> QED
    BY <2>1, <2>2, <2>3 DEF TrueReply
<1> QED
  BY <1>1, ServiceCorrect, PTL

-----------------------------------------------------------------------------
(***************************************************************************)
(* Orders move forward only and end with what the accrual system           *)
(* calculated for them, for any number of orders, requests and faults, if  *)
(* a lost COMMIT is decided before the loop polls again (InTime).          *)
(*                                                                         *)
(* The rows of orders are written without a look at their status, so the   *)
(* argument is about who may write: while a cycle polls and while its      *)
(* batch is written nobody else holds a row of orders, and the snapshot is *)
(* therefore as fresh at the COMMIT as it was when it was read.  From that *)
(* and the books of LedgerProofs it follows that points are conserved.     *)
(***************************************************************************)

-----------------------------------------------------------------------------
(***************************************************************************)
(* The invariant.                                                          *)
(***************************************************************************)

NoWrites(t) == \A o \in OrderIds : uOrders[t][o] = NoRow

\* Only the loop writes rows of orders, and one transaction at a time.
OneWriter ==
    /\ \A h \in Handlers : NoWrites(h)
    /\ pc[Loop] = "idle" => NoWrites(Loop)
    /\ pc[Zombie] = "idle" => NoWrites(Zombie)
    /\ polling => pc[Loop] = "idle"
    /\ polling \/ pc[Loop] = "batch" => NoWrites(Zombie)

\* The rows that were read are the rows that are there.
SnapFresh ==
    \A o \in OrderIds : snap[o] # NoRow =>
        /\ polling
        /\ snap[o] = orders[o]
        /\ orders[o].status \notin Final

\* The status is one the accrual system has come to.
Reported(s, o) ==
    /\ Rank[s] <= Rank[accrual[o].status]
    /\ s \in Final => s = accrual[o].status

\* The order may go on to this status.
Follows(s, o) ==
    /\ orders[o] # NoRow
    /\ orders[o].status \notin Final
    /\ Rank[s] >= Rank[orders[o].status]

\* A row of the table, and an answer that the table takes.
RowTrue(r, o) ==
    /\ Reported(r.status, o)
    /\ o \notin Garbled =>
         r.accrual = IF r.status \in Final THEN Round(accrual[o].accrual) ELSE 0

AnswerTrue(a, o) ==
    a.status \in Statuses =>
        /\ Reported(a.status, o)
        /\ Follows(a.status, o)
        /\ o \notin Garbled =>
             a.accrual = IF a.status \in Final THEN accrual[o].accrual ELSE 0

RowsTrue    == \A o \in OrderIds : orders[o] # NoRow => RowTrue(orders[o], o)
WritesTrue  == \A t \in Txns, o \in OrderIds : uOrders[t][o] # NoRow =>
                  /\ RowTrue(uOrders[t][o], o)
                  /\ Follows(uOrders[t][o].status, o)
AnswersTrue == \A o \in OrderIds : answers[o] # NoRow =>
                  AnswerTrue(answers[o], o)
BatchTrue   == \A o \in OrderIds : batch[o] # NoRow =>
                  pc[Loop] = "batch" /\ AnswerTrue(batch[o], o)

\* An accrual comes with PROCESSED.
AccrualComes == \A o \in OrderIds :
                   accrual[o].status # "PROCESSED" => accrual[o].accrual = 0

SettleInv == /\ OneWriter /\ SnapFresh
             /\ RowsTrue /\ WritesTrue /\ AnswersTrue /\ BatchTrue
             /\ AccrualComes

\* What a step does to an order.
Forward ==
    \A o \in OrderIds : orders[o] # NoRow /\ orders'[o] # NoRow =>
        /\ orders'[o].user = orders[o].user
        /\ Rank[orders'[o].status] >= Rank[orders[o].status]
        /\ orders[o].status \in Final => orders'[o] = orders[o]

-----------------------------------------------------------------------------
(***************************************************************************)
(* Ranks and types.                                                        *)
(***************************************************************************)

LEMMA RankType ==
    \A s \in Statuses : Rank[s] \in 0..3 /\ (Rank[s] = 3 <=> s \in Final)
  BY DEF Rank, Final, Statuses

LEMMA RankNew == "NEW" \in Statuses /\ "NEW" \notin Final /\ Rank["NEW"] = 0
<1>1. "NEW" \in Statuses /\ "NEW" \notin Final
  BY DEF Statuses, Final
<1>2. Rank["NEW"] = 0
  BY <1>1 DEF Rank
<1> QED
  BY <1>1, <1>2

LEMMA StatusTypes ==
    ASSUME StoreInv, SvcInv, NEW o \in OrderIds
    PROVE  /\ accrual[o].status \in Statuses
           /\ orders[o] # NoRow => orders[o].status \in Statuses
<1>1. accrual[o].status \in Statuses
  <2>1. accrual[o] = Unknown \/ accrual[o].status \in Stages
    BY DEF SvcInv, Calculated
  <2>2. Unknown.status = "NEW"
    BY DEF Unknown
  <2>3. \A s \in Stages : s \in Statuses
    BY GophermartAssumption
  <2> QED
    BY <2>1, <2>2, <2>3, RankNew
<1>2. orders[o] # NoRow => orders[o].status \in Statuses
  BY DEF StoreInv, TypeOK, Order
<1> QED
  BY <1>1, <1>2

LEMMA SettleInit == Init => SettleInv
<1> SUFFICES ASSUME Init PROVE SettleInv
  OBVIOUS
<1> USE DEF Init, PgInit, NoOrders
<1>1. OneWriter
  BY DEF OneWriter, NoWrites, Txns
<1>2. SnapFresh /\ RowsTrue /\ WritesTrue /\ AnswersTrue /\ BatchTrue
  BY DEF SnapFresh, RowsTrue, WritesTrue, AnswersTrue, BatchTrue, Txns
<1>3. AccrualComes
  BY DEF AccrualComes, Unknown
<1> QED
  BY <1>1, <1>2, <1>3 DEF SettleInv

-----------------------------------------------------------------------------
(***************************************************************************)
(* Every step keeps it.                                                    *)
(***************************************************************************)

\* The step changes nothing of orders, unless it starts a lost COMMIT.
Quiet ==
    /\ \A o \in OrderIds : orders'[o] = orders[o]
    /\ \A t \in Txns, o \in OrderIds : uOrders'[t][o] = uOrders[t][o]
    /\ pc'[Loop] = pc[Loop]
    /\ pc'[Zombie] = "idle" => pc[Zombie] = "idle"
    /\ UNCHANGED <<batch, loopVars, accrual>>

LEMMA SettleQuiet ==
    ASSUME StoreInv, SvcInv, SettleInv, Quiet
    PROVE  SettleInv' /\ Forward
<1> USE DEF SettleInv, Quiet, loopVars
<1>1. Loop \in Txns /\ Zombie \in Txns /\ \A h \in Handlers : h \in Txns
  BY DEF Txns
<1>2. OneWriter'
  BY <1>1 DEF OneWriter, NoWrites
<1>3. SnapFresh' /\ RowsTrue' /\ AccrualComes'
  BY DEF SnapFresh, RowsTrue, RowTrue, Reported, AccrualComes
<1>4. WritesTrue'
  BY DEF WritesTrue, RowTrue, Reported, Follows
<1>5. AnswersTrue' /\ BatchTrue'
  BY DEF AnswersTrue, BatchTrue, AnswerTrue, Reported, Follows
<1>6. Forward
  BY StatusTypes, RankType DEF Forward
<1> QED
  BY <1>2, <1>3, <1>4, <1>5, <1>6

LEMMA SettleInsert ==
    ASSUME StoreInv, SvcInv, SettleInv, Inserted,
           UNCHANGED <<batch, loopVars, accrual>>
    PROVE  SettleInv' /\ Forward
<1> USE DEF SettleInv, loopVars
<1>1. PICK u \in Users, p \in OrderIds :
         /\ orders[p] = NoRow
         /\ orders' = [orders EXCEPT ![p] = NewOrder(u)]
         /\ UNCHANGED <<uOrders, pc>>
  BY DEF Inserted
<1>2. orders'[p] = NewOrder(u) /\ \A o \in OrderIds \ {p} : orders'[o] = orders[o]
  BY <1>1 DEF StoreInv, TypeOK
<1>3. \A o \in OrderIds : orders[o] # NoRow => orders'[o] = orders[o]
  BY <1>1, <1>2
<1>4. OneWriter' /\ SnapFresh' /\ AccrualComes'
  <2>1. \A o \in OrderIds : snap[o] # NoRow => orders[o] # NoRow
    BY DEF SnapFresh
  <2> QED
    BY <1>1, <1>3, <2>1 DEF OneWriter, NoWrites, SnapFresh, AccrualComes
<1>5. RowsTrue'
  <2>1. RowTrue(orders[p], p)'
    BY <1>2, StatusTypes, RankType, RankNew
       DEF RowTrue, Reported, NewOrder
  <2> QED
    BY <1>2, <2>1 DEF RowsTrue, RowTrue, Reported
<1>6. WritesTrue'
  BY <1>1, <1>3 DEF WritesTrue, RowTrue, Reported, Follows
<1>7. AnswersTrue' /\ BatchTrue'
  BY <1>1, <1>3 DEF AnswersTrue, BatchTrue, AnswerTrue, Reported, Follows
<1>8. Forward
  BY <1>3, StatusTypes, RankType DEF Forward
<1> QED
  BY <1>4, <1>5, <1>6, <1>7, <1>8

\* A cycle begins: nobody else holds a row that a lost COMMIT would publish.
LEMMA SettleBegin ==
    ASSUME InTime, StoreInv, SvcInv, SettleInv, GetOrdersForProcess
    PROVE  SettleInv' /\ Forward
<1> USE DEF SettleInv, GetOrdersForProcess, pgVars, NoOrders
<1>1. OneWriter'
  BY DEF OneWriter, NoWrites
<1>2. SnapFresh'
  BY DEF SnapFresh, Unfinished, Present, Final
<1>3. RowsTrue' /\ AccrualComes'
  BY DEF RowsTrue, RowTrue, Reported, AccrualComes
<1>4. WritesTrue'
  BY DEF WritesTrue, RowTrue, Reported, Follows
<1>5. AnswersTrue' /\ BatchTrue'
  BY DEF AnswersTrue, BatchTrue, AnswerTrue, Reported, Follows
<1>6. Forward
  BY StatusTypes, RankType DEF Forward
<1> QED
  BY <1>1, <1>2, <1>3, <1>4, <1>5, <1>6

\* Of a broken body the status may be read, or nothing.
LEMMA BrokenBody ==
    ASSUME NEW none, NEW s,
           NEW a \in {[status |-> none, accrual |-> 0],
                      [status |-> s, accrual |-> 0]}
    PROVE  (a.status = none \/ a.status = s) /\ a.accrual = 0
  OBVIOUS

LEMMA SettleAsk ==
    ASSUME StoreInv, SvcInv, SettleInv, NEW p \in OrderIds,
           AnswerComes(p) \/ NoAnswer(p)
    PROVE  SettleInv' /\ Forward
<1> USE DEF SettleInv
<1>1. /\ UNCHANGED <<pgVars, polling, snap, accrual>>
      /\ snap[p] # NoRow
  BY DEF AnswerComes, NoAnswer, Present
<1> USE DEF pgVars
<1>2. OneWriter' /\ SnapFresh' /\ RowsTrue' /\ AccrualComes'
  BY <1>1 DEF OneWriter, NoWrites, SnapFresh, RowsTrue, RowTrue, Reported,
              AccrualComes
<1>3. WritesTrue'
  BY <1>1 DEF WritesTrue, RowTrue, Reported, Follows
<1>4. BatchTrue'
  BY <1>1 DEF BatchTrue, AnswerTrue, Reported, Follows
<1>5. AnswersTrue'
  <2>1. CASE NoAnswer(p)
    BY <1>1, <2>1 DEF NoAnswer, AnswersTrue, AnswerTrue, Reported, Follows
  <2>2. CASE AnswerComes(p)
    <3>1. PICK a \in Read(p) :
             answers' = [answers EXCEPT ![p] = [user    |-> snap[p].user,
                                                status  |-> a.status,
                                                accrual |-> a.accrual]]
      BY <2>2 DEF AnswerComes
    <3>2. /\ orders[p] # NoRow /\ orders[p].status \notin Final
          /\ Reported(orders[p].status, p)
      BY <1>1 DEF SnapFresh, RowsTrue, RowTrue
    <3>3. a.status \in Statuses => a.status = accrual[p].status
      <4>1. "" \notin Statuses
        BY DEF Statuses
      <4>2. a.status = "" \/ a.status = accrual[p].status
        BY BrokenBody DEF Read
      <4> QED
        BY <4>1, <4>2
    <3>4. a.status \in Statuses /\ p \notin Garbled =>
             a.accrual = IF a.status \in Final THEN accrual[p].accrual ELSE 0
      BY DEF Read, AccrualComes, Final
    <3>5. a.status \in Statuses =>
             Reported(a.status, p) /\ Follows(a.status, p)
      BY <3>2, <3>3, StatusTypes, RankType DEF Reported, Follows
    <3>6. /\ answers'[p].status = a.status
          /\ answers'[p].accrual = a.accrual
          /\ \A o \in OrderIds \ {p} : answers'[o] = answers[o]
      BY <3>1 DEF SvcInv, CycleOwned
    <3> HIDE DEF SettleInv
    <3>7. AnswerTrue(answers[p], p)'
      BY <1>1, <3>4, <3>5, <3>6 DEF AnswerTrue, Reported, Follows
    <3>8. \A o \in OrderIds \ {p} : answers'[o] # NoRow =>
             AnswerTrue(answers[o], o)'
      BY <1>1, <3>6
         DEF SettleInv, AnswersTrue, AnswerTrue, Reported, Follows
    <3> QED
      BY <3>7, <3>8 DEF AnswersTrue
  <2> QED
    BY <2>1, <2>2
<1>6. Forward
  BY <1>1, StatusTypes, RankType DEF Forward
<1> QED
  BY <1>2, <1>3, <1>4, <1>5, <1>6

\* The batch is what the answers say, and the table is as it was read.
LEMMA SettleBatch ==
    ASSUME StoreInv, SvcInv, SettleInv,
           UpdateOrdersAndBalances \/ NothingNew
    PROVE  SettleInv' /\ Forward
<1> USE DEF SettleInv
<1>1. /\ UNCHANGED <<orders, uOrders, accrual>>
      /\ pc'[Zombie] = pc[Zombie]
      /\ EndOfCycle /\ polling
  BY PgAssumption
     DEF UpdateOrdersAndBalances, UpdateOrdersBalancesBatch, NothingNew, pgVars,
         EndOfCycle, tables, written, StoreInv, TypeOK, Txns
<1>2. \/ UNCHANGED <<batch, pc>>
      \/ batch' = News /\ pc'[Loop] = "batch"
  BY DEF UpdateOrdersAndBalances, UpdateOrdersBalancesBatch, NothingNew, pgVars,
         StoreInv, TypeOK, Txns
<1>3. OneWriter'
  BY <1>1, <1>2 DEF OneWriter, NoWrites, EndOfCycle
<1>4. SnapFresh' /\ AnswersTrue'
  BY <1>1 DEF EndOfCycle, NoOrders, SnapFresh, AnswersTrue
<1>5. RowsTrue' /\ AccrualComes'
  BY <1>1 DEF RowsTrue, RowTrue, Reported, AccrualComes
<1>6. WritesTrue'
  BY <1>1 DEF WritesTrue, RowTrue, Reported, Follows
<1>7. BatchTrue'
  <2>1. \A o \in OrderIds : News[o] # NoRow => AnswerTrue(News[o], o)
    BY DEF News, AnswersTrue
  <2> QED
    BY <1>1, <1>2, <2>1 DEF BatchTrue, AnswerTrue, Reported, Follows
<1>8. Forward
  BY <1>1, StatusTypes, RankType DEF Forward
<1> QED
  BY <1>3, <1>4, <1>5, <1>6, <1>7, <1>8

LEMMA SettleUpdateOrder ==
    ASSUME StoreInv, SvcInv, SettleInv, NEW p \in OrderIds, UpdateOrder(p),
           UNCHANGED <<loopVars, accrual>>
    PROVE  SettleInv' /\ Forward
<1> USE DEF SettleInv, loopVars
<1> DEFINE row == [user    |-> orders[p].user,
                   status  |-> batch[p].status,
                   accrual |-> Round(batch[p].accrual)]
<1>1. /\ UNCHANGED <<orders, pc, batch, loopVars, accrual>>
      /\ uOrders' = [uOrders EXCEPT ![Loop] = [@ EXCEPT ![p] = row]]
      /\ pc[Loop] = "batch" /\ batch[p] # NoRow
      /\ batch[p].status \in Statuses
  BY DEF UpdateOrder, InBatch, Present, tables
<1>2. /\ row.status = batch[p].status
      /\ row.accrual = Round(batch[p].accrual)
  OBVIOUS
<1> HIDE DEF row
<1>3. Loop \in Txns /\ Zombie \in Txns /\ Loop # Zombie
      /\ \A h \in Handlers : h \in Txns /\ h # Loop
  BY PgAssumption DEF Txns
<1>4. /\ uOrders'[Loop][p] = row
      /\ \A t \in Txns, o \in OrderIds :
            t # Loop \/ o # p => uOrders'[t][o] = uOrders[t][o]
  BY <1>1, <1>3 DEF StoreInv, TypeOK
<1>5. OneWriter'
  BY <1>1, <1>3, <1>4 DEF OneWriter, NoWrites
<1>6. SnapFresh' /\ RowsTrue' /\ AccrualComes'
  BY <1>1 DEF SnapFresh, RowsTrue, RowTrue, Reported, AccrualComes
<1>7. AnswersTrue' /\ BatchTrue'
  BY <1>1 DEF AnswersTrue, BatchTrue, AnswerTrue, Reported, Follows
<1>8. WritesTrue'
  <2>1. AnswerTrue(batch[p], p)
    BY <1>1 DEF BatchTrue
  <2>2. RowTrue(row, p) /\ Follows(row.status, p)
    BY <1>1, <1>2, <2>1, RoundZero DEF AnswerTrue, RowTrue
  <2> QED
    BY <1>1, <1>4, <2>2 DEF WritesTrue, RowTrue, Reported, Follows
<1>9. Forward
  BY <1>1, StatusTypes, RankType DEF Forward
<1> QED
  BY <1>5, <1>6, <1>7, <1>8, <1>9

\* The loop, or the server for it, gives up what was written.
LEMMA SettleDrop ==
    ASSUME StoreInv, SvcInv, SettleInv, NEW t \in Txns, Release(t),
           UNCHANGED <<orders, loopVars, accrual>>
    PROVE  SettleInv' /\ Forward
<1> USE DEF SettleInv, loopVars
<1>1. Loop \in Txns /\ Zombie \in Txns /\ Loop # Zombie
      /\ \A h \in Handlers : h \in Txns /\ h # Loop /\ h # Zombie
  BY PgAssumption DEF Txns
<1>2. /\ \A s \in Txns, o \in OrderIds :
            uOrders'[s][o] = IF s = t THEN NoRow ELSE uOrders[s][o]
      /\ \A s \in Txns : pc'[s] = IF s = t THEN "idle" ELSE pc[s]
      /\ batch' = IF t = Loop THEN NoOrders ELSE batch
  BY DEF Release, NoOrders, StoreInv, TypeOK
<1>3. OneWriter'
  BY <1>1, <1>2 DEF OneWriter, NoWrites
<1>4. SnapFresh' /\ RowsTrue' /\ AccrualComes'
  BY DEF SnapFresh, RowsTrue, RowTrue, Reported, AccrualComes
<1>5. WritesTrue'
  BY <1>2 DEF WritesTrue, RowTrue, Reported, Follows
<1>6. AnswersTrue'
  BY DEF AnswersTrue, AnswerTrue, Reported, Follows
<1>7. BatchTrue'
  BY <1>1, <1>2 DEF BatchTrue, AnswerTrue, Reported, Follows, NoOrders
<1>8. Forward
  BY StatusTypes, RankType DEF Forward
<1> QED
  BY <1>3, <1>4, <1>5, <1>6, <1>7, <1>8

\* The COMMIT of the loop, or the late one: what is published follows what
\* was there, and nobody else has written a row.
LEMMA SettlePublish ==
    ASSUME StoreInv, SvcInv, SettleInv, NEW t \in Txns, AtCommit(t),
           Publish(t), Release(t), UNCHANGED <<loopVars, accrual>>
    PROVE  SettleInv' /\ Forward
<1> USE DEF SettleInv, loopVars
<1>1. Loop \in Txns /\ Zombie \in Txns /\ Loop # Zombie
      /\ Txns = Handlers \union {Loop, Zombie}
      /\ \A h \in Handlers : h \in Txns /\ h # Loop /\ h # Zombie
  BY PgAssumption DEF Txns
<1>2. /\ \A s \in Txns, o \in OrderIds :
            uOrders'[s][o] = IF s = t THEN NoRow ELSE uOrders[s][o]
      /\ \A s \in Txns : pc'[s] = IF s = t THEN "idle" ELSE pc[s]
      /\ batch' = IF t = Loop THEN NoOrders ELSE batch
      /\ \A o \in OrderIds : orders'[o] = IF uOrders[t][o] # NoRow
                                          THEN uOrders[t][o] ELSE orders[o]
  BY DEF Release, Publish, Over, NoOrders, StoreInv, TypeOK
<1>3. OneWriter'
  BY <1>1, <1>2 DEF OneWriter, NoWrites
<1>4. \A o \in OrderIds : uOrders[t][o] # NoRow =>
         /\ RowTrue(uOrders[t][o], o) /\ Follows(uOrders[t][o].status, o)
         /\ uOrders[t][o].user = orders[o].user
  BY DEF WritesTrue, StoreInv, RowsInv, OwnersKept
<1>5. RowsTrue'
  BY <1>2, <1>4 DEF RowsTrue, RowTrue, Reported
<1>6. \A o \in OrderIds : uOrders[t][o] # NoRow =>
         /\ snap[o] = NoRow
         /\ t = Loop \/ batch[o] = NoRow
         /\ \A s \in Txns \ {t} : uOrders[s][o] = NoRow
  <2>1. ~ polling \/ NoWrites(t)
    BY <1>1 DEF OneWriter
  <2>2. t = Loop \/ NoWrites(t) \/ pc[Loop] # "batch"
    BY <1>1 DEF OneWriter
  <2>3. ASSUME NEW o \in OrderIds, uOrders[t][o] # NoRow,
               NEW s \in Txns \ {t}
        PROVE  uOrders[s][o] = NoRow
    <3>1. CASE t = Loop
      <4>1. pc[Loop] = "batch"
        BY <2>3, <3>1 DEF AtCommit, StoreInv, PcShape
      <4> QED
        BY <1>1, <3>1, <4>1 DEF OneWriter, NoWrites
    <3>2. CASE t = Zombie
      <4>1. pc[Loop] = "idle"
        BY <2>2, <2>3, <3>2, <1>1 DEF NoWrites, StoreInv, PcShape
      <4> QED
        BY <1>1, <3>2, <4>1 DEF OneWriter, NoWrites
    <3>3. CASE t \in Handlers
      BY <2>3, <3>3 DEF OneWriter, NoWrites
    <3> QED
      BY <1>1, <3>1, <3>2, <3>3
  <2> QED
    BY <2>1, <2>2, <2>3 DEF NoWrites, SnapFresh, BatchTrue
<1>7. SnapFresh'
  BY <1>2, <1>6 DEF SnapFresh
<1>8. WritesTrue'
  BY <1>2, <1>6 DEF WritesTrue, RowTrue, Reported, Follows
<1>9. AnswersTrue'
  <2>1. \A o \in OrderIds : answers[o] # NoRow => snap[o] # NoRow
    BY DEF SvcInv, CycleOwned
  <2> QED
    BY <1>2, <1>6, <2>1 DEF AnswersTrue, AnswerTrue, Reported, Follows
<1>10. BatchTrue'
  BY <1>1, <1>2, <1>6
     DEF BatchTrue, AnswerTrue, Reported, Follows, NoOrders
<1>11. AccrualComes'
  BY DEF AccrualComes
<1>12. Forward
  BY <1>2, <1>4, StatusTypes, RankType DEF Forward, Follows
<1> QED
  BY <1>3, <1>5, <1>7, <1>8, <1>9, <1>10, <1>11, <1>12

\* The COMMIT is lost: what was written is the server's.
LEMMA SettleLose ==
    ASSUME StoreInv, SvcInv, SettleInv, NEW t \in Callers, LoseCommit(t),
           UNCHANGED <<loopVars, accrual>>
    PROVE  SettleInv' /\ Forward
<1> USE DEF SettleInv, loopVars
<1>1. /\ Loop \in Txns /\ Zombie \in Txns /\ Loop # Zombie
      /\ t \in Txns /\ t # Zombie
      /\ t = Loop \/ t \in Handlers
      /\ \A h \in Handlers : h \in Txns /\ h # Loop /\ h # Zombie
  BY PgAssumption DEF Txns, Callers
<1>2. /\ \A s \in Txns, o \in OrderIds :
            uOrders'[s][o] = IF s = t THEN NoRow
                             ELSE IF s = Zombie THEN uOrders[t][o]
                             ELSE uOrders[s][o]
      /\ \A s \in Txns : pc'[s] = IF s = t THEN "idle"
                                  ELSE IF s = Zombie THEN "commit" ELSE pc[s]
      /\ batch' = IF t = Loop THEN NoOrders ELSE batch
      /\ orders' = orders /\ pc[Zombie] = "idle" /\ AtCommit(t)
  BY <1>1 DEF LoseCommit, NoOrders, StoreInv, TypeOK, tables
<1>3. OneWriter'
  <2>1. CASE t = Loop
    <3>1. ~polling
      BY <1>2, <2>1 DEF AtCommit, OneWriter
    <3> QED
      BY <1>1, <1>2, <2>1, <3>1 DEF OneWriter, NoWrites
  <2>2. CASE t \in Handlers
    BY <1>1, <1>2, <2>2 DEF OneWriter, NoWrites
  <2> QED
    BY <1>1, <2>1, <2>2
<1>4. SnapFresh' /\ RowsTrue' /\ AccrualComes'
  BY <1>2 DEF SnapFresh, RowsTrue, RowTrue, Reported, AccrualComes
<1>5. WritesTrue'
  BY <1>1, <1>2 DEF WritesTrue, RowTrue, Reported, Follows
<1>6. AnswersTrue'
  BY <1>2 DEF AnswersTrue, AnswerTrue, Reported, Follows
<1>7. BatchTrue'
  BY <1>1, <1>2 DEF BatchTrue, AnswerTrue, Reported, Follows, NoOrders
<1>8. Forward
  BY <1>2, StatusTypes, RankType DEF Forward
<1> QED
  BY <1>3, <1>4, <1>5, <1>6, <1>7, <1>8

\* The accrual system goes on: what it has come to stays behind it, and what
\* is final is calculated no more.
LEMMA SettleCalculate ==
    ASSUME StoreInv, SvcInv, SettleInv, NEW p \in OrderIds, Calculate(p)
    PROVE  SettleInv' /\ Forward
<1> USE DEF SettleInv, pgVars, loopVars
<1>1. PICK s \in Stages, r \in Rewards \union {0} :
         /\ Rank[s] > Rank[accrual[p].status]
         /\ s # "PROCESSED" => r = 0
         /\ accrual' = [accrual EXCEPT ![p] = [status |-> s, accrual |-> r]]
  BY DEF Calculate
<1>2. UNCHANGED <<pgVars, loopVars>>
  BY DEF Calculate
<1>3. /\ accrual'[p].status = s /\ accrual'[p].accrual = r
      /\ \A o \in OrderIds \ {p} : accrual'[o] = accrual[o]
  BY <1>1 DEF SvcInv, Calculated
<1>4. accrual[p].status \notin Final /\ Rank[accrual[p].status] <= Rank[s]
  <2>1. s \in Statuses
    BY GophermartAssumption
  <2> QED
    BY <1>1, <2>1, StatusTypes, RankType
<1>5. \A q, o : Reported(q, o) /\ o \in OrderIds /\ Rank[q] \in Int =>
                   Reported(q, o)' /\ (q \in Final => accrual'[o] = accrual[o])
  <2> SUFFICES ASSUME NEW q, NEW o \in OrderIds, Reported(q, o), Rank[q] \in Int
               PROVE  Reported(q, o)' /\ (q \in Final => accrual'[o] = accrual[o])
    OBVIOUS
  <2>1. CASE o # p
    BY <1>3, <2>1 DEF Reported
  <2>2. CASE o = p
    <3>1. s \in Statuses
      BY GophermartAssumption
    <3>2. q \notin Final
      BY <1>4, <2>2 DEF Reported
    <3> QED
      BY <1>3, <1>4, <2>2, <3>1, <3>2, StatusTypes, RankType DEF Reported
  <2> QED
    BY <2>1, <2>2
<1>6. OneWriter' /\ SnapFresh'
  BY <1>2 DEF OneWriter, NoWrites, SnapFresh
<1>7. RowsTrue'
  BY <1>2, <1>5, StatusTypes, RankType DEF RowsTrue, RowTrue
<1>8. WritesTrue'
  <2>1. \A t \in Txns, o \in OrderIds : uOrders[t][o] # NoRow =>
           Rank[uOrders[t][o].status] \in Int
    <3>1. \A t \in Txns, o \in OrderIds : uOrders[t][o] # NoRow =>
             uOrders[t][o].status \in Statuses
      BY DEF StoreInv, TypeOK, Order
    <3> QED
      BY <3>1, RankType
  <2> QED
    BY <1>2, <1>5, <2>1 DEF WritesTrue, RowTrue, Follows
<1>9. AnswersTrue' /\ BatchTrue'
  BY <1>2, <1>5, RankType DEF AnswersTrue, BatchTrue, AnswerTrue, Follows
<1>10. AccrualComes'
  BY <1>1, <1>3 DEF AccrualComes
<1>11. Forward
  BY <1>2, StatusTypes, RankType DEF Forward
<1> QED
  BY <1>6, <1>7, <1>8, <1>9, <1>10, <1>11

LEMMA SettleRestart ==
    ASSUME StoreInv, SvcInv, SettleInv, RestartProcess
    PROVE  SettleInv' /\ Forward
<1> USE DEF SettleInv, RestartProcess, Restart, NoOrders
<1>1. OneWriter'
  BY DEF OneWriter, NoWrites, Txns
<1>2. SnapFresh' /\ RowsTrue' /\ WritesTrue' /\ AnswersTrue' /\ BatchTrue'
  BY DEF SnapFresh, RowsTrue, WritesTrue, AnswersTrue, BatchTrue, Txns
<1>3. AccrualComes' /\ Forward
  BY DEF AccrualComes, Forward
<1> QED
  BY <1>1, <1>2, <1>3

\* What a handler does, its COMMIT included, is quiet.
LEMMA HandlerQuiet ==
    ASSUME StoreInv, SettleInv, NEW h \in Handlers, UNCHANGED <<loopVars, accrual>>,
           \/ Commit(h) \/ Rollback(h) \/ LoseCommit(h)
           \/ /\ UNCHANGED <<orders, uOrders, batch>>
              /\ \E s : pc' = [pc EXCEPT ![h] = s]
    PROVE  Quiet
<1>1. /\ h \in Txns /\ Loop \in Txns /\ Zombie \in Txns
      /\ h # Loop /\ h # Zombie /\ Loop # Zombie
  BY PgAssumption DEF Txns
<1>2. \A o \in OrderIds : uOrders[h][o] = NoRow
  BY DEF SettleInv, OneWriter, NoWrites
<1> USE DEF StoreInv, TypeOK
<1>3. CASE Commit(h) \/ Rollback(h)
  BY <1>1, <1>2, <1>3
     DEF Quiet, Commit, Rollback, Publish, Over, Release, NoOrders, tables
<1>4. CASE LoseCommit(h)
  BY <1>1, <1>2, <1>4 DEF Quiet, LoseCommit, NoOrders, tables, SettleInv,
                          OneWriter, NoWrites
<1>5. CASE /\ UNCHANGED <<orders, uOrders, batch>>
           /\ \E s : pc' = [pc EXCEPT ![h] = s]
  BY <1>1, <1>5 DEF Quiet
<1> QED
  BY <1>3, <1>4, <1>5

LEMMA SettleStep ==
    ASSUME InTime, StoreInv, SvcInv, SettleInv, [Next]_vars
    PROVE  SettleInv' /\ Forward
<1> USE DEF tables, written
<1>1. ASSUME NEW h \in Handlers, NEW u \in Users, NEW o \in OrderIds,
             PostOrder(h, u, o) \/ WithdrawRejected(h, u, o)
      PROVE  SettleInv' /\ Forward
  <2>1. \/ Inserted /\ UNCHANGED <<batch, loopVars, accrual>>
        \/ UNCHANGED <<orders, uOrders, pc, batch, loopVars, accrual>>
    BY <1>1 DEF PostOrder, OrderAccepted, OrderRejected, OrderExists, OrderFails,
                WithdrawRejected, InsertOrder, InsertOrderFails, Inserted,
                NewOrder, pgVars
  <2> QED
    BY <2>1, SettleInsert, SettleQuiet DEF Quiet
<1>2. ASSUME NEW h \in Handlers,
             \/ GetOneOrder(h) \/ LookupFails(h)
             \/ WithdrawAnswered(h) \/ WithdrawFails(h) \/ WithdrawStatement(h)
             \/ \E u \in Users, o \in OrderIds, m \in Sums :
                   PostWithdraw(h, u, o, m)
      PROVE  SettleInv' /\ Forward
  <2>1. CASE GetOneOrder(h) \/ LookupFails(h)
    BY <2>1, SettleQuiet DEF GetOneOrder, LookupFails, Quiet, pgVars
  <2>2. CASE WithdrawAnswered(h) \/ WithdrawFails(h)
    <3>1. UNCHANGED <<loopVars, accrual>>
      BY <2>2 DEF WithdrawAnswered, WithdrawFails
    <3>2. Commit(h) \/ Rollback(h) \/ LoseCommit(h)
      BY <2>2 DEF WithdrawAnswered, WithdrawFails, SelectNotEnough,
                  WithdrawalExists, SelectFails, Fail
    <3> QED
      BY <3>1, <3>2, HandlerQuiet, SettleQuiet
  <2>3. CASE \/ WithdrawStatement(h)
             \/ \E u \in Users, o \in OrderIds, m \in Sums :
                   PostWithdraw(h, u, o, m)
    <3>1. UNCHANGED <<loopVars, accrual>>
      BY <2>3 DEF WithdrawStatement, PostWithdraw
    <3>2. /\ UNCHANGED <<orders, uOrders, batch>>
          /\ \E s : pc' = [pc EXCEPT ![h] = s]
      BY <2>3 DEF WithdrawStatement, PostWithdraw, SelectEnough, DecBalance,
                  InsertWithdrawal, InsertWithdraw
    <3> QED
      BY <3>1, <3>2, HandlerQuiet, SettleQuiet
  <2> QED
    BY <1>2, <2>1, <2>2, <2>3
<1>3. CASE GetOrdersForProcess
  BY <1>3, SettleBegin
<1>4. ASSUME NEW o \in OrderIds, LoopStatement(o)
      PROVE  SettleInv' /\ Forward
  <2>1. UNCHANGED <<loopVars, accrual>>
    BY <1>4 DEF LoopStatement
  <2>2. CASE UpdateOrder(o)
    BY <2>1, <2>2, SettleUpdateOrder
  <2>3. CASE UpdateRejected(o)
    BY <2>1, <2>3, SettleDrop DEF UpdateRejected, Rollback, Txns
  <2>4. CASE CreditBalance(o)
    BY <2>1, <2>4, SettleQuiet DEF CreditBalance, Quiet
  <2> QED
    BY <1>4, <2>2, <2>3, <2>4 DEF LoopStatement, BatchStatement
<1>5. ASSUME NEW o \in OrderIds,
             AnswerComes(o) \/ NoAnswer(o) \/ Calculate(o)
      PROVE  SettleInv' /\ Forward
  BY <1>5, SettleAsk, SettleCalculate
<1>6. CASE UpdateOrdersAndBalances \/ NothingNew
  BY <1>6, SettleBatch
<1>7. CASE LoopCommit \/ LoopFails
  <2>1. UNCHANGED <<loopVars, accrual>> /\ Loop \in Txns /\ Loop \in Callers
    BY <1>7 DEF LoopCommit, LoopFails, Txns, Callers
  <2>2. CASE Commit(Loop)
    BY <2>1, <2>2, SettlePublish DEF Commit
  <2>3. CASE Fail(Loop)
    BY <2>1, <2>3, SettleDrop DEF Fail, Rollback
  <2>4. CASE LoseCommit(Loop)
    BY <2>1, <2>4, SettleLose
  <2> QED
    BY <1>7, <2>2, <2>3, <2>4 DEF LoopCommit, LoopFails
<1>8. CASE ServerFinishes
  <2>1. UNCHANGED <<loopVars, accrual>> /\ Zombie \in Txns
    BY <1>8 DEF ServerFinishes, Txns
  <2>2. CASE LateCommit
    BY <2>1, <2>2, SettlePublish DEF LateCommit, AtCommit
  <2>3. CASE LateAbort
    BY <2>1, <2>3, SettleDrop DEF LateAbort
  <2> QED
    BY <1>8, <2>2, <2>3 DEF ServerFinishes
<1>9. CASE RestartProcess
  BY <1>9, SettleRestart
<1>10. CASE UNCHANGED vars
  BY <1>10, SettleQuiet DEF vars, pgVars, Quiet
<1> QED
  BY <1>1, <1>2, <1>3, <1>4, <1>5, <1>6, <1>7, <1>8, <1>9, <1>10 DEF Next

\* The inductive invariant of the loop: while it polls, and while its batch
\* is written, the rows it has read are the rows that are there.
THEOREM SettlesInTime ==
    ASSUME InTime
    PROVE  Spec => [](StoreInv /\ SvcInv /\ SettleInv)
<1>1. Init => StoreInv /\ SvcInv /\ SettleInv
  BY ServiceInit, SettleInit
<1>2. StoreInv /\ SvcInv /\ SettleInv /\ [Next]_vars =>
         (StoreInv /\ SvcInv /\ SettleInv)'
  BY ServiceStep, SettleStep
<1> QED
  BY <1>1, <1>2, PTL DEF Spec

\* A final row of orders says what was calculated for that very order, its
\* accrual rounded, however the answers of the workers, the batches, their
\* failures and lost COMMITs, and restarts interleave.
THEOREM AlwaysSettledAsCalculated ==
    ASSUME InTime
    PROVE  Spec => []SettledAsCalculated
<1>1. StoreInv /\ SettleInv => SettledAsCalculated
  <2> SUFFICES ASSUME StoreInv, SettleInv,
                      NEW o \in Present(orders) \ Garbled
               PROVE  IF orders[o].status \in Final
                      THEN /\ orders[o].status = accrual[o].status
                           /\ orders[o].accrual = Round(accrual[o].accrual)
                      ELSE orders[o].accrual = 0
    BY DEF SettledAsCalculated
  <2> QED
    BY DEF SettleInv, RowsTrue, RowTrue, Reported, Present, StoreInv, TypeOK
<1> QED
  BY <1>1, SettlesInTime, PTL

\* No order goes back, and a final one stays as it is: the UPDATE of the
\* batch does not look at the status, but nobody wrote the row since it was
\* read.
THEOREM OrdersOnlyForward ==
    ASSUME InTime
    PROVE  Spec => OnlyForward
<1>1. StoreInv /\ SvcInv /\ SettleInv /\ [Next]_vars => Forward
  BY SettleStep
<1>2. StoreInv /\ Forward =>
        [\A o \in Present(orders) : orders'[o] # NoRow =>
            /\ orders'[o].user = orders[o].user
            /\ Rank[orders'[o].status] >= Rank[orders[o].status]
            /\ orders[o].status \in Final => orders'[o] = orders[o]]_vars
  BY DEF Forward, Present, StoreInv, TypeOK
<1> QED
  BY <1>1, <1>2, SettlesInTime, PTL DEF Spec, OnlyForward

-----------------------------------------------------------------------------
(***************************************************************************)
(* That points are neither made nor lost.                                  *)
(*                                                                         *)
(* The store only bounds the accruals of a user's orders by the balance:   *)
(* a batch that wrote an accrual over another one would pay twice.  The    *)
(* rows of a batch take the place of rows that are not final, and a row    *)
(* that is not final has no accrual, whatever the answers said.            *)
(***************************************************************************)

Unpaid(r) == r # NoRow /\ r.status \notin Final => r.accrual = 0

RowsUnpaid    == \A o \in OrderIds : Unpaid(orders[o])
WritesUnpaid  == \A t \in Txns, o \in OrderIds : Unpaid(uOrders[t][o])
AnswersUnpaid == \A o \in OrderIds : Unpaid(answers[o])
BatchUnpaid   == \A o \in OrderIds : Unpaid(batch[o])

UnpaidInv == RowsUnpaid /\ WritesUnpaid /\ AnswersUnpaid /\ BatchUnpaid

LEMMA UnpaidInit == Init => UnpaidInv
  BY DEF Init, PgInit, UnpaidInv, RowsUnpaid, WritesUnpaid, AnswersUnpaid,
         BatchUnpaid, Unpaid, NoOrders

\* What a step does to the answers, and to the batch.
LEMMA AnswerCases ==
    ASSUME [Next]_vars
    PROVE  \/ UNCHANGED answers
           \/ answers' = NoOrders
           \/ \E o \in OrderIds : AnswerComes(o)
  BY DEF Next, vars, loopVars, PostOrder, OrderAccepted, OrderRejected,
         OrderExists, OrderFails, GetOneOrder, LookupFails, WithdrawRejected,
         PostWithdraw, WithdrawStatement, WithdrawAnswered, WithdrawFails,
         GetOrdersForProcess, NoAnswer, LoopStatement, Calculate,
         UpdateOrdersAndBalances, NothingNew, EndOfCycle, LoopCommit, LoopFails,
         ServerFinishes, RestartProcess

LEMMA ReleasedBatch ==
    ASSUME NEW t \in Txns, Release(t)
    PROVE  batch' = batch \/ batch' = NoOrders
  BY DEF Release

LEMMA BatchCases ==
    ASSUME [Next]_vars
    PROVE  batch' = batch \/ batch' = NoOrders \/ batch' = News
<1> USE DEF pgVars, Txns, Callers
<1>1. ASSUME NEW h \in Handlers, NEW u \in Users, NEW o \in OrderIds,
             \/ PostOrder(h, u, o) \/ WithdrawRejected(h, u, o)
             \/ \E m \in Sums : PostWithdraw(h, u, o, m)
      PROVE  batch' = batch
  BY <1>1 DEF PostOrder, OrderAccepted, OrderRejected, OrderExists, OrderFails,
              WithdrawRejected, PostWithdraw, InsertOrder, InsertOrderFails,
              InsertWithdraw
<1>2. ASSUME NEW h \in Handlers,
             GetOneOrder(h) \/ LookupFails(h) \/ WithdrawStatement(h)
      PROVE  batch' = batch
  BY <1>2 DEF GetOneOrder, LookupFails, WithdrawStatement, SelectEnough,
              DecBalance, InsertWithdrawal
<1>3. ASSUME NEW h \in Handlers, WithdrawAnswered(h) \/ WithdrawFails(h)
      PROVE  batch' = batch \/ batch' = NoOrders
  <2>1. Commit(h) \/ Rollback(h) \/ LoseCommit(h)
    BY <1>3 DEF WithdrawAnswered, WithdrawFails, SelectNotEnough,
                WithdrawalExists, SelectFails, Fail
  <2> QED
    BY <2>1, ReleasedBatch DEF Commit, Rollback, LoseCommit
<1>4. ASSUME NEW o \in OrderIds, LoopStatement(o)
      PROVE  batch' = batch \/ batch' = NoOrders
  BY <1>4, ReleasedBatch DEF LoopStatement, BatchStatement, UpdateOrder,
     UpdateRejected, CreditBalance, Rollback
<1>5. CASE LoopCommit \/ LoopFails \/ ServerFinishes
  BY <1>5, ReleasedBatch DEF LoopCommit, LoopFails, ServerFinishes, Commit,
     Fail, Rollback, LoseCommit, LateCommit, LateAbort
<1>6. CASE UpdateOrdersAndBalances
  BY <1>6 DEF UpdateOrdersAndBalances, UpdateOrdersBalancesBatch
<1>7. CASE \/ GetOrdersForProcess \/ NothingNew \/ UNCHANGED vars
           \/ \E o \in OrderIds : AnswerComes(o) \/ NoAnswer(o) \/ Calculate(o)
  BY <1>7 DEF GetOrdersForProcess, NothingNew, AnswerComes, NoAnswer,
              Calculate, vars
<1>8. CASE RestartProcess
  BY <1>8 DEF RestartProcess, Restart
<1> QED
  BY <1>1, <1>2, <1>3, <1>4, <1>5, <1>6, <1>7, <1>8 DEF Next

LEMMA UnpaidStep ==
    ASSUME StoreInv, SvcInv, SettleInv, UnpaidInv, [Next]_vars
    PROVE  UnpaidInv'
<1> USE DEF StoreInv, UnpaidInv
<1>1. AnswersUnpaid'
  <2>1. ASSUME NEW p \in OrderIds, AnswerComes(p)
        PROVE  AnswersUnpaid'
    <3>1. PICK a \in Read(p) :
             answers' = [answers EXCEPT ![p] = [user    |-> snap[p].user,
                                                status  |-> a.status,
                                                accrual |-> a.accrual]]
      BY <2>1 DEF AnswerComes
    <3>2. a.status \notin Final => a.accrual = 0
      <4>1. CASE p \in Garbled
        BY <4>1, BrokenBody DEF Read
      <4>2. CASE p \notin Garbled
        <5>1. a = accrual[p]
          BY <4>2 DEF Read
        <5> QED
          BY <5>1 DEF SettleInv, AccrualComes, Final
      <4> QED
        BY <4>1, <4>2
    <3>3. /\ answers'[p].status = a.status
          /\ answers'[p].accrual = a.accrual
          /\ \A o \in OrderIds \ {p} : answers'[o] = answers[o]
      BY <3>1 DEF SvcInv, CycleOwned
    <3> QED
      BY <3>2, <3>3 DEF AnswersUnpaid, Unpaid
  <2>2. CASE answers' = answers \/ answers' = NoOrders
    BY <2>2 DEF AnswersUnpaid, Unpaid, NoOrders
  <2> QED
    BY <2>1, <2>2, AnswerCases
<1>2. BatchUnpaid'
  <2>1. \A o \in OrderIds : Unpaid(News[o])
    BY DEF News, AnswersUnpaid, Unpaid
  <2> QED
    BY <2>1, BatchCases DEF BatchUnpaid, Unpaid, NoOrders
<1>3. [PgNext]_pgVars
  BY StoreStep
<1>4. RowsUnpaid' /\ WritesUnpaid'
  <2>1. ASSUME NEW u \in Users, NEW p \in OrderIds, Accepted(u, p)
        PROVE  RowsUnpaid' /\ WritesUnpaid'
    BY <2>1 DEF Accepted, written, RowsUnpaid, WritesUnpaid, Unpaid, NewOrder,
                TypeOK
  <2>2. ASSUME NEW p \in OrderIds, UpdateOrder(p)
        PROVE  RowsUnpaid' /\ WritesUnpaid'
    <3> DEFINE row == [user    |-> orders[p].user,
                       status  |-> batch[p].status,
                       accrual |-> Round(batch[p].accrual)]
    <3>1. /\ UNCHANGED orders /\ batch[p] # NoRow
          /\ uOrders' = [uOrders EXCEPT ![Loop] = [@ EXCEPT ![p] = row]]
      BY <2>2 DEF UpdateOrder, InBatch, Present, tables
    <3>2. row.status = batch[p].status /\ row.accrual = Round(batch[p].accrual)
      OBVIOUS
    <3> HIDE DEF row
    <3>3. Unpaid(row)
      BY <3>1, <3>2, RoundZero DEF BatchUnpaid, Unpaid
    <3>4. \A t \in Txns, o \in OrderIds :
             uOrders'[t][o] = IF t = Loop /\ o = p THEN row ELSE uOrders[t][o]
      BY <3>1 DEF TypeOK
    <3> QED
      BY <3>1, <3>3, <3>4 DEF RowsUnpaid, WritesUnpaid, Unpaid
  <2>3. ASSUME NEW t \in Txns, Release(t), UNCHANGED orders \/ Publish(t)
        PROVE  RowsUnpaid' /\ WritesUnpaid'
    BY <2>3, Released, Published DEF RowsUnpaid, WritesUnpaid, Unpaid
  <2>4. ASSUME NEW t \in Callers, LoseCommit(t)
        PROVE  RowsUnpaid' /\ WritesUnpaid'
    BY <2>4, Lost DEF RowsUnpaid, WritesUnpaid, Unpaid
  <2>5. CASE Restart
    BY <2>5 DEF Restart, NoOrders, RowsUnpaid, WritesUnpaid, Unpaid
  <2>6. CASE UNCHANGED <<orders, uOrders>>
    BY <2>6 DEF RowsUnpaid, WritesUnpaid, Unpaid
  <2> QED
    BY <1>3, <2>1, <2>2, <2>3, <2>4, <2>5, <2>6, BookCases
       DEF InsertWithdraw, SelectEnough, DecBalance, InsertWithdrawal,
           UpdateOrdersBalancesBatch, CreditBalance, Rollback, tables, written
<1> QED
  BY <1>1, <1>2, <1>4

Balanced(u) ==
    NoNegativeSum(u) => Held(u).current + Held(u).withdrawn = AccrualsOf(u)

LEMMA BalancedInit == ASSUME Init, NEW u \in Users PROVE Balanced(u)
<1>1. orders = NoOrders /\ balances[u] = NoRow
  BY DEF Init, PgInit, NoBalances
<1>2. Held(u) = [current |-> 0, withdrawn |-> 0]
  BY <1>1 DEF Held
<1>3. AccrualsOf(u) = 0
  BY <1>1, SumsNothing, Zenon DEF AccrualsOf
<1> QED
  BY <1>2, <1>3 DEF Balanced

\* Only what is not final is written over, so a batch pays what it writes.
LEMMA WritesPay ==
    ASSUME StoreInv, SettleInv, UnpaidInv, RowsWritten, NEW t \in Txns,
           NEW u \in Users, NEW o \in PaidBy(t, u)
    PROVE  orders[o].accrual = 0
<1>1. o \in OrderIds /\ uOrders[t][o] # NoRow
  BY PaidFinite DEF StoreInv
<1> QED
  BY <1>1 DEF SettleInv, WritesTrue, Follows, UnpaidInv, RowsUnpaid, Unpaid

LEMMA BalancedStep ==
    ASSUME StoreInv, SvcInv, SettleInv, UnpaidInv, FundsInv, BooksInv,
           [Next]_vars, NEW u \in Users, Balanced(u)
    PROVE  Balanced(u)'
<1>1. [PgNext]_pgVars
  BY StoreStep
<1>2. TypeOK /\ PcShape /\ TypeOK' /\ RowsWritten /\ BatchPays
  BY <1>1, TypeStep DEF StoreInv, BooksInv
<1>3. Held(u) \in Balance /\ AccrualsOf(u) \in Nat
  BY <1>2, HeldType, SumsType
<1>4. CASE Restart
  <2>1. orders' = NoOrders /\ \A v \in Users : balances'[v] = NoRow
    BY <1>4 DEF Restart, NoBalances
  <2>2. Held(u)' = [current |-> 0, withdrawn |-> 0]
    BY <2>1 DEF Held
  <2>3. AccrualsOf(u)' = 0
    BY <2>1, SumsNothing, Zenon DEF AccrualsOf
  <2> QED
    BY <2>2, <2>3 DEF Balanced
<1>5. CASE ~Restart
  <2> SUFFICES ASSUME NoNegativeSum(u)'
               PROVE  Held(u)'.current + Held(u)'.withdrawn = AccrualsOf(u)'
    BY DEF Balanced
  <2>1. Held(u).current + Held(u).withdrawn = AccrualsOf(u)
    BY <1>1, <1>2, <1>5, SignsStay DEF Balanced
  <2>2. CASE UNCHANGED tables
    <3>1. UNCHANGED <<orders, balances>>
      BY <2>2 DEF tables
    <3> QED
      BY <2>1, <3>1, Zenon DEF Held, AccrualsOf, Owned, Present
  <2>3. ASSUME NEW v \in Users, NEW o \in OrderIds, Accepted(v, o)
        PROVE  Held(u)'.current + Held(u)'.withdrawn = AccrualsOf(u)'
    <3>1. AccrualsOf(u)' = AccrualsOf(u)
      BY <1>2, <2>3, AccrualsAccept
    <3>2. Held(u)' = Held(u)
      BY <2>3 DEF Accepted, Held
    <3> QED
      BY <2>1, <3>1, <3>2
  <2>4. ASSUME NEW t \in Txns, AtCommit(t), Publish(t)
        PROVE  Held(u)'.current + Held(u)'.withdrawn = AccrualsOf(u)'
    <3>1. CASE arg[t] # NoRow
      BY <1>2, <2>1, <2>4, <3>1, CommitBooks
    <3>2. CASE arg[t] = NoRow
      <4>1. \A o \in PaidBy(t, u) : orders[o].accrual = 0
        BY <1>2, WritesPay
      <4>2. PICK new \in Nat : /\ Held(u)'.withdrawn = Held(u).withdrawn
                               /\ Held(u)'.current = Held(u).current + new
                               /\ AccrualsOf(u)' = AccrualsOf(u) + new
        BY <1>2, <2>4, <3>2, <4>1, CommitBooks, AccrualsPublish
      <4> QED
        BY <1>3, <2>1, <4>2 DEF Balance
    <3> QED
      BY <3>1, <3>2
  <2> QED
    BY <1>1, <1>5, <2>2, <2>3, <2>4, TablesSame
<1> QED
  BY <1>4, <1>5

\* What a user holds and has withdrawn is, at every moment, what the user's
\* orders were paid, unless a sum below zero was withdrawn: no batch, no other
\* withdrawal and no lost COMMIT makes or loses points, even where answers
\* are garbled.
THEOREM PointsConserved ==
    ASSUME InTime
    PROVE  Spec => []Conserved
<1> DEFINE Each == \A u \in Users : Balanced(u)
<1>1. Init => UnpaidInv /\ Each
  BY UnpaidInit, BalancedInit
<1>2. /\ StoreInv /\ SvcInv /\ SettleInv /\ FundsInv /\ BooksInv
      /\ UnpaidInv /\ Each /\ [Next]_vars
      => UnpaidInv' /\ Each'
  BY UnpaidStep, BalancedStep
<1>3. Each => Conserved
  BY DEF Conserved, Balanced, AccrualsOf
<1>4. Spec => [](FundsInv /\ BooksInv)
  BY UsesStore, BooksKept, PTL DEF StoreUsedAsSpecified
<1> HIDE DEF Each
<1> QED
  BY <1>1, <1>2, <1>3, <1>4, SettlesInTime, PTL DEF Spec
=============================================================================
