----------------------------- MODULE Gophermart -----------------------------
(***************************************************************************)
(* The service: the handlers of POST /api/user/orders and POST             *)
(* /api/user/balance/withdraw, the loop that asks the accrual system about *)
(* the orders and pays their accruals, and the accrual system as the loop  *)
(* sees it, on top of the store of PgStore.tla.                            *)
(*                                                                         *)
(* A handler ends with an HTTP code in `reply`; the code is decided by the *)
(* error the store returned, through the errors of service.go.             *)
(***************************************************************************)
EXTENDS PgStore

CONSTANTS
    Malformed,  \* order numbers that do not parse or fail the Luhn check
    Garbled,    \* orders the accrual system answers with a broken body
    Stages,     \* the states it reports on the way
    Rewards,    \* the accruals it may calculate
    InTime,     \* a lost COMMIT is decided before the loop polls again
    Restarts    \* the process may die and be started again

ASSUME GophermartAssumption ==
    /\ Malformed \subseteq OrderIds /\ Garbled \subseteq OrderIds
    /\ Stages \subseteq Statuses \ {"NEW"}
    /\ Rewards \subseteq Nat
    /\ \A s \in Stages \union {""} : [status |-> s, accrual |-> 0] \in Updates
    /\ \A r \in Rewards : [status |-> "PROCESSED", accrual |-> r] \in Updates
    /\ MaxAccrual \notin Nat
    /\ InTime \in BOOLEAN /\ Restarts \in BOOLEAN

VARIABLES
    looking,   \* looking[h]: the order whose owner RegisterOrder looks up
    reply,     \* reply[h]: the last answer of handler h
    polling,   \* the loop is asking the accrual system
    snap,      \* the rows GetOrdersForProcessing returned
    asked,     \* the orders of snap whose request has ended
    answers,   \* the answers with code 200, as rows
    accrual    \* the accrual system: order -> [status, accrual]

svcVars  == <<looking, reply>>
loopVars == <<polling, snap, asked, answers>>
vars     == <<pgVars, svcVars, loopVars, accrual>>

Final == {"INVALID", "PROCESSED"}
Rank  == [s \in Statuses |-> CASE s = "NEW"        -> 0
                               [] s = "REGISTERED" -> 1
                               [] s = "PROCESSING" -> 2
                               [] s \in Final      -> 3]

\* The accrual system has not heard of the order: it answers 204.
Unknown == [status |-> "NEW", accrual |-> 0]

Init ==
    /\ PgInit
    /\ looking  = [h \in Handlers |-> NoRow]
    /\ reply    = [h \in Handlers |-> NoRow]
    /\ polling  = FALSE
    /\ snap     = NoOrders
    /\ asked    = {}
    /\ answers  = NoOrders
    /\ accrual  = [o \in OrderIds |-> Unknown]

Answer(h, op, u, o, code) ==
    reply' = [reply EXCEPT ![h] =
                [op |-> op, user |-> u, order |-> o, code |-> code]]

Idle(h) == pc[h] = "idle" /\ looking[h] = NoRow

-----------------------------------------------------------------------------
(***************************************************************************)
(* POST /api/user/orders: RegisterOrder.                                   *)
(***************************************************************************)

OrderAccepted(h, u, o) ==
    /\ Idle(h)
    /\ o \notin Malformed
    /\ InsertOrder(h, u, o)
    /\ Answer(h, "order", u, o, 202)
    /\ UNCHANGED <<looking, loopVars, accrual>>

OrderRejected(h, u, o) ==
    /\ Idle(h)
    /\ o \in Malformed
    /\ Answer(h, "order", u, o, 422)
    /\ UNCHANGED <<pgVars, looking, loopVars, accrual>>

\* InsertOrder returns ErrAlreadyExists: the row is read to find its owner.
OrderExists(h, u, o) ==
    /\ Idle(h)
    /\ o \notin Malformed
    /\ Connected
    /\ OrderFree(h, o)
    /\ orders[o] # NoRow
    /\ looking' = [looking EXCEPT ![h] = [user |-> u, order |-> o]]
    /\ UNCHANGED <<pgVars, reply, loopVars, accrual>>

\* Mutant: the two codes are swapped.
GetOneOrderSwapped(h) ==
    LET u == looking[h].user
        o == looking[h].order
    IN  /\ looking[h] # NoRow
        /\ Connected
        /\ Answer(h, "order", u, o, IF orders[o].user = u THEN 409 ELSE 200)
        /\ looking' = [looking EXCEPT ![h] = NoRow]
        /\ UNCHANGED <<pgVars, loopVars, accrual>>

GetOneOrder(h) ==
    LET u == looking[h].user
        o == looking[h].order
    IN  /\ looking[h] # NoRow
        /\ Connected
        /\ Answer(h, "order", u, o, IF orders[o].user = u THEN 200 ELSE 409)
        /\ looking' = [looking EXCEPT ![h] = NoRow]
        /\ UNCHANGED <<pgVars, loopVars, accrual>>

OrderFails(h, u, o) ==
    /\ Idle(h)
    /\ o \notin Malformed
    /\ InsertOrderFails(h, u, o)
    /\ Answer(h, "order", u, o, 500)
    /\ UNCHANGED <<looking, loopVars, accrual>>

LookupFails(h) ==
    /\ looking[h] # NoRow
    /\ Fault
    /\ Answer(h, "order", looking[h].user, looking[h].order, 500)
    /\ looking' = [looking EXCEPT ![h] = NoRow]
    /\ UNCHANGED <<tables, written, pc, arg, batch, credited, overlap,
                   loopVars, accrual>>

-----------------------------------------------------------------------------
(***************************************************************************)
(* POST /api/user/balance/withdraw: PostWithdraw.                          *)
(***************************************************************************)

WithdrawRejected(h, u, o) ==
    /\ Idle(h)
    /\ o \in Malformed
    /\ Answer(h, "withdraw", u, o, 422)
    /\ UNCHANGED <<pgVars, looking, loopVars, accrual>>

PostWithdraw(h, u, o, m) ==
    /\ Idle(h)
    /\ o \notin Malformed
    /\ InsertWithdraw(h, u, o, m)
    /\ reply' = [reply EXCEPT ![h] = NoRow]
    /\ UNCHANGED <<looking, loopVars, accrual>>

WithdrawStatement(h) ==
    /\ SelectEnough(h) \/ DecBalance(h) \/ InsertWithdrawal(h)
    /\ UNCHANGED <<svcVars, loopVars, accrual>>

\* How InsertWithdraw returns, and the code that mainPagePostWithdraw gives.
WithdrawAnswered(h) ==
    /\ \/ Commit(h) /\ Answer(h, "withdraw", arg[h].user, arg[h].order, 200)
       \/ /\ SelectNotEnough(h)
          /\ Answer(h, "withdraw", arg[h].user, arg[h].order, 402)
       \/ /\ WithdrawalExists(h)
          /\ Answer(h, "withdraw", arg[h].user, arg[h].order, 500)
    /\ UNCHANGED <<looking, loopVars, accrual>>

\* The zero balance of a SELECT that failed does not cover a positive sum.
WithdrawFails(h) ==
    /\ \/ SelectFails(h) /\ Answer(h, "withdraw", arg[h].user, arg[h].order,
                                   IF arg[h].sum > 0 THEN 402 ELSE 500)
       \/ /\ Fail(h) \/ LoseCommit(h)
          /\ Answer(h, "withdraw", arg[h].user, arg[h].order, 500)
    /\ UNCHANGED <<looking, loopVars, accrual>>

-----------------------------------------------------------------------------
(***************************************************************************)
(* The accrual loop, mainAccrual.  A cycle reads the unfinished orders,    *)
(* asks about each of them and writes the answers that bring news.         *)
(***************************************************************************)

\* Mutant: only new orders are asked about.
UnfinishedNew == {o \in Present(orders) : orders[o].status = "NEW"}

Unfinished == {o \in Present(orders) :
                  orders[o].status \in {"NEW", "REGISTERED", "PROCESSING"}}

\* Mutant: a cycle begins by the clock.
GetOrdersByTheClock ==
    /\ ~polling
    /\ Connected
    /\ InTime => pc[Zombie] = "idle"
    /\ Unfinished # {}
    /\ polling' = TRUE
    /\ snap'    = [o \in OrderIds |-> IF o \in Unfinished THEN orders[o]
                                                          ELSE NoRow]
    /\ asked'   = {}
    /\ answers' = NoOrders
    /\ UNCHANGED <<pgVars, svcVars, accrual>>

\* The cycle begins when the one before is over: its batch has returned.
GetOrdersForProcess ==
    /\ ~polling
    /\ pc[Loop] = "idle"
    /\ Connected
    /\ InTime => pc[Zombie] = "idle"
    /\ Unfinished # {}
    /\ polling' = TRUE
    /\ snap'    = [o \in OrderIds |-> IF o \in Unfinished THEN orders[o]
                                                          ELSE NoRow]
    /\ asked'   = {}
    /\ answers' = NoOrders
    /\ UNCHANGED <<pgVars, svcVars, accrual>>

\* Mutant: a worker sends what another one has read.
AnswerComesMixed(o) ==
    /\ polling
    /\ o \in Present(snap) \ asked
    /\ asked' = asked \union {o}
    /\ \E p \in Present(snap) :
          /\ accrual[p] # Unknown
          /\ answers' = [answers EXCEPT ![o] =
                [user    |-> snap[o].user,
                 status  |-> accrual[p].status,
                 accrual |-> accrual[p].accrual]]
    /\ UNCHANGED <<pgVars, svcVars, polling, snap, accrual>>

\* Mutant: the result does not carry the job's order, its user is lost.
AnswerComesUnowned(o) ==
    /\ polling
    /\ o \in Present(snap) \ asked
    /\ accrual[o] # Unknown
    /\ asked' = asked \union {o}
    /\ \E u \in Users :
          answers' = [answers EXCEPT ![o] =
             [user    |-> u,
              status  |-> accrual[o].status,
              accrual |-> accrual[o].accrual]]
    /\ UNCHANGED <<pgVars, svcVars, polling, snap, accrual>>

\* What a worker makes of the body of an answer 200.  Of a body that cannot
\* be decoded it keeps the fields read so far and zero values for the rest:
\* nobody looks at result.err.
Read(o) == IF o \in Garbled
           THEN {[status |-> "", accrual |-> 0],
                 [status |-> accrual[o].status, accrual |-> 0]}
           ELSE {accrual[o]}

\* A worker has the answer 200 of the accrual system about order o.
AnswerComes(o) ==
    /\ polling
    /\ o \in Present(snap) \ asked
    /\ accrual[o] # Unknown
    /\ asked' = asked \union {o}
    /\ \E a \in Read(o) :
          answers' = [answers EXCEPT ![o] = [user    |-> snap[o].user,
                                             status  |-> a.status,
                                             accrual |-> a.accrual]]
    /\ UNCHANGED <<pgVars, svcVars, polling, snap, accrual>>

\* The codes 204, 429 and 500, and requests that fail, bring no news.
NoAnswer(o) ==
    /\ polling
    /\ o \in Present(snap) \ asked
    /\ asked' = asked \union {o}
    /\ UNCHANGED <<pgVars, svcVars, polling, snap, answers, accrual>>

\* The answers whose status differs from the one that was read.
News == [o \in OrderIds |->
           IF answers[o] # NoRow /\ answers[o].status # snap[o].status
           THEN answers[o] ELSE NoRow]

\* Mutant: the next cycle finds the answers of this one.
EndOfCycleKeeps ==
    /\ polling' = FALSE
    /\ snap'    = NoOrders
    /\ UNCHANGED <<asked, answers, svcVars, accrual>>

EndOfCycle ==
    /\ polling' = FALSE
    /\ snap'    = NoOrders
    /\ asked'   = {}
    /\ answers' = NoOrders
    /\ UNCHANGED <<svcVars, accrual>>

UpdateOrdersAndBalances ==
    /\ polling
    /\ asked = Present(snap)
    /\ News # NoOrders
    /\ UpdateOrdersBalancesBatch(News)
    /\ EndOfCycle

NothingNew ==
    /\ polling
    /\ asked = Present(snap)
    /\ News = NoOrders
    /\ EndOfCycle
    /\ UNCHANGED pgVars

LoopStatement(o) == /\ BatchStatement(o)
                    /\ UNCHANGED <<svcVars, loopVars, accrual>>

LoopCommit == /\ Commit(Loop)
              /\ UNCHANGED <<svcVars, loopVars, accrual>>

\* The error of UpdateOrdersBalancesBatch is logged, the next cycle asks again.
LoopFails == /\ Fail(Loop) \/ LoseCommit(Loop)
             /\ UNCHANGED <<svcVars, loopVars, accrual>>

ServerFinishes == /\ LateCommit \/ LateAbort
                  /\ UNCHANGED <<svcVars, loopVars, accrual>>

-----------------------------------------------------------------------------
(***************************************************************************)
(* Outside the process: the accrual system, and a restart.                 *)
(***************************************************************************)

\* The calculation of an order goes on; an accrual comes with PROCESSED, and
\* the last state is final.
Calculate(o) ==
    /\ \E s \in Stages :
          /\ Rank[s] > Rank[accrual[o].status]
          /\ \E r \in IF s = "PROCESSED" THEN Rewards ELSE {0} :
                accrual' = [accrual EXCEPT ![o] = [status  |-> s,
                                                   accrual |-> r]]
    /\ UNCHANGED <<pgVars, svcVars, loopVars>>

RestartProcess ==
    /\ Restarts
    /\ Restart
    /\ looking' = [h \in Handlers |-> NoRow]
    /\ reply'   = [h \in Handlers |-> NoRow]
    /\ polling' = FALSE
    /\ snap'    = NoOrders
    /\ asked'   = {}
    /\ answers' = NoOrders
    /\ UNCHANGED accrual

PostOrder(h, u, o) == \/ OrderAccepted(h, u, o)
                      \/ OrderRejected(h, u, o)
                      \/ OrderExists(h, u, o)
                      \/ OrderFails(h, u, o)

Next ==
    \/ \E h \in Handlers :
          \/ \E u \in Users, o \in OrderIds :
                PostOrder(h, u, o) \/ WithdrawRejected(h, u, o)
          \/ \E u \in Users, o \in OrderIds, m \in Sums :
                PostWithdraw(h, u, o, m)
          \/ GetOneOrder(h)
          \/ LookupFails(h)
          \/ WithdrawStatement(h)
          \/ WithdrawAnswered(h)
          \/ WithdrawFails(h)
    \/ GetOrdersForProcess
    \/ \E o \in OrderIds : \/ AnswerComes(o)
                           \/ NoAnswer(o)
                           \/ LoopStatement(o)
                           \/ Calculate(o)
    \/ UpdateOrdersAndBalances
    \/ NothingNew
    \/ LoopCommit
    \/ LoopFails
    \/ ServerFinishes
    \/ RestartProcess

Spec == Init /\ [][Next]_vars

\* The steps of a request at work, and of the goroutine of the loop.
RequestStep(h) == GetOneOrder(h) \/ WithdrawStatement(h) \/ WithdrawAnswered(h)

LoopStep == \/ GetOrdersForProcess
            \/ \E o \in OrderIds : AnswerComes(o) \/ NoAnswer(o)
            \/ UpdateOrdersAndBalances
            \/ NothingNew
            \/ \E o \in OrderIds : LoopStatement(o)
            \/ LoopCommit

\* The loop and the requests at work go on; the pool gives its connections,
\* as the database its rows, in the order of arrival (strong fairness); the
\* accrual system finishes its calculation and, asked again and again, answers.
Fairness ==
    /\ \A h \in Handlers : SF_vars(RequestStep(h))
    /\ SF_vars(LoopStep)
    /\ \A o \in OrderIds : SF_vars(AnswerComes(o)) /\ WF_vars(Calculate(o))
    /\ WF_vars(ServerFinishes)

FairSpec == Spec /\ Fairness

-----------------------------------------------------------------------------
(***************************************************************************)
(* Properties.                                                             *)
(***************************************************************************)

Reply == [op : {"order", "withdraw"}, user : Users, order : OrderIds,
          code : {200, 202, 402, 409, 422, 500}]

\* The types of the service, of the loop and of the accrual system.
SvcTypeOK ==
    /\ looking  \in [Handlers -> [user : Users, order : OrderIds]
                                    \union {NoRow}]
    /\ reply    \in [Handlers -> Reply \union {NoRow}]
    /\ polling  \in BOOLEAN
    /\ snap     \in [OrderIds -> Order \union {NoRow}]
    /\ asked    \subseteq Present(snap)
    /\ Present(answers) \subseteq asked
    /\ accrual  \in [OrderIds -> [status : Statuses, accrual : Nat]]

\* Points are neither made nor lost, but by sums below zero: what a user holds
\* and has withdrawn is what the user's orders were paid.  A cycle that writes
\* an accrual twice, a batch of which one half is kept, or a credit computed
\* from a stale row would break it.
Conserved ==
    \A u \in Users : NoNegativeSum(u) =>
        Held(u).current + Held(u).withdrawn =
            SumFunction([o \in Owned(orders, u) |-> orders[o].accrual])

\* What a final order says is what the accrual system calculated for that
\* very order, and an order without a result has no accrual: answers that
\* arrive in any order from many workers are never mixed up.  (An answer that
\* cannot be decoded may settle its order without its accrual.)
SettledAsCalculated ==
    \A o \in Present(orders) \ Garbled :
        IF orders[o].status \in Final
        THEN /\ orders[o].status = accrual[o].status
             /\ orders[o].accrual = Round(accrual[o].accrual)
        ELSE orders[o].accrual = 0

\* An order only moves forward and a final one not at all, although its row
\* is written without a look at its status and snapshots and answers are old
\* when they are used; its owner never changes.
OnlyForward ==
    [][\A o \in Present(orders) : orders'[o] # NoRow =>
          /\ orders'[o].user = orders[o].user
          /\ Rank[orders'[o].status] >= Rank[orders[o].status]
          /\ orders[o].status \in Final => orders'[o] = orders[o]]_vars

\* The codes that clients were given agree with the tables, however the
\* requests were interleaved: 202 to the owner and to nobody else, 200 to
\* the owner again, 409 to others, 422 for numbers that were never stored;
\* a withdrawal answered with 200 is recorded.
RepliesAreTrue ==
    \A h \in Handlers : reply[h] # NoRow =>
        LET r == reply[h]
        IN  /\ r.op = "order" =>
                 /\ r.code \in {200, 202} => orders[r.order].user = r.user
                 /\ r.code = 409 => orders[r.order].user # r.user
                 /\ r.code = 422 => orders[r.order] = NoRow
                 /\ r.code = 202 =>
                      \A g \in Handlers \ {h} :
                         reply[g] # NoRow => reply[g] # [r EXCEPT !.user =
                                                           reply[g].user]
            /\ r.op = "withdraw" =>
                 /\ r.code = 200 => withdrawals[r.order].user = r.user
                 /\ r.code = 422 => withdrawals[r.order] = NoRow

\* The service and the loop use the store as PgStore's theorems assume: all
\* their calls are calls of PgSpec, so what holds for the store holds here.
StoreUsedAsSpecified == PgSpec

\* SPECIFICATION.md: every suitable order is paid.  An order that has been
\* accepted reaches its final state, however often requests to the accrual
\* system or a batch fail, if the accrual system answers properly about it.
EverySettled ==
    \A o \in OrderIds \ Garbled :
        orders[o] # NoRow ~> orders[o] # NoRow /\ orders[o].status \in Final
=============================================================================
