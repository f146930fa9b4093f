-------------------------- MODULE WorkerPoolProofs --------------------------
(***************************************************************************)
(* What is proved about WorkerPool for every number of workers and orders: *)
(* its safety properties, by the inductive invariant PoolInv, and that it  *)
(* implements the abstract cycle of Cycle.tla.                             *)
(***************************************************************************)
EXTENDS WorkerPool, FiniteSetTheorems, TLAPS

LEMMA NobodyIsNoOrder == Nobody \notin Orders
  BY DEF Nobody, Orders

LEMMA PoolInit == Init => TypeOK /\ PoolInv
  BY NobodyIsNoOrder, PoolAssumption
     DEF Init, TypeOK, PoolInv, Apart, Somewhere, EndsInOrder, Came, Queued

\* What a step is: one of the actions, or nothing happens.
LEMMA StepCases ==
    ASSUME [Next]_vars
    PROVE  \/ Cancel
           \/ \E o \in Orders : TakeOrder(o)
           \/ SendJob
           \/ CloseJobs
           \/ \E w \in Workers : ReceiveJob(w)
           \/ \E w \in Workers : WorkerEnds(w)
           \/ \E w \in Workers : Ask(w) \/ Returns(w)
           \/ \E w \in Workers : SendResult(w)
           \/ CloseResults
           \/ \E r \in Orders : Collect(r)
           \/ Return
           \/ UNCHANGED vars
  BY DEF Next

LEMMA TypeStep ==
    ASSUME TypeOK, EndsInOrder, [Next]_vars
    PROVE  TypeOK'
<1> USE NobodyIsNoOrder DEF TypeOK, senderVars, workerVars, collectorVars
<1>1. CASE Cancel
  BY <1>1 DEF Cancel
<1>2. ASSUME NEW o \in Orders, TakeOrder(o)
      PROVE  TypeOK'
  BY <1>2 DEF TakeOrder, First
<1>3. CASE SendJob
  BY <1>3 DEF SendJob
<1>4. CASE CloseJobs
  BY <1>4 DEF CloseJobs
<1>5. ASSUME NEW w \in Workers, ReceiveJob(w)
      PROVE  TypeOK'
  BY <1>5 DEF ReceiveJob, First
<1>6. ASSUME NEW w \in Workers, WorkerEnds(w)
      PROVE  TypeOK'
  BY <1>6 DEF WorkerEnds
<1>7. ASSUME NEW w \in Workers, Ask(w) \/ Returns(w)
      PROVE  TypeOK'
  BY <1>7 DEF Ask, Returns
<1>8. ASSUME NEW w \in Workers, SendResult(w)
      PROVE  TypeOK'
  BY <1>8 DEF SendResult, EndsInOrder
<1>9. CASE CloseResults
  BY <1>9 DEF CloseResults
<1>10. ASSUME NEW r \in Orders, Collect(r)
      PROVE  TypeOK'
  BY <1>10 DEF Collect
<1>11. CASE Return
  BY <1>11 DEF Return
<1>12. CASE UNCHANGED vars
  BY <1>12 DEF vars
<1> QED
  BY StepCases, <1>1, <1>2, <1>3, <1>4, <1>5, <1>6,
     <1>7, <1>8, <1>9, <1>10, <1>11, <1>12

\* An order moves from one place to the next.
LEMMA ApartStep ==
    ASSUME TypeOK, Apart, EndsInOrder, [Next]_vars
    PROVE  Apart'
<1> USE NobodyIsNoOrder
    DEF TypeOK, Apart, EndsInOrder, Came, Queued, senderVars, workerVars,
        collectorVars
<1>1. CASE Cancel
  BY <1>1 DEF Cancel
<1>2. ASSUME NEW o \in Orders, TakeOrder(o)
      PROVE  Apart'
  BY <1>2 DEF TakeOrder, First
<1>3. CASE SendJob
  BY <1>3 DEF SendJob
<1>4. CASE CloseJobs
  BY <1>4 DEF CloseJobs
<1>5. ASSUME NEW w \in Workers, ReceiveJob(w)
      PROVE  Apart'
  BY <1>5 DEF ReceiveJob, First
<1>6. ASSUME NEW w \in Workers, WorkerEnds(w)
      PROVE  Apart'
  BY <1>6 DEF WorkerEnds
<1>7. ASSUME NEW w \in Workers, Ask(w) \/ Returns(w)
      PROVE  Apart'
  BY <1>7 DEF Ask, Returns
<1>8. ASSUME NEW w \in Workers, SendResult(w)
      PROVE  Apart'
  BY <1>8 DEF SendResult
<1>9. CASE CloseResults
  BY <1>9 DEF CloseResults
<1>10. ASSUME NEW r \in Orders, Collect(r)
      PROVE  Apart'
  BY <1>10 DEF Collect
<1>11. CASE Return
  BY <1>11 DEF Return
<1>12. CASE UNCHANGED vars
  BY <1>12 DEF vars
<1> QED
  BY StepCases, <1>1, <1>2, <1>3, <1>4, <1>5, <1>6,
     <1>7, <1>8, <1>9, <1>10, <1>11, <1>12

\* Only a cancelled context lets sendRun or a worker leave with orders.
LEMMA SomewhereStep ==
    ASSUME TypeOK, Apart, Somewhere, EndsInOrder, [Next]_vars
    PROVE  Somewhere'
<1> USE NobodyIsNoOrder
    DEF TypeOK, Somewhere, EndsInOrder, Came, Queued, senderVars, workerVars,
        collectorVars
<1>1. CASE Cancel
  BY <1>1 DEF Cancel
<1>2. ASSUME NEW o \in Orders, TakeOrder(o)
      PROVE  Somewhere'
  BY <1>2 DEF TakeOrder, First
<1>3. CASE SendJob
  BY <1>3 DEF SendJob
<1>4. CASE CloseJobs
  BY <1>4 DEF CloseJobs
<1>5. ASSUME NEW w \in Workers, ReceiveJob(w)
      PROVE  Somewhere'
  <2>1. PICK o \in jobs : jobs' = jobs \ {o} /\ job' = [job EXCEPT ![w] = o]
    BY <1>5 DEF ReceiveJob, First
  <2>2. job[w] = Nobody /\ job'[w] = o
    BY <1>5, <2>1 DEF ReceiveJob
  <2>3. \A v \in Workers : v # w => job'[v] = job[v]
    BY <2>1
  <2>4. cancelled' = cancelled /\ todo' = todo /\ sending' = sending
          /\ results' = results /\ collected' = collected
    BY <1>5 DEF ReceiveJob
  <2> QED
    BY <2>1, <2>2, <2>3, <2>4
<1>6. ASSUME NEW w \in Workers, WorkerEnds(w)
      PROVE  Somewhere'
  BY <1>6 DEF WorkerEnds
<1>7. ASSUME NEW w \in Workers, Ask(w) \/ Returns(w)
      PROVE  Somewhere'
  BY <1>7 DEF Ask, Returns
<1>8. ASSUME NEW w \in Workers, SendResult(w)
      PROVE  Somewhere'
  <2>1. job[w] \in results' /\ \A v \in Workers : v # w => job'[v] = job[v]
    BY <1>8 DEF SendResult
  <2>2. cancelled' = cancelled /\ todo' = todo /\ sending' = sending
          /\ jobs' = jobs /\ collected' = collected /\ results \subseteq results'
    BY <1>8 DEF SendResult
  <2> QED
    BY <2>1, <2>2
<1>9. CASE CloseResults
  BY <1>9 DEF CloseResults
<1>10. ASSUME NEW r \in Orders, Collect(r)
      PROVE  Somewhere'
  BY <1>10 DEF Collect
<1>11. CASE Return
  BY <1>11 DEF Return
<1>12. CASE UNCHANGED vars
  BY <1>12 DEF vars
<1> QED
  BY StepCases, <1>1, <1>2, <1>3, <1>4, <1>5, <1>6,
     <1>7, <1>8, <1>9, <1>10, <1>11, <1>12

\* A stage is over only when the one before it is.
LEMMA EndsInOrderStep ==
    ASSUME TypeOK, Apart, EndsInOrder, [Next]_vars
    PROVE  EndsInOrder'
<1> USE NobodyIsNoOrder
    DEF TypeOK, EndsInOrder, senderVars, workerVars, collectorVars
<1>1. CASE Cancel
  BY <1>1 DEF Cancel
<1>2. ASSUME NEW o \in Orders, TakeOrder(o)
      PROVE  EndsInOrder'
  BY <1>2 DEF TakeOrder, First
<1>3. CASE SendJob
  BY <1>3 DEF SendJob
<1>4. CASE CloseJobs
  BY <1>4 DEF CloseJobs
<1>5. ASSUME NEW w \in Workers, ReceiveJob(w)
      PROVE  EndsInOrder'
  BY <1>5 DEF ReceiveJob, First
<1>6. ASSUME NEW w \in Workers, WorkerEnds(w)
      PROVE  EndsInOrder'
  BY <1>6 DEF WorkerEnds
<1>7. ASSUME NEW w \in Workers, Ask(w) \/ Returns(w)
      PROVE  EndsInOrder'
  BY <1>7 DEF Ask, Returns
<1>8. ASSUME NEW w \in Workers, SendResult(w)
      PROVE  EndsInOrder'
  BY <1>8 DEF SendResult
<1>9. CASE CloseResults
  BY <1>9 DEF CloseResults
<1>10. ASSUME NEW r \in Orders, Collect(r)
      PROVE  EndsInOrder'
  BY <1>10 DEF Collect
<1>11. CASE Return
  BY <1>11 DEF Return
<1>12. CASE UNCHANGED vars
  BY <1>12 DEF vars
<1> QED
  BY StepCases, <1>1, <1>2, <1>3, <1>4, <1>5, <1>6,
     <1>7, <1>8, <1>9, <1>10, <1>11, <1>12

LEMMA PoolStep ==
    ASSUME TypeOK, PoolInv, [Next]_vars
    PROVE  TypeOK' /\ PoolInv'
  BY TypeStep, ApartStep, SomewhereStep, EndsInOrderStep DEF PoolInv

\* Where the orders of a cycle are, and which stage of the cycle ends when.
THEOREM PoolCorrect == Spec => [](TypeOK /\ PoolInv)
<1>1. Init => TypeOK /\ PoolInv
  BY PoolInit
<1>2. TypeOK /\ PoolInv /\ [Next]_vars => (TypeOK /\ PoolInv)'
  BY PoolStep
<1> QED
  BY <1>1, <1>2, PTL DEF Spec

\* The channels hold orders of the cycle only, and so do all goroutines: no
\* worker takes the zero value from the closed channel for a job.
THEOREM PoolTyped == Spec => []TypeOK
<1>1. TypeOK /\ PoolInv => TypeOK
  OBVIOUS
<1> QED
  BY <1>1, PoolCorrect, PTL

\* A cycle that ends by itself leaves no goroutine behind.
THEOREM LeavesNothingBehind == Spec => []NothingLeftBehind
<1>1. TypeOK /\ PoolInv => NothingLeftBehind
  <2> SUFFICES ASSUME TypeOK, PoolInv, outcome = "answers", ~cancelled
               PROVE  ~jobsOpen /\ sending = Nobody
                        /\ \A w \in Workers : wpc[w] = "done"
    BY DEF NothingLeftBehind
  <2>1. \A w \in Workers : wpc[w] = "done"
    BY DEF PoolInv, EndsInOrder
  <2>2. PICK w \in Workers : wpc[w] = "done"
    BY <2>1, PoolAssumption
  <2> QED
    BY <2>1, <2>2 DEF PoolInv, EndsInOrder
<1> QED
  BY <1>1, PoolCorrect, PTL

LEMMA AllCollected ==
    ASSUME TypeOK, PoolInv, ~resultsOpen, results = {}, ~cancelled
    PROVE  collected = Orders
<1>1. \A w \in Workers : wpc[w] = "done"
  BY DEF PoolInv, EndsInOrder
<1>2. PICK w \in Workers : wpc[w] = "done"
  BY <1>1, PoolAssumption
<1>3. jobs = {} /\ todo = {} /\ sending = Nobody
  BY <1>1, <1>2 DEF PoolInv, EndsInOrder
<1>4. \A v \in Workers : job[v] = Nobody
  BY <1>1 DEF PoolInv, EndsInOrder
<1>5. \A o \in Orders : o \in collected
  BY <1>1, <1>3, <1>4, NobodyIsNoOrder DEF PoolInv, Somewhere, Queued, Came
<1> QED
  BY <1>5 DEF TypeOK

\* A cycle that ends by itself has a result for every order.
THEOREM NoResultLost == Spec => []Complete
<1>1. TypeOK /\ PoolInv => Complete
  BY AllCollected DEF Complete, PoolInv, EndsInOrder
<1> QED
  BY <1>1, PoolCorrect, PTL

-----------------------------------------------------------------------------
(***************************************************************************)
(* The refinement of Cycle.                                                *)
(***************************************************************************)

\* A worker that does not ask leaves room for a request.
LEMMA RoomToAsk ==
    ASSUME NEW w \in Workers, wpc[w] # "ask"
    PROVE  Cardinality(Asking) < Cardinality(Workers)
<1> DEFINE A == {v \in Workers : wpc[v] = "ask"}
           f == [v \in A |-> job[v]]
<1>1. /\ IsFiniteSet(A) /\ Cardinality(A) <= Cardinality(Workers)
      /\ Cardinality(A) # Cardinality(Workers)
  <2>1. A \in SUBSET Workers /\ A # Workers
    OBVIOUS
  <2> HIDE DEF A
  <2> QED
    BY <2>1, PoolAssumption, FS_Subset
<1>2. f \in Surjection(A, Asking)
  BY DEF Surjection, Asking
<1>3. IsFiniteSet(Asking) /\ Cardinality(Asking) <= Cardinality(A)
  <2> HIDE DEF A, f
  <2> QED
    BY <1>1, <1>2, FS_Surjection
<1>4. /\ Cardinality(Asking) \in Nat /\ Cardinality(A) \in Nat
      /\ Cardinality(Workers) \in Nat
  <2> HIDE DEF A
  <2> QED
    BY <1>1, <1>3, PoolAssumption, FS_CardinalityType
<1> HIDE DEF A
<1> QED
  BY <1>1, <1>3, <1>4

LEMMA CycleCardinality == \A S : OneCycle!Cardinality(S) = Cardinality(S)
  BY Zenon DEF OneCycle!Cardinality, Cardinality

\* What the workers are at decides what is asked.
LEMMA AskingSame ==
    ASSUME UNCHANGED <<wpc, job, results, collected>>
    PROVE  UNCHANGED <<Asking, Asked>>
  BY DEF Asking, Asked, Came

LEMMA CycleStep ==
    ASSUME TypeOK, PoolInv, [Next]_vars
    PROVE  [OneCycle!Next]_(OneCycle!vars)
<1> USE DEF senderVars, workerVars, collectorVars, PoolInv
<1>1. CASE UNCHANGED <<cancelled, wpc, job, results, collected, outcome>>
  BY <1>1, AskingSame DEF OneCycle!vars
<1>2. CASE Cancel
  <2>1. OneCycle!Stop
    BY <1>2, AskingSame DEF Cancel, OneCycle!Stop
  <2> QED
    BY <2>1 DEF OneCycle!Next
<1>3. ASSUME NEW w \in Workers, ReceiveJob(w)
      PROVE  UNCHANGED OneCycle!vars
  <2>1. /\ wpc[w] = "receive" /\ wpc'[w] = "check"
        /\ \A v \in Workers : v # w => wpc'[v] = wpc[v] /\ job'[v] = job[v]
        /\ UNCHANGED <<cancelled, results, collected, outcome>>
    BY <1>3 DEF ReceiveJob, TypeOK
  <2> QED
    BY <2>1 DEF OneCycle!vars, Asking, Asked, Came
<1>4. ASSUME NEW w \in Workers, WorkerEnds(w)
      PROVE  [OneCycle!Next]_(OneCycle!vars)
  <2>1. /\ wpc'[w] = "done" /\ job' = job
        /\ \A v \in Workers : v # w => wpc'[v] = wpc[v]
        /\ UNCHANGED <<cancelled, results, collected, outcome>>
    BY <1>4 DEF WorkerEnds, TypeOK
  <2>2. CASE wpc[w] # "ask"
    BY <1>4, <2>1, <2>2 DEF WorkerEnds, OneCycle!vars, Asking, Asked, Came
  <2>3. CASE wpc[w] = "ask"
    <3>1. cancelled /\ job[w] \in Orders
      BY <1>4, <2>3 DEF WorkerEnds, EndsInOrder, TypeOK
    <3>2. job[w] \in Asking /\ Asking' = Asking \ {job[w]} /\ Asked' = Asked
      BY <2>1, <2>3, <3>1, NobodyIsNoOrder DEF Asking, Asked, Came, Apart
    <3>3. OneCycle!GiveUp(job[w])
      BY <2>1, <3>1, <3>2 DEF OneCycle!GiveUp
    <3> QED
      BY <3>1, <3>3 DEF OneCycle!Next
  <2> QED
    BY <2>2, <2>3
<1>5. ASSUME NEW w \in Workers, Ask(w)
      PROVE  OneCycle!Next
  <2>1. /\ wpc[w] = "check" /\ wpc'[w] = "ask" /\ job' = job /\ ~cancelled
        /\ \A v \in Workers : v # w => wpc'[v] = wpc[v]
        /\ UNCHANGED <<cancelled, results, collected, outcome>>
    BY <1>5 DEF Ask, TypeOK
  <2>2. job[w] \in Orders /\ outcome = "none"
    BY <2>1 DEF EndsInOrder, TypeOK
  <2>3. job[w] \notin Asking \union Asked
    BY <2>1, <2>2, NobodyIsNoOrder DEF Asking, Asked, Apart
  <2>4. Asking' = Asking \union {job[w]} /\ Asked' = Asked
    BY <2>1 DEF Asking, Asked, Came
  <2>5. OneCycle!Begin(job[w])
    BY <2>1, <2>2, <2>3, <2>4, RoomToAsk, CycleCardinality DEF OneCycle!Begin
  <2> QED
    BY <2>2, <2>5 DEF OneCycle!Next
<1>6. ASSUME NEW w \in Workers, Returns(w)
      PROVE  OneCycle!Next
  <2>1. /\ wpc[w] = "ask" /\ wpc'[w] = "send" /\ job' = job
        /\ \A v \in Workers : v # w => wpc'[v] = wpc[v]
        /\ UNCHANGED <<cancelled, results, collected, outcome>>
    BY <1>6 DEF Returns, TypeOK
  <2>2. job[w] \in Orders
    BY <2>1 DEF EndsInOrder, TypeOK
  <2>3. /\ job[w] \in Asking /\ Asking' = Asking \ {job[w]}
        /\ Asked' = Asked \union {job[w]}
    BY <2>1, <2>2, NobodyIsNoOrder DEF Asking, Asked, Came, Apart
  <2>4. OneCycle!End(job[w])
    BY <2>1, <2>3 DEF OneCycle!End
  <2> QED
    BY <2>2, <2>4 DEF OneCycle!Next
<1>7. ASSUME NEW w \in Workers, SendResult(w)
      PROVE  UNCHANGED OneCycle!vars
  <2>1. /\ wpc[w] = "send" /\ wpc'[w] = "receive"
        /\ \A v \in Workers : v # w => wpc'[v] = wpc[v] /\ job'[v] = job[v]
        /\ results' = results \union {job[w]}
        /\ UNCHANGED <<cancelled, collected, outcome>>
    BY <1>7 DEF SendResult, TypeOK
  <2> QED
    BY <2>1 DEF OneCycle!vars, Asking, Asked, Came
<1>8. ASSUME NEW r \in Orders, Collect(r)
      PROVE  [OneCycle!Next]_(OneCycle!vars)
  <2>1. /\ outcome = "none" /\ r \in results /\ results' = results \ {r}
        /\ UNCHANGED <<cancelled, wpc, job>>
    BY <1>8 DEF Collect
  <2>2. Asking' = Asking
    BY <2>1 DEF Asking
  <2>3. CASE cancelled
    <3>1. outcome' = "cancelled" /\ collected' = collected
      BY <1>8, <2>3 DEF Collect
    <3>2. r \in Asked /\ Asked' = Asked \ {r}
      BY <2>1, <3>1, NobodyIsNoOrder DEF Asked, Came, Apart, EndsInOrder
    <3>3. OneCycle!BreakOff(r)
      BY <2>1, <2>2, <2>3, <3>1, <3>2 DEF OneCycle!BreakOff
    <3> QED
      BY <3>3 DEF OneCycle!Next
  <2>4. CASE ~cancelled
    <3>1. collected' = collected \union {r} /\ outcome' = outcome
      BY <1>8, <2>4 DEF Collect
    <3>2. Asked' = Asked
      BY <2>1, <3>1 DEF Asked, Came
    <3> QED
      BY <2>1, <2>2, <3>1, <3>2 DEF OneCycle!vars
  <2> QED
    BY <2>3, <2>4
<1>9. CASE Return
  <2>1. /\ outcome = "none" /\ outcome' = "answers" /\ results = {} /\ ~resultsOpen
        /\ UNCHANGED <<cancelled, wpc, job, results, collected>>
    BY <1>9 DEF Return
  <2>2. Asking = {} /\ Asked = collected
    BY <2>1 DEF EndsInOrder, Asking, Asked, Came
  <2>3. collected = Orders \/ cancelled
    BY <2>1, AllCollected
  <2>4. OneCycle!Return
    BY <2>1, <2>2, <2>3, AskingSame DEF OneCycle!Return
  <2> QED
    BY <2>4 DEF OneCycle!Next
<1>10. ASSUME NEW o \in Orders, TakeOrder(o)
       PROVE  UNCHANGED <<cancelled, wpc, job, results, collected, outcome>>
  BY <1>10 DEF TakeOrder
<1>11. CASE SendJob \/ CloseJobs \/ CloseResults \/ UNCHANGED vars
  BY <1>1, <1>11 DEF SendJob, CloseJobs, CloseResults, vars
<1> QED
  BY StepCases, <1>1, <1>2, <1>3, <1>4, <1>5, <1>6, <1>7, <1>8, <1>9, <1>10, <1>11

LEMMA CycleInit == Init => OneCycle!Init
  BY DEF Init, OneCycle!Init, Asking, Asked, Came

\* Whatever its goroutines do, the pool is a cycle that asks about every
\* order once, with no more requests at a time than workers, and returns the
\* answers when the last request has ended.
THEOREM PoolIsCycle == Spec => ImplementsCycle
<1>1. TypeOK /\ PoolInv /\ [Next]_vars => [OneCycle!Next]_(OneCycle!vars)
  BY CycleStep
<1> QED
  BY <1>1, CycleInit, PoolCorrect, PTL DEF Spec, ImplementsCycle, OneCycle!Spec
=============================================================================
