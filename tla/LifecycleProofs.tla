-------------------------- MODULE LifecycleProofs ---------------------------
(***************************************************************************)
(* That the hooks of app.go start and stop what they should in an order    *)
(* that suits those who are at work, for any number of requests and any    *)
(* size of the pool.                                                       *)
(***************************************************************************)
EXTENDS Lifecycle, TLAPS

Opened  == {"accrual", "server", "up", "shutdown", "cancel", "join", "close"}
Serving == {"up", "shutdown", "cancel", "join", "close", "exited"}

\* How far the hooks have got, and what that says of the pool, the server,
\* the loop and the requests.
InOrder ==
    /\ pool = "none" => \A c \in Callers : at[c] = "away"
    /\ phase \in Opened \union {"ping"} => pool # "none"
    /\ phase \in {"migrate", "new"} => pool = "none"
    /\ phase \in {"migrate", "new", "ping", "accrual"} =>
          \A c \in Callers : at[c] = "away"
    /\ phase \notin Serving => server = "none"
    /\ server \in {"starting", "listening"} => phase \in {"up", "exited"}
    /\ phase \in {"cancel", "join", "close"} => AtWork \subseteq outlived
    /\ phase = "close" => at[Loop] = "away"
    /\ pool = "closed" => phase \in {"close", "exited"}
    /\ refused # {} => pool = "closed"
    /\ phase = "migrate" => err = "nil"
    /\ exit # "no" <=> phase = "exited"

LifeInv == /\ LifeTypeOK
           /\ InOrder
           /\ PoolOutlivesItsUsers
           /\ NothingCutOff

LEMMA LifeInit == Init => LifeInv
<1> SUFFICES ASSUME Init PROVE LifeInv
  OBVIOUS
<1> USE DEF Init
<1>1. LifeTypeOK
  <2>1. timers \in 0..Waits
    BY LifeAssumption
  <2> QED
    BY <2>1 DEF LifeTypeOK, Outcomes
<1>2. InOrder
  BY DEF InOrder, AtWork, Callers, Opened, Serving
<1> QED
  BY <1>1, <1>2 DEF LifeInv, PoolOutlivesItsUsers, NothingCutOff

\* A hook of Start.
LEMMA StartStep ==
    ASSUME LifeInv, Start \/ StartTimeout \/ ListenAndServe
    PROVE  LifeInv'
<1> USE LifeAssumption
    DEF LifeInv, LifeTypeOK, InOrder, PoolOutlivesItsUsers, NothingCutOff,
        Callers, AtWork, Opened, Serving, Outcomes, tries, users, Exit
<1>1. CASE Migrate
  BY <1>1 DEF Migrate
<1>2. ASSUME NEW e \in Outcomes, Attempt(e)
      PROVE  LifeInv'
  BY <1>2 DEF Attempt, TriesAgain, Probed, AfterFirst
<1>3. CASE Wake
  BY <1>3 DEF Wake
<1>4. CASE StartTimeout
  BY <1>4 DEF StartTimeout
<1>5. CASE AccrualStart
  BY <1>5 DEF AccrualStart
<1>6. CASE ServerStart
  BY <1>6 DEF ServerStart
<1>7. CASE ListenAndServe
  BY <1>7 DEF ListenAndServe
<1> QED
  BY <1>1, <1>2, <1>3, <1>4, <1>5, <1>6, <1>7 DEF Start

\* A step of a request or of the loop.  The conditions on one that enters or
\* is refused are what the hooks have to see to.
LEMMA CallerStep ==
    ASSUME LifeInv, NEW c \in Callers, NEW from, NEW to,
           from \in {"away", "busy", "waiting", "using"},
           to \in {"away", "busy", "waiting", "using"},
           Moves(c, from, to), UNCHANGED pool,
           \/ UNCHANGED refused
           \/ pool = "closed" /\ refused' = refused \union {c},
           from = "away" => c # Loop /\ server = "listening"
    PROVE  LifeInv'
<1> USE LifeAssumption
    DEF LifeInv, LifeTypeOK, InOrder, PoolOutlivesItsUsers, NothingCutOff,
        Callers, AtWork, Opened, Serving, Outcomes, tries, users, Moves
<1>1. LifeTypeOK'
  OBVIOUS
<1>2. InOrder'
  OBVIOUS
<1>3. PoolOutlivesItsUsers'
  BY <1>2
<1> QED
  BY <1>1, <1>2, <1>3

\* A hook of Stop.
LEMMA StopStep ==
    ASSUME LifeInv, Shutdown \/ Stop \/ StopTimeout
    PROVE  LifeInv'
<1> USE LifeAssumption
    DEF LifeInv, LifeTypeOK, InOrder, PoolOutlivesItsUsers, NothingCutOff,
        Callers, AtWork, Opened, Serving, Outcomes, tries, users, Exit
<1>1. CASE Shutdown
  BY <1>1 DEF Shutdown
<1>2. CASE ShutdownDone
  BY <1>2 DEF ShutdownDone
<1>3. CASE ShutdownGivesUp
  BY <1>3 DEF ShutdownGivesUp
<1>4. CASE Cancel
  BY <1>4 DEF Cancel
<1>5. CASE LoopJoined
  BY <1>5 DEF LoopJoined
<1>6. CASE Closed
  BY <1>6 DEF Closed
<1>7. CASE StopTimeout
  BY <1>7 DEF StopTimeout
<1> QED
  BY <1>1, <1>2, <1>3, <1>4, <1>5, <1>6, <1>7 DEF Stop

LEMMA LifeStep == ASSUME LifeInv, [Next]_vars PROVE LifeInv'
<1>1. ASSUME NEW h \in Handlers, Request(h) \/ Answer(h)
      PROVE  LifeInv'
  BY <1>1, CallerStep, LifeAssumption DEF Request, Answer, Callers
<1>2. ASSUME NEW c \in Callers,
             Acquire(c) \/ Acquired(c) \/ Refused(c) \/ Released(c)
      PROVE  LifeInv'
  BY <1>2, CallerStep DEF Acquire, Acquired, Refused, Released
<1>3. CASE LoopGivesUp \/ LoopEnds
  BY <1>3, CallerStep DEF LoopGivesUp, LoopEnds, Callers
<1>4. CASE UNCHANGED vars
  BY <1>4 DEF vars, tries, users, LifeInv, LifeTypeOK, InOrder,
              PoolOutlivesItsUsers, NothingCutOff, AtWork
<1> QED
  BY <1>1, <1>2, <1>3, <1>4, StartStep, StopStep DEF Next

\* What the hooks of app.go have brought about, wherever they are.
THEOREM HooksInOrder == Spec => []LifeInv
<1>1. Init => LifeInv
  BY LifeInit
<1>2. LifeInv /\ [Next]_vars => LifeInv'
  BY LifeStep
<1> QED
  BY <1>1, <1>2, PTL DEF Spec

\* RetryAction never takes a wait from an empty list, and no other hook or
\* caller is anywhere it cannot be.
THEOREM LifeTyped == Spec => []LifeTypeOK
<1>1. LifeInv => LifeTypeOK
  BY DEF LifeInv
<1> QED
  BY <1>1, HooksInOrder, PTL

\* The order of the hooks in app.go, and what each Stop waits for, is enough:
\* no user of the pool is there before it or, but for the requests Shutdown
\* had to give up, after it.
THEOREM PoolThereForAll == Spec => []PoolOutlivesItsUsers
<1>1. LifeInv => PoolOutlivesItsUsers
  BY DEF LifeInv
<1> QED
  BY <1>1, HooksInOrder, PTL

\* A stop in good order cuts off no transaction, and no request but those
\* that Shutdown had to give up.
THEOREM CutsNothingOff == Spec => []NothingCutOff
<1>1. LifeInv => NothingCutOff
  BY DEF LifeInv
<1> QED
  BY <1>1, HooksInOrder, PTL
=============================================================================
