----------------------------- MODULE WorkerPool -----------------------------
(***************************************************************************)
(* How one cycle of the accrual loop asks about its orders:                *)
(* SendOrdersToAccrual of service.go and the workers of                    *)
(* httpclientpool.go.  One goroutine (sendRun) puts the orders into the    *)
(* channel jobs, the workers take them, ask the accrual system and put     *)
(* what came back into the channel results, a goroutine closes results     *)
(* when the workers have ended, and the loop collects until then.          *)
(*                                                                         *)
(* The orders of a cycle are numbered in the order sendRun takes them.     *)
(* Both channels are buffered and modelled as the set of what they hold:   *)
(* jobs gives out its least number first, as a queue filled in increasing  *)
(* order does, and nothing depends on the order of the results.            *)
(***************************************************************************)
EXTENDS Integers, FiniteSets

CONSTANTS
    N,        \* how many orders the cycle has
    Workers   \* the workers of the pool, WorkerCount = RateLimit of them

\* RateLimit is positive: with no worker nobody would receive the jobs.
ASSUME PoolAssumption == /\ N \in Nat \ {0}
                         /\ Workers # {} /\ IsFiniteSet(Workers)

Orders == 1..N
Nobody == 0

\* The number a queue of the numbers S gives out.
First(S) == {o \in S : \A p \in S : o <= p}

VARIABLES
    cancelled,  \* Stop has cancelled the context
    todo,       \* the orders sendRun has not got to
    sending,    \* the order sendRun is putting into jobs, or Nobody
    jobs,       \* the channel jobs
    jobsOpen,   \* jobs is not closed
    wpc,        \* wpc[w]: where worker w is
    job,        \* job[w]: the order worker w is at, or Nobody
    results,    \* the channel results: the orders that were asked about
    resultsOpen,\* results is not closed
    collected,  \* the results that the loop has received
    outcome     \* what SendOrdersToAccrual returned

vars == <<cancelled, todo, sending, jobs, jobsOpen, wpc, job, results,
          resultsOpen, collected, outcome>>

senderVars    == <<todo, sending, jobsOpen>>
workerVars    == <<wpc, job>>
collectorVars == <<collected, outcome>>

Capacity == 2 * Cardinality(Workers)

Init ==
    /\ cancelled   = FALSE
    /\ todo        = Orders
    /\ sending     = Nobody
    /\ jobs        = {}
    /\ jobsOpen    = TRUE
    /\ wpc         = [w \in Workers |-> "receive"]
    /\ job         = [w \in Workers |-> Nobody]
    /\ results     = {}
    /\ resultsOpen = TRUE
    /\ collected   = {}
    /\ outcome     = "none"

\* Stop of the accrual client.
Cancel == /\ ~cancelled
          /\ cancelled' = TRUE
          /\ UNCHANGED <<senderVars, jobs, workerVars, results, resultsOpen,
                         collectorVars>>

-----------------------------------------------------------------------------
(***************************************************************************)
(* sendRun.                                                                *)
(***************************************************************************)

\* The context is looked at before an order is sent, not while it waits for
\* room in the channel.
TakeOrder(o) ==
    /\ jobsOpen /\ sending = Nobody /\ ~cancelled
    /\ o \in First(todo)
    /\ sending' = o
    /\ todo' = todo \ {o}
    /\ UNCHANGED <<cancelled, jobs, jobsOpen, workerVars, results,
                   resultsOpen, collectorVars>>

SendJob ==
    /\ sending # Nobody
    /\ Cardinality(jobs) < Capacity
    /\ jobs' = jobs \union {sending}
    /\ sending' = Nobody
    /\ UNCHANGED <<cancelled, todo, jobsOpen, workerVars, results,
                   resultsOpen, collectorVars>>

\* Mutant: jobs is closed on the way out of a cancelled cycle only.
CloseJobsOnCancel ==
    /\ jobsOpen /\ sending = Nobody
    /\ cancelled
    /\ jobsOpen' = FALSE
    /\ UNCHANGED <<cancelled, todo, sending, jobs, workerVars, results,
                   resultsOpen, collectorVars>>

CloseJobs ==
    /\ jobsOpen /\ sending = Nobody
    /\ todo = {} \/ cancelled
    /\ jobsOpen' = FALSE
    /\ UNCHANGED <<cancelled, todo, sending, jobs, workerVars, results,
                   resultsOpen, collectorVars>>

-----------------------------------------------------------------------------
(***************************************************************************)
(* workerPlain.                                                            *)
(***************************************************************************)

\* Mutant: j := <-jobs, which gives a zero job when jobs is closed.
ReceiveJobOrZero(w) ==
    /\ wpc[w] = "receive"
    /\ \/ \E o \in First(jobs) :
             /\ jobs' = jobs \ {o}
             /\ job'  = [job EXCEPT ![w] = o]
       \/ jobs = {} /\ ~jobsOpen /\ UNCHANGED <<jobs, job>>
    /\ wpc' = [wpc EXCEPT ![w] = "check"]
    /\ UNCHANGED <<cancelled, senderVars, results, resultsOpen, collectorVars>>

ReceiveJob(w) ==
    /\ wpc[w] = "receive"
    /\ \E o \in First(jobs) :
          /\ jobs' = jobs \ {o}
          /\ job'  = [job EXCEPT ![w] = o]
    /\ wpc' = [wpc EXCEPT ![w] = "check"]
    /\ UNCHANGED <<cancelled, senderVars, results, resultsOpen, collectorVars>>

\* Mutant: the worker leaves on every error of a request.
WorkerEndsOnError(w) ==
    /\ \/ wpc[w] = "receive" /\ jobs = {} /\ ~jobsOpen
       \/ wpc[w] = "check" /\ cancelled
       \/ wpc[w] = "ask"
    /\ wpc' = [wpc EXCEPT ![w] = "done"]
    /\ UNCHANGED <<cancelled, senderVars, jobs, job, results, resultsOpen,
                   collectorVars>>

\* Mutant: the request is made without the context.
WorkerEndsUnasked(w) ==
    /\ \/ wpc[w] = "receive" /\ jobs = {} /\ ~jobsOpen
       \/ wpc[w] = "check" /\ cancelled
    /\ wpc' = [wpc EXCEPT ![w] = "done"]
    /\ UNCHANGED <<cancelled, senderVars, jobs, job, results, resultsOpen,
                   collectorVars>>

\* The worker leaves: no more jobs, or the context is done when it looks, or
\* the request was cancelled.
WorkerEnds(w) ==
    /\ \/ wpc[w] = "receive" /\ jobs = {} /\ ~jobsOpen
       \/ wpc[w] \in {"check", "ask"} /\ cancelled
    /\ wpc' = [wpc EXCEPT ![w] = "done"]
    /\ UNCHANGED <<cancelled, senderVars, jobs, job, results, resultsOpen,
                   collectorVars>>

Ask(w) ==
    /\ wpc[w] = "check" /\ ~cancelled
    /\ wpc' = [wpc EXCEPT ![w] = "ask"]
    /\ UNCHANGED <<cancelled, senderVars, jobs, job, results, resultsOpen,
                   collectorVars>>

\* Mutant: a request that has failed may be made again.
ReturnsOrRetries(w) ==
    /\ wpc[w] = "ask"
    /\ \E next \in {"send", "check"} : wpc' = [wpc EXCEPT ![w] = next]
    /\ UNCHANGED <<cancelled, senderVars, jobs, job, results, resultsOpen,
                   collectorVars>>

\* The request returns.  There is no timeout: it may take for ever.
Returns(w) ==
    /\ wpc[w] = "ask"
    /\ wpc' = [wpc EXCEPT ![w] = "send"]
    /\ UNCHANGED <<cancelled, senderVars, jobs, job, results, resultsOpen,
                   collectorVars>>

\* What came back, a transport error too, goes to the loop.
SendResult(w) ==
    /\ wpc[w] = "send"
    /\ Cardinality(results) < Capacity
    /\ results' = results \union {job[w]}
    /\ wpc' = [wpc EXCEPT ![w] = "receive"]
    /\ job' = [job EXCEPT ![w] = Nobody]
    /\ UNCHANGED <<cancelled, senderVars, jobs, resultsOpen, collectorVars>>

\* Mutant: results is closed when jobs is.
CloseResultsEarly ==
    /\ resultsOpen
    /\ ~jobsOpen
    /\ resultsOpen' = FALSE
    /\ UNCHANGED <<cancelled, senderVars, jobs, workerVars, results,
                   collectorVars>>

\* wg.Wait returns.
CloseResults ==
    /\ resultsOpen
    /\ \A w \in Workers : wpc[w] = "done"
    /\ resultsOpen' = FALSE
    /\ UNCHANGED <<cancelled, senderVars, jobs, workerVars, results,
                   collectorVars>>

-----------------------------------------------------------------------------
(***************************************************************************)
(* The collecting loop of SendOrdersToAccrual.                             *)
(***************************************************************************)

\* A result is received; then the context is looked at.
Collect(r) ==
    /\ outcome = "none"
    /\ r \in results
    /\ results' = results \ {r}
    /\ IF cancelled
       THEN outcome' = "cancelled" /\ UNCHANGED collected
       ELSE collected' = collected \union {r} /\ UNCHANGED outcome
    /\ UNCHANGED <<cancelled, senderVars, jobs, workerVars, resultsOpen>>

\* Mutant: the loop counts the results and returns.
ReturnWhenCounted ==
    /\ outcome = "none"
    /\ collected = Orders
    /\ outcome' = "answers"
    /\ UNCHANGED <<cancelled, senderVars, jobs, workerVars, results,
                   resultsOpen, collected>>

Return ==
    /\ outcome = "none"
    /\ results = {} /\ ~resultsOpen
    /\ outcome' = "answers"
    /\ UNCHANGED <<cancelled, senderVars, jobs, workerVars, results,
                   resultsOpen, collected>>

Next ==
    \/ Cancel
    \/ \E o \in Orders : TakeOrder(o)
    \/ SendJob
    \/ CloseJobs
    \/ \E w \in Workers : \/ ReceiveJob(w)
                          \/ WorkerEnds(w)
                          \/ Ask(w)
                          \/ Returns(w)
                          \/ SendResult(w)
    \/ CloseResults
    \/ \E r \in Orders : Collect(r)
    \/ Return

Spec == Init /\ [][Next]_vars

\* The Go scheduler runs every goroutine that can go on; a request that
\* waits for the accrual system may wait for ever.
Fairness ==
    /\ WF_vars(\E o \in Orders : TakeOrder(o))
    /\ WF_vars(SendJob)
    /\ WF_vars(CloseJobs)
    /\ \A w \in Workers :
          /\ WF_vars(ReceiveJob(w))
          /\ WF_vars(WorkerEnds(w))
          /\ WF_vars(Ask(w))
          /\ WF_vars(SendResult(w))
    /\ WF_vars(CloseResults)
    /\ WF_vars(\E r \in Orders : Collect(r))
    /\ WF_vars(Return)

FairSpec == Spec /\ Fairness

-----------------------------------------------------------------------------
(***************************************************************************)
(* Properties.                                                             *)
(***************************************************************************)

TypeOK ==
    /\ cancelled \in BOOLEAN
    /\ todo \subseteq Orders
    /\ sending \in Orders \union {Nobody}
    /\ jobs \subseteq Orders
    /\ jobsOpen \in BOOLEAN
    /\ wpc \in [Workers -> {"receive", "check", "ask", "send", "done"}]
    /\ job \in [Workers -> Orders \union {Nobody}]
    /\ results \subseteq Orders
    /\ resultsOpen \in BOOLEAN
    /\ collected \subseteq Orders
    /\ outcome \in {"none", "answers", "cancelled"}

\* A cycle that was not cancelled returns a result for every order: none is
\* lost in a channel that is closed or in a worker that leaves.
Complete == outcome = "answers" /\ ~cancelled => collected = Orders

\* Nothing of a cycle that was not cancelled outlives it: a goroutine that
\* stays behind in every cycle would exhaust the process.
NothingLeftBehind ==
    outcome = "answers" /\ ~cancelled =>
        ~jobsOpen /\ sending = Nobody /\ \A w \in Workers : wpc[w] = "done"

(***************************************************************************)
(* Why Complete and NothingLeftBehind hold: an inductive invariant.        *)
(***************************************************************************)

Came   == results \union collected
Queued == todo \union jobs \union {sending}

\* An order is in one place only: nobody asks about it twice.
Apart ==
    /\ todo \intersect jobs = {} /\ sending \notin todo \union jobs
    /\ results \intersect collected = {}
    /\ Came \intersect Queued = {}
    /\ \A w \in Workers : job[w] # Nobody => job[w] \notin Queued \union Came
    /\ \A v, w \in Workers : job[v] = job[w] /\ job[v] # Nobody => v = w

\* An order is somewhere, as long as the context is not cancelled.
Somewhere ==
    ~cancelled => \A o \in Orders :
        o \in Queued \union Came \/ \E w \in Workers : job[w] = o

\* The stages end one after the other: sendRun, the workers, the channel
\* results, the loop.  No worker that may still send meets a closed results,
\* which would end the process.
EndsInOrder ==
    /\ \A w \in Workers : /\ wpc[w] = "receive" => job[w] = Nobody
                          /\ wpc[w] \in {"check", "ask", "send"} =>
                               job[w] # Nobody
    /\ ~jobsOpen => sending = Nobody
    /\ ~resultsOpen => \A w \in Workers : wpc[w] = "done"
    /\ outcome = "answers" => results = {} /\ ~resultsOpen
    /\ outcome = "cancelled" => cancelled
    /\ ~cancelled => /\ ~jobsOpen => todo = {}
                     /\ \A w \in Workers : wpc[w] = "done" =>
                           job[w] = Nobody /\ jobs = {} /\ ~jobsOpen

PoolInv == Apart /\ Somewhere /\ EndsInOrder

\* Stop waits for the loop: once the context is cancelled the loop returns,
\* whatever the accrual system does and however full the channels are.
StopReturns == cancelled ~> outcome # "none"

\* If every request returns, the cycle returns.
CycleReturns ==
    (\A w \in Workers : wpc[w] = "ask" ~> wpc[w] # "ask")
        => <>(outcome # "none")

\* The orders whose request is under way, and those whose request has ended.
Asking == {job[w] : w \in {v \in Workers : wpc[v] = "ask"}}
Asked  == Came \union {job[w] : w \in {v \in Workers : wpc[v] = "send"}}

\* The pool keeps the promise of Cycle.tla: however its goroutines and
\* channels run, no order is asked about twice, no more requests are under
\* way than there are workers, and the loop waits for the last of them.
OneCycle ==
    INSTANCE Cycle WITH
        Limit   <- Cardinality(Workers),
        stopped <- cancelled,
        asking  <- Asking,
        asked   <- Asked

ImplementsCycle == OneCycle!Spec
=============================================================================
