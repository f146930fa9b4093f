----------------------------- MODULE Lifecycle ------------------------------
(***************************************************************************)
(* The life of the process: migrations, the start hooks of fx in the order *)
(* of app.go (store, accrual loop, HTTP server), and their stop hooks in   *)
(* reverse, while requests and the loop use the pool of connections.       *)
(*                                                                         *)
(* The store is opened through RetryAction.  Shutdown of the HTTP server   *)
(* waits for the requests at work but gives up after ten seconds; they run *)
(* on.  fx gives all start hooks together fifteen seconds and all stop     *)
(* hooks one minute.  Durations have no measure here: what may time out    *)
(* may do so at any moment.                                                *)
(***************************************************************************)
EXTENDS Integers, FiniteSets

CONSTANTS
    Handlers, \* requests served at the same time
    Loop,     \* the goroutine mainAccrual
    PoolSize, \* connections of the pool
    Waits     \* the waits of RetryTimes

ASSUME LifeAssumption ==
    Loop \notin Handlers /\ PoolSize \in Nat /\ Waits \in Nat

Callers == Handlers \union {Loop}

VARIABLES
    phase,     \* the hook that runs, or what the process waits for
    timers,    \* the waits RetryAction has left
    err,       \* the error of RetryAction's last attempt, while it sleeps
    pool,      \* the pool of connections
    server,    \* http.Server
    cancelled, \* the context of the loop
    at,        \* at[c]: "away", "busy", "waiting" or "using" a connection
    outlived,  \* the requests Shutdown has given up
    refused,   \* who has asked a closed pool for a connection
    exit       \* how the process ended

tries == <<timers, err>>
users == <<at, outlived, refused>>
vars  == <<phase, tries, pool, server, cancelled, users, exit>>

Init ==
    /\ phase     = "migrate"
    /\ timers    = Waits
    /\ err       = "nil"
    /\ pool      = "none"
    /\ server    = "none"
    /\ cancelled = FALSE
    /\ at        = [c \in Callers |-> "away"]
    /\ outlived  = {}
    /\ refused   = {}
    /\ exit      = "no"

Exit(how) == phase' = "exited" /\ exit' = how

-----------------------------------------------------------------------------
(***************************************************************************)
(* Start.                                                                  *)
(***************************************************************************)

\* gooseUP: an error ends the process at once (Logger.Fatal).
Migrate ==
    /\ phase = "migrate"
    /\ \/ phase' = "new" /\ UNCHANGED exit
       \/ Exit("start")
    /\ UNCHANGED <<tries, pool, server, cancelled, users>>

\* What an attempt returns: nil, a PgError of class 08, or something else,
\* such as a refused connection, a timeout or 57P03 (the server is starting).
Outcomes == {"nil", "exception", "other"}

\* pgxpool.New, which connects to nothing, is tried again after every error
\* (of parsing the URI); Ping has ProbePGConnection, which knows class 08.
Probed(e) == e # "nil" /\ (phase = "new" \/ e = "exception")

\* Mutant: len(timers) > 0 is not asked.
TriesAgainAlways(e) == Probed(e)
TriesAgain(e)     == Probed(e) /\ timers > 0

\* Mutant: timers[1:] is not assigned.
AfterFirstKeeps(n) == n
AfterFirst(n)      == n - 1

\* One turn of RetryAction in PgStore.Start.  An error of the hook ends the
\* process; no other hook has been started but the logger's.  The branch
\* ctx.Done() is left out: four attempts of three seconds at most and nine
\* seconds of waits do not use up the minute of the context.
Attempt(e) ==
    /\ \/ phase = "new" /\ e # "exception"
       \/ phase = "ping"
    /\ err = "nil" /\ err' = e
    /\ \/ /\ e = "nil" /\ phase = "new"
          /\ phase' = "ping" /\ timers' = Waits /\ pool' = "open"
          /\ UNCHANGED exit
       \/ /\ e = "nil" /\ phase = "ping"
          /\ phase' = "accrual"
          /\ UNCHANGED <<timers, pool, exit>>
       \/ /\ TriesAgain(e)
          /\ timers' = AfterFirst(timers)
          /\ UNCHANGED <<phase, pool, exit>>
       \/ /\ e # "nil" /\ ~TriesAgain(e)
          /\ Exit("start")
          /\ UNCHANGED <<timers, pool>>
    /\ UNCHANGED <<server, cancelled, users>>

\* SleepCancellable returns, RetryAction goes on with the next turn.
Wake ==
    /\ phase \in {"new", "ping"}
    /\ err # "nil" /\ err' = "nil"
    /\ UNCHANGED <<phase, timers, exit, pool, server, cancelled, users>>

\* The default timeout of fx for all start hooks, fifteen seconds, is over
\* before the minute that Start allows itself.
StartTimeout ==
    /\ phase \in {"new", "ping"}
    /\ Exit("timeout")
    /\ UNCHANGED <<tries, pool, server, cancelled, users>>

AccrualStart ==
    /\ phase  = "accrual"
    /\ phase' = "server"
    /\ at'    = [at EXCEPT ![Loop] = "busy"]
    /\ UNCHANGED <<tries, exit, pool, server, cancelled, outlived, refused>>

ServerStart ==
    /\ phase   = "server"
    /\ phase'  = "up"
    /\ server' = "starting"
    /\ UNCHANGED <<tries, exit, pool, cancelled, users>>

\* The goroutine of Start: if the address is in use the error is logged, and
\* the process goes on without a server.
ListenAndServe ==
    /\ phase # "exited" /\ server = "starting"
    /\ server' \in {"listening", "failed"}
    /\ UNCHANGED <<phase, tries, exit, pool, cancelled, users>>

-----------------------------------------------------------------------------
(***************************************************************************)
(* Requests, the loop, and the connections they use.                       *)
(***************************************************************************)

Moves(c, from, to) ==
    /\ phase # "exited"
    /\ at[c] = from
    /\ at' = [at EXCEPT ![c] = to]
    /\ UNCHANGED <<phase, tries, exit, server, cancelled, outlived>>

Request(h) == /\ server = "listening"
              /\ Moves(h, "away", "busy")
              /\ UNCHANGED <<pool, refused>>

Answer(h) == Moves(h, "busy", "away") /\ UNCHANGED <<pool, refused>>

\* pool.Acquire; a context that has been cancelled gets nothing.
Acquire(c) ==
    /\ c = Loop => ~cancelled
    /\ Moves(c, "busy", "waiting")
    /\ UNCHANGED <<pool, refused>>

Acquired(c) ==
    /\ pool = "open"
    /\ Cardinality({d \in Callers : at[d] = "using"}) < PoolSize
    /\ Moves(c, "waiting", "using")
    /\ UNCHANGED <<pool, refused>>

\* ErrClosedPool.
Refused(c) ==
    /\ pool = "closed"
    /\ Moves(c, "waiting", "busy")
    /\ refused' = refused \union {c}
    /\ UNCHANGED pool

Released(c) == Moves(c, "using", "busy") /\ UNCHANGED <<pool, refused>>

\* The loop ends, after the call it waits in has returned the context's error.
LoopGivesUp == /\ cancelled
               /\ Moves(Loop, "waiting", "busy")
               /\ UNCHANGED <<pool, refused>>

LoopEnds == /\ cancelled
            /\ Moves(Loop, "busy", "away")
            /\ UNCHANGED <<pool, refused>>

-----------------------------------------------------------------------------
(***************************************************************************)
(* Stop.                                                                   *)
(***************************************************************************)

\* A signal; HandlersServer.Stop closes the listener first.
Shutdown ==
    /\ phase   = "up"
    /\ phase'  = "shutdown"
    /\ server' = "closed"
    /\ UNCHANGED <<tries, exit, pool, cancelled, users>>

AtWork == {h \in Handlers : at[h] # "away"}

\* Mutant: Close, which does not wait for the requests at work.
ShutdownDoneAtOnce ==
    /\ phase  = "shutdown"
    /\ phase' = "cancel"
    /\ UNCHANGED <<tries, exit, pool, server, cancelled, users>>

ShutdownDone ==
    /\ phase  = "shutdown"
    /\ AtWork = {}
    /\ phase' = "cancel"
    /\ UNCHANGED <<tries, exit, pool, server, cancelled, users>>

\* Ten seconds are over: the error is logged, the next hook is called.
ShutdownGivesUp ==
    /\ phase     = "shutdown"
    /\ AtWork   # {}
    /\ phase'    = "cancel"
    /\ outlived' = AtWork
    /\ UNCHANGED <<tries, exit, pool, server, cancelled, at, refused>>

\* Mutant: the loop is waited for and not cancelled.
CancelNothing ==
    /\ phase  = "cancel"
    /\ phase' = "join"
    /\ UNCHANGED <<tries, exit, pool, server, cancelled, users>>

\* HandlersAccrual.Stop: cancel, then wg.Wait.
Cancel ==
    /\ phase  = "cancel"
    /\ phase' = "join"
    /\ cancelled' = TRUE
    /\ UNCHANGED <<tries, exit, pool, server, users>>

\* Mutant: no wg.Wait.
LoopJoinedAtOnce ==
    /\ phase  = "join"
    /\ phase' = "close"
    /\ pool'  = "closed"
    /\ UNCHANGED <<tries, exit, server, cancelled, users>>

\* The loop has ended; pool.Close lets nobody in any more.
LoopJoined ==
    /\ phase  = "join"
    /\ at[Loop] = "away"
    /\ phase' = "close"
    /\ pool'  = "closed"
    /\ UNCHANGED <<tries, exit, server, cancelled, users>>

\* pool.Close returns when every connection has come back.
Closed ==
    /\ phase = "close"
    /\ \A c \in Callers : at[c] # "using"
    /\ Exit("clean")
    /\ UNCHANGED <<tries, pool, server, cancelled, users>>

\* The minute of fx is over, whatever hook runs.
StopTimeout ==
    /\ phase \in {"shutdown", "cancel", "join", "close"}
    /\ Exit("timeout")
    /\ UNCHANGED <<tries, pool, server, cancelled, users>>

Start == \/ Migrate
         \/ \E e \in Outcomes : Attempt(e)
         \/ Wake
         \/ AccrualStart
         \/ ServerStart

Stop == ShutdownDone \/ ShutdownGivesUp \/ Cancel \/ LoopJoined \/ Closed

Next ==
    \/ Start
    \/ StartTimeout
    \/ ListenAndServe
    \/ \E h \in Handlers : Request(h) \/ Answer(h)
    \/ \E c \in Callers : \/ Acquire(c)
                          \/ Acquired(c)
                          \/ Refused(c)
                          \/ Released(c)
    \/ LoopGivesUp
    \/ LoopEnds
    \/ Shutdown
    \/ Stop
    \/ StopTimeout

Spec == Init /\ [][Next]_vars

\* The hooks go on, every transaction ends (PgStore!NeverDeadlocked), and so
\* does the loop once it is told to.  A request need not end.
Fairness ==
    /\ WF_vars(Start) /\ WF_vars(Stop)
    /\ WF_vars(LoopGivesUp \/ LoopEnds)
    /\ \A c \in Callers : WF_vars(Released(c))

FairSpec == Spec /\ Fairness

-----------------------------------------------------------------------------
(***************************************************************************)
(* Properties.                                                             *)
(***************************************************************************)

\* The types.
LifeTypeOK ==
    /\ phase  \in {"migrate", "new", "ping", "accrual", "server", "up",
                   "shutdown", "cancel", "join", "close", "exited"}
    /\ timers \in 0..Waits
    /\ err    \in Outcomes
    /\ pool   \in {"none", "open", "closed"}
    /\ server \in {"none", "starting", "listening", "failed", "closed"}
    /\ cancelled \in BOOLEAN
    /\ at     \in [Callers -> {"away", "busy", "waiting", "using"}]
    /\ outlived \subseteq Handlers
    /\ refused  \subseteq Callers
    /\ exit   \in {"no", "start", "clean", "timeout"}

\* Nobody asks for a connection before the pool is there, the loop never
\* meets a closed pool, and a request only if Shutdown had to give it up.
PoolOutlivesItsUsers ==
    /\ \A c \in Callers : at[c] # "away" => pool # "none"
    /\ refused \subseteq outlived

\* A stop in good order cuts no request off but those that Shutdown has given
\* up, and no transaction of anybody.
NothingCutOff ==
    exit = "clean" => \A c \in Callers : /\ at[c] # "using"
                                         /\ at[c] # "away" => c \in outlived

\* The process is up or has ended, however the database answers.
StartEnds == phase = "migrate" ~> phase \in {"up", "exited"}

\* A stop ends without the minute of fx, even if a request never does.
StopEnds == phase = "shutdown" ~> phase = "exited"
=============================================================================
