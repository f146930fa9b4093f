------------------------------- MODULE Cycle -------------------------------
(***************************************************************************)
(* What SendOrdersToAccrual promises to the accrual loop and to the        *)
(* accrual system: every order of a cycle is asked about once, so many at  *)
(* a time as the rate limit allows, and the loop gets its answers when     *)
(* every request has ended.  Only a stop of the process breaks it off.     *)
(*                                                                         *)
(* It is the cycle that Gophermart.tla works with.  WorkerPool.tla is the  *)
(* detailed specification that implements it.                              *)
(***************************************************************************)
EXTENDS Integers, FiniteSets

CONSTANTS
    Orders,  \* the orders of the cycle
    Limit    \* how many requests may be under way at once

VARIABLES
    stopped,  \* the context of the cycle is cancelled
    asking,   \* the orders whose request is under way
    asked,    \* the orders whose request has ended
    outcome   \* what the loop was given

vars == <<stopped, asking, asked, outcome>>

Init == /\ stopped = FALSE
        /\ asking  = {}
        /\ asked   = {}
        /\ outcome = "none"

Stop == /\ ~stopped
        /\ stopped' = TRUE
        /\ UNCHANGED <<asking, asked, outcome>>

\* A request begins: the only one about its order, while the loop waits.
Begin(o) ==
    /\ ~stopped /\ outcome = "none"
    /\ o \notin asking \union asked
    /\ Cardinality(asking) < Limit
    /\ asking' = asking \union {o}
    /\ UNCHANGED <<stopped, asked, outcome>>

\* It ends, with an answer or with an error.
End(o) ==
    /\ o \in asking
    /\ asking' = asking \ {o}
    /\ asked'  = asked \union {o}
    /\ UNCHANGED <<stopped, outcome>>

\* It is given up.
GiveUp(o) ==
    /\ stopped
    /\ o \in asking
    /\ asking' = asking \ {o}
    /\ UNCHANGED <<stopped, asked, outcome>>

\* The loop goes on with what came back.
Return ==
    /\ outcome = "none"
    /\ asking = {}
    /\ asked = Orders \/ stopped
    /\ outcome' = "answers"
    /\ UNCHANGED <<stopped, asking, asked>>

\* The loop ends, whatever has come back; a result is thrown away.
BreakOff(o) ==
    /\ stopped /\ outcome = "none"
    /\ o \in asked
    /\ asked' = asked \ {o}
    /\ outcome' = "cancelled"
    /\ UNCHANGED <<stopped, asking>>

Next == \/ Stop
        \/ \E o \in Orders : Begin(o) \/ End(o) \/ GiveUp(o) \/ BreakOff(o)
        \/ Return

Spec == Init /\ [][Next]_vars
=============================================================================
