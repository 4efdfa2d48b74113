------------------------------ MODULE TaskPool ------------------------------
(***************************************************************************)
(* What the thread pool promises its callers, with no thread in sight:     *)
(* accepted tasks wait in one bounded queue, are started in the order they *)
(* were accepted, each at most once, and finish at most once.  Destroying  *)
(* the pool discards what is still queued.                                 *)
(*                                                                         *)
(* Tasks are numbered in the order in which the pool accepts them.         *)
(***************************************************************************)
EXTENDS Naturals, Sequences

CONSTANT MaxQueue   \* the length at which the queue is full

VARIABLES
    pending,    \* accepted tasks that no thread has started, oldest first
    running,    \* tasks a thread has taken and not finished
    finished,   \* tasks whose callback has returned
    accepted    \* how many tasks were accepted so far

vars == <<pending, running, finished, accepted>>

Init ==
    /\ pending = <<>>
    /\ running = {}
    /\ finished = {}
    /\ accepted = 0

Accept ==
    /\ Len(pending) < MaxQueue
    /\ accepted' = accepted + 1
    /\ pending' = Append(pending, accepted + 1)
    /\ UNCHANGED <<running, finished>>

Start ==
    /\ pending # <<>>
    /\ running' = running \cup {Head(pending)}
    /\ pending' = Tail(pending)
    /\ UNCHANGED <<finished, accepted>>

Finish ==
    \E t \in running :
        /\ running' = running \ {t}
        /\ finished' = finished \cup {t}
        /\ UNCHANGED <<pending, accepted>>

Discard ==
    /\ pending' = <<>>
    /\ UNCHANGED <<running, finished, accepted>>

Next == Accept \/ Start \/ Finish \/ Discard

Spec == Init /\ [][Next]_vars
=============================================================================
