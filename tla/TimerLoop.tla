------------------------------ MODULE TimerLoop ------------------------------
(***************************************************************************)
(* Timers on the event loop: EventPoll::loop, which visits the timers of   *)
(* timer_map_ in the order of their addresses and derives the timeout of   *)
(* epoll_wait from them, and TimerTick, whose timerRun fires a due timer.  *)
(*                                                                         *)
(* Time is discrete, in milliseconds.  The wall clock itself is not a      *)
(* variable: a deadline is kept as the time left until it, so end_time_ms_ *)
(* is due[t] after the present, and now_time_ms_, the snapshot a pass      *)
(* works with, is age before it.  The clock is assumed not to be set.      *)
(*                                                                         *)
(* Descriptor events are there for what they do to timers: a handler may   *)
(* start or stop any of them, and it takes time.                           *)
(***************************************************************************)
EXTENDS Integers

CONSTANTS
    Timers,        \* addresses of the TimerTick objects, the keys of timer_map_
    Period,        \* set_ms_ of each timer
    Once,          \* the timers whose timer_mode_ is TIMER_ONCE
    Restarts,      \* <<t, u>>: the callback of t may start or stop u
    PollTimeout,   \* EPOLL_TIMEOUT
    MaxBusy        \* bound: time the callbacks of one turn of the loop take

ASSUME TimersAssumption ==
    /\ Timers \subseteq Nat \ {0}
    /\ Period \in [Timers -> Nat \ {0}]
    /\ Once \subseteq Timers
    /\ Restarts \subseteq Timers \X Timers

ASSUME TimeAssumption ==
    /\ PollTimeout \in Nat \ {0}
    /\ MaxBusy \in Nat

NoTimer == 0

VARIABLES
    phase,      \* "events", "pass", "callback", "poll" or, once loop returned, "ended"
    set,        \* set[t]: timer_map_[t] is a function, not NULL
    due,        \* time left until end_time_ms_ of each timer that is set
    cursor,     \* the timer the pass visited last
    running,    \* the timer whose callback runs
    timeout,    \* epoll_time_out_
    age,        \* time since the snapshot now_time_ms_
    busy,       \* time spent outside epoll_wait since the snapshot
    slept,      \* time spent in epoll_wait
    fired       \* callbacks of each timer since it was started, counted to 2

timers == <<set, due, fired>>
turn   == <<cursor, timeout, busy, slept>>
vars   == <<phase, timers, running, turn, age>>

\* main creates its timers and then calls loop: like a first round of handlers.
Init ==
    /\ phase = "events"
    /\ set = [t \in Timers |-> FALSE]
    /\ due = [t \in Timers |-> 0]
    /\ cursor = 0
    /\ running = NoTimer
    /\ timeout = PollTimeout
    /\ age = 0
    /\ busy = 0
    /\ slept = 0
    /\ fired = [t \in Timers |-> 0]

-----------------------------------------------------------------------------
(* TimerTick *)

\* timerStart and the constructor: timerInit.
Start(u) ==
    /\ set' = [set EXCEPT ![u] = TRUE]
    /\ due' = [due EXCEPT ![u] = Period[u]]
    /\ fired' = [fired EXCEPT ![u] = 0]

\* timerStop.  The deadline of a timer that is not set means nothing, except
\* that timerRun still reads that of the timer whose callback it has called.
Stop(u) ==
    /\ set' = [set EXCEPT ![u] = FALSE]
    /\ due' = [due EXCEPT ![u] = IF u = running THEN @ ELSE 0]
    /\ fired' = fired

\* What a callback or a handler does to timers.
Command ==
    /\ \/ phase = "events" /\ \E u \in Timers : Start(u) \/ Stop(u)
       \/ phase = "callback" /\ \E u \in Timers :
              <<running, u>> \in Restarts /\ (Start(u) \/ Stop(u))
    /\ UNCHANGED <<phase, running, turn, age>>

\* end_time_ms_ - now_time_ms of timer t.
Duration(t) == due[t] + age

-----------------------------------------------------------------------------
(* EventPoll::loop *)

\* Mutant: reads the clock once, before the loop, and never again.
BeginPassStale ==
    /\ phase = "events"
    /\ phase' = "pass"
    /\ timeout' = PollTimeout
    /\ cursor' = 0
    /\ busy' = 0
    /\ slept' = 0
    /\ UNCHANGED <<timers, running, age>>

BeginPass ==
    /\ phase = "events"
    /\ phase' = "pass"
    /\ timeout' = PollTimeout
    /\ cursor' = 0
    /\ age' = 0
    /\ busy' = 0
    /\ slept' = 0
    /\ UNCHANGED <<timers, running>>

\* The timers the pass has still to visit; a timer that a callback starts or
\* stops meanwhile is visited or not according to its place.
Ahead == {t \in Timers : set[t] /\ t > cursor}
IsNext(t) == t \in Ahead /\ \A u \in Ahead : t <= u

\* Mutant: the last timer's duration counts, not the shortest.
ShortenLast(d) == IF 0 < d /\ d < PollTimeout THEN d - 1 ELSE timeout

\* The timeout after a timer whose duration is d.
Shorten(d) == IF 0 < d /\ d < timeout THEN d - 1 ELSE timeout

\* Mutant: an early visit sets the deadline anew.
VisitEarlyRestarts(t) ==
    /\ phase = "pass"
    /\ IsNext(t)
    /\ Duration(t) > 0
    /\ timeout' = Shorten(Duration(t))
    /\ cursor' = t
    /\ due' = [due EXCEPT ![t] = Period[t]]
    /\ UNCHANGED <<phase, set, fired, running, age, busy, slept>>

VisitEarly(t) ==
    /\ phase = "pass"
    /\ IsNext(t)
    /\ Duration(t) > 0
    /\ timeout' = Shorten(Duration(t))
    /\ cursor' = t
    /\ UNCHANGED <<phase, timers, running, age, busy, slept>>

Fire(t) ==
    /\ phase = "pass"
    /\ IsNext(t)
    /\ Duration(t) <= 0
    /\ phase' = "callback"
    /\ running' = t
    /\ cursor' = t
    /\ fired' = [fired EXCEPT ![t] = IF @ < 2 THEN @ + 1 ELSE @]
    /\ UNCHANGED <<set, due, timeout, age, busy, slept>>

\* Mutant: a TIMER_ONCE timer stays in the map.
ReturnOnceKeeps ==
    /\ phase = "callback"
    /\ running \in Once
    /\ UNCHANGED <<timers, timeout>>

\* A TIMER_ONCE timer is removed from the map, also if its own callback has
\* just started it again.
ReturnOnce ==
    /\ phase = "callback"
    /\ running \in Once
    /\ set' = [set EXCEPT ![running] = FALSE]
    /\ due' = [due EXCEPT ![running] = 0]
    /\ timeout' = timeout
    /\ UNCHANGED fired

\* A TIMER_FOREVER timer is due a period after it was due, not after now.
ReturnForever ==
    /\ phase = "callback"
    /\ running \notin Once
    /\ due' = [due EXCEPT ![running] = IF set[running] THEN @ + Period[running] ELSE 0]
    /\ timeout' = Shorten(Duration(running) + Period[running])
    /\ UNCHANGED <<set, fired>>

Return ==
    /\ ReturnOnce \/ ReturnForever
    /\ phase' = "pass"
    /\ running' = NoTimer
    /\ UNCHANGED <<cursor, age, busy, slept>>

EnterPoll ==
    /\ phase = "pass"
    /\ Ahead = {}
    /\ phase' = "poll"
    /\ UNCHANGED <<timers, running, turn, age>>

\* epoll_wait returns at its timeout, or earlier with events, whose handlers run.
LeavePoll ==
    /\ phase = "poll"
    /\ phase' = "events"
    /\ UNCHANGED <<timers, running, turn, age>>

\* epoll_wait fails (a signal is enough) and loop returns for good.
PollFails ==
    /\ phase = "poll"
    /\ phase' = "ended"
    /\ UNCHANGED <<timers, running, turn, age>>

-----------------------------------------------------------------------------
(* Time *)

Advance ==
    /\ age' = age + 1
    /\ due' = [t \in Timers |-> IF set[t] \/ t = running THEN due[t] - 1 ELSE due[t]]
    /\ UNCHANGED <<phase, set, fired, running, cursor, timeout>>

Work ==
    /\ phase \in {"pass", "callback", "events"}
    /\ busy < MaxBusy
    /\ busy' = busy + 1
    /\ slept' = slept
    /\ Advance

Sleep ==
    /\ phase = "poll"
    /\ slept < timeout
    /\ slept' = slept + 1
    /\ busy' = busy
    /\ Advance

-----------------------------------------------------------------------------
Visit == \E t \in Timers : VisitEarly(t) \/ Fire(t)

Next ==
    Command \/ BeginPass \/ Visit \/ Return \/ EnterPoll \/ LeavePoll \/ PollFails
    \/ Work \/ Sleep

Spec == Init /\ [][Next]_vars

(***************************************************************************)
(* The thread of the loop runs, callbacks return, epoll_wait returns at    *)
(* its timeout at the latest, and time goes on: it cannot happen that      *)
(* turns follow each other for ever while no millisecond passes.           *)
(***************************************************************************)
Fairness ==
    /\ WF_vars(BeginPass) /\ WF_vars(Visit) /\ WF_vars(Return) /\ WF_vars(EnterPoll)
    /\ WF_vars(LeavePoll /\ slept >= timeout)
    /\ SF_vars(Work \/ Sleep)

FairSpec == Spec /\ Fairness

-----------------------------------------------------------------------------
TypeOK ==
    /\ phase \in {"events", "pass", "callback", "poll", "ended"}
    /\ set \in [Timers -> BOOLEAN]
    /\ due \in [Timers -> Int]
    /\ cursor \in Timers \cup {0}
    /\ running \in Timers \cup {NoTimer}
    /\ running # NoTimer <=> phase = "callback"
    /\ timeout \in 0..PollTimeout
    /\ age \in Nat
    /\ busy \in 0..MaxBusy
    /\ slept \in 0..PollTimeout
    /\ age <= busy + slept
    /\ fired \in [Timers -> 0..2]

(***************************************************************************)
(* Timers that no callback of a later timer starts or stops.  A pass that  *)
(* has gone by a timer computes its timeout without it.                    *)
(***************************************************************************)
InOrder == {u \in Timers : \A t \in Timers : <<t, u>> \in Restarts => t <= u}

(***************************************************************************)
(* If the callbacks and handlers of one turn together take less time than  *)
(* any period, then a timer in order runs at most two turns' work after    *)
(* its deadline: lateness does not build up over the turns, although every *)
(* pass works with the time at its start and several timers share one      *)
(* timeout.                                                                *)
(***************************************************************************)
Unhurried == \A t \in Timers : MaxBusy < Period[t]

Punctual == Unhurried => \A t \in InOrder : set[t] => due[t] >= -2 * MaxBusy

(***************************************************************************)
(* Under the same condition the loop never goes to sleep for longer than   *)
(* the next deadline, so it never sleeps on a timer that is overdue.  (The *)
(* millisecond that loop takes off a timeout is lost when a second timer   *)
(* is due exactly then.)                                                   *)
(***************************************************************************)
SleepsUntilDue ==
    Unhurried /\ phase = "poll" => \A t \in InOrder : set[t] => timeout <= Duration(t)

(***************************************************************************)
(* A TIMER_ONCE timer that a later timer's callback starts is missed by    *)
(* that pass.  It fires one EPOLL_TIMEOUT after it was started, and two    *)
(* turns' work, even if it was due long before; never later than that.     *)
(***************************************************************************)
LateByOnePoll ==
    \A t \in Once : set[t] => \/ due[t] >= -2 * MaxBusy
                            \/ Period[t] - due[t] <= PollTimeout + 2 * MaxBusy

(***************************************************************************)
(* A TIMER_ONCE timer fires at most once each time it is started, although *)
(* its callback and those of others may start and stop it meanwhile.       *)
(***************************************************************************)
OncePerStart == \A t \in Once : fired[t] <= 1

(***************************************************************************)
(* A timer that is set fires in the end, unless it is stopped, started     *)
(* again and again before it is due, or the loop has ended; other timers,  *)
(* however many or short, do not starve it.                                *)
(***************************************************************************)
Fires ==
    \A t \in Timers :
        <>[][~(Command /\ Start(t))]_vars =>
            (set[t] ~> (running = t \/ ~set[t] \/ phase = "ended"))
=============================================================================
