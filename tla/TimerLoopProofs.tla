--------------------------- MODULE TimerLoopProofs ---------------------------
(***************************************************************************)
(* Proofs about TimerLoop: how late a timer can be, for any timers, any    *)
(* periods, any restarts by callbacks, and any EPOLL_TIMEOUT.              *)
(***************************************************************************)
EXTENDS TimerLoop, TLAPS

(***************************************************************************)
(* The strengthening.  A timer that the pass has gone by is no closer than *)
(* the timeout; one that is still ahead, or whose callback runs, was at    *)
(* most MaxBusy overdue when the pass began; and while handlers run, only  *)
(* the work of this turn can have made a timer late.                       *)
(***************************************************************************)
InPass == phase \in {"pass", "callback"}

Clock ==
    /\ InPass => slept = 0 /\ age = busy
    /\ ~InPass => age = busy + slept /\ slept <= timeout
    /\ phase = "callback" => running = cursor

OnPace(u) ==
    /\ InPass => Duration(u) >= -MaxBusy
    /\ InPass /\ u <= cursor /\ u # running => timeout <= Duration(u)
    /\ phase = "poll" => timeout <= Duration(u)
    /\ phase \in {"events", "ended"} => due[u] >= -busy

Pace == \A u \in InOrder : set[u] => OnPace(u)

IInv == TypeOK /\ Clock /\ Pace

-----------------------------------------------------------------------------
LEMMA ShortenBounds ==
    ASSUME timeout \in 0..PollTimeout, NEW d \in Int
    PROVE  /\ Shorten(d) \in 0..PollTimeout
           /\ Shorten(d) <= timeout
           /\ d > 0 => Shorten(d) <= d
BY TimeAssumption DEF Shorten

\* Facts about the constants that the steps below use.
LEMMA Constants ==
    /\ MaxBusy \in Nat /\ PollTimeout \in Nat \ {0}
    /\ \A t \in Timers : t \in Nat /\ t > 0 /\ t # NoTimer /\ Period[t] \in Nat /\ Period[t] > 0
    /\ NoTimer = 0
    /\ InOrder \subseteq Timers
BY TimersAssumption, TimeAssumption DEF NoTimer, InOrder

LEMMA InitPace == Init => IInv
<1>. SUFFICES ASSUME Init PROVE IInv
  OBVIOUS
<1>. USE Constants
<1>1. \A t \in Timers : ~set[t]
  BY DEF Init
<1>2. TypeOK
  BY DEF Init, TypeOK
<1>3. Clock
  BY DEF Init, Clock, InPass
<1>. QED
  BY <1>1, <1>2, <1>3 DEF IInv, Pace, InOrder

LEMMA CommandPace ==
    ASSUME IInv, Command
    PROVE  IInv'
<1>. USE Constants DEF IInv, TypeOK
<1>1. PICK u \in Timers :
          /\ Start(u) \/ Stop(u)
          /\ phase = "events" \/ (phase = "callback" /\ <<running, u>> \in Restarts)
  BY DEF Command
<1>2. UNCHANGED <<phase, running, cursor, timeout, age, busy, slept>>
  BY DEF Command, turn
<1>3. TypeOK'
  <2>1. set' \in [Timers -> BOOLEAN]
    BY <1>1 DEF Start, Stop
  <2>2. due' \in [Timers -> Int]
    BY <1>1 DEF Start, Stop
  <2>3. fired' \in [Timers -> 0..2]
    BY <1>1 DEF Start, Stop
  <2>. QED
    BY <1>2, <2>1, <2>2, <2>3
<1>4. Clock'
  BY <1>2 DEF Clock, InPass
<1>5. ASSUME NEW v \in InOrder, set'[v] PROVE OnPace(v)'
  <2>1. CASE v = u
    <3>1. Start(u) /\ due'[v] = Period[v]
      BY <1>1, <1>5, <2>1 DEF Start, Stop
    <3>2. CASE phase = "events"
      BY <1>2, <2>1, <3>1, <3>2 DEF OnPace, InPass
    <3>3. CASE phase = "callback"
      <4>1. running <= v
        BY <1>1, <2>1, <3>3 DEF InOrder
      <4>2. ~(v <= cursor /\ v # running)
        BY <3>3, <4>1 DEF Clock
      <4>. QED
        BY <1>2, <3>1, <3>3, <4>2 DEF OnPace, InPass, Duration
    <3>. QED
      BY <1>1, <3>2, <3>3
  <2>2. CASE v # u
    <3>1. set[v] /\ due'[v] = due[v]
      BY <1>1, <1>5, <2>2 DEF Start, Stop
    <3>2. OnPace(v)
      BY <3>1 DEF Pace
    <3>. QED
      BY <1>2, <3>1, <3>2 DEF OnPace, InPass, Duration
  <2>. QED
    BY <2>1, <2>2
<1>. QED
  BY <1>3, <1>4, <1>5 DEF Pace

LEMMA PassPace ==
    ASSUME IInv, BeginPass
    PROVE  IInv'
<1>. USE Constants DEF IInv, TypeOK, BeginPass, timers
<1>1. TypeOK' /\ Clock'
  BY DEF Clock, InPass
<1>2. ASSUME NEW u \in InOrder, set'[u] PROVE OnPace(u)'
  BY <1>2 DEF Pace, OnPace, InPass, Duration
<1>. QED
  BY <1>1, <1>2 DEF Pace

LEMMA EarlyPace ==
    ASSUME IInv, NEW t \in Timers, VisitEarly(t)
    PROVE  IInv'
<1>. USE Constants DEF IInv, TypeOK, VisitEarly, timers
<1>1. Duration(t) \in Int /\ Duration(t) > 0
  BY DEF Duration
<1>2. timeout' \in 0..PollTimeout /\ timeout' <= timeout /\ timeout' <= Duration(t)
  BY <1>1, ShortenBounds
<1>3. TypeOK'
  BY <1>2
<1>4. Clock'
  BY DEF Clock, InPass
<1>5. ASSUME NEW u \in InOrder, set'[u] PROVE OnPace(u)'
  <2>1. set[u] /\ OnPace(u)
    BY <1>5 DEF Pace
  <2>2. u <= cursor \/ t <= u
    BY <2>1 DEF IsNext, Ahead
  <2>3. u <= cursor' => timeout' <= Duration(u)
    BY <1>2, <2>1, <2>2 DEF OnPace, InPass, Duration
  <2>. QED
    BY <2>1, <2>3 DEF OnPace, InPass, Duration
<1>. QED
  BY <1>3, <1>4, <1>5 DEF Pace

LEMMA FirePace ==
    ASSUME IInv, NEW t \in Timers, Fire(t)
    PROVE  IInv'
<1>. USE Constants DEF IInv, TypeOK, Fire
<1>1. TypeOK'
  BY DEF InPass
<1>2. Clock'
  BY DEF Clock, InPass
<1>3. ASSUME NEW u \in InOrder, set'[u] PROVE OnPace(u)'
  <2>1. set[u] /\ OnPace(u)
    BY <1>3 DEF Pace
  <2>2. u <= cursor \/ t <= u
    BY <2>1 DEF IsNext, Ahead
  <2>. QED
    BY <2>1, <2>2 DEF OnPace, InPass, Duration
<1>. QED
  BY <1>1, <1>2, <1>3 DEF Pace

LEMMA ReturnPace ==
    ASSUME IInv, Unhurried, Return
    PROVE  IInv'
<1>. USE Constants DEF IInv, TypeOK, Return
<1>. DEFINE t == running
<1>1. phase = "callback" /\ t \in Timers /\ t = cursor
  BY DEF ReturnOnce, ReturnForever, Clock
<1>2. CASE ReturnOnce
  <2>1. TypeOK' /\ Clock'
    BY <1>1, <1>2 DEF ReturnOnce, Clock, InPass
  <2>2. ASSUME NEW u \in InOrder, set'[u] PROVE OnPace(u)'
    <3>1. u # t /\ set[u] /\ due'[u] = due[u]
      BY <1>1, <1>2, <2>2 DEF ReturnOnce
    <3>2. OnPace(u)
      BY <3>1 DEF Pace
    <3>. QED
      BY <1>1, <1>2, <3>1, <3>2 DEF ReturnOnce, OnPace, InPass, Duration
  <2>. QED
    BY <2>1, <2>2 DEF Pace
<1>3. CASE ReturnForever
  <2>1. Duration(t) + Period[t] \in Int
    BY <1>1 DEF Duration
  <2>2. /\ timeout' \in 0..PollTimeout /\ timeout' <= timeout
        /\ Duration(t) + Period[t] > 0 => timeout' <= Duration(t) + Period[t]
    BY <1>3, <2>1, ShortenBounds DEF ReturnForever
  <2>3. TypeOK' /\ Clock'
    BY <1>1, <1>3, <2>2 DEF ReturnForever, Clock, InPass
  <2>4. ASSUME NEW u \in InOrder, set'[u] PROVE OnPace(u)'
    <3>1. set[u] /\ OnPace(u)
      BY <1>3, <2>4 DEF ReturnForever, Pace
    <3>2. CASE u = t
      <4>1. Duration(u)' = Duration(u) + Period[u]
        BY <1>1, <1>3, <3>1, <3>2 DEF ReturnForever, Duration
      <4>2. Duration(u) + Period[u] > 0
        BY <1>1, <3>1, <3>2 DEF OnPace, InPass, Unhurried, Duration
      <4>. QED
        BY <1>1, <2>2, <3>2, <4>1, <4>2 DEF OnPace, InPass, Duration
    <3>3. CASE u # t
      <4>1. Duration(u)' = Duration(u)
        BY <1>1, <1>3, <3>3 DEF ReturnForever, Duration
      <4>. QED
        BY <1>1, <2>2, <3>1, <3>3, <4>1 DEF OnPace, InPass, Duration
    <3>. QED
      BY <3>2, <3>3
  <2>. QED
    BY <2>3, <2>4 DEF Pace
<1>. QED
  BY <1>2, <1>3

LEMMA PollPace ==
    ASSUME IInv, EnterPoll \/ LeavePoll \/ PollFails
    PROVE  IInv'
<1>. USE Constants DEF IInv, TypeOK, EnterPoll, LeavePoll, PollFails, timers, turn
<1>1. TypeOK'
  OBVIOUS
<1>2. Clock'
  BY DEF Clock, InPass
<1>3. ASSUME NEW u \in InOrder, set'[u] PROVE OnPace(u)'
  <2>1. set[u] /\ OnPace(u)
    BY <1>3 DEF Pace
  <2>2. CASE EnterPoll
    <3>1. u <= cursor /\ u # running
      BY <2>1, <2>2 DEF Ahead
    <3>. QED
      BY <2>1, <2>2, <3>1 DEF OnPace, InPass, Duration
  <2>3. CASE LeavePoll \/ PollFails
    BY <2>1, <2>3 DEF OnPace, Clock, InPass, Duration
  <2>. QED
    BY <2>2, <2>3
<1>. QED
  BY <1>1, <1>2, <1>3 DEF Pace

\* Time passes: what is fixed by the snapshot, Duration, does not change.
LEMMA TimePace ==
    ASSUME IInv, Work \/ Sleep
    PROVE  IInv'
<1>. USE Constants DEF IInv, TypeOK
<1>1. /\ age' = age + 1 /\ UNCHANGED <<phase, set, fired, running, cursor, timeout>>
      /\ \A t \in Timers : due'[t] = IF set[t] \/ t = running THEN due[t] - 1 ELSE due[t]
      /\ due' \in [Timers -> Int]
  BY DEF Work, Sleep, Advance
<1>2. \/ phase \in {"pass", "callback", "events"} /\ busy < MaxBusy
         /\ busy' = busy + 1 /\ slept' = slept
      \/ phase = "poll" /\ slept < timeout /\ slept' = slept + 1 /\ busy' = busy
  BY DEF Work, Sleep
<1>3. TypeOK'
  BY <1>1, <1>2
<1>4. Clock'
  BY <1>1, <1>2 DEF Clock, InPass
<1>5. ASSUME NEW u \in InOrder, set'[u] PROVE OnPace(u)'
  <2>1. set[u] /\ OnPace(u) /\ due'[u] = due[u] - 1
    BY <1>1, <1>5 DEF Pace
  <2>2. Duration(u)' = Duration(u)
    BY <1>1, <2>1 DEF Duration
  <2>. QED
    BY <1>1, <1>2, <2>1, <2>2 DEF OnPace, InPass
<1>. QED
  BY <1>3, <1>4, <1>5 DEF Pace

LEMMA PaceStep ==
    ASSUME IInv, Unhurried, [Next]_vars
    PROVE  IInv'
<1>1. CASE UNCHANGED vars
  BY <1>1 DEF vars, timers, turn, IInv, TypeOK, Clock, Pace, OnPace, InPass, Duration
<1>. QED
  BY <1>1, CommandPace, PassPace, EarlyPace, FirePace, ReturnPace, PollPace, TimePace
     DEF Next, Visit

\* What the strengthening says about lateness.
LEMMA PaceBounds ==
    ASSUME IInv
    PROVE  /\ \A t \in InOrder : set[t] => due[t] >= -2 * MaxBusy
           /\ phase = "poll" => \A t \in InOrder : set[t] => timeout <= Duration(t)
<1>. SUFFICES ASSUME NEW t \in InOrder, set[t]
              PROVE  /\ due[t] >= -2 * MaxBusy
                     /\ phase = "poll" => timeout <= Duration(t)
  OBVIOUS
<1>1. OnPace(t)
  BY DEF IInv, Pace
<1>2. due[t] \in Int /\ age \in Nat /\ busy \in 0..MaxBusy /\ timeout \in Nat /\ slept \in Nat
  BY Constants DEF IInv, TypeOK
<1>. QED
  BY <1>1, <1>2, Constants DEF OnPace, InPass, Duration, IInv, TypeOK, Clock

\* The strengthening holds when callbacks are quick.
LEMMA PaceKept == Spec => [](Unhurried => Punctual /\ SleepsUntilDue)
<1>1. Init => IInv
  BY InitPace
<1>2. Unhurried /\ IInv /\ [Next]_vars => IInv'
  BY PaceStep
<1>3. IInv => Punctual /\ SleepsUntilDue
  BY PaceBounds DEF Punctual, SleepsUntilDue
<1>4. CASE Unhurried
  BY <1>1, <1>2, <1>3, <1>4, PTL DEF Spec
<1>5. CASE ~Unhurried
  BY <1>5, PTL
<1>. QED
  BY <1>4, <1>5

(***************************************************************************)
(* If the work of one turn is shorter than every period, then a timer that *)
(* no later timer's callback starts is never later than two turns' work.   *)
(***************************************************************************)
THEOREM TimersOnTime == Spec => []Punctual
<1>1. (Unhurried => Punctual /\ SleepsUntilDue) => Punctual
  BY DEF Punctual
<1>. QED
  BY <1>1, PaceKept, PTL

(***************************************************************************)
(* Then loop never goes to sleep for longer than the next deadline of such *)
(* a timer.                                                                *)
(***************************************************************************)
THEOREM NeverOversleeps == Spec => []SleepsUntilDue
<1>1. (Unhurried => Punctual /\ SleepsUntilDue) => SleepsUntilDue
  BY DEF SleepsUntilDue
<1>. QED
  BY <1>1, PaceKept, PTL

-----------------------------------------------------------------------------
(* TIMER_ONCE timers, whatever the callbacks start and stop and however    *)
(* long they take: one start makes one callback, and how late that can be. *)

\* A timer that is set has not fired since its start, unless its callback
\* still runs; the callback may have started it again.
Unfired ==
    \A t \in Once : fired[t] <= 1 /\ (set[t] /\ running # t => fired[t] = 0)

\* The time since the timer was started.
Elapsed(t) == Period[t] - due[t]

\* A timer that the pass has gone by is known to the timeout, or it was
\* started after the snapshot.  One that is still ahead was known to the last
\* timeout, or it was started in the last turn.
Noticed(t) ==
    /\ InPass /\ (t > cursor \/ t = running) =>
           Duration(t) >= -MaxBusy \/ Elapsed(t) <= PollTimeout + MaxBusy + age
    /\ (InPass /\ t <= cursor /\ t # running) \/ phase = "poll" =>
           timeout <= Duration(t) \/ Elapsed(t) <= age
    /\ phase \in {"events", "ended"} => due[t] >= -busy \/ Elapsed(t) <= age

OInv == TypeOK /\ Clock /\ Unfired /\ \A t \in Once : set[t] => Noticed(t)

LEMMA OnceConstants == \A t \in Once : t \in Timers
BY TimersAssumption

LEMMA InitOnce == Init => OInv
BY InitPace, OnceConstants DEF Init, OInv, IInv, Unfired

LEMMA CommandOnce ==
    ASSUME OInv, Command
    PROVE  OInv'
<1>. USE Constants, OnceConstants DEF OInv, TypeOK
<1>1. PICK u \in Timers :
          /\ Start(u) \/ Stop(u)
          /\ phase \in {"events", "callback"}
  BY DEF Command
<1>2. UNCHANGED <<phase, running, cursor, timeout, age, busy, slept>>
  BY DEF Command, turn
<1>3. TypeOK'
  <2>1. set' \in [Timers -> BOOLEAN]
    BY <1>1 DEF Start, Stop
  <2>2. due' \in [Timers -> Int]
    BY <1>1 DEF Start, Stop
  <2>3. fired' \in [Timers -> 0..2]
    BY <1>1 DEF Start, Stop
  <2>. QED
    BY <1>2, <2>1, <2>2, <2>3
<1>4. Clock'
  BY <1>2 DEF Clock, InPass
<1>5. Unfired'
  BY <1>1, <1>2 DEF Unfired, Start, Stop
<1>6. ASSUME NEW v \in Once, set'[v] PROVE Noticed(v)'
  <2>1. CASE v = u
    <3>1. due'[v] = Period[v]
      BY <1>1, <1>6, <2>1 DEF Start, Stop
    <3>. QED
      BY <1>1, <1>2, <3>1 DEF Noticed, InPass, Duration, Elapsed
  <2>2. CASE v # u
    <3>1. set[v] /\ due'[v] = due[v]
      BY <1>1, <1>6, <2>2 DEF Start, Stop
    <3>. QED
      BY <1>2, <3>1 DEF Noticed, InPass, Duration, Elapsed
  <2>. QED
    BY <2>1, <2>2
<1>. QED
  BY <1>3, <1>4, <1>5, <1>6

LEMMA PassOnce ==
    ASSUME OInv, BeginPass
    PROVE  OInv'
<1>. USE Constants, OnceConstants DEF OInv, TypeOK, BeginPass, timers
<1>1. TypeOK' /\ Clock' /\ Unfired'
  BY DEF Clock, InPass, Unfired
<1>2. ASSUME NEW u \in Once, set'[u] PROVE Noticed(u)'
  <2>1. due[u] >= -busy \/ Elapsed(u) <= age
    BY <1>2 DEF Noticed
  <2>2. age <= PollTimeout + MaxBusy
    BY DEF Clock, InPass
  <2>3. Duration(u)' = due[u] /\ Elapsed(u)' = Elapsed(u)
    BY DEF Duration, Elapsed
  <2>4. Duration(u)' >= -MaxBusy \/ Elapsed(u)' <= PollTimeout + MaxBusy + age'
    BY <2>1, <2>2, <2>3 DEF Elapsed
  <2>. QED
    BY <2>4 DEF Noticed, InPass
<1>. QED
  BY <1>1, <1>2

LEMMA EarlyOnce ==
    ASSUME OInv, NEW t \in Timers, VisitEarly(t)
    PROVE  OInv'
<1>. USE Constants, OnceConstants DEF OInv, TypeOK, VisitEarly, timers
<1>1. Duration(t) \in Int /\ Duration(t) > 0
  BY DEF Duration
<1>2. timeout' \in 0..PollTimeout /\ timeout' <= timeout /\ timeout' <= Duration(t)
  BY <1>1, ShortenBounds
<1>3. TypeOK' /\ Clock' /\ Unfired'
  BY <1>2 DEF Clock, InPass, Unfired
<1>4. ASSUME NEW u \in Once, set'[u] PROVE Noticed(u)'
  <2>1. set[u] /\ Noticed(u)
    BY <1>4
  <2>2. u <= cursor \/ t <= u
    BY <2>1 DEF IsNext, Ahead
  <2>3. Duration(u)' = Duration(u) /\ Elapsed(u)' = Elapsed(u) /\ {Duration(u), Elapsed(u)} \subseteq Int
    BY DEF Duration, Elapsed
  <2>. QED
    BY <1>2, <2>1, <2>2, <2>3 DEF Noticed, InPass
<1>. QED
  BY <1>3, <1>4

LEMMA FireOnce ==
    ASSUME OInv, NEW t \in Timers, Fire(t)
    PROVE  OInv'
<1>. USE Constants, OnceConstants DEF OInv, TypeOK, Fire
<1>1. TypeOK' /\ Clock'
  BY DEF Clock, InPass
<1>2. set[t] /\ running = NoTimer
  BY DEF IsNext, Ahead
<1>3. Unfired'
  BY <1>2 DEF Unfired
<1>4. ASSUME NEW u \in Once, set'[u] PROVE Noticed(u)'
  <2>1. set[u] /\ Noticed(u)
    BY <1>4
  <2>2. u <= cursor \/ t <= u
    BY <2>1 DEF IsNext, Ahead
  <2>3. t > cursor
    BY DEF IsNext, Ahead
  <2>4. Duration(u)' = Duration(u) /\ Elapsed(u)' = Elapsed(u)
    BY DEF Duration, Elapsed
  <2>5. u \in Nat /\ cursor \in Nat /\ u # NoTimer
    BY DEF NoTimer
  <2>6. CASE u <= cursor
    BY <1>2, <2>1, <2>3, <2>4, <2>5, <2>6 DEF Noticed, InPass
  <2>7. CASE u > cursor
    BY <1>2, <2>1, <2>2, <2>4, <2>5, <2>7 DEF Noticed, InPass
  <2>. QED
    BY <2>5, <2>6, <2>7
<1>. QED
  BY <1>1, <1>3, <1>4

LEMMA ReturnOfOnce ==
    ASSUME OInv, Return
    PROVE  OInv'
<1>. USE Constants, OnceConstants DEF OInv, TypeOK, Return
<1>. DEFINE t == running
<1>1. phase = "callback" /\ t \in Timers /\ t = cursor
  BY DEF ReturnOnce, ReturnForever, Clock
<1>2. timeout' \in 0..PollTimeout /\ timeout' <= timeout
  <2>1. Duration(t) + Period[t] \in Int
    BY <1>1 DEF Duration
  <2>. QED
    BY <2>1, ShortenBounds DEF ReturnOnce, ReturnForever
<1>3. /\ set' \in [Timers -> BOOLEAN] /\ due' \in [Timers -> Int] /\ fired' = fired
      /\ \A u \in Once : set'[u] => u # t /\ set[u] /\ due'[u] = due[u]
  <2>1. CASE ReturnOnce
    BY <1>1, <2>1 DEF ReturnOnce
  <2>2. CASE ReturnForever
    BY <1>1, <2>2 DEF ReturnForever
  <2>. QED
    BY <2>1, <2>2
<1>4. TypeOK' /\ Clock'
  BY <1>1, <1>2, <1>3 DEF Clock, InPass
<1>5. Unfired'
  BY <1>3 DEF Unfired
<1>6. ASSUME NEW u \in Once, set'[u] PROVE Noticed(u)'
  <2>1. set[u] /\ u # t /\ Noticed(u)
    BY <1>3, <1>6
  <2>2. Duration(u)' = Duration(u) /\ Elapsed(u)' = Elapsed(u) /\ {Duration(u), Elapsed(u)} \subseteq Int
    BY <1>3, <1>6 DEF Duration, Elapsed
  <2>. QED
    BY <1>1, <1>2, <2>1, <2>2 DEF Noticed, InPass
<1>. QED
  BY <1>4, <1>5, <1>6

LEMMA PollOnce ==
    ASSUME OInv, EnterPoll \/ LeavePoll \/ PollFails
    PROVE  OInv'
<1>. USE Constants, OnceConstants DEF OInv, TypeOK, EnterPoll, LeavePoll, PollFails, timers, turn
<1>1. TypeOK' /\ Clock' /\ Unfired'
  BY DEF Clock, InPass, Unfired
<1>2. ASSUME NEW u \in Once, set'[u] PROVE Noticed(u)'
  <2>1. set[u] /\ Noticed(u)
    BY <1>2
  <2>2. CASE EnterPoll
    <3>1. u <= cursor /\ u # running
      BY <2>1, <2>2 DEF Ahead
    <3>. QED
      BY <2>1, <2>2, <3>1 DEF Noticed, InPass, Duration, Elapsed
  <2>3. CASE LeavePoll \/ PollFails
    BY <2>1, <2>3 DEF Noticed, Clock, InPass, Duration, Elapsed
  <2>. QED
    BY <2>2, <2>3
<1>. QED
  BY <1>1, <1>2

\* A millisecond passes for the snapshot's age as for the time since the start.
LEMMA TimeOnce ==
    ASSUME OInv, Work \/ Sleep
    PROVE  OInv'
<1>. USE Constants, OnceConstants DEF OInv, TypeOK
<1>1. /\ age' = age + 1 /\ UNCHANGED <<phase, set, fired, running, cursor, timeout>>
      /\ \A t \in Timers : due'[t] = IF set[t] \/ t = running THEN due[t] - 1 ELSE due[t]
      /\ due' \in [Timers -> Int]
  BY DEF Work, Sleep, Advance
<1>2. \/ phase \in {"pass", "callback", "events"} /\ busy < MaxBusy
         /\ busy' = busy + 1 /\ slept' = slept
      \/ phase = "poll" /\ slept < timeout /\ slept' = slept + 1 /\ busy' = busy
  BY DEF Work, Sleep
<1>3. TypeOK'
  BY <1>1, <1>2
<1>4. Clock' /\ Unfired'
  BY <1>1, <1>2 DEF Clock, InPass, Unfired
<1>5. ASSUME NEW u \in Once, set'[u] PROVE Noticed(u)'
  <2>1. set[u] /\ Noticed(u) /\ due'[u] = due[u] - 1
    BY <1>1, <1>5
  <2>2. Duration(u)' = Duration(u) /\ Elapsed(u)' = Elapsed(u) + 1 /\ {Duration(u), Elapsed(u)} \subseteq Int
    BY <1>1, <2>1 DEF Duration, Elapsed
  <2>. QED
    BY <1>1, <1>2, <2>1, <2>2 DEF Noticed, InPass
<1>. QED
  BY <1>3, <1>4, <1>5

LEMMA OnceStep ==
    ASSUME OInv, [Next]_vars
    PROVE  OInv'
<1>1. CASE UNCHANGED vars
  BY <1>1 DEF vars, timers, turn, OInv, TypeOK, Clock, Unfired, Noticed, InPass, Duration, Elapsed
<1>. QED
  BY <1>1, CommandOnce, PassOnce, EarlyOnce, FireOnce, ReturnOfOnce, PollOnce, TimeOnce
     DEF Next, Visit

-----------------------------------------------------------------------------
\* Every variable of the loop keeps its type, however long the callbacks take.
THEOREM LoopTypes == Spec => []TypeOK
<1>1. OInv => TypeOK
  BY DEF OInv
<1>. QED
  BY <1>1, InitOnce, OnceStep, PTL DEF Spec

(***************************************************************************)
(* A TIMER_ONCE timer fires at most once each time it is started, although *)
(* callbacks, its own among them, start and stop it: timerRun removes it   *)
(* after the callback whatever that did.                                   *)
(***************************************************************************)
THEOREM FiresOncePerStart == Spec => []OncePerStart
<1>1. OInv => OncePerStart
  BY DEF OInv, Unfired, OncePerStart
<1>. QED
  BY <1>1, InitOnce, OnceStep, PTL DEF Spec

(***************************************************************************)
(* A TIMER_ONCE timer that is set is less than two turns' work overdue, or *)
(* was started no longer than EPOLL_TIMEOUT and two turns' work ago: the   *)
(* pass that goes by a timer just started costs it one timeout, once.      *)
(***************************************************************************)
THEOREM LateByOnePollOnly == Spec => []LateByOnePoll
<1>1. OInv => LateByOnePoll
  <2>. SUFFICES ASSUME OInv, NEW t \in Once, set[t]
                PROVE  due[t] >= -2 * MaxBusy \/ Elapsed(t) <= PollTimeout + 2 * MaxBusy
    BY DEF LateByOnePoll, Elapsed
  <2>. USE Constants, OnceConstants DEF OInv, TypeOK
  <2>1. Noticed(t) /\ due[t] \in Int /\ Elapsed(t) \in Int
    BY DEF Elapsed
  <2>2. age <= MaxBusy + PollTimeout /\ (phase = "poll" => age <= busy + timeout)
    BY DEF Clock, InPass
  <2>3. CASE InPass /\ (t > cursor \/ t = running)
    BY <2>1, <2>3 DEF Noticed, Duration, Clock
  <2>4. CASE (InPass /\ t <= cursor /\ t # running) \/ phase = "poll"
    BY <2>1, <2>2, <2>4 DEF Noticed, Duration, Clock
  <2>5. CASE phase \in {"events", "ended"}
    BY <2>1, <2>2, <2>5 DEF Noticed
  <2>. QED
    BY <2>3, <2>4, <2>5 DEF InPass
<1>. QED
  BY <1>1, InitOnce, OnceStep, PTL DEF Spec

=============================================================================
