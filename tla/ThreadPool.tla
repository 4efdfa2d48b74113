----------------------------- MODULE ThreadPool -----------------------------
(***************************************************************************)
(* The thread pool of src/ThreadPool.cpp: a bounded queue of callbacks,    *)
(* worker threads that wait on queue_not_empty_, callers that wait on      *)
(* queue_not_full_, a manager thread that grows and shrinks the pool, and  *)
(* threadPoolDestroy.                                                      *)
(*                                                                         *)
(* A thread is identified with the slot of work_thread_ that names it.     *)
(* thread_pool_lock_ is explicit because the code also reads and writes    *)
(* pool state without it; a critical section that nothing unlocked can     *)
(* split is one action.  busy_task_lock_ guards one increment or one       *)
(* decrement at a time, so those are atomic and the mutex has no variable. *)
(* sleep(3) in the manager is an arbitrary delay.                          *)
(***************************************************************************)
EXTENDS Integers, Sequences, FiniteSets

CONSTANTS
    Workers,      \* slots filled by threadPoolStart: min_thread_num_ of them
    SpareSlots,   \* the other slots of work_thread_, max_thread_num_ in all
    Manager,      \* the thread of manager_thread_
    Producers,    \* threads that call addThreadPoolTask
    Destroyers,   \* the thread that calls threadPoolDestroy, if there is one
    MaxQueue,     \* max_queue_num_
    MaxTasks,     \* bound: calls of addThreadPoolTask in a behaviour
    Spurious,     \* whether pthread_cond_wait may return without a signal
    NoThread,     \* thread_pool_lock_ is free
    NoTask        \* a worker holds no task

Slots    == Workers \cup SpareSlots
Managers == SpareSlots \cup {Manager}
Threads  == Workers \cup Managers \cup Producers \cup Destroyers

MinThread == Cardinality(Workers)
MaxThread == Cardinality(Slots)

ASSUME ThreadsAssumption ==
    /\ IsFiniteSet(Workers) /\ IsFiniteSet(SpareSlots)
    /\ IsFiniteSet(Producers) /\ IsFiniteSet(Destroyers)
    /\ Cardinality(Destroyers) <= 1
    /\ Workers \cap (SpareSlots \cup {Manager} \cup Producers \cup Destroyers) = {}
    /\ SpareSlots \cap ({Manager} \cup Producers \cup Destroyers) = {}
    /\ Manager \notin Producers \cup Destroyers
    /\ Producers \cap Destroyers = {}
    /\ NoThread \notin Threads

ASSUME BoundsAssumption ==
    /\ MaxQueue \in Nat \ {0}
    /\ MaxTasks \in Nat
    /\ Spurious \in BOOLEAN
    /\ NoTask \notin Nat

VARIABLES
    pc,           \* where each thread is in its handler
    lock,         \* the thread that holds thread_pool_lock_
    queue,        \* thread_queue_
    held,         \* the task each worker copied out of the queue
    live,         \* live_thread_num_
    busy,         \* busy_thread_num_
    waitExit,     \* wait_exit_thread_num_
    shutDown,     \* shut_down_state_
    emptySlots,   \* the slots of work_thread_ whose word is 0
    plan,         \* what each manager decided from its snapshot
    woken,        \* signals sent by threadPoolDestroy
    pool,         \* "up", "freed" (delete this) or "crashed"
    accepted,     \* how many tasks entered the queue
    finished      \* the tasks whose callback has returned

tasks    == <<queue, held, accepted, finished>>
counts   == <<live, busy, waitExit>>
managing == <<emptySlots, plan>>
ending   == <<shutDown, woken, pool>>
vars     == <<pc, lock, tasks, counts, managing, ending>>

WorkerLabels   == {"lock", "sleep", "wait", "awake", "leave", "take", "start",
                   "run", "end", "exit", "gone"}
ManagerLabels  == {"unborn", "check", "nap", "grow", "shrink", "signal1",
                   "signal2", "gone"}
ProducerLabels == {"idle", "blocked", "awake", "push"}
DestroyLabels  == {"idle", "join", "wake", "release", "free", "done"}
Labels         == WorkerLabels \cup ManagerLabels \cup ProducerLabels \cup DestroyLabels

(***************************************************************************)
(* The state threadPoolStart leaves.  It creates every thread while it     *)
(* holds thread_pool_lock_, so no worker gets past its first lock before   *)
(* the counters are set.  new pthread_t[max] does not initialise the       *)
(* array: a slot with no thread holds 0 or something else.                 *)
(***************************************************************************)
Init ==
    /\ pc = [t \in Threads |->
                IF t \in Workers THEN "lock"
                ELSE IF t = Manager THEN "check"
                ELSE IF t \in SpareSlots THEN "unborn" ELSE "idle"]
    /\ lock = NoThread
    /\ queue = <<>>
    /\ held = [w \in Workers |-> NoTask]
    /\ live = MinThread
    /\ busy = 0
    /\ waitExit = 0
    /\ shutDown = FALSE
    /\ emptySlots \in SUBSET SpareSlots
    /\ plan = [m \in Managers |-> {}]
    /\ woken = 0
    /\ pool = "up"
    /\ accepted = 0
    /\ finished = {}

-----------------------------------------------------------------------------
(* Condition variables *)

WaitingWorkers   == {w \in Workers : pc[w] = "wait"}
BlockedProducers == {p \in Producers : pc[p] = "blocked"}

\* pthread_cond_signal: one waiting thread, if there is one, leaves the wait.
\* at is the pc of the other threads after the step.
Signal(waiting, at) ==
    IF waiting = {} THEN {at} ELSE {[at EXCEPT ![t] = "awake"] : t \in waiting}

\* pthread_cond_wait may return although nobody signalled.
SpuriousWakeup ==
    /\ Spurious
    /\ \E t \in WaitingWorkers \cup BlockedProducers :
           pc' = [pc EXCEPT ![t] = "awake"]
    /\ UNCHANGED <<lock, tasks, counts, managing, ending>>

-----------------------------------------------------------------------------
(* threadWorkHandler *)

\* The while condition, evaluated by a worker that holds the lock.
LoopTest(w) ==
    /\ lock' = w
    /\ pc' = [pc EXCEPT ![w] = IF queue = <<>> /\ ~shutDown THEN "sleep" ELSE "leave"]

WorkerLock(w) ==
    /\ pc[w] = "lock"
    /\ lock = NoThread
    /\ LoopTest(w)
    /\ UNCHANGED <<tasks, counts, managing, ending>>

\* pthread_cond_wait(&queue_not_empty_): releases the lock and waits.  The
\* worker holds the lock since its test, but shutDown and the signals of
\* threadPoolDestroy do not need the lock and may fall in between.
WorkerSleep(w) ==
    /\ pc[w] = "sleep"
    /\ lock' = NoThread
    /\ pc' = [pc EXCEPT ![w] = "wait"]
    /\ UNCHANGED <<tasks, counts, managing, ending>>

\* Mutant: retires whenever it is asked to, without looking at the minimum.
WorkerRetireAlways(w) ==
    /\ pc[w] = "awake" /\ lock = NoThread /\ waitExit > 0
    /\ waitExit' = waitExit - 1
    /\ live' = live - 1
    /\ pc' = [pc EXCEPT ![w] = "exit"]
    /\ UNCHANGED <<lock, tasks, busy, managing, ending>>

\* Back from the wait: retire if the manager asked for it and the pool is
\* above its minimum, whatever the queue holds; otherwise test again.
WorkerRetire(w) ==
    /\ pc[w] = "awake"
    /\ lock = NoThread
    /\ waitExit > 0
    /\ live > MinThread
    /\ waitExit' = waitExit - 1
    /\ live' = live - 1
    /\ pc' = [pc EXCEPT ![w] = "exit"]
    /\ UNCHANGED <<lock, tasks, busy, managing, ending>>

\* Mutant: if instead of while around the wait.
WorkerResumeIf(w) ==
    /\ pc[w] = "awake" /\ lock = NoThread /\ ~(waitExit > 0 /\ live > MinThread)
    /\ waitExit' = IF waitExit > 0 THEN waitExit - 1 ELSE waitExit
    /\ lock' = w
    /\ pc' = [pc EXCEPT ![w] = "leave"]
    /\ UNCHANGED <<tasks, live, busy, managing, ending>>

WorkerResume(w) ==
    /\ pc[w] = "awake"
    /\ lock = NoThread
    /\ ~(waitExit > 0 /\ live > MinThread)
    /\ waitExit' = IF waitExit > 0 THEN waitExit - 1 ELSE waitExit
    /\ LoopTest(w)
    /\ UNCHANGED <<tasks, live, busy, managing, ending>>

\* Mutant: does not test shut_down_state_ after the loop.
WorkerLeaveBlind(w) ==
    /\ pc[w] = "leave"
    /\ pc' = [pc EXCEPT ![w] = "take"]
    /\ UNCHANGED <<lock, tasks, counts, managing, ending>>

WorkerLeave(w) ==
    /\ pc[w] = "leave"
    /\ IF shutDown
          THEN lock' = NoThread /\ pc' = [pc EXCEPT ![w] = "exit"]
          ELSE lock' = lock     /\ pc' = [pc EXCEPT ![w] = "take"]
    /\ UNCHANGED <<tasks, counts, managing, ending>>

\* Mutant: does not signal queue_not_full_.
WorkerTakeSilent(w) ==
    /\ pc[w] = "take" /\ queue # <<>>
    /\ held' = [held EXCEPT ![w] = Head(queue)]
    /\ queue' = Tail(queue)
    /\ pc' = [pc EXCEPT ![w] = "start"]
    /\ lock' = NoThread
    /\ UNCHANGED <<accepted, finished, counts, managing, ending>>

\* Mutant: copies the task and does not erase it.
WorkerTakeKeep(w) ==
    /\ pc[w] = "take" /\ queue # <<>>
    /\ held' = [held EXCEPT ![w] = Head(queue)]
    /\ pc' \in Signal(BlockedProducers, [pc EXCEPT ![w] = "start"])
    /\ lock' = NoThread
    /\ UNCHANGED <<queue, accepted, finished, counts, managing, ending>>

WorkerTake(w) ==
    /\ pc[w] = "take"
    /\ queue # <<>>
    /\ held' = [held EXCEPT ![w] = Head(queue)]
    /\ queue' = Tail(queue)
    /\ pc' \in Signal(BlockedProducers, [pc EXCEPT ![w] = "start"])
    /\ lock' = NoThread
    /\ UNCHANGED <<accepted, finished, counts, managing, ending>>

\* threadPoolDestroy empties the queue without the lock; copying the first
\* element of an empty vector reads a null pointer.
WorkerTakeNothing(w) ==
    /\ pc[w] = "take"
    /\ queue = <<>>
    /\ pool' = "crashed"
    /\ UNCHANGED <<pc, lock, tasks, counts, managing, shutDown, woken>>

WorkerStart(w) ==
    /\ pc[w] = "start"
    /\ busy' = busy + 1
    /\ pc' = [pc EXCEPT ![w] = "run"]
    /\ UNCHANGED <<lock, tasks, live, waitExit, managing, ending>>

\* The callback runs with no lock held, then the task is freed.
WorkerRun(w) ==
    /\ pc[w] = "run"
    /\ finished' = finished \cup {held[w]}
    /\ held' = [held EXCEPT ![w] = NoTask]
    /\ pc' = [pc EXCEPT ![w] = "end"]
    /\ UNCHANGED <<lock, queue, accepted, counts, managing, ending>>

\* Mutant: no outer loop.
WorkerEndLeaves(w) ==
    /\ pc[w] = "end"
    /\ busy' = busy - 1
    /\ pc' = [pc EXCEPT ![w] = "exit"]
    /\ UNCHANGED <<lock, tasks, live, waitExit, managing, ending>>

WorkerEnd(w) ==
    /\ pc[w] = "end"
    /\ busy' = busy - 1
    /\ pc' = [pc EXCEPT ![w] = "lock"]
    /\ UNCHANGED <<lock, tasks, live, waitExit, managing, ending>>

\* threadExit: the loop finds the thread's slot and compares it with 0
\* (work_thread_[i] == 0), so the slot keeps its value.
WorkerExit(w) ==
    /\ pc[w] = "exit"
    /\ pc' = [pc EXCEPT ![w] = "gone"]
    /\ UNCHANGED <<lock, tasks, counts, managing, ending>>

Work(w) ==
    \/ WorkerLock(w) \/ WorkerSleep(w) \/ WorkerRetire(w) \/ WorkerResume(w)
    \/ WorkerLeave(w) \/ WorkerTake(w) \/ WorkerTakeNothing(w) \/ WorkerStart(w)
    \/ WorkerRun(w) \/ WorkerEnd(w) \/ WorkerExit(w)

-----------------------------------------------------------------------------
(* threadMangerHandler *)

\* Mutant: while (1).
ManagerCheckForever(m) ==
    /\ pc[m] = "check"
    /\ pc' = [pc EXCEPT ![m] = "nap"]
    /\ UNCHANGED <<lock, tasks, counts, managing, ending>>

\* The loop condition, read without the lock, then sleep(3).
ManagerCheck(m) ==
    /\ pc[m] = "check"
    /\ pc' = [pc EXCEPT ![m] = IF shutDown THEN "gone" ELSE "nap"]
    /\ UNCHANGED <<lock, tasks, counts, managing, ending>>

\* The snapshot taken under the lock, kept as the two conditions that the
\* code computes from it once the lock is released.
ManagerSample(m) ==
    /\ pc[m] = "nap"
    /\ lock = NoThread
    /\ plan' = [plan EXCEPT ![m] =
                   {d \in {"grow", "shrink"} :
                       \/ d = "grow" /\ Len(queue) > live /\ live < MaxThread
                       \/ d = "shrink" /\ busy * 2 < live /\ live > MinThread}]
    /\ pc' = [pc EXCEPT ![m] = "grow"]
    /\ UNCHANGED <<lock, tasks, counts, emptySlots, ending>>

\* The slots the creation loop fills: those that hold 0, at most two, and
\* no more than live_thread_num_ < max_thread_num_ lets through.
Fillable ==
    {S \in SUBSET emptySlots :
        /\ Cardinality(S) <= 2
        /\ live + Cardinality(S) <= MaxThread
        /\ \/ S = emptySlots
           \/ Cardinality(S) = 2
           \/ live + Cardinality(S) = MaxThread}

\* Mutant: creates threads and does not count them.
ManagerGrowUncounted(m) ==
    /\ pc[m] = "grow" /\ "grow" \in plan[m] /\ lock = NoThread
    /\ \E S \in Fillable :
          /\ emptySlots' = emptySlots \ S
          /\ pc' = [t \in Threads |-> IF t \in S THEN "check"
                                      ELSE IF t = m THEN "shrink" ELSE pc[t]]
    /\ UNCHANGED <<lock, tasks, counts, plan, ending>>

\* The new threads run threadMangerHandler: they are managers, not workers.
ManagerGrow(m) ==
    /\ pc[m] = "grow"
    /\ "grow" \in plan[m]
    /\ lock = NoThread
    /\ \E S \in Fillable :
          /\ emptySlots' = emptySlots \ S
          /\ live' = live + Cardinality(S)
          /\ pc' = [t \in Threads |-> IF t \in S THEN "check"
                                      ELSE IF t = m THEN "shrink" ELSE pc[t]]
    /\ UNCHANGED <<lock, tasks, busy, waitExit, plan, ending>>

\* Mutant: asks for two more instead of two.
ManagerShrinkMore(m) ==
    /\ pc[m] = "shrink" /\ "shrink" \in plan[m] /\ lock = NoThread
    /\ waitExit' = waitExit + 2
    /\ pc' = [pc EXCEPT ![m] = "signal1"]
    /\ UNCHANGED <<lock, tasks, live, busy, managing, ending>>

ManagerShrink(m) ==
    /\ pc[m] = "shrink"
    /\ "shrink" \in plan[m]
    /\ lock = NoThread
    /\ waitExit' = 2
    /\ pc' = [pc EXCEPT ![m] = "signal1"]
    /\ UNCHANGED <<lock, tasks, live, busy, managing, ending>>

ManagerSkip(m) ==
    /\ \/ pc[m] = "grow" /\ "grow" \notin plan[m] /\ pc' = [pc EXCEPT ![m] = "shrink"]
       \/ pc[m] = "shrink" /\ "shrink" \notin plan[m] /\ pc' = [pc EXCEPT ![m] = "check"]
    /\ UNCHANGED <<lock, tasks, counts, managing, ending>>

\* Two signals of queue_not_empty_, sent after the lock is released.
ManagerSignal(m) ==
    /\ pc[m] \in {"signal1", "signal2"}
    /\ pc' \in Signal(WaitingWorkers,
                      [pc EXCEPT ![m] = IF @ = "signal1" THEN "signal2" ELSE "check"])
    /\ UNCHANGED <<lock, tasks, counts, managing, ending>>

Manage(m) ==
    \/ ManagerCheck(m) \/ ManagerSample(m) \/ ManagerGrow(m) \/ ManagerShrink(m)
    \/ ManagerSkip(m) \/ ManagerSignal(m)

-----------------------------------------------------------------------------
(* addThreadPoolTask, from its lock or from the wait on queue_not_full_ to   *)
(* its unlock.  Nothing signals queue_not_empty_ after the push.             *)

InCall(p) == pc[p] \in {"blocked", "awake", "push"}

\* A caller may enter only while the bound on calls allows it.
MayEnter(p) ==
    \/ pc[p] = "awake"
    \/ /\ pc[p] = "idle"
       /\ accepted + Cardinality({q \in Producers : InCall(q)}) < MaxTasks

Block(p) ==
    /\ MayEnter(p)
    /\ lock = NoThread
    /\ Len(queue) = MaxQueue
    /\ ~shutDown
    /\ pc' = [pc EXCEPT ![p] = "blocked"]
    /\ UNCHANGED <<lock, tasks, counts, managing, ending>>

Refuse(p) ==
    /\ MayEnter(p)
    /\ lock = NoThread
    /\ shutDown
    /\ pc' = [pc EXCEPT ![p] = "idle"]
    /\ UNCHANGED <<lock, tasks, counts, managing, ending>>

\* Mutant: does not test the queue's length.
AdmitAlways(p) ==
    /\ MayEnter(p) /\ lock = NoThread /\ ~shutDown
    /\ lock' = p
    /\ pc' = [pc EXCEPT ![p] = "push"]
    /\ UNCHANGED <<tasks, counts, managing, ending>>

\* Both tests passed.  The caller holds the lock until it has pushed, but
\* threadPoolDestroy may run in between.
Admit(p) ==
    /\ MayEnter(p)
    /\ lock = NoThread
    /\ Len(queue) # MaxQueue
    /\ ~shutDown
    /\ lock' = p
    /\ pc' = [pc EXCEPT ![p] = "push"]
    /\ UNCHANGED <<tasks, counts, managing, ending>>

\* Mutant: the newest task goes first.
PushFirst(p) ==
    /\ pc[p] = "push"
    /\ accepted' = accepted + 1
    /\ queue' = <<accepted + 1>> \o queue
    /\ lock' = NoThread
    /\ pc' = [pc EXCEPT ![p] = "idle"]
    /\ UNCHANGED <<held, finished, counts, managing, ending>>

Push(p) ==
    /\ pc[p] = "push"
    /\ accepted' = accepted + 1
    /\ queue' = Append(queue, accepted + 1)
    /\ lock' = NoThread
    /\ pc' = [pc EXCEPT ![p] = "idle"]
    /\ UNCHANGED <<held, finished, counts, managing, ending>>

Submit(p) == Block(p) \/ Refuse(p) \/ Admit(p) \/ Push(p)

-----------------------------------------------------------------------------
(* threadPoolDestroy, which never takes thread_pool_lock_ *)

DestroyBegin(d) ==
    /\ pc[d] = "idle"
    /\ shutDown' = TRUE
    /\ pc' = [pc EXCEPT ![d] = "join"]
    /\ UNCHANGED <<lock, tasks, counts, managing, woken, pool>>

\* pthread_join(manager_thread_): only the first manager is joined.
DestroyJoin(d) ==
    /\ pc[d] = "join"
    /\ pc[Manager] = "gone"
    /\ pc' = [pc EXCEPT ![d] = "wake"]
    /\ UNCHANGED <<lock, tasks, counts, managing, ending>>

DestroyWake(d) ==
    /\ pc[d] = "wake"
    /\ \/ /\ woken < live
          /\ woken' = woken + 1
          /\ pc' \in Signal(WaitingWorkers, pc)
       \/ /\ woken >= live
          /\ woken' = woken
          /\ pc' = [pc EXCEPT ![d] = "release"]
    /\ UNCHANGED <<lock, tasks, counts, managing, shutDown, pool>>

DestroyQueue(d) ==
    /\ pc[d] = "release"
    /\ queue' = <<>>
    /\ pc' = [pc EXCEPT ![d] = "free"]
    /\ UNCHANGED <<lock, held, accepted, finished, counts, managing, ending>>

\* Frees work_thread_, the mutexes, the conditions and the pool itself.
DestroyFree(d) ==
    /\ pc[d] = "free"
    /\ pool' = "freed"
    /\ pc' = [pc EXCEPT ![d] = "done"]
    /\ UNCHANGED <<lock, tasks, counts, managing, shutDown, woken>>

Destroy(d) ==
    \/ DestroyBegin(d) \/ DestroyJoin(d) \/ DestroyWake(d) \/ DestroyQueue(d)
    \/ DestroyFree(d)

-----------------------------------------------------------------------------
\* Every step uses the pool; what happens after it is freed or after the
\* process has crashed is not described.
Next ==
    /\ pool = "up"
    /\ \/ \E w \in Workers : Work(w)
       \/ \E m \in Managers : Manage(m)
       \/ \E p \in Producers : Submit(p)
       \/ \E d \in Destroyers : Destroy(d)
       \/ SpuriousWakeup

Spec == Init /\ [][Next]_vars

(***************************************************************************)
(* Every thread that can step does so in the end: the scheduler runs every *)
(* thread, callbacks return, and a call of addThreadPoolTask or            *)
(* threadPoolDestroy once begun goes on.  Nobody has to make such a call,  *)
(* and no spurious wakeup has to come.                                     *)
(***************************************************************************)
Fairness ==
    /\ \A w \in Workers : WF_vars(pool = "up" /\ Work(w))
    /\ \A m \in Managers : WF_vars(pool = "up" /\ Manage(m))
    /\ \A p \in Producers : WF_vars(pool = "up" /\ pc[p] # "idle" /\ Submit(p))
    /\ \A d \in Destroyers : WF_vars(pool = "up" /\ pc[d] # "idle" /\ Destroy(d))

FairSpec == Spec /\ Fairness

-----------------------------------------------------------------------------
LabelsOK(at) ==
    /\ at \in [Threads -> Labels]
    /\ \A w \in Workers : at[w] \in WorkerLabels
    /\ \A m \in Managers : at[m] \in ManagerLabels
    /\ \A p \in Producers : at[p] \in ProducerLabels
    /\ \A d \in Destroyers : at[d] \in DestroyLabels

TypeOK ==
    /\ LabelsOK(pc)
    /\ lock \in Workers \cup Producers \cup {NoThread}
    /\ queue \in Seq(Nat)
    /\ held \in [Workers -> Nat \cup {NoTask}]
    /\ live \in Int
    /\ busy \in Int
    /\ waitExit \in 0..2
    /\ shutDown \in BOOLEAN
    /\ emptySlots \subseteq SpareSlots
    /\ plan \in [Managers -> SUBSET {"grow", "shrink"}]
    /\ woken \in Nat
    /\ pool \in {"up", "freed", "crashed"}
    /\ accepted \in Nat
    /\ finished \subseteq Nat

-----------------------------------------------------------------------------
(* What the state means *)

RunningTasks  == {held[w] : w \in Workers} \ {NoTask}
Counted       == {w \in Workers : pc[w] \notin {"exit", "gone"}}
Clones        == {s \in SpareSlots : pc[s] # "unborn"}
AwakeCallers  == {p \in Producers : pc[p] \in {"awake", "push"}}
QueueReleased == \E d \in Destroyers : pc[d] \in {"free", "done"}

(***************************************************************************)
(* Mutual exclusion of thread_pool_lock_: a worker or a caller is inside   *)
(* its critical section exactly while it owns the lock, so at most one is. *)
(***************************************************************************)
LockOwner ==
    /\ \A w \in Workers : lock = w <=> pc[w] \in {"sleep", "leave", "take"}
    /\ \A p \in Producers : lock = p <=> pc[p] = "push"

(***************************************************************************)
(* live_thread_num_ is the number of threads of work_thread_ that have not *)
(* left: workers, and the managers that ManagerGrow created.  Threads that *)
(* leave because of shut_down_state_ do not decrement it.                  *)
(***************************************************************************)
LiveCount ==
    /\ live >= Cardinality(Counted) + Cardinality(Clones)
    /\ ~shutDown => live = Cardinality(Counted) + Cardinality(Clones)

(***************************************************************************)
(* The pool stays within min_thread_num_ and max_thread_num_ although each *)
(* manager decides from a snapshot that is stale when it acts, and several *)
(* managers and retiring workers act at once.                              *)
(***************************************************************************)
LiveBounds == MinThread <= live /\ live <= MaxThread

(***************************************************************************)
(* A worker that decided to take a task finds one: between its test of the *)
(* queue and its erase nobody else empties the queue, unless the pool is   *)
(* being destroyed.                                                        *)
(***************************************************************************)
TakeFindsTask ==
    ~QueueReleased =>
        \A w \in Workers :
            pc[w] = "take" \/ (pc[w] = "leave" /\ ~shutDown) => queue # <<>>

(***************************************************************************)
(* The queue never holds more than max_queue_num_ tasks, and a caller that *)
(* passed its test still finds a free place when it pushes.                *)
(***************************************************************************)
QueueRoom ==
    /\ Len(queue) <= MaxQueue
    /\ \A p \in Producers : pc[p] = "push" => Len(queue) < MaxQueue

(***************************************************************************)
(* No wakeup of a caller is lost: while callers wait on queue_not_full_    *)
(* every free place of the queue belongs to a caller that has already been *)
(* signalled.  Callers that barge in between a signal and its receiver do  *)
(* not break it.  Once the pool shuts down waiting callers are abandoned.  *)
(***************************************************************************)
NoStrandedCaller ==
    ~shutDown /\ BlockedProducers # {}
        => MaxQueue - Len(queue) <= Cardinality(AwakeCallers)

(***************************************************************************)
(* Every accepted task is in exactly one place: in the queue, in the hands *)
(* of exactly one worker, or finished; only threadPoolDestroy drops tasks. *)
(* The queue holds the newest tasks in the order they were accepted.       *)
(***************************************************************************)
QueueOrder ==
    /\ Len(queue) <= accepted
    /\ \A i \in 1..Len(queue) : queue[i] = accepted - Len(queue) + i

TaskPlaces ==
    /\ QueueOrder
    /\ \A v, w \in Workers : v # w /\ held[v] = held[w] => held[v] = NoTask
    /\ RunningTasks \cap finished = {}
    /\ RunningTasks \cup finished \subseteq 1..(accepted - Len(queue))
    /\ ~QueueReleased => RunningTasks \cup finished = 1..(accepted - Len(queue))

\* A worker holds a task exactly from its take to the end of the callback.
HoldsWhileWorking ==
    \A w \in Workers : held[w] # NoTask <=> pc[w] \in {"start", "run"}

(***************************************************************************)
(* Once shut_down_state_ is set at most one more task is started or added: *)
(* by the worker or the caller that read the flag before and still holds   *)
(* the lock.  Everybody else leaves with nothing done.                     *)
(***************************************************************************)
Committed == {t \in Workers \cup Producers : pc[t] \in {"take", "push"}}

AtMostOneTaskAfterShutdown ==
    [][shutDown => /\ Cardinality(Committed) <= 1
                   /\ Committed' \subseteq Committed
                   /\ Committed' = Committed =>
                          accepted' = accepted /\ RunningTasks' \subseteq RunningTasks]_vars

(***************************************************************************)
(* The pool keeps the promises of TaskPool: tasks start in the order they  *)
(* were accepted, at most once each, and the queue never overflows.        *)
(***************************************************************************)
Promise == INSTANCE TaskPool WITH pending <- queue, running <- RunningTasks
KeepsPromise == Promise!Spec

-----------------------------------------------------------------------------
(* Liveness, under FairSpec *)

\* Workers that will test the queue again before they wait.
Working == {w \in Workers : pc[w] \in {"lock", "leave", "take", "start", "run", "end"}}

(***************************************************************************)
(* As long as one worker is working, the queue is drained, however many    *)
(* managers sample the pool and whoever else takes the lock.  (When every  *)
(* worker waits nothing guarantees it: see QueuedWakesWorker.)             *)
(***************************************************************************)
DrainedWhileWorking == queue # <<>> /\ Working # {} ~> queue = <<>>

(***************************************************************************)
(* A caller that waits for a full queue to drain returns, as long as one   *)
(* worker is working.                                                      *)
(***************************************************************************)
BlockedCallerReturns ==
    \A p \in Producers : pc[p] = "blocked" /\ Working # {} ~> pc[p] = "idle"

(***************************************************************************)
(* threadPoolDestroy never hangs: its join on the manager returns and its  *)
(* signalling loop ends although live_thread_num_ may still change.        *)
(***************************************************************************)
DestroyTerminates == shutDown ~> pool # "up"

-----------------------------------------------------------------------------
(* What comments of the code say and the code does not do *)

(***************************************************************************)
(* ThreadPool.cpp:124 "pthread_exit wrapped so that the element of the     *)
(* thread id array is cleared when a thread exits".                        *)
(***************************************************************************)
ExitClearsSlot == \A w \in Workers : pc[w] = "gone" => w \in emptySlots

(***************************************************************************)
(* ThreadPool.cpp:165 "wake the consumer threads, so that they exit by     *)
(* themselves in the handler": when the pool is freed its workers have     *)
(* left.                                                                   *)
(***************************************************************************)
FreedAfterWorkersLeft ==
    pool = "freed" => \A w \in Workers : pc[w] \in {"exit", "gone"}

(***************************************************************************)
(* ThreadPool.h:51 queue_not_empty_ "whether the task queue is empty": a   *)
(* worker that waits for the queue to be no longer empty is woken when     *)
(* there are tasks.                                                        *)
(***************************************************************************)
QueuedWakesWorker ==
    queue # <<>> /\ WaitingWorkers = Workers ~> WaitingWorkers # Workers \/ queue = <<>>
=============================================================================
