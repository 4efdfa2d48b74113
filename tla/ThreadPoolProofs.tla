-------------------------- MODULE ThreadPoolProofs --------------------------
(***************************************************************************)
(* Proofs about ThreadPool, for every number of workers, spare slots and   *)
(* callers, every queue capacity and with or without a destroyer: types    *)
(* and the lock, then the safety invariants, the refinement of TaskPool,   *)
(* and what may still happen after shutdown.                               *)
(***************************************************************************)
EXTENDS ThreadPool, FiniteSetTheorems, TLAPS

-----------------------------------------------------------------------------
(* pthread_cond_signal wakes nobody, or one of the waiting threads. *)
LEMMA SignalCases ==
    ASSUME NEW waiting, NEW at, NEW next \in Signal(waiting, at)
    PROVE  \/ next = at
           \/ \E t \in waiting : next = [at EXCEPT ![t] = "awake"]
BY DEF Signal

(* The four kinds of threads do not overlap. *)
LEMMA Kinds ==
    /\ \A w \in Workers : w \in Threads /\ w \notin Managers /\ w \notin Producers
                                        /\ w \notin Destroyers
    /\ \A m \in Managers : m \in Threads /\ m \notin Producers /\ m \notin Destroyers
    /\ \A p \in Producers : p \in Threads /\ p \notin Destroyers
    /\ \A d \in Destroyers : d \in Threads
    /\ \A s \in SpareSlots : s \in Managers /\ s # Manager
    /\ Manager \in Managers
    /\ NoThread \notin Threads
BY ThreadsAssumption DEF Threads, Managers

-----------------------------------------------------------------------------
(* Labels: moving one thread to a label of its own kind keeps them right. *)
LEMMA MoveWorker ==
    ASSUME NEW at, LabelsOK(at), NEW w \in Workers, NEW l \in WorkerLabels
    PROVE  LabelsOK([at EXCEPT ![w] = l])
BY Kinds DEF LabelsOK, Labels

LEMMA MoveManager ==
    ASSUME NEW at, LabelsOK(at), NEW m \in Managers, NEW l \in ManagerLabels
    PROVE  LabelsOK([at EXCEPT ![m] = l])
BY Kinds DEF LabelsOK, Labels

LEMMA MoveProducer ==
    ASSUME NEW at, LabelsOK(at), NEW p \in Producers, NEW l \in ProducerLabels
    PROVE  LabelsOK([at EXCEPT ![p] = l])
BY Kinds DEF LabelsOK, Labels

LEMMA MoveDestroyer ==
    ASSUME NEW at, LabelsOK(at), NEW d \in Destroyers, NEW l \in DestroyLabels
    PROVE  LabelsOK([at EXCEPT ![d] = l])
BY Kinds DEF LabelsOK, Labels

LEMMA SignalLabels ==
    ASSUME NEW at, LabelsOK(at), NEW waiting,
           waiting \in SUBSET Workers \/ waiting \in SUBSET Producers,
           NEW next \in Signal(waiting, at)
    PROVE  LabelsOK(next)
<1>1. CASE next = at
  BY <1>1
<1>2. ASSUME NEW t \in waiting, next = [at EXCEPT ![t] = "awake"]
      PROVE  LabelsOK(next)
  <2>1. "awake" \in WorkerLabels /\ "awake" \in ProducerLabels
    BY DEF WorkerLabels, ProducerLabels
  <2>. QED
    BY <1>2, <2>1, MoveWorker, MoveProducer
<1>. QED
  BY <1>1, <1>2, SignalCases

\* Every thread stays where it is, or was waiting and is now awake.
LEMMA SignalEffect ==
    ASSUME NEW at, DOMAIN at = Threads, NEW waiting, NEW next \in Signal(waiting, at),
           NEW t \in Threads
    PROVE  next[t] = at[t] \/ (t \in waiting /\ next[t] = "awake")
<1>1. CASE next = at
  BY <1>1
<1>2. ASSUME NEW u \in waiting, next = [at EXCEPT ![u] = "awake"]
      PROVE  next[t] = at[t] \/ (t \in waiting /\ next[t] = "awake")
  BY <1>2
<1>. QED
  BY <1>1, <1>2, SignalCases

-----------------------------------------------------------------------------
(***************************************************************************)
(* Types.  finished \subseteq Nat needs that a worker that runs a callback *)
(* holds a task, so HoldsWhileWorking is proved along.                     *)
(***************************************************************************)
LEMMA InitTypes == Init => TypeOK /\ HoldsWhileWorking
<1>. SUFFICES ASSUME Init PROVE TypeOK /\ HoldsWhileWorking
  OBVIOUS
<1>1. MinThread \in Int
  BY ThreadsAssumption, FS_CardinalityType DEF MinThread
<1>2. \A w \in Workers : pc[w] = "lock"
  BY Kinds DEF Init
<1>3. LabelsOK(pc)
  <2>1. /\ \A s \in SpareSlots : pc[s] = "unborn"
        /\ pc[Manager] = "check"
        /\ \A t \in Producers \cup Destroyers : pc[t] = "idle"
    BY Kinds DEF Init
  <2>2. \A t \in Threads : \/ t \in Workers \/ t \in SpareSlots \/ t = Manager
                           \/ t \in Producers \cup Destroyers
    BY DEF Threads, Managers
  <2>3. \A t \in Threads : pc[t] \in {"lock", "unborn", "check", "idle"}
    BY <1>2, <2>1, <2>2
  <2>4. pc \in [Threads -> Labels]
    <3>1. pc = [t \in Threads |-> pc[t]]
      BY DEF Init
    <3>2. \A t \in Threads : pc[t] \in Labels
      BY <2>3 DEF Labels, WorkerLabels, ManagerLabels, ProducerLabels, DestroyLabels
    <3>. QED
      BY <3>1, <3>2
  <2>. QED
    BY <1>2, <2>1, <2>4 DEF LabelsOK, Managers, WorkerLabels, ManagerLabels,
                            ProducerLabels, DestroyLabels
<1>4. queue \in Seq(Nat) /\ lock \in Workers \cup Producers \cup {NoThread}
  BY DEF Init
<1>5. held \in [Workers -> Nat \cup {NoTask}]
  BY DEF Init
<1>6. plan \in [Managers -> SUBSET {"grow", "shrink"}]
  BY DEF Init
<1>7. TypeOK
  <2>1. live \in Int /\ busy \in Int /\ waitExit \in 0..2 /\ woken \in Nat /\ accepted \in Nat
    BY <1>1 DEF Init
  <2>2. emptySlots \subseteq SpareSlots /\ finished \subseteq Nat
    BY DEF Init
  <2>3. shutDown \in BOOLEAN /\ pool \in {"up", "freed", "crashed"}
    BY DEF Init
  <2>. QED
    BY <1>3, <1>4, <1>5, <1>6, <2>1, <2>2, <2>3 DEF TypeOK
<1>8. HoldsWhileWorking
  BY <1>2 DEF HoldsWhileWorking, Init
<1>. QED
  BY <1>7, <1>8

LEMMA WorkerTypes ==
    ASSUME TypeOK, HoldsWhileWorking, NEW w \in Workers, Work(w)
    PROVE  TypeOK' /\ HoldsWhileWorking'
<1>. USE DEF TypeOK, tasks, counts, managing, ending
<1>. LabelsOK(pc) /\ w \in Threads
  BY Kinds
<1>1. CASE WorkerLock(w)
  <2>1. LabelsOK(pc')
    BY <1>1, MoveWorker DEF WorkerLock, WorkerLabels, LoopTest
  <2>. QED
    BY <1>1, <2>1 DEF WorkerLock, HoldsWhileWorking, LabelsOK, LoopTest
<1>2. CASE WorkerSleep(w)
  <2>1. LabelsOK(pc')
    BY <1>2, MoveWorker DEF WorkerSleep, WorkerLabels
  <2>. QED
    BY <1>2, <2>1 DEF WorkerSleep, HoldsWhileWorking, LabelsOK
<1>3. CASE WorkerRetire(w)
  <2>1. LabelsOK(pc')
    BY <1>3, MoveWorker DEF WorkerRetire, WorkerLabels
  <2>. QED
    BY <1>3, <2>1 DEF WorkerRetire, HoldsWhileWorking, LabelsOK
<1>4. CASE WorkerResume(w)
  <2>1. LabelsOK(pc')
    BY <1>4, MoveWorker DEF WorkerResume, WorkerLabels, LoopTest
  <2>. QED
    BY <1>4, <2>1 DEF WorkerResume, HoldsWhileWorking, LabelsOK, LoopTest
<1>5. CASE WorkerLeave(w)
  <2>1. PICK l \in {"exit", "take"} : pc' = [pc EXCEPT ![w] = l]
    BY <1>5 DEF WorkerLeave
  <2>2. LabelsOK(pc')
    BY <2>1, MoveWorker DEF WorkerLabels
  <2>3. HoldsWhileWorking'
    BY <1>5, <2>1 DEF WorkerLeave, HoldsWhileWorking, LabelsOK
  <2>. QED
    BY <1>5, <2>2, <2>3 DEF WorkerLeave
<1>6. CASE WorkerStart(w)
  <2>1. LabelsOK(pc')
    BY <1>6, MoveWorker DEF WorkerStart, WorkerLabels
  <2>. QED
    BY <1>6, <2>1 DEF WorkerStart, HoldsWhileWorking, LabelsOK
<1>7. CASE WorkerRun(w)
  <2>1. LabelsOK(pc')
    BY <1>7, MoveWorker DEF WorkerRun, WorkerLabels
  <2>2. held[w] \in Nat
    BY <1>7 DEF WorkerRun, HoldsWhileWorking
  <2>3. HoldsWhileWorking'
    BY <1>7 DEF WorkerRun, HoldsWhileWorking, LabelsOK
  <2>. QED
    BY <1>7, <2>1, <2>2, <2>3 DEF WorkerRun
<1>8. CASE WorkerEnd(w)
  <2>1. LabelsOK(pc')
    BY <1>8, MoveWorker DEF WorkerEnd, WorkerLabels
  <2>. QED
    BY <1>8, <2>1 DEF WorkerEnd, HoldsWhileWorking, LabelsOK
<1>9. CASE WorkerExit(w)
  <2>1. LabelsOK(pc')
    BY <1>9, MoveWorker DEF WorkerExit, WorkerLabels
  <2>. QED
    BY <1>9, <2>1 DEF WorkerExit, HoldsWhileWorking, LabelsOK
<1>10. CASE WorkerTake(w)
  <2>. DEFINE at == [pc EXCEPT ![w] = "start"]
  <2>1. LabelsOK(at) /\ DOMAIN at = Threads
    BY MoveWorker DEF WorkerLabels, LabelsOK
  <2>2. LabelsOK(pc')
    BY <1>10, <2>1, SignalLabels DEF WorkerTake, BlockedProducers
  <2>3. Head(queue) \in Nat /\ Tail(queue) \in Seq(Nat)
    BY <1>10 DEF WorkerTake
  <2>4. ASSUME NEW v \in Workers PROVE pc'[v] = at[v]
    <3>. HIDE DEF at
    <3>1. pc' \in Signal(BlockedProducers, at)
      BY <1>10 DEF WorkerTake, at
    <3>2. v \in Threads /\ v \notin BlockedProducers
      BY Kinds DEF BlockedProducers
    <3>. QED
      BY <2>1, <3>1, <3>2, SignalEffect
  <2>5. HoldsWhileWorking'
    BY <1>10, <2>3, <2>4, BoundsAssumption DEF WorkerTake, HoldsWhileWorking, LabelsOK
  <2>. QED
    BY <1>10, <2>2, <2>3, <2>5 DEF WorkerTake
<1>11. CASE WorkerTakeNothing(w)
  BY <1>11 DEF WorkerTakeNothing, HoldsWhileWorking
<1>. QED
  BY <1>1, <1>2, <1>3, <1>4, <1>5, <1>6, <1>7, <1>8, <1>9, <1>10, <1>11 DEF Work

\* A step that moves no worker into or out of its callback keeps what they hold.
LEMMA HoldsFrame ==
    ASSUME HoldsWhileWorking, held' = held,
           \A w \in Workers : pc'[w] = pc[w] \/ (pc[w] = "wait" /\ pc'[w] = "awake")
    PROVE  HoldsWhileWorking'
BY DEF HoldsWhileWorking

\* Signalling the workers from a thread that is no worker.
LEMMA SignalWorkers ==
    ASSUME NEW at, LabelsOK(at), \A w \in Workers : at[w] = pc[w],
           pc' \in Signal(WaitingWorkers, at)
    PROVE  /\ LabelsOK(pc')
           /\ \A w \in Workers : pc'[w] = pc[w] \/ (pc[w] = "wait" /\ pc'[w] = "awake")
<1>1. LabelsOK(pc')
  BY SignalLabels DEF WaitingWorkers
<1>2. DOMAIN at = Threads
  BY DEF LabelsOK
<1>. QED
  BY <1>1, <1>2, SignalEffect, Kinds DEF WaitingWorkers

LEMMA ManagerTypes ==
    ASSUME TypeOK, HoldsWhileWorking, NEW m \in Managers, Manage(m)
    PROVE  TypeOK' /\ HoldsWhileWorking'
<1>. USE DEF TypeOK, tasks, counts, managing, ending
<1>. LabelsOK(pc) /\ m \in Threads /\ m \notin Workers
  BY Kinds
<1>. \A w \in Workers : w # m /\ w \in Threads
  BY Kinds
<1>1. CASE ManagerCheck(m)
  <2>1. LabelsOK(pc')
    BY <1>1, MoveManager DEF ManagerCheck, ManagerLabels
  <2>2. HoldsWhileWorking'
    BY <1>1, HoldsFrame DEF ManagerCheck, LabelsOK
  <2>. QED
    BY <1>1, <2>1, <2>2 DEF ManagerCheck
<1>2. CASE ManagerSample(m)
  <2>1. LabelsOK(pc')
    BY <1>2, MoveManager DEF ManagerSample, ManagerLabels
  <2>2. HoldsWhileWorking'
    BY <1>2, HoldsFrame DEF ManagerSample, LabelsOK
  <2>. QED
    BY <1>2, <2>1, <2>2 DEF ManagerSample
<1>3. CASE ManagerGrow(m)
  <2>1. PICK S \in Fillable :
            /\ emptySlots' = emptySlots \ S
            /\ live' = live + Cardinality(S)
            /\ pc' = [t \in Threads |-> IF t \in S THEN "check"
                                        ELSE IF t = m THEN "shrink" ELSE pc[t]]
    BY <1>3 DEF ManagerGrow
  <2>2. S \subseteq SpareSlots /\ Cardinality(S) \in Int
    <3>1. S \subseteq SpareSlots
      BY DEF Fillable
    <3>2. IsFiniteSet(S)
      BY <3>1, ThreadsAssumption, FS_Subset
    <3>. QED
      BY <3>1, <3>2, FS_CardinalityType
  <2>3. \A t \in Threads : t \notin Managers => pc'[t] = pc[t]
    BY <2>1, <2>2, Kinds
  <2>4. \A t \in Managers : pc'[t] \in ManagerLabels
    BY <2>1, Kinds DEF LabelsOK, ManagerLabels
  <2>5. LabelsOK(pc')
    <3>1. \A t \in Threads : pc'[t] \in Labels
      BY <2>3, <2>4 DEF LabelsOK, Labels
    <3>2. pc' \in [Threads -> Labels]
      BY <2>1, <3>1
    <3>. QED
      BY <2>3, <2>4, <3>2, Kinds DEF LabelsOK
  <2>6. HoldsWhileWorking'
    BY <1>3, <2>3, HoldsFrame, Kinds DEF ManagerGrow
  <2>. QED
    BY <1>3, <2>1, <2>2, <2>5, <2>6 DEF ManagerGrow
<1>4. CASE ManagerShrink(m)
  <2>1. LabelsOK(pc')
    BY <1>4, MoveManager DEF ManagerShrink, ManagerLabels
  <2>2. HoldsWhileWorking'
    BY <1>4, HoldsFrame DEF ManagerShrink, LabelsOK
  <2>. QED
    BY <1>4, <2>1, <2>2 DEF ManagerShrink
<1>5. CASE ManagerSkip(m)
  <2>1. PICK l \in {"shrink", "check"} : pc' = [pc EXCEPT ![m] = l]
    BY <1>5 DEF ManagerSkip
  <2>2. LabelsOK(pc')
    BY <2>1, MoveManager DEF ManagerLabels
  <2>3. HoldsWhileWorking'
    BY <1>5, <2>1, HoldsFrame DEF ManagerSkip, LabelsOK
  <2>. QED
    BY <1>5, <2>2, <2>3 DEF ManagerSkip
<1>6. CASE ManagerSignal(m)
  <2>. DEFINE at == [pc EXCEPT ![m] = IF @ = "signal1" THEN "signal2" ELSE "check"]
  <2>1. LabelsOK(at) /\ \A w \in Workers : at[w] = pc[w]
    BY MoveManager DEF ManagerLabels, LabelsOK
  <2>2. LabelsOK(pc') /\ HoldsWhileWorking'
    BY <1>6, <2>1, SignalWorkers, HoldsFrame DEF ManagerSignal
  <2>. QED
    BY <1>6, <2>2 DEF ManagerSignal
<1>. QED
  BY <1>1, <1>2, <1>3, <1>4, <1>5, <1>6 DEF Manage

LEMMA CallerTypes ==
    ASSUME TypeOK, HoldsWhileWorking, NEW p \in Producers, Submit(p)
    PROVE  TypeOK' /\ HoldsWhileWorking'
<1>. USE DEF TypeOK, tasks, counts, managing, ending
<1>. LabelsOK(pc) /\ p \in Threads
  BY Kinds
<1>. \A w \in Workers : w # p /\ w \in Threads
  BY Kinds
<1>1. CASE Block(p)
  <2>1. LabelsOK(pc')
    BY <1>1, MoveProducer DEF Block, ProducerLabels
  <2>2. HoldsWhileWorking'
    BY <1>1, HoldsFrame DEF Block, LabelsOK
  <2>. QED
    BY <1>1, <2>1, <2>2 DEF Block
<1>2. CASE Refuse(p)
  <2>1. LabelsOK(pc')
    BY <1>2, MoveProducer DEF Refuse, ProducerLabels
  <2>2. HoldsWhileWorking'
    BY <1>2, HoldsFrame DEF Refuse, LabelsOK
  <2>. QED
    BY <1>2, <2>1, <2>2 DEF Refuse
<1>3. CASE Admit(p)
  <2>1. LabelsOK(pc')
    BY <1>3, MoveProducer DEF Admit, ProducerLabels
  <2>2. HoldsWhileWorking'
    BY <1>3, HoldsFrame DEF Admit, LabelsOK
  <2>. QED
    BY <1>3, <2>1, <2>2 DEF Admit
<1>4. CASE Push(p)
  <2>1. LabelsOK(pc')
    BY <1>4, MoveProducer DEF Push, ProducerLabels
  <2>2. HoldsWhileWorking'
    BY <1>4, HoldsFrame DEF Push, LabelsOK
  <2>. QED
    BY <1>4, <2>1, <2>2 DEF Push
<1>. QED
  BY <1>1, <1>2, <1>3, <1>4 DEF Submit

LEMMA DestroyerTypes ==
    ASSUME TypeOK, HoldsWhileWorking, NEW d \in Destroyers, Destroy(d)
    PROVE  TypeOK' /\ HoldsWhileWorking'
<1>. USE DEF TypeOK, tasks, counts, managing, ending
<1>. LabelsOK(pc) /\ d \in Threads
  BY Kinds
<1>. \A w \in Workers : w # d /\ w \in Threads
  BY Kinds
<1>1. CASE DestroyBegin(d)
  <2>1. LabelsOK(pc')
    BY <1>1, MoveDestroyer DEF DestroyBegin, DestroyLabels
  <2>2. HoldsWhileWorking'
    BY <1>1, HoldsFrame DEF DestroyBegin, LabelsOK
  <2>. QED
    BY <1>1, <2>1, <2>2 DEF DestroyBegin
<1>2. CASE DestroyJoin(d)
  <2>1. LabelsOK(pc')
    BY <1>2, MoveDestroyer DEF DestroyJoin, DestroyLabels
  <2>2. HoldsWhileWorking'
    BY <1>2, HoldsFrame DEF DestroyJoin, LabelsOK
  <2>. QED
    BY <1>2, <2>1, <2>2 DEF DestroyJoin
<1>3. CASE DestroyQueue(d)
  <2>1. LabelsOK(pc')
    BY <1>3, MoveDestroyer DEF DestroyQueue, DestroyLabels
  <2>2. HoldsWhileWorking'
    BY <1>3, HoldsFrame DEF DestroyQueue, LabelsOK
  <2>. QED
    BY <1>3, <2>1, <2>2 DEF DestroyQueue
<1>4. CASE DestroyFree(d)
  <2>1. LabelsOK(pc')
    BY <1>4, MoveDestroyer DEF DestroyFree, DestroyLabels
  <2>2. HoldsWhileWorking'
    BY <1>4, HoldsFrame DEF DestroyFree, LabelsOK
  <2>. QED
    BY <1>4, <2>1, <2>2 DEF DestroyFree
<1>5. CASE DestroyWake(d)
  <2>1. CASE woken < live /\ woken' = woken + 1 /\ pc' \in Signal(WaitingWorkers, pc)
    <3>1. LabelsOK(pc') /\ HoldsWhileWorking'
      BY <1>5, <2>1, SignalWorkers, HoldsFrame DEF DestroyWake
    <3>. QED
      BY <1>5, <2>1, <3>1 DEF DestroyWake
  <2>2. CASE woken' = woken /\ pc' = [pc EXCEPT ![d] = "release"]
    <3>1. LabelsOK(pc')
      BY <2>2, MoveDestroyer DEF DestroyLabels
    <3>2. HoldsWhileWorking'
      BY <1>5, <2>2, HoldsFrame DEF DestroyWake, LabelsOK
    <3>. QED
      BY <1>5, <2>2, <3>1, <3>2 DEF DestroyWake
  <2>. QED
    BY <1>5, <2>1, <2>2 DEF DestroyWake
<1>. QED
  BY <1>1, <1>2, <1>3, <1>4, <1>5 DEF Destroy

LEMMA WakeupTypes ==
    ASSUME TypeOK, HoldsWhileWorking, SpuriousWakeup
    PROVE  TypeOK' /\ HoldsWhileWorking'
<1>. USE DEF TypeOK, tasks, counts, managing, ending
<1>1. PICK t \in WaitingWorkers \cup BlockedProducers : pc' = [pc EXCEPT ![t] = "awake"]
  BY DEF SpuriousWakeup
<1>2. LabelsOK(pc')
  BY <1>1, MoveWorker, MoveProducer
     DEF WaitingWorkers, BlockedProducers, WorkerLabels, ProducerLabels
<1>3. \A w \in Workers : pc'[w] = pc[w] \/ (pc[w] = "wait" /\ pc'[w] = "awake")
  BY <1>1, Kinds DEF WaitingWorkers, BlockedProducers, LabelsOK
<1>. QED
  BY <1>2, <1>3, HoldsFrame DEF SpuriousWakeup

LEMMA TypeStep ==
    TypeOK /\ HoldsWhileWorking /\ [Next]_vars => TypeOK' /\ HoldsWhileWorking'
<1>. SUFFICES ASSUME TypeOK, HoldsWhileWorking, [Next]_vars
              PROVE  TypeOK' /\ HoldsWhileWorking'
  OBVIOUS
<1>1. CASE UNCHANGED vars
  BY <1>1 DEF vars, tasks, counts, managing, ending, TypeOK, LabelsOK, HoldsWhileWorking
<1>2. CASE Next
  BY <1>2, WorkerTypes, ManagerTypes, CallerTypes, DestroyerTypes, WakeupTypes DEF Next
<1>. QED
  BY <1>1, <1>2

(***************************************************************************)
(* Every variable keeps its type, and a worker holds a task exactly while  *)
(* it is between its take and the end of the callback: the wait loop, the  *)
(* retirement and the shutdown path never leave with a task in hand.       *)
(***************************************************************************)
THEOREM TypeCorrect == Spec => [](TypeOK /\ HoldsWhileWorking)
<1>1. Init => TypeOK /\ HoldsWhileWorking
  BY InitTypes
<1>2. TypeOK /\ HoldsWhileWorking /\ [Next]_vars => (TypeOK /\ HoldsWhileWorking)'
  BY TypeStep
<1>. QED
  BY <1>1, <1>2, PTL DEF Spec

-----------------------------------------------------------------------------
(***************************************************************************)
(* What each kind of thread leaves alone.  The invariants below are about  *)
(* workers and callers, so the managers, the destroyer and the spurious    *)
(* wakeups matter only through these facts.                                *)
(***************************************************************************)
OthersMayWake ==
    /\ \A w \in Workers : pc'[w] = pc[w] \/ (pc[w] = "wait" /\ pc'[w] = "awake")
    /\ \A p \in Producers : pc'[p] = pc[p]

LEMMA SignalWorkersOnly ==
    ASSUME NEW at, LabelsOK(at), pc' \in Signal(WaitingWorkers, at),
           \A t \in Workers \cup Producers : at[t] = pc[t]
    PROVE  OthersMayWake /\ \A t \in Threads \ Workers : pc'[t] = at[t]
<1>1. DOMAIN at = Threads
  BY DEF LabelsOK
<1>2. WaitingWorkers \subseteq Workers /\ \A w \in WaitingWorkers : pc[w] = "wait"
  BY DEF WaitingWorkers
<1>3. \A t \in Threads : pc'[t] = at[t] \/ (t \in WaitingWorkers /\ pc'[t] = "awake")
  BY <1>1, SignalEffect
<1>. QED
  BY <1>2, <1>3, Kinds DEF OthersMayWake

LEMMA ManagerQuiet ==
    ASSUME TypeOK, NEW m \in Managers, Manage(m)
    PROVE  /\ UNCHANGED <<lock, tasks, ending, busy>>
           /\ OthersMayWake
           /\ \A d \in Destroyers : pc'[d] = pc[d]
<1>. USE DEF tasks, counts, managing, ending
<1>. LabelsOK(pc) /\ m \in Threads
  BY Kinds DEF TypeOK
<1>1. CASE ManagerSignal(m)
  <2>. DEFINE at == [pc EXCEPT ![m] = IF @ = "signal1" THEN "signal2" ELSE "check"]
  <2>1. LabelsOK(at)
    BY MoveManager DEF ManagerLabels
  <2>2. \A t \in Threads \ Managers : at[t] = pc[t]
    BY DEF LabelsOK
  <2>3. pc' \in Signal(WaitingWorkers, at)
    BY <1>1 DEF ManagerSignal
  <2>. HIDE DEF at
  <2>4. OthersMayWake /\ \A t \in Threads \ Workers : pc'[t] = at[t]
    BY <2>1, <2>2, <2>3, SignalWorkersOnly, Kinds
  <2>. QED
    BY <1>1, <2>2, <2>4, Kinds DEF ManagerSignal
<1>2. CASE ManagerGrow(m)
  <2>1. \A t \in Threads : t \notin Managers => pc'[t] = pc[t]
    BY <1>2 DEF ManagerGrow, Fillable, Managers, TypeOK
  <2>. QED
    BY <1>2, <2>1, Kinds DEF ManagerGrow, OthersMayWake
<1>3. CASE ManagerCheck(m) \/ ManagerSample(m) \/ ManagerShrink(m) \/ ManagerSkip(m)
  <2>1. \A t \in Threads \ Managers : pc'[t] = pc[t]
    BY <1>3 DEF ManagerCheck, ManagerSample, ManagerShrink, ManagerSkip, LabelsOK
  <2>2. UNCHANGED <<lock, tasks, ending, busy>>
    BY <1>3 DEF ManagerCheck, ManagerSample, ManagerShrink, ManagerSkip
  <2>. QED
    BY <2>1, <2>2, Kinds DEF OthersMayWake
<1>. QED
  BY <1>1, <1>2, <1>3 DEF Manage

LEMMA DestroyerQuiet ==
    ASSUME TypeOK, NEW d \in Destroyers, Destroy(d)
    PROVE  /\ UNCHANGED <<lock, held, accepted, finished, counts, managing>>
           /\ OthersMayWake
           /\ \A m \in Managers : pc'[m] = pc[m]
           /\ \A e \in Destroyers \ {d} : pc'[e] = pc[e]
           /\ pc'[d] # "idle"
           /\ shutDown' = (shutDown \/ pc[d] = "idle")
           /\ \/ queue' = queue /\ (pc[d] \in {"free", "done"} => pc'[d] \in {"free", "done"})
              \/ queue' = <<>> /\ pc[d] = "release" /\ pc'[d] = "free"
<1>. USE DEF tasks, counts, managing, ending
<1>. LabelsOK(pc) /\ d \in Threads /\ shutDown \in BOOLEAN
  BY Kinds DEF TypeOK
<1>1. CASE DestroyWake(d) /\ pc' \in Signal(WaitingWorkers, pc)
  <2>1. OthersMayWake /\ \A t \in Threads \ Workers : pc'[t] = pc[t]
    BY <1>1, SignalWorkersOnly
  <2>. QED
    BY <1>1, <2>1, Kinds DEF DestroyWake
<1>2. CASE DestroyWake(d) /\ pc' = [pc EXCEPT ![d] = "release"]
  BY <1>2, Kinds DEF DestroyWake, OthersMayWake, LabelsOK
<1>3. CASE DestroyBegin(d)
  BY <1>3, Kinds DEF DestroyBegin, OthersMayWake, LabelsOK
<1>4. CASE DestroyJoin(d)
  BY <1>4, Kinds DEF DestroyJoin, OthersMayWake, LabelsOK
<1>5. CASE DestroyQueue(d)
  BY <1>5, Kinds DEF DestroyQueue, OthersMayWake, LabelsOK
<1>6. CASE DestroyFree(d)
  BY <1>6, Kinds DEF DestroyFree, OthersMayWake, LabelsOK
<1>. QED
  BY <1>1, <1>2, <1>3, <1>4, <1>5, <1>6 DEF Destroy, DestroyWake

LEMMA WakeupQuiet ==
    ASSUME TypeOK, SpuriousWakeup
    PROVE  /\ UNCHANGED <<lock, tasks, counts, managing, ending>>
           /\ \A w \in Workers : pc'[w] = pc[w] \/ (pc[w] = "wait" /\ pc'[w] = "awake")
           /\ \A p \in Producers : pc'[p] = pc[p] \/ (pc[p] = "blocked" /\ pc'[p] = "awake")
           /\ \A t \in Managers \cup Destroyers : pc'[t] = pc[t]
<1>1. PICK t \in WaitingWorkers \cup BlockedProducers : pc' = [pc EXCEPT ![t] = "awake"]
  BY DEF SpuriousWakeup
<1>2. LabelsOK(pc)
  BY DEF TypeOK
<1>3. UNCHANGED <<lock, tasks, counts, managing, ending>>
  BY DEF SpuriousWakeup
<1>. QED
  BY <1>1, <1>2, <1>3, Kinds DEF WaitingWorkers, BlockedProducers, LabelsOK

-----------------------------------------------------------------------------
(* thread_pool_lock_ *)

Critical == {"sleep", "leave", "take", "push"}

LEMMA LockFrame ==
    ASSUME TypeOK, TypeOK', LockOwner, lock' = lock,
           \A t \in Workers \cup Producers :
               pc'[t] = pc[t] \/ (pc[t] \notin Critical /\ pc'[t] \notin Critical)
    PROVE  LockOwner'
<1>1. ASSUME NEW w \in Workers PROVE (lock = w <=> pc[w] \in {"sleep", "leave", "take"})'
  BY DEF LockOwner, Critical
<1>2. ASSUME NEW p \in Producers PROVE (lock = p <=> pc[p] = "push")'
  BY DEF LockOwner, Critical
<1>. QED
  BY <1>1, <1>2 DEF LockOwner

LEMMA LockTaken ==
    ASSUME TypeOK, LockOwner, lock = NoThread,
           NEW t \in Workers \cup Producers, lock' = t,
           NEW l \in Critical, pc' = [pc EXCEPT ![t] = l],
           t \in Workers <=> l # "push"
    PROVE  LockOwner'
<1>. LabelsOK(pc) /\ t \in Threads
  BY Kinds DEF TypeOK
<1>. \A u \in Workers \cup Producers : u \in Threads /\ u # NoThread
  BY Kinds
<1>1. ASSUME NEW w \in Workers PROVE (lock = w <=> pc[w] \in {"sleep", "leave", "take"})'
  BY DEF LockOwner, Critical, LabelsOK
<1>2. ASSUME NEW p \in Producers PROVE (lock = p <=> pc[p] = "push")'
  BY Kinds DEF LockOwner, Critical, LabelsOK
<1>. QED
  BY <1>1, <1>2 DEF LockOwner

LEMMA LockReleased ==
    ASSUME TypeOK, LockOwner, NEW t \in Workers \cup Producers, pc[t] \in Critical,
           lock' = NoThread, pc'[t] \notin Critical,
           \A u \in (Workers \cup Producers) \ {t} : pc'[u] = pc[u] \/ pc'[u] = "awake"
    PROVE  LockOwner'
<1>. \A u \in Workers \cup Producers : u # NoThread
  BY Kinds
<1>. LabelsOK(pc)
  BY DEF TypeOK
<1>1. lock = t
  BY DEF LockOwner, Critical, LabelsOK, WorkerLabels, ProducerLabels
<1>2. ASSUME NEW w \in Workers PROVE (lock = w <=> pc[w] \in {"sleep", "leave", "take"})'
  BY <1>1 DEF LockOwner, Critical
<1>3. ASSUME NEW p \in Producers PROVE (lock = p <=> pc[p] = "push")'
  BY <1>1 DEF LockOwner, Critical
<1>. QED
  BY <1>2, <1>3 DEF LockOwner

\* What WorkerTake does to the other threads: at most one caller wakes.
LEMMA TakeEffect ==
    ASSUME TypeOK, NEW w \in Workers, WorkerTake(w)
    PROVE  /\ pc'[w] = "start"
           /\ \A t \in Threads \ (Producers \cup {w}) : pc'[t] = pc[t]
           /\ \A p \in Producers : pc'[p] = pc[p] \/ (pc[p] = "blocked" /\ pc'[p] = "awake")
<1>. DEFINE at == [pc EXCEPT ![w] = "start"]
<1>1. LabelsOK(pc) /\ w \in Threads /\ w \notin Producers
  BY Kinds DEF TypeOK
<1>2. /\ DOMAIN at = Threads
      /\ at[w] = "start"
      /\ \A t \in Threads \ {w} : at[t] = pc[t]
  BY <1>1 DEF LabelsOK
<1>3. pc' \in Signal(BlockedProducers, at)
  BY DEF WorkerTake
<1>. HIDE DEF at
<1>4. \A t \in Threads : pc'[t] = at[t] \/ (t \in BlockedProducers /\ pc'[t] = "awake")
  BY <1>2, <1>3, SignalEffect
<1>. QED
  BY <1>1, <1>2, <1>4, Kinds DEF BlockedProducers

LEMMA WorkerLockStep ==
    ASSUME TypeOK, TypeOK', LockOwner, NEW w \in Workers, Work(w)
    PROVE  LockOwner'
<1>. LabelsOK(pc) /\ w \in Threads
  BY Kinds DEF TypeOK
<1>. \A u \in Workers \cup Producers : u \in Threads /\ u # NoThread
  BY Kinds
<1>1. CASE WorkerLock(w) \/ WorkerResume(w)
  <2>1. PICK l \in {"sleep", "leave"} : pc' = [pc EXCEPT ![w] = l]
    BY <1>1 DEF WorkerLock, WorkerResume, LoopTest
  <2>2. lock = NoThread /\ lock' = w
    BY <1>1 DEF WorkerLock, WorkerResume, LoopTest
  <2>. QED
    BY <2>1, <2>2, LockTaken DEF Critical
<1>2. CASE WorkerSleep(w)
  BY <1>2, LockReleased DEF WorkerSleep, Critical, LabelsOK
<1>3. CASE WorkerLeave(w) /\ shutDown
  BY <1>3, LockReleased DEF WorkerLeave, Critical, LabelsOK
<1>4. CASE WorkerLeave(w) /\ ~shutDown
  BY <1>4 DEF WorkerLeave, LockOwner, LabelsOK
<1>5. CASE WorkerTake(w)
  <2>1. \A u \in (Workers \cup Producers) \ {w} : pc'[u] = pc[u] \/ pc'[u] = "awake"
    BY <1>5, TakeEffect, Kinds
  <2>. QED
    BY <1>5, <2>1, TakeEffect, LockReleased DEF WorkerTake, Critical
<1>6. CASE WorkerRetire(w) \/ WorkerStart(w) \/ WorkerRun(w) \/ WorkerEnd(w) \/ WorkerExit(w)
  BY <1>6, LockFrame DEF WorkerRetire, WorkerStart, WorkerRun, WorkerEnd, WorkerExit,
                         Critical, LabelsOK, tasks, counts
<1>7. CASE WorkerTakeNothing(w)
  BY <1>7, LockFrame DEF WorkerTakeNothing
<1>. QED
  BY <1>1, <1>2, <1>3, <1>4, <1>5, <1>6, <1>7 DEF Work

LEMMA CallerLockStep ==
    ASSUME TypeOK, TypeOK', LockOwner, NEW p \in Producers, Submit(p)
    PROVE  LockOwner'
<1>. LabelsOK(pc) /\ p \in Threads /\ p \notin Workers
  BY Kinds DEF TypeOK
<1>. \A u \in Workers \cup Producers : u \in Threads /\ u # NoThread
  BY Kinds
<1>1. CASE Block(p) \/ Refuse(p)
  BY <1>1, LockFrame DEF Block, Refuse, MayEnter, Critical, LabelsOK
<1>2. CASE Admit(p)
  BY <1>2, LockTaken DEF Admit, Critical
<1>3. CASE Push(p)
  BY <1>3, LockReleased DEF Push, Critical, LabelsOK
<1>. QED
  BY <1>1, <1>2, <1>3 DEF Submit

LEMMA LockStep ==
    ASSUME TypeOK, TypeOK', LockOwner, [Next]_vars
    PROVE  LockOwner'
<1>1. CASE UNCHANGED vars
  BY <1>1 DEF vars, LockOwner
<1>2. ASSUME NEW m \in Managers, Manage(m) PROVE LockOwner'
  BY <1>2, ManagerQuiet, LockFrame DEF OthersMayWake, Critical
<1>3. ASSUME NEW d \in Destroyers, Destroy(d) PROVE LockOwner'
  BY <1>3, DestroyerQuiet, LockFrame DEF OthersMayWake, Critical
<1>4. CASE SpuriousWakeup
  BY <1>4, WakeupQuiet, LockFrame DEF Critical
<1>. QED
  BY <1>1, <1>2, <1>3, <1>4, WorkerLockStep, CallerLockStep DEF Next

(***************************************************************************)
(* thread_pool_lock_ is held exactly by the thread that is in a critical   *)
(* section, so two workers, two callers, or a worker and a caller are      *)
(* never in theirs at once.                                                *)
(***************************************************************************)
THEOREM MutualExclusion == Spec => []LockOwner
<1>1. Init => LockOwner
  <2>. SUFFICES ASSUME Init PROVE LockOwner
    OBVIOUS
  <2>1. \A w \in Workers : pc[w] = "lock" /\ lock # w
    BY Kinds DEF Init
  <2>2. \A p \in Producers : pc[p] = "idle" /\ lock # p
    BY Kinds DEF Init, Managers
  <2>. QED
    BY <2>1, <2>2 DEF LockOwner
<1>2. TypeOK /\ TypeOK' /\ LockOwner /\ [Next]_vars => LockOwner'
  BY LockStep
<1>. QED
  BY <1>1, <1>2, TypeCorrect, PTL DEF Spec

-----------------------------------------------------------------------------
(* The number of threads *)

LEMMA Sizes == MinThread \in Nat /\ MaxThread \in Nat /\ MinThread <= MaxThread
<1>1. IsFiniteSet(Slots) /\ Workers \subseteq Slots
  BY ThreadsAssumption, FS_Union DEF Slots
<1>2. Cardinality(Workers) <= Cardinality(Slots)
  BY <1>1, FS_Subset
<1>. QED
  BY <1>1, <1>2, ThreadsAssumption, FS_CardinalityType DEF MinThread, MaxThread

(***************************************************************************)
(* Every manager re-tests live_thread_num_ under the lock while it creates *)
(* threads, and every retiring worker does so before it decrements, so the *)
(* stale snapshots never push the count out of its bounds.                 *)
(***************************************************************************)
THEOREM LiveStaysInBounds == Spec => []LiveBounds
<1>. USE DEF LiveBounds
<1>1. Init => LiveBounds
  BY Sizes DEF Init
<1>2. TypeOK /\ LiveBounds /\ [Next]_vars => LiveBounds'
  <2>. SUFFICES ASSUME TypeOK, LiveBounds, [Next]_vars PROVE LiveBounds'
    OBVIOUS
  <2>. USE Sizes
  <2>. live \in Int
    BY DEF TypeOK
  <2>1. ASSUME NEW w \in Workers, Work(w) PROVE LiveBounds'
    <3>1. CASE WorkerRetire(w)
      BY <3>1 DEF WorkerRetire
    <3>2. CASE ~WorkerRetire(w)
      BY <2>1, <3>2 DEF Work, WorkerLock, WorkerSleep, WorkerResume, WorkerLeave,
         WorkerTake, WorkerTakeNothing, WorkerStart, WorkerRun, WorkerEnd, WorkerExit, counts
    <3>. QED
      BY <3>1, <3>2
  <2>2. ASSUME NEW m \in Managers, Manage(m) PROVE LiveBounds'
    <3>1. CASE ManagerGrow(m)
      <4>1. PICK S \in Fillable : live' = live + Cardinality(S)
        BY <3>1 DEF ManagerGrow
      <4>2. live + Cardinality(S) <= MaxThread /\ S \subseteq SpareSlots
        BY DEF Fillable, TypeOK
      <4>3. Cardinality(S) \in Nat
        BY <4>2, ThreadsAssumption, FS_Subset, FS_CardinalityType
      <4>. QED
        BY <4>1, <4>2, <4>3
    <3>2. CASE ~ManagerGrow(m)
      BY <2>2, <3>2 DEF Manage, ManagerCheck, ManagerSample, ManagerShrink, ManagerSkip,
         ManagerSignal, counts
    <3>. QED
      BY <3>1, <3>2
  <2>3. ASSUME NEW p \in Producers, Submit(p) PROVE LiveBounds'
    BY <2>3 DEF Submit, Block, Refuse, Admit, Push, counts
  <2>4. ASSUME NEW d \in Destroyers, Destroy(d) PROVE LiveBounds'
    BY <2>4, DestroyerQuiet DEF counts
  <2>5. CASE SpuriousWakeup
    BY <2>5 DEF SpuriousWakeup, counts
  <2>6. CASE UNCHANGED vars
    BY <2>6 DEF vars, counts
  <2>. QED
    BY <2>1, <2>2, <2>3, <2>4, <2>5, <2>6 DEF Next
<1>. QED
  BY <1>1, <1>2, TypeCorrect, PTL DEF Spec

-----------------------------------------------------------------------------
(* The queue *)

\* The lock keeps the threads that look at the queue apart.
LEMMA Exclusion ==
    ASSUME LockOwner
    PROVE  /\ \A v, w \in Workers :
                  pc[v] \in {"sleep", "leave", "take"} /\ pc[w] \in {"sleep", "leave", "take"} => v = w
           /\ \A w \in Workers, p \in Producers :
                  ~(pc[w] \in {"sleep", "leave", "take"} /\ pc[p] = "push")
           /\ \A p, q \in Producers : pc[p] = "push" /\ pc[q] = "push" => p = q
           /\ lock = NoThread =>
                  /\ \A w \in Workers : pc[w] \notin {"sleep", "leave", "take"}
                  /\ \A p \in Producers : pc[p] # "push"
BY Kinds DEF LockOwner

LEMMA WorkerFindsStep ==
    ASSUME TypeOK, LockOwner, TakeFindsTask, NEW w \in Workers, Work(w)
    PROVE  TakeFindsTask'
<1>. LabelsOK(pc) /\ w \in Threads /\ \A v \in Workers : v \in Threads
  BY Kinds DEF TypeOK
<1>. SUFFICES ASSUME ~QueueReleased', NEW v \in Workers,
                     (pc[v] = "take" \/ (pc[v] = "leave" /\ ~shutDown))'
              PROVE  queue' # <<>>
  BY DEF TakeFindsTask
<1>1. CASE WorkerTake(w)
  <2>1. pc[w] = "take" /\ pc'[w] = "start" /\ (v # w => pc'[v] = pc[v])
    BY <1>1, TakeEffect, Kinds DEF WorkerTake
  <2>. QED
    BY <2>1, Exclusion
<1>2. CASE ~WorkerTake(w)
  <2>1. /\ queue' = queue /\ shutDown' = shutDown
        /\ \A d \in Destroyers : pc'[d] = pc[d]
        /\ v # w => pc'[v] = pc[v]
    BY <1>2, Kinds DEF Work, WorkerLock, WorkerSleep, WorkerRetire, WorkerResume,
       WorkerLeave, WorkerTakeNothing, WorkerStart, WorkerRun, WorkerEnd, WorkerExit,
       LoopTest, LabelsOK, tasks, ending
  <2>2. ~QueueReleased
    BY <2>1 DEF QueueReleased
  <2>3. CASE v # w
    BY <2>1, <2>2, <2>3 DEF TakeFindsTask
  <2>4. CASE v = w /\ (WorkerLock(w) \/ WorkerResume(w))
    BY <2>1, <2>4 DEF WorkerLock, WorkerResume, LoopTest, LabelsOK
  <2>5. CASE v = w /\ WorkerLeave(w)
    BY <2>1, <2>2, <2>5 DEF WorkerLeave, TakeFindsTask, LabelsOK
  <2>6. CASE v = w /\ WorkerTakeNothing(w)
    BY <2>1, <2>2, <2>6 DEF WorkerTakeNothing, TakeFindsTask, ending
  <2>7. CASE v = w /\ (\/ WorkerSleep(w) \/ WorkerRetire(w) \/ WorkerStart(w)
                       \/ WorkerRun(w) \/ WorkerEnd(w) \/ WorkerExit(w))
    BY <2>7 DEF WorkerSleep, WorkerRetire, WorkerStart, WorkerRun, WorkerEnd, WorkerExit, LabelsOK
  <2>. QED
    BY <1>2, <2>3, <2>4, <2>5, <2>6, <2>7 DEF Work
<1>. QED
  BY <1>1, <1>2

\* What a caller does to the queue and to the others.
LEMMA CallerEffect ==
    ASSUME TypeOK, NEW p \in Producers, Submit(p)
    PROVE  /\ \A t \in Threads \ {p} : pc'[t] = pc[t]
           /\ UNCHANGED <<held, finished, counts, managing, ending>>
           /\ \/ UNCHANGED <<queue, accepted>>
              \/ /\ pc[p] = "push"
                 /\ accepted' = accepted + 1
                 /\ queue' = Append(queue, accepted + 1)
BY DEF Submit, Block, Refuse, Admit, Push, LabelsOK, TypeOK, tasks

(***************************************************************************)
(* The worker that left the wait loop because the queue was not empty      *)
(* still finds a task when it copies begin(): the test and the erase are   *)
(* in one critical section.  Only threadPoolDestroy, which empties the     *)
(* queue without the lock, can break this.                                 *)
(***************************************************************************)
THEOREM TakersFindTasks == Spec => []TakeFindsTask
<1>1. Init => TakeFindsTask
  BY Kinds DEF Init, TakeFindsTask
<1>2. TypeOK /\ LockOwner /\ TakeFindsTask /\ [Next]_vars => TakeFindsTask'
  <2>. SUFFICES ASSUME TypeOK, LockOwner, TakeFindsTask, [Next]_vars PROVE TakeFindsTask'
    OBVIOUS
  <2>1. ASSUME NEW w \in Workers, Work(w) PROVE TakeFindsTask'
    BY <2>1, WorkerFindsStep
  <2>2. ASSUME NEW m \in Managers, Manage(m) PROVE TakeFindsTask'
    BY <2>2, ManagerQuiet DEF TakeFindsTask, QueueReleased, OthersMayWake, tasks, ending
  <2>3. ASSUME NEW p \in Producers, Submit(p) PROVE TakeFindsTask'
    <3>1. /\ \A w \in Workers : pc'[w] = pc[w]
          /\ \A d \in Destroyers : pc'[d] = pc[d]
          /\ shutDown' = shutDown
      BY <2>3, CallerEffect, Kinds DEF ending
    <3>2. queue # <<>> => queue' # <<>>
      BY <2>3, CallerEffect DEF TypeOK
    <3>. QED
      BY <3>1, <3>2 DEF TakeFindsTask, QueueReleased
  <2>4. ASSUME NEW d \in Destroyers, Destroy(d) PROVE TakeFindsTask'
    <3>. SUFFICES ASSUME ~QueueReleased', NEW w \in Workers,
                         (pc[w] = "take" \/ (pc[w] = "leave" /\ ~shutDown))'
                  PROVE  queue' # <<>>
      BY DEF TakeFindsTask
    <3>1. ~QueueReleased /\ queue' = queue
      BY <2>4, DestroyerQuiet DEF QueueReleased
    <3>2. pc'[w] = pc[w] /\ (~shutDown' => ~shutDown)
      BY <2>4, DestroyerQuiet DEF OthersMayWake
    <3>. QED
      BY <3>1, <3>2 DEF TakeFindsTask
  <2>5. CASE SpuriousWakeup
    BY <2>5, WakeupQuiet DEF TakeFindsTask, QueueReleased, tasks, ending
  <2>6. CASE UNCHANGED vars
    BY <2>6 DEF vars, TakeFindsTask, QueueReleased, tasks, ending
  <2>. QED
    BY <2>1, <2>2, <2>3, <2>4, <2>5, <2>6 DEF Next
<1>. QED
  BY <1>1, <1>2, TypeCorrect, MutualExclusion, PTL DEF Spec

\* The lock protects the room that a caller found.
LEMMA RoomStep ==
    ASSUME TypeOK, LockOwner, QueueRoom, [Next]_vars
    PROVE  QueueRoom'
<1>. LabelsOK(pc) /\ MaxQueue \in Nat \ {0} /\ queue \in Seq(Nat)
  BY BoundsAssumption DEF TypeOK
<1>1. ASSUME NEW w \in Workers, Work(w) PROVE QueueRoom'
  <2>1. CASE WorkerTake(w)
    <3>1. queue # <<>> /\ queue' = Tail(queue) /\ pc[w] = "take"
      BY <2>1 DEF WorkerTake
    <3>2. Len(queue') < MaxQueue
      BY <3>1 DEF QueueRoom
    <3>. QED
      BY <3>2 DEF QueueRoom
  <2>2. CASE ~WorkerTake(w)
    <3>1. queue' = queue /\ \A p \in Producers : pc'[p] = pc[p]
      BY <1>1, <2>2, Kinds DEF Work, WorkerLock, WorkerSleep, WorkerRetire, WorkerResume,
         WorkerLeave, WorkerTakeNothing, WorkerStart, WorkerRun, WorkerEnd, WorkerExit,
         LoopTest, LabelsOK, tasks
    <3>. QED
      BY <3>1 DEF QueueRoom
  <2>. QED
    BY <2>1, <2>2
<1>2. ASSUME NEW m \in Managers, Manage(m) PROVE QueueRoom'
  BY <1>2, ManagerQuiet DEF QueueRoom, OthersMayWake, tasks
<1>3. ASSUME NEW p \in Producers, Submit(p) PROVE QueueRoom'
  <2>. p \in Threads /\ \A q \in Producers : q \in Threads
    BY Kinds
  <2>1. CASE Push(p)
    <3>1. Len(queue') = Len(queue) + 1 /\ Len(queue) < MaxQueue
      BY <2>1 DEF Push, QueueRoom, TypeOK
    <3>2. \A q \in Producers : pc'[q] # "push"
      BY <2>1, Exclusion DEF Push, LabelsOK
    <3>. QED
      BY <3>1, <3>2 DEF QueueRoom
  <2>2. CASE Admit(p)
    BY <2>2, Exclusion DEF Admit, QueueRoom, LabelsOK, tasks
  <2>3. CASE Block(p) \/ Refuse(p)
    BY <2>3 DEF Block, Refuse, QueueRoom, LabelsOK, tasks
  <2>. QED
    BY <1>3, <2>1, <2>2, <2>3 DEF Submit
<1>4. ASSUME NEW d \in Destroyers, Destroy(d) PROVE QueueRoom'
  BY <1>4, DestroyerQuiet DEF QueueRoom, OthersMayWake
<1>5. CASE SpuriousWakeup
  BY <1>5, WakeupQuiet DEF QueueRoom, tasks
<1>6. CASE UNCHANGED vars
  BY <1>6 DEF vars, QueueRoom, tasks
<1>. QED
  BY <1>1, <1>2, <1>3, <1>4, <1>5, <1>6 DEF Next

(***************************************************************************)
(* The queue never exceeds max_queue_num_, although the code tests the     *)
(* length with == and callers wake, barge in and push in any order.        *)
(***************************************************************************)
THEOREM QueueNeverOverflows == Spec => []QueueRoom
<1>1. Init => QueueRoom
  <2>. SUFFICES ASSUME Init PROVE QueueRoom
    OBVIOUS
  <2>1. \A p \in Producers : pc[p] = "idle"
    BY Kinds DEF Init, Managers
  <2>2. queue = <<>>
    BY DEF Init
  <2>. QED
    BY <2>1, <2>2, BoundsAssumption DEF QueueRoom
<1>2. TypeOK /\ LockOwner /\ QueueRoom /\ [Next]_vars => QueueRoom'
  BY RoomStep
<1>. QED
  BY <1>1, <1>2, TypeCorrect, MutualExclusion, PTL DEF Spec

-----------------------------------------------------------------------------
(* Callers that wait for a full queue *)

\* Shutting down is what the destroyer starts with.
ShutdownFirst == \A d \in Destroyers : pc[d] # "idle" => shutDown

\* How many callers are between their signal and their push.
LEMMA CallersFinite ==
    /\ IsFiniteSet(AwakeCallers) /\ Cardinality(AwakeCallers) \in Nat
    /\ AwakeCallers = {} => Cardinality(AwakeCallers) = 0
<1>1. AwakeCallers \in SUBSET Producers
  BY DEF AwakeCallers
<1>. QED
  BY <1>1, ThreadsAssumption, FS_Subset, FS_CardinalityType, FS_EmptySet

LEMMA MoreCallers ==
    ASSUME AwakeCallers \subseteq AwakeCallers'
    PROVE  Cardinality(AwakeCallers) <= Cardinality(AwakeCallers')
<1>1. AwakeCallers' \in SUBSET Producers
  BY DEF AwakeCallers
<1>. QED
  BY <1>1, ThreadsAssumption, FS_Subset

LEMMA OneMoreCaller ==
    ASSUME NEW p \in Producers, p \notin AwakeCallers, AwakeCallers' = AwakeCallers \cup {p}
    PROVE  Cardinality(AwakeCallers') = Cardinality(AwakeCallers) + 1
BY CallersFinite, FS_AddElement

LEMMA OneFewerCaller ==
    ASSUME NEW p \in AwakeCallers, AwakeCallers' = AwakeCallers \ {p}
    PROVE  Cardinality(AwakeCallers') = Cardinality(AwakeCallers) - 1
BY CallersFinite, FS_RemoveElement

LEMMA StrandedFrame ==
    ASSUME TypeOK, NoStrandedCaller, queue' = queue,
           ~shutDown' /\ BlockedProducers' # {} => ~shutDown /\ BlockedProducers # {},
           AwakeCallers \subseteq AwakeCallers'
    PROVE  NoStrandedCaller'
<1>. Len(queue) \in Nat /\ MaxQueue \in Nat
  BY BoundsAssumption DEF TypeOK
<1>1. Cardinality(AwakeCallers') \in Nat /\ Cardinality(AwakeCallers) \in Nat
  <2>1. AwakeCallers' \in SUBSET Producers
    BY DEF AwakeCallers
  <2>. QED
    BY <2>1, CallersFinite, ThreadsAssumption, FS_Subset, FS_CardinalityType
<1>. QED
  BY <1>1, MoreCallers DEF NoStrandedCaller

LEMMA TakeWakesCaller ==
    ASSUME TypeOK, NoStrandedCaller, NEW w \in Workers, WorkerTake(w)
    PROVE  NoStrandedCaller'
<1>. DEFINE at == [pc EXCEPT ![w] = "start"]
<1>. LabelsOK(pc) /\ MaxQueue \in Nat /\ queue \in Seq(Nat)
  BY BoundsAssumption DEF TypeOK
<1>. w \notin Producers /\ w \in Threads /\ \A p \in Producers : p \in Threads
  BY Kinds
<1>1. Len(queue') = Len(queue) - 1 /\ shutDown' = shutDown
  BY DEF WorkerTake, ending
<1>2. \A p \in Producers : at[p] = pc[p]
  BY DEF LabelsOK
<1>3. pc' \in Signal(BlockedProducers, at)
  BY DEF WorkerTake
<1>4. CASE BlockedProducers = {}
  <2>1. pc' = at
    BY <1>3, <1>4 DEF Signal
  <2>2. BlockedProducers' = {}
    BY <1>2, <1>4, <2>1 DEF BlockedProducers
  <2>. QED
    BY <2>2 DEF NoStrandedCaller
<1>5. CASE BlockedProducers # {}
  <2>1. PICK p \in BlockedProducers : pc' = [at EXCEPT ![p] = "awake"]
    BY <1>3, <1>5 DEF Signal
  <2>2. p \in Producers /\ pc[p] = "blocked" /\ p \notin AwakeCallers
    BY DEF BlockedProducers, AwakeCallers
  <2>3. pc'[p] = "awake" /\ \A q \in Producers \ {p} : pc'[q] = pc[q]
    BY <1>2, <2>1, <2>2 DEF LabelsOK
  <2>4. AwakeCallers' = AwakeCallers \cup {p}
    BY <2>2, <2>3 DEF AwakeCallers
  <2>5. Cardinality(AwakeCallers') = Cardinality(AwakeCallers) + 1
    BY <2>2, <2>4, OneMoreCaller
  <2>6. Cardinality(AwakeCallers) \in Nat
    BY CallersFinite
  <2>. QED
    BY <1>1, <1>5, <2>5, <2>6 DEF NoStrandedCaller
<1>. QED
  BY <1>4, <1>5

LEMMA CallerStranding ==
    ASSUME TypeOK, QueueRoom, NoStrandedCaller, NEW p \in Producers, Submit(p)
    PROVE  NoStrandedCaller'
<1>. LabelsOK(pc) /\ MaxQueue \in Nat /\ queue \in Seq(Nat)
  BY BoundsAssumption DEF TypeOK
<1>. p \in Threads /\ \A q \in Producers : q \in Threads
  BY Kinds
<1>1. CASE Block(p)
  <2>1. Len(queue') = MaxQueue
    BY <1>1 DEF Block, tasks
  <2>2. Cardinality(AwakeCallers') \in Nat
    <3>1. AwakeCallers' \in SUBSET Producers
      BY DEF AwakeCallers
    <3>. QED
      BY <3>1, ThreadsAssumption, FS_Subset, FS_CardinalityType
  <2>. QED
    BY <2>1, <2>2 DEF NoStrandedCaller
<1>2. CASE Refuse(p)
  BY <1>2 DEF Refuse, NoStrandedCaller, ending
<1>3. CASE Admit(p)
  <2>1. pc'[p] = "push" /\ \A q \in Producers \ {p} : pc'[q] = pc[q]
    BY <1>3 DEF Admit, LabelsOK
  <2>2. queue' = queue /\ shutDown' = shutDown
    BY <1>3 DEF Admit, tasks, ending
  <2>3. BlockedProducers' \subseteq BlockedProducers /\ AwakeCallers \subseteq AwakeCallers'
    BY <2>1 DEF BlockedProducers, AwakeCallers
  <2>. QED
    BY <2>2, <2>3, StrandedFrame
<1>4. CASE Push(p)
  <2>1. pc[p] = "push" /\ pc'[p] = "idle" /\ \A q \in Producers \ {p} : pc'[q] = pc[q]
    BY <1>4 DEF Push, LabelsOK
  <2>2. Len(queue') = Len(queue) + 1 /\ shutDown' = shutDown
    BY <1>4 DEF Push, TypeOK, ending
  <2>3. p \in AwakeCallers /\ AwakeCallers' = AwakeCallers \ {p}
    BY <2>1 DEF AwakeCallers
  <2>4. BlockedProducers' = BlockedProducers
    BY <2>1 DEF BlockedProducers
  <2>5. Cardinality(AwakeCallers') = Cardinality(AwakeCallers) - 1
    BY <2>3, OneFewerCaller
  <2>6. Cardinality(AwakeCallers) \in Nat
    BY CallersFinite
  <2>. QED
    BY <2>2, <2>4, <2>5, <2>6 DEF NoStrandedCaller
<1>. QED
  BY <1>1, <1>2, <1>3, <1>4 DEF Submit

LEMMA StrandedStep ==
    ASSUME TypeOK, QueueRoom, ShutdownFirst, NoStrandedCaller, [Next]_vars
    PROVE  NoStrandedCaller'
<1>1. ASSUME NEW w \in Workers, Work(w) PROVE NoStrandedCaller'
  <2>1. CASE WorkerTake(w)
    BY <2>1, TakeWakesCaller
  <2>2. CASE ~WorkerTake(w)
    <3>1. /\ queue' = queue /\ shutDown' = shutDown
          /\ \A p \in Producers : pc'[p] = pc[p]
      BY <1>1, <2>2, Kinds DEF Work, WorkerLock, WorkerSleep, WorkerRetire, WorkerResume,
         WorkerLeave, WorkerTakeNothing, WorkerStart, WorkerRun, WorkerEnd, WorkerExit,
         LoopTest, TypeOK, LabelsOK, tasks, ending
    <3>. QED
      BY <3>1, StrandedFrame DEF BlockedProducers, AwakeCallers
  <2>. QED
    BY <2>1, <2>2
<1>2. ASSUME NEW m \in Managers, Manage(m) PROVE NoStrandedCaller'
  <2>1. /\ queue' = queue /\ shutDown' = shutDown
        /\ \A p \in Producers : pc'[p] = pc[p]
    BY <1>2, ManagerQuiet DEF OthersMayWake, tasks, ending
  <2>. QED
    BY <2>1, StrandedFrame DEF BlockedProducers, AwakeCallers
<1>3. ASSUME NEW p \in Producers, Submit(p) PROVE NoStrandedCaller'
  BY <1>3, CallerStranding
<1>4. ASSUME NEW d \in Destroyers, Destroy(d) PROVE NoStrandedCaller'
  <2>1. shutDown' = TRUE
    BY <1>4, DestroyerQuiet DEF ShutdownFirst, TypeOK
  <2>. QED
    BY <2>1 DEF NoStrandedCaller
<1>5. CASE SpuriousWakeup
  <2>1. /\ queue' = queue /\ shutDown' = shutDown
        /\ \A p \in Producers : pc'[p] = pc[p] \/ (pc[p] = "blocked" /\ pc'[p] = "awake")
    BY <1>5, WakeupQuiet DEF tasks, ending
  <2>2. BlockedProducers' \subseteq BlockedProducers /\ AwakeCallers \subseteq AwakeCallers'
    BY <2>1 DEF BlockedProducers, AwakeCallers
  <2>. QED
    BY <2>1, <2>2, StrandedFrame
<1>6. CASE UNCHANGED vars
  BY <1>6, StrandedFrame DEF vars, BlockedProducers, AwakeCallers, tasks, ending
<1>. QED
  BY <1>1, <1>2, <1>3, <1>4, <1>5, <1>6 DEF Next

LEMMA ShutdownStep ==
    ASSUME TypeOK, ShutdownFirst, [Next]_vars
    PROVE  ShutdownFirst'
<1>. LabelsOK(pc)
  BY DEF TypeOK
<1>1. ASSUME NEW w \in Workers, Work(w) PROVE ShutdownFirst'
  <2>1. \A d \in Destroyers : pc'[d] = pc[d]
    <3>1. CASE WorkerTake(w)
      BY <3>1, TakeEffect, Kinds
    <3>2. CASE ~WorkerTake(w)
      BY <1>1, <3>2, Kinds DEF Work, WorkerLock, WorkerSleep, WorkerRetire, WorkerResume,
         WorkerLeave, WorkerTakeNothing, WorkerStart, WorkerRun, WorkerEnd, WorkerExit,
         LoopTest, LabelsOK
    <3>. QED
      BY <3>1, <3>2
  <2>2. shutDown' = shutDown
    BY <1>1 DEF Work, WorkerLock, WorkerSleep, WorkerRetire, WorkerResume, WorkerTake,
       WorkerLeave, WorkerTakeNothing, WorkerStart, WorkerRun, WorkerEnd, WorkerExit, ending
  <2>. QED
    BY <2>1, <2>2 DEF ShutdownFirst
<1>2. ASSUME NEW m \in Managers, Manage(m) PROVE ShutdownFirst'
  BY <1>2, ManagerQuiet DEF ShutdownFirst, ending
<1>3. ASSUME NEW p \in Producers, Submit(p) PROVE ShutdownFirst'
  BY <1>3, CallerEffect, Kinds DEF ShutdownFirst, ending
<1>4. ASSUME NEW d \in Destroyers, Destroy(d) PROVE ShutdownFirst'
  <2>1. shutDown' = TRUE
    BY <1>4, DestroyerQuiet DEF ShutdownFirst, TypeOK
  <2>. QED
    BY <2>1 DEF ShutdownFirst
<1>5. CASE SpuriousWakeup
  BY <1>5, WakeupQuiet DEF ShutdownFirst, ending
<1>6. CASE UNCHANGED vars
  BY <1>6 DEF vars, ShutdownFirst, ending
<1>. QED
  BY <1>1, <1>2, <1>3, <1>4, <1>5, <1>6 DEF Next

(***************************************************************************)
(* While the pool is up no caller is left waiting beside a free place that *)
(* nobody has been told about: one signal per erased task is enough, even  *)
(* when new callers take the place before the signalled one.               *)
(***************************************************************************)
THEOREM NoCallerStranded == Spec => []NoStrandedCaller
<1>1. Init => ShutdownFirst /\ NoStrandedCaller
  <2>. SUFFICES ASSUME Init PROVE ShutdownFirst /\ NoStrandedCaller
    OBVIOUS
  <2>1. \A t \in Producers \cup Destroyers : pc[t] = "idle"
    BY Kinds DEF Init, Managers
  <2>. QED
    BY <2>1 DEF ShutdownFirst, NoStrandedCaller, BlockedProducers
<1>2. TypeOK /\ QueueRoom /\ ShutdownFirst /\ NoStrandedCaller /\ [Next]_vars
        => ShutdownFirst' /\ NoStrandedCaller'
  BY ShutdownStep, StrandedStep
<1>. QED
  BY <1>1, <1>2, TypeCorrect, QueueNeverOverflows, PTL DEF Spec

-----------------------------------------------------------------------------
(* Where the tasks are, and the abstract pool *)

\* How a step on held changes the set of running tasks.
LEMMA RunningGains ==
    ASSUME TypeOK, NEW w \in Workers, held[w] = NoTask, NEW t \in Nat,
           held' = [held EXCEPT ![w] = t]
    PROVE  RunningTasks' = RunningTasks \cup {t}
<1>. NoTask \notin Nat
  BY BoundsAssumption
<1>1. held'[w] = t /\ \A v \in Workers \ {w} : held'[v] = held[v]
  BY DEF TypeOK
<1>2. ASSUME NEW e PROVE e \in RunningTasks' <=> e \in RunningTasks \cup {t}
  <2>1. e \in RunningTasks' <=> e # NoTask /\ \E v \in Workers : held'[v] = e
    BY DEF RunningTasks
  <2>2. e \in RunningTasks <=> e # NoTask /\ \E v \in Workers : held[v] = e
    BY DEF RunningTasks
  <2>. QED
    BY <1>1, <2>1, <2>2
<1>. QED
  BY <1>2

LEMMA RunningLoses ==
    ASSUME TypeOK, TaskPlaces, NEW w \in Workers, held[w] \in Nat,
           held' = [held EXCEPT ![w] = NoTask]
    PROVE  RunningTasks' = RunningTasks \ {held[w]} /\ held[w] \in RunningTasks
<1>. NoTask \notin Nat
  BY BoundsAssumption
<1>1. held'[w] = NoTask /\ \A v \in Workers \ {w} : held'[v] = held[v]
  BY DEF TypeOK
<1>2. \A v \in Workers \ {w} : held[v] # held[w]
  BY DEF TaskPlaces
<1>3. ASSUME NEW e PROVE e \in RunningTasks' <=> e \in RunningTasks \ {held[w]}
  <2>1. e \in RunningTasks' <=> e # NoTask /\ \E v \in Workers : held'[v] = e
    BY DEF RunningTasks
  <2>2. e \in RunningTasks <=> e # NoTask /\ \E v \in Workers : held[v] = e
    BY DEF RunningTasks
  <2>. QED
    BY <1>1, <1>2, <2>1, <2>2
<1>. QED
  BY <1>3 DEF RunningTasks

\* The three actions that move a task, and every other step.
LEMMA TakePlaces ==
    ASSUME TypeOK, HoldsWhileWorking, TaskPlaces, NEW w \in Workers, WorkerTake(w)
    PROVE  /\ TaskPlaces'
           /\ RunningTasks' = RunningTasks \cup {Head(queue)}
<1>. DEFINE n == accepted - Len(queue)
<1>1. /\ queue \in Seq(Nat) /\ queue # <<>> /\ accepted \in Nat
      /\ finished' = finished /\ accepted' = accepted
  BY DEF WorkerTake, TypeOK
<1>2. n \in Nat
  BY <1>1 DEF TaskPlaces, QueueOrder
<1>3. Head(queue) = n + 1 /\ Len(queue') = Len(queue) - 1
  BY <1>1 DEF TaskPlaces, QueueOrder, WorkerTake
<1>4. QueueOrder'
  <2>1. \A i \in 1..Len(queue') : queue'[i] = queue[i + 1]
    BY <1>1 DEF WorkerTake
  <2>2. Len(queue') <= accepted'
    BY <1>1, <1>3 DEF TaskPlaces, QueueOrder
  <2>3. ASSUME NEW i \in 1..Len(queue') PROVE queue'[i] = accepted' - Len(queue') + i
    <3>1. i + 1 \in 1..Len(queue)
      BY <1>1, <1>3
    <3>2. queue[i + 1] = accepted - Len(queue) + (i + 1)
      BY <3>1 DEF TaskPlaces, QueueOrder
    <3>. QED
      BY <1>1, <1>3, <2>1, <3>2
  <2>. QED
    BY <2>2, <2>3 DEF QueueOrder
<1>5. held[w] = NoTask /\ held' = [held EXCEPT ![w] = n + 1]
  BY <1>3 DEF WorkerTake, HoldsWhileWorking
<1>6. RunningTasks' = RunningTasks \cup {n + 1}
  <2>1. PICK t \in Nat : t = n + 1
    BY <1>2
  <2>. HIDE DEF n
  <2>2. RunningTasks' = RunningTasks \cup {t}
    BY <1>5, <2>1, RunningGains
  <2>. QED
    BY <2>1, <2>2
<1>7. RunningTasks \cup finished \subseteq 1..n /\ RunningTasks \cap finished = {}
  BY DEF TaskPlaces
<1>8. n + 1 \notin RunningTasks /\ n + 1 \notin finished
  BY <1>2, <1>7
<1>9. \A u, v \in Workers : u # v /\ held'[u] = held'[v] => held'[u] = NoTask
  <2>1. held'[w] = n + 1 /\ \A v \in Workers \ {w} : held'[v] = held[v]
    BY <1>5 DEF TypeOK
  <2>2. \A v \in Workers : held[v] # n + 1
    BY <1>2, <1>8, BoundsAssumption DEF RunningTasks
  <2>. QED
    BY <2>1, <2>2 DEF TaskPlaces
<1>10. RunningTasks' \cap finished' = {}
  BY <1>1, <1>6, <1>7, <1>8
<1>11. accepted' - Len(queue') = n + 1
  BY <1>1, <1>3
<1>12. RunningTasks' \cup finished' \subseteq 1..(n + 1)
  BY <1>1, <1>2, <1>6, <1>7
<1>13. ~QueueReleased' => ~QueueReleased
  BY TakeEffect, Kinds DEF QueueReleased
<1>14. ~QueueReleased => RunningTasks' \cup finished' = 1..(n + 1)
  <2>1. 1..(n + 1) = (1..n) \cup {n + 1}
    BY <1>2
  <2>. QED
    BY <1>1, <1>6, <2>1 DEF TaskPlaces
<1>. HIDE DEF n
<1>15. TaskPlaces'
  BY <1>4, <1>9, <1>10, <1>11, <1>12, <1>13, <1>14 DEF TaskPlaces
<1>. QED
  BY <1>3, <1>6, <1>15

LEMMA RunPlaces ==
    ASSUME TypeOK, HoldsWhileWorking, TaskPlaces, NEW w \in Workers, WorkerRun(w)
    PROVE  /\ TaskPlaces'
           /\ held[w] \in RunningTasks
           /\ RunningTasks' = RunningTasks \ {held[w]}
           /\ finished' = finished \cup {held[w]}
<1>1. held[w] \in Nat
  BY DEF WorkerRun, HoldsWhileWorking, TypeOK
<1>2. RunningTasks' = RunningTasks \ {held[w]} /\ held[w] \in RunningTasks
  BY <1>1, RunningLoses DEF WorkerRun
<1>3. /\ finished' = finished \cup {held[w]}
      /\ queue' = queue /\ accepted' = accepted
      /\ \A d \in Destroyers : pc'[d] = pc[d]
  BY Kinds DEF WorkerRun, TypeOK, LabelsOK
<1>4. QueueOrder'
  BY <1>3 DEF TaskPlaces, QueueOrder
<1>5. \A u, v \in Workers : u # v /\ held'[u] = held'[v] => held'[u] = NoTask
  BY DEF WorkerRun, TaskPlaces, TypeOK
<1>6. RunningTasks' \cup finished' = RunningTasks \cup finished
  BY <1>2, <1>3
<1>7. RunningTasks' \cap finished' = {}
  BY <1>2, <1>3 DEF TaskPlaces
<1>8. QueueReleased' = QueueReleased
  BY <1>3 DEF QueueReleased
<1>9. TaskPlaces'
  BY <1>3, <1>4, <1>5, <1>6, <1>7, <1>8 DEF TaskPlaces
<1>. QED
  BY <1>2, <1>3, <1>9

LEMMA PushPlaces ==
    ASSUME TypeOK, TaskPlaces, accepted' = accepted + 1,
           queue' = Append(queue, accepted + 1), held' = held, finished' = finished,
           QueueReleased' = QueueReleased
    PROVE  TaskPlaces'
<1>1. queue \in Seq(Nat) /\ accepted \in Nat /\ Len(queue) <= accepted
  BY DEF TypeOK, TaskPlaces, QueueOrder
<1>2. /\ Len(queue') = Len(queue) + 1
      /\ accepted' - Len(queue') = accepted - Len(queue)
  BY <1>1
<1>3. QueueOrder'
  <2>1. ASSUME NEW i \in 1..Len(queue') PROVE queue'[i] = accepted' - Len(queue') + i
    <3>1. CASE i = Len(queue) + 1
      BY <1>1, <1>2, <3>1
    <3>2. CASE i \in 1..Len(queue)
      BY <1>1, <1>2, <3>2 DEF TaskPlaces, QueueOrder
    <3>. QED
      BY <1>1, <1>2, <3>1, <3>2
  <2>. QED
    BY <1>1, <1>2, <2>1 DEF QueueOrder
<1>4. RunningTasks' = RunningTasks
  BY DEF RunningTasks
<1>. QED
  BY <1>2, <1>3, <1>4 DEF TaskPlaces

LEMMA PlacesFrame ==
    ASSUME TaskPlaces, UNCHANGED tasks, QueueReleased => QueueReleased'
    PROVE  TaskPlaces'
BY DEF TaskPlaces, QueueOrder, RunningTasks, tasks

LEMMA ReleasePlaces ==
    ASSUME TypeOK, TaskPlaces, queue' = <<>>, UNCHANGED <<held, accepted, finished>>,
           QueueReleased'
    PROVE  TaskPlaces'
<1>1. RunningTasks' = RunningTasks
  BY DEF RunningTasks
<1>2. Len(queue) \in Nat /\ accepted \in Nat /\ Len(queue') = 0
  BY DEF TypeOK
<1>3. 1..(accepted - Len(queue)) \subseteq 1..accepted
  BY <1>2
<1>4. QueueOrder'
  BY <1>2 DEF QueueOrder
<1>. QED
  BY <1>1, <1>2, <1>3, <1>4 DEF TaskPlaces

\* What a worker does otherwise: it touches no task.
LEMMA OtherWork ==
    ASSUME TypeOK, NEW w \in Workers, Work(w), ~WorkerTake(w), ~WorkerRun(w)
    PROVE  UNCHANGED tasks /\ QueueReleased' = QueueReleased
<1>1. UNCHANGED tasks
  BY DEF Work, WorkerLock, WorkerSleep, WorkerRetire, WorkerResume, WorkerLeave,
     WorkerTakeNothing, WorkerStart, WorkerEnd, WorkerExit, tasks
<1>2. \A d \in Destroyers : pc'[d] = pc[d]
  BY Kinds DEF Work, WorkerLock, WorkerSleep, WorkerRetire, WorkerResume, WorkerLeave,
     WorkerTakeNothing, WorkerStart, WorkerEnd, WorkerExit, LoopTest, TypeOK, LabelsOK
<1>. QED
  BY <1>1, <1>2 DEF QueueReleased

LEMMA DestroyerTasks ==
    ASSUME TypeOK, NEW d \in Destroyers, Destroy(d)
    PROVE  /\ UNCHANGED <<held, accepted, finished>>
           /\ QueueReleased => QueueReleased'
           /\ queue' = queue \/ (queue' = <<>> /\ QueueReleased')
<1>1. /\ UNCHANGED <<held, accepted, finished>>
      /\ \A e \in Destroyers \ {d} : pc'[e] = pc[e]
      /\ \/ queue' = queue /\ (pc[d] \in {"free", "done"} => pc'[d] \in {"free", "done"})
         \/ queue' = <<>> /\ pc[d] = "release" /\ pc'[d] = "free"
  BY DestroyerQuiet
<1>2. QueueReleased => QueueReleased'
  BY <1>1 DEF QueueReleased
<1>. QED
  BY <1>1, <1>2 DEF QueueReleased

\* Every step keeps the tasks in their places and is a step of TaskPool.
LEMMA TaskStep ==
    ASSUME TypeOK, HoldsWhileWorking, QueueRoom, TaskPlaces, [Next]_vars
    PROVE  TaskPlaces' /\ [Promise!Next]_(Promise!vars)
<1>. USE DEF Promise!Next, Promise!vars
<1>1. ASSUME UNCHANGED tasks PROVE [Promise!Next]_(Promise!vars)
  BY <1>1 DEF tasks, RunningTasks
<1>2. ASSUME NEW w \in Workers, Work(w)
      PROVE  TaskPlaces' /\ [Promise!Next]_(Promise!vars)
  <2>1. CASE WorkerTake(w)
    <3>1. TaskPlaces' /\ RunningTasks' = RunningTasks \cup {Head(queue)}
      BY <2>1, TakePlaces
    <3>2. Promise!Start
      BY <2>1, <3>1 DEF Promise!Start, WorkerTake
    <3>. QED
      BY <3>1, <3>2
  <2>2. CASE WorkerRun(w)
    <3>1. /\ TaskPlaces'
          /\ held[w] \in RunningTasks
          /\ RunningTasks' = RunningTasks \ {held[w]}
          /\ finished' = finished \cup {held[w]}
      BY <2>2, RunPlaces
    <3>2. Promise!Finish
      BY <2>2, <3>1 DEF Promise!Finish, WorkerRun
    <3>. QED
      BY <3>1, <3>2
  <2>3. CASE ~WorkerTake(w) /\ ~WorkerRun(w)
    BY <1>1, <1>2, <2>3, OtherWork, PlacesFrame
  <2>. QED
    BY <2>1, <2>2, <2>3
<1>3. ASSUME NEW m \in Managers, Manage(m)
      PROVE  TaskPlaces' /\ [Promise!Next]_(Promise!vars)
  BY <1>1, <1>3, ManagerQuiet, PlacesFrame DEF QueueReleased
<1>4. ASSUME NEW p \in Producers, Submit(p)
      PROVE  TaskPlaces' /\ [Promise!Next]_(Promise!vars)
  <2>1. UNCHANGED <<held, finished>> /\ QueueReleased' = QueueReleased
    BY <1>4, CallerEffect, Kinds DEF QueueReleased
  <2>2. CASE UNCHANGED <<queue, accepted>>
    BY <1>1, <2>1, <2>2, PlacesFrame DEF tasks
  <2>3. CASE pc[p] = "push" /\ accepted' = accepted + 1
             /\ queue' = Append(queue, accepted + 1)
    <3>1. TaskPlaces'
      BY <2>1, <2>3, PushPlaces
    <3>2. Promise!Accept
      BY <2>1, <2>3 DEF Promise!Accept, QueueRoom, RunningTasks
    <3>. QED
      BY <3>1, <3>2
  <2>. QED
    BY <1>4, <2>2, <2>3, CallerEffect
<1>5. ASSUME NEW d \in Destroyers, Destroy(d)
      PROVE  TaskPlaces' /\ [Promise!Next]_(Promise!vars)
  <2>1. CASE queue' = queue
    BY <1>1, <1>5, <2>1, DestroyerTasks, PlacesFrame DEF tasks
  <2>2. CASE queue' = <<>> /\ QueueReleased'
    <3>1. TaskPlaces'
      BY <1>5, <2>2, DestroyerTasks, ReleasePlaces
    <3>2. Promise!Discard
      BY <1>5, <2>2, DestroyerTasks DEF Promise!Discard, RunningTasks
    <3>. QED
      BY <3>1, <3>2
  <2>. QED
    BY <1>5, <2>1, <2>2, DestroyerTasks
<1>6. CASE SpuriousWakeup
  BY <1>1, <1>6, WakeupQuiet, PlacesFrame DEF QueueReleased
<1>7. CASE UNCHANGED vars
  BY <1>1, <1>7, PlacesFrame DEF vars, QueueReleased
<1>. QED
  BY <1>2, <1>3, <1>4, <1>5, <1>6, <1>7 DEF Next

LEMMA TaskInit == Init => TaskPlaces /\ Promise!Init
<1>. SUFFICES ASSUME Init PROVE TaskPlaces /\ Promise!Init
  OBVIOUS
<1>1. queue = <<>> /\ accepted = 0 /\ finished = {} /\ \A w \in Workers : held[w] = NoTask
  BY DEF Init
<1>2. RunningTasks = {}
  BY <1>1 DEF RunningTasks
<1>. QED
  BY <1>1, <1>2 DEF TaskPlaces, QueueOrder, Promise!Init

(***************************************************************************)
(* No accepted task is lost or run twice: each is queued, in the hands of  *)
(* one worker, or finished, and the queue holds the newest ones in order,  *)
(* until threadPoolDestroy drops the queue.                                *)
(***************************************************************************)
THEOREM TasksAreInOnePlace == Spec => []TaskPlaces
<1>1. TypeOK /\ HoldsWhileWorking /\ QueueRoom /\ TaskPlaces /\ [Next]_vars => TaskPlaces'
  BY TaskStep
<1>2. Init => TaskPlaces
  BY TaskInit
<1>. QED
  BY <1>1, <1>2, TypeCorrect, QueueNeverOverflows, PTL DEF Spec

(***************************************************************************)
(* The pool implements TaskPool: a bounded first-in first-out queue whose  *)
(* tasks start in the order they were accepted, each at most once.         *)
(***************************************************************************)
THEOREM PromiseKept == Spec => KeepsPromise
<1>1. TypeOK /\ HoldsWhileWorking /\ QueueRoom /\ TaskPlaces /\ [Next]_vars
        => [Promise!Next]_(Promise!vars)
  BY TaskStep
<1>2. Init => Promise!Init
  BY TaskInit
<1>. QED
  BY <1>1, <1>2, TypeCorrect, QueueNeverOverflows, TasksAreInOnePlace, PTL
     DEF Spec, KeepsPromise, Promise!Spec

-----------------------------------------------------------------------------
(* After the shutdown flag *)

\* The actions on tasks of AtMostOneTaskAfterShutdown, seen by one thread.
NothingNew ==
    /\ Committed' \subseteq Committed
    /\ Committed' = Committed => accepted' = accepted /\ RunningTasks' \subseteq RunningTasks

LEMMA OneCommitted ==
    ASSUME TypeOK, LockOwner
    PROVE  Cardinality(Committed) <= 1
<1>1. \A t, u \in Committed : t = u
  BY Exclusion, Kinds DEF Committed, TypeOK, LabelsOK, WorkerLabels, ProducerLabels
<1>2. CASE Committed = {}
  BY <1>2, FS_EmptySet
<1>3. CASE Committed # {}
  <2>1. PICK t \in Committed : TRUE
    BY <1>3
  <2>2. Committed = {t}
    BY <1>1, <2>1
  <2>. QED
    BY <2>2, FS_Singleton
<1>. QED
  BY <1>2, <1>3

\* A step that leaves the tasks alone and commits nobody.
LEMMA QuietAfterFlag ==
    ASSUME held' = held, accepted' = accepted,
           \A t \in Workers \cup Producers :
               pc'[t] = pc[t] \/ pc'[t] \notin {"take", "push"}
    PROVE  NothingNew
BY DEF NothingNew, Committed, RunningTasks

LEMMA WorkerAfterFlag ==
    ASSUME TypeOK, shutDown, NEW w \in Workers, Work(w)
    PROVE  NothingNew
<1>. LabelsOK(pc) /\ w \in Threads /\ held \in [Workers -> Nat \cup {NoTask}]
  BY Kinds DEF TypeOK
<1>. \A t \in Workers \cup Producers : t \in Threads
  BY Kinds
<1>1. CASE WorkerTake(w)
  <2>1. /\ pc[w] = "take" /\ pc'[w] = "start"
        /\ \A t \in Workers \cup Producers : pc'[t] = pc[t] \/ pc'[t] \notin {"take", "push"}
    BY <1>1, TakeEffect, Kinds DEF WorkerTake
  <2>2. w \in Committed /\ w \notin Committed' /\ Committed' \subseteq Committed
    BY <2>1 DEF Committed
  <2>. QED
    BY <2>2 DEF NothingNew
<1>2. CASE WorkerRun(w)
  <2>1. /\ accepted' = accepted /\ held' = [held EXCEPT ![w] = NoTask]
        /\ \A t \in Workers \cup Producers : pc'[t] = pc[t] \/ pc'[t] \notin {"take", "push"}
    BY <1>2 DEF WorkerRun, LabelsOK
  <2>2. Committed' \subseteq Committed
    BY <2>1 DEF Committed
  <2>3. RunningTasks' \subseteq RunningTasks
    BY <2>1 DEF RunningTasks
  <2>. QED
    BY <2>1, <2>2, <2>3 DEF NothingNew
<1>3. CASE ~WorkerTake(w) /\ ~WorkerRun(w)
  <2>1. held' = held /\ accepted' = accepted
    BY <1>3 DEF Work, WorkerLock, WorkerSleep, WorkerRetire, WorkerResume, WorkerLeave,
       WorkerTakeNothing, WorkerStart, WorkerEnd, WorkerExit, tasks
  <2>2. \A t \in Workers \cup Producers : pc'[t] = pc[t] \/ pc'[t] \notin {"take", "push"}
    BY <1>3 DEF Work, WorkerLock, WorkerSleep, WorkerRetire, WorkerResume, WorkerLeave,
       WorkerTakeNothing, WorkerStart, WorkerEnd, WorkerExit, LoopTest, LabelsOK
  <2>. QED
    BY <2>1, <2>2, QuietAfterFlag
<1>. QED
  BY <1>1, <1>2, <1>3

LEMMA CallerAfterFlag ==
    ASSUME TypeOK, shutDown, NEW p \in Producers, Submit(p)
    PROVE  NothingNew
<1>. LabelsOK(pc) /\ p \in Threads
  BY Kinds DEF TypeOK
<1>. \A t \in Workers \cup Producers : t \in Threads
  BY Kinds
<1>1. CASE Push(p)
  <2>1. /\ pc[p] = "push" /\ pc'[p] = "idle"
        /\ \A t \in Workers \cup Producers : pc'[t] = pc[t] \/ pc'[t] \notin {"take", "push"}
    BY <1>1 DEF Push, LabelsOK
  <2>2. p \in Committed /\ p \notin Committed' /\ Committed' \subseteq Committed
    BY <2>1 DEF Committed
  <2>. QED
    BY <2>2 DEF NothingNew
<1>2. CASE Refuse(p)
  <2>1. /\ held' = held /\ accepted' = accepted
        /\ \A t \in Workers \cup Producers : pc'[t] = pc[t] \/ pc'[t] \notin {"take", "push"}
    BY <1>2 DEF Refuse, LabelsOK, tasks
  <2>. QED
    BY <2>1, QuietAfterFlag
<1>. QED
  BY <1>1, <1>2 DEF Submit, Block, Admit

(***************************************************************************)
(* Once shut_down_state_ is set, the only thread that may still take or    *)
(* add a task is the one that read the flag before and owns the lock:      *)
(* there is at most one, and once it is done nothing starts any more.      *)
(***************************************************************************)
THEOREM LittleAfterShutdown == Spec => AtMostOneTaskAfterShutdown
<1>1. ASSUME TypeOK, LockOwner, Next, shutDown PROVE NothingNew
  <2>1. ASSUME NEW m \in Managers, Manage(m) PROVE NothingNew
    BY <1>1, <2>1, ManagerQuiet, QuietAfterFlag DEF OthersMayWake, tasks
  <2>2. ASSUME NEW d \in Destroyers, Destroy(d) PROVE NothingNew
    BY <1>1, <2>2, DestroyerQuiet, QuietAfterFlag DEF OthersMayWake
  <2>3. CASE SpuriousWakeup
    BY <1>1, <2>3, WakeupQuiet, QuietAfterFlag DEF tasks
  <2>. QED
    BY <1>1, <2>1, <2>2, <2>3, WorkerAfterFlag, CallerAfterFlag DEF Next
<1>2. TypeOK /\ LockOwner /\ [Next]_vars
        => [shutDown => Cardinality(Committed) <= 1 /\ NothingNew]_vars
  BY <1>1, OneCommitted
<1>3. [shutDown => Cardinality(Committed) <= 1 /\ NothingNew]_vars
        => [shutDown => /\ Cardinality(Committed) <= 1
                        /\ Committed' \subseteq Committed
                        /\ Committed' = Committed =>
                              accepted' = accepted /\ RunningTasks' \subseteq RunningTasks]_vars
  BY DEF NothingNew
<1>. QED
  BY <1>2, <1>3, TypeCorrect, MutualExclusion, PTL DEF Spec, AtMostOneTaskAfterShutdown

-----------------------------------------------------------------------------
(* What live_thread_num_ counts: LiveCount is inductive together with one  *)
(* fact about work_thread_: a slot whose word is 0 names no thread, so the *)
(* managers' growth never replaces a thread that is counted already.       *)

EmptyUnborn == \A s \in emptySlots : pc[s] = "unborn"

CInv == EmptyUnborn /\ LiveCount

LEMMA CountedFinite ==
    /\ IsFiniteSet(Counted) /\ Cardinality(Counted) \in Nat
    /\ IsFiniteSet(Clones) /\ Cardinality(Clones) \in Nat
<1>1. Counted \in SUBSET Workers /\ Clones \in SUBSET SpareSlots
  BY DEF Counted, Clones
<1>. QED
  BY <1>1, ThreadsAssumption, FS_Subset, FS_CardinalityType

\* A step after which the same threads count.
LEMMA CountFrame ==
    ASSUME CInv, emptySlots \subseteq SpareSlots, live' = live,
           emptySlots' = emptySlots, shutDown' = shutDown \/ shutDown' = TRUE,
           \A w \in Workers : pc'[w] \in {"exit", "gone"} <=> pc[w] \in {"exit", "gone"},
           \A s \in SpareSlots : pc'[s] = "unborn" <=> pc[s] = "unborn"
    PROVE  CInv'
<1>1. Counted' = Counted /\ Clones' = Clones
  BY DEF Counted, Clones
<1>2. EmptyUnborn'
  BY DEF CInv, EmptyUnborn
<1>3. LiveCount'
  BY <1>1 DEF CInv, LiveCount
<1>. QED
  BY <1>2, <1>3 DEF CInv

\* A worker that leaves is no longer counted.
LEMMA CountedLeaves ==
    ASSUME NEW w \in Workers, pc[w] \notin {"exit", "gone"}, pc'[w] = "exit",
           \A t \in Threads \ {w} : pc'[t] = pc[t]
    PROVE  /\ Cardinality(Counted') = Cardinality(Counted) - 1
           /\ Cardinality(Counted) \in Nat /\ Cardinality(Counted') \in Nat
           /\ Clones' = Clones
<1>1. w \in Counted /\ Counted' = Counted \ {w}
  BY Kinds DEF Counted
<1>2. Clones' = Clones
  BY Kinds DEF Clones
<1>3. IsFiniteSet(Counted) /\ Cardinality(Counted) \in Nat
  BY CountedFinite
<1>4. Cardinality(Counted') = Cardinality(Counted) - 1
  BY <1>1, <1>3, FS_RemoveElement
<1>5. Counted' \in SUBSET Workers
  BY DEF Counted
<1>6. Cardinality(Counted') \in Nat
  BY <1>5, ThreadsAssumption, FS_Subset, FS_CardinalityType
<1>. QED
  BY <1>2, <1>3, <1>4, <1>6

LEMMA WorkerCountStep ==
    ASSUME TypeOK, CInv, NEW w \in Workers, Work(w)
    PROVE  CInv'
<1>. LabelsOK(pc) /\ w \in Threads /\ emptySlots \subseteq SpareSlots /\ live \in Int
  BY Kinds DEF TypeOK
<1>. \A s \in SpareSlots : s \in Threads /\ s # w
  BY Kinds
<1>1. CASE WorkerRetire(w)
  <2>1. /\ pc[w] \notin {"exit", "gone"} /\ pc'[w] = "exit"
        /\ \A t \in Threads \ {w} : pc'[t] = pc[t]
        /\ live' = live - 1 /\ shutDown' = shutDown /\ emptySlots' = emptySlots
    BY <1>1 DEF WorkerRetire, LabelsOK, managing, ending
  <2>2. EmptyUnborn'
    BY <2>1 DEF CInv, EmptyUnborn
  <2>3. LiveCount'
    BY <2>1, CountedLeaves, CountedFinite DEF CInv, LiveCount
  <2>. QED
    BY <2>2, <2>3 DEF CInv
<1>2. CASE WorkerLeave(w) /\ shutDown
  <2>1. /\ pc[w] \notin {"exit", "gone"} /\ pc'[w] = "exit"
        /\ \A t \in Threads \ {w} : pc'[t] = pc[t]
        /\ live' = live /\ shutDown' = shutDown /\ emptySlots' = emptySlots
    BY <1>2 DEF WorkerLeave, LabelsOK, counts, managing, ending
  <2>2. EmptyUnborn'
    BY <2>1 DEF CInv, EmptyUnborn
  <2>3. LiveCount'
    BY <1>2, <2>1, CountedLeaves, CountedFinite DEF CInv, LiveCount
  <2>. QED
    BY <2>2, <2>3 DEF CInv
<1>3. CASE WorkerTake(w)
  <2>1. /\ pc[w] = "take" /\ live' = live
        /\ emptySlots' = emptySlots /\ shutDown' = shutDown
    BY <1>3 DEF WorkerTake, counts, managing, ending
  <2>2. /\ \A v \in Workers : pc'[v] \in {"exit", "gone"} <=> pc[v] \in {"exit", "gone"}
        /\ \A s \in SpareSlots : pc'[s] = pc[s]
    BY <1>3, <2>1, TakeEffect, Kinds
  <2>. QED
    BY <2>1, <2>2, CountFrame
<1>4. CASE ~(WorkerRetire(w) \/ (WorkerLeave(w) /\ shutDown) \/ WorkerTake(w))
  <2>1. live' = live /\ emptySlots' = emptySlots /\ shutDown' = shutDown
    BY <1>4 DEF Work, WorkerLock, WorkerSleep, WorkerResume, WorkerLeave,
       WorkerTakeNothing, WorkerStart, WorkerRun, WorkerEnd, WorkerExit, LoopTest,
       counts, managing, ending
  <2>2. \A t \in Threads \ {w} : pc'[t] = pc[t]
    BY <1>4 DEF Work, WorkerLock, WorkerSleep, WorkerResume, WorkerLeave,
       WorkerTakeNothing, WorkerStart, WorkerRun, WorkerEnd, WorkerExit, LoopTest, LabelsOK
  <2>3. pc'[w] \in {"exit", "gone"} <=> pc[w] \in {"exit", "gone"}
    BY <1>4 DEF Work, WorkerLock, WorkerSleep, WorkerResume, WorkerLeave,
       WorkerTakeNothing, WorkerStart, WorkerRun, WorkerEnd, WorkerExit, LoopTest, LabelsOK
  <2>4. \A v \in Workers : pc'[v] \in {"exit", "gone"} <=> pc[v] \in {"exit", "gone"}
    BY <2>2, <2>3, Kinds
  <2>. QED
    BY <2>1, <2>2, <2>4, CountFrame
<1>. QED
  BY <1>1, <1>2, <1>3, <1>4

\* The threads a manager creates were not there before, and each counts.
LEMMA GrowCountStep ==
    ASSUME TypeOK, CInv, NEW m \in Managers, ManagerGrow(m)
    PROVE  CInv'
<1>. LabelsOK(pc) /\ emptySlots \subseteq SpareSlots /\ live \in Int
  BY DEF TypeOK
<1>1. PICK S \in Fillable :
          /\ emptySlots' = emptySlots \ S
          /\ live' = live + Cardinality(S)
          /\ pc' = [t \in Threads |-> IF t \in S THEN "check"
                                      ELSE IF t = m THEN "shrink" ELSE pc[t]]
  BY DEF ManagerGrow
<1>2. S \subseteq emptySlots /\ S \subseteq SpareSlots /\ shutDown' = shutDown
  BY DEF Fillable, ManagerGrow, ending
<1>3. pc[m] = "grow" /\ m \notin emptySlots
  BY DEF ManagerGrow, CInv, EmptyUnborn
<1>4. EmptyUnborn'
  BY <1>1, <1>2, <1>3, Kinds DEF CInv, EmptyUnborn
<1>5. Counted' = Counted
  BY <1>1, <1>2, Kinds DEF Counted
<1>6. Clones' = Clones \cup S /\ Clones \cap S = {}
  BY <1>1, <1>2, <1>3, Kinds DEF CInv, EmptyUnborn, Clones
<1>7. IsFiniteSet(S) /\ Cardinality(S) \in Nat
  BY <1>2, ThreadsAssumption, FS_Subset, FS_CardinalityType
<1>8. Cardinality(Clones') = Cardinality(Clones) + Cardinality(S)
  <2>1. Cardinality(Clones \cup S)
            = Cardinality(Clones) + Cardinality(S) - Cardinality(Clones \cap S)
    BY <1>7, CountedFinite, FS_Union
  <2>2. Cardinality(Clones \cap S) = 0 /\ Cardinality(Clones') = Cardinality(Clones \cup S)
    BY <1>6, FS_EmptySet
  <2>. QED
    BY <1>7, <2>1, <2>2, CountedFinite
<1>9. LiveCount'
  BY <1>1, <1>2, <1>5, <1>7, <1>8, CountedFinite DEF CInv, LiveCount
<1>. QED
  BY <1>4, <1>9 DEF CInv

LEMMA ManagerCountStep ==
    ASSUME TypeOK, CInv, NEW m \in Managers, Manage(m)
    PROVE  CInv'
<1>. LabelsOK(pc) /\ m \in Threads /\ emptySlots \subseteq SpareSlots
  BY Kinds DEF TypeOK
<1>1. CASE ManagerGrow(m)
  BY <1>1, GrowCountStep
<1>2. CASE ~ManagerGrow(m)
  <2>1. live' = live /\ emptySlots' = emptySlots /\ shutDown' = shutDown
    BY <1>2 DEF Manage, ManagerCheck, ManagerSample, ManagerShrink, ManagerSkip,
       ManagerSignal, counts, managing, ending
  <2>2. \A w \in Workers : pc'[w] \in {"exit", "gone"} <=> pc[w] \in {"exit", "gone"}
    BY ManagerQuiet DEF OthersMayWake
  <2>3. \A s \in SpareSlots : pc'[s] = "unborn" <=> pc[s] = "unborn"
    <3>1. CASE ManagerSignal(m)
      <4>. DEFINE at == [pc EXCEPT ![m] = IF @ = "signal1" THEN "signal2" ELSE "check"]
      <4>1. /\ LabelsOK(at) /\ pc' \in Signal(WaitingWorkers, at)
            /\ \A t \in Workers \cup Producers : at[t] = pc[t]
        <5>1. "signal2" \in ManagerLabels /\ "check" \in ManagerLabels
          BY DEF ManagerLabels
        <5>2. LabelsOK(at)
          BY <5>1, MoveManager
        <5>. QED
          BY <3>1, <5>2, Kinds DEF ManagerSignal, LabelsOK
      <4>2. \A t \in Threads \ Workers : pc'[t] = at[t]
        BY <4>1, SignalWorkersOnly
      <4>3. \A s \in SpareSlots : pc'[s] = at[s]
        BY <4>2, Kinds
      <4>4. pc[m] # "unborn" /\ at[m] # "unborn" /\ \A s \in SpareSlots \ {m} : at[s] = pc[s]
        BY <3>1, Kinds DEF ManagerSignal, LabelsOK
      <4>. QED
        BY <4>3, <4>4
    <3>2. CASE ~ManagerSignal(m)
      BY <1>2, <3>2, Kinds DEF Manage, ManagerCheck, ManagerSample, ManagerShrink,
         ManagerSkip, LabelsOK
    <3>. QED
      BY <3>1, <3>2
  <2>. QED
    BY <2>1, <2>2, <2>3, CountFrame
<1>. QED
  BY <1>1, <1>2

LEMMA CountStep ==
    ASSUME TypeOK, CInv, [Next]_vars
    PROVE  CInv'
<1>. emptySlots \subseteq SpareSlots
  BY DEF TypeOK
<1>1. ASSUME NEW p \in Producers, Submit(p) PROVE CInv'
  <2>1. /\ live' = live /\ emptySlots' = emptySlots /\ shutDown' = shutDown
        /\ \A w \in Workers : pc'[w] = pc[w]
        /\ \A s \in SpareSlots : pc'[s] = pc[s]
    BY <1>1, CallerEffect, Kinds DEF counts, managing, ending
  <2>. QED
    BY <2>1, CountFrame
<1>2. ASSUME NEW d \in Destroyers, Destroy(d) PROVE CInv'
  <2>1. /\ live' = live /\ emptySlots' = emptySlots
        /\ shutDown' = shutDown \/ shutDown' = TRUE
    BY <1>2, DestroyerQuiet DEF counts, managing, TypeOK
  <2>2. /\ \A w \in Workers : pc'[w] \in {"exit", "gone"} <=> pc[w] \in {"exit", "gone"}
        /\ \A s \in SpareSlots : pc'[s] = pc[s]
    BY <1>2, DestroyerQuiet, Kinds DEF OthersMayWake
  <2>. QED
    BY <2>1, <2>2, CountFrame
<1>3. CASE SpuriousWakeup
  <2>1. /\ live' = live /\ emptySlots' = emptySlots /\ shutDown' = shutDown
        /\ \A w \in Workers : pc'[w] \in {"exit", "gone"} <=> pc[w] \in {"exit", "gone"}
        /\ \A s \in SpareSlots : pc'[s] = pc[s]
    BY <1>3, WakeupQuiet, Kinds DEF counts, managing, ending
  <2>. QED
    BY <2>1, CountFrame
<1>4. CASE UNCHANGED vars
  BY <1>4, CountFrame DEF vars, counts, managing, ending
<1>. QED
  BY <1>1, <1>2, <1>3, <1>4, WorkerCountStep, ManagerCountStep DEF Next

(***************************************************************************)
(* live_thread_num_ is the number of threads of work_thread_ that have not *)
(* left, the managers created by ManagerGrow included, for any number of   *)
(* threads and of managers that act on stale snapshots at once; only the   *)
(* workers that leave because of shut_down_state_ are still counted.       *)
(***************************************************************************)
THEOREM LiveIsCounted == Spec => []LiveCount
<1>1. Init => CInv
  <2>. SUFFICES ASSUME Init PROVE CInv
    OBVIOUS
  <2>1. /\ \A w \in Workers : pc[w] = "lock"
        /\ \A s \in SpareSlots : pc[s] = "unborn"
    BY Kinds DEF Init
  <2>2. Counted = Workers /\ Clones = {}
    BY <2>1 DEF Counted, Clones
  <2>3. live = Cardinality(Workers) /\ Cardinality({}) = 0 /\ Cardinality(Workers) \in Nat
    BY ThreadsAssumption, FS_EmptySet, FS_CardinalityType DEF Init, MinThread
  <2>4. LiveCount
    BY <2>2, <2>3 DEF LiveCount
  <2>5. EmptyUnborn
    BY <2>1 DEF Init, EmptyUnborn
  <2>. QED
    BY <2>4, <2>5 DEF CInv
<1>2. TypeOK /\ CInv /\ [Next]_vars => CInv'
  BY CountStep
<1>3. CInv => LiveCount
  BY DEF CInv
<1>. QED
  BY <1>1, <1>2, <1>3, TypeCorrect, PTL DEF Spec

=============================================================================
