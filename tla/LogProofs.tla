----------------------------- MODULE LogProofs -----------------------------
(***************************************************************************)
(* Proofs about LogChannel, in two parts.  The ring: what the remainders   *)
(* that compare_exchange compares say of the counts behind them, that the  *)
(* indices keep their order, and that a slot has one user.  The records:   *)
(* each is handed to each device that admits it exactly once, in a         *)
(* synchronous channel nobody leaves one behind, and a file device keeps   *)
(* the latest of those it wrote.                                           *)
(***************************************************************************)
EXTENDS LogChannel, FiniteSetTheorems, SequenceTheorems, TLAPS

-----------------------------------------------------------------------------
(* Remainders *)

\* Division with remainder, as the provers know it.
LEMMA DivMod ==
    ASSUME NEW B \in Nat \ {0}, NEW a \in Int
    PROVE  /\ a \div B \in Int /\ a % B \in 0 .. B - 1
           /\ a = B * (a \div B) + (a % B)
BY Z3

\* Between -B and B there is one multiple of B.
LEMMA NoMultipleBetween ==
    ASSUME NEW B \in Nat \ {0}, NEW d \in Int, -B < B * d, B * d < B
    PROVE  d = 0
<1>1. CASE d >= 1
  <2>1. B * d >= B
    BY <1>1, Z3
  <2> QED BY <2>1
<1>2. CASE d <= -1
  <2>1. B * d <= -B
    BY <1>2, Z3
  <2> QED BY <2>1
<1> QED BY <1>1, <1>2

\* Less than a round apart, equal remainders mean equal counts.
LEMMA SameIndex ==
    ASSUME NEW B \in Nat \ {0}, NEW a \in Nat, NEW b \in Nat,
           a <= b, b < a + B, a % B = b % B
    PROVE  a = b
<1> DEFINE p == a \div B
           q == b \div B
<1>1. /\ p \in Int /\ q \in Int /\ a % B \in Int
      /\ a = B * p + (a % B) /\ b = B * q + (b % B)
  BY DivMod
<1>2. b - a = B * (q - p)
  <2> DEFINE r == a % B
  <2>1. r \in Int /\ a = B * p + r /\ b = B * q + r /\ p \in Int /\ q \in Int
    BY <1>1
  <2> HIDE DEF p, q, r
  <2> QED BY <2>1
<1> HIDE DEF p, q
<1>3. q - p = 0
  BY <1>1, <1>2, NoMultipleBetween
<1> QED BY <1>1, <1>2, <1>3

\* A round further the remainder is the same.
LEMMA FullTurn ==
    ASSUME NEW B \in Nat \ {0}, NEW a \in Nat
    PROVE  (a + B) % B = a % B
<1> DEFINE p == a \div B
           q == (a + B) \div B
           r == a % B
           u == (a + B) % B
<1>1. /\ p \in Int /\ r \in 0 .. B - 1 /\ a = B * p + r
      /\ q \in Int /\ u \in 0 .. B - 1 /\ a + B = B * q + u
  <2>1. p \in Int /\ r \in 0 .. B - 1 /\ a = B * p + r
    BY DivMod
  <2>2. a + B \in Int
    OBVIOUS
  <2>3. q \in Int /\ u \in 0 .. B - 1 /\ a + B = B * q + u
    BY <2>2, DivMod
  <2> QED BY <2>1, <2>3
<1> HIDE DEF p, q, r, u
<1>2. B * (q - p - 1) = r - u
  BY <1>1
<1>3. q - p - 1 = 0
  <2>1. -B < r - u /\ r - u < B
    BY <1>1
  <2> QED BY <1>1, <1>2, <2>1, NoMultipleBetween
<1>4. r = u
  BY <1>1, <1>2, <1>3
<1> QED BY <1>4 DEF r, u
-----------------------------------------------------------------------------
(* The invariant.  What RingOrder says of the present is kept because what *)
(* a thread has loaded stays close to the index it came from, and behind   *)
(* the index it was compared with.                                         *)

Labels ==
    {"none", "idle", "hold", "claim", "fill", "push", "ripe", "write", "ready",
     "publish", "proc", "take", "dispatch", "read", "spent", "free", "tail",
     "sleep", "starting", "started", "gaveup", "join", "joinfail", "clean",
     "failed", "stopped"}

Types ==
    /\ hold \in Nat /\ write \in Nat /\ proc \in Nat /\ read \in Nat
    /\ old \in [Threads -> Nat]
    /\ pc \in [Threads \cup {Main} -> Labels]

Order ==
    read <= proc /\ proc <= write /\ write <= hold /\ hold < read + BufferLen

Near(count, loaded) == loaded <= count /\ count < loaded + BufferLen

Loaded(t) ==
    /\ pc[t] = "claim" => Near(hold, old[t]) /\ old[t] + 1 < read + BufferLen
    /\ pc[t] \in {"ready", "publish"} => Near(write, old[t]) /\ old[t] < hold
    /\ pc[t] = "take" => Near(proc, old[t]) /\ old[t] < write
    /\ pc[t] \in {"spent", "free"} => Near(read, old[t]) /\ old[t] < proc

Ring == Order /\ \A t \in Threads : Loaded(t)

\* CleanChannels sets the indices back under the threads that go on.
IInv ==
    /\ Types
    /\ pc[Main] = "stopped" => logger_state = "uninit"
    /\ pc[Main] # "stopped" => Ring

\* Counts less than a round of the ring apart have their slots apart.
LEMMA SameCount ==
    ASSUME NEW a \in Nat, NEW b \in Nat, a <= b, b < a + BufferLen,
           Index(a) = Index(b)
    PROVE  a = b
BY SameIndex, LogAssumption DEF Index

\* HoldChannel's test for a full ring leaves one slot free.
LEMMA NotFull ==
    ASSUME NEW a \in Nat, NEW b \in Nat, a < b + BufferLen,
           Index(a + 1) # Index(b)
    PROVE  a + 1 < b + BufferLen
<1>. BufferLen \in Nat \ {0}
  BY LogAssumption
<1>. SUFFICES ASSUME a + 1 = b + BufferLen PROVE FALSE
  OBVIOUS
<1> QED BY FullTurn DEF Index

\* A thread that goes on to a place leaves the others and Main where they are.
LEMMA GotoMoves ==
    ASSUME Types, NEW t \in Threads, NEW place \in Labels, Goto(t, place)
    PROVE  /\ pc' \in [Threads \cup {Main} -> Labels]
           /\ pc'[Main] = pc[Main]
           /\ pc'[t] = place
           /\ \A u \in Threads \ {t} : pc'[u] = pc[u]
BY LogAssumption DEF Types, Goto, Threads

HasLoaded == {"claim", "ready", "publish", "take", "spent", "free"}

\* A step after which the thread has nothing loaded and no index has moved.
LEMMA Moves ==
    ASSUME IInv, NEW t \in Threads, NEW place \in Labels \ HasLoaded,
           pc[Main] # "stopped", Goto(t, place),
           UNCHANGED <<logger_state, hold, write, proc, read, old>>
    PROVE  IInv'
<1>1. Types' /\ pc'[Main] # "stopped"
  BY GotoMoves DEF IInv, Types
<1>2. Order'
  BY DEF IInv, Ring, Order
<1>3. ASSUME NEW u \in Threads PROVE Loaded(u)'
  <2>1. CASE u = t
    BY <2>1, GotoMoves DEF IInv, Loaded, HasLoaded
  <2>2. CASE u # t
    BY <2>2, GotoMoves DEF IInv, Ring, Loaded, Near
  <2> QED BY <2>1, <2>2
<1> QED BY <1>1, <1>2, <1>3 DEF IInv, Ring

\* A step that loads an index, or keeps what it has loaded.
LEMMA Loads ==
    ASSUME IInv, NEW t \in Threads, NEW place \in Labels, pc[Main] # "stopped",
           Goto(t, place), old' \in [Threads -> Nat],
           \A u \in Threads \ {t} : old'[u] = old[u],
           UNCHANGED <<logger_state, hold, write, proc, read>>,
           Loaded(t)'
    PROVE  IInv'
<1>1. Types' /\ pc'[Main] # "stopped"
  BY GotoMoves DEF IInv, Types
<1>2. Order'
  BY DEF IInv, Ring, Order
<1>3. ASSUME NEW u \in Threads PROVE Loaded(u)'
  <2>1. CASE u = t
    BY <2>1
  <2>2. CASE u # t
    BY <2>2, GotoMoves DEF IInv, Ring, Loaded, Near
  <2> QED BY <2>1, <2>2
<1> QED BY <1>1, <1>2, <1>3 DEF IInv, Ring

\* The indices stay in order in HoldChannel ...
LEMMA HoldKeeps ==
    ASSUME IInv, NEW t \in Producers, Hold(t)
    PROVE  IInv'
<1>. t \in Threads /\ BufferLen \in Nat \ {0}
  BY LogAssumption DEF Threads
<1>. Types
  BY DEF IInv
<1>1. CASE HoldLoad(t)
  <2>. pc[Main] # "stopped" /\ Ring
    BY <1>1 DEF HoldLoad, At, IInv
  <2>1. CASE channel_state # "running"
    BY <1>1, <2>1, Moves DEF HoldLoad, ring, Labels, HasLoaded
  <2>2. CASE channel_state = "running"
    <3>1. /\ Goto(t, "claim") /\ old' = [old EXCEPT ![t] = hold]
          /\ Index(hold + 1) # Index(read)
          /\ UNCHANGED <<logger_state, hold, write, proc, read>>
      BY <1>1, <2>2 DEF HoldLoad, ring
    <3>2. hold + 1 < read + BufferLen
      BY <3>1, NotFull DEF Ring, Order, Types
    <3>3. pc'[t] = "claim"
      BY <3>1, GotoMoves DEF Labels
    <3>4. old'[t] = hold /\ old' \in [Threads -> Nat]
      BY <3>1 DEF Types
    <3>5. Loaded(t)'
      BY <3>1, <3>2, <3>3, <3>4 DEF Loaded, Near, Types
    <3> QED BY <3>1, <3>4, <3>5, Loads DEF Labels, Types
  <2> QED BY <2>1, <2>2
<1>2. CASE HoldClaim(t)
  <2>. pc[Main] # "stopped" /\ Ring /\ pc[t] = "claim"
    BY <1>2 DEF HoldClaim, At, IInv
  <2>1. CASE Index(hold) # Index(old[t])
    BY <1>2, <2>1, Moves DEF HoldClaim, Labels, HasLoaded
  <2>2. CASE Index(hold) = Index(old[t])
    <3>1. /\ Goto(t, "fill") /\ hold' = hold + 1
          /\ Prompt(hold, LoadedHold \ {t})
          /\ UNCHANGED <<logger_state, write, proc, read, old>>
      BY <1>2, <2>2 DEF HoldClaim
    <3>2. hold = old[t]
      BY <2>2, SameCount DEF Ring, Loaded, Near, Types
    <3>3. Order'
      BY <3>1, <3>2 DEF Ring, Order, Loaded, Types
    <3>4. Types' /\ pc'[Main] # "stopped"
      BY <3>1, GotoMoves DEF Types, Labels
    <3>5. ASSUME NEW u \in Threads PROVE Loaded(u)'
      <4>1. CASE u = t
        BY <3>1, <4>1, GotoMoves DEF Loaded, Labels
      <4>2. CASE u # t
        <5>1. pc'[u] = pc[u] /\ old'[u] = old[u]
          BY <3>1, <4>2, GotoMoves DEF Labels
        <5>2. pc[u] = "claim" => Near(hold', old[u])
          BY <3>1, <4>2 DEF Prompt, LoadedHold, Ring, Loaded, Near, Types
        <5> QED BY <3>1, <5>1, <5>2 DEF Ring, Loaded, Near, Types
      <4> QED BY <4>1, <4>2
    <3> QED BY <3>3, <3>4, <3>5 DEF IInv, Ring
  <2> QED BY <2>1, <2>2
<1>3. CASE Fill(t)
  BY <1>3, Moves DEF Fill, At, Labels, HasLoaded
<1> QED BY <1>1, <1>2, <1>3 DEF Hold

\* A thread after its loop in PushChannel has nothing loaded.
LEMMA PushedPlace == Pushed \in Labels \ HasLoaded
BY DEF Pushed, Labels, HasLoaded

\* ... in PushChannel ...
LEMMA PushKeeps ==
    ASSUME IInv, NEW t \in Producers, Push(t)
    PROVE  IInv'
<1>. t \in Threads /\ BufferLen \in Nat \ {0}
  BY LogAssumption DEF Threads
<1>. Types
  BY DEF IInv
<1>1. CASE PushCheck(t)
  <2>. DEFINE place == IF channel_state = "running" THEN "ripe" ELSE "idle"
  <2>1. place \in Labels \ HasLoaded
    BY DEF Labels, HasLoaded
  <2>2. /\ pc[Main] # "stopped" /\ Goto(t, place)
        /\ UNCHANGED <<logger_state, hold, write, proc, read, old>>
    BY <1>1 DEF PushCheck, At, ring
  <2> HIDE DEF place
  <2> QED BY <2>1, <2>2, Moves
<1>2. CASE MarkReady(t)
  BY <1>2, Moves DEF MarkReady, At, Labels, HasLoaded
<1>3. CASE WriteLoad(t)
  <2>. pc[Main] # "stopped" /\ Ring
    BY <1>3 DEF WriteLoad, At, IInv
  <2>1. CASE Index(write) = Index(hold)
    BY <1>3, <2>1, PushedPlace, Moves DEF WriteLoad, ring
  <2>2. CASE Index(write) # Index(hold)
    <3>1. /\ Goto(t, "ready") /\ old' = [old EXCEPT ![t] = write]
          /\ UNCHANGED <<logger_state, hold, write, proc, read>>
      BY <1>3, <2>2 DEF WriteLoad, ring
    <3>2. write < hold
      BY <2>2 DEF Ring, Order, Types
    <3>3. pc'[t] = "ready"
      BY <3>1, GotoMoves DEF Labels
    <3>4. old'[t] = write /\ old' \in [Threads -> Nat]
      BY <3>1 DEF Types
    <3>5. Loaded(t)'
      BY <3>1, <3>2, <3>3, <3>4 DEF Loaded, Near, Types
    <3> QED BY <3>1, <3>4, <3>5, Loads DEF Labels, Types
  <2> QED BY <2>1, <2>2
<1>4. CASE WriteReady(t)
  <2>. /\ pc[Main] # "stopped" /\ Ring /\ pc[t] = "ready"
       /\ UNCHANGED <<logger_state, hold, write, proc, read, old>>
    BY <1>4 DEF WriteReady, At, IInv, ring
  <2>1. CASE mark[Index(old[t])] # "ready"
    BY <1>4, <2>1, PushedPlace, Moves DEF WriteReady
  <2>2. CASE mark[Index(old[t])] = "ready"
    <3>1. Goto(t, "publish")
      BY <1>4, <2>2 DEF WriteReady
    <3>2. Loaded(t)'
      BY <3>1, GotoMoves DEF Ring, Loaded, Near, Labels
    <3> QED BY <3>1, <3>2, Loads DEF Labels, Types
  <2> QED BY <2>1, <2>2
<1>5. CASE Publish(t)
  <2>. DEFINE place == IF channel_state = "running" THEN "write" ELSE Pushed
  <2>1. place \in Labels \ HasLoaded
    BY PushedPlace DEF Labels, HasLoaded
  <2>2. /\ pc[Main] # "stopped" /\ Ring /\ pc[t] = "publish" /\ Goto(t, place)
        /\ UNCHANGED <<logger_state, hold, proc, read, old>>
    BY <1>5 DEF Publish, At, IInv
  <2> HIDE DEF place
  <2>3. CASE Index(write) # Index(old[t])
    <3>1. UNCHANGED write
      BY <1>5, <2>3 DEF Publish
    <3> QED BY <2>1, <2>2, <3>1, Moves
  <2>4. CASE Index(write) = Index(old[t])
    <3>1. write' = write + 1 /\ Prompt(write, LoadedWrite \ {t})
      BY <1>5, <2>4 DEF Publish
    <3>2. write = old[t]
      BY <2>2, <2>4, SameCount DEF Ring, Loaded, Near, Types
    <3>3. Order'
      BY <2>2, <3>1, <3>2 DEF Ring, Order, Loaded, Types
    <3>4. Types' /\ pc'[Main] # "stopped"
      BY <2>1, <2>2, <3>1, GotoMoves DEF Types
    <3>5. ASSUME NEW u \in Threads PROVE Loaded(u)'
      <4>1. CASE u = t
        BY <2>1, <2>2, <4>1, GotoMoves DEF Loaded, HasLoaded
      <4>2. CASE u # t
        <5>1. pc'[u] = pc[u] /\ old'[u] = old[u]
          BY <2>1, <2>2, <4>2, GotoMoves
        <5>2. pc[u] \in {"ready", "publish"} => Near(write', old[u])
          BY <2>2, <3>1, <4>2 DEF Prompt, LoadedWrite, Ring, Loaded, Near, Types
        <5> QED BY <2>2, <3>1, <5>1, <5>2 DEF Ring, Loaded, Near, Types
      <4> QED BY <4>1, <4>2
    <3> QED BY <3>3, <3>4, <3>5 DEF IInv, Ring
  <2> QED BY <2>3, <2>4
<1> QED BY <1>1, <1>2, <1>3, <1>4, <1>5 DEF Push

\* ... in EnterProcChannel ...
LEMMA EnterKeeps ==
    ASSUME IInv, NEW t \in Threads, Enter(t)
    PROVE  IInv'
<1>. BufferLen \in Nat \ {0}
  BY LogAssumption
<1>. Types
  BY DEF IInv
<1>1. CASE ProcLoad(t)
  <2>. pc[Main] # "stopped" /\ Ring
    BY <1>1 DEF ProcLoad, At, IInv
  <2>1. CASE Index(proc) = Index(write)
    BY <1>1, <2>1, Moves DEF ProcLoad, ring, Labels, HasLoaded
  <2>2. CASE Index(proc) # Index(write)
    <3>1. /\ Goto(t, "take") /\ old' = [old EXCEPT ![t] = proc]
          /\ UNCHANGED <<logger_state, hold, write, proc, read>>
      BY <1>1, <2>2 DEF ProcLoad, ring
    <3>2. proc < write
      BY <2>2 DEF Ring, Order, Types
    <3>3. pc'[t] = "take"
      BY <3>1, GotoMoves DEF Labels
    <3>4. old'[t] = proc /\ old' \in [Threads -> Nat]
      BY <3>1 DEF Types
    <3>5. Loaded(t)'
      BY <3>1, <3>2, <3>3, <3>4 DEF Loaded, Near, Types
    <3> QED BY <3>1, <3>4, <3>5, Loads DEF Labels, Types
  <2> QED BY <2>1, <2>2
<1>2. CASE Take(t)
  <2>. /\ pc[Main] # "stopped" /\ Ring /\ pc[t] = "take"
       /\ UNCHANGED <<logger_state, hold, write, read, old>>
    BY <1>2 DEF Take, At, IInv
  <2>1. CASE Index(proc) # Index(old[t])
    BY <1>2, <2>1, Moves DEF Take, Labels, HasLoaded
  <2>2. CASE Index(proc) = Index(old[t])
    <3>1. /\ Goto(t, "dispatch") /\ proc' = proc + 1
          /\ Prompt(proc, LoadedProc \ {t})
      BY <1>2, <2>2 DEF Take
    <3>2. proc = old[t]
      BY <2>2, SameCount DEF Ring, Loaded, Near, Types
    <3>3. Order'
      BY <3>1, <3>2 DEF Ring, Order, Loaded, Types
    <3>4. Types' /\ pc'[Main] # "stopped"
      BY <3>1, GotoMoves DEF Types, Labels
    <3>5. ASSUME NEW u \in Threads PROVE Loaded(u)'
      <4>1. CASE u = t
        BY <3>1, <4>1, GotoMoves DEF Loaded, Labels
      <4>2. CASE u # t
        <5>1. pc'[u] = pc[u] /\ old'[u] = old[u]
          BY <3>1, <4>2, GotoMoves DEF Labels
        <5>2. pc[u] = "take" => Near(proc', old[u])
          BY <3>1, <4>2 DEF Prompt, LoadedProc, Ring, Loaded, Near, Types
        <5> QED BY <3>1, <5>1, <5>2 DEF Ring, Loaded, Near, Types
      <4> QED BY <4>1, <4>2
    <3> QED BY <3>3, <3>4, <3>5 DEF IInv, Ring
  <2> QED BY <2>1, <2>2
<1>3. CASE Dispatch(t)
  <2>1. UNCHANGED <<logger_state, hold, write, proc, read, old, pc>>
    BY <1>3 DEF Dispatch, ring
  <2> QED BY <2>1 DEF IInv, Types, Ring, Order, Loaded, Near
<1>4. CASE Release(t)
  BY <1>4, Moves DEF Release, At, Labels, HasLoaded
<1>5. CASE ReadLoad(t)
  <2>. pc[Main] # "stopped" /\ Ring
    BY <1>5 DEF ReadLoad, At, IInv
  <2>1. CASE Index(read) = Index(proc)
    BY <1>5, <2>1, Moves DEF ReadLoad, ring, Labels, HasLoaded
  <2>2. CASE Index(read) # Index(proc)
    <3>1. /\ Goto(t, "spent") /\ old' = [old EXCEPT ![t] = read]
          /\ UNCHANGED <<logger_state, hold, write, proc, read>>
      BY <1>5, <2>2 DEF ReadLoad, ring
    <3>2. read < proc
      BY <2>2 DEF Ring, Order, Types
    <3>3. pc'[t] = "spent"
      BY <3>1, GotoMoves DEF Labels
    <3>4. old'[t] = read /\ old' \in [Threads -> Nat]
      BY <3>1 DEF Types
    <3>5. Loaded(t)'
      BY <3>1, <3>2, <3>3, <3>4 DEF Loaded, Near, Types
    <3> QED BY <3>1, <3>4, <3>5, Loads DEF Labels, Types
  <2> QED BY <2>1, <2>2
<1>6. CASE ReadSpent(t)
  <2>. /\ pc[Main] # "stopped" /\ Ring /\ pc[t] = "spent"
       /\ UNCHANGED <<logger_state, hold, write, proc, read, old>>
    BY <1>6 DEF ReadSpent, At, IInv, ring
  <2>1. CASE mark[Index(old[t])] # "invalid"
    BY <1>6, <2>1, Moves DEF ReadSpent, Labels, HasLoaded
  <2>2. CASE mark[Index(old[t])] = "invalid"
    <3>1. Goto(t, "free")
      BY <1>6, <2>2 DEF ReadSpent
    <3>2. Loaded(t)'
      BY <3>1, GotoMoves DEF Ring, Loaded, Near, Labels
    <3> QED BY <3>1, <3>2, Loads DEF Labels, Types
  <2> QED BY <2>1, <2>2
<1>7. CASE ReadFree(t)
  <2>. /\ pc[Main] # "stopped" /\ Ring /\ pc[t] = "free" /\ Goto(t, "read")
       /\ UNCHANGED <<logger_state, hold, write, proc, old>>
    BY <1>7 DEF ReadFree, At, IInv
  <2>1. CASE Index(read) # Index(old[t])
    BY <1>7, <2>1, Moves DEF ReadFree, Labels, HasLoaded
  <2>2. CASE Index(read) = Index(old[t])
    <3>1. read' = read + 1 /\ Prompt(read, LoadedRead \ {t})
      BY <1>7, <2>2 DEF ReadFree
    <3>2. read = old[t]
      BY <2>2, SameCount DEF Ring, Loaded, Near, Types
    <3>3. Order'
      BY <3>1, <3>2 DEF Ring, Order, Loaded, Types
    <3>4. Types' /\ pc'[Main] # "stopped"
      BY <3>1, GotoMoves DEF Types, Labels
    <3>5. ASSUME NEW u \in Threads PROVE Loaded(u)'
      <4>1. CASE u = t
        BY <3>1, <4>1, GotoMoves DEF Loaded, Labels
      <4>2. CASE u # t
        <5>1. pc'[u] = pc[u] /\ old'[u] = old[u]
          BY <4>2, GotoMoves DEF Labels
        <5>2. pc[u] \in {"spent", "free"} => Near(read', old[u])
          BY <3>1, <4>2 DEF Prompt, LoadedRead, Ring, Loaded, Near, Types
        <5> QED BY <3>1, <5>1, <5>2 DEF Ring, Loaded, Near, Types
      <4> QED BY <4>1, <4>2
    <3> QED BY <3>3, <3>4, <3>5 DEF IInv, Ring
  <2> QED BY <2>1, <2>2
<1>8. CASE Report(t)
  <2>. DEFINE place == IF channel_type = "sync" THEN "idle" ELSE "sleep"
  <2>1. place \in Labels \ HasLoaded
    BY DEF Labels, HasLoaded
  <2>2. /\ pc[Main] # "stopped" /\ Goto(t, place)
        /\ UNCHANGED <<logger_state, hold, write, proc, read, old>>
    BY <1>8 DEF Report, At, ring
  <2> HIDE DEF place
  <2> QED BY <2>1, <2>2, Moves
<1> QED BY <1>1, <1>2, <1>3, <1>4, <1>5, <1>6, <1>7, <1>8 DEF Enter

\* ... and when the thread of an asynchronous channel wakes.
LEMMA WakeKeeps ==
    ASSUME IInv, Wake
    PROVE  IInv'
<1>. Writer \in Threads
  BY DEF Threads
<1>1. /\ pc[Main] # "stopped"
      /\ Goto(Writer, "proc") \/ Goto(Writer, "none")
      /\ UNCHANGED <<logger_state, hold, write, proc, read, old>>
  BY DEF Wake, At, ring
<1> QED BY <1>1, Moves DEF Labels, HasLoaded

\* Main sets up, starts and stops without touching the ring of a live channel.
LEMMA MainMoves ==
    ASSUME IInv, SetUp \/ Start \/ StopChannels \/ Join
    PROVE  /\ UNCHANGED <<hold, write, proc, read, mark, slot, mine, old>>
           /\ pc[Main] # "stopped" /\ pc'[Main] # "stopped"
           /\ pc' \in [Threads \cup {Main} -> Labels]
           /\ \A t \in Threads : pc'[t] = pc[t] \/ pc'[t] = "proc"
<1>1. UNCHANGED <<hold, write, proc, read, mark, slot, mine, old>>
  BY DEF SetUp, AddLoggerToFile, AddLoggerToScreen, AddDevice, SetLoggerSync,
         LoggerStart, Start, StartSeen, StartTimeout, StopChannels, Join, ring, threads
<1>2. pc[Main] # "stopped"
  BY DEF SetUp, AddLoggerToFile, AddLoggerToScreen, AddDevice, SetLoggerSync,
         LoggerStart, Start, StartSeen, StartTimeout, StopChannels, Join
<1>3. /\ pc' \in [Threads \cup {Main} -> Labels] /\ pc'[Main] # "stopped"
      /\ \A t \in Threads : pc'[t] = pc[t] \/ pc'[t] = "proc"
  <2>. Types /\ Main \notin Threads
    BY LogAssumption DEF IInv, Threads
  <2>1. CASE SetUp
    <3>1. CASE LoggerStart
      BY <3>1 DEF LoggerStart, Goto, Types, Labels, Threads
    <3>2. CASE AddLoggerToFile \/ AddLoggerToScreen \/ SetLoggerSync
      BY <1>2, <3>2 DEF AddLoggerToFile, AddLoggerToScreen, AddDevice,
                        SetLoggerSync, threads, Types
    <3> QED BY <2>1, <3>1, <3>2 DEF SetUp
  <2>2. CASE Start
    BY <2>2 DEF Start, StartSeen, StartTimeout, Goto, Types, Labels
  <2>3. CASE StopChannels
    BY <2>3 DEF StopChannels, Goto, Types, Labels
  <2>4. CASE Join
    BY <2>4 DEF Join, Goto, Types, Labels
  <2> QED BY <2>1, <2>2, <2>3, <2>4
<1> QED BY <1>1, <1>2, <1>3

\* So the order of the indices survives what Main does with the channel,
LEMMA MainKeeps ==
    ASSUME IInv, SetUp \/ Start \/ StopChannels \/ Join
    PROVE  IInv'
<1>1. Types' /\ Order'
  BY MainMoves DEF IInv, Types, Ring, Order
<1>2. \A t \in Threads : Loaded(t)'
  BY MainMoves DEF IInv, Ring, Loaded, Near
<1> QED BY MainMoves, <1>1, <1>2 DEF IInv, Ring

\* as long as the channel is not cleaned.
LEMMA CleanKeeps ==
    ASSUME IInv, CleanChannels
    PROVE  IInv'
<1>1. /\ Types /\ hold' = 0 /\ write' = 0 /\ proc' = 0 /\ read' = 0
      /\ old' = old /\ logger_state' = "uninit" /\ Goto(Main, "stopped")
  BY DEF CleanChannels, IInv
<1>2. pc' \in [Threads \cup {Main} -> Labels] /\ pc'[Main] = "stopped"
  BY <1>1 DEF Goto, Types, Labels
<1> QED BY <1>1, <1>2 DEF IInv, Types

\* A call of the logger begins.
LEMMA LogKeeps ==
    ASSUME IInv, NEW t \in Producers, Log(t)
    PROVE  IInv'
<1>1. t \in Threads /\ pc[Main] # "stopped" /\ Goto(t, "hold")
  BY DEF Log, At, Threads
<1>2. UNCHANGED <<logger_state, hold, write, proc, read, old>>
  BY DEF Log, ring
<1> QED BY <1>1, <1>2, Moves DEF Labels, HasLoaded

\* IInv is inductive ...
LEMMA NextKeeps == IInv /\ [Next]_vars => IInv'
<1>. SUFFICES ASSUME IInv, [Next]_vars PROVE IInv'
  OBVIOUS
<1>1. CASE SetUp \/ Start \/ Stop
  BY <1>1, MainKeeps, CleanKeeps DEF Stop
<1>2. ASSUME NEW t \in Producers, Log(t) PROVE IInv'
  BY <1>2, LogKeeps
<1>3. ASSUME NEW t \in Threads, Step(t) PROVE IInv'
  BY <1>3, EnterKeeps, HoldKeeps, PushKeeps, WakeKeeps DEF Step
<1>4. CASE UNCHANGED vars
  BY <1>4 DEF vars, ring, threads, IInv, Types, Ring, Order, Loaded, Near
<1> QED BY <1>1, <1>2, <1>3, <1>4 DEF Next

\* ... and holds at the start.
LEMMA InitHolds == Init => IInv
<1>. SUFFICES ASSUME Init PROVE IInv
  OBVIOUS
<1>1. Types /\ \A t \in Threads \cup {Main} : pc[t] \in {"idle", "none"}
  BY LogAssumption DEF Init, Types, Labels, Threads
<1>2. Order
  BY LogAssumption DEF Init, Order
<1>3. \A t \in Threads : Loaded(t)
  BY <1>1 DEF Loaded
<1> QED BY <1>1, <1>2, <1>3 DEF IInv, Ring

(***************************************************************************)
(* Whatever the number of threads and the length of the ring: while the    *)
(* logger runs, the indices keep their order and one slot stays free.      *)
(***************************************************************************)
THEOREM RingKeepsOrder == Spec => []RingOrder
<1>1. IInv => RingOrder
  BY DEF IInv, Ring, Order, RingOrder, Live
<1> QED BY InitHolds, NextKeeps, <1>1, PTL DEF Spec

(***************************************************************************)
(* A limit for which limit_size * 1024 * 1024 does not overflow an int is  *)
(* the limit that was asked for (Logger.cpp:106).                          *)
(***************************************************************************)
THEOREM LimitFits ==
    ASSUME NEW limit_size \in Nat, 2 * (limit_size * MB) < IntRange
    PROVE  LimitOf(limit_size) = limit_size * MB
<1>. DEFINE n == limit_size * MB
<1>1. n \in Nat /\ IntRange \in Nat \ {0} /\ 2 * n < IntRange
  BY DevicesAssumption
<1>. HIDE DEF n
<1>2. n % IntRange = n
  BY <1>1, Z3
<1> QED BY <1>1, <1>2 DEF LimitOf, n

-----------------------------------------------------------------------------
(***************************************************************************)
(* A slot of the ring has one user.  The counts in the ring, from read up  *)
(* to hold, are less than a round apart, so that two of them never share a *)
(* slot.  Those below proc are being handed out or given back, those up to *)
(* write are complete and wait, those up to hold are claimed; and the      *)
(* marks say which are done with.                                          *)
(***************************************************************************)
Filling == {"fill", "push", "ripe"}
Using   == Filling \cup {"dispatch"}

SlotTypes ==
    /\ mark \in [Slots -> {"invalid", "hold", "ready"}]
    /\ slot \in [Slots -> Nat]
    /\ mine \in [Threads -> Nat]

\* A slot that was claimed is not ready before its thread says so, and holds
\* the record from Fill on.
Claims ==
    \A t \in Threads : pc[t] \in Filling =>
        /\ write <= mine[t] /\ mine[t] < hold
        /\ mark[Index(mine[t])] # "ready"
        /\ pc[t] \in {"push", "ripe"} => slot[Index(mine[t])] = mine[t] + 1

Takes ==
    \A t \in Threads : pc[t] = "dispatch" =>
        /\ read <= mine[t] /\ mine[t] < proc
        /\ mark[Index(mine[t])] = "ready"
        /\ slot[Index(mine[t])] = mine[t] + 1

Apart ==
    \A t, u \in Threads :
        t # u /\ pc[t] \in Using /\ pc[u] \in Using => mine[t] # mine[u]

\* What is marked ready is complete.
Complete ==
    \A i \in Nat : write <= i /\ i < hold /\ mark[Index(i)] = "ready"
                       => slot[Index(i)] = i + 1

Published ==
    \A i \in Nat : proc <= i /\ i < write
                       => mark[Index(i)] = "ready" /\ slot[Index(i)] = i + 1

\* No mark of the last round is left on a slot that may be claimed.
Vacant ==
    \A i \in Nat : hold <= i /\ i < read + BufferLen => mark[Index(i)] # "ready"

\* What a thread saw of a mark still holds when it moves the index.
Seen(t) ==
    /\ pc[t] = "publish" /\ write = old[t] => mark[Index(old[t])] = "ready"
    /\ pc[t] = "free" /\ read = old[t] => mark[Index(old[t])] = "invalid"

Ownership ==
    /\ Claims /\ Takes /\ Apart /\ Complete /\ Published /\ Vacant
    /\ \A t \in Threads : Seen(t)

SInv == SlotTypes /\ (pc[Main] # "stopped" => Ownership)

-----------------------------------------------------------------------------
\* An index is a slot of the ring.
LEMMA IndexIsSlot == \A i \in Nat : Index(i) \in Slots
BY DivMod, LogAssumption DEF Index, Slots

\* Counts between read and a round further share no slot.
LEMMA OneRound ==
    ASSUME NEW from \in Nat
    PROVE  \A a, b \in Nat :
               /\ from <= a /\ a < from + BufferLen
               /\ from <= b /\ b < from + BufferLen
               /\ Index(a) = Index(b)
               => a = b
<1>. BufferLen \in Nat \ {0}
  BY LogAssumption
<1> SUFFICES ASSUME NEW a \in Nat, NEW b \in Nat,
                    from <= a, a < from + BufferLen,
                    from <= b, b < from + BufferLen, Index(a) = Index(b)
             PROVE  a = b
  OBVIOUS
<1>1. CASE a <= b
  BY <1>1, SameCount
<1>2. CASE b <= a
  BY <1>2, SameCount
<1> QED BY <1>1, <1>2

\* A step that neither moves an index nor touches a slot.
LEMMA OnlyMoves ==
    ASSUME IInv, SInv, NEW t \in Threads, NEW place \in Labels,
           pc[Main] # "stopped", Goto(t, place),
           place \in Using => pc[t] = "push" /\ place = "ripe",
           UNCHANGED <<hold, write, proc, read, mark, slot, mine>>,
           \A u \in Threads \ {t} : old'[u] = old[u],
           Seen(t)'
    PROVE  SInv'
<1>1. /\ pc'[Main] # "stopped" /\ pc'[t] = place
      /\ \A u \in Threads \ {t} : pc'[u] = pc[u]
  BY GotoMoves DEF IInv
<1>2. \A u \in Threads : pc'[u] \in Using => pc[u] \in Using
  BY <1>1 DEF Using, Filling
<1>3. SlotTypes'
  BY DEF SInv, SlotTypes
<1>4. Claims'
  BY <1>1 DEF SInv, Ownership, Claims, Using, Filling
<1>5. Takes'
  BY <1>1 DEF SInv, Ownership, Takes, Using, Filling
<1>6. Apart'
  BY <1>2 DEF SInv, Ownership, Apart
<1>7. Complete' /\ Published' /\ Vacant'
  BY DEF SInv, Ownership, Complete, Published, Vacant
<1>8. \A u \in Threads : Seen(u)'
  BY <1>1 DEF SInv, Ownership, Seen
<1> QED BY <1>1, <1>3, <1>4, <1>5, <1>6, <1>7, <1>8 DEF SInv, Ownership

\* The usual case: the thread goes where it has seen nothing it relies on.
LEMMA PlainMoves ==
    ASSUME IInv, SInv, NEW t \in Threads,
           NEW place \in Labels \ (Using \cup {"publish", "free"}),
           pc[Main] # "stopped", Goto(t, place),
           UNCHANGED <<hold, write, proc, read, mark, slot, mine>>,
           \A u \in Threads \ {t} : old'[u] = old[u]
    PROVE  SInv'
<1>1. Seen(t)'
  BY GotoMoves DEF IInv, Seen
<1> QED BY <1>1, OnlyMoves

\* Slots keep their one user in HoldChannel and the stream ...
LEMMA HoldOwns ==
    ASSUME IInv, SInv, NEW t \in Producers, Hold(t)
    PROVE  SInv'
<1>. t \in Threads /\ BufferLen \in Nat \ {0}
  BY LogAssumption DEF Threads
<1>. Types /\ SlotTypes
  BY DEF IInv, SInv
<1>1. CASE HoldLoad(t)
  <2>1. /\ pc[Main] # "stopped"
        /\ Goto(t, "claim") \/ Goto(t, "idle")
        /\ UNCHANGED <<hold, write, proc, read, mark, slot, mine>>
        /\ \A u \in Threads \ {t} : old'[u] = old[u]
    BY <1>1 DEF HoldLoad, At, ring, Types
  <2> QED BY <2>1, PlainMoves DEF Labels, Using, Filling
<1>2. CASE HoldClaim(t)
  <2>. pc[Main] # "stopped" /\ pc[t] = "claim" /\ Ring /\ Ownership
    BY <1>2 DEF HoldClaim, At, IInv, SInv
  <2>1. CASE Index(hold) # Index(old[t])
    <3>1. /\ Goto(t, "hold")
          /\ UNCHANGED <<hold, write, proc, read, mark, slot, mine, old>>
      BY <1>2, <2>1 DEF HoldClaim
    <3> QED BY <3>1, PlainMoves DEF Labels, Using, Filling
  <2>2. CASE Index(hold) = Index(old[t])
    <3>1. /\ Goto(t, "fill") /\ hold' = hold + 1
          /\ mine' = [mine EXCEPT ![t] = old[t]]
          /\ UNCHANGED <<write, proc, read, mark, slot, old>>
      BY <1>2, <2>2 DEF HoldClaim
    <3>2. hold = old[t] /\ old[t] + 1 < read + BufferLen
      BY <2>2, SameCount DEF Ring, Loaded, Near, Types
    <3>3. /\ pc'[Main] # "stopped" /\ pc'[t] = "fill" /\ mine'[t] = hold
          /\ \A u \in Threads \ {t} : pc'[u] = pc[u] /\ mine'[u] = mine[u]
      BY <3>1, <3>2, GotoMoves DEF Labels, SlotTypes
    <3>4. SlotTypes'
      BY <3>1 DEF SlotTypes, Types
    <3>5. mark[Index(hold)] # "ready"
      BY <3>2 DEF Ownership, Vacant, Types
    <3>6. Claims'
      BY <3>1, <3>3, <3>5 DEF Ownership, Claims, Filling, Ring, Order, Types, SlotTypes
    <3>7. Takes'
      BY <3>1, <3>3 DEF Ownership, Takes
    <3>8. Apart'
      <4>1. \A u \in Threads \ {t} : pc[u] \in Using => mine[u] < hold
        BY DEF Ownership, Claims, Takes, Using, Ring, Order, Types, SlotTypes
      <4> QED BY <3>3, <4>1 DEF Ownership, Apart, Types, SlotTypes
    <3>9. Complete'
      BY <3>1, <3>5 DEF Ownership, Complete, Types
    <3>10. Published' /\ Vacant'
      BY <3>1 DEF Ownership, Published, Vacant, Types
    <3>11. \A u \in Threads : Seen(u)'
      BY <3>1, <3>3 DEF Ownership, Seen
    <3> QED BY <3>3, <3>4, <3>6, <3>7, <3>8, <3>9, <3>10, <3>11 DEF SInv, Ownership
  <2> QED BY <2>1, <2>2
<1>3. CASE Fill(t)
  <2>. pc[Main] # "stopped" /\ pc[t] = "fill" /\ Ring /\ Ownership
    BY <1>3 DEF Fill, At, IInv, SInv
  <2>. DEFINE s == Index(mine[t])
  <2>1. /\ Goto(t, "push")
        /\ mark' = [mark EXCEPT ![s] = "hold"]
        /\ slot' = [slot EXCEPT ![s] = mine[t] + 1]
        /\ UNCHANGED <<hold, write, proc, read, mine, old>>
    BY <1>3 DEF Fill
  <2>2. /\ pc'[Main] # "stopped" /\ pc'[t] = "push"
        /\ \A u \in Threads \ {t} : pc'[u] = pc[u]
    BY <2>1, GotoMoves DEF Labels
  <2>3. /\ mine[t] \in Nat /\ write <= mine[t] /\ mine[t] < hold
        /\ mark[s] # "ready" /\ s \in Slots
    BY IndexIsSlot DEF Ownership, Claims, Filling, SlotTypes
  <2>4. \A i \in Nat : read <= i /\ i < read + BufferLen /\ i # mine[t] => Index(i) # s
    BY <2>3, OneRound DEF Ring, Order, Types
  <2>5. \A i \in Nat : Index(i) # s => mark'[Index(i)] = mark[Index(i)]
                                         /\ slot'[Index(i)] = slot[Index(i)]
    BY <2>1, IndexIsSlot DEF SlotTypes
  <2>6. mark'[s] = "hold" /\ slot'[s] = mine[t] + 1
    BY <2>1, <2>3 DEF SlotTypes
  <2> HIDE DEF s
  <2>7. SlotTypes'
    BY <2>1, <2>3 DEF SlotTypes
  <2>8. \A u \in Threads \ {t} : pc[u] \in Using =>
            /\ mine[u] \in Nat /\ read <= mine[u] /\ mine[u] < read + BufferLen
            /\ mine[u] # mine[t]
    BY DEF Ownership, Claims, Takes, Apart, Using, Filling, Ring, Order, Types, SlotTypes
  <2>9. Claims'
    <3>1. ASSUME NEW u \in Threads \ {t}, pc[u] \in Filling
          PROVE  mark'[Index(mine[u])] = mark[Index(mine[u])]
                 /\ slot'[Index(mine[u])] = slot[Index(mine[u])]
      BY <2>4, <2>5, <2>8, <3>1 DEF Using
    <3>2. mark'[Index(mine[t])] = "hold" /\ slot'[Index(mine[t])] = mine[t] + 1
      BY <2>6 DEF s
    <3> QED BY <2>1, <2>2, <2>3, <3>1, <3>2 DEF Ownership, Claims, Filling
  <2>10. Takes'
    <3>1. ASSUME NEW u \in Threads \ {t}, pc[u] = "dispatch"
          PROVE  mark'[Index(mine[u])] = mark[Index(mine[u])]
                 /\ slot'[Index(mine[u])] = slot[Index(mine[u])]
      BY <2>4, <2>5, <2>8, <3>1 DEF Using
    <3> QED BY <2>1, <2>2, <3>1 DEF Ownership, Takes
  <2>11. Apart'
    BY <2>1, <2>2 DEF Ownership, Apart, Using, Filling
  <2>12. Complete'
    <3>1. \A i \in Nat : write <= i /\ i < hold /\ i # mine[t] => Index(i) # s
      BY <2>4 DEF Ring, Order, Types
    <3> QED BY <2>1, <2>5, <2>6, <3>1 DEF Ownership, Complete, s
  <2>13. Published'
    <3>1. \A i \in Nat : proc <= i /\ i < write => Index(i) # s
      BY <2>3, <2>4 DEF Ring, Order, Types
    <3> QED BY <2>1, <2>5, <3>1 DEF Ownership, Published
  <2>14. Vacant'
    <3>1. \A i \in Nat : hold <= i /\ i < read + BufferLen => Index(i) # s
      BY <2>3, <2>4 DEF Ring, Order, Types
    <3> QED BY <2>1, <2>5, <3>1 DEF Ownership, Vacant
  <2>15. ASSUME NEW u \in Threads PROVE Seen(u)'
    <3>1. CASE u = t
      BY <2>2, <3>1 DEF Seen
    <3>2. CASE u # t
      <4>1. pc[u] = "publish" /\ write = old[u] => Index(old[u]) # s
        BY <2>3 DEF Ownership, Seen
      <4>2. pc[u] = "free" /\ read = old[u] => Index(old[u]) # s
        BY <2>3, <2>4 DEF Ring, Loaded, Order, Types
      <4>3. old[u] \in Nat /\ old'[u] = old[u]
        BY <2>1 DEF Types
      <4> QED BY <2>1, <2>2, <2>5, <3>2, <4>1, <4>2, <4>3 DEF Ownership, Seen
    <3> QED BY <3>1, <3>2
  <2> QED BY <2>2, <2>7, <2>9, <2>10, <2>11, <2>12, <2>13, <2>14, <2>15 DEF SInv, Ownership
<1> QED BY <1>1, <1>2, <1>3 DEF Hold

\* ... in PushChannel ...
LEMMA PushOwns ==
    ASSUME IInv, SInv, NEW t \in Producers, Push(t)
    PROVE  SInv'
<1>. t \in Threads /\ BufferLen \in Nat \ {0}
  BY LogAssumption DEF Threads
<1>. Types /\ SlotTypes
  BY DEF IInv, SInv
<1>. Pushed \in Labels \ (Using \cup {"publish", "free"})
  BY DEF Pushed, Labels, Using, Filling
<1>1. CASE PushCheck(t)
  <2>1. /\ pc[Main] # "stopped" /\ pc[t] = "push"
        /\ UNCHANGED <<hold, write, proc, read, mark, slot, mine, old>>
    BY <1>1 DEF PushCheck, At, ring
  <2>2. CASE Goto(t, "idle")
    BY <2>1, <2>2, PlainMoves DEF Labels, Using, Filling
  <2>3. CASE Goto(t, "ripe")
    <3>1. Seen(t)'
      BY <2>3, GotoMoves DEF Seen, Labels
    <3> QED BY <2>1, <2>3, <3>1, OnlyMoves DEF Labels
  <2> QED BY <1>1, <2>2, <2>3 DEF PushCheck
<1>2. CASE MarkReady(t)
  <2>. pc[Main] # "stopped" /\ pc[t] = "ripe" /\ Ring /\ Ownership
    BY <1>2 DEF MarkReady, At, IInv, SInv
  <2>. DEFINE s == Index(mine[t])
  <2>1. /\ Goto(t, "write")
        /\ mark' = [mark EXCEPT ![s] = "ready"]
        /\ UNCHANGED <<hold, write, proc, read, slot, mine, old>>
    BY <1>2 DEF MarkReady
  <2>2. /\ pc'[Main] # "stopped" /\ pc'[t] = "write"
        /\ \A u \in Threads \ {t} : pc'[u] = pc[u]
    BY <2>1, GotoMoves DEF Labels
  <2>3. /\ mine[t] \in Nat /\ write <= mine[t] /\ mine[t] < hold
        /\ s \in Slots /\ slot[s] = mine[t] + 1
    BY IndexIsSlot DEF Ownership, Claims, Filling, SlotTypes
  <2>4. \A i \in Nat : read <= i /\ i < read + BufferLen /\ i # mine[t] => Index(i) # s
    BY <2>3, OneRound DEF Ring, Order, Types
  <2>5. \A i \in Nat : Index(i) # s => mark'[Index(i)] = mark[Index(i)]
    BY <2>1, IndexIsSlot DEF SlotTypes
  <2>6. mark'[s] = "ready"
    BY <2>1, <2>3 DEF SlotTypes
  <2> HIDE DEF s
  <2>7. SlotTypes'
    BY <2>1, <2>3 DEF SlotTypes
  <2>8. \A u \in Threads \ {t} : pc[u] \in Using =>
            /\ mine[u] \in Nat /\ read <= mine[u] /\ mine[u] < read + BufferLen
            /\ mine[u] # mine[t]
    BY DEF Ownership, Claims, Takes, Apart, Using, Filling, Ring, Order, Types, SlotTypes
  <2>9. ASSUME NEW u \in Threads \ {t}, pc[u] \in Using
        PROVE  mark'[Index(mine[u])] = mark[Index(mine[u])]
    BY <2>4, <2>5, <2>8, <2>9
  <2>10. Claims' /\ Takes'
    BY <2>1, <2>2, <2>9 DEF Ownership, Claims, Takes, Using, Filling
  <2>11. Apart'
    BY <2>1, <2>2 DEF Ownership, Apart, Using, Filling
  <2>12. Complete'
    <3>1. \A i \in Nat : write <= i /\ i < hold /\ i # mine[t] => Index(i) # s
      BY <2>4 DEF Ring, Order, Types
    <3> QED BY <2>1, <2>3, <2>5, <3>1 DEF Ownership, Complete, s
  <2>13. Published'
    <3>1. \A i \in Nat : proc <= i /\ i < write => Index(i) # s
      BY <2>3, <2>4 DEF Ring, Order, Types
    <3> QED BY <2>1, <2>5, <3>1 DEF Ownership, Published
  <2>14. Vacant'
    <3>1. \A i \in Nat : hold <= i /\ i < read + BufferLen => Index(i) # s
      BY <2>3, <2>4 DEF Ring, Order, Types
    <3> QED BY <2>1, <2>5, <3>1 DEF Ownership, Vacant
  <2>15. ASSUME NEW u \in Threads PROVE Seen(u)'
    <3>1. CASE u = t
      BY <2>2, <3>1 DEF Seen
    <3>2. CASE u # t
      <4>1. pc[u] = "free" /\ read = old[u] => Index(old[u]) # s
        BY <2>3, <2>4 DEF Ring, Loaded, Order, Types
      <4>2. old[u] \in Nat /\ old'[u] = old[u]
        BY <2>1 DEF Types
      <4>3. Index(old[u]) = s => mark'[Index(old[u])] = "ready"
        BY <2>6
      <4> QED BY <2>1, <2>2, <2>5, <3>2, <4>1, <4>2, <4>3 DEF Ownership, Seen
    <3> QED BY <3>1, <3>2
  <2> QED BY <2>2, <2>7, <2>10, <2>11, <2>12, <2>13, <2>14, <2>15 DEF SInv, Ownership
<1>3. CASE WriteLoad(t)
  <2>1. /\ pc[Main] # "stopped"
        /\ Goto(t, Pushed) \/ Goto(t, "ready")
        /\ UNCHANGED <<hold, write, proc, read, mark, slot, mine>>
        /\ \A u \in Threads \ {t} : old'[u] = old[u]
    BY <1>3 DEF WriteLoad, At, ring, Types
  <2> QED BY <2>1, PlainMoves DEF Labels, Using, Filling
<1>4. CASE WriteReady(t)
  <2>1. /\ pc[Main] # "stopped"
        /\ UNCHANGED <<hold, write, proc, read, mark, slot, mine, old>>
    BY <1>4 DEF WriteReady, At, ring
  <2>2. CASE mark[Index(old[t])] # "ready"
    BY <1>4, <2>1, <2>2, PlainMoves DEF WriteReady
  <2>3. CASE mark[Index(old[t])] = "ready"
    <3>1. Goto(t, "publish")
      BY <1>4, <2>3 DEF WriteReady
    <3>2. Seen(t)'
      BY <2>1, <2>3, <3>1, GotoMoves DEF Seen, Labels
    <3> QED BY <2>1, <3>1, <3>2, OnlyMoves DEF Labels, Using, Filling
  <2> QED BY <2>2, <2>3
<1>5. CASE Publish(t)
  <2>. DEFINE place == IF channel_state = "running" THEN "write" ELSE Pushed
  <2>1. place \in Labels \ (Using \cup {"publish", "free"})
    BY DEF Labels, Using, Filling
  <2>2. /\ pc[Main] # "stopped" /\ Ring /\ Ownership /\ pc[t] = "publish" /\ Goto(t, place)
        /\ UNCHANGED <<hold, proc, read, mark, slot, mine, old>>
    BY <1>5 DEF Publish, At, IInv, SInv
  <2> HIDE DEF place
  <2>3. CASE Index(write) # Index(old[t])
    <3>1. UNCHANGED write
      BY <1>5, <2>3 DEF Publish
    <3> QED BY <2>1, <2>2, <3>1, PlainMoves
  <2>4. CASE Index(write) = Index(old[t])
    <3>1. write' = write + 1
      BY <1>5, <2>4 DEF Publish
    <3>2. write = old[t] /\ old[t] < hold
      BY <2>2, <2>4, SameCount DEF Ring, Loaded, Near, Types
    <3>3. mark[Index(write)] = "ready"
      BY <2>2, <3>2 DEF Ownership, Seen
    <3>4. slot[Index(write)] = write + 1
      BY <2>2, <3>2, <3>3 DEF Ownership, Complete, Types
    <3>5. /\ pc'[Main] # "stopped" /\ pc'[t] \notin Using \cup {"publish", "free"}
          /\ \A u \in Threads \ {t} : pc'[u] = pc[u]
      BY <2>1, <2>2, GotoMoves
    <3>6. SlotTypes'
      BY <2>2 DEF SlotTypes
    <3>7. Claims'
      <4>1. \A u \in Threads : pc[u] \in Filling => mine[u] # write
        BY <2>2, <3>3 DEF Ownership, Claims
      <4>2. ASSUME NEW u \in Threads, pc'[u] \in Filling
            PROVE  pc[u] = pc'[u]
        BY <3>5, <4>2 DEF Using, Filling
      <4> QED BY <2>2, <3>1, <4>1, <4>2 DEF Ownership, Claims, SlotTypes, Types
    <3>8. Takes' /\ Apart'
      BY <2>2, <3>5 DEF Ownership, Takes, Apart, Using, Filling
    <3>9. Complete' /\ Published' /\ Vacant'
      BY <2>2, <3>1, <3>3, <3>4 DEF Ownership, Complete, Published, Vacant, Types
    <3>10. \A u \in Threads : Seen(u)'
      <4>1. \A u \in Threads : pc[u] = "publish" => old[u] <= write
        BY <2>2 DEF Ring, Loaded, Near
      <4> QED BY <2>2, <3>1, <3>5, <4>1 DEF Ownership, Seen, Types
    <3> QED BY <3>5, <3>6, <3>7, <3>8, <3>9, <3>10 DEF SInv, Ownership
  <2> QED BY <2>3, <2>4
<1> QED BY <1>1, <1>2, <1>3, <1>4, <1>5 DEF Push

\* ... in EnterProcChannel ...
LEMMA EnterOwns ==
    ASSUME IInv, SInv, NEW t \in Threads, Enter(t)
    PROVE  SInv'
<1>. BufferLen \in Nat \ {0}
  BY LogAssumption
<1>. Types /\ SlotTypes
  BY DEF IInv, SInv
<1>1. CASE ProcLoad(t)
  <2>1. /\ pc[Main] # "stopped"
        /\ Goto(t, "tail") \/ Goto(t, "take")
        /\ UNCHANGED <<hold, write, proc, read, mark, slot, mine>>
        /\ \A u \in Threads \ {t} : old'[u] = old[u]
    BY <1>1 DEF ProcLoad, At, ring, Types
  <2> QED BY <2>1, PlainMoves DEF Labels, Using, Filling
<1>2. CASE Take(t)
  <2>. pc[Main] # "stopped" /\ pc[t] = "take" /\ Ring /\ Ownership
    BY <1>2 DEF Take, At, IInv, SInv
  <2>1. CASE Index(proc) # Index(old[t])
    <3>1. /\ Goto(t, "tail")
          /\ UNCHANGED <<hold, write, proc, read, mark, slot, mine, old>>
      BY <1>2, <2>1 DEF Take
    <3> QED BY <3>1, PlainMoves DEF Labels, Using, Filling
  <2>2. CASE Index(proc) = Index(old[t])
    <3>1. /\ Goto(t, "dispatch") /\ proc' = proc + 1
          /\ mine' = [mine EXCEPT ![t] = old[t]]
          /\ UNCHANGED <<hold, write, read, mark, slot, old>>
      BY <1>2, <2>2 DEF Take
    <3>2. proc = old[t] /\ old[t] < write
      BY <2>2, SameCount DEF Ring, Loaded, Near, Types
    <3>3. /\ pc'[Main] # "stopped" /\ pc'[t] = "dispatch" /\ mine'[t] = proc
          /\ \A u \in Threads \ {t} : pc'[u] = pc[u] /\ mine'[u] = mine[u]
      BY <3>1, <3>2, GotoMoves DEF Labels, SlotTypes
    <3>4. SlotTypes'
      BY <3>1 DEF SlotTypes, Types
    <3>5. mark[Index(proc)] = "ready" /\ slot[Index(proc)] = proc + 1
      BY <3>2 DEF Ownership, Published, Types
    <3>6. Claims'
      BY <3>1, <3>3 DEF Ownership, Claims, Filling
    <3>7. Takes'
      BY <3>1, <3>3, <3>5 DEF Ownership, Takes, Ring, Order, Types, SlotTypes
    <3>8. Apart'
      <4>1. \A u \in Threads \ {t} : pc[u] \in Using => mine[u] # proc
        BY <3>2 DEF Ownership, Claims, Takes, Using, Types, SlotTypes
      <4> QED BY <3>3, <4>1 DEF Ownership, Apart
    <3>9. Complete' /\ Published' /\ Vacant'
      BY <3>1 DEF Ownership, Complete, Published, Vacant, Types
    <3>10. \A u \in Threads : Seen(u)'
      BY <3>1, <3>3 DEF Ownership, Seen
    <3> QED BY <3>3, <3>4, <3>6, <3>7, <3>8, <3>9, <3>10 DEF SInv, Ownership
  <2> QED BY <2>1, <2>2
<1>3. CASE Dispatch(t)
  <2>1. UNCHANGED <<hold, write, proc, read, mark, slot, mine, old, pc>>
    BY <1>3 DEF Dispatch, ring
  <2> QED BY <2>1 DEF SInv, SlotTypes, Ownership, Claims, Takes, Apart, Complete,
                      Published, Vacant, Seen
<1>4. CASE Release(t)
  <2>. pc[Main] # "stopped" /\ pc[t] = "dispatch" /\ Ring /\ Ownership
    BY <1>4 DEF Release, At, IInv, SInv
  <2>. DEFINE s == Index(mine[t])
  <2>1. /\ Goto(t, "read")
        /\ mark' = [mark EXCEPT ![s] = "invalid"]
        /\ UNCHANGED <<hold, write, proc, read, slot, mine, old>>
    BY <1>4 DEF Release
  <2>2. /\ pc'[Main] # "stopped" /\ pc'[t] = "read"
        /\ \A u \in Threads \ {t} : pc'[u] = pc[u]
    BY <2>1, GotoMoves DEF Labels
  <2>3. mine[t] \in Nat /\ read <= mine[t] /\ mine[t] < proc /\ s \in Slots
    BY IndexIsSlot DEF Ownership, Takes, SlotTypes
  <2>4. \A i \in Nat : read <= i /\ i < read + BufferLen /\ i # mine[t] => Index(i) # s
    BY <2>3, OneRound DEF Ring, Order, Types
  <2>5. \A i \in Nat : Index(i) # s => mark'[Index(i)] = mark[Index(i)]
    BY <2>1, IndexIsSlot DEF SlotTypes
  <2>6. mark'[s] = "invalid"
    BY <2>1, <2>3 DEF SlotTypes
  <2> HIDE DEF s
  <2>7. SlotTypes'
    BY <2>1, <2>3 DEF SlotTypes
  <2>8. \A u \in Threads \ {t} : pc[u] \in Using =>
            /\ mine[u] \in Nat /\ read <= mine[u] /\ mine[u] < read + BufferLen
            /\ mine[u] # mine[t]
    BY DEF Ownership, Claims, Takes, Apart, Using, Filling, Ring, Order, Types, SlotTypes
  <2>9. ASSUME NEW u \in Threads \ {t}, pc[u] \in Using
        PROVE  mark'[Index(mine[u])] = mark[Index(mine[u])]
    BY <2>4, <2>5, <2>8, <2>9
  <2>10. Claims' /\ Takes'
    BY <2>1, <2>2, <2>9 DEF Ownership, Claims, Takes, Using, Filling
  <2>11. Apart'
    BY <2>1, <2>2 DEF Ownership, Apart, Using, Filling
  <2>12. Complete' /\ Published'
    <3>1. \A i \in Nat : proc <= i /\ i < hold => Index(i) # s
      BY <2>3, <2>4 DEF Ring, Order, Types
    <3> QED BY <2>1, <2>5, <3>1 DEF Ownership, Complete, Published, Ring, Order, Types
  <2>13. Vacant'
    <3>1. \A i \in Nat : hold <= i /\ i < read + BufferLen => Index(i) # s
      BY <2>3, <2>4 DEF Ring, Order, Types
    <3> QED BY <2>1, <2>5, <3>1 DEF Ownership, Vacant
  <2>14. ASSUME NEW u \in Threads PROVE Seen(u)'
    <3>1. CASE u = t
      BY <2>2, <3>1 DEF Seen
    <3>2. CASE u # t
      <4>1. pc[u] = "publish" /\ write = old[u] => Index(old[u]) # s
        BY <2>3, <2>4 DEF Ring, Loaded, Order, Types
      <4>2. old[u] \in Nat /\ old'[u] = old[u]
        BY <2>1 DEF Types
      <4>3. Index(old[u]) = s => mark'[Index(old[u])] = "invalid"
        BY <2>6
      <4> QED BY <2>1, <2>2, <2>5, <3>2, <4>1, <4>2, <4>3 DEF Ownership, Seen
    <3> QED BY <3>1, <3>2
  <2> QED BY <2>2, <2>7, <2>10, <2>11, <2>12, <2>13, <2>14 DEF SInv, Ownership
<1>5. CASE ReadLoad(t)
  <2>1. /\ pc[Main] # "stopped"
        /\ Goto(t, "proc") \/ Goto(t, "spent")
        /\ UNCHANGED <<hold, write, proc, read, mark, slot, mine>>
        /\ \A u \in Threads \ {t} : old'[u] = old[u]
    BY <1>5 DEF ReadLoad, At, ring, Types
  <2> QED BY <2>1, PlainMoves DEF Labels, Using, Filling
<1>6. CASE ReadSpent(t)
  <2>1. /\ pc[Main] # "stopped"
        /\ UNCHANGED <<hold, write, proc, read, mark, slot, mine, old>>
    BY <1>6 DEF ReadSpent, At, ring
  <2>2. CASE mark[Index(old[t])] # "invalid"
    BY <1>6, <2>1, <2>2, PlainMoves DEF ReadSpent, Labels, Using, Filling
  <2>3. CASE mark[Index(old[t])] = "invalid"
    <3>1. Goto(t, "free")
      BY <1>6, <2>3 DEF ReadSpent
    <3>2. Seen(t)'
      BY <2>1, <2>3, <3>1, GotoMoves DEF Seen, Labels
    <3> QED BY <2>1, <3>1, <3>2, OnlyMoves DEF Labels, Using, Filling
  <2> QED BY <2>2, <2>3
<1>7. CASE ReadFree(t)
  <2>. /\ pc[Main] # "stopped" /\ pc[t] = "free" /\ Ring /\ Ownership /\ Goto(t, "read")
       /\ UNCHANGED <<hold, write, proc, mark, slot, mine, old>>
    BY <1>7 DEF ReadFree, At, IInv, SInv
  <2>1. CASE Index(read) # Index(old[t])
    <3>1. UNCHANGED read
      BY <1>7, <2>1 DEF ReadFree
    <3> QED BY <3>1, PlainMoves DEF Labels, Using, Filling
  <2>2. CASE Index(read) = Index(old[t])
    <3>1. read' = read + 1
      BY <1>7, <2>2 DEF ReadFree
    <3>2. read = old[t] /\ old[t] < proc
      BY <2>2, SameCount DEF Ring, Loaded, Near, Types
    <3>3. mark[Index(read)] = "invalid"
      BY <3>2 DEF Ownership, Seen
    <3>4. /\ pc'[Main] # "stopped" /\ pc'[t] = "read"
          /\ \A u \in Threads \ {t} : pc'[u] = pc[u]
      BY GotoMoves DEF Labels
    <3>5. SlotTypes'
      BY DEF SlotTypes
    <3>6. Claims' /\ Apart'
      BY <3>4 DEF Ownership, Claims, Apart, Using, Filling
    <3>7. Takes'
      <4>1. \A u \in Threads : pc[u] = "dispatch" => mine[u] # read
        BY <3>3 DEF Ownership, Takes
      <4> QED BY <3>1, <3>4, <4>1 DEF Ownership, Takes, Types, SlotTypes
    <3>8. Complete' /\ Published'
      BY DEF Ownership, Complete, Published
    <3>9. Vacant'
      <4>1. Index(read + BufferLen) = Index(read)
        BY FullTurn DEF Index, Types
      <4> QED BY <3>1, <3>3, <4>1 DEF Ownership, Vacant, Types
    <3>10. \A u \in Threads : Seen(u)'
      <4>1. \A u \in Threads : pc[u] = "free" => old[u] <= read
        BY DEF Ring, Loaded, Near
      <4> QED BY <3>1, <3>4, <4>1 DEF Ownership, Seen, Types
    <3> QED BY <3>4, <3>5, <3>6, <3>7, <3>8, <3>9, <3>10 DEF SInv, Ownership
  <2> QED BY <2>1, <2>2
<1>8. CASE Report(t)
  <2>1. /\ pc[Main] # "stopped"
        /\ Goto(t, "idle") \/ Goto(t, "sleep")
        /\ UNCHANGED <<hold, write, proc, read, mark, slot, mine, old>>
    BY <1>8 DEF Report, At, ring
  <2> QED BY <2>1, PlainMoves DEF Labels, Using, Filling
<1> QED BY <1>1, <1>2, <1>3, <1>4, <1>5, <1>6, <1>7, <1>8 DEF Enter

\* ... and in what remains: set-up, start and stop, the sleep of the writer, new calls.
LEMMA OthersOwn ==
    ASSUME IInv, SInv,
           \/ SetUp \/ Start \/ Stop
           \/ Wake
           \/ \E t \in Producers : Log(t)
    PROVE  SInv'
<1>1. CASE SetUp \/ Start \/ StopChannels \/ Join
  <2>1. /\ UNCHANGED <<hold, write, proc, read, mark, slot, mine, old>>
        /\ pc[Main] # "stopped"
        /\ \A t \in Threads : pc'[t] = pc[t] \/ pc'[t] = "proc"
    BY <1>1, MainMoves
  <2>2. SlotTypes' /\ Claims' /\ Takes'
    BY <2>1 DEF SInv, SlotTypes, Ownership, Claims, Takes, Filling
  <2>3. Apart'
    BY <2>1 DEF SInv, Ownership, Apart, Using, Filling
  <2>4. Complete' /\ Published' /\ Vacant' /\ \A t \in Threads : Seen(t)'
    BY <2>1 DEF SInv, Ownership, Complete, Published, Vacant, Seen
  <2> QED BY <2>2, <2>3, <2>4 DEF SInv, Ownership
<1>2. CASE CleanChannels
  <2>1. SlotTypes'
    BY <1>2 DEF CleanChannels, SInv, SlotTypes
  <2>2. pc'[Main] = "stopped"
    BY <1>2 DEF CleanChannels, Goto, IInv, Types
  <2> QED BY <2>1, <2>2 DEF SInv
<1>3. CASE Wake
  <2>1. /\ Writer \in Threads /\ pc[Main] # "stopped"
        /\ Goto(Writer, "proc") \/ Goto(Writer, "none")
        /\ UNCHANGED <<hold, write, proc, read, mark, slot, mine, old>>
    BY <1>3 DEF Wake, At, ring, Threads
  <2> QED BY <2>1, PlainMoves DEF Labels, Using, Filling
<1>4. ASSUME NEW t \in Producers, Log(t) PROVE SInv'
  <2>1. /\ t \in Threads /\ pc[Main] # "stopped" /\ Goto(t, "hold")
        /\ UNCHANGED <<hold, write, proc, read, mark, slot, mine, old>>
    BY <1>4 DEF Log, At, ring, Threads
  <2> QED BY <2>1, PlainMoves DEF Labels, Using, Filling
<1> QED BY <1>1, <1>2, <1>3, <1>4 DEF Stop

\* With IInv, SInv is inductive ...
LEMMA NextOwns == IInv /\ SInv /\ [Next]_vars => SInv'
<1>. SUFFICES ASSUME IInv, SInv, [Next]_vars PROVE SInv'
  OBVIOUS
<1>1. CASE SetUp \/ Start \/ Stop \/ \E t \in Producers : Log(t)
  BY <1>1, OthersOwn
<1>2. ASSUME NEW t \in Threads, Step(t) PROVE SInv'
  BY <1>2, HoldOwns, PushOwns, EnterOwns, OthersOwn DEF Step
<1>3. CASE UNCHANGED vars
  BY <1>3 DEF vars, ring, threads, SInv, SlotTypes, Ownership, Claims, Takes,
              Apart, Complete, Published, Vacant, Seen
<1> QED BY <1>1, <1>2, <1>3 DEF Next

\* ... and holds at the start.
LEMMA InitOwned == Init => SInv
<1>. SUFFICES ASSUME Init PROVE SInv
  OBVIOUS
<1>. BufferLen \in Nat \ {0} /\ Main \notin Threads
  BY LogAssumption DEF Threads
<1>1. SlotTypes
  BY DEF Init, SlotTypes
<1>2. \A t \in Threads : pc[t] \in {"idle", "none"}
  BY DEF Init
<1>3. Claims /\ Takes /\ Apart /\ \A t \in Threads : Seen(t)
  BY <1>2 DEF Claims, Takes, Apart, Seen, Using, Filling
<1>4. Complete /\ Published
  BY DEF Init, Complete, Published
<1>5. Vacant
  BY IndexIsSlot DEF Init, Vacant
<1> QED BY <1>1, <1>3, <1>4, <1>5 DEF SInv, Ownership

(***************************************************************************)
(* Whatever the number of threads and the length of the ring: no slot has  *)
(* two users, and a thread in DispatchLog finds the record it took.        *)
(***************************************************************************)
THEOREM SlotsHaveOneUser == Spec => []OneUser
<1>1. IInv /\ SInv => OneUser
  <2>. SUFFICES ASSUME IInv, SInv, Live PROVE OneUser
    BY DEF OneUser
  <2>1. Ownership /\ Ring /\ Types /\ SlotTypes
    BY DEF Live, IInv, SInv
  <2>2. ASSUME NEW t \in Threads, pc[t] \in Using
        PROVE  mine[t] \in Nat /\ read <= mine[t] /\ mine[t] < read + BufferLen
    BY <2>1, <2>2, LogAssumption
       DEF Ownership, Claims, Takes, Using, Ring, Order, Types, SlotTypes
  <2>3. ASSUME NEW t \in Threads, NEW u \in Threads \ {t},
               pc[t] \in Using, pc[u] \in Using
        PROVE  Index(mine[t]) # Index(mine[u])
    BY <2>1, <2>2, <2>3, OneRound DEF Ownership, Apart, Types
  <2>4. ASSUME NEW t \in Threads, pc[t] = "dispatch"
        PROVE  mark[Index(mine[t])] = "ready" /\ slot[Index(mine[t])] = mine[t] + 1
    BY <2>1, <2>4 DEF Ownership, Takes
  <2> QED BY <2>3, <2>4 DEF OneUser, Using, Filling
<1> QED BY InitHolds, NextKeeps, InitOwned, NextOwns, <1>1, PTL DEF Spec

-----------------------------------------------------------------------------
(* The records.  First the life of the channel, and the counts that bound  *)
(* the slots.                                                              *)

ChannelTypes ==
    /\ logger_state \in {"uninit", "initing", "running", "closing"}
    /\ channel_type \in {"async", "sync"}
    /\ channel_state \in {"null", "running", "waiting", "finish"}
    /\ slot \in [Slots -> 0 .. MaxRecords]
    /\ dev \in [Threads -> Nat]

\* Every record has its number before it has its slot.
Budget == hold + Cardinality(Claiming) <= MaxRecords

TInv == ChannelTypes /\ (pc[Main] # "stopped" => Budget)

InEnter == {"proc", "take", "dispatch", "read", "spent", "free", "tail"}

\* Nothing is logged before the start; while the logger runs so does the
\* channel; and its type says who calls EnterProcChannel.
Stage ==
    /\ pc[Main] = "idle" =>
          /\ logger_state = "uninit" /\ hold = 0
          /\ pc[Writer] = "none" /\ \A t \in Producers : pc[t] = "idle"
    /\ Live <=> pc[Main] = "started"
    /\ Live => channel_state = "running"
    /\ channel_type = "sync" => pc[Writer] = "none" /\ pc[Main] # "starting"
    /\ channel_type = "async" =>
          /\ \A t \in Producers : pc[t] \notin InEnter
          /\ pc[Writer] = "dispatch" /\ pc[Main] # "stopped" => mine[Writer] + 1 = proc

-----------------------------------------------------------------------------
(* What the devices got.                                                   *)

DeviceTypes ==
    /\ devices \in Seq([out : {"file", "screen"}, level : Levels, limit : Int])
    /\ output \in Seq(Seq(Nat))
    /\ Len(output) = Len(devices)

\* Records are known by the time their slots are published.
Recorded ==
    /\ DOMAIN records \subseteq 1 .. hold
    /\ \A t \in Threads : pc[t] \in {"push", "ripe"} => mine[t] + 1 \in DOMAIN records
    /\ \A i \in Nat : i < write => i + 1 \in DOMAIN records
    /\ \A i \in Nat : write <= i /\ i < hold /\ mark[Index(i)] = "ready"
                          => i + 1 \in DOMAIN records

\* A thread is still to hand record i + 1 to device d.
Ahead(i, d) == \E t \in Threads : pc[t] = "dispatch" /\ mine[t] = i /\ dev[t] <= d

Handed(d) ==
    /\ \A j \in DOMAIN output[d] : output[d][j] \in 1 .. proc
    /\ \A i \in Nat : i < proc =>
          (i + 1 \in ToSet(output[d])
              <=> Admits(devices[d], records[i + 1]) /\ ~Ahead(i, d))
    /\ \A i, j \in DOMAIN output[d] : i < j =>
          /\ output[d][i] # output[d][j]
          /\ channel_type = "async" => output[d][i] < output[d][j]

DInv ==
    /\ DeviceTypes
    /\ pc[Main] # "stopped" =>
          /\ Recorded
          /\ \A d \in DOMAIN devices : Handed(d)
          /\ \A t \in Threads : pc[t] = "dispatch" => dev[t] >= 1

-----------------------------------------------------------------------------
(* Who will go on with what is in the ring of a synchronous channel.       *)

\* A count that is claimed but not ready is its thread's to make ready.
WillFill ==
    \A i \in Nat : write <= i /\ i < hold /\ mark[Index(i)] # "ready" =>
        \E t \in Threads : pc[t] \in Filling /\ mine[t] = i

\* A thread that will move write over a slot that is ready.
Publisher(t) == pc[t] \in {"write", "publish"} \/ (pc[t] = "ready" /\ old[t] = write)

WillPublish ==
    write < hold /\ mark[Index(write)] = "ready" => \E t \in Threads : Publisher(t)

\* A thread that comes by the test for published slots once more.
Taker(t) ==
    \/ pc[t] \in {"write", "ready", "publish", "proc", "dispatch", "read", "spent", "free"}
    \/ pc[t] = "take" /\ old[t] = proc

WillTake == proc < write => \E t \in Threads : Taker(t)

\* A slot that was taken and is not given back is being handed out.
WillRelease ==
    \A i \in Nat : read <= i /\ i < proc /\ mark[Index(i)] # "invalid" =>
        \E t \in Threads : pc[t] = "dispatch" /\ mine[t] = i

\* A thread that will move read over a slot that was given back.
Freer(t) == pc[t] \in {"read", "free"} \/ (pc[t] = "spent" /\ old[t] = read)

WillFree ==
    read < proc /\ mark[Index(read)] = "invalid" => \E t \in Threads : Freer(t)

NInv ==
    Live /\ channel_type = "sync" =>
        WillFill /\ WillPublish /\ WillTake /\ WillRelease /\ WillFree

-----------------------------------------------------------------------------
(* A file device.                                                          *)

Files ==
    [open : BOOLEAN, day : Nat, size : Nat, tried : BOOLEAN, exists : BOOLEAN,
     text : Seq(Nat), older : Seq(Seq(Nat)), written : Seq(Nat)]

Fits(text, limit) == limit >= RecordLen => Len(text) * RecordLen <= limit

FileKept(f, limit) ==
    /\ f \in Files
    /\ ~f.exists => f.text = <<>>
    /\ Fits(f.text, limit)
    /\ \A i \in DOMAIN f.older : Fits(f.older[i], limit)
    /\ Len(f.older) <= Rollback
    /\ KeepsTheLatest(f)

\* What the handle of an open file knows of it.
Handle(f) == f.open => f.exists /\ f.size = Len(f.text) * RecordLen

FInv ==
    /\ files \in Seq(Files) /\ Len(files) = Len(devices)
    /\ \A d \in DOMAIN devices : FileKept(files[d], devices[d].limit) /\ Handle(files[d])

-----------------------------------------------------------------------------
(* Types and the life of the channel                                       *)

\* What a step of a thread leaves alone.
LEMMA StepMoves ==
    ASSUME IInv, NEW t \in Threads, Step(t)
    PROVE  /\ pc[Main] # "stopped" /\ pc'[Main] = pc[Main]
           /\ pc[t] \notin {"idle", "none"}
           /\ \A u \in Threads \ {t} : pc'[u] = pc[u]
           /\ UNCHANGED <<logger_state, channel_type, devices>>
<1>1. /\ pc[Main] # "stopped" /\ pc[t] \notin {"idle", "none"}
      /\ UNCHANGED <<logger_state, channel_type, devices>>
  <2>1. CASE Hold(t)
    BY <2>1 DEF Hold, HoldLoad, HoldClaim, Fill, At, setup
  <2>2. CASE Push(t)
    BY <2>2 DEF Push, PushCheck, MarkReady, WriteLoad, WriteReady, Publish, At, setup
  <2>3. CASE Enter(t)
    BY <2>3 DEF Enter, ProcLoad, Take, Dispatch, Release, ReadLoad, ReadSpent,
                ReadFree, Report, At, setup
  <2>4. CASE t = Writer /\ Wake
    BY <2>4 DEF Wake, At, setup
  <2> QED BY <2>1, <2>2, <2>3, <2>4 DEF Step
<1>2. \/ UNCHANGED pc
      \/ \E place : Goto(t, place)
  <2>1. CASE Hold(t)
    BY <2>1 DEF Hold, HoldLoad, HoldClaim, Fill
  <2>2. CASE Push(t)
    BY <2>2 DEF Push, PushCheck, MarkReady, WriteLoad, WriteReady, Publish
  <2>3. CASE Enter(t)
    BY <2>3 DEF Enter, ProcLoad, Take, Dispatch, Release, ReadLoad, ReadSpent,
                ReadFree, Report
  <2>4. CASE t = Writer /\ Wake
    BY <2>4 DEF Wake
  <2> QED BY <2>1, <2>2, <2>3, <2>4 DEF Step
<1>3. pc'[Main] = pc[Main] /\ \A u \in Threads \ {t} : pc'[u] = pc[u]
  BY <1>2, LogAssumption DEF Goto, IInv, Types, Threads
<1> QED BY <1>1, <1>3

LEMMA InitStage == Init => Stage
<1>. SUFFICES ASSUME Init PROVE Stage
  OBVIOUS
<1>1. /\ pc[Main] = "idle" /\ pc[Writer] = "none"
      /\ \A t \in Producers : pc[t] = "idle"
  BY LogAssumption DEF Init, Threads
<1> QED BY <1>1 DEF Init, Stage, Live, InEnter

\* Threads go on as the type of the channel wants it ...
LEMMA StepStage ==
    ASSUME IInv, SInv, Stage, NEW t \in Threads, Step(t)
    PROVE  Stage'
<1>. Types /\ SlotTypes /\ Writer \in Threads /\ Producers \subseteq Threads
  BY DEF IInv, SInv, Threads
<1>1. /\ pc[Main] # "idle" /\ pc'[Main] = pc[Main] /\ pc[Main] # "stopped"
      /\ UNCHANGED <<logger_state, channel_type>>
      /\ \A u \in Threads \ {t} : pc'[u] = pc[u]
  BY StepMoves DEF Stage, Threads
<1>2. Live => channel_state' = "running"
  <2>1. CASE Hold(t) \/ Push(t) \/ (Enter(t) /\ ~Report(t))
    BY <2>1 DEF Stage, Hold, HoldLoad, HoldClaim, Fill, Push, PushCheck, MarkReady,
                WriteLoad, WriteReady, Publish, Enter, ProcLoad, Take, Dispatch,
                Release, ReadLoad, ReadSpent, ReadFree
  <2>2. CASE Report(t) \/ Wake
    BY <2>2 DEF Stage, Report, Wake
  <2> QED BY <2>1, <2>2 DEF Step
<1>3. ASSUME channel_type = "sync" PROVE pc'[Writer] = "none"
  BY <1>1, <1>3, StepMoves DEF Stage
<1>4. ASSUME channel_type = "async", NEW u \in Producers
      PROVE  pc'[u] \notin InEnter
  <2>1. CASE u # t
    BY <1>1, <1>4, <2>1 DEF Stage
  <2>2. CASE u = t
    <3>1. ~Enter(t) /\ t # Writer
      BY <1>4, <2>2, LogAssumption
         DEF Stage, Enter, ProcLoad, Take, Dispatch, Release, ReadLoad, ReadSpent,
             ReadFree, Report, At, InEnter
    <3>2. \E place \in Labels \ InEnter : Goto(t, place)
      BY <1>4, <3>1 DEF Step, Hold, HoldLoad, HoldClaim, Fill, Push, PushCheck,
             MarkReady, WriteLoad, WriteReady, Publish, Pushed, Labels, InEnter
    <3> QED BY <2>2, <3>2, GotoMoves
  <2> QED BY <2>1, <2>2
<1>5. ASSUME channel_type = "async", pc'[Writer] = "dispatch"
      PROVE  mine'[Writer] + 1 = proc'
  <2>1. CASE t = Writer /\ Take(t)
    <3>. BufferLen \in Nat \ {0} /\ Ring
      BY <1>1, LogAssumption DEF IInv
    <3>1. CASE Index(proc) = Index(old[t])
      <4>1. proc = old[t]
        BY <2>1, <3>1, SameCount DEF Take, At, Ring, Loaded, Near, Types
      <4> QED BY <2>1, <3>1, <4>1 DEF Take, SlotTypes
    <3>2. CASE Index(proc) # Index(old[t])
      <4>1. Goto(t, "tail")
        BY <2>1, <3>2 DEF Take
      <4> QED BY <1>5, <2>1, <4>1, GotoMoves DEF Labels
    <3> QED BY <3>1, <3>2
  <2>2. CASE t = Writer /\ Enter(t) /\ ~Take(t)
    <3>1. UNCHANGED <<mine, proc>>
      BY <2>2 DEF Enter, ProcLoad, Dispatch, Release, ReadLoad, ReadSpent, ReadFree,
                  Report, ring
    <3>2. Dispatch(t) \/ \E place \in Labels \ {"dispatch"} : Goto(t, place)
      BY <2>2 DEF Enter, ProcLoad, Release, ReadLoad, ReadSpent, ReadFree, Report, Labels
    <3>3. pc[Writer] = "dispatch"
      BY <1>5, <2>2, <3>2, GotoMoves DEF Dispatch, At
    <3> QED BY <1>1, <1>5, <3>1, <3>3 DEF Stage
  <2>3. CASE t = Writer /\ Wake
    <3>1. Goto(t, "proc") \/ Goto(t, "none")
      BY <2>3 DEF Wake
    <3> QED BY <1>5, <2>3, <3>1, GotoMoves DEF Labels
  <2>4. CASE t # Writer
    <3>1. ~Enter(t) /\ t \in Producers
      BY <1>5, <2>4 DEF Threads, Stage, Enter, ProcLoad, Take, Dispatch, Release,
             ReadLoad, ReadSpent, ReadFree, Report, At, InEnter
    <3>2. proc' = proc /\ mine'[Writer] = mine[Writer]
      BY <2>4, <3>1 DEF Step, Hold, HoldLoad, HoldClaim, Fill, Push, PushCheck,
             MarkReady, WriteLoad, WriteReady, Publish, ring, SlotTypes
    <3> QED BY <1>1, <1>5, <2>4, <3>2 DEF Stage
  <2>5. t = Writer => Enter(t) \/ Wake
    BY LogAssumption DEF Step
  <2> QED BY <2>1, <2>2, <2>3, <2>4, <2>5
<1> QED BY <1>1, <1>2, <1>3, <1>4, <1>5 DEF Stage, Live

\* ... and Main starts and stops them in order.
LEMMA OthersStage ==
    ASSUME IInv, Stage,
           SetUp \/ Start \/ Stop \/ \E t \in Producers : Log(t)
    PROVE  Stage'
<1>. Types /\ Main \notin Threads /\ Writer \in Threads /\ Producers \subseteq Threads
  BY LogAssumption DEF IInv, Threads
<1>1. CASE AddLoggerToFile \/ AddLoggerToScreen \/ SetLoggerSync
  <2>1. /\ pc[Main] = "idle" /\ UNCHANGED <<logger_state, channel_state, hold, pc>>
        /\ channel_type' \in {channel_type, "sync"}
    BY <1>1 DEF AddLoggerToFile, AddLoggerToScreen, AddDevice, SetLoggerSync,
                threads, ring
  <2> QED BY <2>1 DEF Stage, Live, InEnter
<1>2. CASE LoggerStart
  <2>1. pc[Main] = "idle" /\ hold' = hold /\ channel_type' = channel_type
    BY <1>2 DEF LoggerStart, setup, ring
  <2>2. CASE channel_type = "sync"
    <3>1. /\ channel_state' = "running" /\ logger_state' = "running"
          /\ pc'[Main] = "started" /\ \A t \in Threads : pc'[t] = pc[t]
      BY <1>2, <2>2 DEF LoggerStart, Goto, Types
    <3> QED BY <2>1, <2>2, <3>1 DEF Stage, Live
  <2>3. CASE channel_type # "sync"
    <3>1. /\ logger_state' = "initing" /\ pc'[Main] = "starting" /\ pc'[Writer] = "proc"
          /\ \A t \in Producers : pc'[t] = pc[t]
      BY <1>2, <2>3, LogAssumption DEF LoggerStart, Types
    <3> QED BY <2>1, <2>3, <3>1 DEF Stage, Live, InEnter
  <2> QED BY <2>2, <2>3
<1>3. CASE Start \/ StopChannels \/ Join
  <2>1. /\ pc[Main] \notin {"idle", "stopped"}
        /\ pc'[Main] \notin {"idle", "starting", "stopped"}
        /\ UNCHANGED <<channel_type, proc, mine>>
        /\ \A t \in Threads : pc'[t] = pc[t]
        /\ pc'[Main] = "started" <=> logger_state' = "running"
        /\ pc'[Main] = "started" => channel_state' = "running"
    <3>1. CASE Start
      BY <1>3, <3>1 DEF Stage, Live, Start, StartSeen, StartTimeout, Goto, Types, setup, ring
    <3>2. CASE StopChannels
      BY <1>3, <3>2 DEF Stage, Live, StopChannels, Goto, Types, setup, ring
    <3>3. CASE Join
      BY <1>3, <3>3 DEF Stage, Live, Join, Goto, Types, setup, ring
    <3> QED BY <1>3, <3>1, <3>2, <3>3
  <2> QED BY <2>1 DEF Stage, Live
<1>4. CASE CleanChannels
  <2>1. /\ pc'[Main] = "stopped" /\ \A t \in Threads : pc'[t] = pc[t]
        /\ logger_state' = "uninit" /\ channel_type' = channel_type
    BY <1>4 DEF CleanChannels, Goto, Types, setup
  <2> QED BY <2>1 DEF Stage, Live
<1>5. ASSUME NEW t \in Producers, Log(t) PROVE Stage'
  <2>1. /\ pc'[t] = "hold" /\ pc'[Main] = pc[Main]
        /\ \A u \in Threads \ {t} : pc'[u] = pc[u]
        /\ UNCHANGED <<logger_state, channel_type, channel_state, mine, proc>>
        /\ Live
    BY <1>5, GotoMoves DEF Log, Labels, setup, ring, Live
  <2>2. pc[Main] # "idle" /\ t # Writer
    BY <2>1, LogAssumption DEF Stage, Live
  <2> QED BY <2>1, <2>2 DEF Stage, Live, InEnter
<1> QED BY <1>1, <1>2, <1>3, <1>4, <1>5 DEF SetUp, Stop

\* The numbers of the records are given out one by one.
LEMMA ClaimingFinite ==
    /\ IsFiniteSet(Claiming) /\ Cardinality(Claiming) \in Nat
    /\ IsFiniteSet(Claiming') /\ Cardinality(Claiming') \in Nat
BY FS_Subset, FS_CardinalityType, LogAssumption DEF Claiming

LEMMA InitTyped == Init => TInv
<1>. SUFFICES ASSUME Init PROVE TInv
  OBVIOUS
<1>. MaxRecords \in Nat
  BY LogAssumption
<1>1. ChannelTypes
  BY DEF Init, ChannelTypes
<1>2. Claiming = {}
  BY LogAssumption DEF Init, Claiming, Threads
<1>3. Budget
  BY <1>2, FS_EmptySet, LogAssumption DEF Init, Budget
<1> QED BY <1>1, <1>3 DEF TInv

LEMMA BudgetKept ==
    ASSUME Types, Budget, hold' = hold,
           \A t \in Producers : pc'[t] \in {"hold", "claim"} => pc[t] \in {"hold", "claim"}
    PROVE  Budget'
<1>1. Claiming' \subseteq Claiming
  BY DEF Claiming
<1>2. Cardinality(Claiming') <= Cardinality(Claiming)
  BY <1>1, ClaimingFinite, FS_Subset
<1> QED BY <1>2, ClaimingFinite, LogAssumption DEF Budget, Types

LEMMA HoldTyped ==
    ASSUME IInv, SInv, TInv, NEW t \in Producers, Hold(t)
    PROVE  TInv'
<1>. /\ Types /\ SlotTypes /\ ChannelTypes /\ t \in Threads /\ Producers \subseteq Threads
     /\ MaxRecords \in Nat
  BY LogAssumption DEF IInv, SInv, TInv, Threads
<1>. pc[Main] # "stopped" /\ Budget /\ Ownership
  BY DEF Hold, HoldLoad, HoldClaim, Fill, At, TInv, SInv
<1>1. ChannelTypes'
  <2>1. CASE HoldLoad(t) \/ HoldClaim(t)
    BY <2>1 DEF HoldLoad, HoldClaim, ChannelTypes, setup, ring
  <2>2. CASE Fill(t)
    <3>1. mine[t] < hold /\ mine[t] \in Nat /\ hold <= MaxRecords
      BY <2>2, ClaimingFinite DEF Fill, At, Ownership, Claims, Filling, SlotTypes, Budget,
                  Types
    <3>2. slot' \in [Slots -> 0 .. MaxRecords]
      <4>1. slot' = [slot EXCEPT ![Index(mine[t])] = mine[t] + 1]
        BY <2>2 DEF Fill
      <4>2. mine[t] + 1 \in 0 .. MaxRecords
        BY <3>1 DEF Types
      <4> QED BY <4>1, <4>2 DEF ChannelTypes
    <3>3. UNCHANGED <<logger_state, channel_type, channel_state, dev>>
      BY <2>2 DEF Fill, setup
    <3> QED BY <3>2, <3>3 DEF ChannelTypes
  <2> QED BY <2>1, <2>2 DEF Hold
<1>2. Budget'
  <2>1. CASE HoldClaim(t) /\ Index(hold) = Index(old[t])
    <3>1. /\ pc[t] = "claim" /\ pc'[t] = "fill" /\ hold' = hold + 1
          /\ \A u \in Threads \ {t} : pc'[u] = pc[u]
      BY <2>1, GotoMoves DEF HoldClaim, At, Labels
    <3>2. t \in Claiming /\ Claiming' = Claiming \ {t}
      BY <3>1 DEF Claiming
    <3>3. Cardinality(Claiming') = Cardinality(Claiming) - 1
      BY <3>2, ClaimingFinite, FS_RemoveElement
    <3> QED BY <3>1, <3>3, ClaimingFinite DEF Budget, Types
  <2>2. CASE HoldLoad(t) \/ (HoldClaim(t) /\ Index(hold) # Index(old[t])) \/ Fill(t)
    <3>1. /\ hold' = hold
          /\ \/ pc[t] \in {"hold", "claim"}
             \/ Goto(t, "push")
      BY <2>2 DEF HoldLoad, HoldClaim, Fill, At, ring
    <3>2. /\ \A u \in Threads \ {t} : pc'[u] = pc[u]
          /\ Goto(t, "push") => pc'[t] = "push"
      BY StepMoves, GotoMoves DEF Step, Labels
    <3> QED BY <3>1, <3>2, BudgetKept
  <2> QED BY <2>1, <2>2 DEF Hold
<1> QED BY <1>1, <1>2 DEF TInv

LEMMA OtherTyped ==
    ASSUME IInv, SInv, TInv,
           \/ \E t \in Producers : Push(t) \/ Log(t)
           \/ \E t \in Threads : Enter(t)
           \/ Wake \/ SetUp \/ Start \/ Stop
    PROVE  TInv'
<1>. /\ Types /\ SlotTypes /\ ChannelTypes /\ Producers \subseteq Threads
     /\ MaxRecords \in Nat /\ Main \notin Threads
  BY LogAssumption DEF IInv, SInv, TInv, Threads
<1>1. ASSUME NEW t \in Producers, Log(t) PROVE TInv'
  <2>1. /\ pc'[t] = "hold" /\ pc[t] = "idle" /\ hold' = hold
        /\ \A u \in Threads \ {t} : pc'[u] = pc[u]
        /\ hold + Cardinality(Claiming) < MaxRecords
    BY <1>1, GotoMoves DEF Log, At, Labels, ring
  <2>2. t \notin Claiming /\ Claiming' = Claiming \cup {t}
    BY <2>1 DEF Claiming
  <2>3. Cardinality(Claiming') = Cardinality(Claiming) + 1
    BY <2>2, ClaimingFinite, FS_AddElement
  <2> QED BY <1>1, <2>1, <2>3, ClaimingFinite
          DEF TInv, Budget, Types, Log, ChannelTypes, setup, ring
<1>2. ASSUME NEW t \in Threads, Enter(t) \/ (t \in Producers /\ Push(t)) \/ (t = Writer /\ Wake)
      PROVE TInv'
  <2>1. ChannelTypes'
    BY <1>2 DEF ChannelTypes, Push, PushCheck, MarkReady, WriteLoad, WriteReady, Publish,
                Enter, ProcLoad, Take, Dispatch, Release, ReadLoad, ReadSpent, ReadFree,
                Report, Wake, setup, ring, Types
  <2>2. /\ hold' = hold
        /\ UNCHANGED pc \/ \E place \in Labels \ {"hold", "claim"} : Goto(t, place)
    BY <1>2 DEF Push, PushCheck, MarkReady, WriteLoad, WriteReady, Publish, Pushed,
                Enter, ProcLoad, Take, Dispatch, Release, ReadLoad, ReadSpent, ReadFree,
                Report, Wake, ring, Labels
  <2>3. \A u \in Threads : pc'[u] \in {"hold", "claim"} => pc[u] \in {"hold", "claim"}
    BY <2>2, GotoMoves
  <2>4. pc[Main] # "stopped"
    BY <1>2, StepMoves DEF Step
  <2> QED BY <2>1, <2>2, <2>3, <2>4, BudgetKept DEF TInv
<1>3. CASE SetUp \/ Start \/ StopChannels \/ Join
  <2>1. ChannelTypes'
    BY <1>3 DEF ChannelTypes, SetUp, AddLoggerToFile, AddLoggerToScreen, AddDevice,
                SetLoggerSync, LoggerStart, Start, StartSeen, StartTimeout, StopChannels,
                Join, setup, ring, threads
  <2>2. hold' = hold /\ pc[Main] # "stopped"
    BY <1>3, MainMoves
  <2>3. \A u \in Producers : pc'[u] \in {"hold", "claim"} => pc[u] \in {"hold", "claim"}
    BY <1>3, MainMoves
  <2> QED BY <2>1, <2>2, <2>3, BudgetKept DEF TInv
<1>4. CASE CleanChannels
  <2>1. ChannelTypes'
    BY <1>4 DEF ChannelTypes, CleanChannels, setup
  <2>2. pc'[Main] = "stopped"
    BY <1>4 DEF CleanChannels, Goto, Types
  <2> QED BY <2>1, <2>2 DEF TInv
<1> QED BY <1>1, <1>2, <1>3, <1>4 DEF Stop, Threads

\* Together the three are inductive.
LEMMA NextTyped == IInv /\ SInv /\ TInv /\ [Next]_vars => TInv'
<1>. SUFFICES ASSUME IInv, SInv, TInv, [Next]_vars PROVE TInv'
  OBVIOUS
<1>1. CASE Next
  BY <1>1, HoldTyped, OtherTyped DEF Next, Step
<1>2. CASE UNCHANGED vars
  BY <1>2, BudgetKept DEF vars, setup, ring, threads, TInv, ChannelTypes, IInv
<1> QED BY <1>1, <1>2

LEMMA NextStage == IInv /\ SInv /\ Stage /\ [Next]_vars => Stage'
<1>. SUFFICES ASSUME IInv, SInv, Stage, [Next]_vars PROVE Stage'
  OBVIOUS
<1>1. CASE Next
  BY <1>1, StepStage, OthersStage DEF Next
<1>2. CASE UNCHANGED vars
  BY <1>2 DEF vars, setup, ring, threads, Stage, Live
<1> QED BY <1>1, <1>2

(***************************************************************************)
(* The variables keep their types, whatever the number of threads, devices *)
(* and records: a slot is claimed for a record of the run, and no index of *)
(* a thread leaves the naturals.                                           *)
(***************************************************************************)
THEOREM ChannelTypesHold == Spec => []TypeOK
<1>1. IInv /\ SInv /\ TInv => TypeOK
  BY DEF IInv, SInv, TInv, Types, SlotTypes, ChannelTypes, TypeOK
<1> QED BY InitHolds, NextKeeps, InitOwned, NextOwns, InitTyped, NextTyped, <1>1, PTL
        DEF Spec

-----------------------------------------------------------------------------
(* Records and devices                                                     *)

LEMMA ToSetAppend ==
    ASSUME NEW s \in Seq(Nat), NEW x \in Nat
    PROVE  /\ Append(s, x) \in Seq(Nat) /\ Len(Append(s, x)) = Len(s) + 1
           /\ ToSet(Append(s, x)) = ToSet(s) \cup {x}
           /\ \A i \in DOMAIN s : Append(s, x)[i] = s[i]
           /\ Append(s, x)[Len(s) + 1] = x
           /\ DOMAIN Append(s, x) = DOMAIN s \cup {Len(s) + 1}
<1>. DEFINE a == Append(s, x)
            n == Len(s)
<1>1. /\ a \in Seq(Nat) /\ Len(a) = n + 1 /\ n \in Nat
      /\ \A i \in 1 .. n : a[i] = s[i]
      /\ a[n + 1] = x
  BY AppendProperties
<1>2. DOMAIN a = DOMAIN s \cup {n + 1} /\ DOMAIN s = 1 .. n
  BY <1>1, LenProperties
<1>3. ToSet(a) = ToSet(s) \cup {x}
  <2>. HIDE DEF a, n
  <2> QED BY <1>1, <1>2 DEF ToSet
<1> QED BY <1>1, <1>2, <1>3

LEMMA DevicePlaces ==
    ASSUME DeviceTypes
    PROVE  /\ Len(devices) \in Nat
           /\ DOMAIN devices = 1 .. Len(devices) /\ DOMAIN output = 1 .. Len(devices)
           /\ \A d \in DOMAIN devices : output[d] \in Seq(Nat)
<1>1. Len(devices) \in Nat /\ DOMAIN devices = 1 .. Len(devices)
  BY LenProperties DEF DeviceTypes
<1>2. DOMAIN output = 1 .. Len(output)
  BY LenProperties DEF DeviceTypes
<1>3. \A d \in 1 .. Len(output) : output[d] \in Seq(Nat)
  BY ElementOfSeq DEF DeviceTypes
<1> QED BY <1>1, <1>2, <1>3 DEF DeviceTypes

LEMMA LimitIsInt == \A n \in LimitSizes : LimitOf(n) \in Int
<1>1. ASSUME NEW n \in LimitSizes PROVE LimitOf(n) \in Int
  <2>1. n * MB \in Int /\ IntRange \in Nat \ {0}
    BY LogAssumption, DevicesAssumption
  <2>2. (n * MB) % IntRange \in Int
    BY <2>1, DivMod
  <2> QED BY <2>1, <2>2 DEF LimitOf
<1> QED BY <1>1

\* No thread hands out another record, or the same record to another device.
SameHanding ==
    \A t \in Threads :
        /\ pc'[t] = "dispatch" <=> pc[t] = "dispatch"
        /\ pc[t] = "dispatch" => mine'[t] = mine[t] /\ dev'[t] = dev[t]

LEMMA HandedKept ==
    ASSUME SameHanding, UNCHANGED <<output, devices, proc, channel_type>>,
           \A i \in Nat : i < proc => records'[i + 1] = records[i + 1],
           NEW d, Handed(d)
    PROVE  Handed(d)'
<1>1. \A i \in Nat : Ahead(i, d)' <=> Ahead(i, d)
  BY DEF SameHanding, Ahead
<1> QED BY <1>1 DEF Handed, Admits

LEMMA RecordedKept ==
    ASSUME Recorded, UNCHANGED <<hold, write, records>>,
           mine' = mine \/ \A t \in Threads : pc'[t] \in {"push", "ripe"} => mine'[t] = mine[t],
           \A t \in Threads : pc'[t] \in {"push", "ripe"} => pc[t] \in {"push", "ripe"},
           \A i \in Nat : write <= i /\ i < hold /\ mark'[Index(i)] = "ready"
                              => mark[Index(i)] = "ready"
    PROVE  Recorded'
BY DEF Recorded

\* Who claims a slot, fills it and pushes hands out nothing.
LEMMA FillRecords ==
    ASSUME IInv, SInv, DInv, NEW t \in Producers, Fill(t)
    PROVE  /\ Recorded'
           /\ \A i \in Nat : i < proc => records'[i + 1] = records[i + 1]
<1>. /\ Types /\ SlotTypes /\ Ownership /\ Ring /\ Recorded /\ pc[Main] # "stopped"
     /\ t \in Threads /\ BufferLen \in Nat \ {0}
  BY LogAssumption DEF Fill, At, IInv, SInv, DInv, Threads
<1>1. /\ pc[t] = "fill" /\ pc'[t] = "push" /\ \A u \in Threads \ {t} : pc'[u] = pc[u]
      /\ UNCHANGED <<hold, write, mine>>
      /\ mark' = [mark EXCEPT ![Index(mine[t])] = "hold"]
  BY GotoMoves DEF Fill, At, Labels
<1>2. mine[t] \in Nat /\ write <= mine[t] /\ mine[t] < hold
  BY <1>1 DEF Ownership, Claims, Filling, SlotTypes
<1>3. /\ DOMAIN records' = DOMAIN records \cup {mine[t] + 1}
      /\ \A i \in DOMAIN records : i # mine[t] + 1 => records'[i] = records[i]
  BY DEF Fill
<1>4. \A i \in Nat : mark'[Index(i)] = "ready" => mark[Index(i)] = "ready"
  BY <1>1, IndexIsSlot DEF SlotTypes
<1>5. Recorded'
  BY <1>1, <1>2, <1>3, <1>4 DEF Recorded, Types
<1>6. \A i \in Nat : i < proc => i + 1 \in DOMAIN records /\ i + 1 # mine[t] + 1
  BY <1>2 DEF Recorded, Ring, Order, Types
<1> QED BY <1>3, <1>5, <1>6

LEMMA HoldPushHands ==
    ASSUME IInv, SInv, DInv, NEW t \in Producers, Hold(t) \/ Push(t)
    PROVE  DInv'
<1>. t \in Threads /\ BufferLen \in Nat \ {0}
  BY LogAssumption DEF Threads
<1>1. /\ pc[Main] # "stopped" /\ pc'[Main] # "stopped"
      /\ \A u \in Threads \ {t} : pc'[u] = pc[u]
      /\ UNCHANGED <<channel_type, devices>>
  BY StepMoves DEF Step
<1>. Types /\ SlotTypes /\ Ownership /\ Ring /\ DeviceTypes /\ Recorded
  BY <1>1 DEF IInv, SInv, DInv
<1>2. UNCHANGED <<output, proc, dev>>
  BY DEF Hold, HoldLoad, HoldClaim, Fill, Push, PushCheck, MarkReady, WriteLoad,
         WriteReady, Publish, outside, ring
<1>3. pc[t] # "dispatch" /\ \E place \in Labels \ {"dispatch"} : Goto(t, place)
  BY DEF Hold, HoldLoad, HoldClaim, Fill, Push, PushCheck, MarkReady, WriteLoad,
         WriteReady, Publish, Pushed, At, Labels
<1>4. \A u \in Threads \ {t} : mine'[u] = mine[u]
  BY DEF Hold, HoldLoad, HoldClaim, Fill, Push, PushCheck, MarkReady, WriteLoad,
         WriteReady, Publish, ring, SlotTypes
<1>5. SameHanding
  BY <1>1, <1>2, <1>3, <1>4, GotoMoves DEF SameHanding
<1>6. /\ Recorded'
      /\ \A i \in Nat : i < proc => records'[i + 1] = records[i + 1]
  <2>1. CASE Fill(t)
    BY <2>1, FillRecords
  <2>2. CASE HoldClaim(t) /\ Index(hold) = Index(old[t])
    <3>1. /\ hold' = hold + 1 /\ pc'[t] = "fill" /\ UNCHANGED <<write, mark, records>>
      BY <2>2, GotoMoves DEF HoldClaim, outside, Labels
    <3>2. mark[Index(hold)] # "ready"
      <4>1. hold = old[t] /\ old[t] + 1 < read + BufferLen
        BY <2>2, SameCount DEF HoldClaim, At, Ring, Loaded, Near, Types
      <4> QED BY <4>1 DEF Ownership, Vacant, Types
    <3> QED BY <1>1, <1>4, <3>1, <3>2 DEF Recorded, Types
  <2>3. CASE MarkReady(t)
    <3>1. /\ pc[t] = "ripe" /\ pc'[t] = "write" /\ UNCHANGED <<hold, write, mine, records>>
          /\ mark' = [mark EXCEPT ![Index(mine[t])] = "ready"]
      BY <2>3, GotoMoves DEF MarkReady, At, Labels, outside
    <3>2. /\ mine[t] \in Nat /\ write <= mine[t] /\ mine[t] < hold
          /\ mine[t] + 1 \in DOMAIN records
      BY <3>1 DEF Ownership, Claims, Filling, SlotTypes, Recorded
    <3>3. \A i \in Nat : write <= i /\ i < hold /\ i # mine[t] => Index(i) # Index(mine[t])
      BY <3>2, OneRound DEF Ring, Order, Types
    <3>4. \A i \in Nat : write <= i /\ i < hold /\ i # mine[t] =>
              mark'[Index(i)] = mark[Index(i)]
      BY <3>1, <3>3, IndexIsSlot DEF SlotTypes
    <3> QED BY <1>1, <3>1, <3>2, <3>4 DEF Recorded
  <2>4. CASE Publish(t) /\ write' # write
    <3>1. Index(write) = Index(old[t]) /\ pc[t] = "publish"
      BY <2>4 DEF Publish, At
    <3>2. /\ write' = write + 1 /\ pc'[t] \notin {"push", "ripe"}
          /\ UNCHANGED <<hold, mark, mine, records>>
      BY <2>4, <3>1, GotoMoves DEF Publish, Pushed, Labels, outside
    <3>3. write + 1 \in DOMAIN records
      <4>1. write = old[t] /\ write < hold
        BY <3>1, SameCount DEF Ring, Loaded, Near, Types
      <4> QED BY <3>1, <4>1 DEF Ownership, Seen, Recorded, Types
    <3> QED BY <1>1, <3>2, <3>3 DEF Recorded, Types
  <2>5. CASE /\ ~Fill(t) /\ ~MarkReady(t) /\ ~(Publish(t) /\ write' # write)
             /\ ~(HoldClaim(t) /\ Index(hold) = Index(old[t]))
    <3>1. UNCHANGED <<hold, write, mark, mine, records>>
      BY <2>5 DEF Hold, HoldLoad, HoldClaim, Push, PushCheck, WriteLoad,
         WriteReady, Publish, ring, outside
    <3>2. pc[t] = "push" \/ \E place \in Labels \ {"push", "ripe"} : Goto(t, place)
      BY <2>5 DEF Hold, HoldLoad, HoldClaim, Push, PushCheck, WriteLoad,
         WriteReady, Publish, Pushed, At, Labels
    <3>3. \A u \in Threads : pc'[u] \in {"push", "ripe"} => pc[u] \in {"push", "ripe"}
      BY <1>1, <3>2, GotoMoves
    <3> QED BY <3>1, <3>3, RecordedKept
  <2> QED BY <2>1, <2>2, <2>3, <2>4, <2>5
<1>7. \A d \in DOMAIN devices : Handed(d)'
  BY <1>1, <1>2, <1>5, <1>6, HandedKept DEF DInv
<1> QED BY <1>1, <1>2, <1>5, <1>6, <1>7 DEF DInv, DeviceTypes, SameHanding

\* Taking a record puts all its devices ahead.
LEMMA TakeHands ==
    ASSUME IInv, SInv, TInv, DInv, NEW t \in Threads, Take(t)
    PROVE  DInv'
<1>. BufferLen \in Nat \ {0}
  BY LogAssumption
<1>1. /\ pc[Main] # "stopped" /\ pc'[Main] # "stopped" /\ pc[t] = "take"
      /\ \A u \in Threads \ {t} : pc'[u] = pc[u]
      /\ UNCHANGED <<channel_type, devices, output, records, hold, write, mark>>
  BY StepMoves DEF Step, Enter, Take, At, outside
<1>. Types /\ SlotTypes /\ ChannelTypes /\ Ring /\ DeviceTypes /\ Recorded
  BY <1>1 DEF IInv, SInv, TInv, DInv
<1>2. CASE Index(proc) # Index(old[t])
  <2>1. UNCHANGED <<proc, mine, dev>> /\ pc'[t] = "tail"
    BY <1>2, GotoMoves DEF Take, Labels
  <2>2. SameHanding
    BY <1>1, <2>1 DEF SameHanding
  <2>3. Recorded'
    BY <1>1, <2>1 DEF Recorded
  <2> QED BY <1>1, <2>1, <2>2, <2>3, HandedKept DEF DInv, DeviceTypes, SameHanding
<1>3. CASE Index(proc) = Index(old[t])
  <2>1. /\ proc' = proc + 1 /\ mine' = [mine EXCEPT ![t] = old[t]]
        /\ dev' = [dev EXCEPT ![t] = 1] /\ pc'[t] = "dispatch"
    BY <1>3, GotoMoves DEF Take, Labels
  <2>2. proc = old[t]
    BY <1>1, <1>3, SameCount DEF Ring, Loaded, Near, Types
  <2>3. Recorded'
    BY <1>1, <2>1 DEF Recorded, SlotTypes
  <2>. PICK p \in Nat : p = proc
    BY DEF Types
  <2>4. ASSUME NEW d \in DOMAIN devices PROVE Handed(d)'
    <3>1. Handed(d) /\ d \in Nat \ {0}
      BY <1>1, DevicePlaces DEF DInv
    <3>2. \A i \in Nat : i < proc => (Ahead(i, d)' <=> Ahead(i, d))
      BY <1>1, <2>1, <2>2 DEF Ahead, Types, SlotTypes, ChannelTypes
    <3>3. Ahead(p, d)'
      <4>1. pc'[t] = "dispatch" /\ mine'[t] = p /\ dev'[t] <= d
        BY <2>1, <2>2, <3>1 DEF SlotTypes, ChannelTypes
      <4> QED BY <4>1 DEF Ahead
    <3>4. proc + 1 \notin ToSet(output[d])
      BY <3>1 DEF Handed, ToSet, Types
    <3>5. ASSUME NEW i \in Nat, i < proc + 1
          PROVE  i + 1 \in ToSet(output'[d])
                     <=> Admits(devices'[d], records'[i + 1]) /\ ~Ahead(i, d)'
      <4>1. CASE i < proc
        BY <1>1, <3>1, <3>2, <4>1 DEF Handed
      <4>2. CASE i = proc
        <5>1. Ahead(i, d)'
          BY <3>3, <4>2 DEF Ahead
        <5> QED BY <1>1, <3>4, <4>2, <5>1
      <4> QED BY <3>5, <4>1, <4>2 DEF Types
    <3> QED BY <1>1, <2>1, <3>1, <3>5 DEF Handed, Types
  <2>5. \A u \in Threads : pc'[u] = "dispatch" => dev'[u] >= 1
    BY <1>1, <2>1 DEF DInv, ChannelTypes
  <2> QED BY <1>1, <2>3, <2>4, <2>5 DEF DInv, DeviceTypes
<1> QED BY <1>2, <1>3

\* Dispatch hands the record of its slot to one device.
LEMMA DispatchHands ==
    ASSUME IInv, SInv, TInv, Stage, DInv, NEW t \in Threads, Dispatch(t)
    PROVE  DInv'
<1>. PICK d, m, id : d = dev[t] /\ m = mine[t] /\ id = slot[Index(m)]
  OBVIOUS
<1>1. /\ pc[Main] # "stopped" /\ pc[t] = "dispatch" /\ pc' = pc /\ d <= Len(devices)
      /\ dev' = [dev EXCEPT ![t] = d + 1]
      /\ UNCHANGED <<channel_type, devices, records, hold, write, proc, mark, mine>>
  BY DEF Dispatch, At, setup, ring
<1>. Types /\ SlotTypes /\ ChannelTypes /\ Ownership /\ Ring /\ DeviceTypes /\ Recorded
  BY <1>1 DEF IInv, SInv, TInv, DInv
<1>2. /\ id = m + 1 /\ m \in Nat /\ m < proc
      /\ d \in DOMAIN devices /\ d \in Nat /\ DOMAIN devices = DOMAIN output
  <2>1. id = m + 1 /\ m \in Nat /\ m < proc /\ d \in Nat /\ d >= 1
    BY <1>1 DEF Ownership, Takes, SlotTypes, ChannelTypes, DInv
  <2>2. /\ DOMAIN devices = 1 .. Len(devices) /\ DOMAIN output = 1 .. Len(output)
        /\ Len(devices) \in Nat
    BY LenProperties DEF DeviceTypes
  <2> QED BY <1>1, <2>1, <2>2 DEF DeviceTypes
<1>3. \/ /\ Admits(devices[d], records[id])
         /\ output' = [output EXCEPT ![d] = Append(@, id)]
      \/ ~Admits(devices[d], records[id]) /\ output' = output
  BY DEF Dispatch
<1>4. /\ \A i \in Nat, e \in Nat : i # m \/ e # d => (Ahead(i, e)' <=> Ahead(i, e))
      /\ Ahead(m, d) /\ ~Ahead(m, d)'
  <2>1. \A u \in Threads \ {t} : pc[u] = "dispatch" => mine[u] # m
    BY <1>1 DEF Ownership, Apart, Using
  <2>2. d = dev[t] /\ dev'[t] = d + 1 /\ \A u \in Threads \ {t} : dev'[u] = dev[u]
    BY <1>1 DEF ChannelTypes
  <2>3. Ahead(m, d) /\ ~Ahead(m, d)'
    <3>1. Ahead(m, d)
      BY <1>1, <1>2, <2>2 DEF Ahead
    <3>2. ASSUME NEW u \in Threads, pc[u] = "dispatch", mine[u] = m
          PROVE  ~(dev'[u] <= d)
      BY <1>2, <2>1, <2>2, <3>2
    <3> QED BY <1>1, <3>1, <3>2 DEF Ahead
  <2>4. ASSUME NEW i \in Nat, NEW e \in Nat, i # m \/ e # d
        PROVE  Ahead(i, e)' <=> Ahead(i, e)
    BY <1>1, <1>2, <2>2, <2>4 DEF Ahead
  <2> QED BY <2>3, <2>4
<1>5. DeviceTypes'
  <2>1. d \in 1 .. Len(output) /\ output[d] \in Seq(Nat) /\ output \in Seq(Seq(Nat))
    BY <1>2, DevicePlaces DEF DeviceTypes
  <2>2. Append(output[d], id) \in Seq(Nat)
    BY <1>2, <2>1, AppendProperties
  <2>3. /\ [output EXCEPT ![d] = Append(output[d], id)] \in Seq(Seq(Nat))
        /\ Len([output EXCEPT ![d] = Append(output[d], id)]) = Len(output)
    BY <2>1, <2>2, ExceptSeq
  <2> QED BY <1>1, <1>3, <2>3 DEF DeviceTypes
<1>6. ASSUME NEW e \in DOMAIN devices PROVE Handed(e)'
  <2>1. Handed(e) /\ e \in Nat /\ e \in DOMAIN output /\ output[e] \in Seq(Nat)
    BY <1>1, <1>2, <1>6, LenProperties DEF DInv, DeviceTypes
  <2>2. CASE output'[e] = output[e] /\ e # d
    BY <1>1, <1>4, <2>1, <2>2 DEF Handed
  <2>3. CASE e = d /\ output'[e] = output[e] /\ ~Admits(devices[d], records[id])
    <3>1. ASSUME NEW i \in Nat, i < proc
          PROVE  i + 1 \in ToSet(output'[e])
                     <=> Admits(devices'[e], records'[i + 1]) /\ ~Ahead(i, e)'
      <4>1. CASE i = m
        BY <1>1, <1>2, <2>1, <2>3, <3>1, <4>1 DEF Handed
      <4>2. CASE i # m
        BY <1>1, <1>4, <2>1, <2>3, <3>1, <4>2 DEF Handed
      <4> QED BY <4>1, <4>2
    <3> QED BY <1>1, <2>1, <2>3, <3>1 DEF Handed
  <2>4. CASE e = d /\ output'[e] = Append(output[e], id) /\ Admits(devices[d], records[id])
    <3>. DEFINE s == output[e]
    <3>1. /\ ToSet(output'[e]) = ToSet(s) \cup {id}
          /\ DOMAIN output'[e] = DOMAIN s \cup {Len(s) + 1}
          /\ \A j \in DOMAIN s : output'[e][j] = s[j]
          /\ output'[e][Len(s) + 1] = id
          /\ DOMAIN s = 1 .. Len(s) /\ Len(s) \in Nat /\ id \in Nat
      BY <1>2, <2>1, <2>4, ToSetAppend, LenProperties
    <3>2. id \notin ToSet(s)
      BY <1>2, <1>4, <2>1, <2>4 DEF Handed
    <3>3. ASSUME NEW i \in Nat, i < proc
          PROVE  i + 1 \in ToSet(output'[e])
                     <=> Admits(devices'[e], records'[i + 1]) /\ ~Ahead(i, e)'
      <4>1. CASE i = m
        <5>1. ~Ahead(i, e)'
          BY <1>4, <2>4, <4>1 DEF Ahead
        <5> QED BY <1>1, <1>2, <2>4, <3>1, <4>1, <5>1
      <4>2. CASE i # m
        <5>1. i + 1 \in ToSet(output'[e]) <=> i + 1 \in ToSet(s)
          BY <1>2, <3>1, <4>2
        <5>2. Ahead(i, e)' <=> Ahead(i, e)
          BY <1>4, <2>1, <4>2
        <5> QED BY <1>1, <2>1, <3>3, <5>1, <5>2 DEF Handed
      <4> QED BY <4>1, <4>2
    <3>4. \A j \in DOMAIN s : s[j] # id /\ s[j] \in 1 .. proc
      BY <2>1, <3>2 DEF Handed, ToSet
    <3>5. channel_type = "async" => id = proc
      <4>1. channel_type = "async" => t \notin Producers
        BY <1>1 DEF Stage, InEnter
      <4> QED BY <1>1, <1>2, <4>1 DEF Stage, Threads
    <3>6. \A j \in DOMAIN output'[e] : output'[e][j] \in 1 .. proc
      BY <1>2, <3>1, <3>4 DEF Types
    <3>7. ASSUME NEW i \in DOMAIN output'[e], NEW j \in DOMAIN output'[e], i < j
          PROVE  /\ output'[e][i] # output'[e][j]
                 /\ channel_type = "async" => output'[e][i] < output'[e][j]
      <4>1. i \in DOMAIN s
        BY <3>1, <3>7
      <4>2. CASE j \in DOMAIN s
        BY <2>1, <3>1, <3>7, <4>1, <4>2 DEF Handed
      <4>3. CASE j = Len(s) + 1
        BY <3>1, <3>4, <3>5, <4>1, <4>3 DEF Types
      <4> QED BY <3>1, <4>2, <4>3
    <3> QED BY <1>1, <3>3, <3>6, <3>7 DEF Handed
  <2>5. \/ output'[e] = output[e] /\ (e # d \/ ~Admits(devices[d], records[id]))
        \/ e = d /\ output'[e] = Append(output[e], id) /\ Admits(devices[d], records[id])
    BY <1>2, <1>3, <2>1 DEF DeviceTypes
  <2> QED BY <2>2, <2>3, <2>4, <2>5
<1>7. Recorded' /\ \A u \in Threads : pc'[u] = "dispatch" => dev'[u] >= 1
  BY <1>1, <1>2 DEF DInv, Recorded, ChannelTypes
<1> QED BY <1>1, <1>5, <1>6, <1>7 DEF DInv

\* Release hands out nothing, and no other step in EnterProcChannel touches
\* records or devices.
LEMMA EnterHands ==
    ASSUME IInv, SInv, TInv, Stage, DInv, NEW t \in Threads,
           Enter(t) \/ (t = Writer /\ Wake)
    PROVE  DInv'
<1>1. CASE Take(t)
  BY <1>1, TakeHands
<1>2. CASE Dispatch(t)
  BY <1>2, DispatchHands
<1>3. CASE (Enter(t) /\ ~Take(t) /\ ~Dispatch(t)) \/ (t = Writer /\ Wake)
  <2>1. /\ pc[Main] # "stopped" /\ pc'[Main] # "stopped"
        /\ \A u \in Threads \ {t} : pc'[u] = pc[u]
        /\ UNCHANGED <<channel_type, devices>>
    BY <1>3, StepMoves DEF Step
  <2>. Types /\ SlotTypes /\ Ownership /\ Ring /\ DeviceTypes /\ Recorded
    BY <2>1 DEF IInv, SInv, DInv
  <2>2. UNCHANGED <<output, records, hold, write, proc, mine, dev>>
    BY <1>3 DEF Enter, ProcLoad, Release, ReadLoad, ReadSpent, ReadFree, Report, Wake,
                outside, ring
  <2>3. /\ pc'[t] \notin {"push", "ripe", "dispatch"}
        /\ pc[t] = "dispatch" => Release(t)
    <3>1. \E place \in Labels \ {"push", "ripe", "dispatch"} : Goto(t, place)
      BY <1>3 DEF Enter, ProcLoad, Release, ReadLoad, ReadSpent, ReadFree, Report, Wake,
                  Labels
    <3>2. pc[t] = "dispatch" => Release(t)
      BY <1>3 DEF Enter, ProcLoad, Release, ReadLoad, ReadSpent, ReadFree, Report, Wake, At
    <3> QED BY <3>1, <3>2, GotoMoves
  <2>4. Recorded'
    <3>1. \A i \in Nat : mark'[Index(i)] = "ready" => mark[Index(i)] = "ready"
      BY <1>3, IndexIsSlot
         DEF Enter, ProcLoad, Release, ReadLoad, ReadSpent, ReadFree, Report, Wake, ring,
             SlotTypes
    <3> QED BY <2>1, <2>2, <2>3, <3>1, RecordedKept
  <2>5. \A i \in Nat, d \in DOMAIN devices : Ahead(i, d)' <=> Ahead(i, d)
    <3>1. pc[t] = "dispatch" => dev[t] > Len(devices)
      BY <2>3 DEF Release
    <3>2. \A d \in DOMAIN devices : pc[t] = "dispatch" => ~(dev[t] <= d)
      BY <3>1, DevicePlaces DEF TInv, ChannelTypes
    <3> QED BY <2>1, <2>2, <2>3, <3>2 DEF Ahead
  <2>6. \A d \in DOMAIN devices : Handed(d)'
    BY <2>1, <2>2, <2>5 DEF DInv, Handed
  <2>7. \A u \in Threads : pc'[u] = "dispatch" => dev'[u] >= 1
    BY <2>1, <2>2, <2>3 DEF DInv
  <2> QED BY <2>1, <2>2, <2>4, <2>6, <2>7 DEF DInv, DeviceTypes
<1> QED BY <1>1, <1>2, <1>3

\* Before the start nothing is handed out, and a device that is added is new.
LEMMA OthersHand ==
    ASSUME IInv, Stage, DInv,
           SetUp \/ Start \/ Stop \/ \E t \in Producers : Log(t)
    PROVE  DInv'
<1>. Types /\ Main \notin Threads /\ Writer \in Threads /\ Producers \subseteq Threads
  BY LogAssumption DEF IInv, Threads
<1>1. CASE AddLoggerToFile \/ AddLoggerToScreen
  <2>1. PICK device \in [out : {"file", "screen"}, level : Levels, limit : Int] :
            AddDevice(device)
    <3>1. \A n \in LimitSizes : LimitOf(n) \in Int
      BY LimitIsInt
    <3>2. CASE AddLoggerToFile
      <4>1. PICK l \in Levels, n \in LimitSizes :
                AddDevice([out |-> "file", level |-> l, limit |-> LimitOf(n)])
        BY <3>2 DEF AddLoggerToFile
      <4> QED BY <3>1, <4>1
    <3>3. CASE AddLoggerToScreen
      <4>1. PICK l \in Levels : AddDevice([out |-> "screen", level |-> l, limit |-> 0])
        BY <3>3 DEF AddLoggerToScreen
      <4> QED BY <4>1
    <3> QED BY <1>1, <3>2, <3>3
  <2>2. /\ pc[Main] = "idle" /\ devices' = Append(devices, device)
        /\ output' = Append(output, <<>>)
        /\ UNCHANGED <<pc, hold, write, proc, read, mark, mine, dev, records, channel_type>>
    BY <2>1 DEF AddDevice, ring, threads
  <2>3. DeviceTypes'
    <3>1. <<>> \in Seq(Nat)
      BY EmptySeq
    <3> QED BY <2>2, <3>1, AppendProperties DEF DInv, DeviceTypes
  <2>4. /\ pc[Main] # "stopped" /\ Recorded /\ proc = 0
        /\ \A t \in Threads : pc[t] \in {"idle", "none"}
    <3>1. pc[Main] # "stopped" /\ hold = 0 /\ \A t \in Threads : pc[t] \in {"idle", "none"}
      BY <2>2 DEF Stage, Threads
    <3>2. Order
      BY <3>1 DEF IInv, Ring
    <3>3. proc = 0
      BY <3>1, <3>2 DEF Order, Types
    <3> QED BY <3>1, <3>3 DEF DInv
  <2>5. Recorded'
    BY <2>2, <2>4 DEF Recorded
  <2>6. ASSUME NEW d \in DOMAIN devices' PROVE Handed(d)'
    <3>1. output'[d] = <<>>
      <4>1. /\ Len(devices) \in Nat /\ DOMAIN devices = 1 .. Len(devices)
            /\ DOMAIN devices' = 1 .. Len(devices) + 1 /\ Len(output) = Len(devices)
            /\ \A e \in 1 .. Len(devices) : output'[e] = output[e]
            /\ output'[Len(devices) + 1] = <<>>
        <5>1. DeviceTypes /\ DeviceTypes'
          BY <2>3 DEF DInv
        <5> QED BY <2>2, <5>1, DevicePlaces, AppendProperties, EmptySeq, LenProperties
                DEF DeviceTypes
      <4>2. \A e \in DOMAIN devices : output[e] = <<>>
        <5>1. ASSUME NEW e \in DOMAIN devices PROVE output[e] = <<>>
          <6>1. output[e] \in Seq(Nat) /\ DOMAIN output[e] = 1 .. Len(output[e])
            BY DevicePlaces, LenProperties DEF DInv
          <6>2. \A j \in 1 .. Len(output[e]) : output[e][j] \in 1 .. 0
            BY <2>4, <6>1 DEF DInv, Handed
          <6>3. Len(output[e]) = 0
            <7>1. Len(output[e]) \in Nat
              BY <6>1, LenProperties
            <7>2. 1 \notin 1 .. Len(output[e])
              BY <6>2
            <7> QED BY <7>1, <7>2
          <6> QED BY <6>1, <6>3, EmptySeq
        <5> QED BY <5>1
      <4> QED BY <4>1, <4>2
    <3>2. DOMAIN output'[d] = {} /\ ToSet(output'[d]) = {}
      BY <3>1 DEF ToSet
    <3>3. proc' = 0
      BY <2>2, <2>4
    <3> QED BY <3>2, <3>3 DEF Handed
  <2> QED BY <2>2, <2>3, <2>4, <2>5, <2>6 DEF DInv
<1>2. CASE SetLoggerSync \/ LoggerStart \/ Start \/ StopChannels \/ Join
  <2>1. /\ UNCHANGED <<hold, write, proc, read, mark, mine>>
        /\ pc[Main] # "stopped" /\ pc'[Main] # "stopped"
        /\ \A t \in Threads : pc'[t] = pc[t] \/ pc'[t] = "proc"
    BY <1>2, MainMoves DEF SetUp
  <2>2. /\ UNCHANGED <<output, records, dev, devices>>
        /\ \A t \in Threads : pc[t] = "dispatch" => pc'[t] = "dispatch"
    <3>1. CASE SetLoggerSync
      BY <3>1 DEF SetLoggerSync, threads, outside
    <3>2. CASE LoggerStart
      BY <3>2 DEF LoggerStart, outside, setup, Goto, Stage, Threads, Types
    <3>3. CASE Start \/ StopChannels \/ Join
      BY <3>3 DEF Start, StartSeen, StartTimeout, StopChannels, Join, outside, setup, Goto, Types
    <3> QED BY <1>2, <3>1, <3>2, <3>3
  <2>3. SameHanding
    BY <2>1, <2>2 DEF SameHanding
  <2>4. Recorded'
    BY <2>1, <2>2 DEF DInv, Recorded
  <2>5. channel_type' = channel_type \/ (channel_type' = "sync" /\ pc[Main] = "idle")
    BY <1>2 DEF SetLoggerSync, LoggerStart, Start, StartSeen, StartTimeout, StopChannels,
                Join, setup
  <2>6. \A i \in Nat, d \in DOMAIN devices : Ahead(i, d)' <=> Ahead(i, d)
    BY <2>3, <2>2 DEF SameHanding, Ahead
  <2>7. \A d \in DOMAIN devices : Handed(d)'
    BY <2>1, <2>2, <2>5, <2>6 DEF DInv, Handed
  <2> QED BY <2>1, <2>2, <2>3, <2>4, <2>7 DEF DInv, DeviceTypes, SameHanding
<1>3. CASE CleanChannels
  <2>1. pc'[Main] = "stopped" /\ UNCHANGED <<devices, output>>
    BY <1>3 DEF CleanChannels, Goto, Types, setup
  <2> QED BY <2>1 DEF DInv, DeviceTypes
<1>4. ASSUME NEW t \in Producers, Log(t) PROVE DInv'
  <2>1. /\ pc'[t] = "hold" /\ pc'[Main] = pc[Main] /\ pc[t] = "idle" /\ pc[Main] # "stopped"
        /\ \A u \in Threads \ {t} : pc'[u] = pc[u]
        /\ UNCHANGED <<channel_type, devices, output, records, hold, write, proc, mark,
                       mine, dev>>
    BY <1>4, GotoMoves DEF Log, At, Labels, setup, ring, outside
  <2>2. SameHanding
    BY <2>1 DEF SameHanding
  <2>3. Recorded'
    BY <2>1, RecordedKept DEF DInv
  <2>4. \A d \in DOMAIN devices : Handed(d)'
    BY <2>1, <2>2, HandedKept DEF DInv
  <2> QED BY <2>1, <2>2, <2>3, <2>4 DEF DInv, DeviceTypes, SameHanding
<1> QED BY <1>1, <1>2, <1>3, <1>4 DEF SetUp, Stop

LEMMA InitHanded == Init => DInv
<1>. SUFFICES ASSUME Init PROVE DInv
  OBVIOUS
<1>1. DeviceTypes
  BY EmptySeq DEF Init, DeviceTypes
<1>2. Recorded
  BY DEF Init, Recorded
<1>3. \A t \in Threads : pc[t] \in {"idle", "none"}
  BY DEF Init
<1>4. DOMAIN devices = {}
  BY DEF Init
<1> QED BY <1>1, <1>2, <1>3, <1>4 DEF DInv

LEMMA NextHands == IInv /\ SInv /\ TInv /\ Stage /\ DInv /\ [Next]_vars => DInv'
<1>. SUFFICES ASSUME IInv, SInv, TInv, Stage, DInv, [Next]_vars PROVE DInv'
  OBVIOUS
<1>1. CASE Next
  BY <1>1, HoldPushHands, EnterHands, OthersHand DEF Next, Step
<1>2. CASE UNCHANGED vars
  <2>1. UNCHANGED <<devices, output, records, hold, write, proc, mark, mine, dev, pc,
                    channel_type>>
    BY <1>2 DEF vars, setup, ring, threads, outside
  <2>2. SameHanding
    BY <2>1 DEF SameHanding
  <2>3. pc[Main] # "stopped" => Recorded'
    BY <2>1 DEF DInv, Recorded
  <2> QED BY <2>1, <2>2, <2>3, HandedKept DEF DInv, DeviceTypes
<1> QED BY <1>1, <1>2

(***************************************************************************)
(* No device gets a record twice, whichever threads take the records; and  *)
(* the one thread of an asynchronous channel keeps their order.            *)
(***************************************************************************)
THEOREM RecordsHandedOnce == Spec => []OnceEach
<1>1. IInv /\ DInv => OnceEach
  BY DEF IInv, DInv, Handed, OnceEach, Live
<1> QED BY InitHolds, NextKeeps, InitOwned, NextOwns, InitTyped, NextTyped, InitStage,
           NextStage, InitHanded, NextHands, <1>1, PTL DEF Spec

-----------------------------------------------------------------------------
(* Nobody leaves a record behind                                           *)

\* While a synchronous channel runs, nobody leaves PushChannel or
\* EnterProcChannel but by their ends.
Running == Live /\ channel_type = "sync"

LEMMA HoldPasses ==
    ASSUME IInv, SInv, Stage, Running, NInv, NEW t \in Producers, Hold(t)
    PROVE  NInv'
<1>. t \in Threads /\ BufferLen \in Nat \ {0}
  BY LogAssumption DEF Threads
<1>1. /\ pc[Main] # "stopped" /\ UNCHANGED <<logger_state, channel_type>>
      /\ \A u \in Threads \ {t} : pc'[u] = pc[u]
  BY StepMoves DEF Step
<1>. /\ Types /\ SlotTypes /\ Ownership /\ Ring /\ channel_state = "running"
     /\ WillFill /\ WillPublish /\ WillTake /\ WillRelease /\ WillFree
  BY <1>1 DEF IInv, SInv, Stage, Running, NInv
<1>2. /\ pc[t] \in {"hold", "claim", "fill"} /\ UNCHANGED <<write, proc, read>>
      /\ \A u \in Threads \ {t} : old'[u] = old[u] /\ mine'[u] = mine[u]
  BY DEF Hold, HoldLoad, HoldClaim, Fill, At, ring, Types, SlotTypes
<1>3. WillFill' /\ (\A i \in Nat : read <= i /\ i < hold => mark'[Index(i)] = "ready" <=> mark[Index(i)] = "ready")
  <2>1. CASE HoldLoad(t) \/ (HoldClaim(t) /\ Index(hold) # Index(old[t]))
    <3>1. pc[t] \notin Filling /\ UNCHANGED <<hold, mark, mine>>
      BY <2>1 DEF HoldLoad, HoldClaim, ring, At, Filling
    <3>2. UNCHANGED mark
      BY <3>1
    <3>3. WillFill'
      BY <1>1, <1>2, <3>1 DEF WillFill
    <3> QED BY <3>2, <3>3
  <2>2. CASE HoldClaim(t) /\ Index(hold) = Index(old[t])
    <3>1. /\ hold' = hold + 1 /\ pc'[t] = "fill" /\ mine' = [mine EXCEPT ![t] = old[t]]
          /\ pc[t] = "claim" /\ UNCHANGED mark
      BY <2>2, GotoMoves DEF HoldClaim, At, Labels
    <3>2. hold = old[t]
      BY <2>2, <3>1, SameCount DEF Ring, Loaded, Near, Types
    <3>3. mine'[t] = hold
      BY <3>1, <3>2 DEF SlotTypes
    <3>4. ASSUME NEW i \in Nat, write <= i, i < hold + 1, mark[Index(i)] # "ready"
          PROVE  \E u \in Threads : pc'[u] \in Filling /\ mine'[u] = i
      <4>1. CASE i = hold
        BY <3>1, <3>3, <4>1 DEF Filling
      <4>2. CASE i < hold
        <5>1. PICK u \in Threads : pc[u] \in Filling /\ mine[u] = i
          BY <3>4, <4>2 DEF WillFill
        <5>2. u # t
          BY <3>1, <5>1 DEF Filling
        <5> QED BY <1>1, <1>2, <5>1, <5>2
      <4> QED BY <3>4, <4>1, <4>2 DEF Types
    <3> QED BY <1>2, <3>1, <3>4 DEF WillFill
  <2>3. CASE Fill(t)
    <3>1. /\ UNCHANGED <<hold, mine>> /\ pc[t] = "fill" /\ pc'[t] = "push"
          /\ mark' = [mark EXCEPT ![Index(mine[t])] = "hold"]
      BY <2>3, GotoMoves DEF Fill, At, Labels
    <3>2. mark[Index(mine[t])] # "ready"
      BY <3>1 DEF Ownership, Claims, Filling
    <3>3. \A i \in Nat : mark'[Index(i)] = "ready" <=> mark[Index(i)] = "ready"
      BY <3>1, <3>2, IndexIsSlot DEF SlotTypes
    <3>4. \A u \in Threads : pc[u] \in Filling => pc'[u] \in Filling
      BY <1>1, <3>1 DEF Filling
    <3> QED BY <1>2, <3>1, <3>3, <3>4 DEF WillFill
  <2> QED BY <2>1, <2>2, <2>3 DEF Hold
<1>4. \A u \in Threads : (Publisher(u) => Publisher(u)') /\ (Taker(u) => Taker(u)') /\ (Freer(u) => Freer(u)')
  BY <1>1, <1>2 DEF Publisher, Taker, Freer
<1>5. \A i \in Nat : read <= i /\ i < write => mark'[Index(i)] = mark[Index(i)]
  <2>1. CASE HoldLoad(t) \/ HoldClaim(t)
    BY <2>1 DEF HoldLoad, HoldClaim, ring
  <2>2. CASE Fill(t)
    <3>1. /\ mark' = [mark EXCEPT ![Index(mine[t])] = "hold"]
          /\ mine[t] \in Nat /\ write <= mine[t] /\ mine[t] < hold
      BY <2>2 DEF Fill, At, Ownership, Claims, Filling, SlotTypes
    <3>2. \A i \in Nat : read <= i /\ i < write => Index(i) # Index(mine[t])
      BY <3>1, OneRound DEF Ring, Order, Types
    <3> QED BY <3>1, <3>2, IndexIsSlot DEF SlotTypes
  <2> QED BY <2>1, <2>2 DEF Hold
<1>6. WillPublish'
  <2>1. CASE write < hold
    <3>1. mark'[Index(write)] = "ready" <=> mark[Index(write)] = "ready"
      BY <1>3, <2>1 DEF Ring, Order, Types
    <3> QED BY <1>2, <1>4, <2>1, <3>1 DEF WillPublish
  <2>2. CASE ~(write < hold) /\ write < hold'
    <3>1. HoldClaim(t) /\ Index(hold) = Index(old[t])
      BY <2>2 DEF Hold, HoldLoad, HoldClaim, Fill, ring
    <3>2. UNCHANGED mark
      BY <3>1 DEF HoldClaim
    <3>3. hold = old[t] /\ old[t] + 1 < read + BufferLen
      BY <3>1, SameCount DEF HoldClaim, At, Ring, Loaded, Near, Types
    <3>4. mark[Index(hold)] # "ready"
      BY <3>3 DEF Ownership, Vacant, Types
    <3>5. write = hold
      BY <2>2 DEF Ring, Order, Types
    <3> QED BY <1>2, <3>2, <3>4, <3>5 DEF WillPublish
  <2> QED BY <1>2, <2>1, <2>2 DEF WillPublish
<1>7. WillTake'
  BY <1>2, <1>4 DEF WillTake
<1>8. WillRelease'
  <2>1. \A u \in Threads : pc[u] = "dispatch" => pc'[u] = "dispatch" /\ mine'[u] = mine[u]
    BY <1>1, <1>2
  <2> QED BY <1>2, <1>5, <2>1 DEF WillRelease, Ring, Order, Types
<1>9. WillFree'
  BY <1>2, <1>4, <1>5 DEF WillFree, Ring, Order, Types
<1> QED BY <1>3, <1>6, <1>7, <1>8, <1>9 DEF NInv

LEMMA PushPasses ==
    ASSUME IInv, SInv, Stage, Running, NInv, NEW t \in Producers, Push(t)
    PROVE  NInv'
<1>. t \in Threads /\ BufferLen \in Nat \ {0}
  BY LogAssumption DEF Threads
<1>1. /\ pc[Main] # "stopped" /\ UNCHANGED <<logger_state, channel_type>>
      /\ \A u \in Threads \ {t} : pc'[u] = pc[u]
  BY StepMoves DEF Step
<1>. /\ Types /\ SlotTypes /\ Ownership /\ Ring
     /\ WillFill /\ WillPublish /\ WillTake /\ WillRelease /\ WillFree
  BY <1>1 DEF IInv, SInv, Running, NInv
<1>2. channel_state = "running" /\ Pushed = "proc"
  BY DEF Stage, Running, Pushed
<1>3. /\ UNCHANGED <<hold, proc, read, mine>>
      /\ \A u \in Threads \ {t} : old'[u] = old[u]
  BY DEF Push, PushCheck, MarkReady, WriteLoad, WriteReady, Publish, At, ring, Types
<1>4. \A u \in Threads : pc[u] = "dispatch" <=> pc'[u] = "dispatch"
  <2>1. pc[t] # "dispatch" /\ pc'[t] # "dispatch"
    <3>1. \E place \in Labels \ {"dispatch"} : Goto(t, place)
      BY <1>2 DEF Push, PushCheck, MarkReady, WriteLoad, WriteReady, Publish, Labels
    <3>2. pc[t] # "dispatch"
      BY DEF Push, PushCheck, MarkReady, WriteLoad, WriteReady, Publish, At
    <3> QED BY <3>1, <3>2, GotoMoves
  <2> QED BY <1>1, <2>1
<1>5. CASE PushCheck(t)
  <2>1. /\ pc[t] = "push" /\ pc'[t] = "ripe" /\ UNCHANGED <<write, mark, old>>
    BY <1>2, <1>5, GotoMoves DEF PushCheck, At, ring, Labels
  <2>2. \A u \in Threads : /\ Publisher(u) => Publisher(u)'
                           /\ Taker(u) => Taker(u)'
                           /\ Freer(u) => Freer(u)'
                           /\ pc[u] \in Filling => pc'[u] \in Filling
    BY <1>1, <1>3, <2>1 DEF Publisher, Taker, Freer, Filling
  <2> QED BY <1>3, <1>4, <2>1, <2>2
          DEF NInv, WillFill, WillPublish, WillTake, WillRelease, WillFree
<1>6. CASE MarkReady(t)
  <2>1. /\ pc[t] = "ripe" /\ pc'[t] = "write" /\ UNCHANGED <<write, old>>
        /\ mark' = [mark EXCEPT ![Index(mine[t])] = "ready"]
    BY <1>6, GotoMoves DEF MarkReady, At, Labels
  <2>2. mine[t] \in Nat /\ write <= mine[t] /\ mine[t] < hold
    BY <2>1 DEF Ownership, Claims, Filling, SlotTypes
  <2>3. \A i \in Nat : read <= i /\ i < hold /\ i # mine[t] =>
            mark'[Index(i)] = mark[Index(i)]
    <3>1. \A i \in Nat : read <= i /\ i < hold /\ i # mine[t] => Index(i) # Index(mine[t])
      BY <2>2, OneRound DEF Ring, Order, Types
    <3> QED BY <2>1, <3>1, IndexIsSlot DEF SlotTypes
  <2>4. mark'[Index(mine[t])] = "ready"
    BY <2>1, <2>2, IndexIsSlot DEF SlotTypes
  <2>5. WillFill'
    <3>1. ASSUME NEW i \in Nat, write <= i, i < hold, mark'[Index(i)] # "ready"
          PROVE  \E u \in Threads : pc'[u] \in Filling /\ mine'[u] = i
      <4>1. i # mine[t] /\ mark[Index(i)] # "ready"
        BY <2>3, <2>4, <3>1 DEF Ring, Order, Types
      <4>2. PICK u \in Threads : pc[u] \in Filling /\ mine[u] = i
        BY <3>1, <4>1 DEF WillFill
      <4> QED BY <1>1, <1>3, <4>1, <4>2
    <3> QED BY <1>3, <2>1, <3>1 DEF WillFill
  <2>6. Publisher(t)' /\ Taker(t)'
    BY <2>1 DEF Publisher, Taker
  <2>7. WillPublish' /\ WillTake'
    BY <2>6 DEF WillPublish, WillTake
  <2>8. \A i \in Nat : read <= i /\ i < proc => mark'[Index(i)] = mark[Index(i)]
    BY <2>2, <2>3 DEF Ring, Order, Types
  <2>9. WillRelease'
    BY <1>3, <1>4, <2>8 DEF WillRelease
  <2>10. WillFree'
    <3>1. \A u \in Threads : Freer(u) => Freer(u)'
      BY <1>1, <1>3, <2>1 DEF Freer
    <3> QED BY <1>3, <2>8, <3>1 DEF WillFree, Types
  <2> QED BY <2>5, <2>7, <2>9, <2>10 DEF NInv
<1>7. CASE WriteLoad(t) \/ WriteReady(t) \/ Publish(t)
  <2>1. UNCHANGED mark /\ pc[t] \in {"write", "ready", "publish"}
    BY <1>7 DEF WriteLoad, WriteReady, Publish, ring, At
  <2>2. WillRelease'
    BY <1>3, <1>4, <2>1 DEF WillRelease
  <2>3. WillFree'
    <3>1. \A u \in Threads : Freer(u) => Freer(u)'
      BY <1>1, <1>3, <2>1 DEF Freer
    <3> QED BY <1>3, <2>1, <3>1 DEF WillFree
  <2>4. WillFill'
    <3>1. write <= write' /\ write' \in Nat
      BY <1>7 DEF WriteLoad, WriteReady, Publish, ring, Types
    <3>2. \A u \in Threads : pc[u] \in Filling => pc'[u] \in Filling
      BY <1>1, <2>1 DEF Filling
    <3> QED BY <1>3, <2>1, <3>1, <3>2 DEF WillFill, Types
  <2>5. WillTake'
    <3>1. pc'[t] \in {"ready", "proc", "publish", "write"}
      BY <1>2, <1>7, GotoMoves DEF WriteLoad, WriteReady, Publish, Labels
    <3> QED BY <3>1 DEF WillTake, Taker
  <2>6. WillPublish'
    <3>. SUFFICES ASSUME write' < hold, mark[Index(write')] = "ready"
                  PROVE  \E u \in Threads : Publisher(u)'
      BY <1>3, <2>1 DEF WillPublish
    <3>1. CASE WriteLoad(t)
      <4>1. Index(write) # Index(hold)
        <5>1. write < hold /\ hold < write + BufferLen
          BY <3>1 DEF WriteLoad, ring, Ring, Order, Types
        <5> QED BY <5>1, SameCount DEF Types
      <4>2. pc'[t] = "ready" /\ old'[t] = write /\ write' = write
        BY <3>1, <4>1, GotoMoves DEF WriteLoad, ring, Types, Labels
      <4> QED BY <4>2 DEF Publisher
    <3>2. CASE WriteReady(t)
      <4>1. PICK u \in Threads : Publisher(u)
        BY <3>2 DEF WriteReady, ring, WillPublish
      <4>2. write' = write /\ old' = old /\ pc[t] = "ready"
        BY <3>2 DEF WriteReady, ring, At
      <4>3. CASE u = t
        <5>1. old[t] = write
          BY <4>1, <4>2, <4>3 DEF Publisher
        <5>2. pc'[t] = "publish"
          BY <3>2, <4>2, <5>1, GotoMoves DEF WriteReady, Labels
        <5> QED BY <5>2 DEF Publisher
      <4>4. CASE u # t
        BY <1>1, <4>1, <4>2, <4>4 DEF Publisher
      <4> QED BY <4>3, <4>4
    <3>3. CASE Publish(t)
      <4>1. pc'[t] = "write"
        BY <1>2, <3>3, GotoMoves DEF Publish, Labels
      <4> QED BY <4>1 DEF Publisher
    <3> QED BY <1>7, <3>1, <3>2, <3>3
  <2> QED BY <2>2, <2>3, <2>4, <2>5, <2>6 DEF NInv
<1> QED BY <1>5, <1>6, <1>7 DEF Push

LEMMA EnterPasses ==
    ASSUME IInv, SInv, Stage, Running, NInv, NEW t \in Threads, Enter(t)
    PROVE  NInv'
<1>. BufferLen \in Nat \ {0}
  BY LogAssumption
<1>1. /\ pc[Main] # "stopped" /\ UNCHANGED <<logger_state, channel_type>>
      /\ \A u \in Threads \ {t} : pc'[u] = pc[u]
  BY StepMoves DEF Step
<1>. /\ Types /\ SlotTypes /\ Ownership /\ Ring
     /\ WillFill /\ WillPublish /\ WillTake /\ WillRelease /\ WillFree
  BY <1>1 DEF IInv, SInv, Running, NInv
<1>2. /\ UNCHANGED <<hold, write>> /\ pc[t] \in InEnter
      /\ \A u \in Threads \ {t} : old'[u] = old[u] /\ mine'[u] = mine[u]
  BY DEF Enter, ProcLoad, Take, Dispatch, Release, ReadLoad, ReadSpent, ReadFree, Report,
         At, InEnter, ring, Types, SlotTypes
<1>3. \A i \in Nat : read <= i /\ i < hold /\ ~(Release(t) /\ i = mine[t]) =>
          mark'[Index(i)] = mark[Index(i)]
  <2>1. CASE Release(t)
    <3>1. /\ mark' = [mark EXCEPT ![Index(mine[t])] = "invalid"]
          /\ mine[t] \in Nat /\ read <= mine[t] /\ mine[t] < proc
      BY <2>1 DEF Release, At, Ownership, Takes, SlotTypes
    <3>2. \A i \in Nat : read <= i /\ i < hold /\ i # mine[t] => Index(i) # Index(mine[t])
      BY <3>1, OneRound DEF Ring, Order, Types
    <3>3. \A i \in Nat : read <= i /\ i < hold /\ i # mine[t] =>
              mark'[Index(i)] = mark[Index(i)]
      BY <3>1, <3>2, IndexIsSlot DEF SlotTypes
    <3> QED BY <2>1, <3>3
  <2>2. CASE ~Release(t)
    BY <2>2 DEF Enter, ProcLoad, Take, Dispatch, ReadLoad, ReadSpent, ReadFree, Report, ring
  <2> QED BY <2>1, <2>2
<1>4. Release(t) => mine[t] \in Nat /\ mine[t] < proc
  BY DEF Release, At, Ownership, Takes, SlotTypes
<1>5. \A i \in Nat : write <= i /\ i < hold => mark'[Index(i)] = mark[Index(i)]
  BY <1>3, <1>4 DEF Ring, Order, Types
<1>6. \A u \in Threads : /\ pc[u] \in Filling => pc'[u] \in Filling /\ mine'[u] = mine[u]
                         /\ Publisher(u) => Publisher(u)'
  BY <1>1, <1>2 DEF Filling, InEnter, Publisher
<1>7. WillFill' /\ WillPublish'
  BY <1>2, <1>5, <1>6 DEF WillFill, WillPublish, Types
<1>8. WillTake'
  <2>. SUFFICES ASSUME proc' < write PROVE \E u \in Threads : Taker(u)'
    BY <1>2 DEF WillTake
  <2>1. CASE ProcLoad(t)
    <3>1. Index(proc) # Index(write)
      <4>1. proc < write /\ write < proc + BufferLen
        BY <2>1 DEF ProcLoad, ring, Ring, Order, Types
      <4> QED BY <4>1, SameCount DEF Types
    <3>2. pc'[t] = "take" /\ old'[t] = proc /\ proc' = proc
      BY <2>1, <3>1, GotoMoves DEF ProcLoad, ring, Types, Labels
    <3> QED BY <3>2 DEF Taker
  <2>2. CASE Take(t) /\ Index(proc) = Index(old[t])
    <3>1. pc'[t] = "dispatch"
      BY <2>2, GotoMoves DEF Take, Labels
    <3> QED BY <3>1 DEF Taker
  <2>3. CASE (Take(t) /\ Index(proc) # Index(old[t])) \/ Report(t)
    <3>1. ~Taker(t) /\ UNCHANGED proc
      BY <2>3 DEF Take, Report, At, Taker, ring
    <3>2. PICK u \in Threads : Taker(u)
      BY <3>1 DEF WillTake
    <3>3. Taker(u)'
      BY <1>1, <1>2, <3>1, <3>2 DEF Taker
    <3> QED BY <3>3
  <2>4. CASE Dispatch(t) \/ Release(t) \/ ReadLoad(t) \/ ReadSpent(t) \/ ReadFree(t)
    <3>1. pc'[t] \in {"dispatch", "read", "proc", "spent", "free"}
      BY <2>4, GotoMoves DEF Dispatch, Release, ReadLoad, ReadSpent, ReadFree, At, Labels
    <3> QED BY <3>1 DEF Taker
  <2> QED BY <2>1, <2>2, <2>3, <2>4 DEF Enter
<1>9. WillRelease'
  <2>1. CASE Take(t) /\ Index(proc) = Index(old[t])
    <3>1. proc = old[t]
      BY <2>1, SameCount DEF Take, At, Ring, Loaded, Near, Types
    <3>2. /\ proc' = proc + 1 /\ read' = read /\ pc'[t] = "dispatch" /\ mine'[t] = proc
          /\ pc[t] = "take" /\ mark' = mark
      BY <2>1, <3>1, GotoMoves DEF Take, At, Labels, SlotTypes
    <3>3. ASSUME NEW i \in Nat, read <= i, i < proc + 1, mark[Index(i)] # "invalid"
          PROVE  \E u \in Threads : pc'[u] = "dispatch" /\ mine'[u] = i
      <4>1. CASE i = proc
        BY <3>2, <4>1
      <4>2. CASE i < proc
        <5>1. PICK u \in Threads : pc[u] = "dispatch" /\ mine[u] = i
          BY <3>3, <4>2 DEF WillRelease
        <5> QED BY <1>1, <1>2, <3>2, <5>1
      <4> QED BY <3>3, <4>1, <4>2 DEF Types
    <3> QED BY <3>2, <3>3 DEF WillRelease
  <2>2. CASE Release(t)
    <3>1. /\ UNCHANGED <<proc, read, mine>> /\ mark'[Index(mine[t])] = "invalid"
          /\ pc[t] = "dispatch"
      BY <2>2, <1>4, IndexIsSlot DEF Release, At, SlotTypes
    <3>2. ASSUME NEW i \in Nat, read <= i, i < proc, mark'[Index(i)] # "invalid"
          PROVE  \E u \in Threads : pc'[u] = "dispatch" /\ mine'[u] = i
      <4>1. i # mine[t] /\ mark[Index(i)] # "invalid"
        BY <1>3, <3>1, <3>2 DEF Ring, Order, Types
      <4>2. PICK u \in Threads : pc[u] = "dispatch" /\ mine[u] = i
        BY <3>2, <4>1 DEF WillRelease
      <4> QED BY <1>1, <3>1, <4>1, <4>2
    <3> QED BY <3>1, <3>2 DEF WillRelease
  <2>3. CASE ~Release(t) /\ ~(Take(t) /\ Index(proc) = Index(old[t]))
    <3>1. /\ UNCHANGED <<proc, mine, mark>> /\ read <= read' /\ read' \in Nat
          /\ pc[t] = "dispatch" => pc'[t] = "dispatch"
      BY <2>3 DEF Enter, ProcLoad, Take, Dispatch, ReadLoad, ReadSpent, ReadFree, Report,
                  At, ring, Types
    <3>2. \A u \in Threads : pc[u] = "dispatch" => pc'[u] = "dispatch"
      BY <1>1, <3>1
    <3> QED BY <3>1, <3>2 DEF WillRelease, Types
  <2> QED BY <2>1, <2>2, <2>3
<1>10. WillFree'
  <2>. SUFFICES ASSUME read' < proc', mark'[Index(read')] = "invalid"
                PROVE  \E u \in Threads : Freer(u)'
    BY DEF WillFree
  <2>1. CASE ReadLoad(t)
    <3>1. UNCHANGED <<read, proc>>
      BY <2>1 DEF ReadLoad, ring
    <3>2. Index(read) # Index(proc)
      <4>1. read < proc /\ proc < read + BufferLen
        BY <3>1 DEF Ring, Order, Types
      <4> QED BY <4>1, SameCount DEF Types
    <3>3. pc'[t] = "spent" /\ old'[t] = read
      BY <2>1, <3>2, GotoMoves DEF ReadLoad, Types, Labels
    <3> QED BY <3>1, <3>3 DEF Freer
  <2>2. CASE ReadSpent(t)
    <3>1. UNCHANGED <<read, proc, mark, old>> /\ pc[t] = "spent"
      BY <2>2 DEF ReadSpent, ring, At
    <3>2. PICK u \in Threads : Freer(u)
      BY <3>1 DEF WillFree
    <3>3. CASE u = t
      <4>1. old[t] = read
        BY <3>1, <3>2, <3>3 DEF Freer
      <4>2. pc'[t] = "free"
        BY <2>2, <3>1, <4>1, GotoMoves DEF ReadSpent, Labels
      <4> QED BY <4>2 DEF Freer
    <3>4. CASE u # t
      BY <1>1, <3>1, <3>2, <3>4 DEF Freer
    <3> QED BY <3>3, <3>4
  <2>3. CASE ReadFree(t) \/ Release(t)
    <3>1. pc'[t] = "read"
      BY <2>3, GotoMoves DEF ReadFree, Release, Labels
    <3> QED BY <3>1 DEF Freer
  <2>4. CASE ProcLoad(t) \/ Take(t) \/ Dispatch(t) \/ Report(t)
    <3>1. /\ UNCHANGED <<read, mark>> /\ pc[t] \notin {"read", "free", "spent"}
          /\ proc' = proc \/ (proc' = proc + 1 /\ proc < write)
      <4>1. CASE Take(t) /\ Index(proc) = Index(old[t])
        <5>1. proc = old[t] /\ old[t] < write
          BY <4>1, SameCount DEF Take, At, Ring, Loaded, Near, Types
        <5> QED BY <4>1, <5>1 DEF Take, At
      <4>2. CASE ~(Take(t) /\ Index(proc) = Index(old[t]))
        BY <2>4, <4>2 DEF ProcLoad, Take, Dispatch, Report, ring, At
      <4> QED BY <4>1, <4>2
    <3>2. read < proc
      <4>1. CASE proc' = proc
        BY <3>1, <4>1
      <4>2. CASE proc < write /\ read = proc
        BY <3>1, <4>2 DEF Ownership, Published, Types
      <4> QED BY <3>1, <4>1, <4>2 DEF Ring, Order, Types
    <3>3. PICK u \in Threads : Freer(u)
      BY <3>1, <3>2 DEF WillFree
    <3> QED BY <1>1, <1>2, <3>1, <3>3 DEF Freer
  <2> QED BY <2>1, <2>2, <2>3, <2>4 DEF Enter
<1> QED BY <1>7, <1>8, <1>9, <1>10 DEF NInv

\* At the start the ring is empty, and a call that begins waits for nobody.
LEMMA NextPasses == IInv /\ SInv /\ Stage /\ NInv /\ [Next]_vars => NInv'
<1>. SUFFICES ASSUME IInv, SInv, Stage, NInv, [Next]_vars, Running' PROVE NInv'
  BY DEF NInv, Running
<1>. Types /\ Main \notin Threads /\ Producers \subseteq Threads
  BY LogAssumption DEF IInv, Threads
<1>1. CASE SetUp \/ Start \/ Stop
  <2>1. logger_state' = "running" /\ channel_type' = "sync"
    BY DEF Running, Live
  <2>2. (LoggerStart /\ pc[Main] = "idle") \/ StartSeen
    BY <1>1, <2>1 DEF SetUp, AddLoggerToFile, AddLoggerToScreen, AddDevice, SetLoggerSync,
           LoggerStart, Start, StartSeen, StartTimeout, Stop, StopChannels, Join,
           CleanChannels, Stage, Live, threads
  <2>3. CASE LoggerStart /\ pc[Main] = "idle"
    <3>1. hold = 0 /\ Order /\ UNCHANGED <<hold, write, proc, read>>
      BY <2>3 DEF LoggerStart, Stage, IInv, Ring, ring
    <3>2. write = 0 /\ proc = 0 /\ read = 0
      BY <3>1 DEF Order, Types
    <3> QED BY <3>1, <3>2 DEF NInv, WillFill, WillPublish, WillTake, WillRelease, WillFree
  <2>4. CASE StartSeen
    BY <2>1, <2>4 DEF StartSeen, Stage, setup
  <2> QED BY <2>2, <2>3, <2>4
<1>2. ASSUME NEW t \in Producers, Log(t) PROVE NInv'
  <2>1. /\ pc[t] = "idle" /\ pc'[t] = "hold" /\ Live
        /\ UNCHANGED <<logger_state, channel_type, ring, mine, old>>
        /\ \A u \in Threads \ {t} : pc'[u] = pc[u]
    BY <1>2, GotoMoves DEF Log, At, Live, setup, Labels
  <2>2. \A u \in Threads : /\ Publisher(u) => Publisher(u)'
                           /\ Taker(u) => Taker(u)'
                           /\ Freer(u) => Freer(u)'
                           /\ pc[u] \in Filling => pc'[u] \in Filling
                           /\ pc[u] = "dispatch" => pc'[u] = "dispatch"
    BY <2>1 DEF Publisher, Taker, Freer, Filling, ring
  <2> QED BY <2>1, <2>2
          DEF NInv, Running, ring, WillFill, WillPublish, WillTake, WillRelease, WillFree
<1>3. ASSUME NEW t \in Threads, Step(t) PROVE NInv'
  <2>1. Running
    BY <1>3, StepMoves DEF Running, Live
  <2>2. ~(t = Writer /\ Wake)
    BY <2>1 DEF Running, Stage, Wake, At
  <2> QED BY <1>3, <2>1, <2>2, HoldPasses, PushPasses, EnterPasses DEF Step
<1>4. CASE UNCHANGED vars
  BY <1>4 DEF vars, setup, ring, threads, NInv, Live, WillFill, WillPublish, WillTake,
              WillRelease, WillFree, Publisher, Taker, Freer
<1> QED BY <1>1, <1>2, <1>3, <1>4 DEF Next

(***************************************************************************)
(* In a synchronous channel nobody comes back for a record: when every     *)
(* call has returned, each record is with the devices that admit it and    *)
(* every slot is free, for any number of threads and any length of ring.   *)
(***************************************************************************)
THEOREM NothingLeftBehind == Spec => []NothingStranded
<1>1. Init => NInv
  BY DEF Init, NInv, Live
<1>2. IInv /\ Stage /\ DInv /\ NInv => NothingStranded
  <2>. SUFFICES ASSUME IInv, Stage, DInv, NInv, Live, channel_type = "sync",
                       \A t \in Producers : pc[t] = "idle"
                PROVE  read = hold /\ \A d \in DOMAIN devices : ToSet(output[d]) = Due(d, hold)
    BY DEF NothingStranded
  <2>1. \A t \in Threads : pc[t] \in {"idle", "none"}
    BY DEF Stage, Threads
  <2>2. pc[Main] # "stopped"
    BY DEF Stage
  <2>. /\ Types /\ Ring /\ Recorded /\ WillFill /\ WillPublish /\ WillTake /\ WillRelease
       /\ WillFree
    BY <2>2 DEF IInv, DInv, NInv
  <2>3. \A t \in Threads : /\ ~Publisher(t) /\ ~Taker(t) /\ ~Freer(t)
                           /\ pc[t] \notin Filling /\ pc[t] # "dispatch"
    BY <2>1 DEF Publisher, Taker, Freer, Filling
  <2>4. write = hold
    <3>1. ~(write < hold)
      BY <2>3 DEF WillFill, WillPublish, Types
    <3> QED BY <3>1 DEF Ring, Order, Types
  <2>5. proc = hold
    BY <2>3, <2>4 DEF WillTake, Ring, Order, Types
  <2>6. read = hold
    <3>1. ~(read < proc)
      BY <2>3 DEF WillRelease, WillFree, Types
    <3> QED BY <2>5, <3>1 DEF Ring, Order, Types
  <2>7. ASSUME NEW d \in DOMAIN devices PROVE ToSet(output[d]) = Due(d, hold)
    <3>1. /\ Handed(d) /\ \A i \in Nat : ~Ahead(i, d)
      BY <2>2, <2>3 DEF DInv, Ahead
    <3>2. \A n \in ToSet(output[d]) : n \in 1 .. hold
      BY <2>5, <3>1 DEF Handed, ToSet
    <3>3. ASSUME NEW n \in 1 .. hold
          PROVE  n \in ToSet(output[d]) <=> n \in DOMAIN records /\ Admits(devices[d], records[n])
      <4>1. n - 1 \in Nat /\ n - 1 < hold /\ n = (n - 1) + 1
        BY DEF Types
      <4>2. n \in DOMAIN records
        BY <2>4, <4>1 DEF Recorded
      <4>3. n \in ToSet(output[d]) <=> Admits(devices[d], records[n]) /\ ~Ahead(n - 1, d)
        BY <2>5, <3>1, <4>1 DEF Handed
      <4> QED BY <3>1, <4>1, <4>2, <4>3
    <3> QED BY <3>2, <3>3 DEF Due
  <2> QED BY <2>6, <2>7
<1> QED BY InitHolds, NextKeeps, InitOwned, NextOwns, InitTyped, NextTyped, InitStage,
           NextStage, InitHanded, NextHands, <1>1, NextPasses, <1>2, PTL DEF Spec

-----------------------------------------------------------------------------
(* The files of a device                                                   *)

LEMMA SubSeqAppend ==
    ASSUME NEW s \in Seq(Nat), NEW x \in Nat, NEW a \in 0 .. Len(s)
    PROVE  /\ SubSeq(Append(s, x), a + 1, Len(s) + 1) = Append(SubSeq(s, a + 1, Len(s)), x)
           /\ \A b \in a .. Len(s) :
                 SubSeq(Append(s, x), a + 1, b) = SubSeq(s, a + 1, b)
<1>. DEFINE n == Len(s)
            t == Append(s, x)
<1>1. /\ n \in Nat /\ t \in Seq(Nat) /\ Len(t) = n + 1 /\ t[n + 1] = x
      /\ \A i \in 1 .. n : t[i] = s[i] /\ s[i] \in Nat
  BY AppendProperties, LenProperties, ElementOfSeq
<1>2. \A i \in 1 .. n + 1 : t[i] \in Nat
  BY <1>1
<1>. HIDE DEF t, n
<1>. a \in Nat /\ a <= n
  BY <1>1 DEF n
<1>3. ASSUME NEW b \in a .. n PROVE SubSeq(t, a + 1, b) = SubSeq(s, a + 1, b)
  <2>. DEFINE u == SubSeq(t, a + 1, b)
              v == SubSeq(s, a + 1, b)
  <2>1. /\ u \in Seq(Nat) /\ Len(u) = b - a
        /\ \A i \in 1 .. b - a : u[i] = t[a + i]
    <3>1. \A i \in a + 1 .. b : t[i] \in Nat
      BY <1>1, <1>2, <1>3
    <3> QED BY <1>1, <3>1, SubSeqProperties
  <2>2. /\ v \in Seq(Nat) /\ Len(v) = b - a
        /\ \A i \in 1 .. b - a : v[i] = s[a + i]
    <3>1. \A i \in a + 1 .. b : s[i] \in Nat
      BY <1>1, <1>3
    <3> QED BY <1>1, <3>1, SubSeqProperties
  <2>. HIDE DEF u, v
  <2>3. ASSUME NEW i \in 1 .. b - a PROVE u[i] = v[i]
    <3>1. a + i \in 1 .. n
      BY <1>1, <1>3
    <3> QED BY <1>1, <2>1, <2>2, <3>1
  <2>4. u = v
    BY <2>1, <2>2, <2>3, SeqEqual
  <2> QED BY <2>4 DEF u, v
<1>4. SubSeq(t, a + 1, n + 1) = Append(SubSeq(s, a + 1, n), x)
  <2>. DEFINE u == SubSeq(t, a + 1, n + 1)
              v == SubSeq(s, a + 1, n)
              w == Append(v, x)
  <2>1. /\ u \in Seq(Nat) /\ Len(u) = n + 1 - a
        /\ \A i \in 1 .. n + 1 - a : u[i] = t[a + i]
    <3>1. \A i \in a + 1 .. n + 1 : t[i] \in Nat
      BY <1>2 DEF n
    <3> QED BY <1>1, <3>1, SubSeqProperties DEF n
  <2>2. /\ v \in Seq(Nat) /\ Len(v) = n - a
        /\ \A i \in 1 .. n - a : v[i] = s[a + i]
    <3>1. \A i \in a + 1 .. n : s[i] \in Nat
      BY <1>1 DEF n
    <3> QED BY <1>1, <3>1, SubSeqProperties DEF n
  <2>3. /\ w \in Seq(Nat) /\ Len(w) = n - a + 1 /\ w[n - a + 1] = x
        /\ \A i \in 1 .. n - a : w[i] = v[i]
    BY <2>2, AppendProperties
  <2>. HIDE DEF u, v, w
  <2>4. \A i \in 1 .. Len(u) : u[i] = w[i]
    <3>1. ASSUME NEW i \in 1 .. n + 1 - a PROVE u[i] = w[i]
      <4>1. CASE i <= n - a
        <5>1. i \in 1 .. n - a /\ a + i \in 1 .. n
          BY <1>1, <4>1 DEF n
        <5> QED BY <1>1, <2>1, <2>2, <2>3, <5>1
      <4>2. CASE i = n - a + 1
        <5>1. a + i = n + 1
          BY <1>1, <4>2 DEF n
        <5> QED BY <1>1, <2>1, <2>3, <4>2, <5>1
      <4> QED BY <1>1, <4>1, <4>2
    <3> QED BY <2>1, <3>1
  <2>5. u = w
    <3>1. Len(u) = Len(w)
      BY <1>1, <2>1, <2>3
    <3> QED BY <2>1, <2>3, <2>4, <3>1, SeqEqual
  <2> QED BY <2>5 DEF u, v, w
<1> QED BY <1>3, <1>4 DEF t, n

\* A rolled file leaves its place to an empty one; of more than Rollback the
\* oldest goes.
LEMMA RolledKept ==
    ASSUME NEW f, NEW limit \in Int, FileKept(f, limit)
    PROVE  FileKept(RolledFile(f), limit) /\ RolledFile(f).text = <<>>
<1>. Rollback \in Nat \ {0}
  BY DevicesAssumption
<1>1. CASE ~f.exists
  BY <1>1 DEF RolledFile, FileKept
<1>2. CASE f.exists
  <2>. DEFINE all == <<f.text>> \o f.older
              n == IF Len(all) < Rollback THEN Len(all) ELSE Rollback
              g == RolledFile(f)
              w == f.written
  <2>1. /\ f \in Files /\ f.text \in Seq(Nat) /\ f.older \in Seq(Seq(Nat)) /\ w \in Seq(Nat)
        /\ Len(f.older) \in Nat /\ Len(w) \in Nat /\ DOMAIN f.older = 1 .. Len(f.older)
    BY LenProperties DEF FileKept, Files
  <2>2. /\ all \in Seq(Seq(Nat)) /\ Len(all) = Len(f.older) + 1
        /\ all[1] = f.text /\ \A i \in 2 .. Len(f.older) + 1 : all[i] = f.older[i - 1]
    <3>1. <<f.text>> \in Seq(Seq(Nat)) /\ Len(<<f.text>>) = 1 /\ <<f.text>>[1] = f.text
      BY <2>1
    <3> QED BY <2>1, <3>1, ConcatProperties
  <2>3. n \in Nat /\ n <= Len(f.older) + 1 /\ n <= Rollback
    BY <2>1, <2>2
  <2>. HIDE DEF all, n, w
  <2>4. /\ SubSeq(all, 1, n) \in Seq(Seq(Nat)) /\ Len(SubSeq(all, 1, n)) = n
        /\ \A i \in 1 .. n : SubSeq(all, 1, n)[i] = all[i]
    <3>1. \A i \in 1 .. n : all[i] \in Seq(Nat)
      BY <2>2, <2>3, ElementOfSeq
    <3> QED BY <2>3, <3>1, SubSeqProperties
  <2>5. g = [f EXCEPT !.exists = FALSE, !.text = <<>>, !.older = SubSeq(all, 1, n)]
    BY <1>2 DEF RolledFile, all, n
  <2>6. /\ g \in Files /\ g.text = <<>> /\ g.older = SubSeq(all, 1, n) /\ g.written = w
    BY <2>1, <2>4, <2>5, EmptySeq DEF Files, w
  <2>. HIDE DEF g
  <2>7. \A i \in DOMAIN g.older : Fits(g.older[i], limit)
    <3>1. DOMAIN g.older = 1 .. n
      BY <2>4, <2>6, LenProperties
    <3>2. ASSUME NEW i \in 1 .. n PROVE Fits(all[i], limit)
      <4>1. CASE i = 1
        BY <2>2, <4>1 DEF FileKept
      <4>2. CASE i # 1
        <5>1. i - 1 \in DOMAIN f.older /\ i \in 2 .. Len(f.older) + 1
          BY <2>1, <2>3, <4>2
        <5> QED BY <2>2, <5>1 DEF FileKept
      <4> QED BY <4>1, <4>2
    <3> QED BY <2>4, <2>6, <3>1, <3>2
  <2>8. Fits(g.text, limit)
    BY <2>6, EmptySeq, DevicesAssumption DEF Fits
  <2>9. KeepsTheLatest(g)
    <3>1. PICK cut \in [0 .. Len(f.older) -> 0 .. Len(w)] :
              /\ f.text = SubSeq(w, cut[0] + 1, Len(w))
              /\ \A i \in 1 .. Len(f.older) :
                    cut[i] <= cut[i - 1] /\ f.older[i] = SubSeq(w, cut[i] + 1, cut[i - 1])
      BY DEF FileKept, KeepsTheLatest, w
    <3>. DEFINE new == [i \in 0 .. n |-> IF i = 0 THEN Len(w) ELSE cut[i - 1]]
    <3>2. new \in [0 .. n -> 0 .. Len(w)]
      <4>1. ASSUME NEW i \in 0 .. n
            PROVE  (IF i = 0 THEN Len(w) ELSE cut[i - 1]) \in 0 .. Len(w)
        <5>1. CASE i = 0
          BY <2>1, <5>1
        <5>2. CASE i # 0
          <6>1. i - 1 \in 0 .. Len(f.older)
            BY <2>1, <2>3, <5>2
          <6>2. cut[i - 1] \in 0 .. Len(w)
            BY <3>1, <6>1
          <6> QED BY <5>2, <6>2
        <5> QED BY <5>1, <5>2
      <4> QED BY <4>1
    <3>3. g.text = SubSeq(w, new[0] + 1, Len(w))
      BY <2>1, <2>3, <2>6, SubSeqEmpty
    <3>4. ASSUME NEW i \in 1 .. n
          PROVE  new[i] <= new[i - 1] /\ g.older[i] = SubSeq(w, new[i] + 1, new[i - 1])
      <4>1. CASE i = 1
        <5>1. new[1] = cut[0] /\ new[0] = Len(w)
          BY <2>3, <4>1
        <5>2. cut[0] \in 0 .. Len(w)
          BY <2>1, <3>1
        <5>3. g.older[1] = f.text
          BY <2>2, <2>4, <2>6, <4>1
        <5>4. cut[0] <= Len(w)
          BY <2>1, <5>2
        <5>. HIDE DEF new
        <5>5. i = 1 /\ i - 1 = 0
          BY <4>1
        <5> QED BY <3>1, <5>1, <5>3, <5>4, <5>5
      <4>2. CASE i # 1
        <5>1. /\ new[i] = cut[i - 1] /\ new[i - 1] = cut[i - 2] /\ i - 1 \in 1 .. Len(f.older)
              /\ i - 1 - 1 = i - 2
          BY <2>1, <2>3, <4>2
        <5>2. g.older[i] = f.older[i - 1]
          <6>1. i \in 2 .. Len(f.older) + 1
            BY <2>1, <2>3, <4>2
          <6> QED BY <2>2, <2>4, <2>6, <6>1
        <5> QED BY <3>1, <5>1, <5>2
      <4> QED BY <4>1, <4>2
    <3> HIDE DEF new
    <3> QED BY <2>4, <2>6, <3>2, <3>3, <3>4 DEF KeepsTheLatest
  <2>10. Len(g.older) <= Rollback
    BY <2>3, <2>4, <2>6
  <2> QED BY <2>6, <2>7, <2>8, <2>9, <2>10 DEF FileKept, g
<1> QED BY <1>1, <1>2

\* Only the handle of a file changes.
LEMMA SameFile ==
    ASSUME NEW f, NEW g, NEW limit, FileKept(f, limit), g \in Files,
           g.text = f.text, g.older = f.older, g.written = f.written,
           g.exists \/ ~f.exists
    PROVE  FileKept(g, limit)
BY DEF FileKept, KeepsTheLatest

\* The file that OpenFileDevice leaves open has room for the record.
LEMMA OpenedKept ==
    ASSUME NEW f, NEW limit \in Int, NEW day \in Nat, NEW mayfail,
           FileKept(f, limit), Handle(f), NEW g \in OpenedFile(f, limit, day, mayfail)
    PROVE  /\ FileKept(g, limit) /\ Handle(g)
           /\ g.open /\ limit >= RecordLen => (Len(g.text) + 1) * RecordLen <= limit
<1>. DEFINE fresh == ~(day = f.day) \/ FileOver(f, limit)
            r == RolledFile(f)
<1>. RecordLen \in Nat \ {0}
  BY DevicesAssumption
<1>1. CASE f.open /\ ~fresh
  <2>1. g = f
    BY <1>1 DEF OpenedFile
  <2>2. f.size = Len(f.text) * RecordLen /\ Len(f.text) \in Nat
    BY <1>1, LenProperties DEF Handle, FileKept, Files
  <2>3. limit >= RecordLen => f.size + RecordLen <= limit
    BY <1>1, <2>2 DEF FileOver
  <2>4. (Len(f.text) + 1) * RecordLen = Len(f.text) * RecordLen + RecordLen
    BY <2>2, Z3
  <2> QED BY <2>1, <2>2, <2>3, <2>4
<1>2. CASE ~(f.open /\ ~fresh)
  <2>1. FileKept(r, limit) /\ r.text = <<>> /\ r \in Files /\ Len(r.text) = 0
    BY RolledKept, EmptySeq DEF FileKept
  <2>. HIDE DEF r
  <2>2. \/ g = [r EXCEPT !.open = TRUE, !.day = day, !.tried = FALSE, !.exists = TRUE,
                         !.size = 0]
        \/ g = [r EXCEPT !.open = FALSE, !.tried = TRUE, !.size = IF fresh THEN 0 ELSE @]
    BY <1>2 DEF OpenedFile, r
  <2>. HIDE DEF fresh
  <2>3. CASE g = [r EXCEPT !.open = TRUE, !.day = day, !.tried = FALSE, !.exists = TRUE,
                           !.size = 0]
    <3>1. /\ g \in Files /\ g.text = r.text /\ g.older = r.older /\ g.written = r.written
          /\ g.exists /\ g.size = 0
      BY <2>1, <2>3 DEF Files
    <3>2. FileKept(g, limit)
      BY <2>1, <3>1, SameFile
    <3>3. Len(g.text) * RecordLen = 0 /\ (Len(g.text) + 1) * RecordLen = RecordLen
      BY <2>1, <3>1
    <3> QED BY <3>1, <3>2, <3>3 DEF Handle
  <2>4. CASE g = [r EXCEPT !.open = FALSE, !.tried = TRUE, !.size = IF fresh THEN 0 ELSE @]
    <3>1. (IF fresh THEN 0 ELSE r.size) \in Nat
      BY <2>1 DEF Files
    <3>2. /\ g \in Files /\ g.text = r.text /\ g.older = r.older /\ g.written = r.written
          /\ g.exists = r.exists /\ ~g.open
      BY <2>1, <2>4, <3>1 DEF Files
    <3>3. FileKept(g, limit)
      BY <2>1, <3>2, SameFile
    <3> QED BY <3>2, <3>3 DEF Handle
  <2> QED BY <2>2, <2>3, <2>4
<1> QED BY <1>1, <1>2

\* A record that is appended is the latest, in the file and in all.
LEMMA WrittenKept ==
    ASSUME NEW f, NEW limit \in Int, NEW id \in Nat, NEW day \in Nat, NEW mayfail,
           FileKept(f, limit), Handle(f), NEW h \in WrittenFile(f, limit, id, day, mayfail)
    PROVE  FileKept(h, limit) /\ Handle(h)
<1>. RecordLen \in Nat \ {0}
  BY DevicesAssumption
<1>1. \/ h = f
      \/ \E g \in OpenedFile(f, limit, day, mayfail) :
            h = IF g.open
                THEN [g EXCEPT !.text = Append(@, id), !.size = @ + RecordLen,
                               !.written = Append(@, id)]
                ELSE g
  BY DEF WrittenFile
<1>2. ASSUME NEW g \in OpenedFile(f, limit, day, mayfail), g.open,
             h = [g EXCEPT !.text = Append(@, id), !.size = @ + RecordLen,
                           !.written = Append(@, id)]
      PROVE  FileKept(h, limit) /\ Handle(h)
  <2>. DEFINE w == g.written
  <2>1. /\ FileKept(g, limit) /\ g \in Files /\ g.exists /\ g.size = Len(g.text) * RecordLen
        /\ limit >= RecordLen => (Len(g.text) + 1) * RecordLen <= limit
    BY <1>2, OpenedKept DEF Handle, FileKept
  <2>2. /\ g.text \in Seq(Nat) /\ w \in Seq(Nat) /\ Len(g.text) \in Nat /\ Len(w) \in Nat
        /\ Append(g.text, id) \in Seq(Nat) /\ Append(w, id) \in Seq(Nat)
        /\ Len(Append(g.text, id)) = Len(g.text) + 1 /\ Len(Append(w, id)) = Len(w) + 1
        /\ g.size \in Nat
    BY <2>1, LenProperties, AppendProperties DEF Files
  <2>3. /\ h \in Files /\ h.text = Append(g.text, id) /\ h.older = g.older
        /\ h.written = Append(w, id) /\ h.exists /\ h.size = g.size + RecordLen
    <3>. DEFINE a == Append(g.text, id)
                b == Append(w, id)
                n == g.size + RecordLen
    <3>1. h = [g EXCEPT !.text = a, !.size = n, !.written = b]
      BY <1>2
    <3>2. a \in Seq(Nat) /\ b \in Seq(Nat) /\ n \in Nat
      BY <2>2
    <3>3. h \in Files /\ h.text = a /\ h.older = g.older /\ h.written = b /\ h.exists /\ h.size = n
      <4>. HIDE DEF a, b, n, w
      <4> QED BY <2>1, <3>1, <3>2 DEF Files
    <3> QED BY <3>3
  <2>4. (Len(g.text) + 1) * RecordLen = Len(g.text) * RecordLen + RecordLen
    BY <2>2, Z3
  <2>5. Handle(h) /\ Fits(h.text, limit)
    BY <2>1, <2>2, <2>3, <2>4 DEF Handle, Fits
  <2>6. KeepsTheLatest(h)
    <3>1. PICK cut \in [0 .. Len(g.older) -> 0 .. Len(w)] :
              /\ g.text = SubSeq(w, cut[0] + 1, Len(w))
              /\ \A i \in 1 .. Len(g.older) :
                    cut[i] <= cut[i - 1] /\ g.older[i] = SubSeq(w, cut[i] + 1, cut[i - 1])
      BY <2>1 DEF FileKept, KeepsTheLatest
    <3>2. Len(g.older) \in Nat
      BY <2>1, LenProperties DEF Files
    <3>3. \A i \in 0 .. Len(g.older) : cut[i] \in 0 .. Len(w)
      BY <3>1
    <3>4. cut \in [0 .. Len(h.older) -> 0 .. Len(h.written)]
      BY <2>2, <2>3, <3>1
    <3>5. h.text = SubSeq(h.written, cut[0] + 1, Len(h.written))
      <4>1. cut[0] \in 0 .. Len(w)
        BY <3>2, <3>3
      <4>2. SubSeq(Append(w, id), cut[0] + 1, Len(w) + 1)
                = Append(SubSeq(w, cut[0] + 1, Len(w)), id)
        BY <2>2, <4>1, SubSeqAppend
      <4> QED BY <2>2, <2>3, <3>1, <4>2
    <3>6. ASSUME NEW i \in 1 .. Len(h.older)
          PROVE  /\ cut[i] <= cut[i - 1]
                 /\ h.older[i] = SubSeq(h.written, cut[i] + 1, cut[i - 1])
      <4>1. i \in 1 .. Len(g.older) /\ i \in 0 .. Len(g.older) /\ i - 1 \in 0 .. Len(g.older)
        BY <2>3, <3>2
      <4>2. cut[i] \in 0 .. Len(w) /\ cut[i - 1] \in 0 .. Len(w) /\ cut[i] <= cut[i - 1]
        BY <3>1, <3>3, <4>1
      <4>3. cut[i - 1] \in cut[i] .. Len(w)
        BY <2>2, <4>2
      <4>4. SubSeq(Append(w, id), cut[i] + 1, cut[i - 1]) = SubSeq(w, cut[i] + 1, cut[i - 1])
        BY <2>2, <4>2, <4>3, SubSeqAppend
      <4> QED BY <2>3, <3>1, <4>1, <4>2, <4>4
    <3> QED BY <3>4, <3>5, <3>6 DEF KeepsTheLatest
  <2> QED BY <2>1, <2>3, <2>5, <2>6 DEF FileKept
<1> QED BY <1>1, <1>2, OpenedKept

LEMMA FilePlaces ==
    ASSUME FInv, DeviceTypes
    PROVE  /\ DOMAIN files = DOMAIN devices
           /\ \A d \in DOMAIN devices : devices[d].limit \in Int
<1>1. DOMAIN files = 1 .. Len(files) /\ DOMAIN devices = 1 .. Len(devices)
  BY LenProperties DEF FInv, DeviceTypes
<1>2. \A d \in 1 .. Len(devices) :
          devices[d] \in [out : {"file", "screen"}, level : Levels, limit : Int]
  BY ElementOfSeq DEF DeviceTypes
<1> QED BY <1>1, <1>2 DEF FInv

LEMMA NewFileKept ==
    ASSUME NEW limit \in Int
    PROVE  FileKept(NewFile, limit) /\ Handle(NewFile)
<1>1. NewFile \in Files /\ ~NewFile.open
  BY EmptySeq DEF NewFile, Files
<1>2. KeepsTheLatest(NewFile)
  <2>. PICK f : f = NewFile
    OBVIOUS
  <2>. DEFINE cut == [i \in 0 .. Len(f.older) |-> 0]
  <2>1. f.text = <<>> /\ f.older = <<>> /\ f.written = <<>> /\ Len(<<>>) = 0
    BY DEF NewFile
  <2>2. cut \in [0 .. Len(f.older) -> 0 .. Len(f.written)] /\ cut[0] = 0
    BY <2>1
  <2> HIDE DEF cut
  <2>3. f.text = SubSeq(f.written, cut[0] + 1, Len(f.written))
    BY <2>1, <2>2, SubSeqEmpty
  <2>4. \A i \in 1 .. Len(f.older) :
            cut[i] <= cut[i - 1] /\ f.older[i] = SubSeq(f.written, cut[i] + 1, cut[i - 1])
    BY <2>1
  <2>5. KeepsTheLatest(f)
    BY <2>2, <2>3, <2>4 DEF KeepsTheLatest
  <2> QED BY <2>5
<1>3. Fits(<<>>, limit)
  BY EmptySeq, DevicesAssumption DEF Fits
<1> QED BY <1>1, <1>2, <1>3, EmptySeq, DevicesAssumption DEF FileKept, Handle, NewFile

LEMMA NextFiles == IInv /\ SInv /\ TInv /\ Stage /\ DInv /\ FInv /\ [Next]_vars => FInv'
<1>. SUFFICES ASSUME IInv, SInv, TInv, Stage, DInv, FInv, [Next]_vars PROVE FInv'
  OBVIOUS
<1>. Types /\ SlotTypes /\ DeviceTypes
  BY DEF IInv, SInv, DInv
<1>1. ASSUME NEW t \in Threads, Dispatch(t) PROVE FInv'
  <2>. PICK d, id : d = dev[t] /\ id = slot[Index(mine[t])]
    OBVIOUS
  <2>1. /\ d \in DOMAIN devices /\ id \in Nat /\ DayOf[id] \in Nat /\ devices' = devices
    <3>1. /\ pc[Main] # "stopped" /\ pc[t] = "dispatch" /\ d <= Len(devices)
          /\ devices' = devices
      BY <1>1 DEF Dispatch, At, setup
    <3>2. /\ mine[t] \in Nat /\ mine[t] < proc /\ id = mine[t] + 1 /\ proc <= hold
          /\ hold <= MaxRecords
      <4>1. Ownership /\ Ring /\ Budget
        BY <3>1 DEF IInv, SInv, TInv
      <4> QED BY <3>1, <4>1, ClaimingFinite, LogAssumption
              DEF Ownership, Takes, SlotTypes, Ring, Order, Budget, Types
    <3>3. id \in 1 .. MaxRecords
      BY <3>2, LogAssumption DEF Types
    <3>4. DayOf[id] \in Nat
      BY <3>3, LogAssumption
    <3>5. d \in DOMAIN devices
      BY <3>1, DevicePlaces DEF DInv, TInv, ChannelTypes
    <3> QED BY <3>1, <3>3, <3>4, <3>5
  <2>2. \/ files' = files
        \/ \E f \in WrittenFile(files[d], devices[d].limit, id, DayOf[id], id \in OpenFails) :
              files' = [files EXCEPT ![d] = f]
    BY <1>1 DEF Dispatch
  <2>3. CASE files' = files
    BY <2>1, <2>3 DEF FInv
  <2>4. ASSUME NEW f \in WrittenFile(files[d], devices[d].limit, id, DayOf[id], id \in OpenFails),
               files' = [files EXCEPT ![d] = f]
        PROVE  FInv'
    <3>1. FileKept(f, devices[d].limit) /\ Handle(f)
      BY <2>1, FilePlaces, WrittenKept DEF FInv
    <3>2. f \in Files /\ d \in 1 .. Len(files)
      BY <2>1, <3>1, DevicePlaces DEF FileKept, FInv
    <3>3. /\ files' \in Seq(Files) /\ Len(files') = Len(files)
          /\ \A e \in 1 .. Len(files) : files'[e] = IF e = d THEN f ELSE files[e]
      BY <2>4, <3>2, ExceptSeq DEF FInv
    <3> QED BY <2>1, <3>1, <3>3, DevicePlaces DEF FInv
  <2> QED BY <2>2, <2>3, <2>4
<1>2. ASSUME NEW device, AddDevice(device) PROVE FInv'
  <2>1. /\ devices' = Append(devices, device) /\ files' = Append(files, NewFile)
    BY <1>2 DEF AddDevice
  <2>2. NewFile \in Files /\ \A limit \in Int : FileKept(NewFile, limit) /\ Handle(NewFile)
    BY NewFileKept DEF FileKept
  <2>3. /\ files' \in Seq(Files) /\ Len(files') = Len(files) + 1
        /\ \A d \in 1 .. Len(files) : files'[d] = files[d]
        /\ files'[Len(files) + 1] = NewFile
    BY <2>1, <2>2, AppendProperties DEF FInv
  <2>4. /\ Len(devices') = Len(devices) + 1 /\ DOMAIN devices' = 1 .. Len(devices) + 1
        /\ Len(devices) \in Nat /\ DOMAIN devices = 1 .. Len(devices)
        /\ \A d \in 1 .. Len(devices) : devices'[d] = devices[d]
    <3>1. /\ DOMAIN devices = 1 .. Len(devices) /\ Len(devices) \in Nat
      BY DevicePlaces
    <3> QED BY <2>1, <3>1 DEF DeviceTypes
  <2>5. \A d \in DOMAIN devices' : devices'[d].limit \in Int
    <3>1. DeviceTypes'
      BY NextHands DEF DInv
    <3>2. \A d \in 1 .. Len(devices') :
              devices'[d] \in [out : {"file", "screen"}, level : Levels, limit : Int]
      BY <3>1, ElementOfSeq DEF DeviceTypes
    <3> QED BY <2>4, <3>2
  <2> QED BY <2>2, <2>3, <2>4, <2>5 DEF FInv
<1>3. CASE CleanChannels
  <2>1. /\ files' = [d \in DOMAIN files |-> [files[d] EXCEPT !.open = FALSE]]
        /\ devices' = devices
    BY <1>3 DEF CleanChannels, setup
  <2>2. DOMAIN files = 1 .. Len(devices) /\ Len(devices) \in Nat /\ DOMAIN devices = 1 .. Len(devices)
    BY FilePlaces, DevicePlaces
  <2>3. ASSUME NEW d \in DOMAIN devices
        PROVE  files'[d] \in Files /\ FileKept(files'[d], devices[d].limit) /\ Handle(files'[d])
    <3>. DEFINE f == files[d]
                g == files'[d]
    <3>1. g = [f EXCEPT !.open = FALSE] /\ FileKept(f, devices[d].limit) /\ f \in Files
      BY <2>1, <2>2 DEF FInv, FileKept
    <3>. HIDE DEF f, g
    <3>2. /\ g \in Files /\ g.text = f.text /\ g.older = f.older /\ g.written = f.written
          /\ g.exists = f.exists /\ ~g.open
      BY <3>1 DEF Files
    <3>3. FileKept(g, devices[d].limit)
      BY <3>1, <3>2, SameFile
    <3> QED BY <3>2, <3>3 DEF Handle, g
  <2>4. files' \in Seq(Files) /\ Len(files') = Len(devices)
    <3>1. files' \in [1 .. Len(devices) -> Files]
      BY <2>1, <2>2, <2>3
    <3> QED BY <2>2, <3>1
  <2> QED BY <2>1, <2>3, <2>4 DEF FInv
<1>4. CASE UNCHANGED <<devices, files>>
  BY <1>4 DEF FInv
<1>5. \/ UNCHANGED <<devices, files>>
      \/ CleanChannels
      \/ \E device : AddDevice(device)
      \/ \E t \in Threads : Dispatch(t)
  <2>1. CASE SetUp \/ Start \/ Stop
    BY <2>1 DEF SetUp, AddLoggerToFile, AddLoggerToScreen, SetLoggerSync, LoggerStart,
           Start, StartSeen, StartTimeout, Stop, StopChannels, Join, setup, outside
  <2>2. ASSUME NEW t \in Threads, Step(t) PROVE UNCHANGED <<devices, files>> \/ Dispatch(t)
    BY <2>2 DEF Step, Hold, HoldLoad, HoldClaim, Fill, Push, PushCheck, MarkReady, WriteLoad,
           WriteReady, Publish, Enter, ProcLoad, Take, Release, ReadLoad, ReadSpent,
           ReadFree, Report, Wake, setup, outside
  <2>3. ASSUME NEW t \in Producers, Log(t) PROVE UNCHANGED <<devices, files>>
    BY <2>3 DEF Log, setup, outside
  <2>4. CASE UNCHANGED vars
    BY <2>4 DEF vars, setup, outside
  <2> QED BY <2>1, <2>2, <2>3, <2>4 DEF Next
<1> QED BY <1>1, <1>2, <1>3, <1>4, <1>5

(***************************************************************************)
(* Whatever the priorities, limits, days and opens that fail: the files of *)
(* a device hold an unbroken run of the latest records it wrote, none is   *)
(* larger than a limit that admits a record, and no more than Rollback old *)
(* ones are kept.  A channel that is stopped leaves them so.               *)
(***************************************************************************)
THEOREM LatestRecordsKept == Spec => []FilesKeepTheLatest
<1>1. Init => FInv
  BY EmptySeq DEF Init, FInv
<1>2. DInv /\ FInv => FilesKeepTheLatest
  <2>. SUFFICES ASSUME DInv, FInv, NEW d \in DOMAIN devices
                PROVE  LET f == files[d]
                       IN  /\ KeepsTheLatest(f)
                           /\ Len(f.older) <= Rollback
                           /\ devices[d].limit >= RecordLen =>
                                 \A text \in ToSet(f.older) \cup {f.text} :
                                    Len(text) * RecordLen <= devices[d].limit
    BY DEF FilesKeepTheLatest
  <2>1. FileKept(files[d], devices[d].limit)
    BY DEF FInv
  <2> QED BY <2>1 DEF FileKept, Fits, ToSet
<1> QED BY InitHolds, NextKeeps, InitOwned, NextOwns, InitTyped, NextTyped, InitStage,
           NextStage, InitHanded, NextHands, <1>1, NextFiles, <1>2, PTL DEF Spec

=============================================================================
