----------------------------- MODULE LogChannel -----------------------------
(***************************************************************************)
(* The log every thread of the program writes to: Logger.cpp sets one      *)
(* channel and its devices up and starts it, and LogStream puts each       *)
(* record through FNLog's ring of slots.  A thread claims a slot           *)
(* (HoldChannel), fills it, marks it ready and moves write_idx over the    *)
(* ready slots (PushChannel); EnterProcChannel hands the slots before      *)
(* write_idx to the devices and moves read_idx over the ones it is done    *)
(* with.  In a synchronous channel every thread that has pushed runs       *)
(* EnterProcChannel itself; in an asynchronous one a thread of its own     *)
(* does.  None of it takes a lock but the writing to a device.             *)
(*                                                                         *)
(* A step is one access to what the threads share, except that loading an  *)
(* index and comparing it with the next one are one step: the next index   *)
(* only moves away from it, and a compare_exchange on the loaded index     *)
(* comes before anything that depends on its being current.                *)
(*                                                                         *)
(* hold, write, proc and read count how often each index has moved, so     *)
(* that the index of the code is the count modulo BufferLen, and what      *)
(* compare_exchange compares are the remainders.                           *)
(***************************************************************************)
EXTENDS LogDevices, FiniteSets

CONSTANTS
    Producers,     \* the threads that log
    Writer,        \* the thread of an asynchronous channel
    Main,          \* the thread that sets up, starts and stops the logger
    BufferLen,     \* slots of the ring
    Priority,      \* the priority each producer logs with
    Levels,        \* device levels the setup may ask for
    LimitSizes,    \* limit_size arguments the setup may use
    MaxDevices,    \* bound: devices set up
    MaxRecords,    \* bound: records of a run
    DayOf,         \* the day of the timestamp each record gets
    OpenFails      \* bound: the records at which a file may fail to open

ASSUME LogAssumption ==
    /\ IsFiniteSet(Producers)
    /\ Writer \notin Producers /\ Main \notin Producers /\ Writer # Main
    /\ BufferLen \in Nat \ {0, 1}
    /\ Priority \in [Producers -> Nat]
    /\ Levels \subseteq Nat
    /\ LimitSizes \subseteq Nat \ {0}
    /\ {MaxDevices, MaxRecords} \subseteq Nat
    /\ DayOf \in [1 .. MaxRecords -> Nat \ {0}]
    /\ OpenFails \subseteq 1 .. MaxRecords

Threads == Producers \cup {Writer}
Slots   == 0 .. BufferLen - 1

VARIABLES
    logger_state,    \* "uninit", "initing", "running", "closing"
    channel_type,    \* "async" or "sync"
    channel_state,   \* "null", "running", "waiting", "finish"
    devices,         \* the devices, each [out, level, limit]
    hold, write, proc, read,    \* how often each index of the ring moved
    mark,            \* data_mark_ of each slot: "invalid", "hold", "ready"
    slot,            \* the id of the record in each slot, 0 before the first
    pc,              \* where each thread is
    mine,            \* the count at which each thread claimed or took a slot
    old,             \* the index, as a count, that each thread has loaded
    dev,             \* the device each dispatching thread is at
    output,          \* the ids handed to each device, in order
    files,           \* the file behind each device
    records          \* history: the priority of each record, by its id

setup   == <<channel_type, devices>>
ring    == <<hold, write, proc, read, mark, slot>>
threads == <<pc, mine, old, dev>>
outside == <<output, files, records>>
vars == <<logger_state, setup, channel_state, ring, threads, outside>>

Index(count) == count % BufferLen

\* The channel is in the life it was started for.
Live == logger_state = "running"

\* The thread is at place, and the process has not ended.
At(t, place) == pc[t] = place /\ pc[Main] # "stopped"

\* The thread goes on at place.
Goto(t, place) == pc' = [pc EXCEPT ![t] = place]

-----------------------------------------------------------------------------
(* Setting up: the calls of Logger.cpp before loggerStart.                 *)

Init ==
    /\ logger_state = "uninit" /\ channel_state = "null"
    /\ channel_type = "async"
    /\ devices = <<>> /\ output = <<>> /\ files = <<>>
    /\ hold = 0 /\ write = 0 /\ proc = 0 /\ read = 0
    /\ mark = [s \in Slots |-> "invalid"]
    /\ slot = [s \in Slots |-> 0]
    /\ pc = [t \in Threads \cup {Main} |-> IF t = Writer THEN "none" ELSE "idle"]
    /\ mine = [t \in Threads |-> 0]
    /\ old = [t \in Threads |-> 0]
    /\ dev = [t \in Threads |-> 0]
    /\ records = <<>>

AddDevice(device) ==
    /\ pc[Main] = "idle" /\ logger_state = "uninit"
    /\ Len(devices) < MaxDevices
    /\ devices' = Append(devices, device)
    /\ output' = Append(output, <<>>)
    /\ files' = Append(files, NewFile)
    /\ UNCHANGED <<logger_state, channel_type, channel_state, ring, threads, records>>

AddLoggerToFile ==
    \E l \in Levels, n \in LimitSizes :
        AddDevice([out |-> "file", level |-> l, limit |-> LimitOf(n)])

AddLoggerToScreen ==
    \E l \in Levels : AddDevice([out |-> "screen", level |-> l, limit |-> 0])

SetLoggerSync ==
    /\ pc[Main] = "idle" /\ logger_state = "uninit"
    /\ channel_type' = "sync"
    /\ UNCHANGED <<logger_state, devices, channel_state, ring, threads, outside>>

\* loggerStart: StartLogger up to the start of the channel's thread.
LoggerStart ==
    /\ pc[Main] = "idle" /\ logger_state = "uninit"
    /\ Len(devices) = MaxDevices
    /\ IF channel_type = "sync"
       THEN /\ channel_state' = "running"
            /\ logger_state' = "running"
            /\ Goto(Main, "started")
       ELSE /\ logger_state' = "initing"
            /\ pc' = [pc EXCEPT ![Main] = "starting", ![Writer] = "proc"]
            /\ UNCHANGED channel_state
    /\ UNCHANGED <<setup, ring, mine, old, dev, outside>>

\* StartChannels has seen the thread run.
StartSeen ==
    /\ pc[Main] = "starting" /\ channel_state = "running"
    /\ logger_state' = "running"
    /\ Goto(Main, "started")
    /\ UNCHANGED <<setup, channel_state, ring, mine, old, dev, outside>>

\* StartChannels has waited a second in vain: StopChannels joins the thread,
\* whose channel_state is still CHANNEL_STATE_NULL.
StartTimeout ==
    /\ pc[Main] = "starting" /\ channel_state = "null"
    /\ Goto(Main, "gaveup")
    /\ UNCHANGED <<logger_state, setup, channel_state, ring, mine, old, dev,
                   outside>>

-----------------------------------------------------------------------------
(* A producer: HoldChannel, the stream, PushChannel.                       *)

Claiming == {t \in Producers : pc[t] \in {"hold", "claim"}}

\* A thread builds a LogStream and HoldChannel lets it through.
Log(t) ==
    /\ At(t, "idle")
    /\ logger_state = "running" /\ channel_state = "running"
    /\ hold + Cardinality(Claiming) < MaxRecords
    /\ Goto(t, "hold")
    /\ UNCHANGED <<logger_state, setup, channel_state, ring, mine, old, dev,
                   outside>>

\* Mutant: the caller does not look at what HoldChannel returned.
HoldLoadUnchecked(t) ==
    /\ At(t, "hold")
    /\ IF channel_state = "running"
       THEN /\ Index(hold + 1) # Index(read)
            /\ old' = [old EXCEPT ![t] = hold]
            /\ Goto(t, "claim") /\ UNCHANGED mine
       ELSE Goto(t, "fill") /\ mine' = [mine EXCEPT ![t] = -10] /\ UNCHANGED old
    /\ UNCHANGED <<logger_state, setup, channel_state, ring, dev, outside>>

\* Mutant: the last free slot is given away too.
HoldLoadFull(t) ==
    /\ At(t, "hold")
    /\ Goto(t, IF channel_state = "running" THEN "claim" ELSE "idle")
    /\ old' = [old EXCEPT ![t] = hold]
    /\ UNCHANGED <<logger_state, setup, channel_state, ring, mine, dev, outside>>

\* A round of HoldChannel: the channel must still run; on a full ring the
\* thread sleeps and begins again.
HoldLoad(t) ==
    /\ At(t, "hold")
    /\ IF channel_state = "running"
       THEN /\ Index(hold + 1) # Index(read)
            /\ old' = [old EXCEPT ![t] = hold]
            /\ Goto(t, "claim")
       ELSE Goto(t, "idle") /\ UNCHANGED old
    /\ UNCHANGED <<logger_state, setup, channel_state, ring, mine, dev, outside>>

\* Threads that have loaded an index and will compare it again, by the index.
LoadedHold  == {t \in Threads : pc[t] = "claim"}
LoadedWrite == {t \in Threads : pc[t] \in {"ready", "publish"}}
LoadedProc  == {t \in Threads : pc[t] = "take"}
LoadedRead  == {t \in Threads : pc[t] \in {"spent", "free"}}

\* No thread that has loaded the index sleeps while it goes once round the
\* ring: the assumption under which compare_exchange on an index is sound.
Prompt(count, loaded) == \A t \in loaded : count + 1 - old[t] < BufferLen

HoldClaim(t) ==
    /\ At(t, "claim")
    /\ IF Index(hold) = Index(old[t])
       THEN /\ Prompt(hold, LoadedHold \ {t})
            /\ hold' = hold + 1
            /\ mine' = [mine EXCEPT ![t] = old[t]]
            /\ Goto(t, "fill")
       ELSE Goto(t, "hold") /\ UNCHANGED <<hold, mine>>
    /\ UNCHANGED <<logger_state, setup, channel_state, write, proc, read, mark,
                   slot, old, dev, outside>>

\* The slot is marked held and the record is written into it.
Fill(t) ==
    /\ At(t, "fill")
    /\ LET s == Index(mine[t])
       IN  /\ mark' = [mark EXCEPT ![s] = "hold"]
           /\ slot' = [slot EXCEPT ![s] = mine[t] + 1]
    /\ records' = [i \in DOMAIN records \cup {mine[t] + 1} |->
                      IF i = mine[t] + 1 THEN Priority[t] ELSE records[i]]
    /\ Goto(t, "push")
    /\ UNCHANGED <<logger_state, setup, channel_state, hold, write, proc, read,
                   mine, old, dev, output, files>>

\* PushChannel drops the record, slot and all, when the channel has stopped.
PushCheck(t) ==
    /\ At(t, "push")
    /\ Goto(t, IF channel_state = "running" THEN "ripe" ELSE "idle")
    /\ UNCHANGED <<logger_state, setup, channel_state, ring, mine, old, dev,
                   outside>>

MarkReady(t) ==
    /\ At(t, "ripe")
    /\ mark' = [mark EXCEPT ![Index(mine[t])] = "ready"]
    /\ Goto(t, "write")
    /\ UNCHANGED <<logger_state, setup, channel_state, hold, write, proc, read,
                   slot, mine, old, dev, outside>>

\* After the loop of PushChannel: in a synchronous channel the thread goes on
\* to EnterProcChannel.
Pushed == IF channel_type = "sync" /\ channel_state = "running" THEN "proc" ELSE "idle"

WriteLoad(t) ==
    /\ At(t, "write")
    /\ IF Index(write) = Index(hold)
       THEN Goto(t, Pushed) /\ UNCHANGED old
       ELSE Goto(t, "ready") /\ old' = [old EXCEPT ![t] = write]
    /\ UNCHANGED <<logger_state, setup, channel_state, ring, mine, dev, outside>>

WriteReady(t) ==
    /\ At(t, "ready")
    /\ Goto(t, IF mark[Index(old[t])] # "ready" THEN Pushed ELSE "publish")
    /\ UNCHANGED <<logger_state, setup, channel_state, ring, mine, old, dev,
                   outside>>

\* Mutant: only one slot is moved over, as if each thread pushed its own.
PublishOnce(t) ==
    /\ At(t, "publish")
    /\ write' = IF Index(write) = Index(old[t]) THEN write + 1 ELSE write
    /\ Goto(t, IF write' = write THEN "write" ELSE Pushed)
    /\ UNCHANGED <<logger_state, setup, channel_state, hold, proc, read, mark,
                   slot, mine, old, dev, outside>>

Publish(t) ==
    /\ At(t, "publish")
    /\ IF Index(write) = Index(old[t])
       THEN /\ Prompt(write, LoadedWrite \ {t})
            /\ write' = write + 1
       ELSE UNCHANGED write
    /\ Goto(t, IF channel_state = "running" THEN "write" ELSE Pushed)
    /\ UNCHANGED <<logger_state, setup, channel_state, hold, proc, read, mark,
                   slot, mine, old, dev, outside>>

-----------------------------------------------------------------------------
(* EnterProcChannel: by a producer that has pushed, or by the writer.      *)

ProcLoad(t) ==
    /\ At(t, "proc")
    /\ IF Index(proc) = Index(write)
       THEN Goto(t, "tail") /\ UNCHANGED old
       ELSE Goto(t, "take") /\ old' = [old EXCEPT ![t] = proc]
    /\ UNCHANGED <<logger_state, setup, channel_state, ring, mine, dev, outside>>

\* Mutant: proc_idx is stored without a comparison, as only one thread gets
\* the record.
TakeStored(t) ==
    /\ At(t, "take")
    /\ proc' = old[t] + 1
    /\ mine' = [mine EXCEPT ![t] = old[t]]
    /\ dev' = [dev EXCEPT ![t] = 1]
    /\ Goto(t, "dispatch")
    /\ UNCHANGED <<logger_state, setup, channel_state, hold, write, read, mark,
                   slot, old, outside>>

\* The branch that fails is the one of another thread that took the slot.
Take(t) ==
    /\ At(t, "take")
    /\ IF Index(proc) = Index(old[t])
       THEN /\ Prompt(proc, LoadedProc \ {t})
            /\ proc' = proc + 1
            /\ mine' = [mine EXCEPT ![t] = old[t]]
            /\ dev' = [dev EXCEPT ![t] = 1]
            /\ Goto(t, "dispatch")
       ELSE Goto(t, "tail") /\ UNCHANGED <<proc, mine, dev>>
    /\ UNCHANGED <<logger_state, setup, channel_state, hold, write, read, mark,
                   slot, old, outside>>

\* DispatchLog for one device, under the lock of the devices.
Dispatch(t) ==
    /\ At(t, "dispatch")
    /\ dev[t] <= Len(devices)
    /\ LET d  == dev[t]
           id == slot[Index(mine[t])]
       IN  IF Admits(devices[d], records[id])
           THEN /\ output' = [output EXCEPT ![d] = Append(@, id)]
                /\ IF devices[d].out = "file"
                   THEN \E f \in WrittenFile(files[d], devices[d].limit, id,
                                             DayOf[id], id \in OpenFails) :
                            files' = [files EXCEPT ![d] = f]
                   ELSE UNCHANGED files
           ELSE UNCHANGED <<output, files>>
    /\ dev' = [dev EXCEPT ![t] = @ + 1]
    /\ UNCHANGED <<logger_state, setup, channel_state, ring, pc, mine, old,
                   records>>

\* The slot is given back: its mark is cleared.
Release(t) ==
    /\ At(t, "dispatch")
    /\ dev[t] > Len(devices)
    /\ mark' = [mark EXCEPT ![Index(mine[t])] = "invalid"]
    /\ Goto(t, "read")
    /\ UNCHANGED <<logger_state, setup, channel_state, hold, write, proc, read,
                   slot, mine, old, dev, outside>>

ReadLoad(t) ==
    /\ At(t, "read")
    /\ IF Index(read) = Index(proc)
       THEN Goto(t, "proc") /\ UNCHANGED old
       ELSE Goto(t, "spent") /\ old' = [old EXCEPT ![t] = read]
    /\ UNCHANGED <<logger_state, setup, channel_state, ring, mine, dev, outside>>

\* Mutant: slots that another thread still hands out are given back too.
ReadSpentAny(t) ==
    /\ At(t, "spent")
    /\ Goto(t, "free")
    /\ UNCHANGED <<logger_state, setup, channel_state, ring, mine, old, dev, outside>>

ReadSpent(t) ==
    /\ At(t, "spent")
    /\ Goto(t, IF mark[Index(old[t])] # "invalid" THEN "proc" ELSE "free")
    /\ UNCHANGED <<logger_state, setup, channel_state, ring, mine, old, dev, outside>>

ReadFree(t) ==
    /\ At(t, "free")
    /\ IF Index(read) = Index(old[t])
       THEN /\ Prompt(read, LoadedRead \ {t})
            /\ read' = read + 1
       ELSE UNCHANGED read
    /\ Goto(t, "read")
    /\ UNCHANGED <<logger_state, setup, channel_state, hold, write, proc, mark,
                   slot, mine, old, dev, outside>>

\* After the records: the thread of an asynchronous channel reports that it
\* runs, and sleeps.
Report(t) ==
    /\ At(t, "tail")
    /\ channel_state' = IF channel_state = "null" THEN "running" ELSE channel_state
    /\ Goto(t, IF channel_type = "sync" THEN "idle" ELSE "sleep")
    /\ UNCHANGED <<logger_state, setup, ring, mine, old, dev, outside>>

\* Mutant: the thread ends as soon as it finds the ring empty.
WakeIdle ==
    /\ At(Writer, "sleep")
    /\ IF channel_state = "running" /\ Index(write) # Index(read)
       THEN Goto(Writer, "proc") /\ UNCHANGED channel_state
       ELSE Goto(Writer, "none") /\ channel_state' = "finish"
    /\ UNCHANGED <<logger_state, setup, ring, mine, old, dev, outside>>

\* Mutant: it waits for the slots that are claimed, not for those pushed.
WakeHeld ==
    /\ At(Writer, "sleep")
    /\ IF channel_state = "running" \/ Index(hold) # Index(read)
       THEN Goto(Writer, "proc") /\ UNCHANGED channel_state
       ELSE Goto(Writer, "none") /\ channel_state' = "finish"
    /\ UNCHANGED <<logger_state, setup, ring, mine, old, dev, outside>>

Wake ==
    /\ At(Writer, "sleep")
    /\ IF channel_state = "running" \/ Index(write) # Index(read)
       THEN Goto(Writer, "proc") /\ UNCHANGED channel_state
       ELSE Goto(Writer, "none") /\ channel_state' = "finish"
    /\ UNCHANGED <<logger_state, setup, ring, mine, old, dev, outside>>

-----------------------------------------------------------------------------
(* Stopping: StopLogger, called by the destructor of the default logger    *)
(* when main has returned.  The other threads go on until the process      *)
(* ends.                                                                   *)

StopChannels ==
    /\ pc[Main] \in {"started", "gaveup"}
    /\ logger_state' = IF pc[Main] = "started" THEN "closing" ELSE logger_state
    /\ channel_state' = CASE channel_type = "sync" -> "null"
                          [] channel_state = "running" -> "waiting"
                          [] OTHER -> channel_state
    /\ Goto(Main, CASE pc[Main] = "gaveup" -> "joinfail"
                    [] channel_type = "sync" -> "clean"
                    [] OTHER -> "join")
    /\ UNCHANGED <<setup, ring, mine, old, dev, outside>>

\* The writer has ended.  After a start that failed, loggerStart returns.
Join ==
    /\ pc[Main] \in {"join", "joinfail"}
    /\ pc[Writer] = "none"
    /\ channel_state' = "null"
    /\ IF pc[Main] = "join"
       THEN Goto(Main, "clean") /\ UNCHANGED logger_state
       ELSE Goto(Main, "failed") /\ logger_state' = "uninit"
    /\ UNCHANGED <<setup, ring, mine, old, dev, outside>>

\* CleanChannels, and the files are closed.
CleanChannels ==
    /\ pc[Main] = "clean"
    /\ mark' = [s \in Slots |-> IF \E i \in read .. write - 1 : Index(i) = s
                               THEN "invalid" ELSE mark[s]]
    /\ hold' = 0 /\ write' = 0 /\ proc' = 0 /\ read' = 0
    /\ files' = [d \in DOMAIN files |-> [files[d] EXCEPT !.open = FALSE]]
    /\ logger_state' = "uninit"
    /\ Goto(Main, "stopped")
    /\ UNCHANGED <<setup, channel_state, slot, mine, old, dev, output, records>>

-----------------------------------------------------------------------------
Hold(t)  == HoldLoad(t) \/ HoldClaim(t) \/ Fill(t)
Push(t)  == \/ PushCheck(t) \/ MarkReady(t)
            \/ WriteLoad(t) \/ WriteReady(t) \/ Publish(t)
Enter(t) == \/ ProcLoad(t) \/ Take(t) \/ Dispatch(t) \/ Release(t)
            \/ ReadLoad(t) \/ ReadSpent(t) \/ ReadFree(t)
            \/ Report(t)

\* A step of a thread inside the logger.
Step(t) == Enter(t) \/ (t \in Producers /\ (Hold(t) \/ Push(t))) \/ (t = Writer /\ Wake)

SetUp == AddLoggerToFile \/ AddLoggerToScreen \/ SetLoggerSync \/ LoggerStart
Start == StartSeen \/ StartTimeout
Stop  == StopChannels \/ Join \/ CleanChannels

Next ==
    \/ SetUp \/ Start \/ Stop
    \/ \E t \in Producers : Log(t)
    \/ \E t \in Threads : Step(t)

\* Threads go on; whether the program logs or exits is its own affair.
Fairness ==
    /\ \A t \in Threads : WF_vars(Step(t))
    /\ WF_vars(StartSeen) /\ WF_vars(Join) /\ WF_vars(CleanChannels)
    /\ WF_vars(StopChannels /\ pc[Main] = "gaveup")

Spec == Init /\ [][Next]_vars /\ Fairness

-----------------------------------------------------------------------------
TypeOK ==
    /\ logger_state \in {"uninit", "initing", "running", "closing"}
    /\ channel_type \in {"async", "sync"}
    /\ channel_state \in {"null", "running", "waiting", "finish"}
    /\ {hold, write, proc, read} \subseteq Nat
    /\ mark \in [Slots -> {"invalid", "hold", "ready"}]
    /\ slot \in [Slots -> 0 .. MaxRecords]
    /\ \A t \in Threads : {mine[t], old[t], dev[t]} \subseteq Nat

\* While the logger runs the four indices keep their order round the ring and
\* one slot stays free: HoldChannel never claims, and the loop on read_idx_
\* never gives back, a slot another thread still needs.
RingOrder ==
    Live => /\ read <= proc /\ proc <= write /\ write <= hold
            /\ hold < read + BufferLen

\* A slot has one user, the thread between HoldChannel and PushChannel or the
\* one in DispatchLog, and that one finds the record it took, complete, though
\* no lock guards the slot.
OneUser ==
    Live =>
        LET Using(t) == pc[t] \in {"fill", "push", "ripe", "dispatch"}
        IN  \A t \in Threads : Using(t) =>
               /\ \A u \in Threads \ {t} :
                     Using(u) => Index(mine[t]) # Index(mine[u])
               /\ pc[t] = "dispatch" => /\ mark[Index(mine[t])] = "ready"
                                        /\ slot[Index(mine[t])] = mine[t] + 1

\* What device d has to get of the first n records.
Due(d, n) == {i \in 1 .. n : i \in DOMAIN records /\ Admits(devices[d], records[i])}

\* In a synchronous channel there is nobody to come back for a record: when
\* every call of the logger has returned, every record is with its devices and
\* every slot is free, whichever threads pushed and handed out the slots.
NothingStranded ==
    Live /\ channel_type = "sync" /\ (\A t \in Producers : pc[t] = "idle")
        => /\ read = hold
           /\ \A d \in DOMAIN devices : ToSet(output[d]) = Due(d, hold)

\* No record reaches a device twice, although every thread of a synchronous
\* channel takes from the ring; through the one thread of an asynchronous
\* channel records arrive in the order in which they were claimed.
OnceEach ==
    Live => \A d \in DOMAIN devices :
        \A i, j \in DOMAIN output[d] : i < j =>
            IF channel_type = "async" THEN output[d][i] < output[d][j]
            ELSE output[d][i] # output[d][j]

\* The files of a file device hold an unbroken run of the latest records it
\* wrote, over rotations by size and by day and opens that failed, and none
\* is larger than the limit.
FilesKeepTheLatest ==
    \A d \in DOMAIN devices :
        LET f == files[d]
        IN  /\ KeepsTheLatest(f)
            /\ Len(f.older) <= Rollback
            /\ devices[d].limit >= RecordLen =>
                  \A text \in ToSet(f.older) \cup {f.text} :
                      Len(text) * RecordLen <= devices[d].limit

\* The devices that are to get record i have it.
Reached(i) == \A d \in DOMAIN devices : i \in Due(d, i) => i \in ToSet(output[d])

\* Records that have been written into their slots reach their devices as
\* long as the logger is not stopped: no slot is waited for that nobody will
\* mark, and no thread leaves a record to one that has already looked.
Delivered ==
    (\E i \in DOMAIN records : ~Reached(i))
        ~> (~Live \/ \A i \in DOMAIN records : Reached(i))

\* StopLogger, which the destructor of the default logger calls when main has
\* returned, comes to its end: the writer's thread ends although producers may
\* keep slots they claimed and never push.
StopReturns == (pc[Main] = "join") ~> (pc[Main] = "stopped")
=============================================================================
