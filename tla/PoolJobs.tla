------------------------------ MODULE PoolJobs ------------------------------
(***************************************************************************)
(* The jobs that FileOperate and NamedPipe hand to the thread pool, of     *)
(* which they know what TaskPool promises: jobs are started in order by    *)
(* one of a number of threads, and that is all.                            *)
(*                                                                         *)
(* One thread, the caller, makes the async calls and the synchronous ones. *)
(* A text is written by one write(2); a FIFO holds all that is written to  *)
(* it.  No job closes the descriptor of its FIFO, so an end once opened    *)
(* stays open.                                                             *)
(***************************************************************************)
EXTENDS TextFile, FiniteSets

CONSTANTS
    Threads,      \* threads of the pool that run jobs
    MaxQueue,     \* the length at which the pool's queue is full
    MaxJobs,      \* bound: async calls in a behaviour
    Objects,      \* FileOperate objects
    FileOf,       \* file_name_ of each object
    TextOf,       \* write_buff_ of each object
    Chars,        \* the characters of texts
    Pipes,        \* NamedPipe objects
    OpsOf,        \* the async calls that are made on each object and pipe
    ReadFifo,     \* read_fifo_ of each pipe
    WriteFifo,    \* write_fifo_ of each pipe
    InitFile,     \* contents of each file at the start
    Unwritable,   \* files that cannot be opened for writing
    LineFiles,    \* files the caller edits by lines
    LineTexts,    \* texts of the lines it writes
    MaxEdits,     \* bound: such edits in a behaviour
    ReadMax,      \* texts that fill read_buff of a read
    Mixed,        \* a string read while it is assigned
    Overrun,      \* what follows read_buff in memory
    Idle          \* the caller is in no call

Files == DOMAIN InitFile
Fifos == {ReadFifo[p] : p \in Pipes} \cup {WriteFifo[p] : p \in Pipes}

FileOps == {"readAll", "writeAll", "append"}
PipeOps == {"fifoRead", "fifoWrite"}

\* The line functions take no lock, but no object has these files.
ASSUME FilesAssumption ==
    /\ \A o \in Objects : FileOf[o] \in Files \ LineFiles /\ OpsOf[o] \subseteq FileOps
    /\ LineFiles \subseteq Files \ Unwritable
    /\ \A p \in Pipes : OpsOf[p] \subseteq PipeOps

ASSUME TextAssumption ==
    /\ Absent \notin Seq(Chars)
    /\ \A o \in Objects : TextOf[o] \in Seq(Chars)
                         /\ InitFile[FileOf[o]] \in Seq(Chars) \cup {Absent}

\* The line functions are given texts of one line.
ASSUME LinesAssumption ==
    /\ \A t \in LineTexts : t \in Seq(Chars \ {NL})
    /\ \A f \in LineFiles : InitFile[f] \in Seq(Chars \cup {NL}) \cup {Absent}

ASSUME BoundsAssumption ==
    Threads \in Nat \ {0} /\ MaxQueue \in Nat \ {0} /\ MaxJobs \in Nat /\ ReadMax \in Nat \ {0}

VARIABLES
    pending, running, finished, accepted,   \* of TaskPool
    job,      \* what each accepted job is, in the order of their numbers
    at,       \* where each job is
    owner,    \* the job that holds file_lock_ of each object, 0 for none
    file,     \* contents of each file
    got,      \* what each job passed to readCallBack
    edits,    \* edits by lines so far
    call,     \* the asyncFifoWrite the caller is in
    buff,     \* write_buff_ of each pipe: the number of the text, 0 for ""
    texts,    \* texts passed to asyncFifoWrite so far
    stream,   \* all that was ever written to each FIFO
    taken,    \* how much of it was read
    ends,     \* the ends of each FIFO that were opened
    made      \* the FIFOs that exist

pool  == <<pending, running, finished, accepted>>
jobs  == <<job, at>>
disk  == <<owner, file, edits>>
pipe  == <<call, buff, texts>>
fifo  == <<stream, taken, ends, made>>
vars  == <<pool, jobs, disk, got, pipe, fifo>>

Pool == INSTANCE TaskPool

Init ==
    /\ Pool!Init
    /\ job = <<>> /\ at = <<>> /\ got = <<>>
    /\ owner = [o \in Objects |-> 0]
    /\ file = InitFile
    /\ edits = 0
    /\ call = Idle
    /\ buff = [p \in Pipes |-> 0]
    /\ texts = 0
    /\ stream = [f \in Fifos |-> <<>>]
    /\ taken = [f \in Fifos |-> 0]
    /\ ends = [f \in Fifos |-> {}]
    /\ made \in {{}, Fifos}     \* an earlier program may have made them

-----------------------------------------------------------------------------
(* The caller *)

\* Bound: a behaviour edits lines or makes async calls, which share no file.
MoreJobs == accepted < MaxJobs /\ texts <= MaxJobs /\ edits = 0
MoreEdits == edits < MaxEdits /\ accepted = 0 /\ texts = 0

\* addThreadPoolTask, which blocks while the queue is full.
Submit(op, obj) ==
    /\ MoreJobs
    /\ Pool!Accept
    /\ job' = Append(job, [op |-> op, obj |-> obj])
    /\ at' = Append(at, "queued")
    /\ got' = Append(got, <<>>)

\* The calls that write refuse an object with an empty text.
AsyncFile(o) ==
    /\ call = Idle
    /\ \E op \in OpsOf[o] :
           /\ op # "readAll" => TextOf[o] # <<>>
           /\ Submit(op, o)
    /\ UNCHANGED <<disk, pipe, fifo>>

AsyncFifoRead(p) ==
    /\ call = Idle
    /\ "fifoRead" \in OpsOf[p]
    /\ Submit("fifoRead", p)
    /\ UNCHANGED <<disk, pipe, fifo>>

\* asyncFifoWrite assigns write_buff_ without a lock, while a job of an
\* earlier call may read it ...
AsyncFifoWrite(p) ==
    /\ call = Idle
    /\ "fifoWrite" \in OpsOf[p]
    /\ MoreJobs
    /\ texts' = texts + 1
    /\ call' = [pipe |-> p, assigned |-> FALSE]
    /\ UNCHANGED <<pool, jobs, got, disk, buff, fifo>>

Assign ==
    /\ call # Idle /\ ~call.assigned
    /\ buff' = [buff EXCEPT ![call.pipe] = texts]
    /\ call' = [call EXCEPT !.assigned = TRUE]
    /\ UNCHANGED <<pool, jobs, got, disk, texts, fifo>>

\* Mutant: leaves the text to a job of an earlier call that has not ended.
SubmitUnlessBusy ==
    /\ call # Idle /\ call.assigned
    /\ call' = Idle
    /\ IF \E n \in running : job[n] = [op |-> "fifoWrite", obj |-> call.pipe]
          THEN UNCHANGED <<pool, jobs, got>>
          ELSE Submit("fifoWrite", call.pipe)
    /\ UNCHANGED <<disk, buff, texts, fifo>>

\* ... and then adds the job.
SubmitWrite ==
    /\ call # Idle /\ call.assigned
    /\ Submit("fifoWrite", call.pipe)
    /\ call' = Idle
    /\ UNCHANGED <<disk, buff, texts, fifo>>

\* fifoCreate: the second FIFO is not made if the first exists already.
FifoCreate(p) ==
    /\ call = Idle
    /\ ReadFifo[p] \notin made
    /\ made' = made \cup {ReadFifo[p], WriteFifo[p]}
    /\ UNCHANGED <<pool, jobs, got, disk, pipe, stream, taken, ends>>

EditLine(f, id, text) ==
    /\ call = Idle
    /\ MoreEdits
    /\ file[f] # Absent
    /\ file' = [file EXCEPT ![f] = WithLine(@, id, text)]
    /\ edits' = edits + 1
    /\ UNCHANGED <<pool, jobs, got, owner, pipe, fifo>>

-----------------------------------------------------------------------------
(* A thread of the pool runs a job.  What a job returns, the pool ignores.  *)

\* The thread goes on to the next point of job n, or to its end.
Goto(n, label) ==
    /\ at' = [at EXCEPT ![n] = label]
    /\ UNCHANGED <<pool, job>>

At(n, op, label) == n \in running /\ job[n].op = op /\ at[n] = label

StartJob ==
    /\ Cardinality(running) < Threads
    /\ Pool!Start
    /\ at' = [at EXCEPT ![Head(pending)] = "started"]
    /\ UNCHANGED <<job, got, disk, pipe, fifo>>

Callback(n) ==
    /\ n \in running /\ at[n] \in {"callback", "failed"}
    /\ running' = running \ {n}
    /\ finished' = finished \cup {n}
    /\ at' = [at EXCEPT ![n] = IF @ = "failed" THEN @ ELSE "called"]
    /\ UNCHANGED <<pending, accepted, job, got, disk, pipe, fifo>>

LockFile(n) ==
    /\ n \in running /\ at[n] = "started" /\ job[n].op \in FileOps
    /\ owner[job[n].obj] = 0
    /\ owner' = [owner EXCEPT ![job[n].obj] = n]
    /\ Goto(n, "locked")
    /\ UNCHANGED <<got, file, edits, pipe, fifo>>

\* The last step under file_lock_, which it releases.
Unlock(n) ==
    /\ owner' = [owner EXCEPT ![job[n].obj] = 0]
    /\ Goto(n, "callback")

\* Mutant: returns without unlocking when there is no file.
ReadAllHolding(n) ==
    /\ At(n, "readAll", "locked")
    /\ got' = [got EXCEPT ![n] = Base(file[FileOf[job[n].obj]])]
    /\ owner' = IF file[FileOf[job[n].obj]] = Absent THEN owner ELSE [owner EXCEPT ![job[n].obj] = 0]
    /\ Goto(n, "callback")
    /\ UNCHANGED <<file, edits, pipe, fifo>>

\* A file that cannot be opened is read as if it were empty.
ReadAll(n) ==
    /\ At(n, "readAll", "locked")
    /\ got' = [got EXCEPT ![n] = Base(file[FileOf[job[n].obj]])]
    /\ Unlock(n)
    /\ UNCHANGED <<file, edits, pipe, fifo>>

\* Contents after a write that may not have been able to open the file.
Written(f, contents) ==
    IF f \in Unwritable THEN file ELSE [file EXCEPT ![f] = contents]

\* Mutant: releases the lock before close() has written the buffer.
TruncateUnlocked(n) ==
    /\ At(n, "writeAll", "locked")
    /\ file' = Written(FileOf[job[n].obj], <<>>)
    /\ owner' = [owner EXCEPT ![job[n].obj] = 0]
    /\ Goto(n, "opened")
    /\ UNCHANGED <<got, edits, pipe, fifo>>

\* ofstream(file_name, out) truncates the file; close() writes the buffer.
Truncate(n) ==
    /\ At(n, "writeAll", "locked")
    /\ file' = Written(FileOf[job[n].obj], <<>>)
    /\ Goto(n, "opened")
    /\ UNCHANGED <<got, owner, edits, pipe, fifo>>

WriteAll(n) ==
    /\ At(n, "writeAll", "opened")
    /\ LET o == job[n].obj IN
           file' = Written(FileOf[o], Overlay(file[FileOf[o]], TextOf[o]))
    /\ Unlock(n)
    /\ UNCHANGED <<got, edits, pipe, fifo>>

\* O_APPEND: the text goes to wherever the end of the file is then.
AppendText(n) ==
    /\ At(n, "append", "locked")
    /\ LET o == job[n].obj IN
           file' = Written(FileOf[o], Base(file[FileOf[o]]) \o TextOf[o])
    /\ Unlock(n)
    /\ UNCHANGED <<got, edits, pipe, fifo>>

\* The FIFO a job opens, and the end.
EndOf(n) == IF job[n].op = "fifoRead" THEN <<ReadFifo[job[n].obj], "read">>
            ELSE <<WriteFifo[job[n].obj], "write">>

\* open(2) of one end of a FIFO waits for the other end to be opened.
OpenFifo(n) ==
    /\ n \in running /\ at[n] = "started" /\ job[n].op \in PipeOps
    /\ LET f == EndOf(n)[1] IN
           IF f \in made
           THEN ends' = [ends EXCEPT ![f] = @ \cup {EndOf(n)[2]}] /\ Goto(n, "opening")
           ELSE UNCHANGED ends /\ Goto(n, "failed")
    /\ UNCHANGED <<got, disk, pipe, stream, taken, made>>

BothOpen(f) == ends[f] = {"read", "write"}

\* What write(fd, c_str(), size()) may find in write_buff_: an assignment that
\* goes on at the same time is a data race.
Texts(p) ==
    {buff[p]} \cup (IF call # Idle /\ call.pipe = p /\ ~call.assigned THEN {texts, Mixed} ELSE {})

WriteFifoText(n) ==
    /\ At(n, "fifoWrite", "opening")
    /\ LET p == job[n].obj  f == WriteFifo[p] IN
           /\ BothOpen(f)
           /\ \E t \in Texts(p) : stream' = [stream EXCEPT ![f] = Append(@, t)]
    /\ Goto(n, "callback")
    /\ UNCHANGED <<got, disk, pipe, taken, ends, made>>

\* read(2) waits for data and takes all there is, or as much as fits.  A full
\* read_buff has no 0 at its end, and the string made of it goes on behind it.
ReadFifoTexts(n) ==
    /\ At(n, "fifoRead", "opening")
    /\ LET f == ReadFifo[job[n].obj]
           left == SubSeq(stream[f], taken[f] + 1, Len(stream[f]))
           k == IF Len(left) < ReadMax THEN Len(left) ELSE ReadMax IN
           /\ BothOpen(f) /\ left # <<>>
           /\ taken' = [taken EXCEPT ![f] = @ + k]
           /\ got' = [got EXCEPT ![n] = SubSeq(left, 1, k) \o (IF k = ReadMax THEN <<Overrun>> ELSE <<>>)]
    /\ Goto(n, "callback")
    /\ UNCHANGED <<disk, pipe, stream, ends, made>>

-----------------------------------------------------------------------------
Caller ==
    \/ \E o \in Objects : AsyncFile(o)
    \/ \E p \in Pipes : AsyncFifoRead(p) \/ AsyncFifoWrite(p) \/ FifoCreate(p)

InCall == Assign \/ SubmitWrite

\* Edit with a text of one line, in the file or just past its end.
Edit == \E f \in LineFiles : \E id \in 0..Len(Lines(file[f])) + 1, t \in LineTexts :
            EditLine(f, id, t)

Run(n) ==
    \/ Callback(n)
    \/ LockFile(n) \/ ReadAll(n) \/ Truncate(n) \/ WriteAll(n) \/ AppendText(n)
    \/ OpenFifo(n) \/ WriteFifoText(n) \/ ReadFifoTexts(n)

Next == Caller \/ InCall \/ Edit \/ StartJob \/ (\E n \in running : Run(n))

Spec == Init /\ [][Next]_vars

\* The threads of the pool run, callbacks return, and a call once made goes on.
\* Nobody has to make another.
FairSpec ==
    /\ Spec
    /\ WF_vars(InCall) /\ WF_vars(StartJob)
    /\ \A n \in 1..MaxJobs : WF_vars(n \in running /\ Run(n))

-----------------------------------------------------------------------------
(* Properties *)

Calls == [op : FileOps, obj : Objects] \cup [op : PipeOps, obj : Pipes]

Served == {FileOf[o] : o \in Objects}
FileJobs == {n \in 1..accepted : job[n].op \in FileOps}

\* The jobs of one object serialise by its lock, those of two objects with the
\* same file do not: files used in full order are those of one object or those
\* that are only appended to.
Orderly(f) ==
    LET users == {o \in Objects : FileOf[o] = f} IN
        (\A o, p \in users : o = p) \/ \A o \in users : "writeAll" \notin OpsOf[o]

\* A job's write of f is under way.
Opened(f) == \E n \in FileJobs : at[n] = "opened" /\ FileOf[job[n].obj] = f

\* The jobs that have taken effect, as far as the program can tell.
Done == {n \in FileJobs : at[n] \in {"opened", "callback", "called"}}

UserOf(f) == CHOOSE o \in Objects : FileOf[o] = f

\* The text in file f as the program will see it.
TextIn(f) ==
    IF Orderly(f) /\ f \notin Unwritable /\ Opened(f)
    THEN TextOf[UserOf(f)]
    ELSE Base(file[f])

InitText == [f \in Served |-> Base(InitFile[f])]
Shared   == {f \in Served : ~Orderly(f)}
Contents == [f \in Served |-> TextIn(f)]
Seen     == [n \in Done |-> got[n]]
Answered == finished \cap FileJobs

Atomic == INSTANCE AtomicFiles WITH
    called <- job, contents <- Contents, seen <- Seen, answered <- Answered

\* Reads and writes of an orderly file go as if the jobs ran one by one, each
\* between its call and its callback: no read sees a file that is truncated
\* and not yet written, no append is lost.  In a file shared by objects that
\* rewrite it, texts may overwrite each other, but it never starts with half
\* of one.
OneByOne == Atomic!Spec

\* Line id of c, counted by the newlines before it.
LineOf(c, id) ==
    LET here == {i \in DOMAIN c : c[i] # NL
                    /\ Cardinality({j \in 1..i : c[j] = NL}) = id - 1}
    IN  IF here = {} THEN <<>>
        ELSE LET first == CHOOSE i \in here : \A j \in here : i <= j
             IN  SubSeq(c, first, first + Cardinality(here) - 1)

\* Whatever line_num starts from, a line that exists is read as it is or not
\* at all (FileOperate.cpp:28), and only where it starts from 0 is every line
\* there to be read.  An edit changes the line it names and no other: it
\* neither adds lines nor runs two together.
LineCalls ==
    \A f \in LineFiles : LET c == file[f]  n == Len(Lines(c)) IN \A id \in 1..n :
        /\ \A garbage \in {-n, -1, 0, 1} :
               LET r == ReadLine(c, id, garbage) IN
                   /\ r.ok => r.text = LineOf(c, id)
                   /\ garbage >= 0 => r.ok
        /\ \A t \in LineTexts :
               LET edited == WithLine(c, id, t) IN
                   /\ Cardinality({i \in DOMAIN edited : edited[i] = NL}) = n
                   /\ \A k \in 1..n : LineOf(edited, k) = IF k = id THEN t ELSE LineOf(c, k)

\* Every thread of the pool waits for the other end of a FIFO, or for data.
AllHeld == Cardinality({n \in running : at[n] = "opening"}) = Threads

\* A job on a file ends, unless pipe jobs hold all threads for ever.
FileJobsEnd == \A n \in 1..MaxJobs : n \in FileJobs ~> (n \in finished \/ []AllHeld)

\* Texts passed to asyncFifoWrite may be lost when the next call overwrites
\* write_buff_, but the last one is written, to a FIFO that exists and has a
\* reader, unless pipe jobs hold all threads for ever.
LastTextWritten ==
    \A p \in Pipes : LET f == WriteFifo[p] IN
        (call = Idle /\ buff[p] # 0 /\ "read" \in ends[f])
            ~> \/ call = Idle /\ \E i \in DOMAIN stream[f] : stream[f][i] = buff[p]
               \/ \E n \in 1..accepted : at[n] = "failed" /\ EndOf(n)[1] = f
               \/ []AllHeld
=============================================================================
