--------------------------- MODULE PoolJobsProofs ---------------------------
(***************************************************************************)
(* The jobs on files go as if they ran one by one: PoolJobs implements     *)
(* AtomicFiles, however many threads the pool has and whatever the jobs on *)
(* pipes and the line functions do meanwhile.  And the line functions read *)
(* and write the line they are asked for.                                  *)
(***************************************************************************)
EXTENDS PoolJobs, SequenceLemmas, FiniteSetTheorems

-----------------------------------------------------------------------------
(* The inductive invariant.                                                *)

Labels ==
    {"queued", "started", "locked", "opened", "opening", "callback", "called", "failed"}

JobTypes ==
    /\ accepted \in Nat
    /\ job \in Seq(Calls) /\ Len(job) = accepted
    /\ at \in Seq(Labels) /\ Len(at) = accepted

FileTypes ==
    /\ DOMAIN file = Files
    /\ \A f \in Served : file[f] \in Seq(Chars) \cup {Absent}
    /\ DOMAIN owner = Objects

PipeTypes ==
    /\ call = Idle \/ call \in [pipe : Pipes, assigned : BOOLEAN]
    /\ buff \in [Pipes -> Nat] /\ texts \in Nat
    /\ stream \in [Fifos -> Seq(Nat \cup {Mixed})] /\ taken \in [Fifos -> Nat]

\* What a callback may be shown.
Shown == Seq(Chars \cup Nat \cup {Mixed, Overrun})

GotTypes == got \in Seq(Shown) /\ Len(got) = accepted

Types == JobTypes /\ FileTypes /\ PipeTypes /\ GotTypes

\* The queue holds the newest jobs, none of them has started, and a job that
\* has finished is not started again.
Numbered ==
    /\ pending \in Seq(Nat)
    /\ Len(pending) <= accepted
    /\ \A i \in 1 .. Len(pending) : pending[i] = accepted - Len(pending) + i
    /\ \A n \in 1 .. accepted : n > accepted - Len(pending) => at[n] = "queued"
    /\ running \subseteq 1 .. accepted - Len(pending)
    /\ \A n \in finished : n \in 1 .. accepted /\ at[n] \in {"called", "failed"}

\* A job that has its file open has the lock of its object, and no job but
\* it knows of a file of that object that is truncated.
FileJobState(n) ==
    /\ job[n].op \in OpsOf[job[n].obj]
    /\ at[n] # "failed"
    /\ at[n] \in {"locked", "opened"} => owner[job[n].obj] = n
    /\ job[n].op # "readAll" => got[n] = <<>>
    /\ at[n] = "opened" =>
          /\ job[n].op = "writeAll"
          /\ LET f == FileOf[job[n].obj] IN
                 f \notin Unwritable => file[f] # Absent /\ (Orderly(f) => file[f] = <<>>)

Locked == \A n \in FileJobs : FileJobState(n)

Inv == Types /\ Numbered /\ Locked

-----------------------------------------------------------------------------
(* Files and their texts.                                                  *)

LEMMA OpsDiffer == FileOps \cap PipeOps = {}
  BY DEF FileOps, PipeOps

\* A job on a file is one of a FileOperate object.
LEMMA FileJobObject ==
  ASSUME JobTypes, NEW n \in FileJobs
  PROVE  /\ job[n].op \in FileOps /\ job[n].obj \in Objects
         /\ FileOf[job[n].obj] \in Served
<1>1. n \in 1 .. Len(job) /\ job[n].op \in FileOps
  BY DEF JobTypes, FileJobs
<1>2. job[n] \in Calls
  BY <1>1, ElementOfSeq DEF JobTypes
<1>3. job[n] \in [op : FileOps, obj : Objects]
  BY <1>1, <1>2, OpsDiffer DEF Calls
<1>. QED
  BY <1>1, <1>3 DEF Served

LEMMA RunningFileJob ==
  ASSUME JobTypes, Numbered, NEW n \in running, job[n].op \in FileOps
  PROVE  n \in FileJobs
  BY DEF JobTypes, Numbered, FileJobs

LEMMA ServedFiles == Served \subseteq Files \ LineFiles
  BY FilesAssumption DEF Served

\* A text that is written to an empty file is all there is in it.
LEMMA OverlayEmpty ==
  ASSUME NEW t \in Seq(Chars)
  PROVE  Overlay(<<>>, t) = t
<1>1. SubSeq(<<>>, Len(t) + 1, Len(<<>>)) = <<>>
  OBVIOUS
<1>. QED
  BY <1>1, ConcatEmptySeq DEF Overlay

LEMMA OverlayText ==
  ASSUME NEW c \in Seq(Chars), NEW t \in Seq(Chars)
  PROVE  Overlay(c, t) \in Seq(Chars) /\ IsPrefix(t, Overlay(c, t))
<1>. DEFINE rest == SubSeq(c, Len(t) + 1, Len(c))
<1>1. rest \in Seq(Chars)
  OBVIOUS
<1>. HIDE DEF rest
<1>2. t \o rest \in Seq(Chars) /\ Len(t) <= Len(t \o rest)
  BY <1>1, ConcatProperties
<1>3. SubSeq(t, 1, Len(t)) = SubSeq(t \o rest, 1, Len(t))
  BY <1>1, SubSeqOfConcat1, SubSeqFull
<1>. QED
  BY <1>2, <1>3 DEF Overlay, IsPrefix, rest
-----------------------------------------------------------------------------
(* The steps, as far as the jobs on files are concerned.                   *)

\* A call made.
Submits(c) ==
    /\ c \in Calls
    /\ c.op \in FileOps => c.op \in OpsOf[c.obj]
    /\ accepted' = accepted + 1 /\ pending' = Append(pending, accepted + 1)
    /\ job' = Append(job, c) /\ at' = Append(at, "queued") /\ got' = Append(got, <<>>)
    /\ UNCHANGED <<running, finished, owner, file, stream, taken, buff, texts>>
    /\ call' \in {call, Idle}

\* A step of job n, which goes from one point to another.
Moves(n, from, to) ==
    /\ n \in running /\ at[n] = from
    /\ at' = [at EXCEPT ![n] = to]
    /\ UNCHANGED <<accepted, pending, job>>

Calmly == UNCHANGED <<accepted, pending, running, finished, job, at, got, owner>>

\* What the proofs use of a submission.
LEMMA SubmitEffect ==
  ASSUME NEW op, NEW obj, Submit(op, obj), [op |-> op, obj |-> obj] \in Calls,
         op \in FileOps => op \in OpsOf[obj],
         UNCHANGED <<owner, file, stream, taken, buff, texts>>, call' \in {call, Idle}
  PROVE  Submits([op |-> op, obj |-> obj])
  BY DEF Submit, Submits, Pool!Accept

LEMMA CallerEffect ==
  ASSUME Types, Caller \/ InCall \/ Edit
  PROVE  \/ \E c \in Calls : Submits(c)
         \/ /\ Calmly /\ PipeTypes'
            /\ \A f \in Served : file'[f] = file[f]
            /\ DOMAIN file' = DOMAIN file
<1>1. ASSUME NEW o \in Objects, AsyncFile(o) PROVE \E c \in Calls : Submits(c)
  <2>1. PICK op \in OpsOf[o] : Submit(op, o)
    BY <1>1 DEF AsyncFile
  <2>2. op \in FileOps
    BY FilesAssumption
  <2>3. [op |-> op, obj |-> o] \in Calls
    BY <2>2 DEF Calls
  <2>. QED
    BY <1>1, <2>1, <2>3, SubmitEffect DEF AsyncFile, disk, pipe, fifo
<1>2. ASSUME NEW p \in Pipes, AsyncFifoRead(p) PROVE \E c \in Calls : Submits(c)
  <2>1. "fifoRead" \in PipeOps \ FileOps
    BY DEF PipeOps, FileOps
  <2>2. [op |-> "fifoRead", obj |-> p] \in Calls
    BY <2>1 DEF Calls
  <2>. QED
    BY <1>2, <2>1, <2>2, SubmitEffect DEF AsyncFifoRead, disk, pipe, fifo
<1>3. ASSUME SubmitWrite PROVE \E c \in Calls : Submits(c)
  <2>1. "fifoWrite" \in PipeOps \ FileOps
    BY DEF PipeOps, FileOps
  <2>2. call.pipe \in Pipes
    BY <1>3 DEF SubmitWrite, Types, PipeTypes
  <2>3. [op |-> "fifoWrite", obj |-> call.pipe] \in Calls
    BY <2>1, <2>2 DEF Calls
  <2>. QED
    BY <1>3, <2>1, <2>3, SubmitEffect DEF SubmitWrite, disk, fifo
<1>4. ASSUME NEW p \in Pipes, AsyncFifoWrite(p)
      PROVE  Calmly /\ PipeTypes' /\ file' = file
  BY <1>4 DEF AsyncFifoWrite, Calmly, Types, PipeTypes, pool, jobs, disk, fifo
<1>5. ASSUME NEW p \in Pipes, FifoCreate(p)
      PROVE  Calmly /\ PipeTypes' /\ file' = file
  BY <1>5 DEF FifoCreate, Calmly, Types, PipeTypes, pool, jobs, disk, pipe
<1>6. ASSUME Assign
      PROVE  Calmly /\ PipeTypes' /\ file' = file
  BY <1>6 DEF Assign, Calmly, Types, PipeTypes, pool, jobs, disk, fifo
<1>7. ASSUME NEW f \in LineFiles, NEW id, NEW text, EditLine(f, id, text)
      PROVE  /\ Calmly /\ PipeTypes'
             /\ \A g \in Served : file'[g] = file[g]
             /\ DOMAIN file' = DOMAIN file
  <2>1. Calmly /\ PipeTypes'
    BY <1>7 DEF EditLine, Calmly, Types, PipeTypes, pool, jobs, pipe, fifo
  <2>2. PICK c : file' = [file EXCEPT ![f] = c]
    BY <1>7 DEF EditLine
  <2>. QED
    BY <2>1, <2>2, ServedFiles DEF Types, FileTypes
<1>. QED
  BY <1>1, <1>2, <1>3, <1>4, <1>5, <1>6, <1>7 DEF Caller, InCall, Edit



-----------------------------------------------------------------------------
(* The invariant is kept.                                                  *)

LEMMA InvInit == Init => Inv
<1>. SUFFICES ASSUME Init PROVE Inv
  OBVIOUS
<1>1. accepted = 0 /\ pending = <<>> /\ running = {} /\ finished = {}
  BY DEF Init, Pool!Init
<1>2. JobTypes /\ GotTypes
  BY <1>1, EmptySeq DEF Init, JobTypes, GotTypes
<1>3. FileTypes
  BY TextAssumption DEF Init, FileTypes, Files, Served
<1>4. PipeTypes
  BY EmptySeq DEF Init, PipeTypes
<1>5. Numbered
  BY <1>1, EmptySeq DEF Numbered
<1>6. Locked
  BY <1>1 DEF Locked, FileJobs
<1>. QED
  BY <1>2, <1>3, <1>4, <1>5, <1>6 DEF Inv, Types

\* A step that leaves the jobs, their locks and their files alone.
LEMMA CalmInv ==
  ASSUME Inv, Calmly, PipeTypes',
         \A f \in Served : file'[f] = file[f], DOMAIN file' = DOMAIN file
  PROVE  Inv'
<1>1. FileJobs' = FileJobs
  BY DEF Calmly, FileJobs
<1>2. JobTypes' /\ FileTypes' /\ GotTypes'
  BY DEF Calmly, Inv, Types, JobTypes, FileTypes, GotTypes
<1>3. Numbered'
  BY DEF Calmly, Inv, Numbered
<1>4. ASSUME NEW n \in FileJobs PROVE FileJobState(n)'
  BY <1>4, FileJobObject DEF Calmly, Inv, Types, Locked, FileJobState
<1>. QED
  BY <1>1, <1>2, <1>3, <1>4 DEF Inv, Types, Locked

\* What a submission leaves of the numbers and points of earlier jobs.
LEMMA SubmitJobs ==
  ASSUME Inv, NEW c, Submits(c)
  PROVE  /\ JobTypes' /\ GotTypes'
         /\ \A n \in 1 .. accepted : job'[n] = job[n] /\ at'[n] = at[n] /\ got'[n] = got[n]
         /\ job'[accepted + 1] = c /\ at'[accepted + 1] = "queued" /\ got'[accepted + 1] = <<>>
<1>. accepted \in Nat /\ Len(job) = accepted /\ Len(at) = accepted /\ Len(got) = accepted
  BY DEF Inv, Types, JobTypes, GotTypes
<1>1. /\ job' \in Seq(Calls) /\ Len(job') = accepted + 1
      /\ \A n \in 1 .. accepted : job'[n] = job[n]
      /\ job'[accepted + 1] = c
  BY AppendProperties DEF Submits, Inv, Types, JobTypes
<1>2. "queued" \in Labels
  BY DEF Labels
<1>3. /\ at' \in Seq(Labels) /\ Len(at') = accepted + 1
      /\ \A n \in 1 .. accepted : at'[n] = at[n]
      /\ at'[accepted + 1] = "queued"
  BY <1>2, AppendProperties DEF Submits, Inv, Types, JobTypes
<1>4. <<>> \in Shown
  BY EmptySeq DEF Shown
<1>5. /\ got' \in Seq(Shown) /\ Len(got') = accepted + 1
      /\ \A n \in 1 .. accepted : got'[n] = got[n]
      /\ got'[accepted + 1] = <<>>
  BY <1>4, AppendProperties DEF Submits, Inv, Types, GotTypes
<1>6. accepted' = accepted + 1
  BY DEF Submits
<1>. QED
  BY <1>1, <1>3, <1>5, <1>6 DEF JobTypes, GotTypes

LEMMA SubmitInv ==
  ASSUME Inv, NEW c, Submits(c)
  PROVE  Inv'
<1>1. accepted \in Nat
  BY DEF Inv, Types, JobTypes
<1>2. FileTypes' /\ PipeTypes'
  BY DEF Submits, Inv, Types, FileTypes, PipeTypes
<1>3. Numbered'
  <2>1. /\ pending' \in Seq(Nat) /\ Len(pending') = Len(pending) + 1 /\ Len(pending) \in Nat
        /\ \A i \in 1 .. Len(pending) : pending'[i] = pending[i]
        /\ pending'[Len(pending) + 1] = accepted + 1
    BY <1>1, AppendProperties, LenProperties DEF Submits, Inv, Numbered
  <2>2. accepted' = accepted + 1 /\ running' = running /\ finished' = finished
    BY DEF Submits
  <2>. PICK k \in Nat : k = Len(pending) /\ k <= accepted
    BY <2>1 DEF Inv, Numbered
  <2>3. \A i \in 1 .. Len(pending') : pending'[i] = accepted' - Len(pending') + i
    <3>1. SUFFICES ASSUME NEW i \in 1 .. k + 1 PROVE pending'[i] = accepted - k + i
      BY <1>1, <2>1, <2>2
    <3>2. CASE i = k + 1
      BY <1>1, <2>1, <3>2
    <3>3. CASE i \in 1 .. k
      <4>1. pending[i] = accepted - k + i
        BY <3>3 DEF Inv, Numbered
      <4>. QED
        BY <2>1, <3>3, <4>1
    <3>. QED
      BY <3>2, <3>3
  <2>4. \A n \in 1 .. accepted' : n > accepted' - Len(pending') => at'[n] = "queued"
    <3>1. SUFFICES ASSUME NEW n \in 1 .. accepted + 1, n > accepted - k PROVE at'[n] = "queued"
      BY <1>1, <2>1, <2>2
    <3>2. CASE n = accepted + 1
      BY <3>2, SubmitJobs
    <3>3. CASE n \in 1 .. accepted
      BY <3>1, <3>3, SubmitJobs DEF Inv, Numbered
    <3>. QED
      BY <1>1, <3>2, <3>3
  <2>5. running' \subseteq 1 .. accepted' - Len(pending')
    BY <1>1, <2>1, <2>2 DEF Inv, Numbered
  <2>6. \A n \in finished' : n \in 1 .. accepted' /\ at'[n] \in {"called", "failed"}
    BY <1>1, <2>2, SubmitJobs DEF Inv, Numbered
  <2>. QED
    BY <1>1, <2>1, <2>2, <2>3, <2>4, <2>5, <2>6 DEF Inv, Numbered
<1>4. Locked'
  <2>1. SUFFICES ASSUME NEW n \in FileJobs' PROVE FileJobState(n)'
    BY DEF Locked
  <2>2. CASE n = accepted + 1
    BY <1>1, <2>1, <2>2, SubmitJobs DEF FileJobs, FileJobState, Submits
  <2>3. CASE n # accepted + 1
    <3>1. n \in 1 .. accepted
      BY <1>1, <2>1, <2>3 DEF FileJobs, Submits
    <3>2. n \in FileJobs
      BY <2>1, <3>1, SubmitJobs DEF FileJobs
    <3>. QED
      BY <3>1, <3>2, SubmitJobs DEF Inv, Locked, FileJobState, Submits
  <2>. QED
    BY <2>2, <2>3
<1>. QED
  BY <1>2, <1>3, <1>4, SubmitJobs DEF Inv, Types

LEMMA StartEffect ==
  ASSUME Inv, StartJob
  PROVE  /\ Head(pending) \in 1 .. accepted /\ at[Head(pending)] = "queued"
         /\ at' = [at EXCEPT ![Head(pending)] = "started"]
         /\ JobTypes'
         /\ at'[Head(pending)] = "started"
         /\ \A n \in 1 .. accepted : n # Head(pending) => at'[n] = at[n]
<1>1. pending # <<>> /\ at' = [at EXCEPT ![Head(pending)] = "started"]
      /\ UNCHANGED <<accepted, job>>
  BY DEF StartJob, Pool!Start
<1>2. Len(pending) \in Nat \ {0} /\ Len(pending) <= accepted /\ accepted \in Nat
  BY <1>1, EmptySeq DEF Inv, Numbered, Types, JobTypes
<1>3. Head(pending) = accepted - Len(pending) + 1
  BY <1>1, <1>2 DEF Inv, Numbered
<1>4. Head(pending) \in 1 .. accepted /\ at[Head(pending)] = "queued"
  BY <1>2, <1>3 DEF Inv, Numbered
<1>5. PICK h \in 1 .. accepted : h = Head(pending)
  BY <1>4
<1>6. "started" \in Labels
  BY DEF Labels
<1>7. /\ at' \in Seq(Labels) /\ Len(at') = accepted
      /\ \A n \in 1 .. accepted : at'[n] = IF n = h THEN "started" ELSE at[n]
  BY <1>1, <1>5, <1>6, ExceptSeq DEF Inv, Types, JobTypes
<1>. QED
  BY <1>1, <1>4, <1>5, <1>7 DEF JobTypes, Inv, Types

LEMMA StartInv ==
  ASSUME Inv, StartJob
  PROVE  Inv'
<1>. DEFINE h == Head(pending)
<1>1. /\ UNCHANGED <<accepted, finished, job, got, owner, file, call, buff, texts, stream, taken>>
      /\ pending # <<>> /\ pending' = Tail(pending) /\ running' = running \cup {h}
  BY DEF StartJob, Pool!Start, disk, pipe, fifo
<1>2. Len(pending) \in Nat \ {0} /\ Len(pending) <= accepted /\ accepted \in Nat
  BY <1>1, EmptySeq DEF Inv, Numbered, Types, JobTypes
<1>3. h = accepted - Len(pending) + 1
  BY <1>1, <1>2 DEF Inv, Numbered
<1>4. FileTypes' /\ PipeTypes' /\ GotTypes'
  BY <1>1 DEF Inv, Types, FileTypes, PipeTypes, GotTypes
<1>5. Numbered'
  <2>1. /\ pending' \in Seq(Nat) /\ Len(pending') = Len(pending) - 1
        /\ \A i \in 1 .. Len(pending') : pending'[i] = pending[i + 1]
    BY <1>1, HeadTailProperties DEF Inv, Numbered
  <2>. PICK k \in Nat \ {0} : k = Len(pending) /\ k <= accepted /\ h = accepted - k + 1
    BY <1>2, <1>3
  <2>. HIDE DEF h
  <2>2. \A i \in 1 .. Len(pending') : pending'[i] = accepted' - Len(pending') + i
    BY <1>1, <1>2, <2>1 DEF Inv, Numbered
  <2>3. \A n \in 1 .. accepted' : n > accepted' - Len(pending') => at'[n] = "queued"
    <3>1. SUFFICES ASSUME NEW n \in 1 .. accepted, n > accepted - k + 1 PROVE at'[n] = "queued"
      BY <1>1, <1>2, <2>1
    <3>2. n # h /\ at[n] = "queued"
      BY <1>2, <3>1 DEF Inv, Numbered
    <3>. QED
      BY <3>1, <3>2, StartEffect DEF h
  <2>4. running' \subseteq 1 .. accepted' - Len(pending')
    <3>1. running \subseteq 1 .. accepted - k
      BY DEF Inv, Numbered
    <3>2. running' \subseteq 1 .. accepted - k + 1
      <4>1. h \in 1 .. accepted - k + 1 /\ 1 .. accepted - k \subseteq 1 .. accepted - k + 1
        BY <1>2
      <4>. QED
        BY <1>1, <3>1, <4>1
    <3>. QED
      BY <1>1, <1>2, <2>1, <3>2
  <2>5. \A n \in finished' : n \in 1 .. accepted' /\ at'[n] \in {"called", "failed"}
    <3>1. SUFFICES ASSUME NEW n \in finished PROVE n \in 1 .. accepted /\ at'[n] \in {"called", "failed"}
      BY <1>1
    <3>2. n \in 1 .. accepted /\ at[n] \in {"called", "failed"}
      BY DEF Inv, Numbered
    <3>. QED
      BY <3>2, StartEffect
  <2>. QED
    BY <1>1, <1>2, <2>1, <2>2, <2>3, <2>4, <2>5 DEF Numbered
<1>6. Locked'
  <2>1. SUFFICES ASSUME NEW n \in FileJobs' PROVE FileJobState(n)'
    BY DEF Locked
  <2>2. n \in FileJobs /\ n \in 1 .. accepted
    BY <1>1, <2>1 DEF FileJobs
  <2>3. CASE n = h
    BY <1>1, <2>2, <2>3, StartEffect DEF Inv, Locked, FileJobState
  <2>4. CASE n # h
    BY <1>1, <2>2, <2>4, StartEffect DEF Inv, Locked, FileJobState
  <2>. QED
    BY <2>3, <2>4
<1>. QED
  BY <1>4, <1>5, <1>6, StartEffect DEF Inv, Types

-----------------------------------------------------------------------------
(* A thread goes on with a job.                                            *)

LEMMA MoveJobs ==
  ASSUME Inv, NEW n, NEW from \in {"started", "locked", "opened", "opening"},
         NEW to \in Labels \ {"queued"}, Moves(n, from, to),
         UNCHANGED <<running, finished>>
  PROVE  /\ JobTypes' /\ Numbered'
         /\ n \in 1 .. accepted /\ at'[n] = to
         /\ \A m \in 1 .. accepted : m # n => at'[m] = at[m]
         /\ FileJobs' = FileJobs
<1>1. /\ n \in running /\ at[n] = from /\ at' = [at EXCEPT ![n] = to]
      /\ UNCHANGED <<accepted, pending, job, running, finished>>
  BY DEF Moves
<1>2. accepted \in Nat /\ pending \in Seq(Nat) /\ Len(pending) \in Nat /\ Len(pending) <= accepted
  BY DEF Inv, Types, JobTypes, Numbered
<1>3. n \in 1 .. accepted /\ n \in 1 .. accepted - Len(pending)
  BY <1>1, <1>2 DEF Inv, Numbered
<1>4. /\ at' \in Seq(Labels) /\ Len(at') = accepted
      /\ \A m \in 1 .. accepted : at'[m] = IF m = n THEN to ELSE at[m]
  BY <1>1, <1>3, ExceptSeq DEF Inv, Types, JobTypes
<1>5. JobTypes'
  BY <1>1, <1>4 DEF Inv, Types, JobTypes
<1>6. \A m \in 1 .. accepted : m > accepted - Len(pending) => at'[m] = "queued"
  <2>1. SUFFICES ASSUME NEW m \in 1 .. accepted, m > accepted - Len(pending)
                 PROVE  at'[m] = "queued"
    OBVIOUS
  <2>2. m # n /\ at[m] = "queued"
    BY <1>2, <1>3, <2>1 DEF Inv, Numbered
  <2>. QED
    BY <1>4, <2>2
<1>7. \A m \in finished : m \in 1 .. accepted /\ at'[m] \in {"called", "failed"}
  BY <1>1, <1>4 DEF Inv, Numbered
<1>8. Numbered'
  BY <1>1, <1>6, <1>7 DEF Inv, Numbered
<1>. QED
  BY <1>1, <1>3, <1>4, <1>5, <1>8 DEF FileJobs

\* Between LockFile and Unlock a job is alone with its object, and in an
\* orderly file that is being rewritten with the file.
LEMMA AloneWithObject ==
  ASSUME Inv, NEW m \in FileJobs, NEW n \in FileJobs,
         at[m] \in {"locked", "opened"}, at[n] \in {"locked", "opened"},
         job[m].obj = job[n].obj
  PROVE  m = n
  BY DEF Inv, Locked, FileJobState

LEMMA AloneWithFile ==
  ASSUME Inv, NEW m \in FileJobs, NEW n \in FileJobs,
         at[m] = "opened", at[n] \in {"locked", "opened"},
         FileOf[job[m].obj] = FileOf[job[n].obj], Orderly(FileOf[job[m].obj])
  PROVE  m = n
<1>1. job[m].obj \in Objects /\ job[n].obj \in Objects
  BY FileJobObject DEF Inv, Types
<1>2. "writeAll" \in OpsOf[job[m].obj]
  BY DEF Inv, Locked, FileJobState
<1>3. job[m].obj = job[n].obj
  BY <1>1, <1>2 DEF Orderly
<1>. QED
  BY <1>3, AloneWithObject

\* The jobs that a step of job n does not disturb.
LEMMA OtherJob ==
  ASSUME Inv, NEW m \in FileJobs, job' = job, at'[m] = at[m], got'[m] = got[m],
         at[m] \in {"locked", "opened"} => owner'[job[m].obj] = owner[job[m].obj],
         at[m] = "opened" =>
            LET f == FileOf[job[m].obj] IN
                \/ file'[f] = file[f]
                \/ ~Orderly(f) /\ file'[f] # Absent
  PROVE  FileJobState(m)'
<1>1. FileJobState(m)
  BY DEF Inv, Locked
<1>. QED
  BY <1>1 DEF FileJobState

\* The lock that n gives back is not one of another job.
LEMMA Released ==
  ASSUME Inv, NEW n \in FileJobs, at[n] \in {"locked", "opened"},
         owner' = [owner EXCEPT ![job[n].obj] = 0],
         NEW m \in FileJobs, m # n, at[m] \in {"locked", "opened"}
  PROVE  owner'[job[m].obj] = owner[job[m].obj]
<1>1. job[m].obj # job[n].obj
  BY AloneWithObject
<1>2. job[m].obj \in DOMAIN owner
  BY FileJobObject DEF Inv, Types, FileTypes
<1>. QED
  BY <1>1, <1>2

LEMMA WrittenTypes ==
  ASSUME FileTypes, NEW f \in Served, NEW text \in Seq(Chars),
         file' = Written(f, text), DOMAIN owner' = DOMAIN owner
  PROVE  /\ FileTypes'
         /\ f \notin Unwritable => file'[f] = text
         /\ \A g \in Served : g # f \/ f \in Unwritable => file'[g] = file[g]
<1>1. f \in Files
  BY ServedFiles
<1>. QED
  BY <1>1 DEF FileTypes, Written

LEMMA TextTypes ==
  ASSUME Inv, NEW n \in FileJobs
  PROVE  /\ TextOf[job[n].obj] \in Seq(Chars)
         /\ Base(file[FileOf[job[n].obj]]) \in Seq(Chars)
         /\ file[FileOf[job[n].obj]] \in Seq(Chars) \cup {Absent}
<1>1. job[n].obj \in Objects /\ FileOf[job[n].obj] \in Served
  BY FileJobObject DEF Inv, Types
<1>2. <<>> \in Seq(Chars)
  BY EmptySeq
<1>. QED
  BY <1>1, <1>2, TextAssumption DEF Inv, Types, FileTypes, Base

\* A point of a job on a file, and the types that its steps leave alone.
LEMMA AtFile ==
  ASSUME Inv, NEW n, NEW op \in FileOps, NEW label \in Labels, At(n, op, label)
  PROVE  /\ n \in FileJobs /\ n \in running /\ at[n] = label /\ job[n].op = op
         /\ job[n].obj \in Objects /\ FileOf[job[n].obj] \in Served
<1>1. n \in FileJobs
  BY RunningFileJob DEF At, Inv, Types
<1>. QED
  BY <1>1, FileJobObject DEF At, Inv, Types

LEMMA LockInv ==
  ASSUME Inv, NEW n, LockFile(n)
  PROVE  Inv'
<1>1. n \in FileJobs /\ job[n].obj \in Objects
  BY RunningFileJob, FileJobObject DEF LockFile, Inv, Types
<1>2. Moves(n, "started", "locked") /\ UNCHANGED <<running, finished, got, file>>
      /\ owner[job[n].obj] = 0 /\ owner' = [owner EXCEPT ![job[n].obj] = n]
  BY DEF LockFile, Moves, Goto, pool
<1>3. FileTypes' /\ PipeTypes' /\ GotTypes'
  BY <1>2 DEF LockFile, Goto, pool, pipe, fifo, Inv, Types, FileTypes, PipeTypes, GotTypes
<1>4. ASSUME NEW m \in FileJobs PROVE FileJobState(m)'
  <2>1. m \in 1 .. accepted /\ job' = job
    BY <1>2 DEF FileJobs, Moves
  <2>2. CASE m = n
    BY <1>1, <1>2, <2>1, <2>2, MoveJobs DEF Labels, Inv, Types, FileTypes, Locked, FileJobState
  <2>3. CASE m # n
    <3>1. at'[m] = at[m]
      BY <1>2, <2>1, <2>3, MoveJobs DEF Labels
    <3>2. at[m] \in {"locked", "opened"} => owner'[job[m].obj] = owner[job[m].obj]
      <4>1. SUFFICES ASSUME at[m] \in {"locked", "opened"}
                     PROVE  owner'[job[m].obj] = owner[job[m].obj]
        OBVIOUS
      <4>2. owner[job[m].obj] # 0
        BY <2>1, <4>1 DEF Inv, Locked, FileJobState, Types, JobTypes
      <4>3. job[m].obj \in DOMAIN owner
        BY FileJobObject DEF Inv, Types, FileTypes
      <4>. QED
        BY <1>2, <4>2, <4>3
    <3>. QED
      BY <1>2, <2>1, <3>1, <3>2, OtherJob
  <2>. QED
    BY <2>2, <2>3
<1>5. JobTypes' /\ Numbered' /\ FileJobs' = FileJobs
  BY <1>2, MoveJobs DEF Labels
<1>. QED
  BY <1>3, <1>4, <1>5 DEF Inv, Types, Locked

\* Job n on a file of its own takes one of the steps under the lock.
Works(n, from, to, contents, text) ==
    /\ Moves(n, from, to)
    /\ UNCHANGED <<running, finished>> /\ PipeTypes'
    /\ owner' \in {owner, [owner EXCEPT ![job[n].obj] = 0]}
    /\ \/ file' = Written(FileOf[job[n].obj], contents)
       \/ to = "callback" /\ file' = file
    /\ got' = [got EXCEPT ![n] = text]

LEMMA GotEffect ==
  ASSUME GotTypes, JobTypes, NEW n \in 1 .. accepted, NEW text \in Shown,
         got' = [got EXCEPT ![n] = text], accepted' = accepted
  PROVE  /\ GotTypes' /\ got'[n] = text
         /\ \A m \in 1 .. accepted : m # n => got'[m] = got[m]
<1>1. /\ got' \in Seq(Shown) /\ Len(got') = accepted
      /\ \A m \in 1 .. accepted : got'[m] = IF m = n THEN text ELSE got[m]
  BY ExceptSeq DEF GotTypes
<1>. QED
  BY <1>1 DEF GotTypes

\* Nobody has an orderly file open that another job works on.
LEMMA WorkInv ==
  ASSUME Inv, NEW n \in FileJobs, NEW from \in {"locked", "opened"},
         NEW to \in {"opened", "callback"}, NEW contents \in Seq(Chars), NEW text \in Shown,
         Works(n, from, to, contents, text),
         job[n].op # "readAll" => text = <<>>,
         to = "opened" => job[n].op = "writeAll" /\ contents = <<>> /\ owner' = owner
  PROVE  Inv'
<1>. DEFINE f == FileOf[job[n].obj]
<1>1. n \in 1 .. accepted /\ job[n].obj \in Objects /\ f \in Served
      /\ at[n] = from /\ job' = job /\ accepted' = accepted
  BY FileJobObject DEF Inv, Types, FileJobs, Works, Moves
<1>2. /\ JobTypes' /\ Numbered' /\ FileJobs' = FileJobs
      /\ at'[n] = to
      /\ \A m \in 1 .. accepted : m # n => at'[m] = at[m]
  <2>1. Moves(n, from, to) /\ UNCHANGED <<running, finished>>
    BY DEF Works
  <2>2. to \in Labels \ {"queued"}
    BY DEF Labels
  <2>. QED
    BY <1>1, <2>1, <2>2, MoveJobs
<1>3. /\ FileTypes'
      /\ f \notin Unwritable => file'[f] = contents \/ (to = "callback" /\ file'[f] = file[f])
      /\ \A g \in Served : g # f \/ f \in Unwritable => file'[g] = file[g]
  <2>1. DOMAIN owner' = DOMAIN owner
    BY DEF Works
  <2>2. CASE file' = Written(f, contents)
    BY <1>1, <2>1, <2>2, WrittenTypes DEF Inv, Types
  <2>3. CASE to = "callback" /\ file' = file
    BY <2>1, <2>3 DEF Inv, Types, FileTypes
  <2>. QED
    BY <2>2, <2>3 DEF Works
<1>4. /\ GotTypes' /\ got'[n] = text
      /\ \A m \in 1 .. accepted : m # n => got'[m] = got[m]
  BY <1>1, GotEffect DEF Works, Inv, Types
<1>5. contents # Absent
  BY TextAssumption
<1>6. FileJobState(n)'
  BY <1>1, <1>2, <1>3, <1>4, <1>5 DEF Inv, Locked, FileJobState
<1>7. ASSUME NEW m \in FileJobs, m # n PROVE FileJobState(m)'
  <2>. DEFINE g == FileOf[job[m].obj]
  <2>1. m \in 1 .. accepted /\ g \in Served
    BY FileJobObject DEF FileJobs, Inv, Types
  <2>2. at'[m] = at[m] /\ got'[m] = got[m]
    BY <1>2, <1>4, <1>7, <2>1
  <2>3. at[m] \in {"locked", "opened"} => owner'[job[m].obj] = owner[job[m].obj]
    BY <1>1, <1>7, Released DEF Works
  <2>4. at[m] = "opened" => file'[g] = file[g] \/ (~Orderly(g) /\ file'[g] # Absent)
    <3>1. CASE g # f \/ f \in Unwritable
      BY <1>3, <2>1, <3>1
    <3>2. CASE g = f /\ f \notin Unwritable
      <4>1. at[m] = "opened" => ~Orderly(g)
        BY <1>1, <1>7, <3>2, AloneWithFile
      <4>2. at[m] = "opened" => file[g] # Absent
        BY <3>2 DEF Inv, Locked, FileJobState
      <4>. QED
        BY <1>3, <1>5, <3>2, <4>1, <4>2
    <3>. QED
      BY <3>1, <3>2
  <2>. QED
    BY <1>1, <2>2, <2>3, <2>4, OtherJob
<1>. QED
  BY <1>2, <1>3, <1>4, <1>6, <1>7 DEF Inv, Types, Locked, Works

LEMMA GotSame ==
  ASSUME Inv, NEW n \in 1 .. accepted
  PROVE  got = [got EXCEPT ![n] = got[n]] /\ got[n] \in Shown
<1>1. n \in 1 .. Len(got) /\ got \in Seq(Shown)
  BY DEF Inv, Types, GotTypes
<1>2. got[n] \in Shown
  BY <1>1, ElementOfSeq
<1>3. got \in [1 .. Len(got) -> Shown]
  BY <1>1, LenProperties
<1>. QED
  BY <1>2, <1>3

-----------------------------------------------------------------------------
(* What a thread does for one job is a step on its file, its callback, or  *)
(* a step on a FIFO.                                                       *)

LEMMA ReadWorks ==
  ASSUME Inv, NEW n, ReadAll(n)
  PROVE  /\ n \in FileJobs /\ job[n].op = "readAll" /\ n \in running
         /\ Works(n, "locked", "callback", <<>>, Base(file[FileOf[job[n].obj]]))
         /\ file' = file
<1>1. "readAll" \in FileOps /\ "locked" \in Labels
  BY DEF FileOps, Labels
<1>2. n \in FileJobs /\ n \in running /\ job[n].op = "readAll" /\ at[n] = "locked"
  BY <1>1, AtFile DEF ReadAll
<1>3. PipeTypes'
  BY DEF ReadAll, Unlock, pipe, fifo, Inv, Types, PipeTypes
<1>. QED
  BY <1>2, <1>3 DEF ReadAll, Unlock, Goto, pool, Works, Moves

LEMMA TruncateWorks ==
  ASSUME Inv, NEW n, Truncate(n)
  PROVE  /\ n \in FileJobs /\ job[n].op = "writeAll" /\ n \in running
         /\ Works(n, "locked", "opened", <<>>, got[n])
         /\ got' = got /\ owner' = owner /\ file' = Written(FileOf[job[n].obj], <<>>)
<1>1. "writeAll" \in FileOps /\ "locked" \in Labels
  BY DEF FileOps, Labels
<1>2. n \in FileJobs /\ n \in running /\ job[n].op = "writeAll" /\ at[n] = "locked"
  BY <1>1, AtFile DEF Truncate
<1>3. PipeTypes'
  BY DEF Truncate, Goto, pool, pipe, fifo, Inv, Types, PipeTypes
<1>4. got' = got /\ got = [got EXCEPT ![n] = got[n]]
  BY <1>2, GotSame DEF Truncate, FileJobs
<1>. QED
  BY <1>2, <1>3, <1>4 DEF Truncate, Goto, pool, Works, Moves

LEMMA WriteWorks ==
  ASSUME Inv, NEW n, WriteAll(n)
  PROVE  LET o == job[n].obj  text == Overlay(file[FileOf[o]], TextOf[o]) IN
         /\ n \in FileJobs /\ job[n].op = "writeAll" /\ n \in running
         /\ Works(n, "opened", "callback", text, got[n])
         /\ got' = got /\ file' = Written(FileOf[o], text)
<1>1. "writeAll" \in FileOps /\ "opened" \in Labels
  BY DEF FileOps, Labels
<1>2. n \in FileJobs /\ n \in running /\ job[n].op = "writeAll" /\ at[n] = "opened"
  BY <1>1, AtFile DEF WriteAll
<1>3. PipeTypes'
  BY DEF WriteAll, Unlock, pipe, fifo, Inv, Types, PipeTypes
<1>4. got' = got /\ got = [got EXCEPT ![n] = got[n]]
  BY <1>2, GotSame DEF WriteAll, FileJobs
<1>. QED
  BY <1>2, <1>3, <1>4 DEF WriteAll, Unlock, Goto, pool, Works, Moves

LEMMA AppendWorks ==
  ASSUME Inv, NEW n, AppendText(n)
  PROVE  LET o == job[n].obj  text == Base(file[FileOf[o]]) \o TextOf[o] IN
         /\ n \in FileJobs /\ job[n].op = "append" /\ n \in running
         /\ Works(n, "locked", "callback", text, got[n])
         /\ got' = got /\ file' = Written(FileOf[o], text)
<1>1. "append" \in FileOps /\ "locked" \in Labels
  BY DEF FileOps, Labels
<1>2. n \in FileJobs /\ n \in running /\ job[n].op = "append" /\ at[n] = "locked"
  BY <1>1, AtFile DEF AppendText
<1>3. PipeTypes'
  BY DEF AppendText, Unlock, pipe, fifo, Inv, Types, PipeTypes
<1>4. got' = got /\ got = [got EXCEPT ![n] = got[n]]
  BY <1>2, GotSame DEF AppendText, FileJobs
<1>. QED
  BY <1>2, <1>3, <1>4 DEF AppendText, Unlock, Goto, pool, Works, Moves

\* Job n goes on with its FIFO.
PipeWorks(n, from, to) ==
    /\ n \in running /\ job[n].op \in PipeOps
    /\ Moves(n, from, to)
    /\ UNCHANGED <<running, finished, owner, file>>
    /\ PipeTypes' /\ GotTypes'
    /\ \A m \in 1 .. accepted : m # n => got'[m] = got[m]

LEMMA PipeInv ==
  ASSUME Inv, NEW n, NEW from \in {"started", "opening"},
         NEW to \in {"opening", "failed", "callback"}, PipeWorks(n, from, to)
  PROVE  Inv' /\ n \notin FileJobs
<1>1. n \notin FileJobs
  BY OpsDiffer DEF PipeWorks, FileJobs
<1>2. /\ JobTypes' /\ Numbered' /\ FileJobs' = FileJobs
      /\ \A m \in 1 .. accepted : m # n => at'[m] = at[m]
  <2>1. Moves(n, from, to) /\ UNCHANGED <<running, finished>>
    BY DEF PipeWorks
  <2>2. to \in Labels \ {"queued"}
    BY DEF Labels
  <2>. QED
    BY <2>1, <2>2, MoveJobs
<1>3. FileTypes'
  BY DEF PipeWorks, Inv, Types, FileTypes
<1>4. ASSUME NEW m \in FileJobs PROVE FileJobState(m)'
  <2>1. m # n /\ m \in 1 .. accepted /\ job' = job
    BY <1>1 DEF FileJobs, PipeWorks, Moves
  <2>2. at'[m] = at[m] /\ got'[m] = got[m]
    BY <1>2, <2>1 DEF PipeWorks
  <2>. QED
    BY <2>1, <2>2, OtherJob DEF PipeWorks
<1>. QED
  BY <1>1, <1>2, <1>3, <1>4 DEF Inv, Types, Locked, PipeWorks

\* A job of a pipe is one of a NamedPipe object.
LEMMA PipeJobObject ==
  ASSUME Inv, NEW n \in running, job[n].op \in PipeOps
  PROVE  /\ job[n].obj \in Pipes /\ n \in 1 .. accepted
         /\ ReadFifo[job[n].obj] \in Fifos /\ WriteFifo[job[n].obj] \in Fifos
<1>1. n \in 1 .. accepted /\ n \in 1 .. Len(job) /\ job \in Seq(Calls)
  BY DEF Inv, Types, JobTypes, Numbered
<1>2. job[n] \in Calls
  BY <1>1, ElementOfSeq
<1>3. job[n] \in [op : PipeOps, obj : Pipes]
  BY <1>2, OpsDiffer DEF Calls
<1>. QED
  BY <1>1, <1>3 DEF Fifos

LEMMA OpenPipes ==
  ASSUME Inv, NEW n, OpenFifo(n)
  PROVE  \E to \in {"opening", "failed"} : PipeWorks(n, "started", to)
<1>1. PipeTypes' /\ GotTypes'
  BY DEF OpenFifo, Goto, pool, pipe, disk, Inv, Types, PipeTypes, GotTypes
<1>. QED
  BY <1>1 DEF OpenFifo, Goto, pool, disk, PipeWorks, Moves

LEMMA WritePipes ==
  ASSUME Inv, NEW n, WriteFifoText(n)
  PROVE  PipeWorks(n, "opening", "callback")
<1>1. n \in running /\ at[n] = "opening" /\ job[n].op \in PipeOps
  BY DEF WriteFifoText, At, PipeOps
<1>2. job[n].obj \in Pipes /\ WriteFifo[job[n].obj] \in Fifos
  BY <1>1, PipeJobObject
<1>. DEFINE p == job[n].obj
            f == WriteFifo[p]
<1>3. PICK t \in Texts(p) : stream' = [stream EXCEPT ![f] = Append(@, t)]
  BY <1>2 DEF WriteFifoText
<1>4. t \in Nat \cup {Mixed}
  BY <1>2, <1>3 DEF Texts, Inv, Types, PipeTypes
<1>5. Append(stream[f], t) \in Seq(Nat \cup {Mixed})
  BY <1>2, <1>4, AppendProperties DEF Inv, Types, PipeTypes
<1>6. PipeTypes' /\ GotTypes'
  BY <1>2, <1>3, <1>5 DEF WriteFifoText, Goto, pool, pipe, disk, Inv, Types, PipeTypes, GotTypes
<1>. QED
  BY <1>1, <1>6 DEF WriteFifoText, Goto, pool, disk, PipeWorks, Moves

LEMMA ReadPipes ==
  ASSUME Inv, NEW n, ReadFifoTexts(n)
  PROVE  PipeWorks(n, "opening", "callback")
<1>1. n \in running /\ at[n] = "opening" /\ job[n].op \in PipeOps
  BY DEF ReadFifoTexts, At, PipeOps
<1>2. n \in 1 .. accepted /\ ReadFifo[job[n].obj] \in Fifos
  BY <1>1, PipeJobObject
<1>. DEFINE f == ReadFifo[job[n].obj]
            left == SubSeq(stream[f], taken[f] + 1, Len(stream[f]))
            k == IF Len(left) < ReadMax THEN Len(left) ELSE ReadMax
            text == SubSeq(left, 1, k) \o (IF k = ReadMax THEN <<Overrun>> ELSE <<>>)
            Read == Chars \cup Nat \cup {Mixed, Overrun}
<1>3. taken' = [taken EXCEPT ![f] = @ + k] /\ got' = [got EXCEPT ![n] = text]
      /\ UNCHANGED <<disk, pipe, stream>>
  BY DEF ReadFifoTexts
<1>4. f \in Fifos /\ stream[f] \in Seq(Nat \cup {Mixed}) /\ taken[f] \in Nat /\ Len(stream[f]) \in Nat
  BY <1>2, LenProperties DEF Inv, Types, PipeTypes
<1>5. left \in Seq(Read)
  <2>1. \A i \in taken[f] + 1 .. Len(stream[f]) : stream[f][i] \in Read
    BY <1>4, ElementOfSeq
  <2>. QED
    BY <1>4, <2>1, SubSeqProperties
<1>. HIDE DEF left
<1>6. k \in Nat /\ k <= Len(left)
  BY <1>5, LenProperties, BoundsAssumption
<1>7. SubSeq(left, 1, k) \in Seq(Read)
  <2>. HIDE DEF k
  <2>1. \A i \in 1 .. k : left[i] \in Read
    BY <1>5, <1>6, ElementOfSeq, LenProperties
  <2>. QED
    BY <1>6, <2>1, SubSeqProperties
<1>8. text \in Shown
  <2>1. <<>> \in Seq(Read) /\ <<Overrun>> \in Seq(Read)
    BY EmptySeq
  <2>. HIDE DEF k
  <2>. QED
    BY <1>7, <2>1, ConcatProperties DEF Shown
<1>. HIDE DEF k, text, f
<1>9. GotTypes' /\ \A m \in 1 .. accepted : m # n => got'[m] = got[m]
  <2>1. accepted' = accepted
    BY DEF ReadFifoTexts, Goto, pool
  <2>. QED
    BY <1>2, <1>3, <1>8, <2>1, GotEffect DEF Inv, Types
<1>10. PipeTypes'
  BY <1>3, <1>4, <1>6 DEF pipe, Inv, Types, PipeTypes
<1>. QED
  BY <1>1, <1>3, <1>9, <1>10 DEF ReadFifoTexts, Goto, pool, disk, PipeWorks, Moves

LEMMA CallbackInv ==
  ASSUME Inv, NEW n, Callback(n)
  PROVE  /\ Inv'
         /\ n \in 1 .. accepted /\ at[n] \in {"callback", "failed"}
         /\ at'[n] = IF at[n] = "failed" THEN "failed" ELSE "called"
         /\ \A m \in 1 .. accepted : m # n => at'[m] = at[m]
<1>1. /\ n \in running /\ at[n] \in {"callback", "failed"}
      /\ running' = running \ {n} /\ finished' = finished \cup {n}
      /\ UNCHANGED <<pending, accepted, job, got, owner, file, call, buff, texts, stream, taken>>
  BY DEF Callback, disk, pipe, fifo
<1>2. accepted \in Nat /\ pending \in Seq(Nat) /\ Len(pending) \in Nat /\ Len(pending) <= accepted
      /\ Len(at) = accepted
  BY DEF Inv, Types, JobTypes, Numbered
<1>3. n \in 1 .. accepted
  BY <1>1, <1>2 DEF Inv, Numbered
<1>. DEFINE to == IF at[n] = "failed" THEN "failed" ELSE "called"
<1>4. /\ at' \in Seq(Labels) /\ Len(at') = accepted
      /\ \A m \in 1 .. accepted : at'[m] = IF m = n THEN to ELSE at[m]
  <2>1. to \in Labels
    BY DEF Labels
  <2>2. at' = [at EXCEPT ![n] = to]
    BY DEF Callback
  <2>. HIDE DEF to
  <2>. QED
    BY <1>2, <1>3, <2>1, <2>2, ExceptSeq DEF Inv, Types, JobTypes
<1>5. JobTypes' /\ FileTypes' /\ PipeTypes' /\ GotTypes'
  BY <1>1, <1>4 DEF Inv, Types, JobTypes, FileTypes, PipeTypes, GotTypes
<1>6. Numbered'
  <2>1. \A m \in 1 .. accepted : m > accepted - Len(pending) => at'[m] = "queued"
    BY <1>1, <1>2, <1>4 DEF Inv, Numbered
  <2>2. \A m \in finished' : m \in 1 .. accepted /\ at'[m] \in {"called", "failed"}
    BY <1>1, <1>3, <1>4 DEF Inv, Numbered
  <2>. QED
    BY <1>1, <1>2, <2>1, <2>2 DEF Inv, Numbered
<1>7. FileJobs' = FileJobs
  BY <1>1 DEF FileJobs
<1>8. ASSUME NEW m \in FileJobs PROVE FileJobState(m)'
  <2>1. m \in 1 .. accepted
    BY DEF FileJobs
  <2>. QED
    BY <1>1, <1>4, <2>1 DEF Inv, Locked, FileJobState
<1>. QED
  BY <1>1, <1>3, <1>4, <1>5, <1>6, <1>7, <1>8 DEF Inv, Types, Locked

\* The steps under the lock.
LEMMA FileStepInv ==
  ASSUME Inv, NEW n, ReadAll(n) \/ Truncate(n) \/ WriteAll(n) \/ AppendText(n)
  PROVE  Inv'
<1>. DEFINE text == TextOf[job[n].obj]
            held == file[FileOf[job[n].obj]]
<1>1. CASE ReadAll(n)
  <2>1. Base(held) \in Shown /\ <<>> \in Seq(Chars)
    <3>1. Base(held) \in Seq(Chars)
      BY <1>1, ReadWorks, TextTypes
    <3>. QED
      BY <3>1, EmptySeq DEF Shown
  <2>. QED
    BY <1>1, <2>1, ReadWorks, WorkInv
<1>2. CASE Truncate(n)
  <2>1. n \in FileJobs /\ got[n] \in Shown /\ <<>> \in Seq(Chars)
    BY <1>2, TruncateWorks, GotSame, EmptySeq DEF FileJobs
  <2>2. job[n].op # "readAll" => got[n] = <<>>
    BY <2>1 DEF Inv, Locked, FileJobState
  <2>. QED
    BY <1>2, <2>1, <2>2, TruncateWorks, WorkInv
<1>3. CASE WriteAll(n)
  <2>1. n \in FileJobs /\ got[n] \in Shown
    BY <1>3, WriteWorks, GotSame DEF FileJobs
  <2>2. job[n].op # "readAll" => got[n] = <<>>
    BY <2>1 DEF Inv, Locked, FileJobState
  <2>3. CASE FileOf[job[n].obj] \in Unwritable
    <3>1. Works(n, "opened", "callback", <<>>, got[n])
      BY <1>3, <2>3, WriteWorks DEF Works, Written
    <3>. QED
      BY <2>1, <2>2, <3>1, EmptySeq, WorkInv
  <2>4. CASE FileOf[job[n].obj] \notin Unwritable
    <3>1. held \in Seq(Chars) /\ text \in Seq(Chars)
      BY <1>3, <2>1, <2>4, WriteWorks, TextTypes DEF Inv, Locked, FileJobState, WriteAll, At
    <3>2. Overlay(held, text) \in Seq(Chars)
      BY <3>1, OverlayText
    <3>. QED
      BY <1>3, <2>1, <2>2, <3>2, WriteWorks, WorkInv
  <2>. QED
    BY <2>3, <2>4
<1>4. CASE AppendText(n)
  <2>1. n \in FileJobs /\ got[n] \in Shown
    BY <1>4, AppendWorks, GotSame DEF FileJobs
  <2>2. job[n].op # "readAll" => got[n] = <<>>
    BY <2>1 DEF Inv, Locked, FileJobState
  <2>3. Base(held) \o text \in Seq(Chars)
    BY <2>1, TextTypes, ConcatProperties
  <2>. QED
    BY <1>4, <2>1, <2>2, <2>3, AppendWorks, WorkInv
<1>. QED
  BY <1>1, <1>2, <1>3, <1>4

-----------------------------------------------------------------------------
(* Every step is one of AtomicFiles, or none.                              *)

\* Job m is on the same side of its moment as before.
Settled(m) ==
    /\ at'[m] = "opened" <=> at[m] = "opened"
    /\ m \in Done' <=> m \in Done
    /\ got'[m] = got[m]

LEMMA ContentsSame ==
  ASSUME job' = job, FileJobs' = FileJobs,
         \A m \in FileJobs : at'[m] = "opened" <=> at[m] = "opened",
         \A f \in Served : file'[f] = file[f]
  PROVE  Contents' = Contents
<1>1. ASSUME NEW f \in Served PROVE Opened(f)' <=> Opened(f)
  BY DEF Opened
<1>2. ASSUME NEW f \in Served PROVE TextIn(f)' = TextIn(f)
  BY <1>1, <1>2 DEF TextIn
<1>. QED
  BY <1>2 DEF Contents

LEMMA SeenSame ==
  ASSUME FileJobs' = FileJobs,
         \A m \in FileJobs : (m \in Done' <=> m \in Done) /\ got'[m] = got[m]
  PROVE  Seen' = Seen
<1>1. Done' = Done /\ Done \subseteq FileJobs
  BY DEF Done
<1>. QED
  BY <1>1 DEF Seen

LEMMA Unseen ==
  ASSUME job' = job, FileJobs' = FileJobs, finished' = finished,
         \A m \in FileJobs : Settled(m), \A f \in Served : file'[f] = file[f]
  PROVE  UNCHANGED Atomic!vars
<1>1. Contents' = Contents /\ Seen' = Seen
  BY ContentsSame, SeenSame DEF Settled
<1>. QED
  BY <1>1 DEF Atomic!vars, Answered

LEMMA AtomicInit == Init => Atomic!Init
<1>. SUFFICES ASSUME Init PROVE Atomic!Init
  OBVIOUS
<1>1. accepted = 0 /\ finished = {} /\ job = <<>> /\ file = InitFile
  BY DEF Init, Pool!Init
<1>2. FileJobs = {} /\ Done = {}
  BY <1>1 DEF FileJobs, Done
<1>3. Contents = InitText
  BY <1>1, <1>2 DEF Contents, InitText, TextIn, Opened
<1>4. Seen = [n \in {} |-> <<>>]
  BY <1>2 DEF Seen
<1>. QED
  BY <1>1, <1>2, <1>3, <1>4 DEF Atomic!Init, Answered

LEMMA AtomicCall ==
  ASSUME Inv, NEW c, Submits(c)
  PROVE  Atomic!Call
<1>1. /\ accepted \in Nat /\ accepted' = accepted + 1 /\ job' = Append(job, c) /\ c \in Calls
      /\ finished' = finished /\ file' = file
  BY DEF Submits, Inv, Types, JobTypes
<1>2. /\ \A n \in 1 .. accepted : job'[n] = job[n] /\ at'[n] = at[n] /\ got'[n] = got[n]
      /\ at'[accepted + 1] = "queued"
  BY SubmitJobs
<1>3. FileJobs = FileJobs' \cap 1 .. accepted /\ FileJobs' \subseteq FileJobs \cup {accepted + 1}
  <2>1. accepted \in Nat /\ accepted' = accepted + 1
    BY <1>1
  <2>2. ASSUME NEW n \in 1 .. accepted PROVE n \in FileJobs' <=> n \in FileJobs
    BY <1>2, <2>1 DEF FileJobs
  <2>3. FileJobs \subseteq 1 .. accepted /\ FileJobs' \subseteq 1 .. accepted + 1
    BY <2>1 DEF FileJobs
  <2>4. 1 .. accepted + 1 = 1 .. accepted \cup {accepted + 1}
    BY <2>1
  <2>5. FileJobs = FileJobs' \cap 1 .. accepted
    BY <2>2, <2>3
  <2>6. FileJobs' \subseteq FileJobs \cup {accepted + 1}
    BY <2>2, <2>3, <2>4
  <2>. QED
    BY <2>5, <2>6
<1>4. ASSUME NEW f \in Served PROVE Opened(f)' <=> Opened(f)
  BY <1>2, <1>3 DEF Opened
<1>5. Contents' = Contents
  <2>1. ASSUME NEW f \in Served PROVE TextIn(f)' = TextIn(f)
    BY <1>1, <1>4, <2>1 DEF TextIn
  <2>. QED
    BY <2>1 DEF Contents
<1>6. Done' = Done /\ Done \subseteq 1 .. accepted
  BY <1>2, <1>3 DEF Done
<1>7. Seen' = Seen
  BY <1>2, <1>6 DEF Seen
<1>8. Answered' = Answered
  <2>1. finished \subseteq 1 .. accepted
    BY DEF Inv, Numbered
  <2>. QED
    BY <1>1, <1>3, <2>1 DEF Answered
<1>. QED
  BY <1>1, <1>5, <1>7, <1>8 DEF Atomic!Call

LEMMA CalmUnseen ==
  ASSUME Inv, Calmly, \A f \in Served : file'[f] = file[f]
  PROVE  UNCHANGED Atomic!vars
<1>1. job' = job /\ FileJobs' = FileJobs /\ finished' = finished
  BY DEF Calmly, FileJobs
<1>2. \A m \in FileJobs : Settled(m)
  BY <1>1 DEF Calmly, Settled, Done
<1>. QED
  BY <1>1, <1>2, Unseen

LEMMA StartUnseen ==
  ASSUME Inv, StartJob
  PROVE  UNCHANGED Atomic!vars
<1>1. UNCHANGED <<accepted, job, finished, got, file>>
  BY DEF StartJob, Pool!Start, disk
<1>2. FileJobs' = FileJobs
  BY <1>1 DEF FileJobs
<1>3. ASSUME NEW m \in FileJobs PROVE Settled(m)
  <2>1. m \in 1 .. accepted
    BY DEF FileJobs
  <2>. QED
    BY <1>1, <1>2, <2>1, StartEffect DEF Settled, Done
<1>. QED
  BY <1>1, <1>2, <1>3, Unseen

LEMMA LockUnseen ==
  ASSUME Inv, NEW n, LockFile(n)
  PROVE  UNCHANGED Atomic!vars
<1>1. Moves(n, "started", "locked") /\ UNCHANGED <<running, finished, got, file, job>>
  BY DEF LockFile, Moves, Goto, pool
<1>2. /\ FileJobs' = FileJobs /\ at'[n] = "locked" /\ at[n] = "started"
      /\ \A m \in 1 .. accepted : m # n => at'[m] = at[m]
  BY <1>1, MoveJobs DEF Labels, Moves
<1>3. ASSUME NEW m \in FileJobs PROVE Settled(m)
  <2>1. m \in 1 .. accepted
    BY DEF FileJobs
  <2>. QED
    BY <1>1, <1>2, <2>1 DEF Settled, Done
<1>. QED
  BY <1>1, <1>2, <1>3, Unseen

LEMMA PipeUnseen ==
  ASSUME Inv, NEW n, NEW from \in {"started", "opening"},
         NEW to \in {"opening", "failed", "callback"}, PipeWorks(n, from, to)
  PROVE  UNCHANGED Atomic!vars
<1>1. n \notin FileJobs
  BY PipeInv
<1>2. Moves(n, from, to) /\ UNCHANGED <<running, finished, file, job>>
  BY DEF PipeWorks, Moves
<1>3. to \in Labels \ {"queued"}
  BY DEF Labels
<1>4. /\ FileJobs' = FileJobs
      /\ \A m \in 1 .. accepted : m # n => at'[m] = at[m]
  BY <1>2, <1>3, MoveJobs
<1>5. ASSUME NEW m \in FileJobs PROVE Settled(m)
  <2>1. m \in 1 .. accepted /\ m # n
    BY <1>1 DEF FileJobs
  <2>. QED
    BY <1>4, <2>1 DEF Settled, Done, PipeWorks
<1>. QED
  BY <1>2, <1>4, <1>5, Unseen

LEMMA CallbackAnswers ==
  ASSUME Inv, NEW n, Callback(n)
  PROVE  [Atomic!Next]_(Atomic!vars)
<1>1. /\ finished' = finished \cup {n}
      /\ UNCHANGED <<accepted, job, got, file>>
  BY DEF Callback, disk
<1>2. FileJobs' = FileJobs
  BY <1>1 DEF FileJobs
<1>3. ASSUME NEW m \in FileJobs PROVE Settled(m)
  <2>1. m \in 1 .. accepted /\ at[m] # "failed"
    BY DEF FileJobs, Inv, Locked, FileJobState
  <2>. QED
    BY <1>1, <1>2, <2>1, CallbackInv DEF Settled, Done
<1>4. Contents' = Contents /\ Seen' = Seen
  BY <1>1, <1>2, <1>3, ContentsSame, SeenSame DEF Settled
<1>5. CASE n \in FileJobs
  <2>1. at[n] = "callback" /\ n \notin finished
    <3>1. at[n] = "callback"
      BY <1>5, CallbackInv DEF Inv, Locked, FileJobState
    <3>. QED
      BY <3>1 DEF Inv, Numbered
  <2>2. n \in DOMAIN Seen /\ n \notin Answered
    BY <1>5, <2>1 DEF Seen, Done, Answered
  <2>3. Answered' = Answered \cup {n}
    BY <1>1, <1>2, <1>5 DEF Answered
  <2>4. Atomic!Answer(n)
    BY <1>1, <1>4, <2>2, <2>3 DEF Atomic!Answer
  <2>5. n \in DOMAIN job
    BY LenProperties, CallbackInv DEF Inv, Types, JobTypes
  <2>. QED
    BY <2>4, <2>5 DEF Atomic!Next
<1>6. CASE n \notin FileJobs
  BY <1>1, <1>2, <1>4, <1>6 DEF Atomic!vars, Answered
<1>. QED
  BY <1>5, <1>6

LEMMA WorkMarks ==
  ASSUME Inv, NEW n \in FileJobs, NEW from \in {"locked", "opened"},
         NEW to \in {"opened", "callback"}, NEW contents, NEW text \in Shown,
         Works(n, from, to, contents, text)
  PROVE  /\ job' = job /\ FileJobs' = FileJobs /\ Answered' = Answered
         /\ at[n] = from /\ at'[n] = to /\ got'[n] = text
         /\ \A m \in FileJobs : m # n => at'[m] = at[m] /\ got'[m] = got[m]
         /\ Done' = Done \cup {n}
         /\ n \in DOMAIN job
<1>1. Moves(n, from, to) /\ UNCHANGED <<running, finished>> /\ got' = [got EXCEPT ![n] = text]
  BY DEF Works
<1>2. job' = job /\ accepted' = accepted /\ at[n] = from
  BY <1>1 DEF Moves
<1>3. n \in 1 .. accepted /\ n \in DOMAIN job
  BY LenProperties DEF FileJobs, Inv, Types, JobTypes
<1>4. to \in Labels \ {"queued"}
  BY DEF Labels
<1>5. /\ FileJobs' = FileJobs /\ at'[n] = to
      /\ \A m \in 1 .. accepted : m # n => at'[m] = at[m]
  BY <1>1, <1>4, MoveJobs
<1>6. got'[n] = text /\ \A m \in 1 .. accepted : m # n => got'[m] = got[m]
  BY <1>1, <1>2, <1>3, GotEffect DEF Inv, Types
<1>7. \A m \in FileJobs : m \in 1 .. accepted
  BY DEF FileJobs
<1>8. Done' = Done \cup {n}
  BY <1>5, <1>7 DEF Done
<1>9. Answered' = Answered
  BY <1>1, <1>5 DEF Answered
<1>. QED
  BY <1>2, <1>3, <1>5, <1>6, <1>7, <1>8, <1>9

\* What the program sees of the files, before and after job n has done a step.
LEMMA WorkTexts ==
  ASSUME Inv, NEW n \in FileJobs, NEW from \in {"locked", "opened"},
         NEW to \in {"opened", "callback"}, NEW contents \in Seq(Chars), NEW text \in Shown,
         Works(n, from, to, contents, text), NEW f, f = FileOf[job[n].obj]
  PROVE  /\ f \in Served
         /\ from = "locked" => TextIn(f) = Base(file[f])
         /\ to = "callback" => TextIn(f)' = Base(file'[f])
         /\ to = "opened" /\ job[n].op = "writeAll" =>
               TextIn(f)' = IF Orderly(f) /\ f \notin Unwritable
                            THEN TextOf[job[n].obj] ELSE Base(file'[f])
         /\ \A g \in Served : g # f => TextIn(g)' = TextIn(g)
         /\ f \notin Unwritable => file'[f] = contents \/ (to = "callback" /\ file'[f] = file[f])
         /\ f \in Unwritable => file'[f] = file[f]
<1>1. /\ job' = job /\ FileJobs' = FileJobs
      /\ at[n] = from /\ at'[n] = to
      /\ \A m \in FileJobs : m # n => at'[m] = at[m]
  BY WorkMarks
<1>2. job[n].obj \in Objects /\ f \in Served
  BY FileJobObject DEF Inv, Types
<1>3. /\ f \notin Unwritable => file'[f] = contents \/ (to = "callback" /\ file'[f] = file[f])
      /\ \A g \in Served : g # f \/ f \in Unwritable => file'[g] = file[g]
  <2>1. CASE file' = Written(f, contents)
    <3>1. DOMAIN owner' = DOMAIN owner
      BY DEF Works
    <3>. QED
      BY <1>2, <2>1, <3>1, WrittenTypes DEF Inv, Types
  <2>2. CASE to = "callback" /\ file' = file
    BY <2>2
  <2>. QED
    BY <2>1, <2>2 DEF Works
<1>4. from = "locked" => TextIn(f) = Base(file[f])
  <2>1. SUFFICES ASSUME from = "locked", Orderly(f), Opened(f) PROVE FALSE
    BY DEF TextIn
  <2>2. PICK m \in FileJobs : at[m] = "opened" /\ FileOf[job[m].obj] = f
    BY <2>1 DEF Opened
  <2>. QED
    BY <1>1, <2>1, <2>2, AloneWithFile
<1>5. to = "callback" => TextIn(f)' = Base(file'[f])
  <2>1. SUFFICES ASSUME to = "callback", Orderly(f), Opened(f)' PROVE FALSE
    BY DEF TextIn
  <2>2. PICK m \in FileJobs : at'[m] = "opened" /\ FileOf[job[m].obj] = f
    BY <1>1, <2>1 DEF Opened
  <2>3. m # n /\ at[m] = "opened"
    BY <1>1, <2>1, <2>2
  <2>. QED
    BY <1>1, <2>1, <2>2, <2>3, AloneWithFile
<1>6. ASSUME to = "opened", job[n].op = "writeAll"
      PROVE  TextIn(f)' = IF Orderly(f) /\ f \notin Unwritable
                          THEN TextOf[job[n].obj] ELSE Base(file'[f])
  <2>1. Opened(f)'
    BY <1>1, <1>6 DEF Opened
  <2>2. "writeAll" \in OpsOf[job[n].obj]
    BY <1>6 DEF Inv, Locked, FileJobState
  <2>3. Orderly(f) => UserOf(f) = job[n].obj
    BY <1>2, <2>2 DEF Orderly, UserOf
  <2>. QED
    BY <2>1, <2>3 DEF TextIn
<1>7. ASSUME NEW g \in Served, g # f PROVE TextIn(g)' = TextIn(g)
  <2>1. Opened(g)' <=> Opened(g)
    BY <1>1, <1>7 DEF Opened
  <2>2. file'[g] = file[g]
    BY <1>3, <1>7
  <2>. QED
    BY <2>1, <2>2 DEF TextIn
<1>. QED
  BY <1>2, <1>3, <1>4, <1>5, <1>6, <1>7

LEMMA NewContents ==
  ASSUME NEW f \in Served, NEW text, TextIn(f)' = text,
         \A g \in Served : g # f => TextIn(g)' = TextIn(g)
  PROVE  Contents' = [Contents EXCEPT ![f] = text]
<1>1. Contents' = [g \in Served |-> TextIn(g)'] /\ Contents = [g \in Served |-> TextIn(g)]
  BY DEF Contents
<1>. QED
  BY <1>1

LEMMA SameContents ==
  ASSUME \A g \in Served : TextIn(g)' = TextIn(g)
  PROVE  Contents' = Contents
  BY DEF Contents

LEMMA SeenGrows ==
  ASSUME NEW n \in FileJobs, NEW text, Done' = Done \cup {n}, n \notin Done, got'[n] = text,
         \A m \in FileJobs : m # n => got'[m] = got[m]
  PROVE  /\ n \notin DOMAIN Seen
         /\ Atomic!Sees(n, text)
<1>1. Done \subseteq FileJobs
  BY DEF Done
<1>2. DOMAIN Seen = Done
  BY DEF Seen
<1>3. Seen' = [m \in Done \cup {n} |-> IF m = n THEN text ELSE got[m]]
  BY <1>1 DEF Seen
<1>. QED
  BY <1>1, <1>2, <1>3 DEF Seen, Atomic!Sees

LEMMA ReadAtomic ==
  ASSUME Inv, NEW n, ReadAll(n)
  PROVE  Atomic!Read(n) /\ n \in DOMAIN job
<1>0. PICK f \in Served : f = FileOf[job[n].obj]
  BY ReadWorks, FileJobObject DEF Inv, Types
<1>1. /\ n \in FileJobs /\ job[n].op = "readAll" /\ file' = file
      /\ Works(n, "locked", "callback", <<>>, Base(file[f]))
  BY <1>0, ReadWorks
<1>2. <<>> \in Seq(Chars) /\ Base(file[f]) \in Shown
  <2>1. Base(file[f]) \in Seq(Chars)
    BY <1>0, <1>1, TextTypes
  <2>. QED
    BY <2>1, EmptySeq DEF Shown
<1>3. /\ job' = job /\ Answered' = Answered /\ at[n] = "locked"
      /\ got'[n] = Base(file[f]) /\ (\A m \in FileJobs : m # n => got'[m] = got[m])
      /\ Done' = Done \cup {n} /\ n \in DOMAIN job
  BY <1>1, <1>2, WorkMarks
<1>4. /\ f \in Served /\ TextIn(f) = Base(file[f]) /\ TextIn(f)' = Base(file'[f])
      /\ \A g \in Served : g # f => TextIn(g)' = TextIn(g)
  <2>1. PICK c \in Seq(Chars), text \in Shown : Works(n, "locked", "callback", c, text)
    BY <1>1, <1>2
  <2>. QED
    BY <1>0, <1>1, <2>1, WorkTexts
<1>5. Contents' = Contents /\ Contents[f] = Base(file[f])
  <2>1. \A g \in Served : TextIn(g)' = TextIn(g)
    BY <1>1, <1>4
  <2>. QED
    BY <1>4, <2>1, SameContents DEF Contents
<1>6. n \notin DOMAIN Seen /\ Atomic!Sees(n, Base(file[f]))
  BY <1>1, <1>3, SeenGrows DEF Done
<1>. QED
  BY <1>0, <1>1, <1>3, <1>5, <1>6 DEF Atomic!Read, Atomic!Performs

LEMMA TruncateAtomic ==
  ASSUME Inv, NEW n, Truncate(n)
  PROVE  Atomic!Rewrite(n) /\ n \in DOMAIN job
<1>0. PICK f \in Served, o \in Objects : o = job[n].obj /\ f = FileOf[o]
  BY TruncateWorks, FileJobObject DEF Inv, Types
<1>1. /\ n \in FileJobs /\ job[n].op = "writeAll"
      /\ Works(n, "locked", "opened", <<>>, got[n])
  BY TruncateWorks
<1>2. <<>> \in Seq(Chars) /\ got[n] \in Shown /\ got[n] = <<>>
  BY <1>1, EmptySeq, GotSame DEF FileJobs, Inv, Locked, FileJobState
<1>3. /\ job' = job /\ Answered' = Answered /\ at[n] = "locked"
      /\ got'[n] = <<>> /\ (\A m \in FileJobs : m # n => got'[m] = got[m])
      /\ Done' = Done \cup {n} /\ n \in DOMAIN job
  BY <1>1, <1>2, WorkMarks
<1>4. /\ f \in Served /\ TextIn(f) = Base(file[f])
      /\ TextIn(f)' = IF Orderly(f) /\ f \notin Unwritable
                      THEN TextOf[o] ELSE Base(file'[f])
      /\ \A g \in Served : g # f => TextIn(g)' = TextIn(g)
      /\ f \notin Unwritable => file'[f] = <<>>
      /\ f \in Unwritable => file'[f] = file[f]
  <2>1. PICK from \in {"locked", "opened"}, to \in {"opened", "callback"},
             c \in Seq(Chars), text \in Shown :
            /\ from = "locked" /\ to = "opened" /\ c = <<>>
            /\ Works(n, from, to, c, text)
    BY <1>1, <1>2
  <2>2. f = FileOf[job[n].obj]
    BY <1>0
  <2>3. /\ TextIn(f) = Base(file[f])
        /\ \A g \in Served : g # f => TextIn(g)' = TextIn(g)
    BY <1>1, <2>1, <2>2, WorkTexts, ZenonT(60)
  <2>5. TextIn(f)' = IF Orderly(f) /\ f \notin Unwritable
                    THEN TextOf[job[n].obj] ELSE Base(file'[f])
    BY <1>1, <2>1, <2>2, WorkTexts
  <2>4. /\ f \notin Unwritable => file'[f] = c
        /\ f \in Unwritable => file'[f] = file[f]
    BY <1>1, <2>1, <2>2, WorkTexts
  <2>. QED
    BY <1>0, <2>1, <2>3, <2>4, <2>5
<1>5. f \in Shared <=> ~Orderly(f)
  BY <1>4 DEF Shared
<1>. DEFINE text == IF f \in Shared THEN <<>> ELSE TextOf[o]
<1>6. Atomic!Becomes(f, text)
  <2>1. CASE f \in Unwritable
    <3>1. \A g \in Served : TextIn(g)' = TextIn(g)
      BY <1>4, <2>1
    <3>. QED
      BY <2>1, <3>1, SameContents DEF Atomic!Becomes
  <2>2. CASE f \notin Unwritable
    <3>1. TextIn(f)' = text
      BY <1>4, <1>5, <2>2 DEF Base
    <3>2. Contents' = [Contents EXCEPT ![f] = text]
      BY <1>4, <3>1, NewContents
    <3>. QED
      BY <2>2, <3>2 DEF Atomic!Becomes
  <2>. QED
    BY <2>1, <2>2
<1>7. n \notin DOMAIN Seen /\ Atomic!Sees(n, <<>>)
  BY <1>1, <1>3, SeenGrows DEF Done
<1>. QED
  BY <1>0, <1>1, <1>3, <1>6, <1>7 DEF Atomic!Rewrite, Atomic!Performs

LEMMA AppendAtomic ==
  ASSUME Inv, NEW n, AppendText(n)
  PROVE  Atomic!AppendTo(n) /\ n \in DOMAIN job
<1>0. PICK f \in Served, o \in Objects : o = job[n].obj /\ f = FileOf[o]
  BY AppendWorks, FileJobObject DEF Inv, Types
<1>0a. PICK text : text = Base(file[f]) \o TextOf[o]
  OBVIOUS
<1>1. /\ n \in FileJobs /\ job[n].op = "append" /\ file' = Written(f, text)
      /\ Works(n, "locked", "callback", text, got[n])
  BY <1>0, <1>0a, AppendWorks
<1>2. text \in Seq(Chars) /\ got[n] \in Shown /\ got[n] = <<>>
  <2>1. text \in Seq(Chars)
    BY <1>0, <1>0a, <1>1, TextTypes, ConcatProperties
  <2>. QED
    BY <1>1, <2>1, GotSame DEF FileJobs, Inv, Locked, FileJobState
<1>3. /\ job' = job /\ Answered' = Answered /\ at[n] = "locked"
      /\ got'[n] = <<>> /\ (\A m \in FileJobs : m # n => got'[m] = got[m])
      /\ Done' = Done \cup {n} /\ n \in DOMAIN job
  BY <1>1, <1>2, WorkMarks
<1>4. /\ f \in Served /\ TextIn(f) = Base(file[f]) /\ TextIn(f)' = Base(file'[f])
      /\ \A g \in Served : g # f => TextIn(g)' = TextIn(g)
      /\ f \in Unwritable => file'[f] = file[f]
  BY <1>0, <1>1, <1>2, WorkTexts
<1>5. f \notin Unwritable => file'[f] = text
  BY <1>1, <1>4, ServedFiles DEF Written, Inv, Types, FileTypes
<1>6. Contents[f] \o TextOf[o] = text
  BY <1>0a, <1>4 DEF Contents
<1>7. Atomic!Becomes(f, text)
  <2>1. CASE f \in Unwritable
    <3>1. \A g \in Served : TextIn(g)' = TextIn(g)
      BY <1>4, <2>1
    <3>. QED
      BY <2>1, <3>1, SameContents DEF Atomic!Becomes
  <2>2. CASE f \notin Unwritable
    <3>1. TextIn(f)' = text
      BY <1>2, <1>4, <1>5, <2>2, TextAssumption DEF Base
    <3>2. Contents' = [Contents EXCEPT ![f] = text]
      BY <1>4, <3>1, NewContents
    <3>. QED
      BY <2>2, <3>2 DEF Atomic!Becomes
  <2>. QED
    BY <2>1, <2>2
<1>8. n \notin DOMAIN Seen /\ Atomic!Sees(n, <<>>)
  BY <1>1, <1>3, SeenGrows DEF Done
<1>. QED
  BY <1>0, <1>1, <1>3, <1>6, <1>7, <1>8 DEF Atomic!AppendTo, Atomic!Performs

\* Closing the file shows nothing new, unless the file is shared.
LEMMA WriteAtomic ==
  ASSUME Inv, NEW n, WriteAll(n)
  PROVE  [Atomic!Next]_(Atomic!vars)
<1>0. PICK f \in Served, o \in Objects : o = job[n].obj /\ f = FileOf[o]
  BY WriteWorks, FileJobObject DEF Inv, Types
<1>0a. PICK held, text : held = file[f] /\ text = Overlay(held, TextOf[o])
  OBVIOUS
<1>1. /\ n \in FileJobs /\ job[n].op = "writeAll" /\ at[n] = "opened"
      /\ Works(n, "opened", "callback", text, got[n]) /\ file' = Written(f, text) /\ got' = got
  BY <1>0, <1>0a, WriteWorks DEF WriteAll, At
<1>2. /\ got[n] \in Shown /\ TextOf[o] \in Seq(Chars)
      /\ held \in Seq(Chars) \cup {Absent}
  BY <1>0, <1>0a, <1>1, GotSame, TextTypes DEF FileJobs
<1>3. f \notin Unwritable => held \in Seq(Chars) /\ (Orderly(f) => held = <<>>)
  BY <1>0, <1>0a, <1>1, <1>2 DEF Inv, Locked, FileJobState
<1>4. PICK c \in Seq(Chars) :
          Works(n, "opened", "callback", c, got[n]) /\ (f \notin Unwritable => c = text)
  <2>1. CASE f \in Unwritable
    <3>1. Works(n, "opened", "callback", <<>>, got[n])
      BY <1>0, <1>1, <2>1 DEF Works, Written
    <3>. QED
      BY <2>1, <3>1, EmptySeq
  <2>2. CASE f \notin Unwritable
    <3>1. text \in Seq(Chars)
      BY <1>0a, <1>2, <1>3, <2>2, OverlayText
    <3>. QED
      BY <1>1, <2>2, <3>1
  <2>. QED
    BY <2>1, <2>2
<1>5. /\ job' = job /\ Answered' = Answered /\ FileJobs' = FileJobs /\ Done' = Done \cup {n}
  BY <1>1, <1>2, <1>4, WorkMarks
<1>6. /\ TextIn(f)' = Base(file'[f])
      /\ \A g \in Served : g # f => TextIn(g)' = TextIn(g)
      /\ f \in Unwritable => file'[f] = file[f]
  BY <1>0, <1>1, <1>2, <1>4, WorkTexts
<1>7. f \notin Unwritable => file'[f] = text
  BY <1>1, <1>2, ServedFiles DEF Written, Inv, Types, FileTypes
<1>8. Seen' = Seen
  <2>1. n \in Done
    BY <1>1 DEF Done
  <2>. QED
    BY <1>1, <1>5, <2>1 DEF Seen
<1>9. Opened(f)
  BY <1>0, <1>1 DEF Opened
<1>10. CASE f \in Unwritable
  <2>1. TextIn(f)' = TextIn(f)
    BY <1>6, <1>10 DEF TextIn
  <2>2. Contents' = Contents
    BY <1>6, <2>1, SameContents
  <2>. QED
    BY <1>5, <1>8, <2>2 DEF Atomic!vars
<1>11. CASE f \notin Unwritable /\ Orderly(f)
  <2>1. text = TextOf[o]
    BY <1>0a, <1>2, <1>3, <1>11, OverlayEmpty
  <2>2. "writeAll" \in OpsOf[o]
    BY <1>0, <1>1 DEF Inv, Locked, FileJobState
  <2>3. UserOf(f) = o
    BY <1>0, <1>11, <2>2 DEF Orderly, UserOf
  <2>4. TextIn(f) = TextOf[o]
    BY <1>9, <1>11, <2>3 DEF TextIn
  <2>5. TextIn(f)' = TextOf[o]
    BY <1>2, <1>6, <1>7, <1>11, <2>1, TextAssumption DEF Base
  <2>6. Contents' = Contents
    BY <1>6, <2>4, <2>5, SameContents
  <2>. QED
    BY <1>5, <1>8, <2>6 DEF Atomic!vars
<1>12. CASE f \notin Unwritable /\ ~Orderly(f)
  <2>1. text \in Seq(Chars) /\ IsPrefix(TextOf[o], text)
    BY <1>0a, <1>2, <1>3, <1>12, OverlayText
  <2>2. TextIn(f)' = text
    BY <1>6, <1>7, <1>12, <2>1, TextAssumption DEF Base
  <2>3. Contents' = [Contents EXCEPT ![f] = text]
    BY <1>2, <1>6, <2>2, NewContents
  <2>4. Contents'[f] = text
    BY <1>2, <2>3 DEF Contents
  <2>5. f \in Shared
    BY <1>2, <1>12 DEF Shared
  <2>6. Atomic!Overwrite(o)
    <3>1. IsPrefix(TextOf[o], Contents'[FileOf[o]])
      BY <1>0, <2>1, <2>4
    <3>2. Contents' = [Contents EXCEPT ![FileOf[o]] = Contents'[FileOf[o]]]
      BY <1>0, <2>3, <2>4
    <3>3. FileOf[o] \in Shared /\ FileOf[o] \notin Unwritable
      BY <1>0, <1>12, <2>5
    <3>4. UNCHANGED <<job, Seen, Answered>>
      BY <1>5, <1>8
    <3>. QED
      BY <3>1, <3>2, <3>3, <3>4 DEF Atomic!Overwrite, Atomic!IsPrefix, IsPrefix
  <2>. QED
    BY <1>2, <2>6 DEF Atomic!Next
<1>. QED
  BY <1>10, <1>11, <1>12

-----------------------------------------------------------------------------
(* The theorems *)

LEMMA RunStep ==
  ASSUME Inv, NEW n \in running, Run(n)
  PROVE  Inv' /\ [Atomic!Next]_(Atomic!vars)
<1>1. CASE Callback(n)
  BY <1>1, CallbackInv, CallbackAnswers
<1>2. CASE LockFile(n)
  BY <1>2, LockInv, LockUnseen
<1>3. CASE ReadAll(n)
  BY <1>3, FileStepInv, ReadAtomic DEF Atomic!Next
<1>4. CASE Truncate(n)
  BY <1>4, FileStepInv, TruncateAtomic DEF Atomic!Next
<1>5. CASE WriteAll(n)
  BY <1>5, FileStepInv, WriteAtomic
<1>6. CASE AppendText(n)
  BY <1>6, FileStepInv, AppendAtomic DEF Atomic!Next
<1>7. CASE OpenFifo(n)
  BY <1>7, OpenPipes, PipeInv, PipeUnseen
<1>8. CASE WriteFifoText(n)
  BY <1>8, WritePipes, PipeInv, PipeUnseen
<1>9. CASE ReadFifoTexts(n)
  BY <1>9, ReadPipes, PipeInv, PipeUnseen
<1>. QED
  BY <1>1, <1>2, <1>3, <1>4, <1>5, <1>6, <1>7, <1>8, <1>9 DEF Run

LEMMA JobStep ==
  ASSUME Inv, [Next]_vars
  PROVE  Inv' /\ [Atomic!Next]_(Atomic!vars)
<1>1. CASE Caller \/ InCall \/ Edit
  <2>1. ASSUME NEW c \in Calls, Submits(c) PROVE Inv' /\ Atomic!Next
    BY <2>1, SubmitInv, AtomicCall DEF Atomic!Next
  <2>2. CASE /\ Calmly /\ PipeTypes'
             /\ \A f \in Served : file'[f] = file[f]
             /\ DOMAIN file' = DOMAIN file
    BY <2>2, CalmInv, CalmUnseen
  <2>. QED
    BY <1>1, <2>1, <2>2, CallerEffect DEF Inv
<1>2. CASE StartJob
  BY <1>2, StartInv, StartUnseen
<1>3. ASSUME NEW n \in running, Run(n) PROVE Inv' /\ [Atomic!Next]_(Atomic!vars)
  BY <1>3, RunStep
<1>4. CASE UNCHANGED vars
  <2>1. Calmly /\ file' = file
    BY <1>4 DEF vars, Calmly, pool, jobs, disk
  <2>2. PipeTypes'
    BY <1>4 DEF vars, pipe, fifo, Inv, Types, PipeTypes
  <2>. QED
    BY <2>1, <2>2, CalmInv, CalmUnseen
<1>. QED
  BY <1>1, <1>2, <1>3, <1>4 DEF Next

(***************************************************************************)
(* A job between LockFile and Unlock has the lock of its object, started   *)
(* jobs are known and none starts twice, and an orderly file that a job    *)
(* has truncated stays empty until that job writes it.                     *)
(***************************************************************************)
THEOREM JobsHoldTheirLocks == Spec => []Inv
<1>1. Inv /\ [Next]_vars => Inv'
  BY JobStep
<1>. QED
  BY <1>1, InvInit, PTL DEF Spec

(***************************************************************************)
(* PoolJobs implements AtomicFiles: each call of asyncReadAllFromFile,     *)
(* asyncWriteAllIntoFile and asyncWriteApendIntoFile takes effect at one   *)
(* moment before its callback returns.                                     *)
(***************************************************************************)
THEOREM JobsOneByOne == Spec => OneByOne
<1>1. Inv /\ [Next]_vars => [Atomic!Next]_(Atomic!vars)
  BY JobStep
<1>. QED
  BY <1>1, AtomicInit, JobsHoldTheirLocks, PTL DEF Spec, OneByOne, Atomic!Spec


-----------------------------------------------------------------------------
(* The line functions: lines and the newlines between them.                *)

\* How many newlines there are up to place i.
Newlines(c, i) == Cardinality({j \in 1 .. i : c[j] = NL})

LEMMA NewlinesCount ==
  ASSUME NEW c, NEW i \in Nat
  PROVE  /\ Newlines(c, i) \in Nat /\ Newlines(c, 0) = 0
         /\ Newlines(c, i + 1) = IF c[i + 1] = NL THEN Newlines(c, i) + 1 ELSE Newlines(c, i)
<1>. DEFINE N(k) == {j \in 1 .. k : c[j] = NL}
<1>1. IsFiniteSet(N(i)) /\ Newlines(c, i) \in Nat
  <2>1. IsFiniteSet(1 .. i) /\ N(i) \subseteq 1 .. i
    BY FS_Interval
  <2>. HIDE DEF N
  <2>2. IsFiniteSet(N(i))
    BY <2>1, FS_Subset
  <2>3. Cardinality(N(i)) \in Nat
    BY <2>2, FS_CardinalityType
  <2>. QED
    BY <2>2, <2>3 DEF Newlines, N
<1>2. Newlines(c, 0) = 0
  <2>1. N(0) = {}
    OBVIOUS
  <2>. QED
    BY <2>1, FS_EmptySet DEF Newlines
<1>3. CASE c[i + 1] = NL
  <2>1. N(i + 1) = N(i) \cup {i + 1} /\ i + 1 \notin N(i)
    BY <1>3
  <2>. HIDE DEF N
  <2>2. Cardinality(N(i) \cup {i + 1}) = Cardinality(N(i)) + 1
    BY <1>1, <2>1, FS_AddElement
  <2>. QED
    BY <1>1, <1>2, <1>3, <2>1, <2>2 DEF Newlines, N
<1>4. CASE c[i + 1] # NL
  <2>1. N(i + 1) = N(i)
    BY <1>4
  <2>. QED
    BY <1>1, <1>2, <1>4, <2>1 DEF Newlines
<1>. QED
  BY <1>3, <1>4

LEMMA NewlineCounts ==
  ASSUME NEW c, NEW i \in Nat, c[i + 1] = NL
  PROVE  Newlines(c, i) \in Nat /\ Newlines(c, i + 1) = Newlines(c, i) + 1
  BY NewlinesCount

LEMMA NewlinesGrow ==
  ASSUME NEW c, NEW i \in Nat, NEW j \in Nat, i <= j
  PROVE  Newlines(c, i) <= Newlines(c, j)
<1>. DEFINE N(k) == {l \in 1 .. k : c[l] = NL}
<1>1. N(i) \subseteq N(j) /\ N(j) \subseteq 1 .. j
  OBVIOUS
<1>2. IsFiniteSet(N(j))
  <2>. HIDE DEF N
  <2>. QED
    BY <1>1, FS_Interval, FS_Subset
<1>3. Cardinality(N(i)) <= Cardinality(N(j))
  <2>. HIDE DEF N
  <2>. QED
    BY <1>1, <1>2, FS_Subset
<1>. QED
  BY <1>3 DEF Newlines

\* Places s to e of c are line k without its newline.
LineAt(c, k, s, e) ==
    /\ s \in 1 .. Len(c) + 1 /\ e \in s - 1 .. Len(c)
    /\ \A i \in s .. e : c[i] # NL
    /\ s > 1 => c[s - 1] = NL
    /\ e < Len(c) => c[e + 1] = NL
    /\ Newlines(c, s - 1) = k - 1

LEMMA LineOfLine ==
  ASSUME NEW S, NEW c \in Seq(S), NEW k \in Int, NEW s, NEW e, LineAt(c, k, s, e)
  PROVE  LineOf(c, k) = SubSeq(c, s, e)
<1>0. PICK n \in Nat : n = Len(c) /\ DOMAIN c = 1 .. n
  BY LenProperties
<1>1. /\ s \in 1 .. n + 1 /\ e \in s - 1 .. n
      /\ \A i \in s .. e : c[i] # NL
      /\ s > 1 => c[s - 1] = NL
      /\ e < n => c[e + 1] = NL
      /\ Newlines(c, s - 1) = k - 1
  BY <1>0 DEF LineAt
<1>. DEFINE here == {i \in DOMAIN c : c[i] # NL
                       /\ Cardinality({j \in 1 .. i : c[j] = NL}) = k - 1}
<1>2. here = {i \in 1 .. n : c[i] # NL /\ Newlines(c, i) = k - 1}
  BY <1>0 DEF Newlines
<1>. HIDE DEF here
<1>3. ASSUME NEW i \in s - 1 .. e PROVE Newlines(c, i) = k - 1
  <2>1. {j \in 1 .. i : c[j] = NL} = {j \in 1 .. s - 1 : c[j] = NL}
    BY <1>1
  <2>. QED
    BY <1>1, <2>1 DEF Newlines
<1>4. ASSUME NEW i \in 1 .. s - 1 PROVE i \notin here
  <2>1. CASE i = s - 1
    BY <1>1, <1>2, <2>1
  <2>2. CASE i # s - 1
    <3>1. PICK m \in Nat : i <= m /\ s - 1 = m + 1 /\ c[m + 1] = NL
      BY <1>1, <2>2
    <3>2. Newlines(c, m) \in Nat /\ Newlines(c, m + 1) = Newlines(c, m) + 1
      BY <3>1, NewlineCounts
    <3>3. Newlines(c, i) <= Newlines(c, m) /\ Newlines(c, i) \in Nat
      BY <3>1, NewlinesGrow, NewlinesCount
    <3>4. Newlines(c, m + 1) = k - 1
      BY <1>1, <3>1
    <3>. QED
      BY <1>2, <3>2, <3>3, <3>4
  <2>. QED
    BY <2>1, <2>2
<1>5. ASSUME NEW i \in e + 1 .. n PROVE i \notin here
  <2>1. e \in Nat /\ e + 1 \in Nat /\ c[e + 1] = NL /\ Newlines(c, e) = k - 1
    BY <1>1, <1>3
  <2>2. Newlines(c, e + 1) = Newlines(c, e) + 1
    BY <2>1, NewlineCounts
  <2>3. i \in Nat /\ e + 1 <= i
    BY <1>1
  <2>4. Newlines(c, e + 1) <= Newlines(c, i) /\ Newlines(c, i) \in Nat
    BY <2>1, <2>3, NewlinesCount, NewlinesGrow
  <2>. QED
    BY <1>2, <2>1, <2>2, <2>4
<1>6. here = s .. e
  <2>1. ASSUME NEW i \in s .. e PROVE i \in here
    BY <1>1, <1>2, <1>3
  <2>2. ASSUME NEW i \in here PROVE i \in s .. e
    <3>1. i \in 1 .. n
      BY <1>2
    <3>. QED
      BY <1>1, <1>4, <1>5, <3>1
  <2>. QED
    BY <2>1, <2>2
<1>7. CASE e < s
  <2>1. here = {} /\ SubSeq(c, s, e) = <<>>
    BY <1>1, <1>6, <1>7, SubSeqEmpty
  <2>. QED
    BY <2>1 DEF LineOf, here
<1>8. CASE s <= e
  <2>0. s \in Int /\ e \in Int
    BY <1>1
  <2>1. here # {} /\ Cardinality(here) = e - s + 1
    <3>1. Cardinality(s .. e) = e - s + 1
      BY <1>8, <2>0, FS_Interval
    <3>2. s \in s .. e
      BY <1>8, <2>0
    <3>. QED
      BY <1>6, <3>1, <3>2
  <2>. DEFINE first == CHOOSE i \in here : \A j \in here : i <= j
  <2>2. first = s
    BY <1>6, <1>8, <2>0
  <2>3. LineOf(c, k) = SubSeq(c, first, first + Cardinality(here) - 1)
    BY <2>1 DEF LineOf, here
  <2>4. s + (e - s + 1) - 1 = e
    BY <2>0
  <2>. HIDE DEF first
  <2>. QED
    BY <2>1, <2>2, <2>3, <2>4
<1>. QED
  BY <1>1, <1>7, <1>8

\* From place s to place i there are none.
LEMMA NoNewlines ==
  ASSUME NEW c, NEW s \in Nat \ {0}, NEW i \in Nat, s <= i + 1, \A j \in s .. i : c[j] # NL
  PROVE  Newlines(c, i) = Newlines(c, s - 1)
<1>1. {j \in 1 .. i : c[j] = NL} = {j \in 1 .. s - 1 : c[j] = NL}
  OBVIOUS
<1>. QED
  BY <1>1 DEF Newlines

LEMMA SubSeqAppend ==
  ASSUME NEW S, NEW c \in Seq(S), NEW s \in Nat \ {0}, NEW i \in Nat, s <= i + 1, i < Len(c)
  PROVE  Append(SubSeq(c, s, i), c[i + 1]) = SubSeq(c, s, i + 1)
<1>0. PICK n \in Nat : n = Len(c) /\ i < n
  BY LenProperties
<1>1. s \in 1 .. n /\ i + 1 \in s .. n /\ i + 1 - 1 = i /\ i + 1 \in 1 .. n
  BY <1>0
<1>2. SubSeq(c, s, i + 1) = SubSeq(c, s, i) \o <<c[i + 1]>>
  BY <1>0, <1>1, SubSeqRecursiveSecond
<1>3. c[i + 1] \in S
  BY <1>0, <1>1, ElementOfSeq
<1>4. SubSeq(c, s, i) \in Seq(S)
  <2>1. \A j \in s .. i : c[j] \in S
    BY <1>0, <1>1, ElementOfSeq
  <2>. QED
    BY <2>1, SubSeqProperties
<1>. QED
  BY <1>2, <1>3, <1>4, AppendIsConcat

-----------------------------------------------------------------------------
(* getline *)

\* What getline calls have read of a text over S.
ReadSoFar(S) == [whole : Seq(Seq(S)), rest : Seq(S)]

ScanNext(r, ch) ==
    IF ch = NL THEN [whole |-> Append(r.whole, r.rest), rest |-> <<>>]
    ELSE [r EXCEPT !.rest = Append(@, ch)]

Nothing == [whole |-> <<>>, rest |-> <<>>]

LEMMA ScanNextType ==
  ASSUME NEW S, NEW r \in ReadSoFar(S), NEW ch \in S
  PROVE  ScanNext(r, ch) \in ReadSoFar(S)
<1>1. r.whole \in Seq(Seq(S)) /\ r.rest \in Seq(S)
  BY DEF ReadSoFar
<1>2. Append(r.whole, r.rest) \in Seq(Seq(S)) /\ Append(r.rest, ch) \in Seq(S) /\ <<>> \in Seq(S)
  BY <1>1, AppendProperties, EmptySeq
<1>. QED
  BY <1>1, <1>2 DEF ReadSoFar, ScanNext

Scans(f, c) == f[0] = Nothing /\ \A i \in 0 .. Len(c) - 1 : f[i + 1] = ScanNext(f[i], c[i + 1])

LEMMA ScanFunction ==
  ASSUME NEW S, NEW c \in Seq(S)
  PROVE  Scans(Scan(c), c) /\ Scan(c) \in [0 .. Len(c) -> ReadSoFar(S)]
<1>0. PICK n \in Nat : n = Len(c)
  BY LenProperties
<1>. DEFINE V == ReadSoFar(S)
            step == [i \in 1 .. n |-> [v \in V |-> ScanNext(v, c[i])]]
            scan == CHOOSE g : g = [i \in 0 .. n |->
                       IF i = 0 THEN Nothing
                       ELSE IF c[i] = NL
                       THEN [whole |-> Append(g[i - 1].whole, g[i - 1].rest), rest |-> <<>>]
                       ELSE [g[i - 1] EXCEPT !.rest = Append(@, c[i])]]
<1>1. Nothing \in V
  BY EmptySeq DEF Nothing, ReadSoFar
<1>2. \A i \in 1 .. n : c[i] \in S
  BY <1>0, ElementOfSeq
<1>3. ASSUME NEW i \in 1 .. n, NEW v \in V
      PROVE  step[i][v] = ScanNext(v, c[i]) /\ step[i][v] \in V
  <2>1. step[i][v] = ScanNext(v, c[i])
    OBVIOUS
  <2>. QED
    BY <1>2, <2>1, ScanNextType
<1>4. \E f : f = [i \in 0 .. n |-> IF i = 0 THEN Nothing ELSE ScanNext(f[i - 1], c[i])]
  <2>1. PICK zero \in Int, v0 \in V : zero = 0 /\ v0 = Nothing /\ n \in Int /\ zero <= n
    BY <1>1
  <2>2. step \in [zero + 1 .. n -> [V -> V]]
    BY <1>3, <2>1
  <2>3. PICK f \in [zero .. n -> V] : Recursive(f, zero, n, v0, step)
    <3>. HIDE DEF step, V
    <3>. QED
      BY <2>1, <2>2, RecursiveFunction
  <2>4. ASSUME NEW i \in 0 .. n
        PROVE  f[i] = IF i = 0 THEN Nothing ELSE ScanNext(f[i - 1], c[i])
    <3>1. CASE i = 0
      BY <2>1, <2>3, <3>1 DEF Recursive
    <3>2. CASE i # 0
      <4>1. i \in 1 .. n /\ i \in zero + 1 .. n /\ i - 1 \in zero .. n
        BY <2>1, <3>2
      <4>2. f[i] = step[i][f[i - 1]] /\ f[i - 1] \in V
        BY <2>3, <4>1 DEF Recursive
      <4>. HIDE DEF step, V
      <4>3. step[i][f[i - 1]] = ScanNext(f[i - 1], c[i])
        BY <1>3, <4>1, <4>2
      <4>. QED
        BY <3>2, <4>2, <4>3
    <3>. QED
      BY <3>1, <3>2
  <2>5. f = [i \in 0 .. n |-> IF i = 0 THEN Nothing ELSE ScanNext(f[i - 1], c[i])]
    <3>. HIDE DEF V
    <3>1. f = [i \in 0 .. n |-> f[i]]
      BY <2>1, <2>3
    <3>. QED
      BY <2>4, <3>1
  <2>. QED
    BY <2>5
<1>5. scan = [i \in 0 .. n |-> IF i = 0 THEN Nothing ELSE ScanNext(scan[i - 1], c[i])]
  BY <1>4, Zenon DEF ScanNext
<1>6. Scan(c) = scan
  BY <1>0 DEF Scan, Nothing
<1>. HIDE DEF scan
<1>7. scan[0] = Nothing /\ \A i \in 0 .. n - 1 : scan[i + 1] = ScanNext(scan[i], c[i + 1])
  <2>1. \A k \in 0 .. n : scan[k] = IF k = 0 THEN Nothing ELSE ScanNext(scan[k - 1], c[k])
    BY <1>5
  <2>2. ASSUME NEW i \in 0 .. n - 1 PROVE scan[i + 1] = ScanNext(scan[i], c[i + 1])
    <3>1. PICK k \in 0 .. n : k = i + 1 /\ k # 0 /\ k - 1 = i
      OBVIOUS
    <3>2. scan[k] = ScanNext(scan[k - 1], c[k])
      BY <2>1, <3>1
    <3>. QED
      BY <3>1, <3>2
  <2>. QED
    BY <2>1, <2>2
<1>8. 0 .. n \subseteq {i \in 0 .. n : scan[i] \in V}
  <2>. DEFINE T == {i \in 0 .. n : scan[i] \in V}
  <2>1. 0 \in T
    BY <1>1, <1>7
  <2>2. ASSUME NEW i \in 0 .. n - 1, i \in T PROVE i + 1 \in T
    <3>1. scan[i + 1] = ScanNext(scan[i], c[i + 1]) /\ c[i + 1] \in S /\ scan[i] \in V
      BY <1>2, <1>7, <2>2
    <3>2. scan[i + 1] \in V
      BY <3>1, ScanNextType
    <3>. QED
      BY <3>2
  <2>. HIDE DEF T
  <2>3. 0 \in Int /\ n \in Int
    OBVIOUS
  <2>4. 0 .. n \subseteq T
    BY <2>1, <2>2, <2>3, UpwardInduction
  <2>. QED
    BY <2>4 DEF T
<1>9. scan \in [0 .. n -> V]
  <2>1. scan = [i \in 0 .. n |-> scan[i]]
    BY <1>5
  <2>. HIDE DEF V
  <2>. QED
    BY <1>8, <2>1
<1>. QED
  BY <1>0, <1>6, <1>7, <1>9 DEF Scans

\* After i characters of c, of which those from place s on belong to no whole
\* line yet.
ReadOf(r, c, i, s) ==
    /\ r.rest = SubSeq(c, s, i) /\ \A j \in s .. i : c[j] # NL
    /\ s > 1 => c[s - 1] = NL
    /\ Len(r.whole) = Newlines(c, s - 1)
    /\ \A k \in 1 .. Len(r.whole) : \E a, e : LineAt(c, k, a, e) /\ r.whole[k] = SubSeq(c, a, e)

LEMMA ReadNext ==
  ASSUME NEW S, NEW c \in Seq(S), NEW i \in Nat, i < Len(c), NEW s \in 1 .. i + 1,
         NEW r \in ReadSoFar(S), ReadOf(r, c, i, s)
  PROVE  \E t \in 1 .. i + 2 : ReadOf(ScanNext(r, c[i + 1]), c, i + 1, t)
<1>. DEFINE q == ScanNext(r, c[i + 1])
<1>0. PICK n \in Nat : n = Len(c) /\ i < n
  BY LenProperties
<1>1. r.whole \in Seq(Seq(S)) /\ r.rest \in Seq(S)
  BY DEF ReadSoFar
<1>2. PICK m \in Nat : m = Len(r.whole)
  BY <1>1, LenProperties
<1>3. CASE c[i + 1] = NL
  <2>1. q.whole = Append(r.whole, r.rest) /\ q.rest = <<>>
    BY <1>3 DEF ScanNext
  <2>. HIDE DEF q
  <2>2. /\ Len(q.whole) = m + 1 /\ q.whole[m + 1] = r.rest
        /\ \A k \in 1 .. m : q.whole[k] = r.whole[k]
    BY <1>1, <1>2, <2>1, AppendProperties
  <2>3. Newlines(c, i + 1) = Newlines(c, i) + 1 /\ Newlines(c, i) = m
    <3>1. Newlines(c, i + 1) = Newlines(c, i) + 1
      BY <1>3, NewlineCounts
    <3>2. Newlines(c, i) = Newlines(c, s - 1)
      BY NoNewlines DEF ReadOf
    <3>. QED
      BY <1>2, <3>1, <3>2 DEF ReadOf
  <2>4. LineAt(c, m + 1, s, i)
    <3>1. s \in 1 .. n + 1 /\ i \in s - 1 .. n
      BY <1>0
    <3>2. Newlines(c, s - 1) = m + 1 - 1
      BY <1>2 DEF ReadOf
    <3>. QED
      BY <1>0, <1>3, <3>1, <3>2 DEF ReadOf, LineAt
  <2>5. ASSUME NEW k \in 1 .. m + 1
        PROVE  \E a, e : LineAt(c, k, a, e) /\ q.whole[k] = SubSeq(c, a, e)
    <3>1. CASE k = m + 1
      <4>1. q.whole[k] = SubSeq(c, s, i)
        BY <2>2, <3>1 DEF ReadOf
      <4>. QED
        BY <2>4, <3>1, <4>1
    <3>2. CASE k # m + 1
      <4>1. k \in 1 .. m
        BY <3>2
      <4>2. \E a, e : LineAt(c, k, a, e) /\ r.whole[k] = SubSeq(c, a, e)
        BY <1>2, <4>1 DEF ReadOf
      <4>3. q.whole[k] = r.whole[k]
        BY <2>2, <4>1
      <4>. QED
        BY <4>2, <4>3
    <3>. QED
      BY <3>1, <3>2
  <2>6. q.rest = SubSeq(c, i + 2, i + 1)
    BY <2>1, SubSeqEmpty
  <2>7. ReadOf(q, c, i + 1, i + 2)
    <3>1. i + 2 - 1 = i + 1 /\ i + 2 .. i + 1 = {}
      OBVIOUS
    <3>. QED
      BY <1>3, <2>2, <2>3, <2>5, <2>6, <3>1 DEF ReadOf
  <2>8. i + 2 \in 1 .. i + 2
    OBVIOUS
  <2>. QED
    BY <2>7, <2>8 DEF q
<1>4. CASE c[i + 1] # NL
  <2>1. q.whole = r.whole /\ q.rest = Append(r.rest, c[i + 1])
    BY <1>4 DEF ScanNext, ReadSoFar
  <2>. HIDE DEF q
  <2>2. q.rest = SubSeq(c, s, i + 1)
    BY <1>0, <2>1, SubSeqAppend DEF ReadOf
  <2>3. ASSUME NEW j \in s .. i + 1 PROVE c[j] # NL
    <3>1. j \in s .. i \/ j = i + 1
      OBVIOUS
    <3>. QED
      BY <1>4, <3>1 DEF ReadOf
  <2>4. ReadOf(q, c, i + 1, s)
    BY <2>1, <2>2, <2>3 DEF ReadOf
  <2>5. s \in 1 .. i + 2
    OBVIOUS
  <2>. QED
    BY <2>4, <2>5 DEF q
<1>. QED
  BY <1>3, <1>4

LEMMA ReadAllOf ==
  ASSUME NEW S, NEW c \in Seq(S)
  PROVE  \E s \in 1 .. Len(c) + 1 : ReadOf(Scan(c)[Len(c)], c, Len(c), s)
<1>0. PICK n \in Nat : n = Len(c)
  BY LenProperties
<1>1. /\ Scan(c)[0] = Nothing
      /\ \A i \in 0 .. n - 1 : Scan(c)[i + 1] = ScanNext(Scan(c)[i], c[i + 1])
      /\ \A i \in 0 .. n : Scan(c)[i] \in ReadSoFar(S)
  BY <1>0, ScanFunction DEF Scans
<1>. DEFINE T == {i \in 0 .. n : \E s \in 1 .. i + 1 : ReadOf(Scan(c)[i], c, i, s)}
<1>2. 0 \in T
  <2>1. Nothing.rest = <<>> /\ Nothing.whole = <<>>
    BY DEF Nothing
  <2>2. Newlines(c, 0) = 0 /\ Len(<<>>) = 0 /\ SubSeq(c, 1, 0) = <<>>
    BY NewlinesCount, SubSeqEmpty
  <2>3. ReadOf(Scan(c)[0], c, 0, 1)
    BY <1>1, <2>1, <2>2 DEF ReadOf
  <2>. QED
    BY <2>3
<1>3. ASSUME NEW i \in 0 .. n - 1, i \in T PROVE i + 1 \in T
  <2>1. PICK s \in 1 .. i + 1 : ReadOf(Scan(c)[i], c, i, s)
    BY <1>3
  <2>2. i \in Nat /\ i < Len(c) /\ Scan(c)[i] \in ReadSoFar(S)
    BY <1>0, <1>1
  <2>3. \E t \in 1 .. i + 2 : ReadOf(ScanNext(Scan(c)[i], c[i + 1]), c, i + 1, t)
    BY <2>1, <2>2, ReadNext
  <2>4. Scan(c)[i + 1] = ScanNext(Scan(c)[i], c[i + 1])
    BY <1>1
  <2>5. i + 1 \in 0 .. n /\ i + 1 + 1 = i + 2
    OBVIOUS
  <2>. QED
    BY <2>3, <2>4, <2>5
<1>4. n \in T
  <2>. HIDE DEF T
  <2>1. 0 \in Int /\ n \in Int
    OBVIOUS
  <2>2. 0 .. n \subseteq T
    BY <1>2, <1>3, <2>1, UpwardInduction
  <2>. QED
    BY <2>2
<1>. QED
  BY <1>0, <1>4

\* The lines that getline reads are those between the newlines.
LEMMA LinesRead ==
  ASSUME NEW S, NEW c \in Seq(S), c # Absent
  PROVE  /\ Lines(c) \in Seq(Seq(S))
         /\ \A k \in 1 .. Len(Lines(c)) : \E s, e : LineAt(c, k, s, e) /\ Lines(c)[k] = SubSeq(c, s, e)
<1>0. PICK n \in Nat : n = Len(c)
  BY LenProperties
<1>1. PICK r \in ReadSoFar(S), s \in 1 .. n + 1 : r = Scan(c)[n] /\ ReadOf(r, c, n, s)
  <2>1. Scan(c)[n] \in ReadSoFar(S)
    BY <1>0, ScanFunction
  <2>. QED
    BY <1>0, <2>1, ReadAllOf
<1>2. r.whole \in Seq(Seq(S)) /\ r.rest \in Seq(S)
  BY DEF ReadSoFar
<1>3. PICK m \in Nat : m = Len(r.whole)
  BY <1>2, LenProperties
<1>4. Lines(c) = IF r.rest = <<>> THEN r.whole ELSE Append(r.whole, r.rest)
  BY <1>0, <1>1 DEF Lines, Base
<1>5. CASE r.rest = <<>>
  BY <1>1, <1>2, <1>4, <1>5 DEF ReadOf
<1>6. CASE r.rest # <<>>
  <2>1. /\ Lines(c) \in Seq(Seq(S)) /\ Len(Lines(c)) = m + 1 /\ Lines(c)[m + 1] = r.rest
        /\ \A k \in 1 .. m : Lines(c)[k] = r.whole[k]
    BY <1>2, <1>3, <1>4, <1>6, AppendProperties
  <2>2. LineAt(c, m + 1, s, n)
    <3>1. Newlines(c, s - 1) = m + 1 - 1
      BY <1>1, <1>3 DEF ReadOf
    <3>2. s \in 1 .. n + 1 /\ n \in s - 1 .. n /\ ~(n < n)
      OBVIOUS
    <3>. QED
      BY <1>0, <1>1, <3>1, <3>2 DEF ReadOf, LineAt
  <2>3. ASSUME NEW k \in 1 .. m + 1
        PROVE  \E a, e : LineAt(c, k, a, e) /\ Lines(c)[k] = SubSeq(c, a, e)
    <3>1. CASE k = m + 1
      <4>1. Lines(c)[k] = SubSeq(c, s, n)
        BY <1>1, <2>1, <3>1 DEF ReadOf
      <4>. QED
        BY <2>2, <3>1, <4>1
    <3>2. CASE k # m + 1
      <4>1. k \in 1 .. m
        BY <3>2
      <4>2. \E a, e : LineAt(c, k, a, e) /\ r.whole[k] = SubSeq(c, a, e)
        BY <1>1, <1>3, <4>1 DEF ReadOf
      <4>3. Lines(c)[k] = r.whole[k]
        BY <2>1, <4>1
      <4>. QED
        BY <4>2, <4>3
    <3>. QED
      BY <3>1, <3>2
  <2>. QED
    BY <2>1, <2>3
<1>. QED
  BY <1>5, <1>6
-----------------------------------------------------------------------------
(* Lines written back *)

\* Each line with its newline.
Ended(ls) == [i \in DOMAIN ls |-> Append(ls[i], NL)]

OneLine(S) == {l \in Seq(S) : \A i \in 1 .. Len(l) : l[i] # NL}

\* c holds these lines, each with its newline.
Holds(c, ls) ==
    /\ Newlines(c, Len(c)) = Len(ls)
    /\ Len(c) > 0 => c[Len(c)] = NL
    /\ \A k \in 1 .. Len(ls) :
          \E s, e : LineAt(c, k, s, e) /\ e < Len(c) /\ SubSeq(c, s, e) = ls[k]

LEMMA NewlinesPrefix ==
  ASSUME NEW S, NEW c \in Seq(S), NEW u \in Seq(S), NEW i \in Nat, i <= Len(c)
  PROVE  Newlines(c \o u, i) = Newlines(c, i)
<1>0. PICK n \in Nat, m \in Nat : n = Len(c) /\ m = Len(u)
  BY LenProperties
<1>1. \A j \in 1 .. n + m : (c \o u)[j] = IF j <= n THEN c[j] ELSE u[j - n]
  BY <1>0, ConcatProperties
<1>2. i <= n
  BY <1>0
<1>3. {j \in 1 .. i : (c \o u)[j] = NL} = {j \in 1 .. i : c[j] = NL}
  BY <1>1, <1>2
<1>. QED
  BY <1>3 DEF Newlines

LEMMA LineKept ==
  ASSUME NEW S, NEW c \in Seq(S), NEW u \in Seq(S), NEW k,
         NEW s \in Int, NEW e \in Int, LineAt(c, k, s, e), e < Len(c)
  PROVE  LineAt(c \o u, k, s, e) /\ e < Len(c \o u) /\ SubSeq(c \o u, s, e) = SubSeq(c, s, e)
<1>0. PICK n \in Nat, m \in Nat : n = Len(c) /\ m = Len(u)
  BY LenProperties
<1>. DEFINE d == c \o u
<1>1. /\ d \in Seq(S) /\ Len(d) = n + m
      /\ \A j \in 1 .. n + m : d[j] = IF j <= n THEN c[j] ELSE u[j - n]
  BY <1>0, ConcatProperties
<1>2. /\ s \in 1 .. n + 1 /\ e \in s - 1 .. n /\ e < n
      /\ \A i \in s .. e : c[i] # NL
      /\ s > 1 => c[s - 1] = NL
      /\ c[e + 1] = NL
      /\ Newlines(c, s - 1) = k - 1
  BY <1>0 DEF LineAt
<1>3. Newlines(d, s - 1) = k - 1
  <2>1. s - 1 \in Nat /\ s - 1 <= Len(c)
    BY <1>0, <1>2
  <2>. QED
    BY <1>2, <2>1, NewlinesPrefix
<1>. HIDE DEF d
<1>4. \A j \in 1 .. n : d[j] = c[j]
  BY <1>1
<1>5. LineAt(d, k, s, e)
  <2>1. s \in 1 .. n + m + 1 /\ e \in s - 1 .. n + m
    BY <1>2
  <2>2. \A i \in s .. e : d[i] # NL
    BY <1>2, <1>4
  <2>3. s > 1 => d[s - 1] = NL
    BY <1>2, <1>4
  <2>4. d[e + 1] = NL
    BY <1>2, <1>4
  <2>. QED
    BY <1>1, <1>3, <2>1, <2>2, <2>3, <2>4 DEF LineAt
<1>6. SubSeq(d, s, e) = SubSeq(c, s, e)
  <2>1. CASE e < s
    BY <1>2, <2>1, SubSeqEmpty
  <2>2. CASE s <= e
    BY <1>0, <1>2, <2>2, SubSeqOfConcat1 DEF d
  <2>. QED
    BY <1>2, <2>1, <2>2
<1>. QED
  BY <1>1, <1>2, <1>5, <1>6 DEF d

LEMMA LineAdded ==
  ASSUME NEW S, NL \in S, NEW c \in Seq(S), NEW ls \in Seq(OneLine(S)), Holds(c, ls), NEW l \in OneLine(S)
  PROVE  Holds(c \o Append(l, NL), Append(ls, l))
<1>0. PICK n \in Nat, m \in Nat, p \in Nat : n = Len(c) /\ m = Len(l) /\ p = Len(ls)
  BY LenProperties DEF OneLine
<1>u. PICK u \in Seq(S) : u = Append(l, NL)
  BY AppendProperties DEF OneLine
<1>. DEFINE d == c \o u
<1>1. /\ u \in Seq(S) /\ Len(u) = m + 1 /\ u[m + 1] = NL
      /\ \A i \in 1 .. m : u[i] = l[i]
  BY <1>0, <1>u, AppendProperties DEF OneLine
<1>2. /\ d \in Seq(S) /\ Len(d) = n + (m + 1)
      /\ \A j \in 1 .. n + (m + 1) : d[j] = IF j <= n THEN c[j] ELSE u[j - n]
  <2>1. u \in Seq(S) /\ Len(u) = m + 1
    BY <1>1
  <2>2. /\ c \o u \in Seq(S) /\ Len(c \o u) = Len(c) + Len(u)
        /\ \A j \in 1 .. Len(c) + Len(u) : (c \o u)[j] = IF j <= Len(c) THEN c[j] ELSE u[j - Len(c)]
    BY <2>1, ConcatProperties
  <2>. QED
    BY <1>0, <2>1, <2>2
<1>3. Newlines(d, n) = p
  BY <1>0, <1>1, NewlinesPrefix DEF Holds
<1>. HIDE DEF d
<1>4. ASSUME NEW j \in n + 1 .. n + m PROVE d[j] = l[j - n] /\ d[j] # NL
  <2>1. j \in 1 .. n + (m + 1) /\ ~(j <= n) /\ j - n \in 1 .. m
    OBVIOUS
  <2>2. d[j] = u[j - n]
    BY <1>2, <2>1
  <2>. QED
    BY <1>0, <1>1, <2>1, <2>2 DEF OneLine
<1>5. d[n + m + 1] = NL
  <2>1. n + m + 1 \in 1 .. n + (m + 1) /\ ~(n + m + 1 <= n) /\ n + m + 1 - n = m + 1
    OBVIOUS
  <2>. QED
    BY <1>1, <1>2, <2>1
<1>6. Newlines(d, n + m) = p
  <2>1. PICK a \in Nat \ {0}, b \in Nat : a = n + 1 /\ b = n + m /\ a <= b + 1 /\ a - 1 = n
    OBVIOUS
  <2>2. \A j \in a .. b : d[j] # NL
    BY <1>4, <2>1
  <2>3. Newlines(d, b) = Newlines(d, a - 1)
    BY <2>1, <2>2, NoNewlines
  <2>. QED
    BY <1>3, <2>1, <2>3
<1>7. Newlines(d, n + m + 1) = p + 1
  <2>1. n + m \in Nat
    OBVIOUS
  <2>. QED
    BY <1>5, <1>6, <2>1, NewlineCounts
<1>8. LineAt(d, p + 1, n + 1, n + m)
  <2>1. n + 1 \in 1 .. n + (m + 1) + 1 /\ n + m \in n + 1 - 1 .. n + (m + 1) /\ n + 1 - 1 = n
        /\ p + 1 - 1 = p
    OBVIOUS
  <2>2. n + 1 > 1 => d[n + 1 - 1] = NL
    <3>. SUFFICES ASSUME n > 0 PROVE d[n] = NL
      BY <2>1
    <3>1. c[n] = NL
      BY <1>0 DEF Holds
    <3>2. n \in 1 .. n + (m + 1) /\ n <= n
      OBVIOUS
    <3>. QED
      BY <1>2, <3>1, <3>2
  <2>. QED
    BY <1>2, <1>3, <1>4, <1>5, <2>1, <2>2 DEF LineAt
<1>9. SubSeq(d, n + 1, n + m) = l
  <2>1. \A j \in n + 1 .. n + m : d[j] \in S
    BY <1>2, ElementOfSeq
  <2>2. /\ SubSeq(d, n + 1, n + m) \in Seq(S)
        /\ Len(SubSeq(d, n + 1, n + m)) = m
        /\ \A i \in 1 .. m : SubSeq(d, n + 1, n + m)[i] = d[n + 1 + i - 1]
    <3>1. /\ n + 1 \in Int /\ n + m \in Int /\ n + m - (n + 1) + 1 = m
          /\ n + 1 <= n + m \/ m = 0
      OBVIOUS
    <3>. QED
      BY <2>1, <3>1, SubSeqProperties
  <2>3. ASSUME NEW i \in 1 .. m PROVE SubSeq(d, n + 1, n + m)[i] = l[i]
    <3>1. PICK j \in n + 1 .. n + m : j = n + 1 + i - 1 /\ j - n = i
      OBVIOUS
    <3>2. SubSeq(d, n + 1, n + m)[i] = d[j]
      BY <2>2, <3>1
    <3>. QED
      BY <1>4, <3>1, <3>2
  <2>4. l \in Seq(S) /\ Len(l) = m
    BY <1>0 DEF OneLine
  <2>. QED
    BY <2>2, <2>3, <2>4, SeqEqual
<1>10. /\ Len(Append(ls, l)) = p + 1 /\ Append(ls, l)[p + 1] = l
       /\ \A k \in 1 .. p : Append(ls, l)[k] = ls[k]
  BY <1>0, AppendProperties
<1>11. ASSUME NEW k \in 1 .. p + 1
       PROVE  \E s, e : LineAt(d, k, s, e) /\ e < Len(d) /\ SubSeq(d, s, e) = Append(ls, l)[k]
  <2>1. CASE k = p + 1
    <3>1. n + m < Len(d)
      BY <1>2
    <3>. QED
      BY <1>8, <1>9, <1>10, <2>1, <3>1
  <2>2. CASE k # p + 1
    <3>1. k \in 1 .. p
      BY <2>2
    <3>2. PICK s, e : LineAt(c, k, s, e) /\ e < Len(c) /\ SubSeq(c, s, e) = ls[k]
      BY <1>0, <3>1 DEF Holds
    <3>3. LineAt(d, k, s, e) /\ e < Len(d) /\ SubSeq(d, s, e) = SubSeq(c, s, e)
      <4>0. s \in Int /\ e \in Int
        BY <1>0, <3>2 DEF LineAt
      <4>1. LineAt(c \o u, k, s, e) /\ e < Len(c \o u) /\ SubSeq(c \o u, s, e) = SubSeq(c, s, e)
        BY <1>u, <3>2, <4>0, LineKept
      <4>. QED
        BY <4>1 DEF d
    <3>. QED
      BY <1>10, <3>1, <3>2, <3>3
  <2>. QED
    BY <2>1, <2>2
<1>12. Holds(d, Append(ls, l))
  <2>1. n + (m + 1) = n + m + 1
    OBVIOUS
  <2>. QED
    BY <1>2, <1>5, <1>7, <1>10, <1>11, <2>1 DEF Holds
<1>. QED
  BY <1>u, <1>12 DEF d

LEMMA EndedLines ==
  ASSUME NEW S, NL \in S, NEW ls \in Seq(OneLine(S))
  PROVE  Ended(ls) \in Seq(Seq(S)) /\ FlattenSeq(Ended(ls)) \in Seq(S)
<1>0. PICK n \in Nat : n = Len(ls) /\ DOMAIN ls = 1 .. n
  BY LenProperties
<1>1. \A i \in 1 .. n : Append(ls[i], NL) \in Seq(S)
  BY <1>0, ElementOfSeq, AppendProperties DEF OneLine
<1>2. Ended(ls) \in [1 .. n -> Seq(S)]
  BY <1>0, <1>1 DEF Ended
<1>3. Ended(ls) \in Seq(Seq(S))
  BY <1>2
<1>. QED
  BY <1>3, FlattenType

LEMMA EndedAppend ==
  ASSUME NEW S, NL \in S, NEW ls \in Seq(OneLine(S)), NEW l \in OneLine(S)
  PROVE  Ended(Append(ls, l)) = Append(Ended(ls), Append(l, NL))
<1>0. PICK n \in Nat : n = Len(ls) /\ DOMAIN ls = 1 .. n
  BY LenProperties
<1>1. /\ Append(ls, l) \in Seq(OneLine(S)) /\ Len(Append(ls, l)) = n + 1 /\ Append(ls, l)[n + 1] = l
      /\ \A k \in 1 .. n : Append(ls, l)[k] = ls[k]
      /\ DOMAIN Append(ls, l) = 1 .. n + 1
  BY <1>0, AppendProperties, LenProperties
<1>2. Ended(ls) \in Seq(Seq(S)) /\ Ended(Append(ls, l)) \in Seq(Seq(S)) /\ Append(l, NL) \in Seq(S)
  BY <1>1, EndedLines, AppendProperties DEF OneLine
<1>3. Len(Ended(ls)) = n /\ Len(Ended(Append(ls, l))) = n + 1
  <2>1. DOMAIN Ended(ls) = 1 .. n /\ DOMAIN Ended(Append(ls, l)) = 1 .. n + 1
    BY <1>0, <1>1 DEF Ended
  <2>. QED
    BY <1>2, <2>1, LenProperties
<1>4. /\ Append(Ended(ls), Append(l, NL)) \in Seq(Seq(S))
      /\ Len(Append(Ended(ls), Append(l, NL))) = n + 1
      /\ Append(Ended(ls), Append(l, NL))[n + 1] = Append(l, NL)
      /\ \A k \in 1 .. n : Append(Ended(ls), Append(l, NL))[k] = Ended(ls)[k]
  BY <1>2, <1>3, AppendProperties
<1>5. ASSUME NEW k \in 1 .. n + 1
      PROVE  Ended(Append(ls, l))[k] = Append(Ended(ls), Append(l, NL))[k]
  <2>1. Ended(Append(ls, l))[k] = Append(Append(ls, l)[k], NL)
    BY <1>1 DEF Ended
  <2>2. CASE k = n + 1
    BY <1>1, <1>4, <2>1, <2>2
  <2>3. CASE k # n + 1
    <3>1. k \in 1 .. n
      BY <2>3
    <3>2. Ended(ls)[k] = Append(ls[k], NL)
      BY <1>0, <3>1 DEF Ended
    <3>. QED
      BY <1>1, <1>4, <2>1, <3>1, <3>2
  <2>. QED
    BY <2>2, <2>3
<1>. QED
  BY <1>2, <1>3, <1>4, <1>5, SeqEqual

LEMMA LinesHeld ==
  ASSUME NEW S, NL \in S, NEW ls \in Seq(OneLine(S))
  PROVE  Holds(FlattenSeq(Ended(ls)), ls)
<1>. DEFINE T == {q \in Seq(OneLine(S)) : Holds(FlattenSeq(Ended(q)), q)}
<1>1. <<>> \in T
  <2>1. Ended(<<>>) = <<>>
    BY DEF Ended
  <2>2. FlattenSeq(Ended(<<>>)) = <<>>
    BY <2>1, FlattenEmpty
  <2>3. Holds(<<>>, <<>>)
    BY NewlinesCount, EmptySeq DEF Holds
  <2>. QED
    BY <2>2, <2>3, EmptySeq
<1>2. ASSUME NEW q \in Seq(OneLine(S)), NEW l \in OneLine(S), q \in T PROVE Append(q, l) \in T
  <2>1. Holds(FlattenSeq(Ended(q)), q) /\ FlattenSeq(Ended(q)) \in Seq(S) /\ Ended(q) \in Seq(Seq(S))
    BY <1>2, EndedLines
  <2>2. Append(l, NL) \in Seq(S)
    BY AppendProperties DEF OneLine
  <2>3. FlattenSeq(Ended(Append(q, l))) = FlattenSeq(Ended(q)) \o Append(l, NL)
    BY <2>1, <2>2, EndedAppend, FlattenAppend
  <2>4. Holds(FlattenSeq(Ended(q)) \o Append(l, NL), Append(q, l))
    BY <2>1, LineAdded
  <2>5. Append(q, l) \in Seq(OneLine(S))
    BY AppendProperties
  <2>. QED
    BY <2>3, <2>4, <2>5
<1>3. Seq(OneLine(S)) \subseteq T
  <2>. HIDE DEF T
  <2>. QED
    BY <1>1, <1>2, SequenceInduction
<1>. QED
  BY <1>3

\* Each line that getline reads is the one that the newlines before it count to.
LEMMA LinesAreCounted ==
  ASSUME NEW S, NEW c \in Seq(S), c # Absent, NEW k \in 1 .. Len(Lines(c))
  PROVE  Lines(c)[k] = LineOf(c, k) /\ Lines(c)[k] \in OneLine(S)
<1>0. PICK m \in Nat : m = Len(c)
  BY LenProperties
<1>1. PICK s, e : LineAt(c, k, s, e) /\ Lines(c)[k] = SubSeq(c, s, e)
  BY LinesRead
<1>2. s \in 1 .. m + 1 /\ e \in s - 1 .. m /\ \A i \in s .. e : c[i] # NL
  BY <1>0, <1>1 DEF LineAt
<1>3. LineAt(c, k, s, e)
  BY <1>1
<1>4. LineOf(c, k) = SubSeq(c, s, e)
  BY <1>3, LineOfLine
<1>5. /\ Len(SubSeq(c, s, e)) = IF s <= e THEN e - s + 1 ELSE 0
      /\ \A i \in 1 .. e - s + 1 : SubSeq(c, s, e)[i] = c[s + i - 1]
  <2>1. \A i \in s .. e : c[i] \in S
    BY <1>0, <1>2, ElementOfSeq
  <2>. QED
    BY <1>2, <2>1, SubSeqProperties
<1>6. ASSUME NEW i \in 1 .. Len(SubSeq(c, s, e)) PROVE SubSeq(c, s, e)[i] # NL
  <2>1. i \in 1 .. e - s + 1
    BY <1>2, <1>5
  <2>2. PICK j \in s .. e : j = s + i - 1
    BY <1>2, <2>1
  <2>. QED
    BY <1>2, <1>5, <2>1, <2>2
<1>7. Lines(c)[k] \in Seq(S)
  BY LinesRead, ElementOfSeq
<1>. QED
  BY <1>1, <1>4, <1>6, <1>7 DEF OneLine

\* The lines of c with line id replaced by t, if there is such a line.
Replaced(c, id, t) == [i \in DOMAIN Lines(c) |-> IF i = id THEN t ELSE Lines(c)[i]]

\* syncWriteLineIntoFile writes these.
LEMMA LinesRewritten ==
  ASSUME NEW S, NL \in S, NEW c \in Seq(S), c # Absent, NEW id, NEW t \in OneLine(S)
  PROVE  /\ WithLine(c, id, t) \in Seq(S)
         /\ Holds(WithLine(c, id, t), Replaced(c, id, t))
         /\ Len(Replaced(c, id, t)) = Len(Lines(c))
<1>0. PICK n \in Nat : n = Len(Lines(c)) /\ DOMAIN Lines(c) = 1 .. n
  BY LinesRead, LenProperties
<1>. DEFINE ls == Replaced(c, id, t)
<1>1. ls = [i \in 1 .. n |-> IF i = id THEN t ELSE Lines(c)[i]]
  BY <1>0 DEF Replaced
<1>2. \A i \in 1 .. n : Lines(c)[i] \in OneLine(S)
  BY <1>0, LinesAreCounted
<1>3. ls \in Seq(OneLine(S)) /\ Len(ls) = n
  <2>1. ls \in [1 .. n -> OneLine(S)]
    BY <1>1, <1>2
  <2>. HIDE DEF ls
  <2>. QED
    BY <2>1
<1>4. WithLine(c, id, t) = FlattenSeq(Ended(ls))
  <2>1. Ended(ls) = [i \in 1 .. n |-> Append(IF i = id THEN t ELSE Lines(c)[i], NL)]
    BY <1>1 DEF Ended
  <2>. QED
    BY <1>0, <2>1 DEF WithLine
<1>. QED
  BY <1>0, <1>3, <1>4, EndedLines, LinesHeld

\* So the line is replaced, the others stay, and there are as many as before.
\* The number of newlines a file has.
EndsIn(c) == Cardinality({i \in DOMAIN c : c[i] = NL})

LEMMA LineReplaced ==
  ASSUME NEW S, NL \in S, NEW c \in Seq(S), c # Absent, NEW id, NEW t \in OneLine(S),
         NEW k \in 1 .. Len(Lines(c))
  PROVE  /\ k = id => LineOf(WithLine(c, id, t), k) = t
         /\ k # id => LineOf(WithLine(c, id, t), k) = LineOf(c, k)
         /\ EndsIn(WithLine(c, id, t)) = Len(Lines(c))
<1>0. PICK n \in Nat : n = Len(Lines(c)) /\ DOMAIN Lines(c) = 1 .. n
  BY LinesRead, LenProperties
<1>1. PICK d \in Seq(S) : d = WithLine(c, id, t)
  BY LinesRewritten
<1>2. PICK ls : ls = Replaced(c, id, t) /\ Holds(d, ls) /\ Len(ls) = n
  BY <1>0, <1>1, LinesRewritten
<1>3. EndsIn(d) = n
  <2>1. DOMAIN d = 1 .. Len(d) /\ Newlines(d, Len(d)) = n
    BY <1>2, LenProperties DEF Holds
  <2>. QED
    BY <2>1 DEF Newlines, EndsIn
<1>4. LineOf(d, k) = ls[k]
  <2>1. PICK s, e : LineAt(d, k, s, e) /\ SubSeq(d, s, e) = ls[k]
    BY <1>0, <1>2 DEF Holds
  <2>2. LineAt(d, k, s, e)
    BY <2>1
  <2>3. LineOf(d, k) = SubSeq(d, s, e)
    BY <2>2, LineOfLine
  <2>. QED
    BY <2>1, <2>3
<1>5. ls[k] = IF k = id THEN t ELSE Lines(c)[k]
  BY <1>0, <1>2 DEF Replaced
<1>. QED
  BY <1>0, <1>1, <1>3, <1>4, <1>5, LinesAreCounted

-----------------------------------------------------------------------------
(* The files that are edited by lines.                                     *)

LineTypes == \A f \in LineFiles : file[f] \in Seq(Chars \cup {NL}) \cup {Absent}

LEMMA LineTextTypes ==
  ASSUME NEW t \in LineTexts
  PROVE  t \in OneLine(Chars \cup {NL})
<1>1. t \in Seq(Chars \ {NL})
  BY LinesAssumption
<1>2. t \in Seq(Chars \cup {NL})
  BY <1>1, SeqMonotonic
<1>3. ASSUME NEW i \in 1 .. Len(t) PROVE t[i] # NL
  BY <1>1, ElementOfSeq
<1>. QED
  BY <1>2, <1>3 DEF OneLine

\* Jobs leave these files alone.
LEMMA LineFilesEdited ==
  ASSUME Inv, [Next]_vars, NEW f \in LineFiles
  PROVE  \/ file'[f] = file[f]
         \/ /\ file[f] # Absent
            /\ \E id : \E t \in LineTexts : file'[f] = WithLine(file[f], id, t)
<1>0. DOMAIN file = Files /\ f \in Files /\ f \notin Served
  BY FilesAssumption, ServedFiles DEF Inv, Types, FileTypes
<1>1. ASSUME NEW g \in Served, NEW c, file' = Written(g, c) PROVE file'[f] = file[f]
  BY <1>0, <1>1 DEF Written
<1>2. CASE UNCHANGED vars
  BY <1>2 DEF vars, disk
<1>3. CASE Caller \/ InCall
  BY <1>3 DEF Caller, InCall, AsyncFile, AsyncFifoRead, AsyncFifoWrite, FifoCreate, Assign,
              SubmitWrite, disk
<1>4. CASE Edit
  <2>1. \E g \in LineFiles : \E id : \E t \in LineTexts : EditLine(g, id, t)
    BY <1>4 DEF Edit
  <2>2. PICK g \in LineFiles : \E id : \E t \in LineTexts :
            file[g] # Absent /\ file' = [file EXCEPT ![g] = WithLine(file[g], id, t)]
    BY <2>1 DEF EditLine
  <2>3. PICK id : \E t \in LineTexts :
            file[g] # Absent /\ file' = [file EXCEPT ![g] = WithLine(file[g], id, t)]
    BY <2>2
  <2>. QED
    BY <1>0, <2>3
<1>5. CASE StartJob
  BY <1>5 DEF StartJob, disk
<1>6. ASSUME NEW n \in running, Run(n) PROVE file'[f] = file[f]
  <2>1. CASE Callback(n) \/ OpenFifo(n) \/ WriteFifoText(n) \/ ReadFifoTexts(n)
    BY <2>1 DEF Callback, OpenFifo, WriteFifoText, ReadFifoTexts, disk
  <2>2. CASE LockFile(n) \/ ReadAll(n)
    BY <2>2 DEF LockFile, ReadAll
  <2>3. CASE Truncate(n)
    <3>1. n \in FileJobs /\ file' = Written(FileOf[job[n].obj], <<>>)
      BY <2>3, TruncateWorks
    <3>2. FileOf[job[n].obj] \in Served
      BY <3>1, FileJobObject DEF Inv, Types
    <3>. QED
      BY <1>1, <3>1, <3>2
  <2>4. CASE WriteAll(n)
    <3>1. n \in FileJobs /\ \E c : file' = Written(FileOf[job[n].obj], c)
      BY <2>4, WriteWorks
    <3>2. FileOf[job[n].obj] \in Served
      BY <3>1, FileJobObject DEF Inv, Types
    <3>. QED
      BY <1>1, <3>1, <3>2
  <2>5. CASE AppendText(n)
    <3>1. n \in FileJobs /\ \E c : file' = Written(FileOf[job[n].obj], c)
      BY <2>5, AppendWorks
    <3>2. FileOf[job[n].obj] \in Served
      BY <3>1, FileJobObject DEF Inv, Types
    <3>. QED
      BY <1>1, <3>1, <3>2
  <2>. QED
    BY <1>6, <2>1, <2>2, <2>3, <2>4, <2>5 DEF Run
<1>. QED
  BY <1>2, <1>3, <1>4, <1>5, <1>6 DEF Next

LEMMA LineStep ==
  ASSUME Inv, LineTypes, [Next]_vars
  PROVE  LineTypes'
<1>. SUFFICES ASSUME NEW f \in LineFiles PROVE file'[f] \in Seq(Chars \cup {NL}) \cup {Absent}
  BY DEF LineTypes
<1>1. file[f] \in Seq(Chars \cup {NL}) \cup {Absent}
  BY DEF LineTypes
<1>2. ASSUME file[f] # Absent, NEW id, NEW t \in LineTexts
      PROVE  WithLine(file[f], id, t) \in Seq(Chars \cup {NL})
  <2>1. t \in OneLine(Chars \cup {NL})
    BY LineTextTypes
  <2>2. file[f] \in Seq(Chars \cup {NL}) /\ NL \in Chars \cup {NL}
    BY <1>1, <1>2
  <2>. QED
    BY <1>2, <2>1, <2>2, LinesRewritten
<1>. QED
  BY <1>1, <1>2, LineFilesEdited

LEMMA LinesOfNothing == Lines(Absent) = <<>>
<1>1. <<>> \in Seq({}) /\ Len(<<>>) = 0
  BY EmptySeq
<1>2. Scan(<<>>)[0] = Nothing
  BY <1>1, ScanFunction DEF Scans
<1>. QED
  BY <1>1, <1>2 DEF Lines, Base, Nothing

LEMMA LineTypesSuffice ==
  ASSUME LineTypes
  PROVE  LineCalls
<1>. DEFINE S == Chars \cup {NL}
<1>1. ASSUME NEW f \in LineFiles, NEW id \in 1 .. Len(Lines(file[f]))
      PROVE  /\ file[f] \in Seq(S) /\ file[f] # Absent /\ Len(Lines(file[f])) \in Nat
             /\ Lines(file[f])[id] = LineOf(file[f], id)
  <2>1. file[f] # Absent
    BY LinesOfNothing, EmptySeq
  <2>2. file[f] \in Seq(S)
    BY <2>1 DEF LineTypes
  <2>. QED
    BY <2>1, <2>2, LinesRead, LenProperties, LinesAreCounted
<1>2. ASSUME NEW f \in LineFiles, NEW id \in 1 .. Len(Lines(file[f])), NEW garbage \in Int
      PROVE  LET r == ReadLine(file[f], id, garbage) IN
                 /\ r.ok => r.text = LineOf(file[f], id)
                 /\ garbage >= 0 => r.ok
  <2>0. PICK n \in Nat : n = Len(Lines(file[f]))
    BY <1>1
  <2>1. id \in 1 .. n /\ id \in Int /\ id > 0 /\ id <= n
    BY <2>0
  <2>2. CASE id > garbage + n
    <3>1. ReadLine(file[f], id, garbage) = Refused /\ ~(garbage >= 0)
      BY <2>0, <2>1, <2>2 DEF ReadLine
    <3>. QED
      BY <3>1 DEF Refused
  <2>3. CASE ~(id > garbage + n)
    <3>1. ReadLine(file[f], id, garbage) = [ok |-> TRUE, text |-> Lines(file[f])[id]]
      BY <1>1, <2>0, <2>1, <2>3 DEF ReadLine
    <3>. QED
      BY <1>1, <3>1
  <2>. QED
    BY <2>2, <2>3
<1>3. ASSUME NEW f \in LineFiles, NEW id \in 1 .. Len(Lines(file[f])), NEW t \in LineTexts
      PROVE  LET edited == WithLine(file[f], id, t) IN
                 /\ Cardinality({i \in DOMAIN edited : edited[i] = NL}) = Len(Lines(file[f]))
                 /\ \A k \in 1 .. Len(Lines(file[f])) :
                       LineOf(edited, k) = IF k = id THEN t ELSE LineOf(file[f], k)
  <2>1. t \in OneLine(S) /\ NL \in S
    BY LineTextTypes
  <2>2. file[f] \in Seq(S) /\ file[f] # Absent
    BY <1>1
  <2>. HIDE DEF S
  <2>3. PICK c \in Seq(S) : c = file[f]
    BY <2>2
  <2>4. c # Absent /\ c \in Seq(S)
    BY <2>2, <2>3
  <2>5. /\ \A k \in 1 .. Len(Lines(c)) :
              LineOf(WithLine(c, id, t), k) = IF k = id THEN t ELSE LineOf(c, k)
        /\ Len(Lines(c)) >= 1 => EndsIn(WithLine(c, id, t)) = Len(Lines(c))
    <3>1. ASSUME NEW k \in 1 .. Len(Lines(c))
          PROVE  /\ k = id => LineOf(WithLine(c, id, t), k) = t
                 /\ k # id => LineOf(WithLine(c, id, t), k) = LineOf(c, k)
                 /\ EndsIn(WithLine(c, id, t)) = Len(Lines(c))
      BY <2>1, <2>4, LineReplaced
    <3>2. Len(Lines(c)) \in Nat
      BY <1>1, <2>3
    <3>3. Len(Lines(c)) >= 1 => 1 \in 1 .. Len(Lines(c))
      BY <3>2
    <3>. QED
      BY <3>1, <3>3
  <2>6. Len(Lines(c)) >= 1
    <3>1. Len(Lines(c)) \in Nat /\ id \in 1 .. Len(Lines(c))
      BY <1>1, <2>3
    <3>. QED
      BY <3>1
  <2>. QED
    BY <2>3, <2>5, <2>6 DEF EndsIn
<1>4. ASSUME NEW f \in LineFiles, NEW id \in 1 .. Len(Lines(file[f]))
      PROVE  \A garbage \in {-Len(Lines(file[f])), -1, 0, 1} : garbage \in Int
  BY <1>1
<1>. QED
  BY <1>2, <1>3, <1>4 DEF LineCalls

(***************************************************************************)
(* syncReadLineFromFile returns the line it is asked for or refuses, and   *)
(* it refuses no line that exists unless the line_num it leaves            *)
(* uninitialised is negative; syncWriteLineIntoFile replaces the line it   *)
(* is given and no other.                                                  *)
(***************************************************************************)
THEOREM LinesAsNamed == Spec => []LineCalls
<1>1. Init => LineTypes
  BY LinesAssumption DEF Init, LineTypes
<1>2. Inv /\ LineTypes /\ [Next]_vars => LineTypes'
  BY LineStep
<1>3. LineTypes => LineCalls
  BY LineTypesSuffice
<1>. QED
  BY <1>1, <1>2, <1>3, JobsHoldTheirLocks, PTL DEF Spec

=============================================================================
